------------------------- MODULE ClientStoreProofs -------------------------
(***************************************************************************)
(* Proofs about ClientStore for any number of successive processes, no two *)
(* of which run together: Overlap is assumed to be FALSE where that        *)
(* matters, and the run client_store_overlap shows that it does.           *)
(*                                                                         *)
(* That the file has every acknowledged client cannot be shown by itself:  *)
(* a save replaces the whole file by what the process has in memory, so    *)
(* that memory must include the file, and what path.tmp holds before the   *)
(* rename must be all of memory.                                           *)
(***************************************************************************)
EXTENDS ClientStore, TLAPS

USE ConstantsAssumption

-----------------------------------------------------------------------------
(* Types.                                                                  *)

LEMMA TypeInit == Init => TypeOK
BY DEF Init, TypeOK, Contents, Empty

LEMMA TypeStep == TypeOK /\ [Next]_vars => TypeOK'
<1> SUFFICES ASSUME TypeOK, [Next]_vars PROVE TypeOK'
  OBVIOUS
<1> USE DEF TypeOK
<1>1. ASSUME NEW p \in Providers, Boot(p)
      PROVE  TypeOK'
  BY <1>1 DEF Boot, Stored, Contents
<1>2. ASSUME NEW p \in Providers, Stop(p)
      PROVE  TypeOK'
  BY <1>2 DEF Stop
<1>3. ASSUME NEW p \in Providers, NEW c \in Clients, Register(p, c)
      PROVE  TypeOK'
  BY <1>3 DEF Register
<1>4. ASSUME NEW p \in Providers, OpenTmp(p)
      PROVE  TypeOK'
  BY <1>4 DEF OpenTmp, Contents, Empty
<1>5. ASSUME NEW p \in Providers, WriteTmp(p)
      PROVE  TypeOK'
  BY <1>5 DEF WriteTmp, Contents, List, Mixed
<1>6. ASSUME NEW p \in Providers, Rename(p)
      PROVE  TypeOK'
  BY <1>6 DEF Rename, Answered
<1>7. ASSUME NEW p \in Providers, SaveFails(p)
      PROVE  TypeOK'
  BY <1>7 DEF SaveFails, Answered
<1>8. CASE UNCHANGED vars
  BY <1>8 DEF vars
<1> QED
  BY <1>1, <1>2, <1>3, <1>4, <1>5, <1>6, <1>7, <1>8 DEF Next

(* The state is well typed, and a process is idle just when it registers   *)
(* nobody, whatever fails (oauth.go:237-339).                              *)
THEOREM TypeCorrect == Spec => []TypeOK
BY TypeInit, TypeStep, PTL DEF Spec

-----------------------------------------------------------------------------
(* One process at a time.                                                  *)

\* At most one process is up, and only a process that is up does anything.
OneUp ==
  /\ \A p, q \in Providers : status[p] = "up" /\ status[q] = "up" => p = q
  /\ \A p \in Providers : pc[p] # "idle" => status[p] = "up"

\* The file is never the one that is being written, and always a list.
FileWhole == path # NoFile => path # tmp /\ content[path].form = "list"

\* How far a save has come.
SaveState ==
  \A p \in Providers :
    /\ pc[p] = "write" => fd[p] = tmp /\ tmp \in Files /\ content[tmp] = Empty
    /\ pc[p] = "rename" => tmp \in Files /\ content[tmp] = List(clients[p])

\* What was acknowledged is in the file, and what is in the file or about to
\* be acknowledged is in memory.
MemoryComplete ==
  /\ acked \subseteq Stored
  /\ \A p \in Providers : status[p] = "up" =>
       /\ Stored \subseteq clients[p]
       /\ current[p] # NoClient => current[p] \in clients[p]

SaveInv == /\ OneUp
           /\ \A p \in Providers : status[p] # "failed"
           /\ FileWhole
           /\ SaveState
           /\ MemoryComplete

LEMMA SaveInit == Init => SaveInv
BY DEF Init, SaveInv, OneUp, FileWhole, SaveState, MemoryComplete, Stored

LEMMA SaveStep ==
  ASSUME Overlap = FALSE, TypeOK, SaveInv, [Next]_vars PROVE SaveInv'
<1> USE DEF TypeOK, SaveInv
<1>1. ASSUME NEW p \in Providers, Boot(p)
      PROVE  SaveInv'
  <2>1. Readable
    BY DEF Readable, FileWhole
  <2>2. UNCHANGED <<pc, current, fd, path, tmp, content, acked>>
    BY <1>1 DEF Boot
  <2>3. /\ \A q \in Providers : status[q] # "up" /\ pc[q] = "idle"
        /\ status' = [status EXCEPT ![p] = "up"]
        /\ clients' = [clients EXCEPT ![p] = Stored]
    BY <1>1, <2>1 DEF Boot, OneUp
  <2>4. OneUp' /\ (\A q \in Providers : status'[q] # "failed")
    BY <2>2, <2>3 DEF OneUp
  <2>5. FileWhole' /\ SaveState'
    BY <2>2, <2>3 DEF FileWhole, SaveState
  <2>6. MemoryComplete'
    BY <2>2, <2>3 DEF MemoryComplete, Stored
  <2> QED
    BY <2>4, <2>5, <2>6
<1>2. ASSUME NEW p \in Providers, Stop(p)
      PROVE  SaveInv'
  BY <1>2 DEF Stop, OneUp, FileWhole, SaveState, MemoryComplete, Stored
<1>3. ASSUME NEW p \in Providers, NEW c \in Clients, Register(p, c)
      PROVE  SaveInv'
  BY <1>3 DEF Register, OneUp, FileWhole, SaveState, MemoryComplete, Stored
<1>4. ASSUME NEW p \in Providers, OpenTmp(p)
      PROVE  SaveInv'
  <2>1. PICK f \in Files :
          /\ IF tmp = NoFile THEN f \in Unused ELSE f = tmp
          /\ tmp' = f
          /\ fd' = [fd EXCEPT ![p] = f]
          /\ content' = [content EXCEPT ![f] = Empty]
    BY <1>4 DEF OpenTmp
  <2>2. /\ UNCHANGED <<status, clients, current, path, acked>>
        /\ pc' = [pc EXCEPT ![p] = "write"]
        /\ pc[p] = "open"
    BY <1>4 DEF OpenTmp
  <2>3. f # path
    BY <2>1 DEF FileWhole, Unused
  <2>4. OneUp' /\ (\A q \in Providers : status'[q] # "failed")
    BY <2>2 DEF OneUp
  <2>5. FileWhole' /\ Stored' = Stored
    BY <2>1, <2>2, <2>3 DEF FileWhole, Stored
  <2>6. SaveState'
    BY <2>1, <2>2 DEF SaveState, OneUp
  <2> QED
    BY <2>2, <2>4, <2>5, <2>6 DEF MemoryComplete
<1>5. ASSUME NEW p \in Providers, WriteTmp(p)
      PROVE  SaveInv'
  <2>1. /\ pc[p] = "write" /\ pc' = [pc EXCEPT ![p] = "rename"]
        /\ UNCHANGED <<status, clients, current, path, tmp, acked>>
    BY <1>5 DEF WriteTmp
  <2>2. /\ fd[p] = tmp /\ tmp \in Files
        /\ content' = [content EXCEPT ![tmp] = List(clients[p])]
    BY <1>5 DEF WriteTmp, SaveState
  <2>3. OneUp' /\ (\A q \in Providers : status'[q] # "failed")
    BY <2>1 DEF OneUp
  <2>4. FileWhole' /\ Stored' = Stored
    BY <2>1, <2>2 DEF FileWhole, Stored
  <2>5. SaveState'
    BY <2>1, <2>2 DEF SaveState, OneUp
  <2> QED
    BY <2>1, <2>3, <2>4, <2>5 DEF MemoryComplete
<1>6. ASSUME NEW p \in Providers, Rename(p)
      PROVE  SaveInv'
  <2>1. /\ pc[p] = "rename" /\ pc' = [pc EXCEPT ![p] = "idle"]
        /\ current' = [current EXCEPT ![p] = NoClient]
        /\ path' = tmp /\ tmp' = NoFile
        /\ acked' = acked \cup {current[p]}
        /\ UNCHANGED <<status, clients, fd, content>>
    BY <1>6 DEF Rename, Answered
  <2>2. tmp \in Files /\ content[tmp] = List(clients[p])
    BY <2>1 DEF SaveState
  <2>3. OneUp' /\ (\A q \in Providers : status'[q] # "failed")
    BY <2>1 DEF OneUp
  <2>4. FileWhole' /\ Stored' = clients[p]
    BY <2>1, <2>2 DEF FileWhole, Stored, List
  <2>5. SaveState'
    BY <2>1 DEF SaveState, OneUp
  <2>6. status[p] = "up" /\ current[p] # NoClient
    BY <2>1 DEF OneUp
  <2>7. acked' \subseteq clients[p]
    BY <2>1, <2>6 DEF MemoryComplete
  <2>8. MemoryComplete'
    BY <2>1, <2>4, <2>6, <2>7 DEF MemoryComplete, OneUp
  <2> QED
    BY <2>3, <2>4, <2>5, <2>8
<1>7. ASSUME NEW p \in Providers, SaveFails(p)
      PROVE  SaveInv'
  BY <1>7 DEF SaveFails, Answered, OneUp, FileWhole, SaveState, MemoryComplete,
    Stored
<1>8. CASE UNCHANGED vars
  BY <1>8 DEF vars, OneUp, FileWhole, SaveState, MemoryComplete, Stored
<1> QED
  BY <1>1, <1>2, <1>3, <1>4, <1>5, <1>6, <1>7, <1>8 DEF Next

(* Wherever a process is killed and whichever step of a save fails, the    *)
(* file is a list that the next process can load, acknowledged clients are *)
(* in it, and every process that runs knows them (oauth.go:785-835).       *)
THEOREM Durability ==
  ASSUME Overlap = FALSE
  PROVE  Spec => [](StoreReadable /\ AcknowledgedSurvive /\ AcknowledgedKnown)
<1>1. TypeOK /\ SaveInv /\ [Next]_vars => SaveInv'
  BY SaveStep
<1>2. SaveInv => StoreReadable /\ AcknowledgedSurvive /\ AcknowledgedKnown
  BY DEF SaveInv, FileWhole, MemoryComplete, StoreReadable, Readable,
    AcknowledgedSurvive, AcknowledgedKnown
<1> QED
  BY <1>1, <1>2, TypeCorrect, SaveInit, PTL DEF Spec
=============================================================================
