---------------------------- MODULE ClientStore ----------------------------
(***************************************************************************)
(* The dynamic client registrations of oauth.Provider and the file they    *)
(* are kept in.                                                            *)
(*                                                                         *)
(* A provider reads the file once, when it is created, and from then on    *)
(* trusts its memory.  register adds the client to the map and writes the  *)
(* whole map to path.tmp, which it then renames to path; the mutex is held *)
(* all along, so a provider saves one registration at a time, but nothing  *)
(* ties it to another process that uses the same file.  A process may be   *)
(* killed between any two system calls and its successor, the next         *)
(* container, starts from the file.  The statically configured client is   *)
(* never saved and is left out.                                            *)
(*                                                                         *)
(* Files have an identity of their own, as inodes do: the rename moves     *)
(* whatever file path.tmp names at that moment.  A write is one step.      *)
(* Loss of what the operating system had cached is not modelled.           *)
(***************************************************************************)
EXTENDS FiniteSets, Naturals

CONSTANTS
  Providers,  \* processes, one per container
  Clients,    \* client IDs, each the result of one randomToken
  Files,      \* file identities
  NoFile,     \* a name without a file, a process without an open one
  NoClient,   \* a provider that registers nobody
  Overlap     \* whether a provider may start before its predecessor is gone

ASSUME ConstantsAssumption ==
  /\ NoFile \notin Files
  /\ NoClient \notin Clients
  /\ Overlap \in BOOLEAN

VARIABLES
  status,     \* status[p]: "new", "up", "gone", or "failed" to start
  clients,    \* clients[p]: Provider.clients
  pc,         \* pc[p]: where saveClientsLocked is
  current,    \* current[p]: the client being registered
  fd,         \* fd[p]: the file it has open for writing
  path, tmp,  \* the files ClientStorePath and its ".tmp" name
  content,    \* content[f]: what file f holds
  acked,      \* clients whose registration was answered 201
  used        \* client IDs that were drawn

vars == <<status, clients, pc, current, fd, path, tmp, content, acked, used>>

-----------------------------------------------------------------------------
\* A file holds the JSON list of some clients, or is no JSON at all: empty,
\* or one list written over another.
Contents == [form: {"list", "empty", "mixed"}, clients: SUBSET Clients]
List(C) == [form |-> "list", clients |-> C]
Empty == [form |-> "empty", clients |-> {}]
Mixed == [form |-> "mixed", clients |-> {}]

\* What a fresh process would read: no file counts as no clients.
Readable == path # NoFile => content[path].form = "list"
Stored == IF path = NoFile THEN {} ELSE content[path].clients

Unused == {f \in Files : f # path /\ f # tmp /\ \A p \in Providers : fd[p] # f}

Init ==
  /\ status  = [p \in Providers |-> "new"]
  /\ clients = [p \in Providers |-> {}]
  /\ pc      = [p \in Providers |-> "idle"]
  /\ current = [p \in Providers |-> NoClient]
  /\ fd      = [p \in Providers |-> NoFile]
  /\ path    = NoFile
  /\ tmp     = NoFile
  /\ content = [f \in Files |-> Empty]
  /\ acked   = {}
  /\ used    = {}

-----------------------------------------------------------------------------
\* Defective variant: the registrations of earlier processes are not loaded.
BootEmpty(p) ==
  /\ status[p] = "new"
  /\ Overlap \/ \A q \in Providers : status[q] # "up"
  /\ status' = [status EXCEPT ![p] = "up"]
  /\ UNCHANGED <<clients, pc, current, fd, path, tmp, content, acked, used>>

\* oauth.New: a file that cannot be decoded ends the process.
Boot(p) ==
  /\ status[p] = "new"
  /\ Overlap \/ \A q \in Providers : status[q] # "up"
  /\ \/ /\ Readable
        /\ status' = [status EXCEPT ![p] = "up"]
        /\ clients' = [clients EXCEPT ![p] = Stored]
     \/ /\ ~Readable
        /\ status' = [status EXCEPT ![p] = "failed"]
        /\ UNCHANGED clients
  /\ UNCHANGED <<pc, current, fd, path, tmp, content, acked, used>>

\* The process is stopped or killed.
Stop(p) ==
  /\ status[p] = "up"
  /\ status' = [status EXCEPT ![p] = "gone"]
  /\ clients' = [clients EXCEPT ![p] = {}]
  /\ pc' = [pc EXCEPT ![p] = "idle"]
  /\ current' = [current EXCEPT ![p] = NoClient]
  /\ fd' = [fd EXCEPT ![p] = NoFile]
  /\ UNCHANGED <<path, tmp, content, acked, used>>

\* register: the client enters the map before it is saved.
Register(p, c) ==
  /\ status[p] = "up"
  /\ pc[p] = "idle"
  /\ c \notin used
  /\ used' = used \cup {c}
  /\ clients' = [clients EXCEPT ![p] = @ \cup {c}]
  /\ current' = [current EXCEPT ![p] = c]
  /\ pc' = [pc EXCEPT ![p] = "open"]
  /\ UNCHANGED <<status, fd, path, tmp, content, acked>>

\* Defective variant: the file is rewritten in place.
OpenInPlace(p) ==
  /\ pc[p] = "open"
  /\ pc' = [pc EXCEPT ![p] = "write"]
  /\ \E f \in Files :
       /\ IF path = NoFile THEN f \in Unused ELSE f = path
       /\ path' = f
       /\ tmp' = f
       /\ fd' = [fd EXCEPT ![p] = f]
       /\ content' = [content EXCEPT ![f] = Empty]
  /\ UNCHANGED <<status, clients, current, acked, used>>

\* os.WriteFile opens path.tmp, creating or truncating it ...
OpenTmp(p) ==
  /\ pc[p] = "open"
  /\ pc' = [pc EXCEPT ![p] = "write"]
  /\ \E f \in Files :
       /\ IF tmp = NoFile THEN f \in Unused ELSE f = tmp
       /\ tmp' = f
       /\ fd' = [fd EXCEPT ![p] = f]
       /\ content' = [content EXCEPT ![f] = Empty]
  /\ UNCHANGED <<status, clients, current, path, acked, used>>

\* Defective variant: only the new client is written.
WriteCurrent(p) ==
  /\ pc[p] = "write"
  /\ pc' = [pc EXCEPT ![p] = "rename"]
  /\ fd' = [fd EXCEPT ![p] = NoFile]
  /\ content' = [content EXCEPT ![fd[p]] = List({current[p]})]
  /\ UNCHANGED <<status, clients, current, path, tmp, acked, used>>

\* ... and writes the clients from its start; what another process has
\* written since it was truncated may show behind a shorter list.
WriteTmp(p) ==
  /\ pc[p] = "write"
  /\ pc' = [pc EXCEPT ![p] = "rename"]
  /\ fd' = [fd EXCEPT ![p] = NoFile]
  /\ \/ content' = [content EXCEPT ![fd[p]] = List(clients[p])]
     \/ /\ content[fd[p]] \notin {Empty, List(clients[p])}
        /\ content' = [content EXCEPT ![fd[p]] = Mixed]
  /\ UNCHANGED <<status, clients, current, path, tmp, acked, used>>

\* register answers: 201 when saved, else 500, with the client still in the
\* map for the next registration to save.
Answered(p, C) ==
  /\ pc' = [pc EXCEPT ![p] = "idle"]
  /\ current' = [current EXCEPT ![p] = NoClient]
  /\ acked' = acked \cup C

Rename(p) ==
  /\ pc[p] = "rename"
  /\ tmp # NoFile
  /\ path' = tmp
  /\ tmp' = NoFile
  /\ Answered(p, {current[p]})
  /\ UNCHANGED <<status, clients, fd, content, used>>

\* Defective variant: the mutex stays locked after an error.
SaveFailsLocked(p) ==
  /\ pc[p] \in {"open", "write", "rename"}
  /\ fd' = [fd EXCEPT ![p] = NoFile]
  /\ current' = [current EXCEPT ![p] = NoClient]
  /\ UNCHANGED <<status, clients, pc, path, tmp, content, acked, used>>

\* Creating the directory, opening, writing or renaming fails; the rename
\* does when another process has already moved path.tmp.
SaveFails(p) ==
  /\ pc[p] \in {"open", "write", "rename"}
  /\ fd' = [fd EXCEPT ![p] = NoFile]
  /\ Answered(p, {})
  /\ UNCHANGED <<status, clients, path, tmp, content, used>>

Next ==
  \E p \in Providers :
    \/ Boot(p)
    \/ Stop(p)
    \/ \E c \in Clients : Register(p, c)
    \/ OpenTmp(p)
    \/ WriteTmp(p)
    \/ Rename(p)
    \/ SaveFails(p)

Spec == Init /\ [][Next]_vars

-----------------------------------------------------------------------------
TypeOK ==
  /\ status  \in [Providers -> {"new", "up", "gone", "failed"}]
  /\ clients \in [Providers -> SUBSET Clients]
  /\ pc      \in [Providers -> {"idle", "open", "write", "rename"}]
  /\ current \in [Providers -> Clients \cup {NoClient}]
  /\ fd      \in [Providers -> Files \cup {NoFile}]
  /\ path    \in Files \cup {NoFile}
  /\ tmp     \in Files \cup {NoFile}
  /\ content \in [Files -> Contents]
  /\ acked   \in SUBSET Clients
  /\ used    \in SUBSET Clients
  /\ \A p \in Providers : pc[p] = "idle" <=> current[p] = NoClient

\* The file can be read at any moment, whenever the process is killed and
\* however a save fails: the next container starts (oauth.go:831-835, 797).
StoreReadable == Readable /\ \A p \in Providers : status[p] # "failed"

\* A registration that was acknowledged is in the file and stays there, past
\* any later failed save or crash (Docker/README.md:124-125).
AcknowledgedSurvive == acked \subseteq Stored

\* A running provider knows every acknowledged client: none is told
\* "unknown client_id" (oauth.go:427).
AcknowledgedKnown ==
  \A p \in Providers : status[p] = "up" => acked \subseteq clients[p]
=============================================================================
