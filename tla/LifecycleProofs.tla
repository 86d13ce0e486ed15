-------------------------- MODULE LifecycleProofs --------------------------
(***************************************************************************)
(* Proofs about Lifecycle, for any number of requests and slots.           *)
(*                                                                         *)
(* A slot is given back on the way out of a handler, so that slots stays   *)
(* a natural number only because it counts handlers: the type invariant    *)
(* and SlotsExact are inductive together and neither is alone.  What the   *)
(* audit trail may lack follows from where a changing call can be, and     *)
(* from what a graceful shutdown leaves behind.                            *)
(***************************************************************************)
EXTENDS Lifecycle, FiniteSetTheorems, TLAPS

USE ConstantsAssumption

-----------------------------------------------------------------------------
(* Slots.                                                                  *)

SlotInv == TypeOK /\ SlotsExact

LEMMA FiniteIn == ASSUME NEW P PROVE IsFiniteSet(In(P))
BY FS_Subset DEF In

\* A request moves between two phases on the same side of the gate.
LEMMA SameSide ==
  ASSUME TypeOK, SlotsExact, NEW r \in Requests, NEW from, NEW to \in Phases,
         Trans(r, from, to), UNCHANGED <<main, slots>>,
         from \in InHandler <=> to \in InHandler
  PROVE  SlotsExact'
<1>1. In(InHandler)' = In(InHandler)
  BY DEF TypeOK, Trans, In
<1> QED
  BY <1>1 DEF SlotsExact, Running

\* It passes the gate ...
LEMMA GateIn ==
  ASSUME TypeOK, SlotsExact, NEW r \in Requests, NEW from, NEW to \in Phases,
         Trans(r, from, to), main' = main, slots' = slots + 1,
         from \notin InHandler, to \in InHandler
  PROVE  SlotsExact'
<1>1. In(InHandler)' = In(InHandler) \cup {r}
  BY DEF TypeOK, Trans, In
<1>2. r \notin In(InHandler)
  BY DEF Trans, In
<1>3. Cardinality(In(InHandler) \cup {r}) = Cardinality(In(InHandler)) + 1
  BY <1>2, FiniteIn, FS_AddElement
<1> QED
  BY <1>1, <1>3 DEF SlotsExact, Running, Trans

\* ... and leaves, in which case there was a slot to give back.
LEMMA GateOut ==
  ASSUME TypeOK, SlotsExact, NEW r \in Requests, NEW from, NEW to \in Phases,
         Trans(r, from, to), main' = main, slots' = slots - 1,
         from \in InHandler, to \notin InHandler
  PROVE  SlotsExact' /\ slots' \in 0..MaxConcurrent
<1>1. In(InHandler)' = In(InHandler) \ {r}
  BY DEF TypeOK, Trans, In
<1>2. r \in In(InHandler)
  BY DEF Trans, In
<1>3. Cardinality(In(InHandler) \ {r}) = Cardinality(In(InHandler)) - 1
  BY <1>2, FiniteIn, FS_RemoveElement
<1>4. Cardinality(In(InHandler) \ {r}) \in Nat
  BY FiniteIn, FS_RemoveElement, FS_CardinalityType
<1> QED
  BY <1>1, <1>3, <1>4 DEF SlotsExact, Running, Trans, TypeOK

LEMMA SlotInit == Init => SlotInv
<1> SUFFICES ASSUME Init PROVE SlotInv
  OBVIOUS
<1>1. TypeOK
  <2>1. main \in Mains \land audit \in {"open","closed"} \land graceful \in BOOLEAN
    BY DEF Init, Mains
  <2>2. phase \in [Requests -> Phases]
    BY DEF Init, Phases
  <2>3. slots \in 0..MaxConcurrent
    BY DEF Init
  <2>4. \A r \in Requests : phase[r] = "dead" => ~Running
    BY DEF Init
  <2>5. log \subseteq Requests /\ changed \subseteq Requests /\ lost \subseteq Requests
    BY DEF Init
  <2> QED
    BY <2>1, <2>2, <2>3, <2>4, <2>5 DEF TypeOK
<1>2. In(InHandler) = {}
  BY DEF Init, In, InHandler
<1> QED
  BY <1>1, <1>2, FS_EmptySet DEF Init, SlotInv, SlotsExact

LEMMA SlotStep == SlotInv /\ [Next]_vars => SlotInv'
<1> SUFFICES ASSUME TypeOK, SlotsExact, [Next]_vars PROVE SlotInv'
  BY DEF SlotInv
<1> USE DEF SlotInv
<1>1. ASSUME NEW r \in Requests, NEW from, NEW to \in Phases \ {"dead"},
             Trans(r, from, to), UNCHANGED <<main, slots, audit, graceful>>,
             from \in InHandler <=> to \in InHandler,
             log' \subseteq Requests, changed' \subseteq Requests,
             lost' \subseteq Requests
      PROVE  SlotInv'
  <2>1. TypeOK'
    BY <1>1 DEF TypeOK, Trans, Running
  <2> QED
    BY <1>1, <2>1, SameSide
<1>2. ASSUME NEW r \in Requests, Enter(r)
      PROVE  SlotInv'
  <2>1. TypeOK'
    BY <1>2 DEF Enter, Trans, TypeOK, Phases, Running
  <2> QED
    BY <1>2, <2>1, GateIn DEF Enter, InHandler, Phases
<1>3. ASSUME NEW r \in Requests, Leave(r)
      PROVE  SlotInv'
  <2>1. SlotsExact' /\ slots' \in 0..MaxConcurrent
    BY <1>3, GateOut DEF Leave, InHandler, Phases
  <2> QED
    BY <1>3, <2>1 DEF Leave, Trans, TypeOK, Phases, Running
<1>4. ASSUME NEW r \in Requests, Send(r) \/ Handle(r)
      PROVE  SlotInv'
  BY <1>4, <1>1, <1>2, <1>3
  DEF Send, Handle, Busy, Authorize, Refuse, Acquire, StoreRefuses, Write,
      Read, Record, RecordFails, Answer, InHandler, Phases, TypeOK
<1>5. CASE Signal \/ ShutdownReturns \/ ShutdownTimesOut \/ StoreClosed
             \/ AuditClosed
  <2>1. TypeOK'
    BY <1>5 DEF TypeOK, Mains, Signal, ShutdownReturns, ShutdownTimesOut,
      StoreClosed, AuditClosed, MainTrans, Running
  <2>2. main # "exited" /\ UNCHANGED <<phase, slots>>
    BY <1>5 DEF Signal, ShutdownReturns, ShutdownTimesOut, StoreClosed,
      AuditClosed, MainTrans
  <2> QED
    BY <2>1, <2>2 DEF SlotsExact, Running, In
<1>6. CASE End
  BY <1>6 DEF End, SlotsExact, Running, TypeOK, Mains, Phases
<1>7. CASE UNCHANGED vars
  BY <1>7 DEF vars, TypeOK, SlotsExact, Running, In
<1> QED
  BY <1>4, <1>5, <1>6, <1>7 DEF Next, Stop, Exit, Kill

(* The state is well typed: the count of slots is never negative and never *)
(* over the limit (main.go:85-92).                                         *)
THEOREM TypeCorrect == Spec => []TypeOK
<1>1. SlotInv => TypeOK
  BY DEF SlotInv
<1> QED
  BY <1>1, SlotInit, SlotStep, PTL DEF Spec

(* The slots taken are those of the requests behind the gate, on every way *)
(* out of a handler and through the shutdown (main.go:85-92).              *)
THEOREM Slots == Spec => []SlotsExact
<1>1. SlotInv => SlotsExact
  BY DEF SlotInv
<1> QED
  BY <1>1, SlotInit, SlotStep, PTL DEF Spec

-----------------------------------------------------------------------------
(* The order of the shutdown.                                              *)

LEMMA OrderStep ==
  TypeOK /\ StoreClosedFirst /\ [Next]_vars => StoreClosedFirst'
<1> SUFFICES ASSUME TypeOK, StoreClosedFirst, [Next]_vars
             PROVE  StoreClosedFirst'
  OBVIOUS
<1>1. ASSUME NEW r \in Requests, Acquire(r)
      PROVE  StoreClosedFirst'
  BY <1>1 DEF Acquire, PoolOpen, StoreClosedFirst
<1>2. ASSUME NEW r \in Requests, NEW from, NEW to \in Phases \ {"store"},
             Trans(r, from, to), UNCHANGED main
      PROVE  StoreClosedFirst'
  BY <1>2 DEF Trans, TypeOK, StoreClosedFirst, In
<1>3. ASSUME NEW r \in Requests, Send(r) \/ Handle(r)
      PROVE  StoreClosedFirst'
  BY <1>3, <1>1, <1>2
  DEF Send, Handle, Enter, Busy, Authorize, Refuse, StoreRefuses, Write, Read,
      Record, RecordFails, Leave, Answer, Phases
<1>4. CASE Signal \/ ShutdownReturns \/ ShutdownTimesOut \/ StoreClosed
             \/ AuditClosed
  BY <1>4 DEF Signal, ShutdownReturns, ShutdownTimesOut, StoreClosed,
    AuditClosed, MainTrans, StoreClosedFirst, In
<1>5. CASE End
  BY <1>5 DEF End, StoreClosedFirst, In, Active, InHandler, TypeOK
<1>6. CASE UNCHANGED vars
  BY <1>6 DEF vars, StoreClosedFirst, In
<1> QED
  BY <1>3, <1>4, <1>5, <1>6 DEF Next, Stop, Exit, Kill

(* No call holds a connection once the auditor is being closed, for the    *)
(* pool lends none from the moment it is being closed itself (main.go:73,  *)
(* 79).                                                                    *)
THEOREM Order == Spec => []StoreClosedFirst
<1>1. Init => StoreClosedFirst
  BY DEF Init, StoreClosedFirst
<1> QED
  BY <1>1, TypeCorrect, OrderStep, PTL DEF Spec

-----------------------------------------------------------------------------
(* The audit trail.  The inductive invariant says how far a call that has  *)
(* changed the database can be, when the auditor may be closed, and what a *)
(* graceful shutdown leaves behind.                                        *)

ChangesUnderWay ==
  \A r \in changed :
    /\ phase[r] \in {"record", "respond", "flush", "done", "dead"}
    /\ phase[r] \in {"respond", "flush", "done"} => r \in log \cup lost

LossExplained == \A r \in lost : AuditMayFail \/ (audit = "closed" /\ ~graceful)

AuditorClosedLast == audit = "closed" => main \in {"returning", "exited"}

GracefulIsQuiet ==
  graceful => /\ main \notin {"serving", "shutdown"}
              /\ \A r \in Requests : phase[r] \notin Active \cup {"dead"}

AuditInv == /\ ChangesUnderWay
            /\ LossExplained
            /\ AuditorClosedLast
            /\ GracefulIsQuiet

LEMMA AuditInit == Init => AuditInv
BY DEF Init, AuditInv, ChangesUnderWay, LossExplained, AuditorClosedLast,
  GracefulIsQuiet

\* Nothing moves after a graceful shutdown.
LEMMA Quiet ==
  ASSUME TypeOK, AuditInv, NEW r \in Requests, Send(r) \/ Handle(r)
  PROVE  ~graceful /\ ~graceful'
BY DEF AuditInv, GracefulIsQuiet, Active, InHandler, Trans, Send, Handle,
  Enter, Busy, Authorize, Refuse, Acquire, StoreRefuses, Write, Read, Record,
  RecordFails, Leave, Answer

\* A request takes a step that records nothing and changes nothing.
LEMMA AuditMoves ==
  ASSUME TypeOK, AuditInv, NEW r \in Requests, ~graceful,
         NEW from \in Phases \ {"record", "done", "dead"}, NEW to,
         from \in {"respond", "flush"} => to \in {"flush", "done"},
         Trans(r, from, to), UNCHANGED <<main, audit, log, lost, graceful>>,
         \/ UNCHANGED changed
         \/ changed' = changed \cup {r} /\ to = "record"
  PROVE  AuditInv'
<1>1. ChangesUnderWay'
  BY DEF AuditInv, ChangesUnderWay, Trans, TypeOK
<1>2. LossExplained' /\ AuditorClosedLast' /\ GracefulIsQuiet'
  BY DEF AuditInv, LossExplained, AuditorClosedLast, GracefulIsQuiet
<1> QED
  BY <1>1, <1>2 DEF AuditInv

LEMMA AuditStep == TypeOK /\ AuditInv /\ [Next]_vars => AuditInv'
<1> SUFFICES ASSUME TypeOK, AuditInv, [Next]_vars PROVE AuditInv'
  OBVIOUS
<1> USE DEF AuditInv
<1>1. ASSUME NEW r \in Requests, Record(r) \/ RecordFails(r)
      PROVE  AuditInv'
  <2>1. ~graceful /\ ~graceful'
    BY <1>1, Quiet DEF Handle
  <2>2. ChangesUnderWay'
    BY <1>1 DEF Record, RecordFails, Trans, TypeOK, ChangesUnderWay
  <2>3. LossExplained'
    BY <1>1, <2>1 DEF Record, RecordFails, LossExplained
  <2>4. AuditorClosedLast'
    BY <1>1 DEF Record, RecordFails, AuditorClosedLast
  <2> QED
    BY <2>1, <2>2, <2>3, <2>4 DEF GracefulIsQuiet
<1>2. ASSUME NEW r \in Requests, Send(r) \/ Handle(r)
      PROVE  AuditInv'
  BY <1>1, <1>2, Quiet, AuditMoves
  DEF Send, Handle, Enter, Busy, Authorize, Refuse, Acquire, StoreRefuses,
      Write, Read, Leave, Answer, Phases
<1>3. CASE Signal \/ ShutdownTimesOut \/ StoreClosed
  BY <1>3 DEF Signal, ShutdownTimesOut, StoreClosed, MainTrans,
    ChangesUnderWay, LossExplained, AuditorClosedLast, GracefulIsQuiet
<1>4. CASE ShutdownReturns
  <2>1. \A r \in Requests : phase[r] \notin Active \cup {"dead"}
    BY <1>4 DEF ShutdownReturns, MainTrans, In, TypeOK, Running
  <2>2. audit # "closed"
    BY <1>4 DEF ShutdownReturns, MainTrans, AuditorClosedLast
  <2> QED
    BY <1>4, <2>1, <2>2 DEF ShutdownReturns, MainTrans, ChangesUnderWay,
      LossExplained, AuditorClosedLast, GracefulIsQuiet
<1>5. CASE AuditClosed
  <2>1. LossExplained'
    BY <1>5 DEF AuditClosed, MainTrans, LossExplained, AuditorClosedLast
  <2>2. ChangesUnderWay' /\ AuditorClosedLast' /\ GracefulIsQuiet'
    BY <1>5 DEF AuditClosed, MainTrans, ChangesUnderWay, AuditorClosedLast,
      GracefulIsQuiet
  <2> QED
    BY <2>1, <2>2
<1>6. CASE End
  <2>1. ChangesUnderWay'
    BY <1>6 DEF End, TypeOK, ChangesUnderWay, Active, InHandler
  <2>2. LossExplained' /\ AuditorClosedLast'
    BY <1>6 DEF End, LossExplained, AuditorClosedLast
  <2>3. GracefulIsQuiet'
    BY <1>6 DEF End, GracefulIsQuiet, Active, InHandler
  <2> QED
    BY <2>1, <2>2, <2>3
<1>7. CASE UNCHANGED vars
  BY <1>7 DEF vars, ChangesUnderWay, LossExplained, AuditorClosedLast,
    GracefulIsQuiet
<1> QED
  BY <1>2, <1>3, <1>4, <1>5, <1>6, <1>7 DEF Next, Stop, Exit, Kill

(* What the audit trail lacks of the changes made to the database has one  *)
(* of two reasons, a failed write or a shutdown that was not graceful      *)
(* (main.go:146-151, audit.go:65).                                         *)
THEOREM AuditTrail == Spec => []AuditGapsExplained
<1>1. TypeOK /\ AuditInv => AuditGapsExplained
  <2> SUFFICES ASSUME TypeOK, AuditInv PROVE AuditGapsExplained
    OBVIOUS
  <2>1. graceful => In({"dead"}) = {}
    BY DEF AuditInv, GracefulIsQuiet, In
  <2>2. ASSUME NEW r \in changed, phase[r] \in {"flush", "done", "dead"}
        PROVE  \/ r \in log
               \/ r \in lost /\ (AuditMayFail \/ ~graceful)
               \/ phase[r] = "dead" /\ ~graceful
    BY <2>2 DEF AuditInv, ChangesUnderWay, LossExplained, GracefulIsQuiet,
      TypeOK
  <2> QED
    BY <2>1, <2>2 DEF AuditGapsExplained
<1> QED
  BY <1>1, TypeCorrect, AuditInit, AuditStep, PTL DEF Spec
=============================================================================
