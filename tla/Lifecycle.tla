----------------------------- MODULE Lifecycle ------------------------------
(***************************************************************************)
(* The process of cmd/postgres-mcp: the gate every MCP request passes, the *)
(* tool calls behind it, and the way down.                                 *)
(*                                                                         *)
(* A request gets one of max_concurrent_requests slots or is refused at    *)
(* once, is authenticated, runs its tool, has the call audited and gives   *)
(* the slot back when its handler returns.  A signal starts                *)
(* http.Server.Shutdown, which closes the listener and waits, at most 15   *)
(* seconds, until no connection has a request under way; then main returns *)
(* and its deferred calls close first the store, which waits for           *)
(* connections still in use, and then the auditor.  Returning from main    *)
(* ends whatever still runs.                                               *)
(*                                                                         *)
(* The health and OAuth endpoints do not pass the gate and are left out.   *)
(***************************************************************************)
EXTENDS Naturals, FiniteSets

CONSTANTS
  Requests,        \* HTTP requests to the MCP endpoint
  MaxConcurrent,   \* max_concurrent_requests
  AuditToFile,     \* audit.destination is a file, not stdout
  AuditMayFail     \* whether writing an audit event may fail

ASSUME ConstantsAssumption ==
  /\ IsFiniteSet(Requests)
  /\ MaxConcurrent \in Nat \ {0}
  /\ AuditToFile \in BOOLEAN
  /\ AuditMayFail \in BOOLEAN

VARIABLES
  main,       \* where main is
  phase,      \* phase[r]: where request r is
  slots,      \* length of the channel that counts the requests let in
  audit,      \* "open" or "closed": the audit file
  log,        \* requests whose event was written
  \* history, read by the properties only
  changed,    \* requests whose tool call changed the database
  lost,       \* requests whose event could not be written
  graceful    \* Shutdown came to its end in time

vars == <<main, phase, slots, audit, log, changed, lost, graceful>>

-----------------------------------------------------------------------------
Mains == {"serving",      \* waiting for a signal
          "shutdown",     \* in server.Shutdown
          "closeStore",   \* in store.Close
          "closeAudit",   \* in auditor.Close
          "returning",    \* every deferred call is done
          "exited"}

Phases == {"none",      \* not sent
           "reading",   \* its connection is active, the gate not reached
           "admitted",  \* behind the gate
           "tool",      \* authorized
           "store",     \* holds a connection of the pool
           "record",    \* the tool has run, its event is to be written
           "respond",   \* the handler is about to return
           "flush",     \* the handler has returned
           "done", "busy",  \* answered, with 503 in the second case
           "dead"}          \* the process ended first

InHandler == {"admitted", "tool", "store", "record", "respond"}
Active == InHandler \cup {"reading", "flush"}
In(P) == {r \in Requests : phase[r] \in P}

Init ==
  /\ main     = "serving"
  /\ phase    = [r \in Requests |-> "none"]
  /\ slots    = 0
  /\ audit    = "open"
  /\ log      = {}
  /\ changed  = {}
  /\ lost     = {}
  /\ graceful = FALSE

Running == main # "exited"

Trans(r, from, to) ==
  /\ Running
  /\ phase[r] = from
  /\ phase' = [phase EXCEPT ![r] = to]

-----------------------------------------------------------------------------
(* A request.                                                              *)

Send(r) ==
  /\ main = "serving"
  /\ Trans(r, "none", "reading")
  /\ UNCHANGED <<main, slots, audit, log, changed, lost, graceful>>

\* Defective variant: one slot too many.
EnterOneMore(r) ==
  /\ slots <= MaxConcurrent
  /\ Trans(r, "reading", "admitted")
  /\ slots' = slots + 1
  /\ UNCHANGED <<main, audit, log, changed, lost, graceful>>

\* The gate takes a slot if there is one and never waits for it.  Reading a
\* request may take until after the signal.
Enter(r) ==
  /\ slots < MaxConcurrent
  /\ Trans(r, "reading", "admitted")
  /\ slots' = slots + 1
  /\ UNCHANGED <<main, audit, log, changed, lost, graceful>>

Busy(r) ==
  /\ slots = MaxConcurrent
  /\ Trans(r, "reading", "busy")
  /\ UNCHANGED <<main, slots, audit, log, changed, lost, graceful>>

\* Authentication, and the tool's own authorization, which is not audited.
Authorize(r) ==
  /\ Trans(r, "admitted", "tool")
  /\ UNCHANGED <<main, slots, audit, log, changed, lost, graceful>>

\* Defective variant: the slot is not given back after a 401.
RefuseLeaking(r) ==
  /\ Trans(r, "admitted", "flush")
  /\ UNCHANGED <<main, slots, audit, log, changed, lost, graceful>>

Refuse(r) ==
  /\ Trans(r, "admitted", "respond")
  /\ UNCHANGED <<main, slots, audit, log, changed, lost, graceful>>

\* A pool that is being closed gives out no connections.
PoolOpen == main \in {"serving", "shutdown"}

Acquire(r) ==
  /\ PoolOpen
  /\ Trans(r, "tool", "store")
  /\ UNCHANGED <<main, slots, audit, log, changed, lost, graceful>>

\* The call fails before it has a connection: refused by sqlguard, out of
\* time, or the pool is closed.
StoreRefuses(r) ==
  /\ Trans(r, "tool", "record")
  /\ UNCHANGED <<main, slots, audit, log, changed, lost, graceful>>

\* Defective variant: a handler that returns without its audit call.
WriteUnrecorded(r) ==
  /\ Trans(r, "store", "respond")
  /\ changed' = changed \cup {r}
  /\ UNCHANGED <<main, slots, audit, log, lost, graceful>>

\* The call is over, by the query timeout at the latest: it has changed the
\* database, or it has not.
Write(r) ==
  /\ Trans(r, "store", "record")
  /\ changed' = changed \cup {r}
  /\ UNCHANGED <<main, slots, audit, log, lost, graceful>>

Read(r) ==
  /\ Trans(r, "store", "record")
  /\ UNCHANGED <<main, slots, audit, log, changed, lost, graceful>>

\* Auditor.Record; its errors go to the process log and nowhere else.
Record(r) ==
  /\ audit = "open"
  /\ Trans(r, "record", "respond")
  /\ log' = log \cup {r}
  /\ UNCHANGED <<main, slots, audit, changed, lost, graceful>>

RecordFails(r) ==
  /\ AuditMayFail \/ audit = "closed"
  /\ Trans(r, "record", "respond")
  /\ lost' = lost \cup {r}
  /\ UNCHANGED <<main, slots, audit, log, changed, graceful>>

\* The handler returns, its deferred receive frees the slot ...
Leave(r) ==
  /\ Trans(r, "respond", "flush")
  /\ slots' = slots - 1
  /\ UNCHANGED <<main, audit, log, changed, lost, graceful>>

\* ... and net/http finishes the response.
Answer(r) ==
  /\ Trans(r, "flush", "done")
  /\ UNCHANGED <<main, slots, audit, log, changed, lost, graceful>>

-----------------------------------------------------------------------------
(* main.                                                                   *)

MainTrans(from, to) ==
  /\ main = from
  /\ main' = to

Signal ==
  /\ MainTrans("serving", "shutdown")
  /\ UNCHANGED <<phase, slots, audit, log, changed, lost, graceful>>

ShutdownReturns ==
  /\ In(Active) = {}
  /\ MainTrans("shutdown", "closeStore")
  /\ graceful' = TRUE
  /\ UNCHANGED <<phase, slots, audit, log, changed, lost>>

\* Defective variants: the deferred calls in the other order, and Shutdown
\* without a deadline.
ShutdownToAudit ==
  /\ In(Active) # {}
  /\ MainTrans("shutdown", "closeAudit")
  /\ UNCHANGED <<phase, slots, audit, log, changed, lost, graceful>>

ShutdownWaits ==
  /\ In(Active) = {}
  /\ MainTrans("shutdown", "closeStore")
  /\ UNCHANGED <<phase, slots, audit, log, changed, lost, graceful>>

ShutdownTimesOut ==
  /\ In(Active) # {}
  /\ MainTrans("shutdown", "closeStore")
  /\ UNCHANGED <<phase, slots, audit, log, changed, lost, graceful>>

\* pgxpool.Pool.Close blocks while a connection is in use.
StoreClosed ==
  /\ In({"store"}) = {}
  /\ MainTrans("closeStore", "closeAudit")
  /\ UNCHANGED <<phase, slots, audit, log, changed, lost, graceful>>

AuditClosed ==
  /\ MainTrans("closeAudit", "returning")
  /\ audit' = IF AuditToFile THEN "closed" ELSE audit
  /\ UNCHANGED <<phase, slots, log, changed, lost, graceful>>

End ==
  /\ main' = "exited"
  /\ phase' = [r \in Requests |-> IF phase[r] \in Active THEN "dead"
                                                          ELSE phase[r]]
  /\ UNCHANGED <<slots, audit, log, changed, lost, graceful>>

Exit == main = "returning" /\ End

\* The process is killed, by the container runtime for instance.
Kill == Running /\ End

-----------------------------------------------------------------------------
Handle(r) ==
  \/ Enter(r)
  \/ Busy(r)
  \/ Authorize(r)
  \/ Refuse(r)
  \/ Acquire(r)
  \/ StoreRefuses(r)
  \/ Write(r)
  \/ Read(r)
  \/ Record(r)
  \/ RecordFails(r)
  \/ Leave(r)
  \/ Answer(r)

Stop ==
  \/ ShutdownReturns
  \/ ShutdownTimesOut
  \/ StoreClosed
  \/ AuditClosed
  \/ Exit

Next ==
  \/ \E r \in Requests : Send(r) \/ Handle(r)
  \/ Signal
  \/ Stop
  \/ Kill

Spec == Init /\ [][Next]_vars

\* The deadline of Shutdown fires, main runs on, and a call on a connection
\* of the pool ends by its query timeout.  Nothing is assumed of clients.
FairSpec ==
  /\ Spec
  /\ WF_vars(Stop)
  /\ \A r \in Requests : WF_vars(Write(r) \/ Read(r))

-----------------------------------------------------------------------------
TypeOK ==
  /\ main     \in Mains
  /\ phase    \in [Requests -> Phases]
  /\ slots    \in 0..MaxConcurrent
  /\ audit    \in {"open", "closed"}
  /\ log      \subseteq Requests
  /\ changed  \subseteq Requests
  /\ lost     \subseteq Requests
  /\ graceful \in BOOLEAN
  /\ \A r \in Requests : phase[r] = "dead" => ~Running

\* No slot leaks and none is used twice, whichever way a handler ends: while
\* the process runs the channel counts exactly the requests behind the gate
\* (main.go:85-92).
SlotsExact == Running => slots = Cardinality(In(InHandler))

\* The store is quiet before the auditor is closed: no call that may still
\* change the database outlives the audit file (main.go:73, 79).
StoreClosedFirst ==
  main \in {"closeAudit", "returning", "exited"} => In({"store"}) = {}

\* A change of the database is missing from the audit trail only when the
\* write of its event failed or the shutdown ran out of time; after a graceful
\* one every request that was read has been answered (main.go:146-151).
AuditGapsExplained ==
  /\ \A r \in changed : phase[r] \in {"flush", "done", "dead"} =>
       \/ r \in log
       \/ r \in lost /\ (AuditMayFail \/ ~graceful)
       \/ phase[r] = "dead" /\ ~graceful
  /\ graceful => In({"dead"}) = {}

\* README.md:160: audit write errors are enforced; a call whose event could
\* not be written is not reported as done.
AuditErrorsEnforced == \A r \in lost : phase[r] # "done"

\* Once signalled the process ends, whatever the requests under way and their
\* clients do (main.go:146-151).
Terminates == main = "shutdown" ~> main = "exited"
=============================================================================
