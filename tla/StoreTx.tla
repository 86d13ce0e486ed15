------------------------------ MODULE StoreTx ------------------------------
(***************************************************************************)
(* Tool calls of postgres.Store on the connection pool of one database:    *)
(* queryReadOnly (execute_sql, explain_sql, sample_rows), ExecuteDML,      *)
(* ExecuteDDL, ExecuteScript and the four pool queries of DescribeTable.   *)
(*                                                                         *)
(* A writing or reading call takes a connection, begins a transaction,     *)
(* scopes the search path to the configured schemas, runs its statements,  *)
(* checks the row limit after each and commits; every early return rolls   *)
(* back first.  All of it runs under one context with the query timeout,   *)
(* the rollback included, so a call that runs out of time loses its        *)
(* connection instead of cleaning it up, and a commit may be decided by    *)
(* the server after the caller has been told of a failure.                 *)
(*                                                                         *)
(* SQL is abstracted to the number of rows each statement affects; a DDL   *)
(* statement affects none.  What sqlguard refuses never gets here.         *)
(***************************************************************************)
EXTENDS Naturals, FiniteSets

CONSTANTS
  Calls,                  \* tool calls
  Conns,                  \* the pool's connections, max_conns of them
  NoConn,                 \* held by a call without a connection
  MaxAffectedRows,        \* max_affected_rows, per execute_dml
  MaxScriptAffectedRows,  \* max_script_affected_rows, per execute_script
  MaxScriptStatements,    \* max_script_statements
  RowBound,               \* bound: rows one statement may affect
  ScopedSchemas,          \* the connection lists its schemas, without "*"
  MayFail                 \* whether statements, links and deadlines fail

ASSUME ConstantsAssumption ==
  /\ NoConn \notin Conns
  /\ MaxAffectedRows \in Nat
  /\ MaxScriptAffectedRows \in Nat
  /\ MaxScriptStatements \in Nat \ {0}
  /\ RowBound \in Nat
  /\ ScopedSchemas \in BOOLEAN
  /\ MayFail \in BOOLEAN

VARIABLES
  phase,     \* phase[c]: where call c is
  kind,      \* kind[c]: which operation it is
  size,      \* size[c]: statements, or pool queries, it is to run
  done,      \* done[c]: how many of them have run
  rows,      \* rows[c]: RowsAffected so far
  expired,   \* expired[c]: the context of c is past its deadline or cancelled
  conn,      \* conn[c]: the connection c holds
  outcome,   \* outcome[c]: what the caller was told
  session,   \* session[k]: server session of pool connection k
  effect,    \* effect[c]: statements of c that are committed
  orphan     \* orphan[c]: c gave up on a commit that the server is deciding

callVars == <<phase, kind, size, done, rows, expired, conn, outcome>>
vars == <<phase, kind, size, done, rows, expired, conn, outcome,
          session, effect, orphan>>

-----------------------------------------------------------------------------
Phases == {"idle", "wait", "path", "exec", "query", "commit", "committed",
           "answered"}

Writes == {"dml", "ddl", "script"}
Kinds == Writes \cup {"read", "describe"}
Outcomes == {"none", "rows", "ok", "error", "unknown"}

(* A session: its transaction state, its own search_path, and whether the  *)
(* transaction overrides it (set_config with is_local = true).             *)
Sessions == [tx: {"idle", "open"}, path: {"default", "scoped"},
             local: BOOLEAN]
Fresh == [tx |-> "idle", path |-> "default", local |-> FALSE]

\* BEGIN, and setScopedSearchPath in a transaction.
BeginTx(s) == [s EXCEPT !.tx = "open"]
\* Defective variant: set_config for the session instead of the transaction.
ScopeSession(s) == [s EXCEPT !.path = "scoped"]

Scope(s) == [s EXCEPT !.local = TRUE]

\* COMMIT or ROLLBACK ends the local settings with the transaction.
EndTx(s) == [s EXCEPT !.tx = "idle", !.local = FALSE]

\* Conn.Release keeps a connection whose session is idle and destroys any
\* other; the pool opens a fresh one in its place.
Released(s) == IF s.tx = "idle" THEN s ELSE Fresh

Free == {k \in Conns : \A c \in Calls : conn[c] # k}

DescribeQueries == 4  \* primaryKey, columns, foreignKeys, indexes

\* How many statements an operation may have.
Sizes(kd) == CASE kd = "script"   -> 1..MaxScriptStatements
               [] kd = "describe" -> {DescribeQueries}
               [] OTHER           -> {1}

OverLimit(kd, n) ==
  \/ kd = "dml" /\ n > MaxAffectedRows
  \/ kd = "script" /\ n > MaxScriptAffectedRows

Init ==
  /\ phase   = [c \in Calls |-> "idle"]
  /\ kind    = [c \in Calls |-> "read"]
  /\ size    = [c \in Calls |-> 0]
  /\ done    = [c \in Calls |-> 0]
  /\ rows    = [c \in Calls |-> 0]
  /\ expired = [c \in Calls |-> FALSE]
  /\ conn    = [c \in Calls |-> NoConn]
  /\ outcome = [c \in Calls |-> "none"]
  /\ session = [k \in Conns |-> Fresh]
  /\ effect  = [c \in Calls |-> 0]
  /\ orphan  = [c \in Calls |-> FALSE]

Trans(c, from, to) ==
  /\ phase[c] = from
  /\ phase' = [phase EXCEPT ![c] = to]

\* The call returns, and its connection, if it has one, is released.
Answer(c, o) ==
  /\ phase' = [phase EXCEPT ![c] = "answered"]
  /\ outcome' = [outcome EXCEPT ![c] = o]
  /\ conn' = [conn EXCEPT ![c] = NoConn]

ReleaseAs(c, s) == session' = [session EXCEPT ![conn[c]] = Released(s)]

\* tx.Rollback and the release that comes with it: with the context expired
\* the ROLLBACK cannot be sent and the connection is closed instead.
Rollback(c) ==
  ReleaseAs(c, IF expired[c] THEN Fresh ELSE EndTx(session[conn[c]]))

-----------------------------------------------------------------------------
\* The call passes validation and starts its clock ...
Start(c) ==
  /\ Trans(c, "idle", "wait")
  /\ \E kd \in Kinds : \E n \in Sizes(kd) :
       /\ kind' = [kind EXCEPT ![c] = kd]
       /\ size' = [size EXCEPT ![c] = n]
  /\ UNCHANGED <<done, rows, expired, conn, outcome, session, effect, orphan>>

\* ... or is refused: an unknown connection, max_script_bytes, sqlguard.
Refuse(c) ==
  /\ phase[c] = "idle"
  /\ Answer(c, "error")
  /\ UNCHANGED <<kind, size, done, rows, expired, session, effect, orphan>>

\* Defective variant: no deadline for DescribeTable.
ExpireTx(c) ==
  /\ MayFail
  /\ phase[c] \notin {"idle", "answered"}
  /\ kind[c] # "describe"
  /\ ~expired[c]
  /\ expired' = [expired EXCEPT ![c] = TRUE]
  /\ UNCHANGED <<phase, kind, size, done, rows, conn, outcome, session,
                 effect, orphan>>

\* The query timeout passes or the client goes away.
Expire(c) ==
  /\ MayFail
  /\ phase[c] \notin {"idle", "answered"}
  /\ ~expired[c]
  /\ expired' = [expired EXCEPT ![c] = TRUE]
  /\ UNCHANGED <<phase, kind, size, done, rows, conn, outcome, session,
                 effect, orphan>>

\* pool.BeginTx, or pool.Query for the catalog queries, gets a connection.
Acquire(c, k) ==
  /\ phase[c] = "wait"
  /\ ~expired[c]
  /\ k \in Free
  /\ conn' = [conn EXCEPT ![c] = k]
  /\ \/ /\ kind[c] = "describe"
        /\ phase' = [phase EXCEPT ![c] = "query"]
        /\ UNCHANGED session
     \/ /\ kind[c] # "describe"
        /\ phase' = [phase EXCEPT ![c] = IF ScopedSchemas THEN "path"
                                                          ELSE "exec"]
        /\ session' = [session EXCEPT ![k] = BeginTx(@)]
  /\ UNCHANGED <<kind, size, done, rows, expired, outcome, effect, orphan>>

\* No connection before the deadline, or none that can be opened, or BEGIN
\* fails on it: the pool has taken it back.
AcquireFails(c) ==
  /\ MayFail
  /\ phase[c] = "wait"
  /\ Answer(c, "error")
  /\ UNCHANGED <<kind, size, done, rows, expired, session, effect, orphan>>

\* setScopedSearchPath.
SetSearchPath(c) ==
  /\ Trans(c, "path", "exec")
  /\ ~expired[c]
  /\ session' = [session EXCEPT ![conn[c]] = Scope(@)]
  /\ UNCHANGED <<kind, size, done, rows, expired, conn, outcome, effect,
                 orphan>>

\* Defective variants: the loop runs once too often ...
ExecOneMore(c, n) ==
  /\ phase[c] = "exec"
  /\ ~expired[c]
  /\ kind[c] \in {"ddl", "read"} => n = 0
  /\ rows' = [rows EXCEPT ![c] = @ + n]
  /\ ~OverLimit(kind[c], rows[c] + n)
  /\ done' = [done EXCEPT ![c] = @ + 1]
  /\ phase' = [phase EXCEPT ![c] = IF done[c] = size[c] THEN "commit"
                                                       ELSE "exec"]
  /\ UNCHANGED <<kind, size, expired, conn, outcome, session, effect, orphan>>

\* ... or the limit is compared with each statement's rows, not with their sum.
ExecEachLimited(c, n) ==
  /\ phase[c] = "exec"
  /\ ~expired[c]
  /\ kind[c] \in {"ddl", "read"} => n = 0
  /\ ~OverLimit(kind[c], n)
  /\ rows' = [rows EXCEPT ![c] = @ + n]
  /\ done' = [done EXCEPT ![c] = @ + 1]
  /\ phase' = [phase EXCEPT ![c] = IF done[c] + 1 = size[c] THEN "commit"
                                                           ELSE "exec"]
  /\ UNCHANGED <<kind, size, expired, conn, outcome, session, effect, orphan>>

\* A statement succeeds and affects n rows.  Past the limit the transaction
\* is rolled back; otherwise the next statement follows, or the commit.
Exec(c, n) ==
  /\ phase[c] = "exec"
  /\ ~expired[c]
  /\ kind[c] \in {"ddl", "read"} => n = 0
  /\ rows' = [rows EXCEPT ![c] = @ + n]
  /\ \/ /\ OverLimit(kind[c], rows[c] + n)
        /\ Rollback(c)
        /\ Answer(c, "error")
        /\ UNCHANGED done
     \/ /\ ~OverLimit(kind[c], rows[c] + n)
        /\ done' = [done EXCEPT ![c] = @ + 1]
        /\ phase' = [phase EXCEPT ![c] = IF done[c] + 1 = size[c]
                                         THEN "commit" ELSE "exec"]
        /\ UNCHANGED <<conn, outcome, session>>
  /\ UNCHANGED <<kind, size, expired, effect, orphan>>

\* Defective variants: a failed statement ends the loop but not the call ...
ExecFailsCommitting(c) ==
  /\ MayFail
  /\ phase[c] \in {"path", "exec"}
  /\ phase' = [phase EXCEPT ![c] = "commit"]
  /\ UNCHANGED <<kind, size, done, rows, expired, conn, outcome, session,
                 effect, orphan>>

\* Scoping the path or a statement fails, by itself, with the link or with
\* the deadline: rollback.
ExecFails(c) ==
  /\ MayFail
  /\ phase[c] \in {"path", "exec"}
  /\ Rollback(c)
  /\ Answer(c, "error")
  /\ UNCHANGED <<kind, size, done, rows, expired, effect, orphan>>

-----------------------------------------------------------------------------
\* The server commits ...
ServerCommits(c) ==
  /\ Trans(c, "commit", "committed")
  /\ session' = [session EXCEPT ![conn[c]] = EndTx(@)]
  /\ effect' = [effect EXCEPT ![c] = IF kind[c] \in Writes THEN done[c] ELSE 0]
  /\ UNCHANGED <<kind, size, done, rows, expired, conn, outcome, orphan>>

\* ... and its answer arrives.
CommitReturns(c) ==
  /\ phase[c] = "committed"
  /\ ReleaseAs(c, session[conn[c]])
  /\ Answer(c, IF kind[c] \in Writes THEN "ok" ELSE "rows")
  /\ UNCHANGED <<kind, size, done, rows, expired, effect, orphan>>

\* The server refuses the commit (a deferred constraint) and rolls back.
CommitRejected(c) ==
  /\ MayFail
  /\ phase[c] = "commit"
  /\ ReleaseAs(c, EndTx(session[conn[c]]))
  /\ Answer(c, "error")
  /\ UNCHANGED <<kind, size, done, rows, expired, effect, orphan>>

InDoubt(c) == IF kind[c] \in Writes THEN "unknown" ELSE "error"

\* The deadline or the link cuts the commit short: tx.Commit closes the
\* connection, and a COMMIT that was sent is still with the server.
CommitCutShort(c) ==
  /\ MayFail
  /\ phase[c] \in {"commit", "committed"}
  /\ ReleaseAs(c, Fresh)
  /\ Answer(c, InDoubt(c))
  /\ \/ UNCHANGED orphan
     \/ phase[c] = "commit" /\ orphan' = [orphan EXCEPT ![c] = TRUE]
  /\ UNCHANGED <<kind, size, done, rows, expired, effect>>

\* The server decides about it.
OrphanDecided(c) ==
  /\ orphan[c]
  /\ orphan' = [orphan EXCEPT ![c] = FALSE]
  /\ \/ effect' = [effect EXCEPT ![c] = IF kind[c] \in Writes THEN done[c]
                                                              ELSE 0]
     \/ UNCHANGED effect
  /\ UNCHANGED <<phase, kind, size, done, rows, expired, conn, outcome,
                 session>>

-----------------------------------------------------------------------------
\* Defective variant: the rows of a query stay open while the next one asks
\* for a connection.
CatalogQueryHolding(c) ==
  /\ phase[c] = "query"
  /\ ~expired[c]
  /\ done' = [done EXCEPT ![c] = @ + 1]
  /\ IF done[c] + 1 = size[c]
     THEN ReleaseAs(c, session[conn[c]]) /\ Answer(c, "rows")
     ELSE /\ phase' = [phase EXCEPT ![c] = "wait"]
          /\ UNCHANGED <<conn, outcome, session>>
  /\ UNCHANGED <<kind, size, rows, expired, effect, orphan>>

\* A catalog query of DescribeTable is read to its end, which returns its
\* connection to the pool before the next query asks for one.
CatalogQuery(c) ==
  /\ phase[c] = "query"
  /\ ~expired[c]
  /\ ReleaseAs(c, session[conn[c]])
  /\ done' = [done EXCEPT ![c] = @ + 1]
  /\ IF done[c] + 1 = size[c]
     THEN Answer(c, "rows")
     ELSE /\ phase' = [phase EXCEPT ![c] = "wait"]
          /\ conn' = [conn EXCEPT ![c] = NoConn]
          /\ UNCHANGED outcome
  /\ UNCHANGED <<kind, size, rows, expired, effect, orphan>>

CatalogQueryFails(c) ==
  /\ MayFail
  /\ phase[c] = "query"
  /\ ReleaseAs(c, IF expired[c] THEN Fresh ELSE session[conn[c]])
  /\ Answer(c, "error")
  /\ UNCHANGED <<kind, size, done, rows, expired, effect, orphan>>

-----------------------------------------------------------------------------
\* What the database does for a call that waits for it.
Served(c) ==
  \/ \E k \in Conns : Acquire(c, k)
  \/ SetSearchPath(c)
  \/ \E n \in 0..RowBound : Exec(c, n)
  \/ ServerCommits(c)
  \/ CommitReturns(c)
  \/ CatalogQuery(c)

\* How a call ends without it.
GivesUp(c) ==
  \/ AcquireFails(c)
  \/ ExecFails(c)
  \/ CommitCutShort(c)
  \/ CatalogQueryFails(c)

Next ==
  \E c \in Calls :
    \/ Start(c)
    \/ Refuse(c)
    \/ Served(c)
    \/ Expire(c)
    \/ GivesUp(c)
    \/ CommitRejected(c)
    \/ OrphanDecided(c)

Spec == Init /\ [][Next]_vars

\* The deadline timer fires, and a pgx operation whose context has expired
\* returns; nothing is assumed of the database.
TimerSpec ==
  Spec /\ \A c \in Calls : /\ WF_vars(Expire(c))
                           /\ WF_vars(expired[c] /\ GivesUp(c))

-----------------------------------------------------------------------------
TypeOK ==
  /\ phase   \in [Calls -> Phases]
  /\ kind    \in [Calls -> Kinds]
  /\ size    \in [Calls -> Nat]
  /\ done    \in [Calls -> Nat]
  /\ rows    \in [Calls -> Nat]
  /\ expired \in [Calls -> BOOLEAN]
  /\ conn    \in [Calls -> Conns \cup {NoConn}]
  /\ outcome \in [Calls -> Outcomes]
  /\ session \in [Conns -> Sessions]
  /\ effect  \in [Calls -> Nat]
  /\ orphan  \in [Calls -> BOOLEAN]
  /\ \A c \in Calls :
       /\ done[c] <= size[c]
       /\ phase[c] = "idle" => done[c] = 0
       /\ phase[c] \in {"wait", "path", "exec", "query"} => done[c] < size[c]

\* A connection the pool can hand out has no transaction and no search_path
\* of an earlier call left on it (store.go:645, and every rollback path).
IdleConnsClean == \A k \in Free : session[k] = Fresh

\* A committed DML statement or script is within its row limit, whichever of
\* its statements crossed it and however the commit ended (store.go:313, 432).
CommittedWithinLimit ==
  \A c \in Calls : effect[c] > 0 => ~OverLimit(kind[c], rows[c])

\* No connection serves two calls, and a call that was answered or that waits
\* for a connection holds none: waiting calls cannot block one another
\* (store.go:228-247, 390-445).
PoolDiscipline ==
  /\ \A c, d \in Calls : conn[c] = conn[d] /\ conn[c] # NoConn => c = d
  /\ \A c \in Calls : phase[c] \in {"idle", "wait", "answered"}
                        <=> conn[c] = NoConn

\* ExecuteDML, ExecuteDDL and ExecuteScript keep the promise of AtomicWrite
\* ("executes an import script atomically", store.go:377).
Promise == INSTANCE AtomicWrite
AtomicWrites == Promise!Spec

\* Every call is answered.
EveryCallAnswered == \A c \in Calls : phase[c] = "wait" ~> phase[c] = "answered"
=============================================================================
