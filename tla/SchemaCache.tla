---------------------------- MODULE SchemaCache ----------------------------
(***************************************************************************)
(* The metadata cache of one connection of postgres.Store.                 *)
(*                                                                         *)
(* describe_table looks its table up in database.cache and, on a miss,     *)
(* reads the catalog with four separate queries, each on a pool connection *)
(* of its own and none under database.mu or in a common transaction, and   *)
(* only then stores what it read.  execute_ddl and execute_script commit   *)
(* first and clear the whole cache afterwards; refresh_schema_cache only   *)
(* clears.  Entries have no lifetime.                                      *)
(*                                                                         *)
(* The metadata of a table is abstracted to a version: every committed     *)
(* change of the table gives it the next one, and a description is the     *)
(* sequence of the versions its queries saw.  A cache hit changes nothing  *)
(* and is therefore a stuttering step.                                     *)
(***************************************************************************)
EXTENDS Naturals, Sequences

CONSTANTS
  Tables,      \* "schema.table" keys of the cache
  Requests,    \* tool calls that may be in progress together
  NoTable,     \* the table of a call that describes none
  MaxVersion   \* bound: changes of one table that are explored

ASSUME ConstantsAssumption == NoTable \notin Tables /\ MaxVersion \in Nat

VARIABLES
  catalog,     \* catalog[t]: committed version of t's metadata in PostgreSQL
  cache,       \* cache[t]: the stored description, << >> when t has no entry
  phase,       \* phase[r]: where tool call r is
  table,       \* table[r]: the table r describes
  desc,        \* desc[r]: versions r's queries have returned so far
  \* history, read by the properties only
  wrote,       \* wrote[r][t]: version of t that r's last acknowledged commit
               \* installed, 0 when that commit left t alone
  silent,      \* silent[t]: versions installed with no invalidation to follow
  cleared,     \* cleared[t]: version of t when the cache was last cleared
  overlapped,  \* overlapped[r]: the cache was cleared between r's queries
  late         \* late[t]: t's entry was stored by an overlapped call

code    == <<catalog, cache, phase, table, desc>>
history == <<wrote, silent, cleared, overlapped, late>>
vars    == <<catalog, cache, phase, table, desc,
             wrote, silent, cleared, overlapped, late>>

-----------------------------------------------------------------------------
(* The queries of DescribeTable, in the order it runs them.                *)
Queries == <<"primaryKey", "columns", "foreignKeys", "indexes">>

Phases == {"idle",            \* no tool call
           "query", "store",  \* DescribeTable after its miss
           "ddl", "script",   \* ExecuteDDL, ExecuteScript before the commit
           "clear"}           \* either one after the commit

NoEntry == << >>

Trans(r, from, to) ==
  /\ phase[r] = from
  /\ phase' = [phase EXCEPT ![r] = to]

Init ==
  /\ catalog    = [t \in Tables |-> 0]
  /\ cache      = [t \in Tables |-> NoEntry]
  /\ phase      = [r \in Requests |-> "idle"]
  /\ table      = [r \in Requests |-> NoTable]
  /\ desc       = [r \in Requests |-> << >>]
  /\ wrote      = [r \in Requests |-> [t \in Tables |-> 0]]
  /\ silent     = [t \in Tables |-> {}]
  /\ cleared    = [t \in Tables |-> 0]
  /\ overlapped = [r \in Requests |-> FALSE]
  /\ late       = [t \in Tables |-> FALSE]

-----------------------------------------------------------------------------
(* DescribeTable.                                                          *)

\* The lookup under the read lock misses.
Lookup(r, t) ==
  /\ cache[t] = NoEntry
  /\ Trans(r, "idle", "query")
  /\ table' = [table EXCEPT ![r] = t]
  /\ UNCHANGED <<catalog, cache, desc, history>>

\* Defective variant: the description is stored with one query still to run.
QueryShort(r) ==
  /\ Trans(r, "query", IF Len(desc[r]) + 2 = Len(Queries) THEN "store"
                                                          ELSE "query")
  /\ desc' = [desc EXCEPT ![r] = Append(@, catalog[table[r]])]
  /\ UNCHANGED <<catalog, cache, table, history>>

\* One of the four queries returns what is committed at that moment.
Query(r) ==
  /\ Trans(r, "query", IF Len(desc[r]) + 1 = Len(Queries) THEN "store"
                                                          ELSE "query")
  /\ desc' = [desc EXCEPT ![r] = Append(@, catalog[table[r]])]
  /\ UNCHANGED <<catalog, cache, table, history>>

\* DescribeTable's variables go with the call.
Return(r) ==
  /\ table' = [table EXCEPT ![r] = NoTable]
  /\ desc' = [desc EXCEPT ![r] = << >>]
  /\ overlapped' = [overlapped EXCEPT ![r] = FALSE]

\* A query fails or times out: the call returns the error and stores nothing.
QueryFails(r) ==
  /\ Trans(r, "query", "idle")
  /\ Return(r)
  /\ UNCHANGED <<catalog, cache, wrote, silent, cleared, late>>

\* The description goes into the cache, whatever happened meanwhile.
Store(r) ==
  /\ Trans(r, "store", "idle")
  /\ cache' = [cache EXCEPT ![table[r]] = desc[r]]
  /\ late' = [late EXCEPT ![table[r]] = overlapped[r]]
  /\ Return(r)
  /\ UNCHANGED <<catalog, wrote, silent, cleared>>

-----------------------------------------------------------------------------
(* ExecuteDDL and ExecuteScript.  Until the commit other transactions see  *)
(* none of their changes.                                                  *)

StartDDL(r) ==
  /\ Trans(r, "idle", "ddl")
  /\ UNCHANGED <<catalog, cache, table, desc, history>>

StartScript(r) ==
  /\ Trans(r, "idle", "script")
  /\ UNCHANGED <<catalog, cache, table, desc, history>>

Writing(r) == phase[r] \in {"ddl", "script"}

\* An error before the commit, or a commit that fails: everything is rolled
\* back and the call returns the error.
Fails(r) ==
  /\ Writing(r)
  /\ phase' = [phase EXCEPT ![r] = "idle"]
  /\ UNCHANGED <<catalog, cache, table, desc, history>>

\* The database commits changes of the tables in S.
Install(S) ==
  /\ \A t \in S : catalog[t] < MaxVersion
  /\ catalog' = [t \in Tables |-> IF t \in S THEN catalog[t] + 1
                                             ELSE catalog[t]]

\* Defective variants: DDL, or a script with DDL, that leaves the cache alone.
CommitDDLOnly(r, S) ==
  /\ Trans(r, "ddl", "idle")
  /\ Install(S)
  /\ wrote' = [wrote EXCEPT ![r] = [t \in Tables |->
                                      IF t \in S THEN catalog'[t] ELSE 0]]
  /\ UNCHANGED <<cache, table, desc, silent, cleared, overlapped, late>>

CommitScriptOnly(r, S) ==
  /\ Trans(r, "script", "idle")
  /\ Install(S)
  /\ wrote' = [wrote EXCEPT ![r] = [t \in Tables |->
                                      IF t \in S THEN catalog'[t] ELSE 0]]
  /\ UNCHANGED <<cache, table, desc, silent, cleared, overlapped, late>>

\* The commit succeeds.  ExecuteDDL goes on to clear the cache whatever it
\* changed.
CommitDDL(r, S) ==
  /\ Trans(r, "ddl", "clear")
  /\ Install(S)
  /\ wrote' = [wrote EXCEPT ![r] = [t \in Tables |->
                                      IF t \in S THEN catalog'[t] ELSE 0]]
  /\ UNCHANGED <<cache, table, desc, silent, cleared, overlapped, late>>

\* A script that executed a DDL statement does so too ...
CommitScript(r, S) ==
  /\ Trans(r, "script", "clear")
  /\ Install(S)
  /\ wrote' = [wrote EXCEPT ![r] = [t \in Tables |->
                                      IF t \in S THEN catalog'[t] ELSE 0]]
  /\ UNCHANGED <<cache, table, desc, silent, cleared, overlapped, late>>

\* ... and one without DDL statements, which changes no metadata, does not.
CommitDataScript(r) ==
  /\ Trans(r, "script", "idle")
  /\ UNCHANGED <<catalog, cache, table, desc, history>>

Silently(S) ==
  /\ Install(S)
  /\ silent' = [t \in Tables |-> IF t \in S THEN silent[t] \cup {catalog'[t]}
                                            ELSE silent[t]]

\* The database commits but the answer to the commit is lost, by the query
\* timeout for example: the call returns the error and leaves the cache alone.
CommitAnswerLost(r, S) ==
  /\ Writing(r)
  /\ phase' = [phase EXCEPT ![r] = "idle"]
  /\ Silently(S)
  /\ UNCHANGED <<cache, table, desc, wrote, cleared, overlapped, late>>

-----------------------------------------------------------------------------
\* Replacing the map by an empty one, under the write lock.
Invalidate ==
  /\ cache' = [t \in Tables |-> NoEntry]
  /\ cleared' = catalog
  /\ late' = [t \in Tables |-> FALSE]
  /\ overlapped' =
       [r \in Requests |-> \/ overlapped[r]
                           \/ /\ phase[r] \in {"query", "store"}
                              /\ desc[r] # << >>]
  /\ UNCHANGED <<catalog, table, desc, wrote, silent>>

\* Defective variant: only the tables the call changed leave the cache.
ClearChanged(r) ==
  /\ Trans(r, "clear", "idle")
  /\ cache' = [t \in Tables |-> IF wrote[r][t] # 0 THEN NoEntry ELSE cache[t]]
  /\ cleared' = catalog
  /\ late' = [t \in Tables |-> late[t] /\ wrote[r][t] = 0]
  /\ UNCHANGED <<catalog, table, desc, wrote, silent, overlapped>>

ClearCache(r) ==
  /\ Trans(r, "clear", "idle")
  /\ Invalidate

RefreshSchemaCache ==
  /\ UNCHANGED phase
  /\ Invalidate

\* Another client of the database, or another server process with a cache of
\* its own, changes tables.
ChangeElsewhere(S) ==
  /\ Silently(S)
  /\ UNCHANGED <<cache, phase, table, desc, wrote, cleared, overlapped, late>>

-----------------------------------------------------------------------------
Next ==
  \/ \E r \in Requests :
       \/ \E t \in Tables : Lookup(r, t)
       \/ Query(r)
       \/ QueryFails(r)
       \/ Store(r)
       \/ StartDDL(r)
       \/ StartScript(r)
       \/ Fails(r)
       \/ \E S \in SUBSET Tables : \/ CommitDDL(r, S)
                                   \/ CommitScript(r, S)
                                   \/ CommitAnswerLost(r, S)
       \/ CommitDataScript(r)
       \/ ClearCache(r)
  \/ RefreshSchemaCache
  \/ \E S \in SUBSET Tables : ChangeElsewhere(S)

Spec == Init /\ [][Next]_vars

\* After the commit nothing but the mutex stands between a call and the
\* clearing, and the goroutine scheduler and sync.RWMutex starve nobody.
FairSpec == Spec /\ \A r \in Requests : WF_vars(ClearCache(r))

-----------------------------------------------------------------------------
Description == [1..Len(Queries) -> Nat]

\* Only whole descriptions reach the cache.
TypeOK ==
  /\ catalog    \in [Tables -> Nat]
  /\ cache      \in [Tables -> Description \cup {NoEntry}]
  /\ phase      \in [Requests -> Phases]
  /\ table      \in [Requests -> Tables \cup {NoTable}]
  /\ desc       \in [Requests -> Seq(Nat)]
  /\ wrote      \in [Requests -> [Tables -> Nat]]
  /\ silent     \in [Tables -> SUBSET Nat]
  /\ cleared    \in [Tables -> Nat]
  /\ overlapped \in [Requests -> BOOLEAN]
  /\ late       \in [Tables -> BOOLEAN]
  /\ \A r \in Requests :
       /\ phase[r] \in {"query", "store"} <=> table[r] # NoTable
       /\ table[r] = NoTable => desc[r] = << >>
       /\ phase[r] = "query" => Len(desc[r]) < Len(Queries)
       /\ phase[r] = "store" => Len(desc[r]) = Len(Queries)

\* What was read of t at version v is not older than the last clearing.
Fresh(t, v) == cleared[t] <= v

\* A cached description is not older than the last clearing of the cache,
\* unless a clearing fell between the queries that produced it: clearing
\* after the commit (store.go:369, 449) is enough for every introspection
\* that does not straddle it.
FreshUnlessOverlapped ==
  \A t \in Tables : ~late[t] =>
    \A i \in DOMAIN cache[t] : Fresh(t, cache[t][i])

\* A call has installed version u of t and has yet to clear the cache.
ClearPending(t, u) == \E r \in Requests : phase[r] = "clear" /\ wrote[r][t] = u

\* What was read of t at version v lacks only changes made behind the
\* server's back, or by a commit whose answer was lost, or by a call that
\* has committed and is about to clear the cache.
Explained(t, v) ==
  \A u \in 1..catalog[t] : v < u => u \in silent[t] \/ ClearPending(t, u)

\* Every change that a cached description does not show is accounted for,
\* again unless the description straddled a clearing (store.go:253 against
\* 360-373): no acknowledged DDL is ever missing from it.
StalenessExplained ==
  \A t \in Tables : ~late[t] =>
    \A i \in DOMAIN cache[t] : Explained(t, cache[t][i])

\* What store.go:370-371 and 451-452 say of DDL: its commit is followed by an
\* invalidation of the whole cache, so once a call has done both no cached
\* description shows a table as it was before that call changed it.
DDLInvalidatesCache ==
  \A r \in Requests, t \in Tables : phase[r] # "clear" =>
    \A i \in DOMAIN cache[t] : cache[t][i] >= wrote[r][t]

\* A description that lacks a change whose call is still to clear the cache
\* does not survive: the window between commit and clearing always closes.
WindowCloses ==
  \A t \in Tables :
    (\E i \in DOMAIN cache[t], u \in 1..catalog[t] :
        cache[t][i] < u /\ u \notin silent[t] /\ ~late[t])
      ~> (cache[t] = NoEntry)
=============================================================================
