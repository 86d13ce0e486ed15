-------------------------- MODULE SchemaCacheProofs --------------------------
(***************************************************************************)
(* What SchemaCache guarantees for every set of tables and calls and every *)
(* bound: its state is well typed, a description read without an           *)
(* invalidation in between is never older than the last invalidation, and  *)
(* whatever such a description lacks is accounted for.                     *)
(*                                                                         *)
(* Both guarantees are about the cache, but a description is made outside  *)
(* it, one query at a time; the inductive invariant therefore states them  *)
(* for the parts a call in progress has read as well.                      *)
(***************************************************************************)
EXTENDS SchemaCache, TLAPS

LEMMA SeqDef ==
  ASSUME NEW S, NEW s \in Seq(S) PROVE s \in [1..Len(s) -> S]
OBVIOUS

LEMMA QueriesLen == Len(Queries) = 4
BY DEF Queries

LEMMA TypeInit == Init => TypeOK
BY QueriesLen DEF Init, TypeOK, Phases, Description, NoEntry

LEMMA TypeStep == TypeOK /\ [Next]_vars => TypeOK'
<1> USE ConstantsAssumption
<1> SUFFICES ASSUME TypeOK, [Next]_vars PROVE TypeOK'
  OBVIOUS
<1>1. ASSUME NEW r \in Requests, NEW t \in Tables, Lookup(r, t)
      PROVE  TypeOK'
  BY <1>1, QueriesLen DEF TypeOK, Phases, NoEntry, Lookup, Trans, history
<1>2. ASSUME NEW r \in Requests, Query(r)
      PROVE  TypeOK'
  BY <1>2, QueriesLen DEF TypeOK, Phases, NoEntry, Query, Trans, history
<1>3. ASSUME NEW r \in Requests, QueryFails(r)
      PROVE  TypeOK'
  BY <1>3, QueriesLen DEF TypeOK, Phases, NoEntry, QueryFails, Return, Trans
<1>4. ASSUME NEW r \in Requests, Store(r)
      PROVE  TypeOK'
  <2>1. Len(desc[r]) = Len(Queries) /\ desc[r] \in Seq(Nat) /\ table[r] \in Tables
    BY <1>4 DEF TypeOK, Store, Trans
  <2>2. desc[r] \in Description
    BY <2>1, SeqDef, QueriesLen DEF Description
  <2>3. cache' \in [Tables -> Description \cup {NoEntry}]
    BY <1>4, <2>1, <2>2 DEF TypeOK, Store
  <2> QED
    BY <1>4, <2>1, <2>3, QueriesLen DEF TypeOK, Phases, Store, Return, Trans
<1>5. ASSUME NEW r \in Requests, StartDDL(r)
      PROVE  TypeOK'
  BY <1>5, QueriesLen DEF TypeOK, Phases, NoEntry, StartDDL, Trans, history
<1>6. ASSUME NEW r \in Requests, StartScript(r)
      PROVE  TypeOK'
  BY <1>6, QueriesLen DEF TypeOK, Phases, NoEntry, StartScript, Trans, history
<1>7. ASSUME NEW r \in Requests, Fails(r)
      PROVE  TypeOK'
  BY <1>7, QueriesLen DEF TypeOK, Phases, NoEntry, Fails, Writing, history
<1>8. ASSUME NEW r \in Requests, NEW S \in SUBSET Tables, CommitDDL(r, S)
      PROVE  TypeOK'
  BY <1>8, QueriesLen DEF TypeOK, Phases, NoEntry, CommitDDL, Install, Trans
<1>9. ASSUME NEW r \in Requests, NEW S \in SUBSET Tables, CommitScript(r, S)
      PROVE  TypeOK'
  BY <1>9, QueriesLen DEF TypeOK, Phases, NoEntry, CommitScript, Install, Trans
<1>10. ASSUME NEW r \in Requests, NEW S \in SUBSET Tables, CommitAnswerLost(r, S)
      PROVE  TypeOK'
  BY <1>10, QueriesLen DEF TypeOK, Phases, NoEntry, CommitAnswerLost, Writing, Silently, Install
<1>11. ASSUME NEW r \in Requests, CommitDataScript(r)
      PROVE  TypeOK'
  BY <1>11, QueriesLen DEF TypeOK, Phases, NoEntry, CommitDataScript, Trans, history
<1>12. ASSUME NEW r \in Requests, ClearCache(r)
      PROVE  TypeOK'
  BY <1>12, QueriesLen DEF TypeOK, Phases, NoEntry, ClearCache, Invalidate, Trans
<1>13. ASSUME RefreshSchemaCache
      PROVE  TypeOK'
  BY <1>13, QueriesLen DEF TypeOK, Phases, NoEntry, RefreshSchemaCache, Invalidate
<1>14. ASSUME NEW S \in SUBSET Tables, ChangeElsewhere(S)
      PROVE  TypeOK'
  BY <1>14, QueriesLen DEF TypeOK, Phases, NoEntry, ChangeElsewhere, Silently, Install
<1>15. CASE UNCHANGED vars
  BY <1>15 DEF TypeOK, vars
<1> QED
  BY <1>1, <1>2, <1>3, <1>4, <1>5, <1>6, <1>7, <1>8, <1>9, <1>10, <1>11, <1>12, <1>13, <1>14, <1>15 DEF Next

(* The state is well typed and only whole descriptions reach the cache     *)
(* (store.go:253-255).                                                     *)
THEOREM TypeCorrect == Spec => []TypeOK
BY TypeInit, TypeStep, PTL DEF Spec

-----------------------------------------------------------------------------
(* The inductive invariant.                                                *)

\* What the calls in progress have read obeys the same rules.
ReadsFresh ==
  \A r \in Requests : ~overlapped[r] =>
    \A i \in DOMAIN desc[r] : Fresh(table[r], desc[r][i])

ReadsExplained ==
  \A r \in Requests : ~overlapped[r] =>
    \A i \in DOMAIN desc[r] : Explained(table[r], desc[r][i])

ClearedPast == \A t \in Tables : cleared[t] <= catalog[t]

IInv ==
  /\ TypeOK
  /\ ClearedPast
  /\ FreshUnlessOverlapped
  /\ StalenessExplained
  /\ ReadsFresh
  /\ ReadsExplained

\* A step that does not clear the cache forgets neither a silent change nor a
\* pending clearing, and accounts for the version it installs, if any.
LEMMA QuietStep ==
  ASSUME TypeOK, [Next]_vars, ~Invalidate, NEW t \in Tables
  PROVE  /\ silent[t] \subseteq silent'[t]
         /\ \A u : ClearPending(t, u) => ClearPending(t, u)'
         /\ \/ catalog'[t] = catalog[t]
            \/ /\ catalog'[t] = catalog[t] + 1
               /\ \A u : u = catalog'[t] =>
                           u \in silent'[t] \/ ClearPending(t, u)'
<1> DEFINE Goal == /\ silent[t] \subseteq silent'[t]
                   /\ \A u : ClearPending(t, u) => ClearPending(t, u)'
                   /\ \/ catalog'[t] = catalog[t]
                      \/ /\ catalog'[t] = catalog[t] + 1
                         /\ \A u : u = catalog'[t] =>
                                     u \in silent'[t] \/ ClearPending(t, u)'
<1>1. ASSUME NEW r \in Requests, NEW k \in Tables, Lookup(r, k)
      PROVE  Goal
  BY <1>1 DEF TypeOK, ClearPending, Lookup, Trans, history
<1>2. ASSUME NEW r \in Requests, Query(r)
      PROVE  Goal
  BY <1>2 DEF TypeOK, ClearPending, Query, Trans, history
<1>3. ASSUME NEW r \in Requests, QueryFails(r) \/ Store(r)
      PROVE  Goal
  BY <1>3 DEF TypeOK, ClearPending, QueryFails, Store, Trans
<1>4. ASSUME NEW r \in Requests,
             StartDDL(r) \/ StartScript(r) \/ Fails(r) \/ CommitDataScript(r)
      PROVE  Goal
  BY <1>4 DEF TypeOK, ClearPending, StartDDL, StartScript, Fails, Writing,
              CommitDataScript, Trans, history
<1>5. ASSUME NEW r \in Requests, NEW S \in SUBSET Tables,
             CommitDDL(r, S) \/ CommitScript(r, S)
      PROVE  Goal
  <2>1. /\ phase[r] # "clear"
        /\ phase' = [phase EXCEPT ![r] = "clear"]
        /\ wrote' = [wrote EXCEPT ![r] = [k \in Tables |->
                                    IF k \in S THEN catalog'[k] ELSE 0]]
        /\ silent' = silent
        /\ catalog' = [k \in Tables |-> IF k \in S THEN catalog[k] + 1
                                                   ELSE catalog[k]]
    BY <1>5 DEF CommitDDL, CommitScript, Install, Trans
  <2>2. \A u : ClearPending(t, u) => ClearPending(t, u)'
    BY <2>1 DEF TypeOK, ClearPending
  <2>3. t \in S => \A u : u = catalog'[t] => ClearPending(t, u)'
    BY <2>1 DEF TypeOK, ClearPending
  <2> QED
    BY <2>1, <2>2, <2>3 DEF TypeOK
<1>6. ASSUME NEW S \in SUBSET Tables,
             ChangeElsewhere(S) \/ \E r \in Requests : CommitAnswerLost(r, S)
      PROVE  Goal
  <2>1. \A u : ClearPending(t, u) => ClearPending(t, u)'
    BY <1>6 DEF TypeOK, ClearPending, ChangeElsewhere, CommitAnswerLost, Writing
  <2>2. Silently(S)
    BY <1>6 DEF ChangeElsewhere, CommitAnswerLost
  <2> QED
    BY <2>1, <2>2 DEF TypeOK, Silently, Install
<1>7. CASE UNCHANGED vars
  BY <1>7 DEF vars, ClearPending
<1> QED
  BY <1>1, <1>2, <1>3, <1>4, <1>5, <1>6, <1>7
     DEF Next, ClearCache, RefreshSchemaCache

\* What is accounted for stays so until the cache is cleared.
LEMMA ExplainedStable ==
  ASSUME TypeOK, [Next]_vars, ~Invalidate,
         NEW t \in Tables, NEW v \in Nat, Explained(t, v)
  PROVE  Explained(t, v)'
<1> SUFFICES ASSUME NEW u \in 1..catalog'[t], v < u
             PROVE  u \in silent'[t] \/ ClearPending(t, u)'
  BY DEF Explained
<1>1. CASE u <= catalog[t]
  <2>1. u \in silent[t] \/ ClearPending(t, u)
    BY <1>1 DEF Explained, TypeOK
  <2> QED
    BY <2>1, QuietStep
<1>2. CASE catalog[t] < u
  <2>1. u = catalog'[t] /\ catalog'[t] = catalog[t] + 1
    BY <1>2, QuietStep DEF TypeOK
  <2> QED
    BY <2>1, QuietStep DEF TypeOK
<1> QED
  BY <1>1, <1>2 DEF TypeOK

\* How a step that does not clear the cache changes what has been read: an
\* entry is replaced by what a call has read ...
LEMMA EntryStep ==
  ASSUME TypeOK, [Next]_vars, ~Invalidate, NEW t \in Tables
  PROVE  \/ cache'[t] = cache[t] /\ late'[t] = late[t]
         \/ \E r \in Requests : /\ table[r] = t
                                /\ cache'[t] = desc[r]
                                /\ late'[t] = overlapped[r]
<1> DEFINE Same == cache' = cache /\ late' = late
<1>1. ASSUME NEW r \in Requests, Store(r)
      PROVE  \/ cache'[t] = cache[t] /\ late'[t] = late[t]
             \/ /\ table[r] = t
                /\ cache'[t] = desc[r]
                /\ late'[t] = overlapped[r]
  BY <1>1 DEF TypeOK, Store
<1>2. ASSUME NEW r \in Requests, NEW k \in Tables, Lookup(r, k)
      PROVE  Same
  BY <1>2 DEF Lookup, history
<1>3. ASSUME NEW r \in Requests,
             \/ Query(r) \/ QueryFails(r) \/ StartDDL(r) \/ StartScript(r)
             \/ Fails(r) \/ CommitDataScript(r)
      PROVE  Same
  BY <1>3 DEF Query, QueryFails, StartDDL, StartScript, Fails,
              CommitDataScript, history
<1>4. ASSUME NEW r \in Requests, NEW S \in SUBSET Tables,
             CommitDDL(r, S) \/ CommitScript(r, S) \/ CommitAnswerLost(r, S)
      PROVE  Same
  BY <1>4 DEF CommitDDL, CommitScript, CommitAnswerLost
<1>5. ASSUME NEW S \in SUBSET Tables, ChangeElsewhere(S)
      PROVE  Same
  BY <1>5 DEF ChangeElsewhere
<1>6. CASE UNCHANGED vars
  BY <1>6 DEF vars
<1> QED
  BY <1>1, <1>2, <1>3, <1>4, <1>5, <1>6
     DEF Next, ClearCache, RefreshSchemaCache

\* ... and a call drops what it has read, keeps it, or reads one part more.
LEMMA DescStep ==
  ASSUME TypeOK, [Next]_vars, ~Invalidate, NEW r \in Requests
  PROVE  \/ desc'[r] = << >>
         \/ /\ desc'[r] = desc[r]
            /\ table'[r] = table[r]
            /\ overlapped'[r] = overlapped[r]
         \/ /\ desc'[r] = Append(desc[r], catalog[table[r]])
            /\ table[r] \in Tables
            /\ table'[r] = table[r]
            /\ overlapped'[r] = overlapped[r]
            /\ UNCHANGED <<catalog, cleared>>
<1> DEFINE Same == desc' = desc /\ table' = table /\ overlapped' = overlapped
           Kept == /\ desc'[r] = desc[r]
                   /\ table'[r] = table[r]
                   /\ overlapped'[r] = overlapped[r]
           More == /\ desc'[r] = Append(desc[r], catalog[table[r]])
                   /\ table[r] \in Tables
                   /\ table'[r] = table[r]
                   /\ overlapped'[r] = overlapped[r]
                   /\ UNCHANGED <<catalog, cleared>>
<1>1. ASSUME NEW q \in Requests, NEW k \in Tables, Lookup(q, k)
      PROVE  desc'[r] = << >> \/ Kept
  BY <1>1 DEF TypeOK, Lookup, Trans, history
<1>2. ASSUME NEW q \in Requests, Query(q)
      PROVE  Kept \/ More
  BY <1>2 DEF TypeOK, Query, Trans, history
<1>3. ASSUME NEW q \in Requests, QueryFails(q) \/ Store(q)
      PROVE  desc'[r] = << >> \/ Kept
  BY <1>3 DEF TypeOK, QueryFails, Store, Return
<1>4. ASSUME NEW q \in Requests,
             StartDDL(q) \/ StartScript(q) \/ Fails(q) \/ CommitDataScript(q)
      PROVE  Same
  BY <1>4 DEF StartDDL, StartScript, Fails, CommitDataScript, history
<1>5. ASSUME NEW q \in Requests, NEW S \in SUBSET Tables,
             CommitDDL(q, S) \/ CommitScript(q, S) \/ CommitAnswerLost(q, S)
      PROVE  Same
  BY <1>5 DEF CommitDDL, CommitScript, CommitAnswerLost
<1>6. ASSUME NEW S \in SUBSET Tables, ChangeElsewhere(S)
      PROVE  Same
  BY <1>6 DEF ChangeElsewhere
<1>7. CASE UNCHANGED vars
  BY <1>7 DEF vars
<1> QED
  BY <1>1, <1>2, <1>3, <1>4, <1>5, <1>6, <1>7
     DEF Next, ClearCache, RefreshSchemaCache

\* A step that does not clear the cache leaves the marks of the last clearing.
LEMMA ClearedStep ==
  ASSUME [Next]_vars, ~Invalidate
  PROVE  cleared' = cleared
BY DEF Next, vars, history, Lookup, Query, QueryFails, Store, StartDDL,
       StartScript, Fails, CommitDDL, CommitScript, CommitAnswerLost,
       CommitDataScript, ClearCache, RefreshSchemaCache, ChangeElsewhere

\* What the invariant says of one part read of table t at version v.
Good(t, v) == Fresh(t, v) /\ Explained(t, v)

LEMMA GoodStable ==
  ASSUME TypeOK, [Next]_vars, ~Invalidate,
         NEW t \in Tables, NEW v \in Nat, Good(t, v)
  PROVE  Good(t, v)'
BY ClearedStep, ExplainedStable DEF Good, Fresh

\* IInv is the type invariant and this.
EntriesGood ==
  \A t \in Tables : ~late[t] => \A i \in DOMAIN cache[t] : Good(t, cache[t][i])

ReadsGood ==
  \A r \in Requests : ~overlapped[r] =>
    \A i \in DOMAIN desc[r] : Good(table[r], desc[r][i])

LEMMA IInvIsGood == IInv <=> TypeOK /\ ClearedPast /\ EntriesGood /\ ReadsGood
BY DEF IInv, EntriesGood, ReadsGood, Good, FreshUnlessOverlapped,
       StalenessExplained, ReadsFresh, ReadsExplained

LEMMA ReadTypes ==
  ASSUME TypeOK, NEW r \in Requests, NEW i \in DOMAIN desc[r]
  PROVE  table[r] \in Tables /\ desc[r][i] \in Nat
BY DEF TypeOK

LEMMA EntryTypes ==
  ASSUME TypeOK, NEW t \in Tables, NEW i \in DOMAIN cache[t]
  PROVE  cache[t][i] \in Nat
<1>1. CASE cache[t] \in Description
  BY <1>1, QueriesLen DEF Description
<1>2. CASE cache[t] = NoEntry
  BY <1>2 DEF NoEntry
<1> QED
  BY <1>1, <1>2 DEF TypeOK

LEMMA InvInit == Init => IInv
BY TypeInit DEF Init, IInv, ClearedPast, FreshUnlessOverlapped,
       StalenessExplained, ReadsFresh, ReadsExplained, NoEntry

\* Clearing leaves no entry, and no call with anything read goes unmarked.
LEMMA InvalidateKeepsInv ==
  ASSUME TypeOK, TypeOK', Invalidate
  PROVE  (ClearedPast /\ EntriesGood /\ ReadsGood)'
<1>1. ClearedPast'
  BY DEF TypeOK, ClearedPast, Invalidate
<1>2. EntriesGood'
  BY DEF TypeOK, EntriesGood, Invalidate, NoEntry
<1>3. ReadsGood'
  <2> SUFFICES ASSUME NEW r \in Requests, ~overlapped'[r]
               PROVE  desc'[r] = << >>
    BY DEF ReadsGood
  <2> QED
    BY DEF TypeOK, Invalidate
<1> QED
  BY <1>1, <1>2, <1>3

LEMMA InvStep == IInv /\ [Next]_vars => IInv'
<1>0. IInv' <=> (TypeOK /\ ClearedPast /\ EntriesGood /\ ReadsGood)'
  BY IInvIsGood, PTL
<1> SUFFICES ASSUME TypeOK, ClearedPast, EntriesGood, ReadsGood, [Next]_vars
             PROVE  (TypeOK /\ ClearedPast /\ EntriesGood /\ ReadsGood)'
  BY <1>0, IInvIsGood
<1>1. TypeOK'
  BY TypeStep
<1>2. CASE Invalidate
  BY <1>1, <1>2, InvalidateKeepsInv
<1>3. CASE ~Invalidate
  <2>1. ClearedPast'
    <3> SUFFICES ASSUME NEW t \in Tables PROVE cleared'[t] <= catalog'[t]
      BY DEF ClearedPast
    <3>1. catalog'[t] = catalog[t] \/ catalog'[t] = catalog[t] + 1
      BY <1>3, QuietStep
    <3> QED
      BY <1>3, <3>1, ClearedStep DEF TypeOK, ClearedPast
  <2>2. EntriesGood'
    <3> SUFFICES ASSUME NEW t \in Tables, ~late'[t], NEW i \in DOMAIN cache'[t]
                 PROVE  Good(t, cache[t][i])'
      BY DEF EntriesGood
    <3>1. CASE cache'[t] = cache[t] /\ late'[t] = late[t]
      <4>1. Good(t, cache[t][i]) /\ cache[t][i] \in Nat
        BY <3>1, EntryTypes DEF EntriesGood
      <4>2. PICK v \in Nat : v = cache[t][i]
        BY <4>1
      <4>3. Good(t, v)'
        BY <1>3, <4>1, <4>2, GoodStable
      <4> QED
        BY <3>1, <4>2, <4>3
    <3>2. CASE \E r \in Requests : /\ table[r] = t
                                   /\ cache'[t] = desc[r]
                                   /\ late'[t] = overlapped[r]
      <4>1. PICK v \in Nat : v = cache'[t][i] /\ Good(t, v)
        BY <3>2, ReadTypes DEF ReadsGood
      <4>2. Good(t, v)'
        BY <1>3, <4>1, GoodStable
      <4> QED
        BY <4>1, <4>2
    <3> QED
      BY <1>3, <3>1, <3>2, EntryStep
  <2>3. ReadsGood'
    <3> SUFFICES ASSUME NEW r \in Requests, ~overlapped'[r],
                        NEW i \in DOMAIN desc'[r]
                 PROVE  Good(table[r], desc[r][i])'
      BY DEF ReadsGood
    <3>1. CASE desc'[r] = << >>
      BY <3>1
    <3>2. ASSUME overlapped'[r] = overlapped[r], table'[r] = table[r],
                 i \in DOMAIN desc[r], desc'[r][i] = desc[r][i]
          PROVE  Good(table[r], desc[r][i])'
      <4>1. Good(table[r], desc[r][i])
        BY <3>2 DEF ReadsGood
      <4>2. PICK v \in Nat, t \in Tables : v = desc[r][i] /\ t = table[r]
        BY <3>2, ReadTypes
      <4>3. Good(t, v)'
        BY <1>3, <4>1, <4>2, GoodStable
      <4> QED
        BY <3>2, <4>2, <4>3
    <3>3. ASSUME table'[r] = table[r], table[r] \in Tables,
                 UNCHANGED <<catalog, cleared>>, desc'[r][i] = catalog[table[r]]
          PROVE  Good(table[r], desc[r][i])'
      BY <1>1, <3>3 DEF TypeOK, ClearedPast, Good, Fresh, Explained
    <3>4. CASE /\ desc'[r] = Append(desc[r], catalog[table[r]])
               /\ table[r] \in Tables
               /\ table'[r] = table[r]
               /\ overlapped'[r] = overlapped[r]
               /\ UNCHANGED <<catalog, cleared>>
      <4>1. desc[r] \in Seq(Nat) /\ catalog[table[r]] \in Nat
        BY <3>4 DEF TypeOK
      <4>2. \/ i \in DOMAIN desc[r] /\ desc'[r][i] = desc[r][i]
            \/ desc'[r][i] = catalog[table[r]]
        BY <3>4, <4>1
      <4> QED
        BY <3>2, <3>3, <3>4, <4>2
    <3> QED
      BY <1>3, <3>1, <3>2, <3>4, DescStep
  <2> QED
    BY <1>1, <2>1, <2>2, <2>3
<1> QED
  BY <1>2, <1>3

(* No description read without an invalidation in between is older than    *)
(* the last invalidation (store.go:253-255, 369-373, 449-455).             *)
THEOREM Freshness == Spec => []FreshUnlessOverlapped
<1>1. IInv => FreshUnlessOverlapped
  BY DEF IInv
<1> QED
  BY <1>1, InvInit, InvStep, PTL DEF Spec

(* The changes such a description lacks were made elsewhere, or by a       *)
(* commit whose answer was lost, or are about to clear it                  *)
(* (store.go:360-373, 445-455).                                            *)
THEOREM Staleness == Spec => []StalenessExplained
<1>1. IInv => StalenessExplained
  BY DEF IInv
<1> QED
  BY <1>1, InvInit, InvStep, PTL DEF Spec

-----------------------------------------------------------------------------
(* What others see of the cache.  They read one part of a description, the *)
(* columns; the whole may never have been true at any one time.            *)

ColumnsOf(d) == d[2]

Cached == INSTANCE CachedDescriptions WITH
            past  <- [t \in Tables |-> 0..catalog[t]],
            entry <- [t \in Tables |-> IF cache[t] = NoEntry THEN {}
                                       ELSE {ColumnsOf(cache[t])}]

\* No call has read of its table what the table has yet to become.
ReadsPast ==
  \A r \in Requests : \A i \in DOMAIN desc[r] : desc[r][i] <= catalog[table[r]]

LEMMA CatalogGrows ==
  ASSUME TypeOK, [Next]_vars, NEW t \in Tables
  PROVE  catalog[t] \in Nat /\ catalog'[t] \in Nat /\ catalog[t] <= catalog'[t]
<1>1. catalog[t] \in Nat
  BY DEF TypeOK
<1>2. CASE Invalidate
  BY <1>1, <1>2 DEF Invalidate
<1>3. CASE ~Invalidate
  BY <1>1, <1>3, QuietStep
<1> QED
  BY <1>2, <1>3

LEMMA ReadsPastStep == TypeOK /\ ReadsPast /\ [Next]_vars => ReadsPast'
<1> SUFFICES ASSUME TypeOK, ReadsPast, [Next]_vars,
                    NEW r \in Requests, NEW i \in DOMAIN desc'[r]
             PROVE  desc'[r][i] <= catalog'[table'[r]]
  BY DEF ReadsPast
<1>1. ASSUME i \in DOMAIN desc[r], desc'[r][i] = desc[r][i], table'[r] = table[r]
      PROVE  desc'[r][i] <= catalog'[table'[r]]
  <2>1. table[r] \in Tables /\ desc[r][i] \in Nat
    BY <1>1, ReadTypes
  <2>2. desc[r][i] <= catalog[table[r]]
    BY <1>1 DEF ReadsPast
  <2> QED
    BY <1>1, <2>1, <2>2, CatalogGrows
<1>2. CASE Invalidate
  BY <1>1, <1>2 DEF Invalidate
<1>3. CASE ~Invalidate
  <2>1. CASE desc'[r] = << >>
    BY <2>1
  <2>2. CASE desc'[r] = desc[r] /\ table'[r] = table[r]
    BY <1>1, <2>2
  <2>3. CASE /\ desc'[r] = Append(desc[r], catalog[table[r]])
             /\ table[r] \in Tables
             /\ table'[r] = table[r]
    <3>1. desc[r] \in Seq(Nat) /\ catalog[table[r]] \in Nat
      BY <2>3 DEF TypeOK
    <3>2. \/ i \in DOMAIN desc[r] /\ desc'[r][i] = desc[r][i]
          \/ desc'[r][i] = catalog[table[r]]
      BY <2>3, <3>1
    <3> QED
      BY <1>1, <2>3, <3>2, CatalogGrows
  <2> QED
    BY <1>3, <2>1, <2>2, <2>3, DescStep
<1> QED
  BY <1>2, <1>3

LEMMA OnlyStoreFills ==
  ASSUME TypeOK, [Next]_vars, ~Invalidate
  PROVE  \/ cache' = cache
         \/ \E r \in Requests : Store(r)
<1>1. ASSUME NEW r \in Requests, NEW t \in Tables, Lookup(r, t)
      PROVE  cache' = cache
  BY <1>1 DEF Lookup
<1>2. ASSUME NEW r \in Requests,
             \/ Query(r) \/ QueryFails(r) \/ StartDDL(r) \/ StartScript(r)
             \/ Fails(r) \/ CommitDataScript(r)
      PROVE  cache' = cache
  BY <1>2 DEF Query, QueryFails, StartDDL, StartScript, Fails, CommitDataScript
<1>3. ASSUME NEW r \in Requests, NEW S \in SUBSET Tables,
             CommitDDL(r, S) \/ CommitScript(r, S) \/ CommitAnswerLost(r, S)
      PROVE  cache' = cache
  BY <1>3 DEF CommitDDL, CommitScript, CommitAnswerLost
<1>4. ASSUME NEW S \in SUBSET Tables, ChangeElsewhere(S)
      PROVE  cache' = cache
  BY <1>4 DEF ChangeElsewhere
<1>5. CASE UNCHANGED vars
  BY <1>5 DEF vars
<1> QED
  BY <1>1, <1>2, <1>3, <1>4, <1>5 DEF Next, ClearCache, RefreshSchemaCache

LEMMA CachedInit == Init => Cached!Init
BY DEF Init, Cached!Init

LEMMA CachedStep == TypeOK /\ ReadsPast /\ [Next]_vars => [Cached!Next]_(Cached!vars)
<1> SUFFICES ASSUME TypeOK, ReadsPast, [Next]_vars PROVE Cached!Next
  BY DEF Cached!Next
<1> DEFINE past == [t \in Tables |-> 0..catalog[t]]
           entry == [t \in Tables |-> IF cache[t] = NoEntry THEN {}
                                      ELSE {ColumnsOf(cache[t])}]
<1>1. CASE Invalidate
  <2>1. entry' = [t \in Tables |-> {}] /\ past' = past
    BY <1>1 DEF Invalidate
  <2> QED
    BY <2>1 DEF Cached!Next, Cached!Clear
<1>2. CASE cache' = cache
  <2>1. \A t \in Tables : 0..catalog[t] \subseteq 0..catalog'[t]
    BY CatalogGrows
  <2> QED
    BY <1>2, <2>1 DEF Cached!Next, Cached!Change
<1>3. ASSUME NEW r \in Requests, Store(r)
      PROVE  Cached!Next
  <2>1. /\ table[r] \in Tables /\ desc[r] \in Seq(Nat) /\ Len(desc[r]) = 4
        /\ cache' = [cache EXCEPT ![table[r]] = desc[r]]
        /\ catalog' = catalog /\ cache \in [Tables -> Description \cup {NoEntry}]
    BY <1>3, QueriesLen DEF TypeOK, Store, Trans
  <2>2. 2 \in DOMAIN desc[r] /\ desc[r] # NoEntry
    BY <2>1 DEF NoEntry
  <2>3. ColumnsOf(desc[r]) \in past[table[r]]
    <3>1. desc[r][2] <= catalog[table[r]] /\ desc[r][2] \in Nat
      BY <2>2, ReadTypes DEF ReadsPast
    <3>2. catalog[table[r]] \in Nat
      BY <2>1 DEF TypeOK
    <3> QED
      BY <2>1, <3>1, <3>2 DEF ColumnsOf
  <2>4. entry' = [entry EXCEPT ![table[r]] = {ColumnsOf(desc[r])}] /\ past' = past
    BY <2>1, <2>2
  <2>5. PICK t \in Tables : t = table[r]
    BY <2>1
  <2>6. Cached!Store(t)
    BY <2>3, <2>4, <2>5 DEF Cached!Store
  <2> QED
    BY <2>6 DEF Cached!Next
<1> QED
  BY <1>1, <1>2, <1>3, OnlyStoreFills

(* To those who see only its entries the cache is one that holds, of any   *)
(* table, columns the table has had (store.go:209-211, 253-255): this is   *)
(* all that Search takes for granted of it.                                *)
THEOREM CacheOfThePast == Spec => Cached!Spec
<1>1. Init => ReadsPast
  BY DEF Init, ReadsPast
<1> QED
  BY <1>1, TypeInit, TypeStep, ReadsPastStep, CachedInit, CachedStep, PTL
     DEF Spec, Cached!Spec
=============================================================================
