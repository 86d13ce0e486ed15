--------------------------- MODULE StoreTxProofs ---------------------------
(***************************************************************************)
(* For every set of calls and connections, every limit and every bound:    *)
(* StoreTx is well typed, the pool only ever lends clean connections, no   *)
(* commit exceeds its row limit, and the writing calls implement           *)
(* AtomicWrite.                                                            *)
(***************************************************************************)
EXTENDS StoreTx, TLAPS

USE ConstantsAssumption

-----------------------------------------------------------------------------
LEMMA FreshType == Fresh \in Sessions
BY DEF Fresh, Sessions

LEMMA EndTxType == ASSUME NEW s \in Sessions PROVE EndTx(s) \in Sessions
BY DEF EndTx, Sessions

LEMMA BeginTxType == ASSUME NEW s \in Sessions PROVE BeginTx(s) \in Sessions
BY DEF BeginTx, Sessions

LEMMA ScopeType == ASSUME NEW s \in Sessions PROVE Scope(s) \in Sessions
BY DEF Scope, Sessions

LEMMA ReleasedType == ASSUME NEW s \in Sessions PROVE Released(s) \in Sessions
BY FreshType DEF Released

LEMMA TypeInit == Init => TypeOK
BY FreshType DEF Init, TypeOK, Phases, Kinds, Writes, Outcomes

LEMMA TypeStep == TypeOK /\ [Next]_vars => TypeOK'
<1> SUFFICES ASSUME TypeOK, [Next]_vars PROVE TypeOK'
  OBVIOUS
<1> USE FreshType, EndTxType, ReleasedType, BeginTxType, ScopeType DEF TypeOK, Phases, Kinds, Writes, Outcomes
<1>1. ASSUME NEW c \in Calls, Start(c)
      PROVE  TypeOK'
  BY <1>1 DEF Start, Trans, Sizes, DescribeQueries
<1>2. ASSUME NEW c \in Calls, Refuse(c)
      PROVE  TypeOK'
  BY <1>2 DEF Refuse, Answer
<1>3. ASSUME NEW c \in Calls, Expire(c)
      PROVE  TypeOK'
  BY <1>3 DEF Expire
<1>4. ASSUME NEW c \in Calls, NEW k \in Conns, Acquire(c, k)
      PROVE  TypeOK'
  BY <1>4 DEF Acquire
<1>5. ASSUME NEW c \in Calls, AcquireFails(c)
      PROVE  TypeOK'
  BY <1>5 DEF AcquireFails, Answer
<1>6. ASSUME NEW c \in Calls, SetSearchPath(c)
      PROVE  TypeOK'
  BY <1>6 DEF SetSearchPath, Trans
<1>7. ASSUME NEW c \in Calls, NEW n \in 0..RowBound, Exec(c, n)
      PROVE  TypeOK'
  BY <1>7 DEF Exec, Rollback, ReleaseAs, Answer
<1>8. ASSUME NEW c \in Calls, ExecFails(c)
      PROVE  TypeOK'
  BY <1>8 DEF ExecFails, Rollback, ReleaseAs, Answer
<1>9. ASSUME NEW c \in Calls, ServerCommits(c)
      PROVE  TypeOK'
  BY <1>9 DEF ServerCommits, Trans
<1>10. ASSUME NEW c \in Calls, CommitReturns(c)
      PROVE  TypeOK'
  BY <1>10 DEF CommitReturns, ReleaseAs, Answer
<1>11. ASSUME NEW c \in Calls, CommitRejected(c)
      PROVE  TypeOK'
  BY <1>11 DEF CommitRejected, ReleaseAs, Answer
<1>12. ASSUME NEW c \in Calls, CommitCutShort(c)
      PROVE  TypeOK'
  BY <1>12 DEF CommitCutShort, ReleaseAs, Answer, InDoubt
<1>13. ASSUME NEW c \in Calls, OrphanDecided(c)
      PROVE  TypeOK'
  BY <1>13 DEF OrphanDecided
<1>14. ASSUME NEW c \in Calls, CatalogQuery(c)
      PROVE  TypeOK'
  <2>1. session' \in [Conns -> Sessions]
    BY <1>14 DEF CatalogQuery, ReleaseAs
  <2>2. CASE done[c] + 1 = size[c]
    BY <1>14, <2>1, <2>2 DEF CatalogQuery, Answer
  <2>3. CASE done[c] + 1 # size[c]
    BY <1>14, <2>1, <2>3 DEF CatalogQuery
  <2> QED
    BY <2>2, <2>3
<1>15. ASSUME NEW c \in Calls, CatalogQueryFails(c)
      PROVE  TypeOK'
  BY <1>15 DEF CatalogQueryFails, ReleaseAs, Answer
<1>16. CASE UNCHANGED vars
  BY <1>16 DEF vars
<1> QED
  BY <1>1, <1>2, <1>3, <1>4, <1>5, <1>6, <1>7, <1>8, <1>9, <1>10, <1>11, <1>12, <1>13, <1>14, <1>15, <1>16 DEF Next, Served, GivesUp

(* The state is well typed.                                                *)
THEOREM TypeCorrect == Spec => []TypeOK
BY TypeInit, TypeStep, PTL DEF Spec

-----------------------------------------------------------------------------
(* The pool.  The inductive invariant adds what is true of the session of  *)
(* a connection while a call holds it.                                     *)

HeldSessions ==
  \A c \in Calls : conn[c] # NoConn =>
    /\ session[conn[c]].path = "default"
    /\ phase[c] \in {"committed", "query"} => session[conn[c]] = Fresh

PoolInv == PoolDiscipline /\ IdleConnsClean /\ HeldSessions

LEMMA EndTxIsFresh ==
  ASSUME NEW s \in Sessions, s.path = "default" PROVE EndTx(s) = Fresh
<1>1. PICK x \in {"idle", "open"}, l \in BOOLEAN :
        s = [tx |-> x, path |-> "default", local |-> l]
  BY DEF Sessions
<1>2. /\ EndTx(s).tx = "idle" /\ EndTx(s).path = "default"
      /\ EndTx(s).local = FALSE
  BY <1>1 DEF EndTx
<1>3. EndTx(s) \in Sessions
  BY EndTxType
<1> QED
  BY <1>2, <1>3 DEF Sessions, Fresh

LEMMA SamePath ==
  ASSUME NEW s \in Sessions
  PROVE  BeginTx(s).path = s.path /\ Scope(s).path = s.path
BY DEF BeginTx, Scope, Sessions

\* What a call hands back is clean.
LEMMA ReleasedFresh == Released(Fresh) = Fresh
BY DEF Released

LEMMA HeldType ==
  ASSUME TypeOK, PoolInv, NEW c \in Calls,
         phase[c] \notin {"idle", "wait", "answered"}
  PROVE  conn[c] \in Conns /\ session[conn[c]] \in Sessions
BY DEF TypeOK, PoolInv, PoolDiscipline

\* A call leaves the pool alone.
LEMMA PoolUntouched ==
  ASSUME PoolInv, UNCHANGED <<phase, conn, session>>
  PROVE  PoolInv'
BY DEF PoolInv, PoolDiscipline, IdleConnsClean, HeldSessions, Free

\* A call without a connection changes its phase to another such phase.
LEMMA PoolUnused ==
  ASSUME TypeOK, PoolInv, NEW c \in Calls,
         phase[c] \in {"idle", "wait"}, NEW p \in {"wait", "answered"},
         phase' = [phase EXCEPT ![c] = p],
         conn' = conn \/ conn' = [conn EXCEPT ![c] = NoConn],
         UNCHANGED session
  PROVE  PoolInv'
<1>1. conn' = conn
  BY DEF TypeOK, PoolInv, PoolDiscipline
<1> QED
  BY <1>1 DEF TypeOK, PoolInv, PoolDiscipline, IdleConnsClean, HeldSessions, Free

\* A call takes a free connection.
LEMMA PoolLends ==
  ASSUME TypeOK, PoolInv, NEW c \in Calls, phase[c] = "wait",
         NEW k \in Free, NEW p \in {"query", "path", "exec"},
         phase' = [phase EXCEPT ![c] = p],
         conn' = [conn EXCEPT ![c] = k],
         \/ UNCHANGED session
         \/ p # "query" /\ session' = [session EXCEPT ![k] = BeginTx(@)]
  PROVE  PoolInv'
<1>1. /\ k \in Conns /\ k # NoConn /\ session[k] = Fresh
      /\ \A d \in Calls : conn[d] # k
  BY DEF Free, PoolInv, IdleConnsClean
<1>2. /\ session'[k].path = "default"
      /\ p = "query" => session'[k] = Fresh
      /\ \A l \in Conns : l # k => session'[l] = session[l]
  BY <1>1, SamePath, FreshType DEF TypeOK, Fresh
<1>3. PoolDiscipline'
  BY <1>1 DEF TypeOK, PoolInv, PoolDiscipline
<1>4. IdleConnsClean'
  <2> SUFFICES ASSUME NEW l \in Conns, \A d \in Calls : conn'[d] # l
               PROVE  session'[l] = Fresh
    BY DEF IdleConnsClean, Free
  <2>1. l # k
    BY DEF TypeOK
  <2>2. l \in Free
    BY DEF TypeOK, PoolInv, PoolDiscipline, Free
  <2> QED
    BY <1>2, <2>1, <2>2 DEF PoolInv, IdleConnsClean
<1>5. HeldSessions'
  BY <1>1, <1>2 DEF TypeOK, PoolInv, HeldSessions
<1> QED
  BY <1>3, <1>4, <1>5 DEF PoolInv

\* A call goes on with the connection it holds.
LEMMA PoolKeeps ==
  ASSUME TypeOK, PoolInv, NEW c \in Calls, conn[c] \in Conns,
         NEW p \in {"exec", "commit", "committed"},
         phase' = [phase EXCEPT ![c] = p],
         UNCHANGED conn,
         NEW s, session' = [session EXCEPT ![conn[c]] = s],
         s.path = "default", p = "committed" => s = Fresh
  PROVE  PoolInv'
<1>1. /\ session'[conn[c]] = s
      /\ \A l \in Conns : l # conn[c] => session'[l] = session[l]
  BY DEF TypeOK
<1>2. PoolDiscipline'
  BY DEF TypeOK, PoolInv, PoolDiscipline
<1>3. IdleConnsClean'
  BY <1>1 DEF TypeOK, PoolInv, IdleConnsClean, Free
<1>4. HeldSessions'
  BY <1>1 DEF TypeOK, PoolInv, PoolDiscipline, HeldSessions
<1> QED
  BY <1>2, <1>3, <1>4 DEF PoolInv

\* A call gives its connection back clean.
LEMMA PoolGetsBack ==
  ASSUME TypeOK, PoolInv, NEW c \in Calls, conn[c] \in Conns,
         NEW p \in {"wait", "answered"},
         phase' = [phase EXCEPT ![c] = p],
         conn' = [conn EXCEPT ![c] = NoConn],
         NEW s, s = Fresh, ReleaseAs(c, s)
  PROVE  PoolInv'
<1>1. /\ session'[conn[c]] = Fresh
      /\ \A l \in Conns : l # conn[c] => session'[l] = session[l]
  BY ReleasedFresh DEF TypeOK, ReleaseAs
<1>2. PoolDiscipline'
  BY DEF TypeOK, PoolInv, PoolDiscipline
<1>3. IdleConnsClean'
  BY <1>1 DEF TypeOK, PoolInv, IdleConnsClean, Free
<1>4. HeldSessions'
  BY <1>1 DEF TypeOK, PoolInv, PoolDiscipline, HeldSessions
<1> QED
  BY <1>2, <1>3, <1>4 DEF PoolInv

LEMMA PoolInit == Init => PoolInv
BY DEF Init, PoolInv, PoolDiscipline, IdleConnsClean, HeldSessions, Free

LEMMA PoolStep == TypeOK /\ PoolInv /\ [Next]_vars => PoolInv'
<1> SUFFICES ASSUME TypeOK, PoolInv, [Next]_vars PROVE PoolInv'
  OBVIOUS
<1>1. ASSUME NEW c \in Calls, Start(c) \/ Refuse(c) \/ AcquireFails(c)
      PROVE  PoolInv'
  BY <1>1, PoolUnused DEF Start, Refuse, AcquireFails, Trans, Answer
<1>2. ASSUME NEW c \in Calls, Expire(c) \/ OrphanDecided(c)
      PROVE  PoolInv'
  BY <1>2, PoolUntouched DEF Expire, OrphanDecided
<1>3. ASSUME NEW c \in Calls, NEW k \in Conns, Acquire(c, k)
      PROVE  PoolInv'
  BY <1>3, PoolLends DEF Acquire
<1>4. ASSUME NEW c \in Calls, SetSearchPath(c)
      PROVE  PoolInv'
  <2>1. /\ conn[c] \in Conns /\ session[conn[c]] \in Sessions
        /\ session[conn[c]].path = "default"
    BY <1>4, HeldType DEF SetSearchPath, Trans, PoolInv, HeldSessions
  <2>2. Scope(session[conn[c]]).path = "default"
    BY <2>1, SamePath
  <2>3. session' = [session EXCEPT ![conn[c]] = Scope(session[conn[c]])]
    BY <1>4 DEF SetSearchPath
  <2> QED
    BY <1>4, <2>1, <2>2, <2>3, PoolKeeps DEF SetSearchPath, Trans
<1>5. ASSUME NEW c \in Calls, phase[c] \in {"path", "exec", "commit"}
      PROVE  /\ conn[c] \in Conns /\ session[conn[c]].path = "default"
             /\ EndTx(session[conn[c]]) = Fresh
             /\ Rollback(c) => ReleaseAs(c, Fresh)
  <2>1. conn[c] \in Conns /\ session[conn[c]] \in Sessions
    BY <1>5, HeldType
  <2>2. session[conn[c]].path = "default"
    BY <2>1 DEF PoolInv, HeldSessions
  <2> QED
    BY <2>1, <2>2, EndTxIsFresh DEF Rollback
<1>6. ASSUME NEW c \in Calls, NEW n \in 0..RowBound, Exec(c, n)
      PROVE  PoolInv'
  <2>1. phase[c] = "exec"
    BY <1>6 DEF Exec
  <2>2. CASE OverLimit(kind[c], rows[c] + n)
    BY <1>5, <1>6, <2>1, <2>2, PoolGetsBack DEF Exec, Answer
  <2>3. CASE ~OverLimit(kind[c], rows[c] + n)
    <3>1. session' = [session EXCEPT ![conn[c]] = session[conn[c]]]
      BY <1>6, <2>3 DEF Exec, TypeOK
    <3> QED
      BY <1>5, <1>6, <2>1, <2>3, <3>1, PoolKeeps DEF Exec
  <2> QED
    BY <2>2, <2>3
<1>7. ASSUME NEW c \in Calls, ExecFails(c)
      PROVE  PoolInv'
  BY <1>5, <1>7, PoolGetsBack DEF ExecFails, Answer
<1>8. ASSUME NEW c \in Calls, ServerCommits(c)
      PROVE  PoolInv'
  <2>1. phase[c] = "commit"
    BY <1>8 DEF ServerCommits, Trans
  <2>2. session' = [session EXCEPT ![conn[c]] = Fresh]
    BY <1>5, <1>8, <2>1 DEF ServerCommits
  <2>3. Fresh.path = "default"
    BY DEF Fresh
  <2> QED
    BY <1>5, <1>8, <2>1, <2>2, <2>3, PoolKeeps DEF ServerCommits, Trans
<1>9. ASSUME NEW c \in Calls, CommitReturns(c)
      PROVE  PoolInv'
  <2>1. conn[c] \in Conns /\ session[conn[c]] = Fresh
    BY <1>9, HeldType DEF CommitReturns, PoolInv, HeldSessions
  <2> QED
    BY <1>9, <2>1, PoolGetsBack DEF CommitReturns, Answer
<1>10. ASSUME NEW c \in Calls, CommitRejected(c)
       PROVE  PoolInv'
  BY <1>5, <1>10, PoolGetsBack DEF CommitRejected, Answer
<1>11. ASSUME NEW c \in Calls, CommitCutShort(c)
       PROVE  PoolInv'
  BY <1>11, HeldType, PoolGetsBack DEF CommitCutShort, Answer
<1>12. ASSUME NEW c \in Calls, CatalogQuery(c) \/ CatalogQueryFails(c)
       PROVE  PoolInv'
  <2>1. conn[c] \in Conns /\ session[conn[c]] = Fresh
    BY <1>12, HeldType
       DEF CatalogQuery, CatalogQueryFails, PoolInv, HeldSessions
  <2> QED
    BY <1>12, <2>1, PoolGetsBack DEF CatalogQuery, CatalogQueryFails, Answer
<1>13. CASE UNCHANGED vars
  BY <1>13, PoolUntouched DEF vars
<1> QED
  BY <1>1, <1>2, <1>3, <1>4, <1>6, <1>7, <1>8, <1>9, <1>10, <1>11, <1>12,
     <1>13 DEF Next, Served, GivesUp

(* Connections are lent to one call at a time, never kept by a call that   *)
(* waits or is done, and always handed back clean (store.go:390-445,       *)
(* 606-647 and every early return in between).                             *)
THEOREM CleanPool == Spec => [](PoolDiscipline /\ IdleConnsClean)
<1>1. TypeOK /\ PoolInv /\ [Next]_vars => (TypeOK /\ PoolInv)'
  BY TypeStep, PoolStep
<1>2. PoolInv => PoolDiscipline /\ IdleConnsClean
  BY DEF PoolInv
<1> QED
  BY <1>1, <1>2, TypeInit, PoolInit, PTL DEF Spec

-----------------------------------------------------------------------------
(* The calls.  What the phase of a call says about its effect: this is     *)
(* what makes the refinement inductive.                                    *)

CallOK(c) ==
  /\ phase[c] = "answered" <=> outcome[c] # "none"
  /\ phase[c] = "idle" => size[c] = 0 /\ rows[c] = 0
  /\ phase[c] \notin {"idle", "answered"} => size[c] > 0
  /\ phase[c] \notin {"committed", "answered"} => effect[c] = 0
  /\ phase[c] = "committed" =>
       effect[c] = IF kind[c] \in Writes THEN size[c] ELSE 0
  /\ phase[c] \in {"commit", "committed"} \/ orphan[c] =>
       done[c] = size[c] /\ size[c] > 0
  /\ orphan[c] => /\ phase[c] = "answered" /\ effect[c] = 0
                  /\ outcome[c] = InDoubt(c)
  /\ kind[c] \in Writes /\ (phase[c] # "answered" \/ orphan[c] \/ effect[c] > 0) =>
       ~OverLimit(kind[c], rows[c])

CallInv == \A c \in Calls : CallOK(c)

\* A step of one call leaves the others' state alone.
OnlyCall(c) ==
  \A d \in Calls : d # c =>
    /\ phase'[d] = phase[d] /\ kind'[d] = kind[d] /\ size'[d] = size[d]
    /\ done'[d] = done[d] /\ rows'[d] = rows[d]
    /\ outcome'[d] = outcome[d] /\ effect'[d] = effect[d]
    /\ orphan'[d] = orphan[d]

LEMMA OthersKeep ==
  ASSUME CallInv, NEW c \in Calls, OnlyCall(c), CallOK(c)'
  PROVE  CallInv'
BY DEF CallInv, CallOK, OnlyCall, InDoubt

LEMMA CallInit == Init => CallInv
BY DEF Init, CallInv, CallOK, OverLimit, Writes

LEMMA CallStep ==
  ASSUME TypeOK, CallInv, NEW c \in Calls,
         \/ Start(c) \/ Refuse(c) \/ Served(c) \/ Expire(c) \/ GivesUp(c)
         \/ CommitRejected(c) \/ OrphanDecided(c)
  PROVE  CallInv'
<1> USE DEF TypeOK, CallOK, OnlyCall, Writes, InDoubt
<1> SUFFICES CallOK(c)' /\ OnlyCall(c)
  BY OthersKeep
<1>0. CallOK(c)
  BY DEF CallInv
<1>1. CASE Start(c)
  BY <1>0, <1>1 DEF Start, Trans, Sizes, DescribeQueries, OverLimit
<1>2. CASE Refuse(c)
  BY <1>0, <1>2 DEF Refuse, Answer
<1>3. CASE Expire(c)
  BY <1>0, <1>3 DEF Expire
<1>4. ASSUME NEW k \in Conns, Acquire(c, k)
      PROVE  CallOK(c)' /\ OnlyCall(c)
  BY <1>0, <1>4 DEF Acquire
<1>5. CASE AcquireFails(c)
  BY <1>0, <1>5 DEF AcquireFails, Answer
<1>6. CASE SetSearchPath(c)
  BY <1>0, <1>6 DEF SetSearchPath, Trans
<1>7. ASSUME NEW n \in 0..RowBound, Exec(c, n)
      PROVE  CallOK(c)' /\ OnlyCall(c)
  BY <1>0, <1>7 DEF Exec, Answer
<1>8. CASE ExecFails(c)
  BY <1>0, <1>8 DEF ExecFails, Answer
<1>9. CASE ServerCommits(c)
  BY <1>0, <1>9 DEF ServerCommits, Trans
<1>10. CASE CommitReturns(c)
  BY <1>0, <1>10 DEF CommitReturns, Answer
<1>11. CASE CommitRejected(c)
  BY <1>0, <1>11 DEF CommitRejected, Answer
<1>12. CASE CommitCutShort(c)
  BY <1>0, <1>12 DEF CommitCutShort, Answer
<1>13. CASE OrphanDecided(c)
  BY <1>0, <1>13 DEF OrphanDecided
<1>14. CASE CatalogQuery(c)
  BY <1>0, <1>14 DEF CatalogQuery, Answer
<1>15. CASE CatalogQueryFails(c)
  BY <1>0, <1>15 DEF CatalogQueryFails, Answer
<1> QED
  BY <1>1, <1>2, <1>3, <1>4, <1>5, <1>6, <1>7, <1>8, <1>9, <1>10, <1>11,
     <1>12, <1>13, <1>14, <1>15 DEF Served, GivesUp

LEMMA CallInvStep == TypeOK /\ CallInv /\ [Next]_vars => CallInv'
<1> SUFFICES ASSUME TypeOK, CallInv, [Next]_vars PROVE CallInv'
  OBVIOUS
<1>1. CASE Next
  BY <1>1, CallStep DEF Next
<1>2. CASE UNCHANGED vars
  BY <1>2 DEF vars, CallInv, CallOK, InDoubt
<1> QED
  BY <1>1, <1>2

(* Whatever is committed is within the row limit of its operation          *)
(* (store.go:313, 432).                                                    *)
THEOREM RowLimits == Spec => []CommittedWithinLimit
<1>1. TypeOK /\ CallInv /\ [Next]_vars => (TypeOK /\ CallInv)'
  BY TypeStep, CallInvStep
<1>2. TypeOK /\ CallInv => CommittedWithinLimit
  BY DEF CallInv, CallOK, CommittedWithinLimit, OverLimit, TypeOK, Writes
<1> QED
  BY <1>1, <1>2, TypeInit, CallInit, PTL DEF Spec

LEMMA SizesPositive ==
  ASSUME NEW kd \in Kinds, NEW n \in Sizes(kd) PROVE n \in Nat \ {0}
BY DEF Sizes, Kinds, Writes, DescribeQueries

LEMMA PromiseInit == Init => Promise!Init
BY DEF Init, Promise!Init

\* Every step is one of AtomicWrite or changes nothing it speaks of.
LEMMA PromiseStep ==
  ASSUME TypeOK, CallInv, [Next]_vars
  PROVE  [Promise!Next]_(Promise!vars)
<1> USE DEF TypeOK, CallOK, Writes, InDoubt
<1> DEFINE Stutter == UNCHANGED <<size, effect, outcome>>
           Answers(c) == \E o \in {"rows", "ok", "error", "unknown"} :
                           Promise!Answer(c, o)
<1>1. ASSUME NEW c \in Calls, Start(c)
      PROVE  Promise!Submit(c)
  <2>1. outcome[c] = "none" /\ size[c] = 0
    BY <1>1 DEF CallInv, Start, Trans
  <2>2. PICK n \in Nat \ {0} : size' = [size EXCEPT ![c] = n]
    BY <1>1, SizesPositive DEF Start
  <2> QED
    BY <1>1, <2>1, <2>2 DEF Start, Promise!Submit
<1>2. ASSUME NEW c \in Calls,
             \/ Refuse(c) \/ AcquireFails(c) \/ ExecFails(c)
             \/ CommitRejected(c) \/ CatalogQueryFails(c)
      PROVE  Promise!Answer(c, "error")
  BY <1>2 DEF CallInv, Refuse, AcquireFails, ExecFails, CommitRejected,
              CatalogQueryFails, Answer, Promise!Answer
<1>3. ASSUME NEW c \in Calls, Expire(c) \/ SetSearchPath(c)
      PROVE  Stutter
  BY <1>3 DEF Expire, SetSearchPath
<1>4. ASSUME NEW c \in Calls, NEW k \in Conns, Acquire(c, k)
      PROVE  Stutter
  BY <1>4 DEF Acquire
<1>5. ASSUME NEW c \in Calls, NEW n \in 0..RowBound, Exec(c, n)
      PROVE  Stutter \/ Promise!Answer(c, "error")
  BY <1>5 DEF CallInv, Exec, Answer, Promise!Answer
<1>6. ASSUME NEW c \in Calls, ServerCommits(c)
      PROVE  Stutter \/ Promise!Apply(c)
  BY <1>6 DEF CallInv, ServerCommits, Trans, Promise!Apply
<1>7. ASSUME NEW c \in Calls, CommitReturns(c)
      PROVE  Promise!Answer(c, "ok") \/ Promise!Answer(c, "rows")
  BY <1>7 DEF CallInv, CommitReturns, Answer, Promise!Answer
<1>8. ASSUME NEW c \in Calls, CommitCutShort(c)
      PROVE  Promise!Answer(c, "unknown") \/ Promise!Answer(c, "error")
  BY <1>8 DEF CallInv, CommitCutShort, Answer, Promise!Answer
<1>9. ASSUME NEW c \in Calls, OrphanDecided(c)
      PROVE  Stutter \/ Promise!Apply(c)
  BY <1>9 DEF CallInv, OrphanDecided, Promise!Apply
<1>10. ASSUME NEW c \in Calls, CatalogQuery(c)
       PROVE  Stutter \/ Promise!Answer(c, "rows")
  BY <1>10 DEF CallInv, CatalogQuery, Answer, Promise!Answer
<1>11. CASE UNCHANGED vars
  BY <1>11 DEF vars, Promise!vars
<1> QED
  BY <1>1, <1>2, <1>3, <1>4, <1>5, <1>6, <1>7, <1>8, <1>9, <1>10, <1>11
     DEF Next, Served, GivesUp, Promise!Next, Promise!vars

(* ExecuteDML, ExecuteDDL and ExecuteScript implement AtomicWrite: all of  *)
(* a call's statements or none, success reported only once they are in,    *)
(* an error only when they never will be (store.go:288-457).               *)
THEOREM Atomicity == Spec => AtomicWrites
<1>1. TypeOK /\ CallInv /\ [Next]_vars => (TypeOK /\ CallInv)'
  BY TypeStep, CallInvStep
<1>2. TypeOK /\ CallInv /\ [Next]_vars => [Promise!Next]_(Promise!vars)
  BY PromiseStep
<1> QED
  BY <1>1, <1>2, TypeInit, CallInit, PromiseInit, PTL
     DEF Spec, AtomicWrites, Promise!Spec
=============================================================================
