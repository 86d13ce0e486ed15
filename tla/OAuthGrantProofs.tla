-------------------------- MODULE OAuthGrantProofs --------------------------
(***************************************************************************)
(* Proofs about OAuthGrant for all configurations, lifetimes and           *)
(* resolutions of the clock, and any number of restarts, codes and         *)
(* refreshes: the bounds MaxTime and MaxTokens are arbitrary.              *)
(*                                                                         *)
(* Four invariants carry the rest: what was checked of a code holds when   *)
(* its tokens are issued (Checked), where a token comes from               *)
(* (WithinConsent), when it expires (ExpKept), and that one issued since   *)
(* the last restart carries the connections its principal has (Current).   *)
(***************************************************************************)
EXTENDS OAuthGrant, TLAPS

USE ConstantsAssumption

-----------------------------------------------------------------------------
(* The arithmetic of whole seconds.                                        *)

LEMMA DivBounds ==
  ASSUME NEW a \in Nat, NEW d \in Nat \ {0}
  PROVE  a \div d \in Nat /\ d * (a \div d) <= a /\ a < d * (a \div d) + d
BY Z3T(30)

LEMMA DivMonotonic ==
  ASSUME NEW a \in Nat, NEW b \in Nat, NEW d \in Nat \ {0}, a <= b
  PROVE  a \div d <= b \div d
<1>1. \A x, y \in Nat : x > y => d * x >= d * y + d
  <2> SUFFICES ASSUME NEW x \in Nat, NEW y \in Nat, x > y
               PROVE  d * x >= d * y + d
    OBVIOUS
  <2>1. x = y + 1 + (x - y - 1) /\ x - y - 1 \in Nat
    OBVIOUS
  <2>2. \A e \in Nat : d * (y + 1 + e) = d * y + d + d * e /\ d * e \in Nat
    OBVIOUS
  <2>3. d * y \in Nat /\ d * x \in Nat
    OBVIOUS
  <2> QED
    BY <2>1, <2>2, <2>3
<1> QED
  BY <1>1, DivBounds

LEMMA DivNext ==
  ASSUME NEW a \in Nat, NEW d \in Nat \ {0}
  PROVE  (a + d) \div d = (a \div d) + 1
OBVIOUS

LEMMA TTLType ==
  ASSUME NEW type \in {"access", "refresh"} PROVE TTL(type) \in Nat \ {0}
BY DEF TTL

-----------------------------------------------------------------------------
(* Types.                                                                  *)

LEMMA PrincipalType ==
  ASSUME config \in Configs, NEW name \in Names, Known(name)
  PROVE  Principal(name) \in Keys
BY ConfigsAssumption DEF Known, Principal

\* The tokens there are after Issue, and the claims of the new ones.
LEMMA Issued ==
  ASSUME NEW c \in Codes, NEW client \in Clients, NEW subject \in Names,
         NEW S \in SUBSET Scopes, now \in Nat, config \in Configs,
         Known(subject), Issue(c, client, subject, S), NEW t \in tokens'
  PROVE  \/ t \in tokens
         \/ /\ t \in Tokens
            /\ t.grant = c /\ t.client = client /\ t.subject = subject
            /\ t.scopes = S /\ t.conns = Principal(subject).conns
            /\ t.at = now
            /\ t.exp = (now + TTL(t.type)) \div TicksPerSecond
<1>1. CASE t \notin tokens
  <2>1. PICK type \in {"access", "refresh"} :
          t = Token(type, c, client, subject, S, Principal(subject).conns)
    BY <1>1 DEF Issue
  <2>2. Principal(subject).conns \in SUBSET (Connections \cup {Star})
    BY PrincipalType DEF Keys
  <2>3. TTL(type) \in Nat
    BY TTLType
  <2>4. (now + TTL(type)) \div TicksPerSecond \in Nat
    BY <2>3, DivBounds
  <2> QED
    BY <2>1, <2>2, <2>3, <2>4 DEF Token, Tokens
<1> QED
  BY <1>1

LEMMA TypeInit == Init => TypeOK
BY DEF Init, TypeOK

LEMMA TypeStep == TypeOK /\ [Next]_vars => TypeOK'
<1> SUFFICES ASSUME TypeOK, [Next]_vars PROVE TypeOK'
  OBVIOUS
<1> USE DEF TypeOK
<1>1. CASE Tick
  <2>1. \A t \in tokens : t.at \in Nat
    BY DEF Tokens
  <2>2. now' \in Nat /\ changed <= now' /\ \A t \in tokens : t.at <= now'
    BY <1>1, <2>1 DEF Tick
  <2> QED
    BY <1>1, <2>2 DEF Tick
<1>2. ASSUME NEW f \in Configs, Restart(f)
      PROVE  TypeOK'
  BY <1>2 DEF Restart
<1>3. ASSUME NEW c \in Codes, NEW client \in Clients, NEW S \in SUBSET Scopes,
             Authorize(c, client, S)
      PROVE  TypeOK'
  <2> DEFINE r == [client |-> client, scopes |-> S,
                   principal |-> config.principal, at |-> now,
                   expires |-> now + CodeTTL]
  <2>1. r \in Records /\ r # NoRecord
    BY ConfigsAssumption DEF Records
  <2>2. record' = [record EXCEPT ![c] = r]
    BY <1>3 DEF Authorize
  <2>3. record' \in [Codes -> Records \cup {NoRecord}]
    BY <2>1, <2>2
  <2>4. \A d \in Codes : record[d] # NoRecord => record'[d] # NoRecord
    BY <2>1, <2>2
  <2>5. record'[c] # NoRecord
    BY <2>1, <2>2
  <2>6. codes' \subseteq {d \in Codes : record'[d] # NoRecord}
    BY <1>3, <2>4, <2>5 DEF Authorize
  <2>7. taken' \in [Requests -> [code: {NoCode}] \cup
                      [code: {d \in Codes : record'[d] # NoRecord},
                       client: Clients, step: {"taken", "checked"}]]
    BY <1>3, <2>4 DEF Authorize
  <2> QED
    BY <1>3, <2>3, <2>6, <2>7 DEF Authorize
<1>4. ASSUME NEW c \in Codes, NEW client \in Clients, NEW x \in Requests,
             Take(x, c, client)
      PROVE  TypeOK'
  BY <1>4 DEF Take
<1>5. ASSUME NEW x \in Requests, Redeem(x)
      PROVE  TypeOK'
  <2>1. /\ taken[x].code \in Codes /\ record[taken[x].code] \in Records
        /\ taken[x].client \in Clients
    BY <1>5 DEF Redeem
  <2>2. \A t \in tokens' : t \in tokens \/ (t \in Tokens /\ t.at = now)
    BY <1>5, <2>1, Issued DEF Redeem, Records, MayIssue
  <2>3. /\ responses' \in [Codes -> Nat]
        /\ taken' = [taken EXCEPT ![x] = [code |-> NoCode]]
        /\ UNCHANGED <<now, config, record, codes, changed>>
    BY <1>5, <2>1 DEF Redeem
  <2> QED
    BY <2>2, <2>3
<1>6. ASSUME NEW x \in Requests, Reject(x)
      PROVE  TypeOK'
  BY <1>6 DEF Reject
<1>7. ASSUME NEW x \in Requests, Accept(x)
      PROVE  TypeOK'
  BY <1>7 DEF Accept
<1>8. ASSUME NEW t \in tokens, NEW client \in Clients, Refresh(t, client)
      PROVE  TypeOK'
  <2>1. t.grant \in Codes /\ t.subject \in Names /\ t.scopes \in SUBSET Scopes
    BY DEF Tokens
  <2>2. \A u \in tokens' : u \in tokens \/ (u \in Tokens /\ u.at = now)
    BY <1>8, <2>1, Issued DEF Refresh, MayIssue
  <2> QED
    BY <1>8, <2>2 DEF Refresh
<1>9. CASE UNCHANGED vars
  BY <1>9 DEF vars
<1> QED
  BY <1>1, <1>2, <1>3, <1>4, <1>5, <1>6, <1>7, <1>8, <1>9 DEF Next

(* The state is well typed; codes that can be taken, or have been, are     *)
(* those of a consent (oauth.go:440-467, 536-562).                         *)
THEOREM TypeCorrect == Spec => []TypeOK
BY TypeInit, TypeStep, PTL DEF Spec

-----------------------------------------------------------------------------
(* Where tokens come from.                                                 *)

\* What was checked when a code was accepted holds when its tokens are issued.
Checked ==
  \A x \in Requests :
    taken[x].code # NoCode /\ taken[x].step = "checked"
      => taken[x].client = record[taken[x].code].client

LEMMA CheckedStep == TypeOK /\ Checked /\ [Next]_vars => Checked'
<1> SUFFICES ASSUME TypeOK, Checked, [Next]_vars PROVE Checked'
  OBVIOUS
<1> USE DEF TypeOK, Checked
<1>1. ASSUME NEW c \in Codes, NEW client \in Clients, NEW S \in SUBSET Scopes,
             Authorize(c, client, S)
      PROVE  Checked'
  <2>1. \A x \in Requests : taken[x].code # NoCode =>
          record'[taken[x].code] = record[taken[x].code]
    BY <1>1 DEF Authorize
  <2> QED
    BY <1>1, <2>1 DEF Authorize
<1>2. ASSUME NEW c \in Codes, NEW client \in Clients, NEW x \in Requests,
             Take(x, c, client)
      PROVE  Checked'
  BY <1>2 DEF Take
<1>3. ASSUME NEW x \in Requests, Accept(x)
      PROVE  Checked'
  BY <1>3 DEF Accept, Good
<1>4. ASSUME NEW x \in Requests, Redeem(x) \/ Reject(x)
      PROVE  Checked'
  <2>1. taken' = [taken EXCEPT ![x] = [code |-> NoCode]] /\ record' = record
    BY <1>4 DEF Redeem, Reject
  <2> QED
    BY <2>1
<1>5. ASSUME NEW f \in Configs, Restart(f)
      PROVE  Checked'
  BY <1>5 DEF Restart
<1>6. CASE UNCHANGED <<record, taken>>
  BY <1>6
<1> QED
  BY <1>1, <1>2, <1>3, <1>4, <1>5, <1>6 DEF Next, vars, Tick, Refresh

LEMMA ConsentStep ==
  TypeOK /\ Checked /\ WithinConsent /\ [Next]_vars => WithinConsent'
<1> SUFFICES ASSUME TypeOK, Checked, WithinConsent, [Next]_vars
             PROVE  WithinConsent'
  OBVIOUS
<1>1. CASE UNCHANGED <<record, tokens, responses>>
  BY <1>1 DEF WithinConsent
<1>2. ASSUME NEW c \in Codes, NEW client \in Clients, NEW S \in SUBSET Scopes,
             Authorize(c, client, S)
      PROVE  WithinConsent'
  <2>1. \A t \in tokens : t.grant # c /\ record'[t.grant] = record[t.grant]
    BY <1>2 DEF Authorize, WithinConsent, TypeOK, Tokens
  <2> QED
    BY <1>2, <2>1 DEF Authorize, WithinConsent
<1>3. ASSUME NEW x \in Requests, Redeem(x)
      PROVE  WithinConsent'
  <2> DEFINE c == taken[x].code
             r == record[c]
  <2>1. c \in Codes /\ r \in Records /\ taken[x].client \in Clients
    BY <1>3 DEF Redeem, TypeOK
  <2>2. /\ Issue(c, taken[x].client, r.principal, r.scopes)
        /\ Known(r.principal) /\ taken[x].client = r.client
        /\ responses' = [responses EXCEPT ![c] = @ + 1]
        /\ UNCHANGED <<now, config, record>>
    BY <1>3 DEF Redeem, MayIssue, Checked
  <2>3. r.principal \in Names /\ r.scopes \in SUBSET Scopes
    BY <2>1 DEF Records
  <2>4. \A t \in tokens' :
          t \in tokens \/ (t.grant = c /\ t.client = r.client /\
                           t.subject = r.principal /\ t.scopes = r.scopes)
    BY <2>1, <2>2, <2>3, Issued DEF TypeOK
  <2>5. responses'[c] > 0 /\ \A d \in Codes : responses[d] > 0 => responses'[d] > 0
    BY <2>1, <2>2 DEF TypeOK
  <2>6. r # NoRecord
    BY <2>1
  <2> QED
    BY <2>1, <2>2, <2>4, <2>5, <2>6 DEF WithinConsent, TypeOK, Tokens
<1>4. ASSUME NEW t \in tokens, NEW client \in Clients, Refresh(t, client)
      PROVE  WithinConsent'
  <2>1. /\ t.grant \in Codes /\ t.subject \in Names
        /\ t.scopes \in SUBSET Scopes
    BY DEF TypeOK, Tokens
  <2>2. /\ Issue(t.grant, client, t.subject, t.scopes)
        /\ Known(t.subject) /\ t.client = client
        /\ UNCHANGED <<record, responses>>
    BY <1>4 DEF Refresh, MayIssue
  <2>3. \A u \in tokens' :
          u \in tokens \/ (u.grant = t.grant /\ u.client = t.client /\
                           u.subject = t.subject /\ u.scopes = t.scopes)
    BY <2>1, <2>2, Issued DEF TypeOK
  <2> QED
    BY <2>2, <2>3 DEF WithinConsent
<1> QED
  BY <1>1, <1>2, <1>3, <1>4 DEF Next, vars, Tick, Restart, Take, Accept, Reject

(* However often it was refreshed and whatever was reconfigured, a token   *)
(* is for the client, principal and scopes of one consent that was given   *)
(* and redeemed (oauth.go:548, 561, 574-578).                              *)
THEOREM Consent == Spec => []WithinConsent
<1>1. Init => Checked /\ WithinConsent
  BY DEF Init, Checked, WithinConsent
<1> QED
  BY <1>1, TypeCorrect, CheckedStep, ConsentStep, PTL DEF Spec

-----------------------------------------------------------------------------
(* How long tokens last.                                                   *)

ExpKept == \A t \in tokens : t.exp = (t.at + TTL(t.type)) \div TicksPerSecond

LEMMA ExpStep == TypeOK /\ ExpKept /\ [Next]_vars => ExpKept'
<1> SUFFICES ASSUME TypeOK, ExpKept, [Next]_vars PROVE ExpKept'
  OBVIOUS
<1>1. ASSUME NEW x \in Requests, Redeem(x)
      PROVE  ExpKept'
  <2>1. /\ taken[x].code \in Codes /\ record[taken[x].code] \in Records
        /\ taken[x].client \in Clients
    BY <1>1 DEF Redeem, TypeOK
  <2>2. \A t \in tokens' :
          \/ t \in tokens
          \/ t.at = now /\ t.exp = (now + TTL(t.type)) \div TicksPerSecond
    BY <1>1, <2>1, Issued DEF Redeem, Records, MayIssue, TypeOK
  <2> QED
    BY <2>2 DEF ExpKept
<1>2. ASSUME NEW t \in tokens, NEW client \in Clients, Refresh(t, client)
      PROVE  ExpKept'
  <2>1. t.grant \in Codes /\ t.subject \in Names /\ t.scopes \in SUBSET Scopes
    BY DEF TypeOK, Tokens
  <2>2. \A u \in tokens' :
          \/ u \in tokens
          \/ u.at = now /\ u.exp = (now + TTL(u.type)) \div TicksPerSecond
    BY <1>2, <2>1, Issued DEF Refresh, MayIssue, TypeOK
  <2> QED
    BY <2>2 DEF ExpKept
<1>3. CASE UNCHANGED tokens
  BY <1>3 DEF ExpKept
<1> QED
  BY <1>1, <1>2, <1>3
  DEF Next, vars, Tick, Restart, Authorize, Take, Accept, Reject

LEMMA Lifetimes == TypeOK /\ ExpKept => LifetimeKept
<1> SUFFICES ASSUME TypeOK, ExpKept, NEW t \in tokens
             PROVE  /\ Unexpired(t) => now < t.at + TTL(t.type)
                    /\ now + TicksPerSecond <= t.at + TTL(t.type)
                         => Unexpired(t)
  BY DEF LifetimeKept
<1> DEFINE end == t.at + TTL(t.type)
<1>1. now \in Nat /\ end \in Nat /\ t.exp = end \div TicksPerSecond
  BY TTLType DEF TypeOK, Tokens, ExpKept
<1>2. now \div TicksPerSecond \in Nat /\ end \div TicksPerSecond \in Nat
  BY <1>1, DivBounds
<1> HIDE DEF end
<1>3. now >= end => now \div TicksPerSecond >= end \div TicksPerSecond
  BY <1>1, DivMonotonic
<1>4. now + TicksPerSecond <= end =>
        (now \div TicksPerSecond) + 1 <= end \div TicksPerSecond
  <2>1. (now + TicksPerSecond) \div TicksPerSecond
          = (now \div TicksPerSecond) + 1
    BY <1>1, DivNext
  <2>2. now + TicksPerSecond \in Nat
    BY <1>1
  <2> QED
    BY <1>1, <2>1, <2>2, DivMonotonic
<1>5. /\ Unexpired(t) => now < end
      /\ now + TicksPerSecond <= end => Unexpired(t)
  BY <1>1, <1>2, <1>3, <1>4 DEF Unexpired
<1> QED
  BY <1>5 DEF end

(* A token never outlives its TTL and loses less than a second of it,      *)
(* whatever the resolution of the clock (oauth.go:599, 760).               *)
THEOREM Lifetime == Spec => []LifetimeKept
<1>1. Init => ExpKept
  BY DEF Init, ExpKept
<1>2. TypeOK /\ ExpKept => LifetimeKept
  BY Lifetimes
<1> QED
  BY <1>1, <1>2, TypeCorrect, ExpStep, PTL DEF Spec

-----------------------------------------------------------------------------
(* Rights.                                                                 *)

\* What was issued since the last restart carries what its principal has.
Current ==
  \A t \in tokens : t.at > changed =>
    Known(t.subject) /\ t.conns = Principal(t.subject).conns

LEMMA CurrentStep == TypeOK /\ Current /\ [Next]_vars => Current'
<1> SUFFICES ASSUME TypeOK, Current, [Next]_vars PROVE Current'
  OBVIOUS
<1>1. ASSUME NEW x \in Requests, Redeem(x)
      PROVE  Current'
  <2>1. /\ taken[x].code \in Codes /\ record[taken[x].code] \in Records
        /\ taken[x].client \in Clients
    BY <1>1 DEF Redeem, TypeOK
  <2>2. \A t \in tokens' :
          \/ t \in tokens
          \/ Known(t.subject) /\ t.conns = Principal(t.subject).conns
    BY <1>1, <2>1, Issued DEF Redeem, Records, MayIssue, TypeOK
  <2> QED
    BY <1>1, <2>2 DEF Redeem, Current, Known, Principal
<1>2. ASSUME NEW t \in tokens, NEW client \in Clients, Refresh(t, client)
      PROVE  Current'
  <2>1. t.grant \in Codes /\ t.subject \in Names /\ t.scopes \in SUBSET Scopes
    BY DEF TypeOK, Tokens
  <2>2. \A u \in tokens' :
          \/ u \in tokens
          \/ Known(u.subject) /\ u.conns = Principal(u.subject).conns
    BY <1>2, <2>1, Issued DEF Refresh, MayIssue, TypeOK
  <2> QED
    BY <1>2, <2>2 DEF Refresh, Current, Known, Principal
<1>3. ASSUME NEW f \in Configs, Restart(f)
      PROVE  Current'
  <2>1. \A t \in tokens : t.at \in Nat /\ t.at <= now
    BY DEF TypeOK, Tokens
  <2> QED
    BY <1>3, <2>1 DEF Restart, Current, TypeOK
<1>4. CASE UNCHANGED <<tokens, changed, config>>
  BY <1>4 DEF Current, Known, Principal
<1> QED
  BY <1>1, <1>2, <1>3, <1>4
  DEF Next, vars, Tick, Authorize, Take, Accept, Reject

LEMMA Rights == TypeOK /\ LifetimeKept /\ Current => RightsFollowConfig
<1> SUFFICES ASSUME TypeOK, LifetimeKept, Current,
                    now >= changed + AccessTTL, NEW t \in tokens, Accepted(t)
             PROVE  Within(Granted(t), Principal(t.subject))
  BY DEF RightsFollowConfig
<1> DEFINE base == Principal(t.subject)
           kept == {n \in t.conns : n = Star \/ CanUseConnection(base, n)}
<1>1. t.at > changed
  <2>1. now < t.at + AccessTTL
    BY DEF Accepted, Verified, LifetimeKept, TTL
  <2> QED
    BY <2>1 DEF TypeOK, Tokens
<1>2. t.conns = base.conns
  BY <1>1 DEF Current
<1>3. kept = base.conns
  BY <1>2 DEF CanUseConnection
<1>4. Granted(t).scopes = t.scopes /\ Granted(t).conns = base.conns
  BY <1>3 DEF Granted
<1>5. \A s \in t.scopes : HasScope(base, s)
  BY DEF Accepted, ValidScopes
<1>6. \A s : HasScope(Granted(t), s) => HasScope(base, s)
  BY <1>4, <1>5 DEF HasScope
<1> QED
  BY <1>4, <1>6 DEF Within, CanUseConnection

(* One access-token lifetime after a restart no accepted token has rights  *)
(* that the configuration does not give its principal (oauth.go:635-662).  *)
THEOREM RightsFollow == Spec => []RightsFollowConfig
<1>1. Init => Current
  BY DEF Init, Current
<1>2. TypeOK /\ LifetimeKept /\ Current => RightsFollowConfig
  BY Rights
<1> QED
  BY <1>1, <1>2, TypeCorrect, Lifetime, CurrentStep, PTL DEF Spec

-----------------------------------------------------------------------------
(* Codes.                                                                  *)

\* A code is in one place at most, the map or one request, and nowhere once
\* it was exchanged.
OnePlace ==
  /\ \A c \in codes : responses[c] = 0
  /\ \A x \in Requests : taken[x].code # NoCode =>
       taken[x].code \notin codes /\ responses[taken[x].code] = 0
  /\ \A x, y \in Requests :
       taken[x].code = taken[y].code /\ taken[x].code # NoCode => x = y

Recorded ==
  \A c \in Codes :
    IF record[c] = NoRecord THEN responses[c] = 0
                            ELSE record[c].expires = record[c].at + CodeTTL

LEMMA CodesStep ==
  TypeOK /\ OnePlace /\ Recorded /\ [Next]_vars => OnePlace' /\ Recorded'
<1> SUFFICES ASSUME TypeOK, OnePlace, Recorded, [Next]_vars
             PROVE  OnePlace' /\ Recorded'
  OBVIOUS
<1> USE DEF TypeOK, OnePlace, Recorded
<1>1. ASSUME NEW c \in Codes, NEW client \in Clients, NEW S \in SUBSET Scopes,
             Authorize(c, client, S)
      PROVE  OnePlace' /\ Recorded'
  <2>1. /\ record[c] = NoRecord /\ responses[c] = 0
        /\ c \notin codes /\ \A x \in Requests : taken[x].code # c
    BY <1>1 DEF Authorize
  <2> QED
    BY <1>1, <2>1 DEF Authorize
<1>2. ASSUME NEW c \in Codes, NEW client \in Clients, NEW x \in Requests,
             Take(x, c, client)
      PROVE  OnePlace' /\ Recorded'
  BY <1>2 DEF Take
<1>3. ASSUME NEW x \in Requests, Redeem(x)
      PROVE  OnePlace' /\ Recorded'
  <2>1. /\ taken[x].code \in Codes /\ record[taken[x].code] # NoRecord
        /\ responses' = [responses EXCEPT ![taken[x].code] = @ + 1]
        /\ taken' = [taken EXCEPT ![x] = [code |-> NoCode]]
        /\ UNCHANGED <<record, codes>>
    BY <1>3 DEF Redeem
  <2> QED
    BY <2>1
<1>4. ASSUME NEW x \in Requests, Reject(x)
      PROVE  OnePlace' /\ Recorded'
  BY <1>4 DEF Reject
<1>5. ASSUME NEW x \in Requests, Accept(x)
      PROVE  OnePlace' /\ Recorded'
  <2>1. /\ taken' = [taken EXCEPT ![x].step = "checked"]
        /\ UNCHANGED <<record, codes, responses>>
    BY <1>5 DEF Accept
  <2>2. \A y \in Requests : taken'[y].code = taken[y].code
    BY <1>5, <2>1 DEF Accept
  <2> QED
    BY <2>1, <2>2
<1>6. ASSUME NEW f \in Configs, Restart(f)
      PROVE  OnePlace' /\ Recorded'
  BY <1>6 DEF Restart
<1>7. CASE UNCHANGED <<record, codes, taken, responses>>
  BY <1>7
<1> QED
  BY <1>1, <1>2, <1>3, <1>4, <1>5, <1>6, <1>7 DEF Next, vars, Tick, Refresh

\* Every step is one of OneTimeGrant or changes nothing it speaks of.
LEMMA PromiseStep ==
  ASSUME TypeOK, OnePlace, Recorded, [Next]_vars
  PROVE  [Promise!Next]_(Promise!vars)
<1> USE DEF TypeOK, OnePlace, Recorded
<1> DEFINE StateKept(C) == \A d \in C : State(d)' = State(d)
<1>1. CASE Tick
  <2>1. StateKept(Codes)
    BY <1>1 DEF Tick, State
  <2> QED
    BY <1>1, <2>1 DEF Tick, Promise!Next, Promise!Tick
<1>2. ASSUME NEW c \in Codes, NEW client \in Clients, NEW S \in SUBSET Scopes,
             Authorize(c, client, S)
      PROVE  Promise!Next
  <2>0. PICK old \in SUBSET Codes : old = {d \in codes : Expired(record[d])}
    OBVIOUS
  <2> DEFINE r == [client |-> client, scopes |-> S,
                   principal |-> config.principal, at |-> now,
                   expires |-> now + CodeTTL]
  <2>1. /\ record[c] = NoRecord /\ record' = [record EXCEPT ![c] = r]
        /\ codes' = (codes \ old) \cup {c}
        /\ UNCHANGED <<now, taken, responses>>
    BY <1>2, <2>0 DEF Authorize
  <2>2. r # NoRecord /\ r.at = now
    BY ConfigsAssumption DEF Records
  <2>3. c \notin old
    BY <2>0, <2>1
  <2>4. State(c) = "none" /\ State(c)' = "pending"
    BY <2>1, <2>2 DEF State
  <2>5. \A d \in old : State(d) = "pending" /\ State(d)' = "lapsed"
    <3> SUFFICES ASSUME NEW d \in old
                 PROVE  State(d) = "pending" /\ State(d)' = "lapsed"
      OBVIOUS
    <3>1. /\ d \in codes /\ d # c /\ record'[d] = record[d]
          /\ record[d] # NoRecord /\ d \notin codes'
          /\ \A x \in Requests : taken[x].code # d
      BY <2>0, <2>1, <2>3
    <3> QED
      BY <2>1, <3>1 DEF State
  <2>6. StateKept(Codes \ (old \cup {c}))
    BY <2>0, <2>1 DEF State
  <2>7. [d \in Codes |-> IF record'[d] = NoRecord THEN 0 ELSE record'[d].at]
          = [[d \in Codes |-> IF record[d] = NoRecord THEN 0
                              ELSE record[d].at] EXCEPT ![c] = now]
    BY <2>1, <2>2
  <2> HIDE DEF r
  <2>8. [d \in Codes |-> State(d)]'
          = [[d \in Codes |-> IF d \in old THEN "lapsed" ELSE State(d)]
               EXCEPT ![c] = "pending"]
    BY <2>3, <2>4, <2>5, <2>6
  <2>9. Promise!Consent(c, old)
    BY <2>1, <2>4, <2>5, <2>7, <2>8
    DEF Promise!Consent, Promise!Open, Promise!Lapsed
  <2> QED
    BY <2>9 DEF Promise!Next
<1>3. ASSUME NEW f \in Configs, Restart(f)
      PROVE  Promise!Next
  <2> DEFINE open == {d \in Codes : State(d) \in {"pending", "accepted"}}
  <2>1. /\ \A d \in open : State(d)' = "lapsed"
        /\ StateKept(Codes \ open)
    BY <1>3 DEF Restart, State
  <2>2. UNCHANGED <<now, record, responses>>
    BY <1>3 DEF Restart
  <2>3. Promise!Lapse(open)
    BY <2>1, <2>2 DEF Promise!Lapse, Promise!Open, Promise!Lapsed
  <2> QED
    BY <2>3 DEF Promise!Next
<1>4. ASSUME NEW c \in Codes, NEW client \in Clients, NEW x \in Requests,
             Take(x, c, client)
      PROVE  UNCHANGED Promise!vars
  <2>1. /\ taken'[x].code = c /\ taken'[x].step = "taken"
        /\ \A y \in Requests \ {x} : taken'[y] = taken[y]
    BY <1>4 DEF Take
  <2>2. /\ taken[x].code = NoCode /\ codes' = codes \ {c} /\ c \in codes
        /\ UNCHANGED <<now, record, responses>>
    BY <1>4 DEF Take
  <2>3. \A y \in Requests : taken[y].code # c
    BY <2>2
  <2>4. State(c) = "pending"
    BY <2>2, <2>3 DEF State
  <2>5. State(c)' = "pending"
    BY <2>1, <2>2, <2>3 DEF State
  <2>6. StateKept(Codes \ {c})
    BY <2>1, <2>2 DEF State
  <2>7. StateKept(Codes)
    BY <2>4, <2>5, <2>6
  <2> QED
    BY <2>2, <2>7 DEF Promise!vars
<1>5. ASSUME NEW x \in Requests, Accept(x)
      PROVE  Promise!Next
  <2>0. PICK c \in Codes : c = taken[x].code
    BY <1>5 DEF Accept
  <2>1. /\ record[c] # NoRecord /\ record[c] \in Records
        /\ taken[x].step = "taken"
        /\ taken' = [taken EXCEPT ![x].step = "checked"]
        /\ ~Expired(record[c])
        /\ UNCHANGED <<now, record, codes, responses>>
    BY <1>5, <2>0 DEF Accept, Good
  <2>2. now <= record[c].at + CodeTTL
    BY <2>1 DEF Expired, Records
  <2>3. /\ taken'[x].code = c /\ taken'[x].step = "checked"
        /\ \A y \in Requests \ {x} : taken'[y] = taken[y] /\ taken[y].code # c
    BY <2>0, <2>1
  <2>4. State(c) = "pending"
    BY <2>0, <2>1, <2>3 DEF State
  <2>5. State(c)' = "accepted"
    BY <2>0, <2>1, <2>3 DEF State
  <2>6. StateKept(Codes \ {c})
    BY <2>0, <2>1, <2>3 DEF State
  <2>7. Promise!Accept(c)
    BY <2>1, <2>2, <2>4, <2>5, <2>6 DEF Promise!Accept
  <2> QED
    BY <2>7 DEF Promise!Next
<1>6. ASSUME NEW x \in Requests, Redeem(x)
      PROVE  Promise!Next
  <2>0. PICK c \in Codes : c = taken[x].code
    BY <1>6 DEF Redeem
  <2>1. /\ record[c] # NoRecord
        /\ taken[x].step = "checked"
        /\ responses' = [responses EXCEPT ![c] = @ + 1]
        /\ taken' = [taken EXCEPT ![x] = [code |-> NoCode]]
        /\ UNCHANGED <<now, record, codes>>
    BY <1>6, <2>0 DEF Redeem
  <2>2. State(c) = "accepted" /\ State(c)' = "redeemed"
    BY <2>0, <2>1 DEF State
  <2>3. StateKept(Codes \ {c})
    BY <2>0, <2>1 DEF State
  <2>4. Promise!Redeem(c)
    BY <2>1, <2>2, <2>3 DEF Promise!Redeem
  <2> QED
    BY <2>4 DEF Promise!Next
<1>7. ASSUME NEW x \in Requests, Reject(x)
      PROVE  Promise!Next
  <2>0. PICK c \in Codes : c = taken[x].code
    BY <1>7 DEF Reject
  <2>1. /\ record[c] # NoRecord
        /\ taken' = [taken EXCEPT ![x] = [code |-> NoCode]]
        /\ UNCHANGED <<now, record, codes, responses>>
    BY <1>7, <2>0 DEF Reject
  <2>2. State(c) \in {"pending", "accepted"} /\ State(c)' = "lapsed"
    BY <2>0, <2>1 DEF State
  <2>3. StateKept(Codes \ {c})
    BY <2>0, <2>1 DEF State
  <2>4. Promise!Lapse({c})
    BY <2>1, <2>2, <2>3 DEF Promise!Lapse, Promise!Open, Promise!Lapsed
  <2> QED
    BY <2>4 DEF Promise!Next
<1>8. CASE UNCHANGED <<now, record, codes, taken, responses>>
  <2>1. StateKept(Codes)
    BY <1>8 DEF State
  <2> QED
    BY <1>8, <2>1 DEF Promise!vars
<1> QED
  BY <1>1, <1>2, <1>3, <1>4, <1>5, <1>6, <1>7, <1>8 DEF Next, vars, Refresh

LEMMA PromiseInit == Init => Promise!Init
BY DEF Init, State, Promise!Init

(* Provider implements OneTimeGrant: of any number of requests that        *)
(* present a code together, before or after restarts, one is answered with *)
(* tokens, having been checked in time (oauth.go:536-562).                 *)
THEOREM OneTime == Spec => SingleUse
<1>1. Init => OnePlace /\ Recorded
  BY DEF Init, OnePlace, Recorded
<1>2. TypeOK /\ OnePlace /\ Recorded /\ [Next]_vars
        => [Promise!Next]_(Promise!vars)
  BY PromiseStep
<1> QED
  BY <1>1, <1>2, TypeCorrect, CodesStep, PromiseInit, PTL
  DEF Spec, SingleUse, Promise!Spec
=============================================================================
