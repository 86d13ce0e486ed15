---------------------------- MODULE OneTimeGrant ----------------------------
(***************************************************************************)
(* What an authorization code is good for, without saying how: once, for   *)
(* one token response, if it is accepted within its lifetime.  It may      *)
(* lapse at any time before that response, and what has lapsed stays so.   *)
(***************************************************************************)
EXTENDS Naturals

CONSTANTS Grants, Lifetime

VARIABLES
  now,        \* the time
  state,      \* state[g]: "none", "pending", "accepted", "redeemed"
              \* or "lapsed"
  since,      \* since[g]: when consent was given
  responses   \* responses[g]: token responses g was exchanged for

vars == <<now, state, since, responses>>

Init ==
  /\ now       = 0
  /\ state     = [g \in Grants |-> "none"]
  /\ since     = [g \in Grants |-> 0]
  /\ responses = [g \in Grants |-> 0]

Tick ==
  /\ now' = now + 1
  /\ UNCHANGED <<state, since, responses>>

Open(S) == \A g \in S : state[g] \in {"pending", "accepted"}
Lapsed(S) == [g \in Grants |-> IF g \in S THEN "lapsed" ELSE state[g]]

\* Consent is given; some of the older grants may lapse on that occasion ...
Consent(g, S) ==
  /\ state[g] = "none"
  /\ Open(S)
  /\ state' = [Lapsed(S) EXCEPT ![g] = "pending"]
  /\ since' = [since EXCEPT ![g] = now]
  /\ UNCHANGED <<now, responses>>

\* ... or on any other.
Lapse(S) ==
  /\ Open(S)
  /\ state' = Lapsed(S)
  /\ UNCHANGED <<now, since, responses>>

Accept(g) ==
  /\ state[g] = "pending"
  /\ now <= since[g] + Lifetime
  /\ state' = [state EXCEPT ![g] = "accepted"]
  /\ UNCHANGED <<now, since, responses>>

Redeem(g) ==
  /\ state[g] = "accepted"
  /\ state' = [state EXCEPT ![g] = "redeemed"]
  /\ responses' = [responses EXCEPT ![g] = @ + 1]
  /\ UNCHANGED <<now, since>>

Next ==
  \/ Tick
  \/ \E g \in Grants : Accept(g) \/ Redeem(g)
  \/ \E S \in SUBSET Grants : Lapse(S) \/ \E g \in Grants : Consent(g, S)

Spec == Init /\ [][Next]_vars
=============================================================================
