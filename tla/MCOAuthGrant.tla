---------------------------- MODULE MCOAuthGrant ----------------------------
(* Configurations whose rights shrink, grow and change hands.              *)
EXTENDS OAuthGrant, TLC

Wide     == [scopes |-> {"read"}, conns |-> {"*"}]
Narrow   == [scopes |-> {"read"}, conns |-> {"orders"}]
Disjoint == [scopes |-> {"read"}, conns |-> {"stock"}]
Admin    == [scopes |-> {"admin"}, conns |-> {}]

Config(principal, agent, robot) ==
  [principal |-> principal,
   keys |-> [n \in {"agent", "robot"} |-> IF n = "agent" THEN agent ELSE robot]]

MCConfigs == {Config("agent", Wide, NoKey),
              Config("agent", Narrow, NoKey),
              Config("agent", Admin, NoKey),
              Config("robot", Disjoint, Narrow)}

Symmetry == Permutations(Requests) \cup Permutations(Codes)
=============================================================================
