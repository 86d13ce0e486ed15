---------------------------- MODULE AtomicWrite ----------------------------
(***************************************************************************)
(* What execute_dml, execute_ddl and execute_script promise their caller,  *)
(* without saying how: the statements of a call take effect together or    *)
(* not at all; a success is reported after the fact, an error rules the    *)
(* effect out for good, and only a call whose commit was not answered      *)
(* leaves its caller in doubt.                                             *)
(***************************************************************************)
EXTENDS Naturals

CONSTANT Calls

VARIABLES
  size,     \* size[c]: statements of call c
  effect,   \* effect[c]: how many of them are in the database
  outcome   \* outcome[c]: what the caller was told

vars == <<size, effect, outcome>>

Init ==
  /\ size    = [c \in Calls |-> 0]
  /\ effect  = [c \in Calls |-> 0]
  /\ outcome = [c \in Calls |-> "none"]

\* The call arrives.
Submit(c) ==
  /\ outcome[c] = "none"
  /\ size[c] = 0
  /\ size'[c] \in Nat \ {0}
  /\ size' = [size EXCEPT ![c] = size'[c]]
  /\ UNCHANGED <<effect, outcome>>

\* All of its statements take effect.
Apply(c) ==
  /\ outcome[c] \in {"none", "unknown"}
  /\ effect[c] = 0
  /\ effect' = [effect EXCEPT ![c] = size[c]]
  /\ UNCHANGED <<size, outcome>>

\* The caller is answered: with the rows of a read, with a success, with an
\* error, or with the error of a commit whose fate is unknown.
Answer(c, o) ==
  /\ outcome[c] = "none"
  /\ o = "ok" => effect[c] = size[c]
  /\ o \in {"rows", "error"} => effect[c] = 0
  /\ outcome' = [outcome EXCEPT ![c] = o]
  /\ UNCHANGED <<size, effect>>

Next ==
  \E c \in Calls :
    \/ Submit(c)
    \/ Apply(c)
    \/ \E o \in {"rows", "ok", "error", "unknown"} : Answer(c, o)

Spec == Init /\ [][Next]_vars
=============================================================================
