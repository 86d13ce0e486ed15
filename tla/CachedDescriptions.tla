------------------------- MODULE CachedDescriptions -------------------------
(***************************************************************************)
(* What may be relied on of the schema cache of a connection by those who  *)
(* only see its entries: an entry is a description that its table has had. *)
(* It may be as old as it likes, and go at any time.                       *)
(***************************************************************************)
EXTENDS Naturals

CONSTANT Tables

VARIABLES
  past,    \* past[t]: the descriptions t has had, its present one included
  entry    \* entry[t]: the one that is cached, if any: one element at most

vars == <<past, entry>>

Init ==
  /\ \A t \in Tables : past[t] # {}
  /\ entry = [t \in Tables |-> {}]

\* Tables are created, changed or dropped.
Change ==
  /\ \A t \in Tables : past[t] \subseteq past'[t]
  /\ UNCHANGED entry

\* A call stores what it has read of t, now or before.
Store(t) ==
  /\ \E d \in past[t] : entry' = [entry EXCEPT ![t] = {d}]
  /\ UNCHANGED past

Clear ==
  /\ entry' = [t \in Tables |-> {}]
  /\ UNCHANGED past

Next ==
  \/ Change
  \/ \E t \in Tables : Store(t)
  \/ Clear

Spec == Init /\ [][Next]_vars
=============================================================================
