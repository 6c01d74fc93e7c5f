----------------------------- MODULE MCEventBus -----------------------------
(***************************************************************************)
(* Instances of EventBus for TLC.                                          *)
(***************************************************************************)
EXTENDS EventBus

CONSTANTS s1, s2, m1, m2, m3

\* m3 has a topic of its own, to which nobody subscribes.
MCTopic == [x \in {s1, s2, m1, m2, m3} |-> IF x = m3 THEN "other" ELSE "orders"]
=============================================================================
