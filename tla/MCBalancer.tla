----------------------------- MODULE MCBalancer -----------------------------
(***************************************************************************)
(* Instances of Balancer for TLC.  Pickers are interchangeable.            *)
(***************************************************************************)
EXTENDS Balancer, TLC

Symmetry == Permutations(Picker)
=============================================================================
