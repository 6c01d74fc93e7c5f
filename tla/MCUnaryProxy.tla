---------------------------- MODULE MCUnaryProxy ----------------------------
(***************************************************************************)
(* Instances of UnaryProxy for TLC.  Goroutines are interchangeable.       *)
(***************************************************************************)
EXTENDS UnaryProxy, TLC

Symmetry == Permutations(Goroutine)
=============================================================================
