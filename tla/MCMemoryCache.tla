---------------------------- MODULE MCMemoryCache ----------------------------
(***************************************************************************)
(* Instances of MemoryCache for TLC.  Clients are interchangeable.         *)
(***************************************************************************)
EXTENDS MemoryCache, TLC

Symmetry == Permutations(Client)
=============================================================================
