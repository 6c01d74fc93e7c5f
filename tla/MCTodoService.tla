---------------------------- MODULE MCTodoService ----------------------------
(***************************************************************************)
(* Instances of TodoService for TLC.                                       *)
(***************************************************************************)
EXTENDS TodoService

Symmetry == Permutations(Clients)
=============================================================================
