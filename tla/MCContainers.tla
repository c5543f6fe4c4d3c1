------------------------------ MODULE MCContainers -----------------------------
(* Two names, for what one failure does to the cleanup of the other, and two   *)
(* containers that have a name in turn: one found or made, and its successor. *)
EXTENDS Containers, TLC

Symmetry == Permutations(Name)
=============================================================================
