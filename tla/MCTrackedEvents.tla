-------------------------- MODULE MCTrackedEvents --------------------------
(* TrackedEvents on small instances. *)
EXTENDS TrackedEvents, TLC

Symmetry == Permutations(Objects)
=============================================================================
