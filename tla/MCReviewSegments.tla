-------------------------- MODULE MCReviewSegments --------------------------
(* ReviewSegments on small instances. *)
EXTENDS ReviewSegments, TLC

Symmetry == Permutations(ManualEvents)
=============================================================================
