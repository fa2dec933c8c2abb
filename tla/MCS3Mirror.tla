----------------------------- MODULE MCS3Mirror -----------------------------
(* S3Mirror on small instances. *)
EXTENDS S3Mirror, TLC

Symmetry == Permutations(Events)
=============================================================================
