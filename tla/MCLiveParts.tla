------------------------------ MODULE MCLiveParts ------------------------------
(* Instances of LiveParts for TLC. *)
EXTENDS LiveParts
================================================================================
