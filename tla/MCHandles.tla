----------------------------- MODULE MCHandles ------------------------------
(* Programs of a few variables over all the wrapper types. *)
EXTENDS Handles, TLC

CONSTANTS s1, s2, s3, s4, s5, x1, x2, x3

Sym == Permutations(Slot) \cup Permutations(Mem)
=============================================================================
