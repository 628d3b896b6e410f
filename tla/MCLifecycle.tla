---------------------------- MODULE MCLifecycle -----------------------------
(* Two contexts and three managers, which may share a context or not. *)
EXTENDS Lifecycle, TLC

CONSTANTS c1, c2, m1, m2, m3

Sym == Permutations(Context) \cup Permutations(Manager)
=============================================================================
