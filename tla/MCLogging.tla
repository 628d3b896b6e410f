------------------------------ MODULE MCLogging ------------------------------
(* Small instances of Logging for TLC.                                     *)
EXTENDS Logging, TLC

\* Line 3 alone exceeds the limit of 2; lines 1 and 2 fill it.
MCSize == [n \in 1 .. MaxMsgs |-> IF n = 3 THEN 3 ELSE 1]

Sym == Permutations(Thread) \cup Permutations(Logger)
=============================================================================
