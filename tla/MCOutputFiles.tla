--------------------------- MODULE MCOutputFiles ---------------------------
(* Runs, and the seconds in which they compute their records, are          *)
(* interchangeable.                                                        *)
EXTENDS OutputFiles, TLC

Sym == Permutations(Runs) \cup Permutations(Seconds)
=============================================================================
