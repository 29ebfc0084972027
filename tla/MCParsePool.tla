----------------------------- MODULE MCParsePool -----------------------------
(* ParsePool on a small instance: the least number of workers the program
   starts is four; the three that First creates are interchangeable. *)
EXTENDS ParsePool, TLC

CONSTANTS w1, w2, w3, w4, j1, j2, j3

Workers2 == {w1, w2}
Workers3 == {w1, w2, w3}
Workers4 == {w1, w2, w3, w4}

\* First is told apart from the others, the jobs are not told apart.
Symmetry3 == Permutations({w2, w3}) \cup Permutations(Jobs)
Symmetry4 == Permutations({w2, w3, w4}) \cup Permutations(Jobs)
=============================================================================
