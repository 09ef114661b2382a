------------------------------- MODULE MCHost -------------------------------
(* Host for TLC: symmetric threads and paths. *)
EXTENDS Host, TLC

Symmetry == Permutations(Threads) \cup Permutations(Keys)
=============================================================================
