---------------------------- MODULE MCBuildCache ----------------------------
(* BuildCache for TLC: symmetric processes. *)
EXTENDS BuildCache, TLC

Symmetry == Permutations(Clients) \cup Permutations(Builders)
=============================================================================
