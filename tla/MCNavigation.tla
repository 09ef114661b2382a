---------------------------- MODULE MCNavigation ----------------------------
(* Navigation for TLC: symmetric files, records and loads. *)
EXTENDS Navigation, TLC

Symmetry == Permutations(Files) \cup Permutations(Records) \cup Permutations(Loads)
=============================================================================
