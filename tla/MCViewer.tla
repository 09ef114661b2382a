------------------------------ MODULE MCViewer ------------------------------
(* Viewer for TLC: symmetric files, ids and calls. *)
EXTENDS Viewer, TLC

Symmetry == Permutations(Keys) \cup Permutations(Ids) \cup Permutations(Calls)
=============================================================================
