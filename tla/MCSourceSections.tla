-------------------------- MODULE MCSourceSections --------------------------
(* SourceSections for TLC: a string file, a curve file beside the root and *)
(* one in a subdirectory that comes and goes.                              *)
EXTENDS SourceSections, TLC

CONSTANTS root, sub, top, deep, s1, s2

MCOrder == <<s1, s2, root, sub, top, deep>>

MCHome == (top :> root) @@ (deep :> sub)
Symmetry == Permutations(Procs)
=============================================================================
