---------------------------- MODULE MCSectionFile ----------------------------
(* SectionFile for TLC: version 1 has a payload of one block, 2 of two. *)
EXTENDS SectionFile, TLC

MCVersions == 1..2
MCSize     == [v \in MCVersions |-> v]
Symmetry   == Permutations(Writers) \cup Permutations(Files)
=============================================================================
