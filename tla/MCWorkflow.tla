----------------------------- MODULE MCWorkflow -----------------------------
(* Workflow for TLC. *)
EXTENDS Workflow, TLC

Symmetry == Permutations(Options) \cup Permutations(Snapshots)
=============================================================================
