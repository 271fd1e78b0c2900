-------------------------- MODULE MCCommitStatuses --------------------------
(* Model checking instances of CommitStatuses.                             *)
EXTENDS CommitStatuses, TLC

Symmetry ==
  Permutations(Refs) \cup Permutations(Callbacks) \cup Permutations(Jobs)
=============================================================================
