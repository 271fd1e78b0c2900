-------------------------- MODULE MCCommitHistory ---------------------------
(* Model checking instances of CommitHistory.                              *)
EXTENDS CommitHistory, TLC

Symmetry ==
  Permutations(Tips) \cup Permutations(Branches) \cup Permutations(Compares)
  \cup Permutations(Refreshes)
=============================================================================
