----------------------- MODULE MCRepositorySelection ------------------------
(* Model checking instances of RepositorySelection.                        *)
EXTENDS RepositorySelection, TLC

\* The first repository may be found somewhere else than before.
GitDirsOfEach == [r \in Ids |-> IF r = 1 THEN GitDirs ELSE {"g"}]

Symmetry ==
  Permutations(Fetchers) \cup Permutations(Pruners) \cup Permutations(Calls)
=============================================================================
