------------------------ MODULE MCPullRequestUpdater ------------------------
(* Model checking instances of PullRequestUpdater.                         *)
EXTENDS PullRequestUpdater, TLC

Symmetry == Permutations(Repos) \cup Permutations(Updaters)
=============================================================================
