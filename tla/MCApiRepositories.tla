-------------------------- MODULE MCApiRepositories --------------------------
(* ApiRepositories, and the sign-in beside it, for TLC. *)
EXTENDS ApiRepositories, TLC

Symmetry == Permutations(Callers) \cup Permutations(Requests)
            \cup Permutations(Attempts) \cup Permutations(Repos)
            \cup Permutations(Loads)
=============================================================================
