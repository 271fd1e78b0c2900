------------------------- MODULE MCCommitSelection --------------------------
(* Model checking instances of CommitSelection: three commits, the first   *)
(* of which changes nothing and the others a file in common.               *)
EXTENDS CommitSelection, TLC

Changes == <<{}, {1}, {1, 2}>>
Contiguous == {{1, 2}, {2, 3}}

Symmetry == Permutations(FileLoads) \cup Permutations(DiffLoads)
=============================================================================
