------------------------ MODULE MCNetworkOperations -------------------------
(* NetworkOperations for TLC: few objects, operations and changes. *)
EXTENDS NetworkOperations, TLC

Symmetry == Permutations(Objects) \cup Permutations(Ops)
=============================================================================
