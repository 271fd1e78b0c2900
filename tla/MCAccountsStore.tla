-------------------------- MODULE MCAccountsStore --------------------------
(* Model checking instances of AccountsStore.                              *)
EXTENDS AccountsStore, TLC

Symmetry == Permutations(Endpoints) \cup Permutations(Ids)
=============================================================================
