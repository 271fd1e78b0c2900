----------------------- MODULE MCRepositoryIndicators -----------------------
(* Model checking instances of RepositoryIndicators: the constants are in    *)
(* the configurations.  Loops are interchangeable, but waiters orders them,  *)
(* so no symmetry is declared.                                               *)
EXTENDS RepositoryIndicators
=============================================================================
