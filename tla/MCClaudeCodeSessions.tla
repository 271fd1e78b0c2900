------------------------ MODULE MCClaudeCodeSessions ------------------------
(* Model checking instances of ClaudeCodeSessions.                         *)
EXTENDS ClaudeCodeSessions, TLC

Symmetry == Permutations(Settings)
=============================================================================
