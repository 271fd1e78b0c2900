--------------------------- MODULE MCScriptRunner ---------------------------
(* Model checking instances of ScriptRunner: one repository, whose overlap *)
(* with itself is what is hard; TLAPS shows the safety part for any Repos. *)
EXTENDS ScriptRunner
=============================================================================
