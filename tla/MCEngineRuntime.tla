--------------------------- MODULE MCEngineRuntime ---------------------------
(* An instance of EngineRuntime for TLC. *)
EXTENDS EngineRuntimeProperties
=============================================================================
