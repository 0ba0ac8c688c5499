------------------------- MODULE MCExecutionMonitoring -------------------------
(* Two threads for TLC. *)
EXTENDS ExecutionMonitoring

CONSTANTS a, b
=============================================================================
