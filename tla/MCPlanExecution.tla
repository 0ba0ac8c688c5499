--------------------------- MODULE MCPlanExecution ---------------------------
(* Small instances of the execution of plans for TLC. *)
EXTENDS PlanExecution

CONSTANTS e1, s1, s2
=============================================================================
