------------------------- MODULE MCScheduledExecution -------------------------
(* Small instances of the execution of scheduled jobs for TLC. *)
EXTENDS ScheduledExecution

CONSTANTS j1, j2, p1, p2

MCJobIds  == {j1, j2}
MCPollers == {p1}
MCTwoPollers == {p1, p2}
MCInconvertible == {j2}
=============================================================================
