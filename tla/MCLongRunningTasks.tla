-------------------------- MODULE MCLongRunningTasks --------------------------
(* Small instances of the manager of long-running tasks for TLC. *)
EXTENDS LongRunningTaskManager

CONSTANTS t1, t2, l1, l2

MCTaskIds   == {t1, t2}
MCListeners == {l1, l2}
MCOneTask   == {t1}
MCOneListener == {l1}
MCEvents    == [id : TaskIds, status : Finals \cup {"ARCHIVED"}]
=============================================================================
