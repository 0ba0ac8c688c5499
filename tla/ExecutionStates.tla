---------------------------- MODULE ExecutionStates ----------------------------
(***************************************************************************)
(* The table of executions.  A mark_* method looks the execution up, sets  *)
(* its status without looking at the one it had, and does nothing when the *)
(* execution is unknown.  Progress, snapshots and the monitor are left     *)
(* out: no status depends on them.                                         *)
(***************************************************************************)
EXTENDS Naturals

CONSTANTS
  ExecutionIds,
  NoExecution,     \* the absence of an entry
  LastRetry        \* bound on the retry count

VARIABLE executions   \* _active_executions

Unfinished == {"QUEUED", "RUNNING", "RETRYING", "WAITING", "PAUSED", "WAITING_FOR_CONFIRMATION"}
ExecutionStatus == Unfinished \cup {"COMPLETED", "FAILED", "CANCELLED"}

ExecutionState == [status : ExecutionStatus, retries : 0 .. LastRetry]

ASSUME ExecutionAssumption == LastRetry \in Nat /\ NoExecution \notin ExecutionState

StatesTypeOK == executions \in [ExecutionIds -> ExecutionState \cup {NoExecution}]

HasStatus(e, statuses) == executions[e] # NoExecution /\ executions[e].status \in statuses

-----------------------------------------------------------------------------
\* create_execution replaces an entry of the same identifier.
CreateExecution(e) ==
  executions' = [executions EXCEPT ![e] = [status |-> "QUEUED", retries |-> 0]]

Mark(e, status) ==
  executions' = IF executions[e] = NoExecution THEN executions
                ELSE [executions EXCEPT ![e].status = status]

MarkRetrying(e) ==
  executions' = IF executions[e] = NoExecution THEN executions
                ELSE [executions EXCEPT ![e] = [status |-> "RETRYING", retries |-> @.retries + 1]]

\* remove_execution
RemoveExecution(e) ==
  /\ executions[e] # NoExecution
  /\ executions' = [executions EXCEPT ![e] = NoExecution]
=============================================================================
