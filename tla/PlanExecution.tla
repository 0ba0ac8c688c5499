----------------------------- MODULE PlanExecution -----------------------------
(***************************************************************************)
(* execute_plan, step by step, with the table of executions, the           *)
(* clarification sessions and the task of the plan, which others may end   *)
(* while it runs.  Each execution has a thread of its own; other callers   *)
(* get in between any two calls it makes.  Of the manager of long-running  *)
(* tasks only what LifeCycle promises is used: a method changes the status *)
(* of a task that is not finished at once, and that of a finished one not. *)
(***************************************************************************)
EXTENDS ClarificationSessions

CONSTANTS
  Steps,            \* the number of steps of a plan
  MaximumRetries,   \* RecoveryPlan.maximum_retry_count
  MaximumRuns,      \* bound on the number of calls for one execution
  RemovalWhileRunning \* may remove_execution be called while the plan runs?

Finals    == {"COMPLETED", "FAILED", "CANCELLED", "TIMED_OUT"}
TaskStatus == {"NONE", "PENDING", "QUEUED", "RUNNING", "PAUSED"} \cup Finals

\* Where execute_plan is.  The steps are those of the code between two calls that
\* another thread may notice.
Places == {"idle", "created", "register", "queue", "start", "validate", "step", "dispatch",
           "recover", "retry", "redispatch", "wait", "fallback", "unrecovered", "legacy",
           "remedy", "end", "endTask", "returned"}

Run == [at : Places, step : 1 .. Steps + 1, held : 0 .. LastRetry,
        retried : 0 .. MaximumRetries + 1, success : BOOLEAN, end : Finals, runs : 0 .. MaximumRuns]

ASSUME PlanAssumption ==
  /\ Steps \in Nat \ {0}
  /\ MaximumRetries \in Nat
  /\ MaximumRuns \in Nat \ {0}
  /\ LastRetry >= MaximumRetries + 2 * Steps
  /\ RemovalWhileRunning \in BOOLEAN

VARIABLES
  run,        \* the local variables of execute_plan; held is the count of the state
              \* object the recovery loop reads, retried the retries of this step
  tasks,      \* the status of the long-running task of the plan
  unsettled,  \* history: the steps whose last dispatch failed
  refused,    \* history: the executions whose plan was not valid
  resumed     \* history: the executions an answer has set running since their steps ended

history  == <<unsettled, refused, resumed>>
planVars == <<executions, sessionVars, run, tasks, history>>

PlanTypeOK ==
  /\ StatesTypeOK
  /\ SessionsTypeOK
  /\ run \in [ExecutionIds -> Run]
  /\ tasks \in [ExecutionIds -> TaskStatus]
  /\ unsettled \in [ExecutionIds -> SUBSET (1 .. Steps)]
  /\ refused \subseteq ExecutionIds
  /\ resumed \subseteq ExecutionIds

-----------------------------------------------------------------------------
IsIdle(e)     == run[e].at \in {"idle", "returned"}
HasTask(e)    == tasks[e] # "NONE"
TaskIsLive(e) == HasTask(e) /\ tasks[e] \notin Finals

\* The thread of e is at one place and goes on to another.
Goes(e, from, to) == run[e].at = from /\ run' = [run EXCEPT ![e].at = to]

\* The walk over the steps ends: successfully, or without having reached its end.
Leaves(e, success) == run' = [run EXCEPT ![e].at = "end", ![e].success = success]

NextStep(e) == run' = [run EXCEPT ![e].at = "step", ![e].step = @ + 1]

\* A call of the dispatcher, which fails or not; it also fails when it raises.
Settled(e, failed) ==
  unsettled' = [unsettled EXCEPT ![e] = IF failed THEN @ \cup {run[e].step} ELSE @ \ {run[e].step}]

Tries(e, place, otherwise) ==
  /\ run[e].at = place
  /\ \/ Settled(e, FALSE) /\ NextStep(e)
     \/ Settled(e, TRUE) /\ run' = [run EXCEPT ![e].at = otherwise]
  /\ UNCHANGED <<executions, sessionVars, tasks, refused, resumed>>

-----------------------------------------------------------------------------
(* The head of execute_plan                                                  *)

Create(e) ==
  /\ IsIdle(e) /\ run[e].runs < MaximumRuns
  /\ CreateExecution(e)
  /\ run' = [run EXCEPT ![e] = [at |-> "created", step |-> 1, held |-> 0, retried |-> 0,
                                success |-> FALSE, end |-> "FAILED", runs |-> @.runs + 1]]
  /\ tasks' = [tasks EXCEPT ![e] = "NONE"]
  /\ unsettled' = [unsettled EXCEPT ![e] = {}]
  /\ refused' = refused \ {e}
  /\ resumed' = resumed \ {e}
  /\ UNCHANGED sessionVars

Running(e) ==
  /\ \/ Goes(e, "created", "register")
     \/ Goes(e, "created", "validate")     \* a plan that is not long-running
  /\ Mark(e, "RUNNING")
  /\ UNCHANGED <<sessionVars, tasks, history>>

\* The manager of tasks may have no room, and the plan runs without a task.
Register(e) ==
  /\ \/ Goes(e, "register", "queue") /\ tasks' = [tasks EXCEPT ![e] = "PENDING"]
     \/ Goes(e, "register", "validate") /\ UNCHANGED tasks
  /\ UNCHANGED <<executions, sessionVars, history>>

\* queue_task and start_task, refused when the task is not in the right status.
QueueTask(e) ==
  /\ Goes(e, "queue", "start")
  /\ tasks' = [tasks EXCEPT ![e] = IF @ = "PENDING" THEN "QUEUED" ELSE @]
  /\ UNCHANGED <<executions, sessionVars, history>>

StartTask(e) ==
  /\ Goes(e, "start", "validate")
  /\ tasks' = [tasks EXCEPT ![e] = IF TaskIsLive(e) THEN "RUNNING" ELSE @]
  /\ UNCHANGED <<executions, sessionVars, history>>

\* A plan that is not valid is refused: the execution fails and the task, which was
\* started before, stays as it is.
Validate(e) ==
  /\ \/ Goes(e, "validate", "step") /\ UNCHANGED <<executions, refused>>
     \/ /\ Goes(e, "validate", "returned")
        /\ Mark(e, "FAILED")
        /\ refused' = refused \cup {e}
  /\ UNCHANGED <<sessionVars, tasks, unsettled, resumed>>

-----------------------------------------------------------------------------
(* The steps and their recovery                                              *)

\* Wrong on purpose (PlanTypeOK): one step too many.
MoreStepsThanAny(e) == run[e].step <= Steps + 1

MoreSteps(e) == run[e].step <= Steps

\* The decisions CANCEL and SKIP are none of this decision engine's, and RETRY
\* needs an execution that has failed and still runs.
Decide(e) ==
  /\ run[e].at = "step" /\ MoreSteps(e)
  /\ \/ Goes(e, "step", "dispatch") /\ UNCHANGED executions   \* EXECUTE, USE_FALLBACK
     \/ NextStep(e) /\ UNCHANGED executions                   \* REUSE_RESOURCE, or a step without data
     \/ \E status \in {"WAITING", "WAITING_FOR_CONFIRMATION", "PAUSED"} :   \* WAIT, ASK_USER
          Mark(e, status) /\ Leaves(e, FALSE)
  /\ UNCHANGED <<sessionVars, tasks, history>>

AllDone(e) ==
  /\ run[e].at = "step" /\ ~MoreSteps(e)
  /\ Leaves(e, TRUE)
  /\ UNCHANGED <<executions, sessionVars, tasks, history>>

Dispatch(e) == Tries(e, "dispatch", "recover")

\* The category of the failure selects a strategy; an execution that is unknown by
\* now has none.
Recover(e) ==
  /\ run[e].at = "recover"
  /\ \/ /\ executions[e] # NoExecution
        /\ \E strategy \in {"retry", "wait", "fallback"} :   \* RETRY, WAIT, USE_FALLBACK
             run' = [run EXCEPT ![e].at = strategy, ![e].held = executions[e].retries,
                                ![e].retried = 0]
        /\ UNCHANGED executions
     \/ /\ executions[e] # NoExecution                       \* ASK_USER
        /\ Goes(e, "recover", "unrecovered")
        /\ Mark(e, "WAITING_FOR_CONFIRMATION")
     \/ Goes(e, "recover", "unrecovered") /\ UNCHANGED executions   \* ABORT, no resource
  /\ UNCHANGED <<sessionVars, tasks, history>>

\* Wrong on purpose (RetriesWithinLimit): one retry too many.
MayRetryOnceMore(e) == run[e].held <= MaximumRetries

\* The loop reads the count of the state object it got before; mark_retrying adds
\* to the count of the entry in the table, if there is one.
MayRetry(e) == run[e].held < MaximumRetries

Counted(e) == IF executions[e] = NoExecution THEN run[e].held ELSE run[e].held + 1

Retry(e) ==
  /\ run[e].at = "retry"
  /\ \/ /\ MayRetry(e)
        /\ MarkRetrying(e)
        /\ run' = [run EXCEPT ![e].at = "redispatch", ![e].held = Counted(e),
                              ![e].retried = IF @ > MaximumRetries THEN @ ELSE @ + 1]
     \/ ~MayRetry(e) /\ Goes(e, "retry", "unrecovered") /\ UNCHANGED executions
  /\ UNCHANGED <<sessionVars, tasks, history>>

Redispatch(e) == Tries(e, "redispatch", "retry")

\* After the wait the step is dispatched once more.
Wait(e) ==
  /\ Goes(e, "wait", "fallback")
  /\ MarkRetrying(e)
  /\ UNCHANGED <<sessionVars, tasks, history>>

Fallback(e) == Tries(e, "fallback", "unrecovered")

\* Wrong on purpose (NoFailedStepIsPassed): a step that waits counts as recovered.
UnrecoveredPassed(e) ==
  /\ run[e].at = "unrecovered"
  /\ IF HasStatus(e, {"WAITING", "WAITING_FOR_CONFIRMATION"})
     THEN NextStep(e)
     ELSE run' = [run EXCEPT ![e].at = "legacy"]
  /\ UNCHANGED <<executions, sessionVars, tasks, history>>

\* Wrong on purpose (PlansReturn): the failure is analysed again.
UnrecoveredAgain(e) ==
  /\ run[e].at = "unrecovered"
  /\ IF HasStatus(e, {"WAITING", "WAITING_FOR_CONFIRMATION"})
     THEN Leaves(e, FALSE)
     ELSE run' = [run EXCEPT ![e].at = "recover"]
  /\ UNCHANGED <<executions, sessionVars, tasks, history>>

\* A step that waits ends the plan; otherwise the older recovery engine is tried.
Unrecovered(e) ==
  /\ run[e].at = "unrecovered"
  /\ IF HasStatus(e, {"WAITING", "WAITING_FOR_CONFIRMATION"})
     THEN Leaves(e, FALSE)
     ELSE run' = [run EXCEPT ![e].at = "legacy"]
  /\ UNCHANGED <<executions, sessionVars, tasks, history>>

Legacy(e) ==
  /\ Goes(e, "legacy", "remedy")
  /\ MarkRetrying(e)
  /\ UNCHANGED <<sessionVars, tasks, history>>

\* Wrong on purpose (NoneLeftRunning): the failure is not recorded.
RemedyUnrecorded(e) ==
  /\ run[e].at = "remedy"
  /\ \/ Settled(e, FALSE) /\ NextStep(e)
     \/ Settled(e, TRUE) /\ Leaves(e, FALSE)
  /\ UNCHANGED <<executions, sessionVars, tasks, refused, resumed>>

\* Its remediation actions are dispatched.
Remedy(e) ==
  /\ run[e].at = "remedy"
  /\ \/ Settled(e, FALSE) /\ NextStep(e) /\ UNCHANGED executions
     \/ Settled(e, TRUE) /\ Leaves(e, FALSE) /\ Mark(e, "FAILED")
  /\ UNCHANGED <<sessionVars, tasks, refused, resumed>>

-----------------------------------------------------------------------------
(* The end of execute_plan                                                   *)

\* A success is recorded whatever the status is; otherwise the status tells how
\* the task is to end.
End(e) ==
  /\ run[e].at = "end"
  /\ run' = [run EXCEPT ![e].at = IF HasTask(e) THEN "endTask" ELSE "returned",
                        ![e].end = CASE run[e].success               -> "COMPLETED"
                                     [] HasStatus(e, {"CANCELLED"})  -> "CANCELLED"
                                     [] OTHER                        -> "FAILED"]
  /\ IF run[e].success THEN Mark(e, "COMPLETED") ELSE UNCHANGED executions
  /\ UNCHANGED <<sessionVars, tasks, history>>

\* Wrong on purpose (TaskEndsWithPlan): only a plan that succeeds ends its task.
EndTaskOfSuccess(e) ==
  /\ Goes(e, "endTask", "returned")
  /\ tasks' = [tasks EXCEPT ![e] = IF TaskIsLive(e) /\ run[e].success THEN run[e].end ELSE @]
  /\ UNCHANGED <<executions, sessionVars, history>>

\* Wrong on purpose (TaskTellsOutcome): a finished task is overwritten, and every
\* task completes.
EndTaskCompleted(e) ==
  /\ Goes(e, "endTask", "returned")
  /\ tasks' = [tasks EXCEPT ![e] = IF TaskIsLive(e) THEN "COMPLETED" ELSE @]
  /\ UNCHANGED <<executions, sessionVars, history>>

EndTask(e) ==
  /\ Goes(e, "endTask", "returned")
  /\ tasks' = [tasks EXCEPT ![e] = IF TaskIsLive(e) THEN run[e].end ELSE @]
  /\ UNCHANGED <<executions, sessionVars, history>>

-----------------------------------------------------------------------------
(* The other callers                                                         *)

\* Tasks are cancelled, paused, resumed and time out while their plan runs.
TaskChanges(e) ==
  /\ TaskIsLive(e)
  /\ \E status \in {"CANCELLED", "TIMED_OUT", "PAUSED", "RUNNING"} :
       /\ status = "PAUSED" => tasks[e] = "RUNNING"
       /\ tasks' = [tasks EXCEPT ![e] = status]
  /\ UNCHANGED <<executions, sessionVars, run, history>>

HasLeft(e) == run[e].at \in {"end", "endTask", "returned"}

SessionCall ==
  /\ SessionStep
  /\ resumed' = resumed \cup {e \in ExecutionIds :
                  HasLeft(e) /\ ~HasStatus(e, {"RUNNING"}) /\ HasStatus(e, {"RUNNING"})'}
  /\ UNCHANGED <<run, tasks, unsettled, refused>>

Remove(e) ==
  /\ IsIdle(e) \/ RemovalWhileRunning
  /\ RemoveExecution(e)
  /\ UNCHANGED <<sessionVars, run, tasks, history>>

EngineStep(e) ==
  \/ Running(e) \/ Register(e) \/ QueueTask(e) \/ StartTask(e) \/ Validate(e)
  \/ Decide(e) \/ AllDone(e) \/ Dispatch(e) \/ Recover(e) \/ Retry(e) \/ Redispatch(e)
  \/ Wait(e) \/ Fallback(e) \/ Unrecovered(e) \/ Legacy(e) \/ Remedy(e) \/ End(e) \/ EndTask(e)

PlanInit ==
  /\ executions = [e \in ExecutionIds |-> NoExecution]
  /\ SessionsInit
  /\ run = [e \in ExecutionIds |-> [at |-> "idle", step |-> 1, held |-> 0, retried |-> 0,
                                    success |-> FALSE, end |-> "FAILED", runs |-> 0]]
  /\ tasks = [e \in ExecutionIds |-> "NONE"]
  /\ unsettled = [e \in ExecutionIds |-> {}]
  /\ refused = {}
  /\ resumed = {}

PlanNext ==
  \/ \E e \in ExecutionIds : Create(e) \/ EngineStep(e) \/ TaskChanges(e) \/ Remove(e)
  \/ SessionCall
  \/ TimePasses /\ UNCHANGED <<run, tasks, history>>

PlanSpec == PlanInit /\ [][PlanNext]_planVars

\* The dispatcher, the manager of tasks and the table of executions return.
FairPlanSpec == PlanSpec /\ \A e \in ExecutionIds : WF_planVars(EngineStep(e))

-----------------------------------------------------------------------------
(* Properties                                                                *)

\* No step is begun after one that failed and was not recovered, and a plan that
\* reports a success has no such step.
NoFailedStepIsPassed ==
  \A e \in ExecutionIds :
    /\ unsettled[e] \subseteq {run[e].step}
    /\ run[e].success => run[e].step = Steps + 1 /\ unsettled[e] = {}

\* One failure of a step is retried at most maximum_retry_count times by the
\* recovery loop, whatever the other steps have used up and whoever changes the
\* status of the execution meanwhile.
RetriesWithinLimit == \A e \in ExecutionIds : run[e].retried <= MaximumRetries

\* An execution nobody executes is not left QUEUED, RUNNING or RETRYING, unless an
\* answer has set it running again.
NoneLeftRunning ==
  \A e \in ExecutionIds : IsIdle(e) /\ HasStatus(e, {"QUEUED", "RUNNING", "RETRYING"}) => e \in resumed

\* When the plan has returned its task has ended, also when it was paused or ended
\* by others meanwhile; but the task of a plan that was refused is left as it is.
TaskEndsWithPlan ==
  \A e \in ExecutionIds : run[e].at = "returned" /\ TaskIsLive(e) => e \in refused

\* The task is COMPLETED only if all steps are through, and FAILED only if not.
TaskTellsOutcome ==
  \A e \in ExecutionIds :
    /\ tasks[e] = "COMPLETED" => run[e].success /\ unsettled[e] = {}
    /\ tasks[e] = "FAILED" => ~run[e].success

\* Refuted: once its plan has returned, a cancelled execution is in a terminal state, and
\* nothing sets it running again but another call of execute_plan.
CancelledIsTerminal ==
  \A e \in ExecutionIds, n \in 1 .. MaximumRuns :
    [](IsIdle(e) /\ run[e].runs = n /\ HasStatus(e, {"CANCELLED"})
         => [](run[e].runs = n => ~HasStatus(e, {"RUNNING"})))

\* Every call of execute_plan returns.
PlansReturn == \A e \in ExecutionIds : ~IsIdle(e) ~> run[e].at = "returned"
=============================================================================
