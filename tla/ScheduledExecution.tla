-------------------------- MODULE ScheduledExecution --------------------------
(***************************************************************************)
(* The execution engine's run of scheduled jobs, composed with the         *)
(* scheduler: a poller is a thread inside execute_ready_scheduled_jobs.    *)
(* It lists the ready jobs once, then walks that list.  The scheduler's    *)
(* lock is free between two calls, so users act on jobs that are in the    *)
(* list but not yet run, and on jobs that are running.                     *)
(***************************************************************************)
EXTENDS BackgroundJobScheduler

CONSTANTS
  Pollers,        \* threads that run scheduled jobs
  Nothing,        \* what a poller between two plans executes
  Inconvertible   \* jobs whose execution_plan makes the conversion raise: the
                  \* scheduler stores the payload without looking at it

ASSUME ExecutionAssumption ==
  /\ IsFiniteSet(Pollers)
  /\ Nothing \notin JobIds
  /\ Inconvertible \subseteq JobIds

VARIABLES
  queue,        \* the rest of the list each poller walks
  executing,    \* the job whose plan each poller executes
  runs,         \* history: plans begun for a job since it was last scheduled,
                \* in this process
  unreported    \* history: the jobs the scheduler was not told the end of,
                \* because a crash cut the plan off or because their record
                \* was no longer in memory when the plan ended

pollerVars == <<queue, executing, runs, unreported>>
allVars == <<vars, pollerVars>>

ExecutionTypeOK ==
  /\ TypeOK
  /\ queue \in [Pollers -> Seq(JobIds)]
  /\ executing \in [Pollers -> JobIds \cup {Nothing}]
  /\ runs \in [JobIds -> Nat]
  /\ unreported \subseteq JobIds

-----------------------------------------------------------------------------
\* What list_ready_jobs returns.
Ready == Due \cup {j \in JobIds : /\ Unfinished(j)
                                  /\ activeJobs[j].enabled
                                  /\ activeJobs[j].status = "READY"}

Poll(p) ==
  /\ up
  /\ queue[p] = << >> /\ executing[p] = Nothing
  /\ Ready # {}
  /\ activeJobs' = MarkedReady
  /\ \E list \in SetToSeqs(Ready) : queue' = [queue EXCEPT ![p] = list]
  /\ UNCHANGED <<completedJobs, persisted, up, now, creations,
                 executing, runs, unreported>>

\* The answer of start_job_execution is not looked at: the plan of a job that was
\* paused, disabled, cancelled or removed since the poll is executed all the same.
Begin(p) ==
  /\ up
  /\ queue[p] # << >> /\ executing[p] = Nothing
  /\ Head(queue[p]) \notin Inconvertible
  /\ LET j == Head(queue[p])
     IN  /\ IF CanStart(j) THEN StartJobExecution(j) ELSE UNCHANGED vars
         /\ executing' = [executing EXCEPT ![p] = j]
         /\ runs' = [runs EXCEPT ![j] = @ + 1]
  /\ queue' = [queue EXCEPT ![p] = Tail(@)]
  /\ UNCHANGED unreported

\* The conversion is outside the try statement of the loop: what it raises ends
\* the walk, and the rest of the list is dropped.
Abort(p) ==
  /\ up
  /\ queue[p] # << >> /\ executing[p] = Nothing
  /\ Head(queue[p]) \in Inconvertible
  /\ queue' = [queue EXCEPT ![p] = << >>]
  /\ UNCHANGED <<vars, executing, runs, unreported>>

\* Wrong on purpose (ListedJobsAreExecuted): a plan that raises ends the walk.
FinishOrRaise(p, success) ==
  /\ up
  /\ executing[p] # Nothing
  /\ IF success /\ Known(executing[p])
     THEN EndJobExecution(executing[p], "COMPLETED") ELSE UNCHANGED vars
  /\ executing' = [executing EXCEPT ![p] = Nothing]
  /\ queue' = IF success THEN queue ELSE [queue EXCEPT ![p] = << >>]
  /\ UNCHANGED <<runs, unreported>>

\* The plan ended, with success or not; an exception it raises is a failure.
Finish(p, success) ==
  /\ up
  /\ executing[p] # Nothing
  /\ LET j == executing[p]
         outcome == IF success THEN "COMPLETED" ELSE "FAILED"
     IN  /\ IF Known(j) THEN EndJobExecution(j, outcome) ELSE UNCHANGED vars
         /\ runs' = IF Known(j) /\ activeJobs[j].trigger \notin OneTime
                    THEN [runs EXCEPT ![j] = 0] ELSE runs
         /\ unreported' = IF Known(j) THEN unreported \ {j} ELSE unreported \cup {j}
  /\ executing' = [executing EXCEPT ![p] = Nothing]
  /\ UNCHANGED queue

\* A user gives the job a schedule again.
Reschedule(j) ==
  /\ UpdateJob(j)
  /\ runs' = [runs EXCEPT ![j] = 0]
  /\ UNCHANGED <<queue, executing, unreported>>

ProcessCrash ==
  /\ Crash
  /\ queue' = [p \in Pollers |-> << >>]
  /\ executing' = [p \in Pollers |-> Nothing]
  /\ runs' = [j \in JobIds |-> 0]
  /\ unreported' = unreported \cup ({executing[p] : p \in Pollers} \ {Nothing})

-----------------------------------------------------------------------------
ExecutionInit ==
  /\ Init
  /\ queue = [p \in Pollers |-> << >>]
  /\ executing = [p \in Pollers |-> Nothing]
  /\ runs = [j \in JobIds |-> 0]
  /\ unreported = {}

UserOp ==
  \/ \E j \in JobIds, trigger \in Triggers, enabled \in BOOLEAN : CreateJob(j, trigger, enabled)
  \/ \E j \in JobIds : PauseJob(j) \/ ResumeJob(j) \/ CancelJob(j) \/ RemoveJob(j) \/ ArchiveJob(j)
  \/ \E j \in JobIds, enabled \in BOOLEAN : SetEnabled(j, enabled)
  \/ Cleanup \/ ExpireJobs \/ CleanupExpiredJobs \/ Clear

ExecutionNext ==
  \/ \E p \in Pollers : \/ Poll(p)
                        \/ Begin(p)
                        \/ Abort(p)
                        \/ \E success \in BOOLEAN : Finish(p, success)
  \/ \E j \in JobIds : Reschedule(j)
  \/ UserOp /\ UNCHANGED pollerVars
  \/ (Tick \/ RecoverJobs) /\ UNCHANGED pollerVars
  \/ ProcessCrash

ExecutionSpec == ExecutionInit /\ [][ExecutionNext]_allVars

\* A poller that has a list walks it to its end: that is the for statement, and
\* plans end.  Nothing makes anyone call execute_ready_scheduled_jobs.
Walk(p) == Begin(p) \/ Abort(p) \/ \E success \in BOOLEAN : Finish(p, success)

FairExecutionSpec == ExecutionSpec /\ \A p \in Pollers : WF_allVars(Walk(p))

-----------------------------------------------------------------------------
(* Properties                                                                *)

\* Between two schedulings the plan of a job is executed at most once, however
\* users pause, resume, disable, cancel or archive the job while it waits in the
\* list of the poller or runs.
RunsOncePerSchedule == \A j \in JobIds : runs[j] <= 1

\* A job in status RUNNING is being executed, unless the scheduler was never told
\* the end of its plan: no other order of events leaves a job RUNNING for ever.
RunningIsExecuted ==
  \A j \in Active : activeJobs[j].status = "RUNNING" =>
    j \in unreported \/ \E p \in Pollers : executing[p] = j

\* A poller executes every job of its list, also when the plan before it fails,
\* unless the process ends or the list holds a job that cannot be converted.
ListedJobsAreExecuted ==
  \A p \in Pollers, j \in JobIds :
    (j \in Range(queue[p]) /\ Range(queue[p]) \cap Inconvertible = {})
      ~> (executing[p] = j \/ ~up)

\* A plan is executed only when the scheduler agreed to start the job: the plan of
\* a job that was disabled, paused or cancelled is not.
OnlyStartableJobsExecuted ==
  [][\A p \in Pollers :
       executing'[p] \notin {Nothing, executing[p]} => CanStart(executing'[p])]_allVars
=============================================================================
