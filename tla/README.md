# Formal models of Auralis

TLA+ models of the parts of Auralis in which the order of events decides: the
background job scheduler with the execution of its jobs, the file transactions with
their rollback, the manager of long-running tasks with its events, the execution of
a plan with its questions to the user, the locks of the execution monitor, the
confirmation of actions by voice, and in the frontend the WebSocket client and the
plugin runtime. TLC checks small instances of the models; TLAPS proves the central
properties for every value of the constants.

    tlc -config MCPollerProgress.cfg MCScheduledExecution        # model-check one instance
    tlapm BackgroundJobSchedulerProofs.tla         # check the proofs of one module

Paths below are relative to `src/`. `PROJECT.json` holds, for every definition, the
lines of the code it stands for, and the list of runs, hazards and theorems.

## 1. The system

Auralis is a desktop assistant: a FastAPI backend in Python that turns an utterance
into a plan and executes it on the user's files and programs, and a React frontend.
Nearly every component is an object with a dictionary under one `RLock`; what is
hard lies where a lock is given up between two steps, where two components keep one
fact, and where a step fails half-way.

| Part | State | Operations | What is hard, and what makes it correct |
|---|---|---|---|
| Background job scheduler (`backend/brain/execution/background_job_scheduler.py`) | active jobs, a bounded history, the records in the persistence hook | create, update, pause, resume, cancel, enable, disable, remove, archive; list ready; start, complete, fail; expire, clean up; recover | restart at any moment; ends reported late; capacity. An ended job stays ended; the store keeps up with memory |
| Execution of scheduled jobs (`backend/brain/execution/execution_engine.py`, `execute_ready_scheduled_jobs`) | a local list of ready jobs | poll, start, execute, report | the list is stale when used. At most one execution per schedule; no job left RUNNING |
| Transaction manager (`backend/brain/filesystem/transaction_manager.py`) | transactions with status and operations | begin, record, commit, abort, clear | commit executes without the lock. The status tells what was executed |
| File and directory operations, provider (`file_operations.py`, `directory_operations.py`, `filesystem_provider.py`) | the disk | copy, move, rename, delete, create, ... | overwrite policies, failures half-way, checks and changes under three unrelated locks. Nothing is replaced unless OVERWRITE says so |
| Rollback manager (`rollback_manager.py`) | none | rollback | inverses act on what is there. The tree is as the commit found it |
| Execution engine (`execution_engine.py`, `execution_state_manager.py`, `decision_engine.py`, `failure_recovery.py`) | executions and their snapshots | execute a plan step by step; retry, wait, ask | one retry budget for all steps; status changes without guards; a dozen exits. No step runs after one that failed; execution and task tell what happened |
| Long-running tasks (`long_running_task_manager.py`, `task_events.py`) | active and archived tasks, listeners | create, queue, start, pause, complete, fail, cancel, time out, archive | timeouts against completions; memory, store and listeners told one after the other, the store by a hook that may fail. An end that was announced is final |
| Clarification (`clarification_session.py`, `clarification_engine.py`) | open sessions | ask, answer, expire | an answer after the expiry, or to an execution cancelled meanwhile. A cancelled execution stays cancelled |
| Execution monitor (`execution_monitor.py`) | counters | record, listen, report statistics | calls the managers with its lock held, and is called with theirs held |
| Assistant core (`backend/core/assistant.py`, `planner.py`, `dispatcher.py`) | none | process a request | the fallback after a partial failure does things twice |
| Voice commands and confirmations (`backend/voice/listener.py`, `backend/capabilities/files/file_operations.py`, the voice route) | the flag of the listener; one global pending action | start, stop, hear a command, ask, confirm, cancel | listener and requests share the pending action without a lock. Nothing is done by voice but what a "yes" took up; a question is not lost under another one; what was cancelled is not done |
| The brain's confirmations (`backend/brain/voice/confirmation_manager.py`, `backend/app/confirmation_manager.py`) | confirmations | request, accept, reject, time out | a copy that nothing on the users' path reads |
| Permission manager (`backend/brain/filesystem/permission_manager.py`) | a cache with time to live | check, invalidate | stale answers |
| Rate limiter (`backend/application/api/protection/rate_limiter.py`) | windows and buckets | evaluate | boundaries of the window |
| Application runtime, dependency container, configuration (`backend/application/`) | registries | start, resolve, stop | order of start and stop, cycles |
| WebSocket client, synchronisation (`frontend/src/services/`) | socket, timer, attempts | connect, reconnect, events | late events of an old socket. What was stopped stays closed; what was lost is tried again |
| Alerting (`frontend/src/observability/alerting/`) | deduplication records, alerts | evaluate, transition | cooldown, eviction |
| Plugins (`frontend/src/plugins/runtime/`) | states, modules, sandboxes, capabilities, promises under way | integrate, deactivate, unload, activate | every step may fail and is rolled back; shared promises. A failed integration leaves nothing, a successful one a whole plugin |
| Planning, reasoning, conversation, memory, AI providers, voice devices, operating system layer, telemetry, user interface | texts, registries, devices, database | | heuristics on text, input and output: no ordering of its own to check |

How they interact: the engine calls the scheduler from the thread that polls (four
calls, each under the scheduler's lock, none around them); users call the scheduler
from other threads. The scheduler calls its persistence hook under its lock. The
provider gives the transaction manager its `_execute_operation` as executor, which
calls the file and directory operations, each of them under a lock of its own class. The
rollback manager gets the `TransactionResult` that `commit` returned; it does not
know the transaction manager. The engine calls the state manager, the task manager and
the dispatcher of actions one after the other and holds no lock between two calls; the
session manager writes the status of an execution under its own lock. The task manager
calls its hook and, through the dispatcher of events, its listeners with its lock held;
the monitor is such a listener. The listener's thread and the voice route both go
through `execute_action` to the file capability with its pending action. In the
frontend one thread runs everything; the synchronisation service listens to the client's
states, and the integration of a plugin awaits the life cycle manager, the loader and
the hooks of the plugin.

## 2. The models

### BackgroundJobScheduler

One action per public method, because every method holds the scheduler's lock from its
first read to its last write. `activeJobs` is `_active_jobs`, `completedJobs` is the
deque `_completed_jobs` (`KeepLatest` is its `maxlen`), `persisted` is what the hook
holds. `Archive` is `_archive_job_locked` and `Amend` an assignment followed by
`_safe_update_job`, both with the write the hook may lose (`StoresWith`, when
`PersistenceFails`). `Crash` empties the memory, `RecoverJobs` is the restart with
`recover_jobs`, or, with `RecoverWhileRunning`, a call of it in a scheduler at work.

Abstracted: a job keeps status, trigger, enabled, next_run, updated_at and created_at;
INTERVAL, DAILY, WEEKLY and MONTHLY are one trigger RECURRING, whose next run is any
later moment, ONCE picks any moment and MANUAL none. Calls that are refused change
nothing and have no action. `creations` counts the creations of an identifier, so that
two jobs with one explicit identifier are told apart.

### ScheduledExecution

Extends the scheduler with pollers: threads inside `execute_ready_scheduled_jobs`.
`Poll` lists the ready jobs, `Begin` takes the next one, calls `start_job_execution`
and, whatever the answer, begins its plan, `Finish` reports the end with
`complete_job_execution` or `fail_job_execution`, `Abort` is the conversion that raises
outside of the try statement. The plan itself is the time between `Begin` and `Finish`,
in which users act. `runs` and `unreported` are history variables.

### TransactionManager

`commit` is split where it gives up its lock: `StartCommit`, one `ExecuteNext` per
operation, `FinishCommit`. It works on the state object it found, which `clear` may
remove and `begin` replace; objects are told apart by `generation`. `executed` is a
history of the operations executed for each object.

### FileTree and FileTransactions

`FileTree` has no variables: trees, what the check of each operation finds (`Check`), the change
it then makes (`Act`), the trees a failure half-way may leave (`Interrupted`), and the inverse
operations (`IsThere`, `TakeBack`). The library calls behave as on POSIX.
`FileTransactions` extends the transaction manager and the tree. An operation is two steps,
`CheckNext` and `CommitNext`, since its check and its change are made under the lock of its
class only: one lock of the file operations, another of the directory operations and a third
of the rollback. Operations of one class exclude each other (`Excluded`), everything else may come in
between. An operation whose check ends it is one step. `StartRollback`, `CheckUndo`, `UndoNext` and
`EndRollback` are `RollbackManager.rollback`, which a client may call on its report once or
more, and `CheckDirectly` and `ActDirectly` are any other user of the provider. The
library calls that make up one change (the parents, then the copy) are one step, which a
failure may interrupt anywhere but another thread may not.
`create_directory` is modelled with `parents=True`, its default. The source of a CREATE and
of a CREATE_DIRECTORY, which the code keeps in `source_path`, is called `dst` in the
model because it is the path that is made. `Paths` is closed under prefixes but not
under going one level deeper. `FilesAssumption` says what is asked of operations therefore: a
directory is not copied or moved to where a path below it would not be in `Paths`, and
a rename stays in its directory, since the code takes a new name and puts it beside the old one.

`snapshot` and `spoiled` are history: the tree when a commit began, and whether something
happened after which the code does not promise to get it back (an operation that has no
inverse, that replaced something, that made parent directories, that failed half-way or
whose rollback failed, another user's change, a second rollback).

### TaskEvents, LongRunningTaskManager and LifeCycle

A method of the task manager changes the memory, calls the hook and calls the
dispatcher, all under one lock, and the process may end between any two of these. So
an action does what the method does up to its first such call and leaves the rest in
`todo`, which `Write`, `DeleteRecord`, `Announce` and the calls of other methods
(`CallArchive`, `CallTimeout`, `CallCreate`, `CallExpire`) work off; no other method
begins before it is empty (`LockFree`). `TaskEvents` is the dispatcher: `Dispatch` takes
the snapshot of the listeners, `Deliver` calls one of them. `LoadTasks` and `RestoreTasks`
are `recover_tasks`, which loads before it takes the lock; with `RecoversAtWork` it is called in a
manager at work as well, and then brings back what it loaded whatever has happened
since. `CrashAndRestart` loses memory, listeners and what was left to do.

A write or a deletion that the hook refuses is logged and forgotten: `Write` and `DeleteRecord` go on
without it, `HookFailures` times. `ArchiveTask` tells the listeners TASK_ARCHIVED at once, as
`_archive_task_locked` does, also at the end of a task, whose write and announcement come
after (`Ending`). A timeout of a task's own goes before the default: each check picks one for every
task (`Timeouts`). `check_timeouts` reads the clock just before it takes the lock, which is one step
here. `lost` (the statuses whose write failed), `overtaken` (the tasks a recovery restored from a
record that was not, or no longer, the one in the store and in memory) and `createdIds` are history.
Progress and metadata but for the timeout are left out, and so are the events of creations,
starts, pauses, progress and recoveries, which change nothing.

`LifeCycle` is what a manager promises of the things it manages: a status changes along
given arrows and no other way. `LongRunningTaskManager` implements it with the arrows of
`LongRunningTaskStatus`, the status being the one in the store (`FollowsLifeCycle`).

### ExecutionStates, ClarificationSessions and PlanExecution

`ExecutionStates` is the table of executions: its `mark_*` methods set the status without
looking at the one that is there. `ClarificationSessions` adds the sessions with one
action per method of the session manager. `PlanExecution` adds `execute_plan`, where `run[e].at` is the
place of the thread that executes `e`, with one action between two calls another thread can
see: the head (`Create` to `Validate`), the loop over the steps (`Decide`, `Dispatch`, the
strategies of `failure_recovery` and the loop of retries, `Legacy` and `Remedy` for the older
recovery engine) and the end (`End`, `EndTask`). Meanwhile users open, answer and cancel
sessions (`SessionCall`) and the task is paused, cancelled or times out
(`TaskChanges`, of which only what `LifeCycle` promises is used). `run[e].held` is the
count in the state object the loop of retries holds, which is not always the one in the
table. The decisions CANCEL, SKIP and RETRY and the strategies SKIP and IGNORE are none
this decision engine and recovery take, and have no action. `unsettled`, `refused` and
`resumed` are history.

### ExecutionMonitoring

The locks of the monitor and of the managers, in the order in which their methods take
them. A method is the list of locks it takes and gives back (`TaskMethod`,
`MarkFinished`, `GetStatistics`, `JobMethod`).

### Connection

`client` has the fields of `WebSocketClient` and the state of every socket the browser
still has; a method is an operator on it (`Connect`, `Disconnect`, `OnClose`,
`HandleReconnect`), an action the call or the event. A socket that was closed or replaced keeps
its handlers, so `Fails` and `Closes` come from old ones too. `Start`, `Stop` and `syncState`
are the synchronisation service. `hurried` is history: `start` has followed `stop`
before the old socket closed. Messages and their handlers are left out, and so is a second
`start` without a `stop`, which the application does not make.

### VoiceControl

Workers are the listener's threads and the calls of the voice route. `Loop` to `Decide` are
the listener's loop up to a command; `Ask`, `Take`, `Clear`, `CarryOut` and `Drop` are
`execute_action` and the file capability, split where they read, clear and use the global
pending action. Nothing in the code keeps two workers apart, and nothing in the model does.
What an action does to the disk is one step, and items come and go meanwhile.
`asked`, `confirmed` (the questions a "yes" has taken up), `done` and `dropped` are history. The copy the
brain's confirmation manager keeps of the pending action is read by nothing and left out.
So are the commands of `POST /command` and `/assistant`, which delete, move and organize without a
question: what the model says of confirmations, it says of commands by voice.

### PluginIntegration

The frontend has one thread: code runs until it awaits something. `turn` says whose code
runs, so that actions in between two awaits are not interleaved. `Integrate` to `UndoErase` are
`integrate` and its rollback; `Call`, `HookReturns` and `OperationFails` are the operations of the
life cycle manager, which share the promise of an operation under way; `Deactivate`,
`Unload` and `Reactivate` are the other callers. `inFlight` is the map of promises, in which one
stays for ever when the code ends before its promise is put there (`End`). Discovery,
dependencies, validation, security and configuration are outcomes; startup, shutdown and
reload are sequences of calls the clients make. `alone` says whether callers keep off a
plugin another one handles.

Definitions marked "Wrong on purpose" are not part of any specification. Each is a
plausible mistake in the definition below it and violates the property it names, which
shows that the property depends on that definition.

## 3. What TLC checks

| Run | Instance | Result |
|---|---|---|
| `MCScheduledExecution` | 2 jobs, one of which cannot be converted, room for 1 and a history of 1, 1 poller, `cleanup_history` on, clock up to 1, writes succeed, identifiers used once | `Durable`, `ExecutionTypeOK`, `RunsOncePerSchedule`, `RunningIsExecuted`, `NoResurrection` hold; 1.6 million states |
| `MCPollerProgress` | the same with `cleanup_history` off, both jobs convertible, the clock standing still, fairness of the walk | `TypeOK`, `CapacityExceededOnlyByRecovery`, `ListedJobsAreExecuted` hold; 670,218 states |
| `MCTransactionManager` | 1 identifier begun up to 3 times, 2 threads, 2 operations | `ManagerTypeOK`, `StatusTellsEffects`, `OneCommitPerTransaction`, `CommitsEnd` hold; 378,175 states |
| `MCFileTransactions` | 14 paths in 3 levels, transactions of up to 3 of 7 operations with failures half-way, others who delete a file, between check and change too | `FilesTypeOK`, `RollbackRestores` hold; 922,758 states |
| `MCLongRunningTasks` | 2 tasks, room for 1 and a history of 1, 2 listeners, tasks complete or time out, `cleanup_after_completion` off, writes succeed, recovery into an empty memory, fairness of the thread that has the lock | `FollowsLifeCycle`, `FullOnlyByRecovery`, `EveryListenerIsTold` hold; 324,680 states |
| `MCFailingHook` | 1 task, 1 listener, the clock up to 1, with and without `cleanup_after_completion`, 2 failing writes, recovery of a manager at work | `TaskTypeOK`, `WrittenThrough`, `AnnouncedIsFinal` hold; 2.3 million states |
| `MCPlanExecution` | 1 execution of 2 steps, 1 retry, 2 sessions of which the second is beyond the maximum, clock up to 1 | `PlanTypeOK`, `NoFailedStepIsPassed`, `RetriesWithinLimit`, `NoneLeftRunning`, `TaskEndsWithPlan`, `TaskTellsOutcome`, `PlansReturn` hold; 465,705 states |
| `MCConnection` | 3 sockets alive at once, 5 attempts, the code's default | `ConnectionTypeOK`, `StoppedStaysClosed`, `KeepsTrying` hold; 5,386 states |
| `MCVoiceControl` | 2 threads of the listener and 1 call of the voice route at once, 1 item, 2 questions | `VoiceTypeOK`, `OnlyConfirmedIsDone`, `AnsweredIsNotPending`, `StoppedListenersEnd` hold; 319,372 states |
| `MCPluginIntegration` | 2 plugins, of which one requires the other and has a capability, 1 other caller | `FailedLeavesNothing`, `ReadyIsWhole` hold; 78,458 states |
| `MCRollbackExistingDirectory` | one CREATE_DIRECTORY of a directory with a file | `RollbackSparesUntouchedFiles` is violated |
| `MCExecutionMonitoring` | 2 threads | `NoCircularWait` is violated |

Further configurations show where a property ends. Each is refuted by TLC within
seconds; they are kept beside the runs and belong to the list of divergences below.

| Configuration | Module | Refuted |
|---|---|---|
| `MCReusedIdentifier` | `MCScheduledExecution` | `CleanupSparesActiveJobs` with an identifier used twice |
| `MCCancelWhileRunning` | `MCScheduledExecution` | `NoResurrection` with `cleanup_history` off |
| `MCStaleReadyList` | `MCScheduledExecution` | `OnlyStartableJobsExecuted` |
| `MCTwoPollers` | `MCScheduledExecution` | `RunsOncePerSchedule` with 2 pollers |
| `MCAbortDuringCommit` | `MCTransactionManager` | `AbortedExecutedNothing` |
| `MCRenamePolicy` | `MCFileTransactions` | `OnlyOverwriteReplaces`, by a COPY with the policy RENAME |
| `MCThreeLocks` | `MCFileTransactions` | `OnlyOverwriteReplaces`, by a COPY with the policy DENY and a directory moved to its destination |
| `MCPlanExecution` with `RemovalWhileRunning = TRUE` | `MCPlanExecution` | `RetriesWithinLimit` when an execution is removed while it runs |
| `MCRevivedExecution` | `MCPlanExecution` | `CancelledIsTerminal` |
| `MCOverwrittenQuestion` | `MCVoiceControl` | `NoQuestionIsOverwritten` |
| `MCCancelledAction` | `MCVoiceControl` | `CancelledIsNotDone` |
| `MCRestartedConnection` | `MCConnection` | `OneSocket` |
| `MCArchivedBeforeWritten` | `MCLongRunningTasks` | `ArchivedIsFinal`, which takes TASK_ARCHIVED for an end |
| `MCReadyPlugin` | `MCPluginIntegration` | `ReadyIsActive`, which neither excepts plugins without a capability nor old promises |
| `MCSharedPlugin` | `MCPluginIntegration` | `ReadyIsLoaded` with two callers of one plugin |

With `cleanup_history` off (`MCPollerProgress`), finished jobs stay in memory, so that
`create_job` at capacity has some to archive. The scheduler is run with its poller only, which does
what the scheduler alone may do (`ExecutionImplementsScheduler`); `NoResurrection` is checked with it on, since it fails
with it off (`MCCancelWhileRunning`).

The bounds and why they are enough to show something: with two jobs one can wait
in a list while the other runs, one can need the place of the other, and the history of
one overflows; both are active at once after a crash, a creation and a recovery. A clock up to 1
lets a job be scheduled for now and later, be late, run again and be cleaned up after it ended. Two threads and three generations let an identifier be
begun again during a commit, and again during the commit of that one. Three operations
are the fewest for which the order of a rollback matters in the middle. With room for
one task the second one needs the first to be archived, within one method. There the clock
stands still and tasks time out by `timeout_task`; with `MCFailingHook` it moves, and the timeout
of 0 makes a task overdue after one tick of `check_timeouts`. With one task its end can be announced and its write
fail, twice, so that a failure, a recovery at work and another end of the same task come together. Two steps are the fewest of which one can use
up what the other needs, and with one retry the loop both retries and gives up; the second
session is opened while the first one is open, late or answered. One
call of `execute_plan` per identifier (`MaximumRuns`) is what the code makes, since the
identifiers are generated. Three sockets are one more than a restart leaves behind; the
limit of attempts is reached. Two questions and two workers let one
worker ask or answer while the other answers; two loops and a call are what a restart of the
listener within one recording leaves. Seven operations give each kind of inverse and a directory
moved back to a place that is taken again. A destination is lost between check and change with one
other operation. Two plugins are the fewest with a dependency. What
goes beyond the bounds is the matter of the proofs.

`CHECK_DEADLOCK FALSE` stands in the runs of the two transaction modules, where the
bounds on begins and on operations let the system come to rest, and in that of the plans,
where the plan has returned and the sessions are used up; the others never
rest, because there is always a crash, a call or an event to come.

Fairness. `FairExecutionSpec`: a poller that has a list goes on with it, because the walk
is a for statement and plans end (`WF` of one poller's step, whatever its outcome). No
fairness is put on polling, since nothing in the repository calls
`execute_ready_scheduled_jobs` periodically, nor on users, the clock or recovery.
`FairManagerSpec`: a commit that has begun goes on, for the same reason; nobody has to
commit. `ListedJobsAreExecuted` lets the process end instead, and excepts a list with a
job that cannot be converted. `FairTaskSpec`: a method that has the lock runs to its end, because
the hook and the listeners return; nobody has to call one. `FairPlanSpec`: the thread of a plan
goes on, because the dispatcher of actions and the managers return; users need not
answer. `FairConnectionSpec`: the browser fires a pending timer and reports what becomes of
a socket that is connecting, failing or closing; an open one may stay open. `FairVoiceSpec`:
the threads run, and listening ends after its timeout whether anything is heard or
not. `PluginIntegration` has no liveness property: a hook of a plugin may never settle.

### What the code does otherwise than it says

1. A recurring job cancelled while its plan runs is scheduled again when
   `cleanup_history` is off (`MCCancelWhileRunning`): the end of a plan looks at the
   trigger, not at the status.
2. A job disabled, paused or cancelled after the poll is executed all the same
   (`MCStaleReadyList`): the engine drops the answer of `start_job_execution`.
3. Two pollers execute a job twice (`MCTwoPollers`): a job that is RUNNING can be
   started, though the method's text says READY or SCHEDULED.
4. A transaction that has executed operations can be ABORTED (`MCAbortDuringCommit`).
5. The rollback of a CREATE_DIRECTORY that found its directory in place removes it with
   everything in it (`MCRollbackExistingDirectory`).
6. The policy RENAME replaces the destination it is to keep (`MCRenamePolicy`), and the policy
   DENY one that came to be after the check, under the lock of another class (`MCThreeLocks`).
7. The monitor's statistics and the end of a task or of an execution take the locks of
   monitor and manager in opposite orders, and two threads that do both wait for one
   another for ever (`MCExecutionMonitoring`).
8. The loop of retries tests the count of a state object that nobody raises when the
   execution has been removed, and goes on as long as the step fails (`MCPlanExecution` with `RemovalWhileRunning = TRUE`).
   `remove_execution` is called by tests only.
9. A command by voice that comes while a question is pending is told to wait; two that were both
   decided before either asked both ask, one question is lost under the other, and "yes" to
   the first carries out the second (`MCOverwrittenQuestion`). A "yes" and a "no" that take up the
   same action carry it out and report it as cancelled (`MCCancelledAction`). `stop` and `start` of the
   listener within one recording leave two such workers, the listener and the voice
   route are two from the start.
10. `start` after `stop`, before the old socket has reported its close, leaves two sockets
    open (`MCRestartedConnection`): the close of the old one starts a timer for the new
    client. React's StrictMode mounts, unmounts and mounts in this way in development.
11. An integration is reported READY although the plugin is not active: one without a
    capability whose state allowed neither initialisation nor activation, or one for which
    an old promise answers (`MCReadyPlugin`).
12. `unload` disposes of a plugin whose activation hook is under way, which is READY
    afterwards without its module (`MCSharedPlugin`).
13. Retention cleanup deletes the record of an active job that was created under the identifier
    of an ended one (`MCReusedIdentifier`): it deletes by identifier, and `create_job` takes an
    explicit one that is in the history.
14. A cancelled execution is set RUNNING again by a session opened for it later
    (`MCRevivedExecution`): `create_session` puts WAITING_FOR_CONFIRMATION over CANCELLED, and
    `resume_execution` looks for that.
15. Listeners hear TASK_ARCHIVED before the end of the task is written; a crash in between
    brings the task back (`MCArchivedBeforeWritten`).
16. What the persistence hook of the tasks fails to write is announced all the same, and a recovery
    of a manager at work puts old records over newer ones; `WrittenThrough` and `AnnouncedIsFinal`
    except exactly these (`lost`, `overtaken`), and `MCFailingHook` has both.

These configurations are the shortest instances in which that happens. Everywhere else
the models keep to what the code does: `MCScheduledExecution` has the stale list,
`MCTransactionManager` has the abort during a commit, `MCConnection` the hurried restart,
`MCFileTransactions` the window between check and change, `MCVoiceControl` workers at the same time.

## 4. What TLAPS proves

| Theorem | For all constants that meet the module's assumption, and |
|---|---|
| `TypeCorrect`, `CapacityCorrect` | |
| `DurableCorrect` | `DurableSettings`: writes succeed, recovery only into an empty memory, and no identifier is used twice |
| `NoResurrectionCorrect` | `EndingSettings`: writes succeed and `cleanup_history` is on |
| `ExecutionTypeCorrect`, `ExecutionImplementsScheduler` | |
| `NoResurrectionWhileExecuting` | `EndingSettings` |
| `RunningIsExecutedCorrect` | writes succeed |
| `RunsOncePerScheduleCorrect` | `OnceSettings`: one poller, recovery only into an empty memory, and no identifier is used twice |
| `ManagerTypeCorrect`, `StatusTellsEffectsCorrect`, `OneCommitCorrect` | |
| `FilesImplementManager`, `StatusTellsEffectsOnFiles` | |
| `FilesTypeCorrect`, `RollbackRestoresCorrect` | |
| `TaskTypeCorrect`, `WrittenThroughCorrect`, `AnnouncedIsFinalCorrect`, `FullOnlyByRecoveryCorrect` | |
| `FollowsLifeCycleCorrect` | in behaviours in which no write fails and no recovery restores an old record (`Undisturbed`) |
| `PluginTypeCorrect`, `FailedLeavesNothingCorrect`, `ReadyIsWholeCorrect` | |
| `ConnectionTypeCorrect`, `StoppedStaysClosedCorrect` | |
| `VoiceTypeCorrect`, `OnlyConfirmedIsDoneCorrect` | |
| `PlanTypeCorrect`, `NoFailedStepIsPassedCorrect`, `NoneLeftRunningCorrect`, `TaskEndsWithPlanCorrect`, `TaskTellsOutcomeCorrect` | |
| `RetriesWithinLimitCorrect` | no execution is removed while it runs |

The arguments:

- *Scheduler.* `Durable` alone is not inductive: retention cleanup deletes a persisted
  record by identifier, and a recovery loads the store into memory. `DurableInv` adds
  that no job is in the history and in memory at once (`HistoryIsInactive`), that what
  bears an identifier was created under it (`OnlyCreated`), and that the memory of a
  process that is down is empty (`DownIsEmpty`). `NoResurrection` is a property of steps;
  `EndingInv` says that no job in memory is finished (`ActiveIsUnfinished`), that a job
  with a terminal record in one of the three places a record can be in is neither live in
  memory nor in the store (`EndedIsNotAlive`), from where a recovery could bring it
  back, and that creations are numbered in order (`CreatedInOrder`). The actions are of
  few kinds (`Amend`, `Archive`, a creation, recovery, cleanup), and a lemma treats each
  kind once.
- *Composition.* Every step of the pollers is a step of the scheduler or leaves it
  alone (`StepIsSchedulerStep`), so the composition implements the scheduler and its
  theorems carry over.
- *Transactions.* `CommitInv` adds three facts to the properties: the table holds the
  latest generation of an identifier and nothing was executed for a later one
  (`LatestGeneration`); a commit has executed the first of its operations, one for each
  result (`ExecutedByCommit`); and the object of a commit, when the table still holds it,
  is COMMITTING or ABORTED and has the operations the commit began with (`HeldObject`).
  The last one is why the end of a commit tells the truth of the transaction whose
  status it sets.
- *Files.* Every outcome of an operation has one of the statuses the manager knows
  (`OutcomeStatus`), and every step on files maps to a step of the manager or to
  none. `FilesTypeOK` says that the tree is one, every entry having its directory: it
  rests on the order of paths by prefix and on what `Put`, `Erase` and `Transplant` do
  to a tree (`PutIsTree`, `TransplantIsTree`), then on each change, on whatever tree it is made,
  each inverse and each failure half-way (`InterruptedIsTree`).
- *Rollback.* `RollbackRestores` speaks of the end of a rollback; `RollbackInv` says of each
  moment before it that there is a way back. While a commit runs, and as long as its
  report is held, a chain of trees leads from the tree it found to the present one, every
  completed operation with an inverse that undoes its link and every other one leaving the tree
  (`Chain`); once the plan is made, performing the rest of it leads back (`Leads`).
  What the check of the next operation or inverse has seen is still so when it acts, unless
  somebody else changed the tree (`SeenIsStillSo`).
  `InverseRestores` is the fact about the operations, one case for each type: after a clean
  operation its inverse gives the tree back. `PlanReverts` is the fact about the plan: it undoes
  the last operation first. Where such a fact needs induction on a length, the proof takes the
  least length for which it fails (`LeastElement`, from the library's `WFMin`), which
  stands in for the induction theorems that the provers cannot instantiate.
- *Execution.* `RunningInv` adds to `RunningIsExecuted` the same for the store, from where a
  recovery takes the status. `OnceInv`: the jobs of a list are different ones and still to be
  executed (`ListIsFresh`), a plan that was executed is of a job that has ended or is being executed
  (`PlanIsDue`), and a process that is down has executed nothing. With two pollers
  `RunsOncePerSchedule` is false (`MCTwoPollers`), so `OnceSettings` has one.
  `RoomForOne` is the argument for the capacity: a creation makes room first, and
  what it archives are other jobs.
- *Tasks.* `TaskInv` describes what a method that was interrupted has left to do: a
  write comes first, an announcement first or right after the write of its end, a creation that
  waits for room last (`StepsInOrder`), each can be taken when its turn comes
  (`StepsAreReady`), and no task is archived twice (`CallsAreDistinct`). What memory and history
  hold is in the store, or about to be, or its write has failed (`ActiveIsStored`,
  `HistoryIsStored`); each of these excepts the tasks in `overtaken`, and what depends on how
  the record came to be, the arrow of the next write, is claimed only of a task that neither a
  failing write nor an old record concerned (`Trusted`). `ToldIsFinal` ties what listeners heard of ends to the
  store. Under `Undisturbed` every task is trusted, and then a write is an arrow of
  `LifeCycle` and every other step stutters.
- *Connection.* `StopInv` adds to `StoppedStaysClosed` what a start finds: without a hurried
  restart the socket in use is the only one that is not closing or free, and it is free
  when a timer is pending, so a timer never opens a second one.
- *Voice.* `VoiceInv` says that the questions are asked in order and the pending action is the one its
  question was about (`InOrder`), and that what a worker holds was asked and, if the worker was told
  "yes", is confirmed (`HeldIsAsked`), which the worker that takes the action up makes true itself, whatever the
  others do. `Room` says that the bound on the questions is never in the way of one that was heard.
- *Plans.* `PlanInv` is a conjunction per execution. `StepInv`: a failed step stays known as
  failed as long as the walk is at it, and a walk that goes to the next step, or succeeds,
  has none. `CountInv`: each step adds at most two to the count beyond the
  retries, one after a wait and one before the older recovery engine, so the
  count stays within a bound for any number of steps. `RetryInv`: without removals the count the loop
  reads is the one it adds to. `TaskInv` and `StatusInv` say what the task and the
  status are at each place of the end. Each kind of step has a lemma, and `OneOfThem` reduces
  a step to the one execution it is about.
- *Plugins.* `PluginInv` says of each plugin that one caller handles it at a time
  (`OneHandler`), that an operation under way is the one this caller awaits, or the deactivation
  its dispose waits for (`OperationsAreAwaited`), what the plugin has at each place of the
  integration (`HoldsModule`, `HasWithdrawn`), and that a report is the last word until
  somebody handles the plugin again (`ReportIsLast`); all of this for runs in which callers keep off
  each other's plugins (`alone`). That an active plugin has an active sandbox holds in all runs. A
  step is about one plugin (`Touches`) and leaves what holds of the others.

Every safety invariant and every action property of the passing runs is the subject of a theorem;
`PluginTypeOK` is proved and in no run.

Only model-checked are the liveness properties `ListedJobsAreExecuted`, `CommitsEnd`,
`PlansReturn`, `KeepsTrying`, `AnsweredIsNotPending`, `StoppedListenersEnd` and `EveryListenerIsTold`,
which rest on fairness and ENABLED and are out of the prover's reach, and the runs and the further
configurations that end in a violation.

Assumptions on constants that a theorem makes beyond its module's are named above. Without them the
properties fail: `MCCancelWhileRunning` is what `EndingSettings` excludes, `MCTwoPollers` what
`OnceSettings`, `RemovalWhileRunning = TRUE` what the limit of retries;
and in `MCScheduledExecution.cfg` TLC refutes `RunsOncePerSchedule` when `RecoverWhileRunning` is TRUE (the
recovered record is scheduled although its plan runs) or `MaxCreates` is 2, and `RunningIsExecuted` when
`PersistenceFails` is TRUE. The code justifies them so far: a failing write is logged and not expected;
identifiers are generated, unless a caller gives its own; nothing outside of the tests polls or
recovers at all, so that one poller and one recovery at the start are the least a user of these
methods would begin with.

## 5. What is not modelled

Within the modelled parts: calendar arithmetic and validation of triggers; `set_executor`
of the transaction manager, nested transactions (the parent is recorded and never
read) and an executor whose exception has no message (`commit` would report COMMITTED);
`rollback_operation`; `rename_directory`, which no transaction reaches, because the
dispatch takes its type for an unknown one and reports COMPLETED; symbolic links,
permissions and other platforms than POSIX, except as failures. A failing persistence
hook is in the model (`PersistenceFails`) but in no run: with it neither `Durable` nor
`NoResurrection` holds, the code promises neither, and the runs on two jobs grow by more
than an order of magnitude. `TypeCorrect`, `ExecutionTypeCorrect` and
`ExecutionImplementsScheduler` are proved with failing writes and explicit identifiers
that are used again. Of the task manager: progress, metadata
but for the timeout, and the events that are neither ends nor archivings. Of the file operations:
other threads between the library calls of one change. Of
the engine: messages, progress, snapshots, the flag that a step waits, and what is
written to the monitor. Of the monitor everything but its locks. Of the client the
messages. Of the voice commands what is spoken, recorded and recognised, and actions that
need no confirmation, those of `POST /command` and `/assistant` among them. Of the plugin runtime the bulk operations of the life cycle manager
and everything that decides whether a plugin may be integrated.

Of the parts in the table of section 1 the following are not modelled yet (section 6): the
assistant core, the permission manager, the rate limiter, the application runtime and the alerting.
The brain's own confirmations and the event bus are small sequential objects without
callers that could get in between. The second execution runtime (execution provider,
workflow, automation and orchestrator) is to be surveyed. The last row of the table is not to be modelled:
heuristics on text, wrappers of devices, of the operating system and of external services, and
user interface, which make up most of the repository's lines and have no ordering of their
own to check.

## 6. Plan

Modules, the most important behaviour first. Each has its MC module, a type invariant,
the properties named and, unless it says TLC, a proof module.

1. `BackgroundJobScheduler`, `ScheduledExecution`, `TransactionManager`, `FileTree`,
   `FileTransactions` - done.
2. `LongRunningTaskManager` with `TaskEvents`, and `LifeCycle`, which it implements - done.
3. `PlanExecution` on `ClarificationSessions` and `ExecutionStates`; `ExecutionMonitoring` - done.
4. `Connection`, `VoiceControl` and `PluginIntegration` - done.
5. `ScheduleCalculator`: the next run of each trigger as a function, against the
   definition "the earliest moment after the reference that matches" (TLC over bounded
   calendars), and the theorem that it is later than the reference.
6. `RateLimiter`, `AlertDeduplicator`, `PermissionCache`: bounds and time.
7. `AssistantFallback`: the two pipelines and what is done twice.
8. The provider's context manager and direct rename, on `FileTransactions`.

The transaction manager and its files share one proof module, and the other components have
one each; their number is kept small. Theorems to add to the present modules: that
the scheduler implements `LifeCycle` under `EndingSettings`; that a listener of
`TaskEvents` hears of one end of a task at most, also after the record was deleted.
