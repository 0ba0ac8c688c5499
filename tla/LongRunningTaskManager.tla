------------------------ MODULE LongRunningTaskManager ------------------------
(***************************************************************************)
(* The manager of long-running tasks with its persistence hook and its     *)
(* event dispatcher.  A method holds one re-entrant lock while it changes  *)
(* the memory, calls the hook and calls the listeners, and the process may *)
(* end between any two of these.  The thread that holds the lock has in    *)
(* todo what is left of its method; nobody else gets in until it is empty. *)
(* A call of the hook that fails is logged and forgotten: the method goes  *)
(* on, with what it had in memory unwritten.                               *)
(***************************************************************************)
EXTENDS TaskEvents, FiniteSets

CONSTANTS
  TaskIds,                 \* generated identifiers, each of them used once
  NoTask,                  \* the absence of a record
  Erased,                  \* the absence of a record that was deleted
  MaximumTasks,            \* config.maximum_tasks
  MaximumHistory,          \* config.maximum_history
  CleanupAfterCompletion,  \* the values config.cleanup_after_completion may have
  Timeouts,                \* config.default_timeout and the timeouts tasks have of their
                           \* own, in whole ticks: 0 for less than one
  RetentionTime,           \* retention_seconds, in whole ticks
  Endings,                 \* the ends callers report; all are treated alike
  HookFailures,            \* bound on the writes (of a task with a status) that fail:
                           \* with 0 the hook never raises
  RecoversAtWork,          \* whether recover_tasks is also called in a manager at work
  LastMoment               \* bound on the clock

Finals   == {"COMPLETED", "FAILED", "CANCELLED", "TIMED_OUT"}
TaskStatuses == {"PENDING", "QUEUED", "RUNNING", "PAUSED"} \cup Finals
Moments  == 0 .. LastMoment

\* ended is completed_at, and means nothing while the task has not ended.
Task == [status : TaskStatuses, created : Moments, ended : Moments]

HistoryEntry == [id : TaskIds, task : Task]

\* A step of a method: to write or delete a record, to announce an end, or a call
\* of another method of the manager, made under the same lock.
Effect == [op : {"write", "delete", "announce", "archive", "timeout", "expire", "create"},
           id : TaskIds \cup {NoTask}, task : Task \cup {NoTask}]

ASSUME TaskAssumption ==
  /\ MaximumTasks \in Nat \ {0}
  /\ MaximumHistory \in Nat \ {0}
  /\ Timeouts \subseteq Nat
  /\ RetentionTime \in Nat
  /\ LastMoment \in Nat
  /\ Endings \subseteq Finals
  /\ CleanupAfterCompletion \subseteq BOOLEAN
  /\ HookFailures \in Nat /\ RecoversAtWork \in BOOLEAN
  /\ IsFiniteSet(TaskIds)
  /\ NoTask \notin Task \cup TaskIds
  /\ Erased \notin Task \cup {NoTask}
  /\ Events = [id : TaskIds, status : Finals \cup {"ARCHIVED"}]

VARIABLES
  activeTasks,     \* _active_tasks
  completedTasks,  \* _completed_tasks, oldest first
  stored,          \* what the persistence hook holds
  todo,            \* what the thread that holds the lock has still to do
  loaded,          \* what recover_tasks has loaded and not yet restored
  clock,
  cleans,          \* config.cleanup_after_completion of this process
  createdIds,      \* history: the identifiers generated so far
  lost,            \* history: the writes that failed
  overtaken        \* history: the tasks recover_tasks restored from a record that
                   \* was not, or no longer, the one in memory or in the store

memory   == <<activeTasks, completedTasks>>
history  == <<createdIds, lost, overtaken>>
taskVars == <<activeTasks, completedTasks, stored, todo, loaded, clock, cleans, history, eventVars>>

NothingLoaded == [t \in TaskIds |-> NoTask]

TaskTypeOK ==
  /\ activeTasks \in [TaskIds -> Task \cup {NoTask}]
  /\ completedTasks \in Seq(HistoryEntry)
  /\ Len(completedTasks) <= MaximumHistory
  /\ stored \in [TaskIds -> Task \cup {NoTask, Erased}]
  /\ todo \in Seq(Effect)
  /\ loaded \in [TaskIds -> Task \cup {NoTask}]
  /\ clock \in Moments
  /\ createdIds \subseteq TaskIds
  /\ lost \subseteq [id : TaskIds, status : TaskStatuses]
  /\ overtaken \subseteq TaskIds
  /\ cleans \in CleanupAfterCompletion
  /\ EventsTypeOK

-----------------------------------------------------------------------------
IsFinished(task) == task.status \in Finals
IsActive(t)      == activeTasks[t] # NoTask
IsLive(t)        == IsActive(t) /\ ~IsFinished(activeTasks[t])
ActiveIds        == {t \in TaskIds : IsActive(t)}

\* Nobody holds the lock.
LockFree == todo = << >> /\ delivery = NoDelivery

Step(op, t, task) == [op |-> op, id |-> t, task |-> task]

\* The dictionary's order is left open.
Calls(op, ids) == {[i \in DOMAIN s |-> Step(op, s[i], NoTask)] : s \in SetToSeqs(ids)}

\* Wrong on purpose (TaskTypeOK): a deque without a bound.
LatestAll(s) == s

\* deque(maxlen): appending to a full deque drops its oldest entries, silently.
Latest(s) ==
  IF Len(s) > MaximumHistory
  THEN SubSeq(s, Len(s) - MaximumHistory + 1, Len(s))
  ELSE s

\* An entry the history already holds is not appended again.
HistoryWith(t, task) ==
  LET entry == [id |-> t, task |-> task]
  IN  IF entry \in Range(completedTasks) THEN completedTasks
      ELSE Latest(Append(completedTasks, entry))

\* _archive_task_locked.  The listeners are called under the lock of the manager, so
\* the snapshot of them is taken here.
ArchiveTask(t, task) ==
  /\ activeTasks' = [activeTasks EXCEPT ![t] = NoTask]
  /\ completedTasks' = HistoryWith(t, task)
  /\ IF [id |-> t, task |-> task] \in Range(completedTasks)
     THEN UNCHANGED eventVars
     ELSE Dispatch([id |-> t, status |-> "ARCHIVED"])

\* Wrong on purpose (WrittenThrough): the change is not persisted.
ChangeUnwritten(t, status) ==
  /\ activeTasks' = [activeTasks EXCEPT ![t].status = status]
  /\ UNCHANGED <<completedTasks, stored, todo, loaded, clock, cleans, history, eventVars>>

\* A method changes the record of t in memory and persists it.
ChangeStatus(t, status) ==
  LET task == [activeTasks[t] EXCEPT !.status = status]
  IN  /\ activeTasks' = [activeTasks EXCEPT ![t] = task]
      /\ todo' = <<Step("write", t, task)>>
      /\ UNCHANGED <<completedTasks, stored, loaded, clock, cleans, history, eventVars>>

\* Wrong on purpose (AnnouncedIsFinal): the end is announced before it is written.
AnnounceFirst(t, task) == <<Step("announce", t, task), Step("write", t, task)>>

\* What an end leaves to be done: it is written and then announced.  The announcement
\* that it was archived, if it was, precedes both.
Ending(t, task) == <<Step("write", t, task), Step("announce", t, task)>>

\* The end of t in memory, at the front of what is left to be done.
EndInMemory(t, status, rest) ==
  LET task == [activeTasks[t] EXCEPT !.status = status, !.ended = clock]
  IN  /\ IF cleans
         THEN ArchiveTask(t, task)
         ELSE /\ activeTasks' = [activeTasks EXCEPT ![t] = task]
              /\ UNCHANGED <<completedTasks, eventVars>>
      /\ todo' = Ending(t, task) \o rest
      /\ UNCHANGED <<stored, loaded, clock, cleans, history>>

-----------------------------------------------------------------------------
(* The methods, as far as they go before they write                          *)

\* Wrong on purpose (FullOnlyByRecovery): room for one task too many.
HasRoomForMore == Cardinality(ActiveIds) <= MaximumTasks

HasRoomFor == Cardinality(ActiveIds) < MaximumTasks

CreateNow(t, rest) ==
  LET task == [status |-> "PENDING", created |-> clock, ended |-> clock]
  IN  /\ activeTasks' = [activeTasks EXCEPT ![t] = task]
      /\ createdIds' = createdIds \cup {t}
      /\ todo' = <<Step("write", t, task)>> \o rest
      /\ UNCHANGED <<completedTasks, stored, loaded, clock, cleans, lost, overtaken, eventVars>>

CreateTask(t) ==
  /\ LockFree
  /\ t \notin createdIds
  /\ \/ HasRoomFor /\ CreateNow(t, << >>)
     \/ /\ ~HasRoomFor
        /\ \E calls \in Calls("archive", {u \in ActiveIds : ~IsLive(u)}) :
             todo' = Append(calls, Step("create", t, NoTask))
        /\ UNCHANGED <<memory, stored, loaded, clock, cleans, history, eventVars>>

QueueTask(t) ==
  /\ LockFree
  /\ IsActive(t) /\ activeTasks[t].status = "PENDING"
  /\ ChangeStatus(t, "QUEUED")

StartTask(t) ==
  /\ LockFree
  /\ IsActive(t) /\ activeTasks[t].status \in {"PENDING", "QUEUED", "PAUSED"}
  /\ ChangeStatus(t, "RUNNING")

PauseTask(t) ==
  /\ LockFree
  /\ IsActive(t) /\ activeTasks[t].status = "RUNNING"
  /\ ChangeStatus(t, "PAUSED")

ResumeTask(t) ==
  /\ LockFree
  /\ IsActive(t) /\ activeTasks[t].status = "PAUSED"
  /\ ChangeStatus(t, "RUNNING")

\* The record is persisted with its new progress, which is not modelled.
UpdateProgress(t) ==
  /\ LockFree
  /\ IsLive(t)
  /\ ChangeStatus(t, activeTasks[t].status)

\* Wrong on purpose (FollowsLifeCycle): a task that timed out completes after all.
EndTaskAgain(t, status) ==
  /\ LockFree
  /\ IsActive(t)
  /\ EndInMemory(t, status, << >>)

\* cancel_task, complete_task, fail_task and timeout_task.
EndTask(t, status) ==
  /\ LockFree
  /\ IsLive(t)
  /\ EndInMemory(t, status, << >>)

\* A timeout in the metadata of a task goes before the default.  The check reads the
\* clock before it takes the lock; here it does both at once.
Overdue(timeout) == {t \in TaskIds : IsLive(t) /\ clock - activeTasks[t].created > timeout[t]}

CheckTimeouts ==
  /\ LockFree
  /\ \E timeout \in [TaskIds -> Timeouts] :
       /\ Overdue(timeout) # {}
       /\ \E calls \in Calls("timeout", Overdue(timeout)) : todo' = calls
  /\ UNCHANGED <<memory, stored, loaded, clock, cleans, history, eventVars>>

CleanupTasks ==
  /\ LockFree
  /\ \E t \in ActiveIds : ~IsLive(t)
  /\ \E calls \in Calls("archive", {u \in ActiveIds : ~IsLive(u)}) : todo' = calls
  /\ UNCHANGED <<memory, stored, loaded, clock, cleans, history, eventVars>>

CleanupExpiredTasks ==
  /\ LockFree
  /\ \E calls \in Calls("archive", {u \in ActiveIds : ~IsLive(u)}) :
       todo' = Append(calls, Step("expire", NoTask, NoTask))
  /\ UNCHANGED <<memory, stored, loaded, clock, cleans, history, eventVars>>

\* clear empties the memory and leaves the store alone.
ClearTasks ==
  /\ LockFree
  /\ activeTasks' = NothingLoaded
  /\ completedTasks' = << >>
  /\ UNCHANGED <<stored, todo, loaded, clock, cleans, history, eventVars>>

\* recover_tasks loads before it takes the lock.  Nothing in it keeps callers from
\* recovering a manager at work; RecoversAtWork = FALSE keeps them to one that starts.
\* A load that fails restores nothing.
LoadTasks ==
  /\ RecoversAtWork \/ (LockFree /\ ActiveIds = {} /\ completedTasks = << >>)
  /\ loaded = NothingLoaded
  /\ loaded' = [t \in TaskIds |-> IF stored[t] \in Task THEN stored[t] ELSE NoTask]
  /\ loaded' # loaded
  /\ UNCHANGED <<memory, stored, todo, clock, cleans, history, eventVars>>

\* The loaded records that are not what the store holds now or not what memory knows.
StaleLoads ==
  {t \in TaskIds : /\ loaded[t] # NoTask
                   /\ \/ stored[t] # loaded[t]
                      \/ activeTasks[t] \notin {NoTask, loaded[t]}
                      \/ \E e \in Range(completedTasks) : e.id = t /\ e.task # loaded[t]}

\* Then it restores under the lock, whatever has happened in between.
RestoreTasks ==
  /\ LockFree
  /\ loaded # NothingLoaded
  /\ activeTasks' = [t \in TaskIds |-> IF loaded[t] # NoTask /\ ~IsFinished(loaded[t])
                                       THEN loaded[t] ELSE activeTasks[t]]
  /\ \E entries \in SetToSeqs({e \in HistoryEntry \ Range(completedTasks) :
                                 loaded[e.id] = e.task /\ IsFinished(e.task)}) :
       completedTasks' = Latest(completedTasks \o entries)
  /\ loaded' = NothingLoaded
  /\ overtaken' = overtaken \cup StaleLoads
  /\ UNCHANGED <<stored, todo, clock, cleans, createdIds, lost, eventVars>>

-----------------------------------------------------------------------------
(* What is left of a method, step by step                                    *)

NextStep == Head(todo)
Next_is(op) == todo # << >> /\ delivery = NoDelivery /\ NextStep.op = op

Stores(t, value) == stored' = [stored EXCEPT ![t] = value]

\* _safe_save_task and _safe_update_task
Write ==
  /\ Next_is("write")
  /\ \/ /\ Stores(NextStep.id, NextStep.task)
        /\ UNCHANGED lost
     \/ /\ Cardinality(lost) < HookFailures
        /\ lost' = lost \cup {[id |-> NextStep.id, status |-> NextStep.task.status]}
        /\ UNCHANGED stored
  /\ todo' = Tail(todo)
  /\ UNCHANGED <<memory, loaded, clock, cleans, createdIds, overtaken, eventVars>>

\* _safe_delete_task
DeleteRecord ==
  /\ Next_is("delete")
  /\ Stores(NextStep.id, Erased) \/ (HookFailures > 0 /\ UNCHANGED stored)
  /\ todo' = Tail(todo)
  /\ UNCHANGED <<memory, loaded, clock, cleans, history, eventVars>>

Announce ==
  /\ Next_is("announce")
  /\ Dispatch([id |-> NextStep.id, status |-> NextStep.task.status])
  /\ todo' = Tail(todo)
  /\ UNCHANGED <<memory, stored, loaded, clock, cleans, history>>

\* All listeners of the snapshot have been called.
EndDelivery ==
  /\ delivery # NoDelivery /\ delivery.rest = << >>
  /\ delivery' = NoDelivery
  /\ UNCHANGED <<memory, stored, todo, loaded, clock, cleans, history, listeners, heard>>

CallArchive ==
  /\ Next_is("archive")
  /\ ArchiveTask(NextStep.id, activeTasks[NextStep.id])
  /\ todo' = Tail(todo)
  /\ UNCHANGED <<stored, loaded, clock, cleans, history>>

CallTimeout ==
  /\ Next_is("timeout")
  /\ EndInMemory(NextStep.id, "TIMED_OUT", Tail(todo))

CallCreate ==
  /\ Next_is("create")
  /\ \/ HasRoomFor /\ CreateNow(NextStep.id, Tail(todo))
     \/ /\ ~HasRoomFor
        /\ todo' = Tail(todo)
        /\ UNCHANGED <<memory, stored, loaded, clock, cleans, history, eventVars>>

\* The sequence (in a singleton) of the elements of s at the positions in keep.
Restrictions(s, keep) ==
  LET n == Cardinality(keep)
      increasing == {f \in [1 .. n -> keep] : \A a, b \in 1 .. n : a < b => f[a] < f[b]}
  IN  {[i \in 1 .. n |-> s[f[i]]] : f \in increasing}

\* The positions of the entries kept for longer than retention_seconds.
OutOfDate == {i \in DOMAIN completedTasks : clock - completedTasks[i].task.ended > RetentionTime}

\* The loop over entries beyond maximum_history never runs, since the deque is
\* bounded already; what is left is the retention.
CallExpire ==
  /\ Next_is("expire")
  /\ completedTasks' \in Restrictions(completedTasks, DOMAIN completedTasks \ OutOfDate)
  /\ \E old \in Restrictions(completedTasks, OutOfDate) :
       todo' = [i \in DOMAIN old |-> Step("delete", old[i].id, NoTask)] \o Tail(todo)
  /\ UNCHANGED <<activeTasks, stored, loaded, clock, cleans, history, eventVars>>

-----------------------------------------------------------------------------
(* The surroundings                                                          *)

Passing ==
  /\ clock < LastMoment
  /\ clock' = clock + 1
  /\ UNCHANGED <<memory, stored, todo, loaded, cleans, history, eventVars>>

\* The process ends, at any step of a method, and another one starts.
CrashAndRestart ==
  /\ activeTasks' = NothingLoaded
  /\ completedTasks' = << >>
  /\ todo' = << >>
  /\ loaded' = NothingLoaded
  /\ cleans' \in CleanupAfterCompletion
  /\ LoseListeners
  /\ UNCHANGED <<stored, clock, history>>

Listening ==
  /\ \/ \E l \in Listeners : RegisterListener(l) \/ RemoveListener(l)
     \/ ClearListeners
  /\ UNCHANGED <<memory, stored, todo, loaded, clock, cleans, history>>

Call ==
  \/ \E t \in TaskIds : \/ CreateTask(t) \/ QueueTask(t) \/ StartTask(t)
                        \/ PauseTask(t) \/ ResumeTask(t) \/ UpdateProgress(t)
                        \/ \E status \in Endings : EndTask(t, status)
  \/ CheckTimeouts \/ CleanupTasks \/ CleanupExpiredTasks \/ ClearTasks
  \/ RestoreTasks

\* The thread that holds the lock goes on.
Continue ==
  \/ Write \/ DeleteRecord \/ Announce \/ EndDelivery
  \/ CallArchive \/ CallTimeout \/ CallCreate \/ CallExpire
  \/ Deliver /\ UNCHANGED <<memory, stored, todo, loaded, clock, cleans, history>>

TaskInit ==
  /\ activeTasks = NothingLoaded
  /\ completedTasks = << >>
  /\ stored = NothingLoaded
  /\ todo = << >>
  /\ loaded = NothingLoaded
  /\ clock = 0
  /\ createdIds = {}
  /\ lost = {}
  /\ overtaken = {}
  /\ cleans \in CleanupAfterCompletion
  /\ EventsInit

TaskNext == Call \/ Continue \/ LoadTasks \/ Listening \/ Passing \/ CrashAndRestart

TaskSpec == TaskInit /\ [][TaskNext]_taskVars

\* A method that has the lock runs to its end: the hook and the listeners return.
\* Nobody has to call anything.
FairTaskSpec == TaskSpec /\ WF_taskVars(Continue)

-----------------------------------------------------------------------------
(* Properties                                                                *)

\* Between two methods the store holds the record of every active task as it is
\* in memory, so that a restart at that moment loses nothing; except where the hook
\* failed to write this very status, or a recovery at work put an old record back.
WrittenThrough ==
  LockFree => \A t \in ActiveIds \ overtaken :
                \/ stored[t] = activeTasks[t]
                \/ [id |-> t, status |-> activeTasks[t].status] \in lost

\* An end a listener was told of is final, across crashes, retries and recoveries:
\* whoever holds a record of the task afterwards holds that end.  It may be taken
\* back if the hook failed to write it, or if a recovery at work put an old record back.
AnnouncedIsFinal ==
  \A l \in Listeners : \A e \in heard[l] :
    e.status \in Finals /\ e \notin lost /\ e.id \notin overtaken =>
      /\ stored[e.id] # Erased => stored[e.id] # NoTask /\ stored[e.id].status = e.status
      /\ IsActive(e.id) => activeTasks[e.id].status = e.status

\* Refuted (MCArchivedBeforeWritten.cfg): a task that listeners were told is archived
\* is not active again.  It is archived before its end is written, so a crash between
\* the two, and the recovery after it, bring it back.
ArchivedIsFinal ==
  \A l \in Listeners : \A e \in heard[l] :
    e.status = "ARCHIVED" /\ e.id \notin overtaken => ~IsLive(e.id)

\* Only a recovery makes the memory hold more tasks than the maximum, though the
\* room is looked at, made and looked at again in separate steps.
FullOnlyByRecovery ==
  [][Cardinality(ActiveIds') > Cardinality(ActiveIds) /\ Cardinality(ActiveIds') > MaximumTasks
       => loaded # NothingLoaded]_taskVars

\* The arrows of LongRunningTaskStatus, with NEW before the creation and GONE
\* after the record was deleted.
TaskArrows ==
  {<<"NEW", "PENDING">>, <<"PENDING", "QUEUED">>, <<"RUNNING", "PAUSED">>} \cup
  {<<s, "RUNNING">> : s \in {"PENDING", "QUEUED", "PAUSED"}} \cup
  ({"PENDING", "QUEUED", "RUNNING", "PAUSED"} \X Finals) \cup
  {<<s, "GONE">> : s \in Finals}

StoredStatus(t) ==
  CASE stored[t] = NoTask -> "NEW"
    [] stored[t] = Erased -> "GONE"
    [] OTHER -> stored[t].status

Life == INSTANCE LifeCycle WITH
          Things <- TaskIds, Initial <- "NEW", Arrows <- TaskArrows,
          status <- [t \in TaskIds |-> StoredStatus(t)]

\* The records in the store follow the life cycle of a task, whatever becomes of
\* the process and of the memory in front of the store.
FollowsLifeCycle == Life!LifeSpec

\* Every listener that stays registered is told the end of every task whose end is
\* written, also when a listener before it raises or is removed meanwhile.
EveryListenerIsTold ==
  \A t \in TaskIds, l \in Listeners :
    (/\ \E i \in DOMAIN todo : todo[i].op = "announce" /\ todo[i].id = t
     /\ l \in Range(listeners))
      ~> ((\E e \in heard[l] : e.id = t /\ e.status \in Finals) \/ l \notin Range(listeners))
=============================================================================
