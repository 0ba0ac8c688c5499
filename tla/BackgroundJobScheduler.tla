------------------------ MODULE BackgroundJobScheduler ------------------------
(***************************************************************************)
(* The background job scheduler of the execution layer, together with the  *)
(* store its persistence hook writes to and the crash of the process that  *)
(* owns it.  Every public method of the scheduler holds one re-entrant     *)
(* lock from its first read to its last write, so a method is one action.  *)
(*                                                                         *)
(* A job record keeps the fields the scheduler itself reads.  DAILY,       *)
(* WEEKLY, MONTHLY and INTERVAL triggers differ only in which future       *)
(* moment they pick, so they are one trigger here, RECURRING.              *)
(***************************************************************************)
EXTENDS Naturals, Sequences, FiniteSets, SequencesExt

CONSTANTS
  JobIds,               \* identifiers a job can have
  NoJob,                \* the absence of a job record
  NoRun,                \* next_run = None
  MaximumJobs,          \* config.maximum_jobs
  MaximumHistory,       \* config.maximum_history
  CleanupHistory,       \* config.cleanup_history
  Retention,            \* config.retention_seconds, in ticks
  PersistenceFails,     \* may a call of the persistence hook fail?
  RecoverWhileRunning,  \* may recover_jobs be called with jobs in memory?
  MaxCreates,           \* bound: how often one identifier is created; 1 when
                        \* every identifier is the generated one
  MaxTime               \* bound on the clock

Triggers   == {"ONCE", "MANUAL", "RECURRING"}
OneTime    == {"ONCE", "MANUAL"}
Terminal   == {"COMPLETED", "FAILED", "CANCELLED", "EXPIRED"}
Statuses   == {"SCHEDULED", "READY", "RUNNING", "PAUSED"} \cup Terminal
RunTimes   == 0 .. MaxTime + 1

\* created stands for created_at: it tells two jobs with one identifier apart.
Job == [status : Statuses, trigger : Triggers, enabled : BOOLEAN,
        nextRun : RunTimes \cup {NoRun}, updated : 0 .. MaxTime,
        created : 1 .. MaxCreates]

Entry == [id : JobIds, job : Job]

ASSUME SchedulerAssumption ==
  /\ MaximumJobs \in Nat \ {0}
  /\ MaximumHistory \in Nat \ {0}
  /\ Retention \in Nat \ {0}
  /\ MaxCreates \in Nat \ {0}
  /\ MaxTime \in Nat
  /\ CleanupHistory \in BOOLEAN
  /\ PersistenceFails \in BOOLEAN
  /\ RecoverWhileRunning \in BOOLEAN
  /\ IsFiniteSet(JobIds)
  /\ NoJob \notin Job
  /\ NoRun \notin Nat

VARIABLES
  activeJobs,     \* _active_jobs
  completedJobs,  \* _completed_jobs, oldest first
  persisted,      \* what the persistence hook holds
  up,             \* does the process run?
  now,            \* the clock
  creations       \* history: how often each identifier was created

vars == <<activeJobs, completedJobs, persisted, up, now, creations>>

Records == [JobIds -> Job \cup {NoJob}]

TypeOK ==
  /\ activeJobs \in Records
  /\ completedJobs \in Seq(Entry)
  /\ Len(completedJobs) <= MaximumHistory
  /\ persisted \in Records
  /\ up \in BOOLEAN
  /\ now \in 0 .. MaxTime
  /\ creations \in [JobIds -> 0 .. MaxCreates]

-----------------------------------------------------------------------------
(* Helpers                                                                   *)

Finished(job) == job.status \in Terminal

Known(j)      == activeJobs[j] # NoJob
Unfinished(j) == Known(j) /\ ~Finished(activeJobs[j])
Active        == {j \in JobIds : Known(j)}
FinishedJobs  == [j \in {k \in Active : Finished(activeJobs[k])} |-> activeJobs[j]]

\* The next_run values the calculator may return for a trigger at the time t:
\* any moment for ONCE (run_at may be past), a later one for a recurring job.
NextRuns(trigger, t) ==
  CASE trigger = "MANUAL"    -> {NoRun}
    [] trigger = "ONCE"      -> RunTimes
    [] trigger = "RECURRING" -> {u \in RunTimes : u > t}

\* Wrong on purpose, to show what TypeOK excludes: a deque without a bound.
KeepEverything(s) == s

\* deque(maxlen): appending to a full deque drops its oldest entries.
KeepLatest(s) ==
  IF Len(s) > MaximumHistory
  THEN SubSeq(s, Len(s) - MaximumHistory + 1, Len(s))
  ELSE s

\* The histories that result from archiving the job records in jobs: an entry
\* the deque already holds is not appended again.  The order is that of a
\* dictionary, which is left open.
HistoriesWith(jobs) ==
  LET entries == {[id |-> j, job |-> jobs[j]] : j \in DOMAIN jobs}
  IN  {KeepLatest(completedJobs \o s) : s \in SetToSeqs(entries \ Range(completedJobs))}

\* The sequence (in a singleton) of the elements of s at the positions in keep.
Restrictions(s, keep) ==
  LET n == Cardinality(keep)
      increasing == {f \in [1 .. n -> keep] : \A a, b \in 1 .. n : a < b => f[a] < f[b]}
  IN  {[i \in 1 .. n |-> s[f[i]]] : f \in increasing}

Without(J) == [j \in JobIds |-> IF j \in J THEN NoJob ELSE activeJobs[j]]

\* The stores the _safe_*_job calls in changes can leave behind: a call that
\* raises or returns False is logged and its write is lost.
StoresWith(store, changes) ==
  {[j \in JobIds |-> IF j \in DOMAIN changes \ lost THEN changes[j] ELSE store[j]] :
     lost \in IF PersistenceFails THEN SUBSET DOMAIN changes ELSE {{}}}

One(j, value) == [k \in {j} |-> value]

Persist(changes) == persisted' \in StoresWith(persisted, changes)

\* _archive_job_locked, for all the jobs (identifier to record) of one call.
Archive(jobs) ==
  /\ activeJobs' = Without(DOMAIN jobs)
  /\ completedJobs' \in HistoriesWith(jobs)
  /\ Persist(jobs)

\* The record of an active job changes and the change is persisted.
Amend(j, job) ==
  /\ activeJobs' = [activeJobs EXCEPT ![j] = job]
  /\ Persist(One(j, job))
  /\ UNCHANGED completedJobs

-----------------------------------------------------------------------------
(* Operations of the scheduler                                               *)

NewJob(j, trigger, enabled, nextRun) ==
  [status |-> "SCHEDULED", trigger |-> trigger, enabled |-> enabled,
   nextRun |-> nextRun, updated |-> now, created |-> creations[j] + 1]

\* Wrong on purpose (CapacityExceededOnlyByRecovery): one job too many.
HasRoomForOneMore(jobs) == Cardinality(jobs) <= MaximumJobs

HasRoom(jobs) == Cardinality(jobs) < MaximumJobs

\* create_job, with a trigger the validator accepts.  At capacity it first
\* archives the finished jobs (cleanup); when that frees nothing the call
\* returns None, having done no more than a Cleanup step.
CreateJob(j, trigger, enabled) ==
  /\ up
  /\ creations[j] < MaxCreates
  /\ \E nextRun \in NextRuns(trigger, now) :
       LET job  == NewJob(j, trigger, enabled, nextRun)
           done == FinishedJobs
       IN \/ /\ HasRoom(Active)
             /\ Amend(j, job)
          \/ /\ ~HasRoom(Active)
             /\ HasRoom(Active \ DOMAIN done)
             /\ activeJobs' = [Without(DOMAIN done) EXCEPT ![j] = job]
             /\ completedJobs' \in HistoriesWith(done)
             /\ \E store \in StoresWith(persisted, done) :
                  persisted' \in StoresWith(store, One(j, job))
  /\ creations' = [creations EXCEPT ![j] = @ + 1]
  /\ UNCHANGED <<up, now>>

\* update_job: a new trigger or new parameters move next_run; the status, and
\* with it a job already found READY, is left alone.
UpdateJob(j) ==
  /\ up
  /\ Unfinished(j)
  /\ \/ Amend(j, [activeJobs[j] EXCEPT !.updated = now])
     \/ \E trigger \in Triggers : \E nextRun \in NextRuns(trigger, now) :
          Amend(j, [activeJobs[j] EXCEPT !.trigger = trigger, !.nextRun = nextRun,
                                         !.updated = now])
  /\ UNCHANGED <<up, now, creations>>

PauseJob(j) ==
  /\ up
  /\ Unfinished(j)
  /\ Amend(j, [activeJobs[j] EXCEPT !.status = "PAUSED", !.updated = now])
  /\ UNCHANGED <<up, now, creations>>

ResumeJob(j) ==
  /\ up
  /\ Known(j)
  /\ activeJobs[j].status = "PAUSED"
  /\ Amend(j, [activeJobs[j] EXCEPT !.status = "SCHEDULED", !.updated = now])
  /\ UNCHANGED <<up, now, creations>>

\* Wrong on purpose (NoResurrection): a job that ends stays in memory.
RetireInPlace(j, job) == Amend(j, job)

\* Wrong on purpose (RunsOncePerSchedule): a one-time job that fails is tried again.
RetireOrRetry(j, job) ==
  Amend(j, IF job.status = "FAILED" THEN [job EXCEPT !.status = "SCHEDULED"] ELSE job)

\* The end of a job's life: archived at once, or left in memory for cleanup.
Retire(j, job) ==
  IF CleanupHistory THEN Archive(One(j, job)) ELSE Amend(j, job)

CancelJob(j) ==
  /\ up
  /\ Unfinished(j)
  /\ Retire(j, [activeJobs[j] EXCEPT !.status = "CANCELLED", !.updated = now])
  /\ UNCHANGED <<up, now, creations>>

\* enable_job and disable_job.
SetEnabled(j, enabled) ==
  /\ up
  /\ Unfinished(j)
  /\ Amend(j, [activeJobs[j] EXCEPT !.enabled = enabled, !.updated = now])
  /\ UNCHANGED <<up, now, creations>>

RemoveJob(j) ==
  LET others == {i \in DOMAIN completedJobs : completedJobs[i].id # j}
  IN  /\ up
      /\ Known(j) \/ others # DOMAIN completedJobs
      /\ activeJobs' = Without({j})
      /\ completedJobs' \in Restrictions(completedJobs, others)
      /\ Persist(One(j, NoJob))
      /\ UNCHANGED <<up, now, creations>>

\* list_ready_jobs marks the due jobs READY in memory only.
Due == {j \in JobIds : /\ Known(j)
                       /\ activeJobs[j].enabled
                       /\ activeJobs[j].status = "SCHEDULED"
                       /\ activeJobs[j].nextRun # NoRun
                       /\ activeJobs[j].nextRun <= now}

MarkedReady ==
  [j \in JobIds |-> IF j \in Due
                    THEN [activeJobs[j] EXCEPT !.status = "READY", !.updated = now]
                    ELSE activeJobs[j]]

ListReadyJobs ==
  /\ up
  /\ Due # {}
  /\ activeJobs' = MarkedReady
  /\ UNCHANGED <<completedJobs, persisted, up, now, creations>>

CanStart(j) ==
  /\ Unfinished(j)
  /\ activeJobs[j].status # "PAUSED"
  /\ activeJobs[j].enabled

\* Wrong on purpose (Durable): the start of a job is not persisted.
StartInMemory(j) ==
  /\ up
  /\ CanStart(j)
  /\ activeJobs' = [activeJobs EXCEPT ![j].status = "RUNNING", ![j].updated = now]
  /\ UNCHANGED <<completedJobs, persisted, up, now, creations>>

StartJobExecution(j) ==
  /\ up
  /\ CanStart(j)
  /\ Amend(j, [activeJobs[j] EXCEPT !.status = "RUNNING", !.updated = now])
  /\ UNCHANGED <<up, now, creations>>

\* Wrong on purpose (RunningIsExecuted): a job scheduled again stays RUNNING.
RescheduledRunning(j, nextRun) ==
  [activeJobs[j] EXCEPT !.nextRun = nextRun, !.updated = now]

Rescheduled(j, nextRun) ==
  [activeJobs[j] EXCEPT !.status = "SCHEDULED", !.nextRun = nextRun, !.updated = now]

\* complete_job_execution and fail_job_execution look at the trigger only:
\* whatever the status is, a one-time job ends and a recurring one is
\* scheduled again.
EndJobExecution(j, outcome) ==
  /\ up
  /\ Known(j)
  /\ IF activeJobs[j].trigger \in OneTime
     THEN Retire(j, [activeJobs[j] EXCEPT !.status = outcome, !.updated = now])
     ELSE \E nextRun \in NextRuns(activeJobs[j].trigger, now) :
            Amend(j, Rescheduled(j, nextRun))
  /\ UNCHANGED <<up, now, creations>>

CompleteJobExecution(j) == EndJobExecution(j, "COMPLETED")
FailJobExecution(j)     == EndJobExecution(j, "FAILED")

\* archive_job takes a job in any status.
ArchiveJob(j) ==
  /\ up
  /\ Known(j)
  /\ Archive(One(j, activeJobs[j]))
  /\ UNCHANGED <<up, now, creations>>

Cleanup ==
  /\ up
  /\ DOMAIN FinishedJobs # {}
  /\ Archive(FinishedJobs)
  /\ UNCHANGED <<up, now, creations>>

Missed == {j \in JobIds : /\ Known(j)
                          /\ activeJobs[j].trigger = "ONCE"
                          /\ activeJobs[j].status \in {"SCHEDULED", "READY"}
                          /\ activeJobs[j].nextRun # NoRun
                          /\ activeJobs[j].nextRun < now}

ExpireJobs ==
  /\ up
  /\ Missed # {}
  /\ Archive([j \in Missed |-> [activeJobs[j] EXCEPT !.status = "EXPIRED", !.updated = now]])
  /\ UNCHANGED <<up, now, creations>>

\* cleanup_expired_jobs deletes the persisted record by identifier.
CleanupExpiredJobs ==
  LET old == {i \in DOMAIN completedJobs : now - completedJobs[i].job.updated >= Retention}
  IN  /\ up
      /\ old # {}
      /\ completedJobs' \in Restrictions(completedJobs, DOMAIN completedJobs \ old)
      /\ Persist([j \in {completedJobs[i].id : i \in old} |-> NoJob])
      /\ UNCHANGED <<activeJobs, up, now, creations>>

Clear ==
  /\ up
  /\ activeJobs' = Without(JobIds)
  /\ completedJobs' = << >>
  /\ UNCHANGED <<persisted, up, now, creations>>

-----------------------------------------------------------------------------
(* The environment: the clock, the crash of the process and its restart      *)

Tick ==
  /\ now < MaxTime
  /\ now' = now + 1
  /\ UNCHANGED <<activeJobs, completedJobs, persisted, up, creations>>

Crash ==
  /\ up
  /\ up' = FALSE
  /\ activeJobs' = Without(JobIds)
  /\ completedJobs' = << >>
  /\ UNCHANGED <<persisted, now, creations>>

\* recover_jobs, of the scheduler of a new process or of one already at work.
\* A load that raises returns no job, and a corrupted record is skipped.
\* Nothing here looks at maximum_jobs.
Persisted == {j \in JobIds : persisted[j] # NoJob}
Loads     == IF PersistenceFails THEN SUBSET Persisted ELSE {Persisted}

RecoverJobs ==
  /\ RecoverWhileRunning \/ ~up
  /\ \E loaded \in Loads :
       LET finished == {j \in loaded : Finished(persisted[j])}
       IN  /\ activeJobs' = [j \in JobIds |-> IF j \in loaded \ finished THEN persisted[j]
                                                                         ELSE activeJobs[j]]
           /\ completedJobs' \in HistoriesWith([j \in finished |-> persisted[j]])
  /\ up' = TRUE
  /\ UNCHANGED <<persisted, now, creations>>

-----------------------------------------------------------------------------
Init ==
  /\ activeJobs = [j \in JobIds |-> NoJob]
  /\ completedJobs = << >>
  /\ persisted = [j \in JobIds |-> NoJob]
  /\ up = TRUE
  /\ now = 0
  /\ creations = [j \in JobIds |-> 0]

\* What users of the scheduler call, and what the engine that runs jobs calls.
UserStep ==
  \/ \E j \in JobIds, trigger \in Triggers, enabled \in BOOLEAN : CreateJob(j, trigger, enabled)
  \/ \E j \in JobIds : \/ UpdateJob(j)
                       \/ PauseJob(j)
                       \/ ResumeJob(j)
                       \/ CancelJob(j)
                       \/ RemoveJob(j)
                       \/ ArchiveJob(j)
  \/ \E j \in JobIds, enabled \in BOOLEAN : SetEnabled(j, enabled)
  \/ Cleanup
  \/ ExpireJobs
  \/ CleanupExpiredJobs
  \/ Clear

EngineStep ==
  \/ ListReadyJobs
  \/ \E j \in JobIds : \/ StartJobExecution(j)
                       \/ CompleteJobExecution(j)
                       \/ FailJobExecution(j)

EnvironmentStep == Tick \/ Crash \/ RecoverJobs

Next == UserStep \/ EngineStep \/ EnvironmentStep

Spec == Init /\ [][Next]_vars

-----------------------------------------------------------------------------
(* Properties                                                                *)

\* A job is named by its identifier and its creation.
IsLive(j, c) == Unfinished(j) /\ activeJobs[j].created = c

\* One of the three places a record can be in holds a terminal record of the job.
HasEnded(j, c) ==
  \/ Known(j) /\ Finished(activeJobs[j]) /\ activeJobs[j].created = c
  \/ persisted[j] # NoJob /\ Finished(persisted[j]) /\ persisted[j].created = c
  \/ \E e \in Range(completedJobs) : e.id = j /\ Finished(e.job) /\ e.job.created = c

\* No step makes a job that has ended live again: neither a late completion of
\* a cancelled job (complete_job_execution checks no status) nor a recovery
\* from a record that was written before the end.
NoResurrection ==
  [][\A j \in JobIds, c \in 1 .. MaxCreates : HasEnded(j, c) => ~IsLive(j, c)']_vars

\* The persisted record of an active job is the record in memory, but for the
\* READY mark, which list_ready_jobs does not persist: a restart that loads the
\* store loses no accepted operation.
SameButReady(inMemory, inStore) ==
  \/ inStore = inMemory
  \/ /\ inMemory.status = "READY"
     /\ inStore.status = "SCHEDULED"
     /\ [inStore EXCEPT !.status = "READY", !.updated = inMemory.updated] = inMemory

Durable == \A j \in Active : persisted[j] # NoJob /\ SameButReady(activeJobs[j], persisted[j])

\* Only a recovery, which does not look at maximum_jobs, leaves more active
\* jobs than the configured maximum.
CapacityExceededOnlyByRecovery ==
  [][Cardinality(Active') > MaximumJobs =>
       \/ Cardinality(Active') <= Cardinality(Active)
       \/ RecoverJobs]_vars

\* Refuted: retention cleanup removes the records of ended jobs, so none that is the
\* persisted record of a job still active.  It deletes by identifier, and create_job
\* takes an identifier that an earlier job, now in the history, has used.
CleanupSparesActiveJobs ==
  [][CleanupExpiredJobs =>
       \A j \in Active : persisted[j] # NoJob => persisted'[j] # NoJob]_vars
=============================================================================
