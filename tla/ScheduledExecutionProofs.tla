------------------------ MODULE ScheduledExecutionProofs ------------------------
(***************************************************************************)
(* The execution of scheduled jobs only does what the scheduler allows:    *)
(* its steps are steps of the scheduler or leave the scheduler alone, so   *)
(* what is proved of the scheduler holds of the composition.  Then what    *)
(* only the composition shows: that a plan runs once per schedule, and     *)
(* that a job in status RUNNING is executed.                               *)
(***************************************************************************)
EXTENDS ScheduledExecution, BackgroundJobSchedulerProofs

-----------------------------------------------------------------------------
(* Steps of the pollers as steps of the scheduler                            *)

\* A poll that finds no job due leaves the scheduler as it is.
LEMMA PollIsSchedulerStep ==
  ASSUME TypeOK, NEW p \in Pollers, Poll(p)
  PROVE  [Next]_vars
<1>1. CASE Due # {}
  BY <1>1 DEF Poll, ListReadyJobs, Next, EngineStep
<1>2. CASE Due = {}
  <2>1. MarkedReady = [j \in JobIds |-> activeJobs[j]]
    BY <1>2 DEF MarkedReady
  <2>2. MarkedReady = activeJobs
    BY <2>1 DEF TypeOK, Records
  <2> QED
    BY <2>2 DEF Poll, vars
<1> QED
  BY <1>1, <1>2

LEMMA BeginIsSchedulerStep ==
  ASSUME ExecutionTypeOK, NEW p \in Pollers, Begin(p)
  PROVE  [Next]_vars
<1>1. Head(queue[p]) \in JobIds
  BY DEF ExecutionTypeOK, Begin
<1> QED
  BY <1>1 DEF Begin, Next, EngineStep

LEMMA FinishIsSchedulerStep ==
  ASSUME ExecutionTypeOK, NEW p \in Pollers, NEW success \in BOOLEAN, Finish(p, success)
  PROVE  [Next]_vars
<1>1. executing[p] \in JobIds
  BY DEF ExecutionTypeOK, Finish
<1>2. CASE success
  BY <1>1, <1>2 DEF Finish, Next, EngineStep, CompleteJobExecution
<1>3. CASE ~success
  BY <1>1, <1>3 DEF Finish, Next, EngineStep, FailJobExecution
<1> QED
  BY <1>2, <1>3

LEMMA StepIsSchedulerStep ==
  ExecutionTypeOK /\ [ExecutionNext]_allVars => [Next]_vars
<1> SUFFICES ASSUME ExecutionTypeOK, [ExecutionNext]_allVars PROVE [Next]_vars
  OBVIOUS
<1>1. TypeOK
  BY DEF ExecutionTypeOK
<1>2. CASE \E p \in Pollers : Poll(p)
  BY <1>1, <1>2, PollIsSchedulerStep
<1>3. CASE \E p \in Pollers : Begin(p)
  BY <1>3, BeginIsSchedulerStep
<1>4. CASE \E p \in Pollers : Abort(p)
  BY <1>4 DEF Abort
<1>5. CASE \E p \in Pollers, success \in BOOLEAN : Finish(p, success)
  BY <1>5, FinishIsSchedulerStep
<1>6. CASE \E j \in JobIds : Reschedule(j)
  BY <1>6 DEF Reschedule, Next, UserStep
<1>7. CASE UserOp /\ UNCHANGED pollerVars
  BY <1>7 DEF UserOp, Next, UserStep
<1>8. CASE (Tick \/ RecoverJobs) /\ UNCHANGED pollerVars
  BY <1>8 DEF Next, EnvironmentStep
<1>9. CASE ProcessCrash
  BY <1>9 DEF ProcessCrash, Next, EnvironmentStep
<1>10. CASE UNCHANGED allVars
  BY <1>10 DEF allVars
<1> QED
  BY <1>2, <1>3, <1>4, <1>5, <1>6, <1>7, <1>8, <1>9, <1>10 DEF ExecutionNext

-----------------------------------------------------------------------------
(* Types                                                                     *)

LEMMA ExecutionStepKeepsTypes ==
  ExecutionTypeOK /\ [ExecutionNext]_allVars => ExecutionTypeOK'
<1> SUFFICES ASSUME ExecutionTypeOK, [ExecutionNext]_allVars PROVE ExecutionTypeOK'
  OBVIOUS
<1> DEFINE PollerTypeOK == /\ queue \in [Pollers -> Seq(JobIds)]
                           /\ executing \in [Pollers -> JobIds \cup {Nothing}]
                           /\ runs \in [JobIds -> Nat]
                           /\ unreported \subseteq JobIds
<1>1. TypeOK'
  <2>1. TypeOK
    BY DEF ExecutionTypeOK
  <2> QED
    BY <2>1, StepIsSchedulerStep, StepKeepsTypes
<1>2. PollerTypeOK
  BY DEF ExecutionTypeOK
<1>3. ASSUME NEW p \in Pollers, Poll(p) PROVE PollerTypeOK'
  <2>1. PICK list \in SetToSeqs(Ready) : queue' = [queue EXCEPT ![p] = list]
    BY <1>3 DEF Poll
  <2>2. Ready \subseteq JobIds
    BY DEF Ready, Due
  <2>3. Cardinality(Ready) \in Nat
    BY <2>2, SchedulerAssumption, FS_Subset, FS_CardinalityType
  <2>4. list \in [1 .. Cardinality(Ready) -> JobIds]
    BY <2>1, <2>2 DEF SetToSeqs
  <2>5. list \in Seq(JobIds)
    BY <2>3, <2>4, IsASeq
  <2> QED
    BY <1>2, <1>3, <2>1, <2>5 DEF Poll
<1>4. ASSUME NEW p \in Pollers, Begin(p) PROVE PollerTypeOK'
  <2>1. queue[p] \in Seq(JobIds) /\ queue[p] # << >>
    BY <1>2, <1>4 DEF Begin
  <2>2. Head(queue[p]) \in JobIds /\ Tail(queue[p]) \in Seq(JobIds)
    BY <2>1
  <2> QED
    BY <1>2, <1>4, <2>2 DEF Begin
<1>5. ASSUME NEW p \in Pollers, Abort(p) PROVE PollerTypeOK'
  BY <1>2, <1>5 DEF Abort
<1>6. ASSUME NEW p \in Pollers, NEW success \in BOOLEAN, Finish(p, success) PROVE PollerTypeOK'
  <2>1. executing[p] \in JobIds
    BY <1>2, <1>6 DEF Finish
  <2> QED
    BY <1>2, <1>6, <2>1 DEF Finish
<1>7. ASSUME NEW j \in JobIds, Reschedule(j) PROVE PollerTypeOK'
  BY <1>2, <1>7 DEF Reschedule
<1>8. ASSUME UNCHANGED pollerVars PROVE PollerTypeOK'
  BY <1>2, <1>8 DEF pollerVars
<1>9. ASSUME ProcessCrash PROVE PollerTypeOK'
  BY <1>2, <1>9 DEF ProcessCrash
<1>10. PollerTypeOK'
  <2> HIDE DEF PollerTypeOK
  <2> QED
    BY <1>3, <1>4, <1>5, <1>6, <1>7, <1>8, <1>9 DEF ExecutionNext, allVars
<1> QED
  BY <1>1, <1>10 DEF ExecutionTypeOK

LEMMA ExecutionInitTypes == ExecutionInit => ExecutionTypeOK
<1>1. Init => TypeOK
  BY InitTypes
<1> QED
  BY <1>1 DEF ExecutionInit, ExecutionTypeOK

-----------------------------------------------------------------------------
(* Theorems                                                                  *)

\* Every reachable state of the composition has the declared types.
THEOREM ExecutionTypeCorrect == ExecutionSpec => []ExecutionTypeOK
BY ExecutionInitTypes, ExecutionStepKeepsTypes, PTL DEF ExecutionSpec

\* The execution of scheduled jobs implements the scheduler: the interleaving of
\* pollers with users, crashes and recoveries is a behaviour of the scheduler.
THEOREM ExecutionImplementsScheduler == ExecutionSpec => Spec
<1>1. ExecutionInit => Init
  BY DEF ExecutionInit
<1> QED
  BY <1>1, StepIsSchedulerStep, ExecutionTypeCorrect, PTL DEF ExecutionSpec, Spec

\* A job that has ended stays ended while pollers execute jobs, when ended jobs are
\* archived at once and no write is lost: a late report finds no record to revive.
THEOREM NoResurrectionWhileExecuting ==
  ASSUME EndingSettings
  PROVE  ExecutionSpec => NoResurrection
BY ExecutionImplementsScheduler, NoResurrectionCorrect

-----------------------------------------------------------------------------
(* What the operations of users do to the records                            *)

IsRunning(job) == job # NoJob /\ job.status = "RUNNING"

\* Memory or store says that j runs.
SaidToRun(j) == IsRunning(activeJobs[j]) \/ IsRunning(persisted[j])

\* A step that makes no job run, and takes up no job but one that it creates.
NothingStarts ==
  \A k \in JobIds :
    /\ SaidToRun(k)' => SaidToRun(k)
    /\ Unfinished(k)' => Unfinished(k) \/ (creations[k] < MaxCreates /\ creations'[k] # 0)
    /\ Known(k)' \/ persisted'[k] # NoJob => Known(k) \/ persisted[k] # NoJob \/ creations'[k] # 0
    /\ creations'[k] = 0 => creations[k] = 0
    /\ creations[k] # 0 => creations'[k] # 0

\* A write reaches the store as a whole or not at all.
LEMMA WriteLemma ==
  ASSUME NEW store, NEW J \in SUBSET JobIds, NEW changes, DOMAIN changes = J,
         NEW new \in StoresWith(store, changes)
  PROVE  \A k \in JobIds : new[k] = store[k] \/ (k \in J /\ new[k] = changes[k])
BY DEF StoresWith

\* The records after an amendment.
LEMMA AmendRecords ==
  ASSUME TypeOK, NEW j \in JobIds, NEW job \in Job, Amend(j, job)
  PROVE  /\ activeJobs'[j] = job
         /\ persisted'[j] \in {persisted[j], job}
         /\ ~PersistenceFails => persisted'[j] = job
         /\ \A k \in JobIds \ {j} : activeJobs'[k] = activeJobs[k] /\ persisted'[k] = persisted[k]
<1>1. activeJobs' = [activeJobs EXCEPT ![j] = job] /\ activeJobs \in Records
  BY DEF Amend, TypeOK
<1>2. persisted' \in StoresWith(persisted, One(j, job)) /\ persisted \in Records
  BY DEF Amend, Persist, TypeOK
<1>3. /\ One(j, job) \in [{j} -> Job \cup {NoJob}] /\ DOMAIN One(j, job) = {j}
      /\ One(j, job)[j] = job
  BY DEF One
<1>4. \A k \in JobIds : persisted'[k] = persisted[k] \/ (k \in {j} /\ persisted'[k] = One(j, job)[k])
  BY <1>2, <1>3, WriteLemma
<1>5. ~PersistenceFails => persisted' = [k \in JobIds |-> IF k \in {j} THEN One(j, job)[k] ELSE persisted[k]]
  <2>1. Persist(One(j, job)) /\ {j} \in SUBSET JobIds
    BY DEF Amend
  <2> QED
    BY <1>3, <2>1, PersistLemma
<1>6. ~PersistenceFails => persisted'[j] = job
  BY <1>3, <1>5
<1> QED
  BY <1>1, <1>3, <1>4, <1>6 DEF Records

\* The records after some jobs were archived.
LEMMA ArchiveRecords ==
  ASSUME TypeOK, NEW J \in SUBSET JobIds, NEW jobs \in [J -> Job], Archive(jobs)
  PROVE  /\ \A k \in J : /\ activeJobs'[k] = NoJob
                         /\ persisted'[k] \in {persisted[k], jobs[k]}
                         /\ ~PersistenceFails => persisted'[k] = jobs[k]
         /\ \A k \in JobIds \ J : activeJobs'[k] = activeJobs[k] /\ persisted'[k] = persisted[k]
<1>1. DOMAIN jobs = J /\ activeJobs' = Without(J)
  BY DEF Archive
<1>2. persisted' \in StoresWith(persisted, jobs) /\ persisted \in Records /\ jobs \in [J -> Job \cup {NoJob}]
  BY DEF Archive, Persist, TypeOK
<1>3. \A k \in JobIds : persisted'[k] = persisted[k] \/ (k \in J /\ persisted'[k] = jobs[k])
  <2> SUFFICES ASSUME NEW k \in JobIds
               PROVE  persisted'[k] = persisted[k] \/ (k \in J /\ persisted'[k] = jobs[k])
    OBVIOUS
  <2> QED
    BY <1>1, <1>2, WriteLemma
<1>4. ~PersistenceFails => persisted' = [k \in JobIds |-> IF k \in J THEN jobs[k] ELSE persisted[k]]
  <2>1. Persist(jobs)
    BY DEF Archive
  <2> QED
    BY <1>2, <2>1, PersistLemma
<1> QED
  BY <1>1, <1>3, <1>4 DEF Without

LEMMA AmendStartsNothing ==
  ASSUME TypeOK, NEW j \in JobIds, NEW job \in Job, Amend(j, job), UNCHANGED creations,
         Known(j), ~Finished(job) => Unfinished(j), IsRunning(job) => IsRunning(activeJobs[j])
  PROVE  NothingStarts
BY AmendRecords DEF NothingStarts, SaidToRun, IsRunning, Unfinished, Known

LEMMA ArchiveStartsNothing ==
  ASSUME TypeOK, NEW J \in SUBSET Active, NEW jobs \in [J -> Job], Archive(jobs), UNCHANGED creations,
         \A k \in J : IsRunning(jobs[k]) => IsRunning(activeJobs[k])
  PROVE  NothingStarts
<1>1. J \in SUBSET JobIds /\ \A k \in J : Known(k)
  BY DEF Active
<1>2. /\ \A k \in J : activeJobs'[k] = NoJob /\ persisted'[k] \in {persisted[k], jobs[k]}
      /\ \A k \in JobIds \ J : activeJobs'[k] = activeJobs[k] /\ persisted'[k] = persisted[k]
  BY <1>1, ArchiveRecords
<1> QED
  BY <1>1, <1>2 DEF NothingStarts, SaidToRun, IsRunning, Unfinished, Known

\* A record with a new status, other than RUNNING.
LEMMA NewStatus ==
  ASSUME TypeOK, NEW j \in JobIds, Known(j), NEW status \in Statuses
  PROVE  LET job == [activeJobs[j] EXCEPT !.status = status, !.updated = now]
         IN  job \in Job /\ job.status = status /\ (status # "RUNNING" => ~IsRunning(job))
<1>1. activeJobs[j] \in Job
  BY KnownIsJob
<1>2. [activeJobs[j] EXCEPT !.status = status, !.updated = now] \in Job
  BY AmendedIsJob
<1>3. [activeJobs[j] EXCEPT !.status = status, !.updated = now].status = status
  BY <1>1, AmendedFields
<1> QED
  BY <1>2, <1>3 DEF IsRunning

\* A record ends, in memory or in the history.
LEMMA RetireStartsNothing ==
  ASSUME TypeOK, NEW j \in JobIds, Known(j), NEW status \in Terminal, UNCHANGED creations,
         Retire(j, [activeJobs[j] EXCEPT !.status = status, !.updated = now])
  PROVE  /\ NothingStarts
         /\ ~Unfinished(j)'
         /\ ~IsRunning(activeJobs'[j])
         /\ ~PersistenceFails => ~IsRunning(persisted'[j])
<1> DEFINE job == [activeJobs[j] EXCEPT !.status = status, !.updated = now]
<1>1. status \in Statuses /\ status # "RUNNING"
  BY DEF Terminal, Statuses
<1>2. job \in Job /\ Finished(job) /\ ~IsRunning(job)
  BY <1>1, NewStatus DEF Finished
<1>3. Retire(j, job)
  OBVIOUS
<1> HIDE DEF job
<1>4. CASE CleanupHistory
  <2>1. One(j, job) \in [{j} -> Job] /\ One(j, job)[j] = job /\ {j} \in SUBSET Active
    BY <1>2 DEF One, Active
  <2>2. Archive(One(j, job))
    BY <1>3, <1>4 DEF Retire
  <2>3. NothingStarts
    BY <1>2, <2>1, <2>2, ArchiveStartsNothing
  <2>4. activeJobs'[j] = NoJob /\ (~PersistenceFails => persisted'[j] = job)
    <3>1. {j} \in SUBSET JobIds
      OBVIOUS
    <3> QED
      BY <2>1, <2>2, <3>1, ArchiveRecords
  <2> QED
    BY <1>2, <2>3, <2>4 DEF Unfinished, Known, IsRunning
<1>5. CASE ~CleanupHistory
  <2>1. Amend(j, job)
    BY <1>3, <1>5 DEF Retire
  <2>2. NothingStarts
    BY <1>2, <2>1, AmendStartsNothing
  <2>3. activeJobs'[j] = job /\ (~PersistenceFails => persisted'[j] = job)
    BY <1>2, <2>1, AmendRecords
  <2> QED
    BY <1>2, <2>2, <2>3 DEF Unfinished, Known
<1> QED
  BY <1>4, <1>5

\* The records after a recurring job was scheduled again.
LEMMA RescheduledRecords ==
  ASSUME TypeOK, NEW j \in JobIds, Known(j), NEW nextRun \in RunTimes \cup {NoRun},
         Amend(j, Rescheduled(j, nextRun))
  PROVE  /\ \A k \in JobIds \ {j} : activeJobs'[k] = activeJobs[k] /\ persisted'[k] = persisted[k]
         /\ ~IsRunning(activeJobs'[j])
         /\ ~PersistenceFails => ~IsRunning(persisted'[j])
         /\ persisted'[j] \in {persisted[j], activeJobs'[j]}
<1>1. activeJobs[j] \in Job /\ "SCHEDULED" \in Statuses
  BY KnownIsJob DEF Statuses
<1>2. Rescheduled(j, nextRun) \in Job
  BY <1>1, AmendedIsJob DEF Rescheduled
<1>3. Rescheduled(j, nextRun).status = "SCHEDULED"
  BY <1>1, AmendedFields DEF Rescheduled
<1> QED
  BY <1>2, <1>3, AmendRecords DEF IsRunning

LEMMA CreateStartsNothing ==
  ASSUME TypeOK, NEW j \in JobIds, NEW trigger \in Triggers, NEW enabled \in BOOLEAN,
         CreateJob(j, trigger, enabled)
  PROVE  NothingStarts
<1>1. PICK nextRun \in NextRuns(trigger, now) :
        LET job  == NewJob(j, trigger, enabled, nextRun)
            done == FinishedJobs
        IN \/ /\ HasRoom(Active)
              /\ Amend(j, job)
           \/ /\ ~HasRoom(Active)
              /\ HasRoom(Active \ DOMAIN done)
              /\ activeJobs' = [Without(DOMAIN done) EXCEPT ![j] = job]
              /\ completedJobs' \in HistoriesWith(done)
              /\ \E store \in StoresWith(persisted, done) :
                   persisted' \in StoresWith(store, One(j, job))
  BY DEF CreateJob
<1> DEFINE job  == NewJob(j, trigger, enabled, nextRun)
           done == FinishedJobs
           J    == {k \in Active : Finished(activeJobs[k])}
<1>2. creations[j] < MaxCreates /\ creations'[j] # 0 /\ \A k \in JobIds \ {j} : creations'[k] = creations[k]
  BY SchedulerAssumption DEF CreateJob, TypeOK
<1>3. job \in Job /\ ~IsRunning(job)
  <2>1. job \in Job
    BY <1>2, NewIsJob
  <2>2. job.status = "SCHEDULED"
    BY DEF NewJob
  <2> QED
    BY <2>1, <2>2 DEF IsRunning
<1>4. done \in [J -> Job] /\ J \in SUBSET JobIds /\ DOMAIN done = J
  BY FinishedJobsType
<1>5. \A k \in J : Known(k) /\ done[k] = activeJobs[k] /\ ~IsRunning(done[k])
  BY DEF FinishedJobs, Active, Finished, Terminal, IsRunning
<1> HIDE DEF job, done, J
<1>6. /\ activeJobs'[j] = job /\ persisted'[j] \in {persisted[j], job} \cup (IF j \in J THEN {done[j]} ELSE {})
      /\ \A k \in JobIds \ {j} :
           /\ activeJobs'[k] \in {activeJobs[k], NoJob}
           /\ persisted'[k] = persisted[k] \/ (k \in J /\ persisted'[k] = done[k])
  <2>1. CASE Amend(j, job)
    BY <1>3, <2>1, AmendRecords
  <2>2. CASE /\ activeJobs' = [Without(DOMAIN done) EXCEPT ![j] = job]
             /\ \E store \in StoresWith(persisted, done) :
                  persisted' \in StoresWith(store, One(j, job))
    <3>1. PICK store \in StoresWith(persisted, done) : persisted' \in StoresWith(store, One(j, job))
      BY <2>2
    <3>2. ASSUME NEW k \in JobIds PROVE store[k] = persisted[k] \/ (k \in J /\ store[k] = done[k])
      BY <1>4, WriteLemma
    <3>3. DOMAIN One(j, job) = {j} /\ One(j, job)[j] = job /\ {j} \in SUBSET JobIds
      BY DEF One
    <3>4. ASSUME NEW k \in JobIds PROVE persisted'[k] = store[k] \/ (k \in {j} /\ persisted'[k] = One(j, job)[k])
      BY <3>1, <3>3, WriteLemma
    <3>5. activeJobs'[j] = job /\ \A k \in JobIds \ {j} : activeJobs'[k] \in {activeJobs[k], NoJob}
      BY <2>2 DEF Without
    <3> QED
      BY <3>2, <3>3, <3>4, <3>5
  <2> QED
    BY <1>1, <2>1, <2>2 DEF job, done
<1> QED
  BY <1>2, <1>3, <1>5, <1>6 DEF NothingStarts, SaidToRun, IsRunning, Unfinished, Known

LEMMA UpdateStartsNothing ==
  ASSUME TypeOK, NEW j \in JobIds, UpdateJob(j)
  PROVE  NothingStarts
<1>1. Unfinished(j) /\ Known(j) /\ activeJobs[j] \in Job /\ UNCHANGED creations
  BY KnownIsJob DEF UpdateJob, Unfinished
<1>2. ASSUME NEW job \in Job, Amend(j, job), job.status = activeJobs[j].status PROVE NothingStarts
  <2>1. IsRunning(job) => IsRunning(activeJobs[j])
    BY <1>1, <1>2 DEF IsRunning, Known
  <2> QED
    BY <1>1, <1>2, <2>1, AmendStartsNothing
<1>3. CASE Amend(j, [activeJobs[j] EXCEPT !.updated = now])
  BY <1>1, <1>2, <1>3, AmendedIsJob, AmendedFields
<1>4. ASSUME NEW trigger \in Triggers, NEW nextRun \in NextRuns(trigger, now),
             Amend(j, [activeJobs[j] EXCEPT !.trigger = trigger, !.nextRun = nextRun, !.updated = now])
      PROVE  NothingStarts
  <2> DEFINE job == [activeJobs[j] EXCEPT !.trigger = trigger, !.nextRun = nextRun, !.updated = now]
  <2>1. nextRun \in RunTimes \cup {NoRun}
    BY NextRunsType
  <2>2. job \in Job
    BY <1>1, <2>1, AmendedIsJob
  <2>3. job.status = activeJobs[j].status
    BY <1>1, AmendedFields
  <2> QED
    BY <1>2, <1>4, <2>2, <2>3
<1> QED
  BY <1>3, <1>4 DEF UpdateJob

LEMMA AmendCallsStartNothing ==
  ASSUME TypeOK, NEW j \in JobIds,
         PauseJob(j) \/ ResumeJob(j) \/ CancelJob(j) \/ \E enabled \in BOOLEAN : SetEnabled(j, enabled)
  PROVE  NothingStarts
<1>1. Known(j) /\ activeJobs[j] \in Job /\ UNCHANGED creations /\ Unfinished(j)
  BY KnownIsJob DEF PauseJob, ResumeJob, CancelJob, SetEnabled, Unfinished, Finished, Terminal
<1>2. ASSUME NEW status \in {"PAUSED", "SCHEDULED"},
             Amend(j, [activeJobs[j] EXCEPT !.status = status, !.updated = now])
      PROVE  NothingStarts
  <2> DEFINE job == [activeJobs[j] EXCEPT !.status = status, !.updated = now]
  <2>1. job \in Job /\ ~IsRunning(job)
    <3>1. status \in Statuses /\ status # "RUNNING"
      BY DEF Statuses
    <3> QED
      BY <1>1, <3>1, NewStatus
  <2> HIDE DEF job
  <2>2. Amend(j, job)
    BY <1>2 DEF job
  <2> QED
    BY <1>1, <2>1, <2>2, AmendStartsNothing
<1>3. ASSUME CancelJob(j) PROVE NothingStarts
  <2>1. "CANCELLED" \in Terminal
    BY DEF Terminal
  <2> QED
    BY <1>1, <1>3, <2>1, RetireStartsNothing DEF CancelJob
<1>4. ASSUME NEW enabled \in BOOLEAN, SetEnabled(j, enabled) PROVE NothingStarts
  <2> DEFINE job == [activeJobs[j] EXCEPT !.enabled = enabled, !.updated = now]
  <2>1. job \in Job /\ job.status = activeJobs[j].status
    <3>1. job \in Job
      BY <1>1, AmendedIsJob
    <3>2. job.status = activeJobs[j].status
      BY <1>1, AmendedFields
    <3> QED
      BY <3>1, <3>2
  <2> HIDE DEF job
  <2>2. Amend(j, job)
    BY <1>4 DEF SetEnabled, job
  <2>3. IsRunning(job) => IsRunning(activeJobs[j])
    BY <1>1, <2>1 DEF IsRunning, Known
  <2> QED
    BY <1>1, <2>1, <2>2, <2>3, AmendStartsNothing
<1> QED
  BY <1>2, <1>3, <1>4 DEF PauseJob, ResumeJob

LEMMA ArchiveCallsStartNothing ==
  ASSUME TypeOK, (\E j \in JobIds : ArchiveJob(j)) \/ Cleanup \/ ExpireJobs
  PROVE  NothingStarts
<1>1. ASSUME NEW j \in JobIds, ArchiveJob(j) PROVE NothingStarts
  <2>1. One(j, activeJobs[j]) \in [{j} -> Job] /\ One(j, activeJobs[j])[j] = activeJobs[j]
    BY <1>1, KnownIsJob DEF ArchiveJob, One
  <2>2. {j} \in SUBSET Active
    BY <1>1 DEF ArchiveJob, Active
  <2> QED
    BY <1>1, <2>1, <2>2, ArchiveStartsNothing DEF ArchiveJob
<1>2. CASE Cleanup
  <2> DEFINE J == {k \in Active : Finished(activeJobs[k])}
  <2>1. FinishedJobs \in [J -> Job] /\ J \in SUBSET Active
    BY FinishedJobsType
  <2>2. \A k \in J : IsRunning(FinishedJobs[k]) => IsRunning(activeJobs[k])
    BY DEF FinishedJobs
  <2> HIDE DEF J
  <2> QED
    BY <1>2, <2>1, <2>2, ArchiveStartsNothing DEF Cleanup
<1>3. CASE ExpireJobs
  <2> DEFINE expired == [j \in Missed |-> [activeJobs[j] EXCEPT !.status = "EXPIRED", !.updated = now]]
  <2>1. ASSUME NEW k \in Missed PROVE k \in Active /\ expired[k] \in Job /\ ~IsRunning(expired[k])
    <3>1. k \in JobIds /\ Known(k) /\ "EXPIRED" \in Statuses
      BY DEF Missed, Statuses, Terminal
    <3>2. /\ [activeJobs[k] EXCEPT !.status = "EXPIRED", !.updated = now] \in Job
          /\ ~IsRunning([activeJobs[k] EXCEPT !.status = "EXPIRED", !.updated = now])
      BY <3>1, NewStatus
    <3>3. expired[k] = [activeJobs[k] EXCEPT !.status = "EXPIRED", !.updated = now]
      OBVIOUS
    <3> HIDE DEF expired
    <3>4. expired[k] \in Job
      BY <3>2, <3>3
    <3>5. ~IsRunning(expired[k])
      BY <3>2, <3>3
    <3> QED
      BY <3>1, <3>4, <3>5 DEF Active
  <2>2. expired \in [Missed -> Job] /\ Missed \in SUBSET Active
    BY <2>1
  <2>3. Archive(expired) /\ UNCHANGED creations
    BY <1>3 DEF ExpireJobs
  <2> HIDE DEF expired
  <2> QED
    BY <2>1, <2>2, <2>3, ArchiveStartsNothing
<1> QED
  BY <1>1, <1>2, <1>3

\* What is removed from memory or from the store does not start.
LEMMA RemovalStartsNothing ==
  ASSUME UNCHANGED creations,
         \A k \in JobIds : activeJobs'[k] = activeJobs[k] \/ activeJobs'[k] = NoJob,
         \A k \in JobIds : persisted'[k] = persisted[k] \/ persisted'[k] = NoJob
  PROVE  NothingStarts
BY DEF NothingStarts, SaidToRun, IsRunning, Unfinished, Known

LEMMA RemovalCallsStartNothing ==
  ASSUME TypeOK, (\E j \in JobIds : RemoveJob(j)) \/ CleanupExpiredJobs \/ Clear
  PROVE  NothingStarts
<1>1. ASSUME NEW j \in JobIds, RemoveJob(j) PROVE NothingStarts
  <2>1. \A k \in JobIds : activeJobs'[k] = activeJobs[k] \/ activeJobs'[k] = NoJob
    BY <1>1 DEF RemoveJob, Without
  <2>2. DOMAIN One(j, NoJob) = {j} /\ One(j, NoJob)[j] = NoJob /\ {j} \in SUBSET JobIds
    BY DEF One
  <2>3. persisted' \in StoresWith(persisted, One(j, NoJob)) /\ UNCHANGED creations
    BY <1>1 DEF RemoveJob, Persist
  <2>4. ASSUME NEW k \in JobIds PROVE persisted'[k] = persisted[k] \/ persisted'[k] = NoJob
    <3>1. persisted'[k] = persisted[k] \/ (k \in {j} /\ persisted'[k] = One(j, NoJob)[k])
      BY <2>2, <2>3, WriteLemma
    <3> QED
      BY <2>2, <3>1
  <2> QED
    BY <2>1, <2>3, <2>4, RemovalStartsNothing
<1>2. CASE CleanupExpiredJobs
  <2> DEFINE old == {i \in DOMAIN completedJobs : now - completedJobs[i].job.updated >= Retention}
             ids == {completedJobs[i].id : i \in old}
  <2>1. ids \in SUBSET JobIds
    <3>1. Range(completedJobs) \in SUBSET Entry
      BY RangeOfSeq DEF TypeOK
    <3> QED
      BY <3>1 DEF Range, Entry
  <2>2. Persist([j \in ids |-> NoJob]) /\ UNCHANGED <<activeJobs, creations>>
    BY <1>2 DEF CleanupExpiredJobs
  <2> HIDE DEF ids
  <2>3. \A k \in JobIds : persisted'[k] = persisted[k] \/ persisted'[k] = NoJob
    BY <2>1, <2>2 DEF Persist, StoresWith
  <2> QED
    BY <2>2, <2>3, RemovalStartsNothing
<1>3. CASE Clear
  BY <1>3, RemovalStartsNothing DEF Clear, Without
<1> QED
  BY <1>1, <1>2, <1>3

LEMMA UserOpStartsNothing ==
  ASSUME TypeOK, UserOp
  PROVE  NothingStarts
BY CreateStartsNothing, AmendCallsStartNothing, ArchiveCallsStartNothing, RemovalCallsStartNothing
DEF UserOp

\* The poll marks jobs READY in memory.
LEMMA PollStartsNothing ==
  ASSUME TypeOK, NEW p \in Pollers, Poll(p)
  PROVE  NothingStarts
<1>1. activeJobs' = MarkedReady /\ UNCHANGED <<persisted, creations>>
  BY DEF Poll
<1>2. ASSUME NEW k \in Due
      PROVE  /\ activeJobs'[k] \in Job /\ ~IsRunning(activeJobs'[k]) /\ Unfinished(k)
    <2>1. k \in JobIds /\ Known(k) /\ "READY" \in Statuses /\ Unfinished(k)
      BY DEF Due, Statuses, Unfinished, Finished, Terminal
    <2>2. /\ [activeJobs[k] EXCEPT !.status = "READY", !.updated = now] \in Job
          /\ ~IsRunning([activeJobs[k] EXCEPT !.status = "READY", !.updated = now])
      BY <2>1, NewStatus
    <2>3. activeJobs'[k] = [activeJobs[k] EXCEPT !.status = "READY", !.updated = now]
      BY <1>1, <2>1 DEF MarkedReady
    <2>4. activeJobs'[k] \in Job
      BY <2>2, <2>3
    <2>5. ~IsRunning(activeJobs'[k])
      BY <2>2, <2>3
    <2> QED
      BY <2>1, <2>4, <2>5
<1>3. \A k \in JobIds \ Due : activeJobs'[k] = activeJobs[k]
  BY <1>1 DEF MarkedReady
<1> QED
  BY <1>1, <1>2, <1>3 DEF NothingStarts, SaidToRun, IsRunning, Unfinished, Known

-----------------------------------------------------------------------------
(* A job in status RUNNING is executed                                       *)

Accounted(j) == j \in unreported \/ \E p \in Pollers : executing[p] = j

\* Memory and store alike: a recovery takes the status from the store.
RunningIsAccounted == \A j \in JobIds : SaidToRun(j) => Accounted(j)

RunningInv == ExecutionTypeOK /\ RunningIsAccounted

\* The start of a plan touches the record of its job only, when there is one.
LEMMA BeginRecords ==
  ASSUME ExecutionTypeOK, NEW p \in Pollers, NEW j \in JobIds, j = Head(queue[p]), Begin(p)
  PROVE  /\ \A k \in JobIds \ {j} : activeJobs'[k] = activeJobs[k] /\ persisted'[k] = persisted[k]
         /\ UNCHANGED creations
         /\ UNCHANGED <<activeJobs, persisted>> \/ Unfinished(j)
<1>1. TypeOK /\ IF CanStart(j) THEN StartJobExecution(j) ELSE UNCHANGED vars
  BY DEF Begin, ExecutionTypeOK
<1>2. CASE StartJobExecution(j)
  <2> DEFINE job == [activeJobs[j] EXCEPT !.status = "RUNNING", !.updated = now]
  <2>1. Unfinished(j) /\ Known(j) /\ Amend(j, job) /\ "RUNNING" \in Statuses /\ UNCHANGED creations
    BY <1>2 DEF StartJobExecution, CanStart, Unfinished, Statuses
  <2>2. job \in Job
    BY <1>1, <2>1, NewStatus
  <2> HIDE DEF job
  <2> QED
    BY <1>1, <2>1, <2>2, AmendRecords
<1>3. CASE UNCHANGED vars
  BY <1>3 DEF vars
<1> QED
  BY <1>1, <1>2, <1>3

LEMMA BeginKeepsRunning ==
  ASSUME RunningInv, NEW p \in Pollers, Begin(p)
  PROVE  RunningIsAccounted'
<1>1. /\ ExecutionTypeOK /\ Head(queue[p]) \in JobIds
      /\ executing \in [Pollers -> JobIds \cup {Nothing}] /\ Nothing \notin JobIds
  BY ExecutionAssumption DEF RunningInv, ExecutionTypeOK, Begin
<1>2. PICK j \in JobIds : j = Head(queue[p])
  BY <1>1
<1>3. executing[p] = Nothing /\ executing' = [executing EXCEPT ![p] = j] /\ unreported' = unreported
  BY <1>2 DEF Begin
<1>4. \A k \in JobIds \ {j} : activeJobs'[k] = activeJobs[k] /\ persisted'[k] = persisted[k]
  BY <1>1, <1>2, BeginRecords
<1>5. executing'[p] = j /\ \A q \in Pollers \ {p} : executing'[q] = executing[q]
  BY <1>1, <1>3
<1>6. \A k \in JobIds \ {j} : SaidToRun(k) => Accounted(k)
  BY DEF RunningInv, RunningIsAccounted
<1> QED
  BY <1>1, <1>3, <1>4, <1>5, <1>6 DEF RunningIsAccounted, SaidToRun, IsRunning, Accounted

LEMMA FinishKeepsRunning ==
  ASSUME RunningInv, ~PersistenceFails, NEW p \in Pollers, NEW success \in BOOLEAN, Finish(p, success)
  PROVE  RunningIsAccounted'
<1>1. /\ TypeOK /\ executing[p] \in JobIds /\ executing \in [Pollers -> JobIds \cup {Nothing}]
      /\ Nothing \notin JobIds
  BY ExecutionAssumption DEF RunningInv, ExecutionTypeOK, Finish
<1>2. PICK j \in JobIds : j = executing[p]
  BY <1>1
<1>3. PICK outcome \in Terminal :
        /\ IF Known(j) THEN EndJobExecution(j, outcome) ELSE UNCHANGED vars
        /\ unreported' = IF Known(j) THEN unreported \ {j} ELSE unreported \cup {j}
        /\ executing' = [executing EXCEPT ![p] = Nothing]
  BY <1>2 DEF Finish, Terminal
<1>4. \A k \in JobIds \ {j} : SaidToRun(k) => Accounted(k)
  BY DEF RunningInv, RunningIsAccounted
<1>5. /\ \A k \in JobIds \ {j} : k \in unreported' <=> k \in unreported
      /\ \A q \in Pollers \ {p} : executing'[q] = executing[q]
  BY <1>1, <1>3
<1>6. CASE ~Known(j)
  <2>1. UNCHANGED <<activeJobs, persisted>> /\ j \in unreported'
    BY <1>3, <1>6 DEF vars
  <2> QED
    BY <1>2, <1>4, <1>5, <2>1 DEF RunningIsAccounted, SaidToRun, IsRunning, Accounted
<1>7. CASE Known(j)
  <2>1. EndJobExecution(j, outcome) /\ UNCHANGED creations
    BY <1>3, <1>7 DEF EndJobExecution
  <2>2. CASE activeJobs[j].trigger \in OneTime
    <3>1. Retire(j, [activeJobs[j] EXCEPT !.status = outcome, !.updated = now])
      BY <2>1, <2>2 DEF EndJobExecution
    <3>2. NothingStarts /\ ~IsRunning(activeJobs'[j]) /\ ~IsRunning(persisted'[j])
      BY <1>1, <1>7, <2>1, <3>1, RetireStartsNothing
    <3> QED
      BY <1>2, <1>4, <1>5, <3>2 DEF RunningIsAccounted, NothingStarts, SaidToRun, IsRunning, Accounted
  <2>3. CASE activeJobs[j].trigger \notin OneTime
    <3>1. PICK nextRun \in NextRuns(activeJobs[j].trigger, now) : Amend(j, Rescheduled(j, nextRun))
      BY <2>1, <2>3 DEF EndJobExecution
    <3>2. nextRun \in RunTimes \cup {NoRun}
      <4>1. activeJobs[j].trigger \in Triggers
        BY <1>1, <1>7, KnownIsJob DEF Job
      <4> QED
        BY <4>1, NextRunsType
    <3>3. /\ \A k \in JobIds \ {j} : activeJobs'[k] = activeJobs[k] /\ persisted'[k] = persisted[k]
          /\ ~IsRunning(activeJobs'[j]) /\ ~IsRunning(persisted'[j])
      BY <1>1, <1>7, <3>1, <3>2, RescheduledRecords
    <3> QED
      BY <1>2, <1>4, <1>5, <3>3 DEF RunningIsAccounted, SaidToRun, IsRunning, Accounted
  <2> QED
    BY <2>2, <2>3
<1> QED
  BY <1>6, <1>7

LEMMA StepKeepsRunning ==
  ASSUME RunningInv, ~PersistenceFails, [ExecutionNext]_allVars
  PROVE  RunningInv'
<1>1. ExecutionTypeOK /\ ExecutionTypeOK' /\ TypeOK
  BY ExecutionStepKeepsTypes DEF RunningInv, ExecutionTypeOK
<1>2. ASSUME NothingStarts, UNCHANGED <<executing, unreported>> PROVE RunningIsAccounted'
  BY <1>2 DEF NothingStarts, RunningInv, RunningIsAccounted, Accounted, SaidToRun, IsRunning
<1>3. ASSUME UNCHANGED <<activeJobs, persisted, executing, unreported>> PROVE RunningIsAccounted'
  BY <1>3 DEF RunningInv, RunningIsAccounted, SaidToRun, IsRunning, Accounted
<1>4. ASSUME NEW p \in Pollers, Poll(p) PROVE RunningIsAccounted'
  BY <1>1, <1>2, <1>4, PollStartsNothing DEF Poll
<1>5. ASSUME NEW p \in Pollers, Begin(p) PROVE RunningIsAccounted'
  BY <1>5, BeginKeepsRunning
<1>6. ASSUME NEW p \in Pollers, Abort(p) PROVE RunningIsAccounted'
  BY <1>3, <1>6 DEF Abort, vars
<1>7. ASSUME NEW p \in Pollers, NEW success \in BOOLEAN, Finish(p, success) PROVE RunningIsAccounted'
  BY <1>7, FinishKeepsRunning
<1>8. ASSUME NEW j \in JobIds, Reschedule(j) PROVE RunningIsAccounted'
  BY <1>1, <1>2, <1>8, UpdateStartsNothing DEF Reschedule
<1>9. ASSUME UserOp /\ UNCHANGED pollerVars PROVE RunningIsAccounted'
  BY <1>1, <1>2, <1>9, UserOpStartsNothing DEF pollerVars
<1>10. ASSUME Tick /\ UNCHANGED pollerVars PROVE RunningIsAccounted'
  BY <1>3, <1>10 DEF Tick, pollerVars
<1>11. ASSUME RecoverJobs /\ UNCHANGED pollerVars PROVE RunningIsAccounted'
  <2>1. \A k \in JobIds : activeJobs'[k] = activeJobs[k] \/ activeJobs'[k] = persisted[k]
    BY <1>11 DEF RecoverJobs
  <2>2. UNCHANGED <<persisted, executing, unreported>>
    BY <1>11 DEF RecoverJobs, pollerVars
  <2> QED
    BY <2>1, <2>2 DEF RunningInv, RunningIsAccounted, SaidToRun, IsRunning, Accounted
<1>12. ASSUME ProcessCrash PROVE RunningIsAccounted'
  <2>1. /\ \A k \in JobIds : activeJobs'[k] = NoJob
        /\ persisted' = persisted
        /\ unreported' = unreported \cup ({executing[p] : p \in Pollers} \ {Nothing})
    BY <1>12 DEF ProcessCrash, Crash, Without
  <2>2. \A k \in JobIds : Accounted(k) => k \in unreported'
    BY <2>1, ExecutionAssumption DEF Accounted
  <2> QED
    BY <2>1, <2>2 DEF RunningInv, RunningIsAccounted, SaidToRun, IsRunning, Accounted
<1>13. ASSUME UNCHANGED allVars PROVE RunningIsAccounted'
  BY <1>3, <1>13 DEF allVars, vars, pollerVars
<1>14. RunningIsAccounted'
  BY <1>4, <1>5, <1>6, <1>7, <1>8, <1>9, <1>10, <1>11, <1>12, <1>13 DEF ExecutionNext
<1> QED
  BY <1>1, <1>14 DEF RunningInv

\* When no write of the store is lost, a job in status RUNNING is being executed or
\* its end could not be reported: for any number of pollers, with identifiers used
\* again and with recoveries of a process at work.
THEOREM RunningIsExecutedCorrect ==
  ASSUME ~PersistenceFails
  PROVE  ExecutionSpec => []RunningIsExecuted
<1>1. ExecutionInit => RunningInv
  <2>1. ExecutionInit => \A j \in JobIds : ~SaidToRun(j)
    BY DEF ExecutionInit, Init, SaidToRun, IsRunning
  <2> QED
    BY <2>1, ExecutionInitTypes DEF RunningInv, RunningIsAccounted
<1>2. RunningInv /\ [ExecutionNext]_allVars => RunningInv'
  BY StepKeepsRunning
<1>3. RunningInv => RunningIsExecuted
  BY DEF RunningInv, RunningIsAccounted, RunningIsExecuted, SaidToRun, IsRunning, Accounted, Active, Known
<1> QED
  BY <1>1, <1>2, <1>3, PTL DEF ExecutionSpec

-----------------------------------------------------------------------------
(* A plan is executed once per schedule                                      *)

\* One poller, identifiers that are not used again, and no recovery while the
\* scheduler is at work: without the first, two polls list the same job.
OnceSettings ==
  /\ \A p, q \in Pollers : p = q
  /\ MaxCreates = 1
  /\ ~RecoverWhileRunning

\* The jobs of a list are different jobs, whose plans are still to be executed.
ListIsFresh ==
  \A p \in Pollers : \A i, k \in DOMAIN queue[p] :
    /\ runs[queue[p][i]] = 0
    /\ creations[queue[p][i]] # 0
    /\ i # k => queue[p][i] # queue[p][k]

\* A plan that was executed is of a job that has ended, unless it is executed now.
PlanIsDue ==
  \A j \in JobIds : Unfinished(j) /\ (\A p \in Pollers : executing[p] # j) => runs[j] = 0

UncreatedIsFresh ==
  \A j \in JobIds : creations[j] = 0 => ~Known(j) /\ persisted[j] = NoJob /\ runs[j] = 0

\* A new process has executed nothing.
DownIsFresh == ~up => \A j \in JobIds : runs[j] = 0

OnceInv ==
  /\ ExecutionTypeOK
  /\ ListIsFresh
  /\ PlanIsDue
  /\ UncreatedIsFresh
  /\ DownIsFresh
  /\ RunsOncePerSchedule

\* The parts of the invariant besides the types.
OnceParts == ListIsFresh /\ PlanIsDue /\ UncreatedIsFresh /\ DownIsFresh /\ RunsOncePerSchedule

\* What starts nothing leaves the plans that were executed and the lists valid.
LEMMA NothingStartsKeepsOnce ==
  ASSUME OnceSettings, OnceInv, NothingStarts, UNCHANGED <<queue, executing, runs, up>>
  PROVE  OnceParts'
<1>1. \A k \in JobIds : creations[k] < MaxCreates => creations[k] = 0
  BY DEF OnceInv, ExecutionTypeOK, TypeOK, OnceSettings
<1>2. \A p \in Pollers : \A i \in DOMAIN queue[p] : queue[p][i] \in JobIds
  BY DEF OnceInv, ExecutionTypeOK
<1>3. ListIsFresh'
  BY <1>2 DEF OnceInv, ListIsFresh, NothingStarts
<1>4. PlanIsDue'
  BY <1>1 DEF OnceInv, PlanIsDue, UncreatedIsFresh, NothingStarts, Unfinished, Known
<1>5. UncreatedIsFresh'
  BY DEF OnceInv, UncreatedIsFresh, NothingStarts, Known
<1>6. DownIsFresh' /\ RunsOncePerSchedule'
  BY DEF OnceInv, DownIsFresh, RunsOncePerSchedule
<1> QED
  BY <1>3, <1>4, <1>5, <1>6 DEF OnceParts

LEMMA PollKeepsOnce ==
  ASSUME OnceSettings, OnceInv, NEW p \in Pollers, Poll(p)
  PROVE  OnceParts'
<1>1. PICK list \in SetToSeqs(Ready) : queue' = [queue EXCEPT ![p] = list]
  BY DEF Poll
<1>2. /\ list \in [1 .. Cardinality(Ready) -> Ready]
      /\ \A i, k \in DOMAIN list : i # k => list[i] # list[k]
  BY <1>1 DEF SetToSeqs
<1>3. ASSUME NEW j \in Ready PROVE j \in JobIds /\ runs[j] = 0 /\ creations[j] # 0
  <2>1. j \in JobIds /\ Unfinished(j) /\ Known(j)
    BY DEF Ready, Due, Unfinished, Finished, Terminal
  <2>2. \A q \in Pollers : executing[q] # j
    BY <2>1, ExecutionAssumption DEF Poll, OnceSettings
  <2> QED
    BY <2>1, <2>2 DEF OnceInv, PlanIsDue, UncreatedIsFresh
<1>4. NothingStarts /\ UNCHANGED <<executing, runs, up, creations>>
  BY PollStartsNothing DEF Poll, OnceInv, ExecutionTypeOK
<1>5. ListIsFresh'
  <2>1. queue'[p] = list /\ \A q \in Pollers : q = p
    BY <1>1 DEF OnceInv, ExecutionTypeOK, OnceSettings
  <2>2. \A i \in DOMAIN list : list[i] \in Ready
    BY <1>2
  <2> QED
    BY <1>2, <1>3, <1>4, <2>1, <2>2 DEF ListIsFresh
<1>6. \A k \in JobIds : creations[k] < MaxCreates => creations[k] = 0
  BY DEF OnceInv, ExecutionTypeOK, TypeOK, OnceSettings
<1>7. PlanIsDue'
  BY <1>4, <1>6 DEF OnceInv, PlanIsDue, UncreatedIsFresh, NothingStarts, Unfinished, Known
<1>8. UncreatedIsFresh'
  BY <1>4 DEF OnceInv, UncreatedIsFresh, NothingStarts, Known
<1>9. DownIsFresh' /\ RunsOncePerSchedule'
  BY <1>4 DEF OnceInv, DownIsFresh, RunsOncePerSchedule
<1> QED
  BY <1>5, <1>7, <1>8, <1>9 DEF OnceParts

LEMMA BeginKeepsOnce ==
  ASSUME OnceSettings, OnceInv, NEW p \in Pollers, Begin(p)
  PROVE  OnceParts'
<1>1. queue[p] \in Seq(JobIds) /\ queue[p] # << >>
  BY DEF OnceInv, ExecutionTypeOK, Begin
<1>2. /\ Head(queue[p]) \in JobIds /\ Head(queue[p]) = queue[p][1] /\ 1 \in DOMAIN queue[p]
      /\ Tail(queue[p]) \in Seq(JobIds)
      /\ \A i \in DOMAIN Tail(queue[p]) : /\ i \in Nat /\ i + 1 \in DOMAIN queue[p]
                                          /\ i + 1 # 1 /\ Tail(queue[p])[i] = queue[p][i + 1]
  BY <1>1
<1>3. PICK j \in JobIds : j = Head(queue[p])
  BY <1>2
<1>4. /\ executing' = [executing EXCEPT ![p] = j] /\ runs' = [runs EXCEPT ![j] = @ + 1]
      /\ queue' = [queue EXCEPT ![p] = Tail(queue[p])] /\ up /\ executing[p] = Nothing
  BY <1>3 DEF Begin
<1>5. runs[j] = 0 /\ creations[j] # 0
  BY <1>2, <1>3 DEF OnceInv, ListIsFresh
<1>6. runs'[j] = 1 /\ \A k \in JobIds \ {j} : runs'[k] = runs[k]
  BY <1>4, <1>5 DEF OnceInv, ExecutionTypeOK
<1>7. executing'[p] = j /\ queue'[p] = Tail(queue[p]) /\ \A q \in Pollers : q = p
  BY <1>4 DEF OnceInv, ExecutionTypeOK, OnceSettings
<1>8. /\ \A k \in JobIds \ {j} : activeJobs'[k] = activeJobs[k] /\ persisted'[k] = persisted[k]
      /\ UNCHANGED creations
  BY <1>3, BeginRecords DEF OnceInv
<1>9. ListIsFresh'
  <2>1. ASSUME NEW i \in DOMAIN Tail(queue[p])
        PROVE  /\ Tail(queue[p])[i] \in JobIds \ {j}
               /\ runs[Tail(queue[p])[i]] = 0 /\ creations[Tail(queue[p])[i]] # 0
    <3>1. queue[p][i + 1] # queue[p][1] /\ runs[queue[p][i + 1]] = 0 /\ creations[queue[p][i + 1]] # 0
      BY <1>2 DEF OnceInv, ListIsFresh
    <3>2. Tail(queue[p])[i] \in JobIds
      BY <1>2
    <3> QED
      BY <1>2, <1>3, <3>1, <3>2
  <2>2. ASSUME NEW i \in DOMAIN Tail(queue[p]), NEW k \in DOMAIN Tail(queue[p]), i # k
        PROVE  Tail(queue[p])[i] # Tail(queue[p])[k]
    <3>1. i + 1 # k + 1
      BY <1>2, <2>2
    <3> QED
      BY <1>2, <3>1 DEF OnceInv, ListIsFresh
  <2>3. \A i \in DOMAIN Tail(queue[p]) : /\ runs'[Tail(queue[p])[i]] = 0
                                         /\ creations'[Tail(queue[p])[i]] # 0
    BY <1>6, <1>8, <2>1
  <2>4. \A i, k \in DOMAIN Tail(queue[p]) : i # k => Tail(queue[p])[i] # Tail(queue[p])[k]
    BY <2>2
  <2>5. \A q \in Pollers : queue'[q] = Tail(queue[p])
    BY <1>7
  <2> QED
    BY <2>3, <2>4, <2>5 DEF ListIsFresh
<1>10. PlanIsDue'
  <2>1. \A k \in JobIds \ {j} : Unfinished(k) /\ (\A q \in Pollers : executing[q] # k) => runs[k] = 0
    BY DEF OnceInv, PlanIsDue
  <2>2. \A q \in Pollers : executing[q] = Nothing
    BY <1>4, <1>7
  <2> QED
    BY <1>6, <1>7, <1>8, <2>1, <2>2, ExecutionAssumption DEF PlanIsDue, Unfinished, Known
<1>11. UncreatedIsFresh'
  BY <1>5, <1>6, <1>8 DEF OnceInv, UncreatedIsFresh, Known
<1>12. DownIsFresh'
  <2>1. up'
    BY DEF Begin, StartJobExecution, vars
  <2> QED
    BY <2>1 DEF DownIsFresh
<1>13. RunsOncePerSchedule'
  BY <1>6 DEF OnceInv, RunsOncePerSchedule
<1> QED
  BY <1>9, <1>10, <1>11, <1>12, <1>13 DEF OnceParts

LEMMA FinishKeepsOnce ==
  ASSUME OnceSettings, OnceInv, NEW p \in Pollers, NEW success \in BOOLEAN, Finish(p, success)
  PROVE  OnceParts'
<1>1. /\ TypeOK /\ executing[p] \in JobIds /\ Nothing \notin JobIds
      /\ runs \in [JobIds -> Nat] /\ \A q \in Pollers : queue[q] \in Seq(JobIds)
  BY ExecutionAssumption DEF OnceInv, ExecutionTypeOK, Finish
<1>2. PICK j \in JobIds : j = executing[p]
  BY <1>1
<1>3. PICK outcome \in Terminal :
        IF Known(j) THEN EndJobExecution(j, outcome) ELSE UNCHANGED vars
  BY <1>2 DEF Finish, Terminal
<1>4. /\ runs' = IF Known(j) /\ activeJobs[j].trigger \notin OneTime THEN [runs EXCEPT ![j] = 0] ELSE runs
      /\ UNCHANGED queue /\ up
  BY <1>2 DEF Finish
<1>5. /\ \A k \in JobIds \ {j} : runs'[k] = runs[k]
      /\ runs'[j] \in {runs[j], 0}
  BY <1>1, <1>4
<1>6. \A k \in JobIds \ {j} : Unfinished(k) => runs[k] = 0
  <2>1. \A q \in Pollers : executing[q] = j
    BY <1>2 DEF OnceSettings
  <2> QED
    BY <2>1 DEF OnceInv, PlanIsDue
<1>7. UNCHANGED creations /\ up'
  BY <1>3, <1>4 DEF EndJobExecution, vars
<1>8. \A q \in Pollers : \A i \in DOMAIN queue[q] : queue[q][i] \in JobIds
  BY <1>1
<1>9. ListIsFresh'
  BY <1>4, <1>5, <1>7, <1>8 DEF OnceInv, ListIsFresh
<1>10. DownIsFresh' /\ RunsOncePerSchedule'
  BY <1>5, <1>7 DEF OnceInv, DownIsFresh, RunsOncePerSchedule
<1>11. \A k \in JobIds : creations[k] < MaxCreates => creations[k] = 0
  BY DEF OnceInv, ExecutionTypeOK, TypeOK, OnceSettings
<1>12. CASE ~Known(j)
  <2>1. UNCHANGED <<activeJobs, persisted>> /\ ~Unfinished(j)
    BY <1>3, <1>12 DEF vars, Unfinished
  <2>2. PlanIsDue'
    BY <1>5, <1>6, <2>1 DEF PlanIsDue, Unfinished, Known
  <2>3. UncreatedIsFresh'
    BY <1>5, <1>7, <2>1 DEF OnceInv, UncreatedIsFresh, Known
  <2> QED
    BY <1>9, <1>10, <2>2, <2>3 DEF OnceParts
<1>13. CASE Known(j) /\ activeJobs[j].trigger \in OneTime
  <2>1. NothingStarts /\ ~Unfinished(j)'
    <3>1. Retire(j, [activeJobs[j] EXCEPT !.status = outcome, !.updated = now])
      BY <1>3, <1>13 DEF EndJobExecution
    <3>2. NothingStarts /\ ~Unfinished(j)'
      BY <1>1, <1>7, <1>13, <3>1, RetireStartsNothing
    <3> QED
      BY <3>2
  <2>2. PlanIsDue'
    BY <1>5, <1>6, <1>11, <2>1 DEF OnceInv, PlanIsDue, UncreatedIsFresh, NothingStarts, Unfinished, Known
  <2>3. UncreatedIsFresh'
    BY <1>5, <1>7, <2>1 DEF OnceInv, UncreatedIsFresh, NothingStarts, Known
  <2> QED
    BY <1>9, <1>10, <2>2, <2>3 DEF OnceParts
<1>14. CASE Known(j) /\ activeJobs[j].trigger \notin OneTime
  <2>1. PICK nextRun \in NextRuns(activeJobs[j].trigger, now) : Amend(j, Rescheduled(j, nextRun))
    BY <1>3, <1>14 DEF EndJobExecution
  <2>2. nextRun \in RunTimes \cup {NoRun}
    <3>1. activeJobs[j].trigger \in Triggers
      BY <1>1, <1>14, KnownIsJob DEF Job
    <3> QED
      BY <3>1, NextRunsType
  <2>3. \A k \in JobIds \ {j} : activeJobs'[k] = activeJobs[k] /\ persisted'[k] = persisted[k]
    BY <1>1, <1>14, <2>1, <2>2, RescheduledRecords
  <2>4. runs'[j] = 0 /\ creations[j] # 0
    BY <1>1, <1>4, <1>14 DEF OnceInv, UncreatedIsFresh
  <2>5. PlanIsDue'
    BY <1>5, <1>6, <2>3, <2>4 DEF PlanIsDue, Unfinished, Known
  <2>6. UncreatedIsFresh'
    BY <1>5, <1>7, <2>3, <2>4 DEF OnceInv, UncreatedIsFresh, Known
  <2> QED
    BY <1>9, <1>10, <2>5, <2>6 DEF OnceParts
<1> QED
  BY <1>12, <1>13, <1>14

LEMMA RescheduleKeepsOnce ==
  ASSUME OnceSettings, OnceInv, NEW j \in JobIds, Reschedule(j)
  PROVE  OnceParts'
<1>1. NothingStarts /\ UNCHANGED <<queue, executing, up>>
  BY UpdateStartsNothing DEF Reschedule, UpdateJob, OnceInv, ExecutionTypeOK
<1>2. runs'[j] = 0 /\ \A k \in JobIds \ {j} : runs'[k] = runs[k]
  BY DEF Reschedule, OnceInv, ExecutionTypeOK
<1>3. \A k \in JobIds : creations[k] < MaxCreates => creations[k] = 0
  BY DEF OnceInv, ExecutionTypeOK, TypeOK, OnceSettings
<1>4. \A p \in Pollers : \A i \in DOMAIN queue[p] : queue[p][i] \in JobIds
  BY DEF OnceInv, ExecutionTypeOK
<1>5. ListIsFresh'
  BY <1>1, <1>2, <1>4 DEF OnceInv, ListIsFresh, NothingStarts
<1>6. PlanIsDue'
  BY <1>1, <1>2, <1>3 DEF OnceInv, PlanIsDue, UncreatedIsFresh, NothingStarts, Unfinished, Known
<1>7. UncreatedIsFresh'
  BY <1>1, <1>2 DEF OnceInv, UncreatedIsFresh, NothingStarts, Known
<1>8. DownIsFresh' /\ RunsOncePerSchedule'
  BY <1>1, <1>2 DEF OnceInv, DownIsFresh, RunsOncePerSchedule
<1> QED
  BY <1>5, <1>6, <1>7, <1>8 DEF OnceParts

LEMMA EnvironmentKeepsOnce ==
  ASSUME OnceSettings, OnceInv,
         ProcessCrash \/ ((Tick \/ RecoverJobs) /\ UNCHANGED pollerVars)
  PROVE  OnceParts'
<1>1. CASE ProcessCrash
  <2>1. /\ \A k \in JobIds : activeJobs'[k] = NoJob /\ runs'[k] = 0
        /\ \A p \in Pollers : queue'[p] = << >>
        /\ UNCHANGED <<persisted, creations>>
    BY <1>1 DEF ProcessCrash, Crash, Without
  <2>2. ListIsFresh'
    BY <2>1 DEF ListIsFresh
  <2>3. PlanIsDue' /\ DownIsFresh' /\ RunsOncePerSchedule'
    BY <2>1 DEF PlanIsDue, DownIsFresh, RunsOncePerSchedule
  <2>4. UncreatedIsFresh'
    BY <2>1 DEF OnceInv, UncreatedIsFresh, Known
  <2> QED
    BY <2>2, <2>3, <2>4 DEF OnceParts
<1>2. CASE Tick /\ UNCHANGED pollerVars
  <2>1. UNCHANGED <<activeJobs, persisted, creations, queue, executing, runs, up>>
    BY <1>2 DEF Tick, pollerVars
  <2>2. ListIsFresh' /\ PlanIsDue'
    BY <2>1 DEF OnceInv, ListIsFresh, PlanIsDue, Unfinished, Known
  <2>3. UncreatedIsFresh' /\ DownIsFresh' /\ RunsOncePerSchedule'
    BY <2>1 DEF OnceInv, UncreatedIsFresh, DownIsFresh, RunsOncePerSchedule, Known
  <2> QED
    BY <2>2, <2>3 DEF OnceParts
<1>3. CASE RecoverJobs /\ UNCHANGED pollerVars
  <2>1. /\ UNCHANGED <<persisted, creations, queue, executing, runs>> /\ ~up /\ up'
        /\ \A k \in JobIds : activeJobs'[k] = activeJobs[k] \/ activeJobs'[k] = persisted[k]
    BY <1>3 DEF RecoverJobs, pollerVars, OnceSettings
  <2>2. \A k \in JobIds : runs[k] = 0
    BY <2>1 DEF OnceInv, DownIsFresh
  <2>3. ListIsFresh'
    BY <2>1 DEF OnceInv, ListIsFresh
  <2>4. PlanIsDue' /\ DownIsFresh' /\ RunsOncePerSchedule'
    BY <2>1, <2>2 DEF PlanIsDue, DownIsFresh, RunsOncePerSchedule
  <2>5. UncreatedIsFresh'
    BY <2>1, <2>2 DEF OnceInv, UncreatedIsFresh, Known
  <2> QED
    BY <2>3, <2>4, <2>5 DEF OnceParts
<1> QED
  BY <1>1, <1>2, <1>3

LEMMA StepKeepsOnce ==
  ASSUME OnceSettings, OnceInv, [ExecutionNext]_allVars
  PROVE  OnceInv'
<1>1. ExecutionTypeOK /\ ExecutionTypeOK' /\ TypeOK
  BY ExecutionStepKeepsTypes DEF OnceInv, ExecutionTypeOK
<1>2. ASSUME NEW p \in Pollers, Poll(p) PROVE OnceParts'
  BY <1>2, PollKeepsOnce
<1>3. ASSUME NEW p \in Pollers, Begin(p) PROVE OnceParts'
  BY <1>3, BeginKeepsOnce
<1>4. ASSUME NEW p \in Pollers, Abort(p) PROVE OnceParts'
  <2>1. /\ UNCHANGED <<activeJobs, persisted, creations, executing, runs, up>>
        /\ queue' = [queue EXCEPT ![p] = << >>]
    BY <1>4 DEF Abort, vars
  <2>2. \A q \in Pollers : queue'[q] = << >> \/ queue'[q] = queue[q]
    BY <2>1 DEF OnceInv, ExecutionTypeOK
  <2>3. ListIsFresh'
    BY <2>1, <2>2 DEF OnceInv, ListIsFresh
  <2>4. PlanIsDue' /\ UncreatedIsFresh' /\ DownIsFresh' /\ RunsOncePerSchedule'
    BY <2>1 DEF OnceInv, PlanIsDue, UncreatedIsFresh, DownIsFresh, RunsOncePerSchedule, Unfinished, Known
  <2> QED
    BY <2>3, <2>4 DEF OnceParts
<1>5. ASSUME NEW p \in Pollers, NEW success \in BOOLEAN, Finish(p, success) PROVE OnceParts'
  BY <1>5, FinishKeepsOnce
<1>6. ASSUME NEW j \in JobIds, Reschedule(j) PROVE OnceParts'
  BY <1>6, RescheduleKeepsOnce
<1>7. ASSUME UserOp /\ UNCHANGED pollerVars PROVE OnceParts'
  <2>1. UNCHANGED <<queue, executing, runs>> /\ UserOp
    BY <1>7 DEF pollerVars
  <2>2. UNCHANGED up
    BY <2>1 DEF UserOp, CreateJob, PauseJob, ResumeJob, CancelJob, RemoveJob, ArchiveJob, SetEnabled,
                Cleanup, ExpireJobs, CleanupExpiredJobs, Clear
  <2> QED
    BY <1>1, <2>1, <2>2, UserOpStartsNothing, NothingStartsKeepsOnce
<1>8. ASSUME ProcessCrash \/ ((Tick \/ RecoverJobs) /\ UNCHANGED pollerVars) PROVE OnceParts'
  BY <1>8, EnvironmentKeepsOnce
<1>9. ASSUME UNCHANGED allVars PROVE OnceParts'
  <2>1. UNCHANGED <<activeJobs, persisted, creations, queue, executing, runs, up>>
    BY <1>9 DEF allVars, vars, pollerVars
  <2>2. NothingStarts
    BY <2>1 DEF NothingStarts, SaidToRun, IsRunning, Unfinished, Known
  <2> QED
    BY <2>1, <2>2, NothingStartsKeepsOnce
<1>10. OnceParts'
  BY <1>2, <1>3, <1>4, <1>5, <1>6, <1>7, <1>8, <1>9 DEF ExecutionNext
<1> QED
  BY <1>1, <1>10 DEF OnceInv, OnceParts

\* Between two schedulings a job's plan is executed at most once, when one poller
\* runs the jobs, no identifier is used again and nothing is recovered while the
\* scheduler is at work; writes of the store may be lost.
THEOREM RunsOncePerScheduleCorrect ==
  ASSUME OnceSettings
  PROVE  ExecutionSpec => []RunsOncePerSchedule
<1>1. ExecutionInit => OnceInv
  <2> SUFFICES ASSUME ExecutionInit PROVE OnceInv
    OBVIOUS
  <2>1. /\ \A p \in Pollers : queue[p] = << >>
        /\ \A j \in JobIds : /\ runs[j] = 0 /\ activeJobs[j] = NoJob
                             /\ persisted[j] = NoJob
    BY DEF ExecutionInit, Init
  <2>2. ListIsFresh
    BY <2>1 DEF ListIsFresh
  <2>3. PlanIsDue /\ UncreatedIsFresh /\ DownIsFresh /\ RunsOncePerSchedule
    BY <2>1 DEF PlanIsDue, UncreatedIsFresh, DownIsFresh, RunsOncePerSchedule, Known
  <2> QED
    BY <2>2, <2>3, ExecutionInitTypes DEF OnceInv
<1>2. OnceInv /\ [ExecutionNext]_allVars => OnceInv'
  BY StepKeepsOnce
<1>3. OnceInv => RunsOncePerSchedule
  BY DEF OnceInv
<1> QED
  BY <1>1, <1>2, <1>3, PTL DEF ExecutionSpec
================================================================================
