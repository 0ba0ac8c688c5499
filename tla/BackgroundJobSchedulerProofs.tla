--------------------- MODULE BackgroundJobSchedulerProofs ---------------------
(***************************************************************************)
(* Theorems about the background job scheduler, for every set of jobs and  *)
(* every configuration: its type invariant, that the store holds what      *)
(* memory holds, that a job that has ended stays ended, and that only a    *)
(* recovery takes the scheduler beyond its capacity.                       *)
(***************************************************************************)
EXTENDS BackgroundJobScheduler, FiniteSetTheorems, SequenceTheorems, TLAPS

-----------------------------------------------------------------------------
(* What the helpers of the model return                                      *)

\* A sequence made of the elements at some positions of a sequence: it is no
\* longer than that sequence and holds nothing else.
LEMMA RestrictionsLemma ==
  ASSUME NEW S, NEW s \in Seq(S), NEW keep \in SUBSET DOMAIN s,
         NEW r \in Restrictions(s, keep)
  PROVE  /\ r \in Seq(S)
         /\ Len(r) <= Len(s)
         /\ Range(r) \subseteq {s[i] : i \in keep}
<1> DEFINE n == Cardinality(keep)
<1>1. /\ Len(s) \in Nat /\ DOMAIN s = 1 .. Len(s)
      /\ \A i \in 1 .. Len(s) : s[i] \in S
  BY LenProperties, ElementOfSeq
<1>2. IsFiniteSet(1 .. Len(s)) /\ Cardinality(1 .. Len(s)) = Len(s)
  BY <1>1, FS_Interval
<1>3. n \in Nat /\ n <= Len(s)
  BY <1>1, <1>2, FS_Subset, FS_CardinalityType
<1>4. PICK f \in [1 .. n -> keep] : r = [i \in 1 .. n |-> s[f[i]]]
  BY DEF Restrictions
<1>5. \A i \in 1 .. n : r[i] \in S
  <2>1. SUFFICES ASSUME NEW i \in 1 .. n PROVE r[i] \in S
    OBVIOUS
  <2>2. f[i] \in 1 .. Len(s) /\ r[i] = s[f[i]]
    BY <1>1, <1>4
  <2> QED
    BY <1>1, <2>2
<1>6. r \in Seq(S) /\ Len(r) = n
  <2>1. r \in [1 .. n -> S]
    BY <1>4, <1>5
  <2>2. r \in Seq(S)
    BY <1>3, <2>1, IsASeq
  <2>3. DOMAIN r = 1 .. n /\ DOMAIN r = 1 .. Len(r) /\ Len(r) \in Nat
    BY <2>1, <2>2, LenProperties
  <2> HIDE DEF n
  <2> QED
    BY <1>3, <2>2, <2>3
<1>7. Range(r) \subseteq {s[i] : i \in keep}
  BY <1>4 DEF Range
<1> QED
  BY <1>3, <1>6, <1>7

\* A deque of bounded length keeps the end of what is appended to it.
LEMMA KeepLatestLemma ==
  ASSUME NEW S, NEW s \in Seq(S)
  PROVE  /\ KeepLatest(s) \in Seq(S)
         /\ Len(KeepLatest(s)) <= MaximumHistory
         /\ Range(KeepLatest(s)) \subseteq Range(s)
<1> DEFINE m == Len(s) - MaximumHistory + 1
<1>1. MaximumHistory \in Nat \ {0} /\ Len(s) \in Nat
  BY SchedulerAssumption, LenProperties
<1>2. CASE Len(s) <= MaximumHistory
  BY <1>1, <1>2 DEF KeepLatest
<1>3. CASE Len(s) > MaximumHistory
  <2>1. m \in 1 .. Len(s) + 1 /\ Len(s) \in m - 1 .. Len(s)
    BY <1>1, <1>3
  <2>2. KeepLatest(s) = SubSeq(s, m, Len(s))
    BY <1>1, <1>3 DEF KeepLatest
  <2>3. /\ KeepLatest(s) \in Seq(S)
        /\ Len(KeepLatest(s)) = MaximumHistory
        /\ \A i \in 1 .. MaximumHistory : KeepLatest(s)[i] = s[m + i - 1]
    BY <1>1, <2>1, <2>2, SubSeqProperties
  <2>4. ASSUME NEW i \in 1 .. MaximumHistory
        PROVE  KeepLatest(s)[i] \in Range(s)
    <3>1. m + i - 1 \in DOMAIN s
      BY <1>1, <1>3, LenProperties
    <3> QED
      BY <2>3, <3>1 DEF Range
  <2>5. DOMAIN KeepLatest(s) = 1 .. MaximumHistory
    BY <2>3, LenProperties
  <2> QED
    BY <1>1, <2>3, <2>4, <2>5 DEF Range
<1> QED
  BY <1>1, <1>2, <1>3

EntriesOf(jobs) == {[id |-> j, job |-> jobs[j]] : j \in DOMAIN jobs}

\* Archiving adds the archived records to the history and nothing else.
LEMMA HistoriesLemma ==
  ASSUME NEW J \in SUBSET JobIds, NEW jobs \in [J -> Job],
         completedJobs \in Seq(Entry),
         NEW h \in HistoriesWith(jobs)
  PROVE  /\ h \in Seq(Entry)
         /\ Len(h) <= MaximumHistory
         /\ Range(h) \subseteq Range(completedJobs) \cup EntriesOf(jobs)
<1> DEFINE new == EntriesOf(jobs) \ Range(completedJobs)
           n == Cardinality(new)
<1>1. IsFiniteSet(J)
  BY SchedulerAssumption, FS_Subset
<1>2. DOMAIN jobs = J
  OBVIOUS
<1> DEFINE entry == [j \in J |-> [id |-> j, job |-> jobs[j]]]
<1>3. IsFiniteSet(EntriesOf(jobs))
  <2>1. entry \in Surjection(J, EntriesOf(jobs))
    BY <1>2 DEF Surjection, EntriesOf
  <2> QED
    BY <1>1, <2>1, FS_Surjection
<1>4. new \subseteq Entry /\ n \in Nat
  <2>1. new \subseteq Entry
    BY DEF EntriesOf, Entry
  <2>2. IsFiniteSet(new)
    BY <1>3, FS_Subset
  <2> QED
    BY <2>1, <2>2, FS_CardinalityType
<1>5. PICK s \in SetToSeqs(new) : h = KeepLatest(completedJobs \o s)
  BY DEF HistoriesWith, EntriesOf
<1>6. s \in [1 .. n -> new]
  BY DEF SetToSeqs
<1>7. s \in Seq(Entry) /\ Range(s) \subseteq new
  <2>1. DOMAIN s = 1 .. n /\ \A i \in 1 .. n : s[i] \in new
    BY <1>6
  <2>2. Range(s) \subseteq new
    BY <2>1 DEF Range
  <2>3. s = [i \in 1 .. n |-> s[i]]
    BY <1>6
  <2>4. s \in Seq(Entry)
    <3> HIDE DEF n, new
    <3> QED
      BY <1>4, <2>1, <2>3, IsASeq
  <2> QED
    BY <2>2, <2>4
<1>8. /\ completedJobs \o s \in Seq(Entry)
      /\ Range(completedJobs \o s) = Range(completedJobs) \cup Range(s)
  BY <1>7, ConcatProperties, RangeConcatenation
<1> QED
  BY <1>5, <1>7, <1>8, KeepLatestLemma

\* Calls of the persistence hook leave records behind; when none of them can fail
\* they leave exactly what was passed.
LEMMA StoresLemma ==
  ASSUME NEW store \in Records, NEW J \in SUBSET JobIds,
         NEW changes \in [J -> Job \cup {NoJob}],
         NEW new \in StoresWith(store, changes)
  PROVE  /\ new \in Records
         /\ ~PersistenceFails =>
              new = [j \in JobIds |-> IF j \in J THEN changes[j] ELSE store[j]]
<1>1. PICK lost \in (IF PersistenceFails THEN SUBSET DOMAIN changes ELSE {{}}) :
        new = [j \in JobIds |-> IF j \in DOMAIN changes \ lost THEN changes[j] ELSE store[j]]
  BY DEF StoresWith
<1>2. DOMAIN changes = J
  OBVIOUS
<1> QED
  BY <1>1, <1>2 DEF Records

-----------------------------------------------------------------------------
(* Type correctness                                                          *)

\* The part of the type invariant that an operation on jobs can disturb.
StoresOK ==
  /\ activeJobs \in Records
  /\ completedJobs \in Seq(Entry)
  /\ Len(completedJobs) <= MaximumHistory
  /\ persisted \in Records

LEMMA KnownIsJob ==
  ASSUME TypeOK, NEW j \in JobIds, Known(j)
  PROVE  activeJobs[j] \in Job
BY DEF TypeOK, Known, Records

LEMMA ArchiveType ==
  ASSUME TypeOK, NEW J \in SUBSET JobIds, NEW jobs \in [J -> Job], Archive(jobs)
  PROVE  StoresOK'
<1>1. activeJobs' \in Records
  BY DEF Archive, Without, Records, TypeOK
<1>2. completedJobs' \in Seq(Entry) /\ Len(completedJobs') <= MaximumHistory
  BY HistoriesLemma DEF Archive, TypeOK
<1>3. persisted' \in Records
  BY StoresLemma DEF Archive, Persist, TypeOK
<1> QED
  BY <1>1, <1>2, <1>3 DEF StoresOK

LEMMA AmendType ==
  ASSUME TypeOK, NEW j \in JobIds, NEW job \in Job, Amend(j, job)
  PROVE  StoresOK'
<1>1. activeJobs' \in Records
  BY DEF Amend, Records, TypeOK
<1>2. One(j, job) \in [{j} -> Job \cup {NoJob}]
  BY DEF One
<1>3. persisted' \in Records
  BY <1>2, StoresLemma DEF Amend, Persist, TypeOK
<1> QED
  BY <1>1, <1>3 DEF Amend, StoresOK, TypeOK

\* The schedules the calculator returns are values of the field.
LEMMA NextRunsType ==
  ASSUME NEW trigger \in Triggers, NEW t, NEW nextRun \in NextRuns(trigger, t)
  PROVE  nextRun \in RunTimes \cup {NoRun}
BY DEF NextRuns, Triggers

\* A change of an active job's status, flag, schedule or time stamp leaves a job.
LEMMA AmendedIsJob ==
  ASSUME TypeOK, NEW j \in JobIds, Known(j)
  PROVE  /\ \A status \in Statuses :
              [activeJobs[j] EXCEPT !.status = status, !.updated = now] \in Job
         /\ \A enabled \in BOOLEAN :
              [activeJobs[j] EXCEPT !.enabled = enabled, !.updated = now] \in Job
         /\ [activeJobs[j] EXCEPT !.updated = now] \in Job
         /\ \A trigger \in Triggers : \A nextRun \in RunTimes \cup {NoRun} :
              [activeJobs[j] EXCEPT !.trigger = trigger, !.nextRun = nextRun,
                                    !.updated = now] \in Job
         /\ \A status \in Statuses : \A nextRun \in RunTimes \cup {NoRun} :
              [activeJobs[j] EXCEPT !.status = status, !.nextRun = nextRun,
                                    !.updated = now] \in Job
<1>1. activeJobs[j] \in Job /\ now \in 0 .. MaxTime
  BY KnownIsJob DEF TypeOK
<1> QED
  BY <1>1 DEF Job

\* What each kind of amendment leaves alone.
LEMMA AmendedFields ==
  ASSUME NEW r \in Job, NEW status, NEW enabled, NEW trigger, NEW nextRun, NEW t
  PROVE  /\ [r EXCEPT !.status = status, !.updated = t].created = r.created
         /\ [r EXCEPT !.status = status, !.updated = t].status = status
         /\ [r EXCEPT !.enabled = enabled, !.updated = t].created = r.created
         /\ [r EXCEPT !.enabled = enabled, !.updated = t].status = r.status
         /\ [r EXCEPT !.updated = t].created = r.created
         /\ [r EXCEPT !.updated = t].status = r.status
         /\ [r EXCEPT !.trigger = trigger, !.nextRun = nextRun, !.updated = t].created = r.created
         /\ [r EXCEPT !.trigger = trigger, !.nextRun = nextRun, !.updated = t].status = r.status
         /\ [r EXCEPT !.status = status, !.nextRun = nextRun, !.updated = t].created = r.created
         /\ [r EXCEPT !.status = status, !.nextRun = nextRun, !.updated = t].status = status
<1>1. r = [status |-> r.status, trigger |-> r.trigger, enabled |-> r.enabled,
           nextRun |-> r.nextRun, updated |-> r.updated, created |-> r.created]
  BY DEF Job
<1> QED
  BY <1>1

LEMMA NewIsJob ==
  ASSUME TypeOK, NEW j \in JobIds, creations[j] < MaxCreates, NEW trigger \in Triggers,
         NEW enabled \in BOOLEAN, NEW nextRun \in NextRuns(trigger, now)
  PROVE  NewJob(j, trigger, enabled, nextRun) \in Job
<1>1. creations[j] + 1 \in 1 .. MaxCreates
  BY SchedulerAssumption DEF TypeOK
<1>2. nextRun \in RunTimes \cup {NoRun}
  BY NextRunsType
<1> QED
  BY <1>1, <1>2 DEF NewJob, Job, Statuses, TypeOK

\* The jobs cleanup archives.
LEMMA FinishedJobsType ==
  ASSUME TypeOK
  PROVE  /\ {k \in Active : Finished(activeJobs[k])} \in SUBSET JobIds
         /\ FinishedJobs \in [{k \in Active : Finished(activeJobs[k])} -> Job]
BY KnownIsJob DEF FinishedJobs, Active

LEMMA CreateType ==
  ASSUME TypeOK, NEW j \in JobIds, NEW trigger \in Triggers, NEW enabled \in BOOLEAN,
         CreateJob(j, trigger, enabled)
  PROVE  StoresOK' /\ creations' \in [JobIds -> 0 .. MaxCreates]
<1>1. PICK nextRun \in NextRuns(trigger, now) :
        LET job  == NewJob(j, trigger, enabled, nextRun)
            done == FinishedJobs
        IN \/ /\ HasRoom(Active)
              /\ Amend(j, job)
           \/ /\ ~HasRoom(Active)
              /\ HasRoom(Active \ DOMAIN done)
              /\ activeJobs' = [Without(DOMAIN done) EXCEPT ![j] = job]
              /\ completedJobs' \in HistoriesWith(done)
              /\ \E store \in StoresWith(persisted, done) :
                   persisted' \in StoresWith(store, One(j, job))
  BY DEF CreateJob
<1> DEFINE job  == NewJob(j, trigger, enabled, nextRun)
           done == FinishedJobs
           J    == {k \in Active : Finished(activeJobs[k])}
<1>2. creations[j] + 1 \in 1 .. MaxCreates
  BY SchedulerAssumption DEF CreateJob, TypeOK
<1>3. job \in Job
  BY NewIsJob DEF CreateJob
<1>4. done \in [J -> Job] /\ J \in SUBSET JobIds
  BY FinishedJobsType
<1> SUFFICES StoresOK'
  <2>1. creations' \in [JobIds -> 0 .. MaxCreates]
    BY <1>2 DEF CreateJob, TypeOK
  <2> QED
    BY <2>1
<1>5. CASE Amend(j, job)
  BY <1>3, <1>5, AmendType
<1>6. CASE /\ activeJobs' = [Without(DOMAIN done) EXCEPT ![j] = job]
           /\ completedJobs' \in HistoriesWith(done)
           /\ \E store \in StoresWith(persisted, done) :
                persisted' \in StoresWith(store, One(j, job))
  <2> HIDE DEF job, done, J
  <2>1. activeJobs' \in Records
    BY <1>3, <1>6 DEF Without, Records, TypeOK
  <2>2. completedJobs' \in Seq(Entry) /\ Len(completedJobs') <= MaximumHistory
    BY <1>4, <1>6, HistoriesLemma DEF TypeOK
  <2>3. PICK store \in StoresWith(persisted, done) :
          persisted' \in StoresWith(store, One(j, job))
    BY <1>6
  <2>4. store \in Records
    <3>1. done \in [J -> Job \cup {NoJob}]
      BY <1>4
    <3> QED
      BY <1>4, <3>1, StoresLemma DEF TypeOK
  <2>5. One(j, job) \in [{j} -> Job \cup {NoJob}]
    BY <1>3 DEF One
  <2>6. persisted' \in Records
    BY <2>3, <2>4, <2>5, StoresLemma
  <2> QED
    BY <2>1, <2>2, <2>6 DEF StoresOK
<1> QED
  BY <1>1, <1>5, <1>6

\* Most operations do one of two things to the stores: they amend the record of an
\* active job, or they archive some active jobs.  Either way the job stays the one
\* that was created, and with cleanup_history an amended job does not end.
AmendStep ==
  \E j \in JobIds : \E job \in Job :
    /\ Known(j)
    /\ Amend(j, job)
    /\ job.created = activeJobs[j].created
    /\ CleanupHistory /\ ~Finished(activeJobs[j]) => ~Finished(job)

ArchiveStep ==
  \E J \in SUBSET Active : \E jobs \in [J -> Job] :
    /\ Archive(jobs)
    /\ \A j \in J : jobs[j].created = activeJobs[j].created

AmendOrArchive == (AmendStep \/ ArchiveStep) /\ up /\ UNCHANGED <<up, now, creations>>

LEMMA RetireKind ==
  ASSUME NEW j \in JobIds, Known(j), NEW job \in Job, job.created = activeJobs[j].created,
         Retire(j, job)
  PROVE  AmendStep \/ ArchiveStep
<1>1. CASE CleanupHistory
  <2>1. One(j, job) \in [{j} -> Job] /\ {j} \in SUBSET Active /\ One(j, job)[j] = job
    BY DEF One, Active
  <2> QED
    BY <1>1, <2>1 DEF Retire, ArchiveStep
<1>2. CASE ~CleanupHistory
  BY <1>2 DEF Retire, AmendStep
<1> QED
  BY <1>1, <1>2

LEMMA AmendOrArchiveKeepsTypes ==
  ASSUME TypeOK, AmendOrArchive
  PROVE  TypeOK'
<1>1. CASE AmendStep
  BY <1>1, AmendType DEF AmendStep, AmendOrArchive, StoresOK, TypeOK
<1>2. CASE ArchiveStep
  <2>1. PICK J \in SUBSET Active : \E jobs \in [J -> Job] : Archive(jobs)
    BY <1>2 DEF ArchiveStep
  <2>2. J \in SUBSET JobIds
    BY DEF Active
  <2>3. StoresOK'
    BY <2>1, <2>2, ArchiveType
  <2> QED
    BY <2>3 DEF AmendOrArchive, StoresOK, TypeOK
<1> QED
  BY <1>1, <1>2 DEF AmendOrArchive

\* The operations that amend or archive.
AmendOrArchiveCall ==
  \/ \E j \in JobIds : UpdateJob(j) \/ PauseJob(j) \/ ResumeJob(j) \/ CancelJob(j) \/ ArchiveJob(j)
  \/ \E j \in JobIds, enabled \in BOOLEAN : SetEnabled(j, enabled)
  \/ Cleanup
  \/ ExpireJobs
  \/ \E j \in JobIds : StartJobExecution(j) \/ CompleteJobExecution(j) \/ FailJobExecution(j)

LEMMA Kinds ==
  ASSUME TypeOK, AmendOrArchiveCall
  PROVE  AmendOrArchive
<1> USE DEF Finished, Terminal
<1>1. ASSUME NEW j \in JobIds, UpdateJob(j) PROVE AmendOrArchive
  <2>1. Known(j) /\ activeJobs[j] \in Job
    BY <1>1, KnownIsJob DEF UpdateJob, Unfinished
  <2>2. CASE Amend(j, [activeJobs[j] EXCEPT !.updated = now])
    <3> DEFINE job == [activeJobs[j] EXCEPT !.updated = now]
    <3>1. job \in Job /\ job.created = activeJobs[j].created /\ job.status = activeJobs[j].status
      <4>1. job \in Job
        BY <2>1, AmendedIsJob
      <4>2. job.created = activeJobs[j].created /\ job.status = activeJobs[j].status
        BY <2>1, AmendedFields
      <4> QED
        BY <4>1, <4>2
    <3>2. AmendStep
      BY <2>1, <2>2, <3>1 DEF AmendStep
    <3> QED
      BY <1>1, <3>2 DEF UpdateJob, AmendOrArchive
  <2>3. CASE \E trigger \in Triggers : \E nextRun \in NextRuns(trigger, now) :
               Amend(j, [activeJobs[j] EXCEPT !.trigger = trigger, !.nextRun = nextRun,
                                              !.updated = now])
    <3>1. PICK trigger \in Triggers : \E nextRun \in NextRuns(trigger, now) :
            Amend(j, [activeJobs[j] EXCEPT !.trigger = trigger, !.nextRun = nextRun,
                                           !.updated = now])
      BY <2>3
    <3>2. PICK nextRun \in NextRuns(trigger, now) :
            Amend(j, [activeJobs[j] EXCEPT !.trigger = trigger, !.nextRun = nextRun,
                                           !.updated = now])
      BY <3>1
    <3> DEFINE job == [activeJobs[j] EXCEPT !.trigger = trigger, !.nextRun = nextRun,
                                            !.updated = now]
    <3>3. nextRun \in RunTimes \cup {NoRun}
      BY NextRunsType
    <3>4. job \in Job /\ job.created = activeJobs[j].created /\ job.status = activeJobs[j].status
      <4>1. job \in Job
        BY <2>1, <3>3, AmendedIsJob
      <4>2. job.created = activeJobs[j].created /\ job.status = activeJobs[j].status
        BY <2>1, AmendedFields
      <4> QED
        BY <4>1, <4>2
    <3>5. AmendStep
      BY <2>1, <3>2, <3>4 DEF AmendStep
    <3> QED
      BY <1>1, <3>5 DEF UpdateJob, AmendOrArchive
  <2> QED
    BY <1>1, <2>2, <2>3 DEF UpdateJob
<1>2. ASSUME NEW j \in JobIds, NEW status \in Statuses, Known(j),
             status \notin Terminal \/ ~CleanupHistory,
             Amend(j, [activeJobs[j] EXCEPT !.status = status, !.updated = now])
      PROVE  AmendStep
  <2> DEFINE job == [activeJobs[j] EXCEPT !.status = status, !.updated = now]
  <2>1. job \in Job /\ job.created = activeJobs[j].created /\ job.status = status
    <3>1. activeJobs[j] \in Job
      BY <1>2, KnownIsJob
    <3>2. job \in Job
      BY <1>2, AmendedIsJob
    <3>3. job.created = activeJobs[j].created /\ job.status = status
      BY <3>1, AmendedFields
    <3> QED
      BY <3>2, <3>3
  <2> QED
    BY <1>2, <2>1 DEF AmendStep
<1>3. ASSUME NEW j \in JobIds, PauseJob(j) \/ ResumeJob(j) \/ StartJobExecution(j)
      PROVE  AmendOrArchive
  <2>1. {"PAUSED", "SCHEDULED", "RUNNING"} \subseteq Statuses \ Terminal
    BY DEF Statuses
  <2>2. Known(j)
    BY <1>3 DEF PauseJob, ResumeJob, StartJobExecution, CanStart, Unfinished
  <2>3. AmendStep
    BY <1>2, <1>3, <2>1, <2>2 DEF PauseJob, ResumeJob, StartJobExecution
  <2> QED
    BY <1>3, <2>3 DEF PauseJob, ResumeJob, StartJobExecution, AmendOrArchive
<1>4. ASSUME NEW j \in JobIds, NEW status \in Terminal, Known(j),
             Retire(j, [activeJobs[j] EXCEPT !.status = status, !.updated = now])
      PROVE  AmendStep \/ ArchiveStep
  <2> DEFINE job == [activeJobs[j] EXCEPT !.status = status, !.updated = now]
  <2>1. job \in Job /\ job.created = activeJobs[j].created
    <3>1. activeJobs[j] \in Job
      BY <1>4, KnownIsJob
    <3>2. status \in Statuses
      BY DEF Statuses
    <3>3. job \in Job
      BY <1>4, <3>2, AmendedIsJob
    <3>4. job.created = activeJobs[j].created
      BY <3>1, AmendedFields
    <3> QED
      BY <3>3, <3>4
  <2> QED
    BY <1>4, <2>1, RetireKind
<1>5. ASSUME NEW j \in JobIds, CancelJob(j) PROVE AmendOrArchive
  <2>1. Known(j) /\ "CANCELLED" \in Terminal
    BY <1>5 DEF CancelJob, Unfinished
  <2> QED
    BY <1>4, <1>5, <2>1 DEF CancelJob, AmendOrArchive
<1>6. ASSUME NEW j \in JobIds, ArchiveJob(j) PROVE AmendOrArchive
  <2>1. One(j, activeJobs[j]) \in [{j} -> Job] /\ One(j, activeJobs[j])[j] = activeJobs[j]
    BY <1>6, KnownIsJob DEF ArchiveJob, One
  <2>2. {j} \in SUBSET Active
    BY <1>6 DEF ArchiveJob, Active
  <2>3. ArchiveStep
    BY <1>6, <2>1, <2>2 DEF ArchiveJob, ArchiveStep
  <2> QED
    BY <1>6, <2>3 DEF ArchiveJob, AmendOrArchive
<1>7. ASSUME NEW j \in JobIds, NEW enabled \in BOOLEAN, SetEnabled(j, enabled)
      PROVE  AmendOrArchive
  <2> DEFINE job == [activeJobs[j] EXCEPT !.enabled = enabled, !.updated = now]
  <2>1. Known(j) /\ Amend(j, job)
    BY <1>7 DEF SetEnabled, Unfinished
  <2>2. job \in Job /\ job.created = activeJobs[j].created /\ job.status = activeJobs[j].status
    <3>1. activeJobs[j] \in Job
      BY <2>1, KnownIsJob
    <3>2. job \in Job
      BY <2>1, AmendedIsJob
    <3>3. job.created = activeJobs[j].created /\ job.status = activeJobs[j].status
      BY <3>1, AmendedFields
    <3> QED
      BY <3>2, <3>3
  <2>3. AmendStep
    BY <2>1, <2>2 DEF AmendStep
  <2> QED
    BY <1>7, <2>3 DEF SetEnabled, AmendOrArchive
<1>8. ASSUME Cleanup PROVE AmendOrArchive
  <2> DEFINE J == {k \in Active : Finished(activeJobs[k])}
  <2>1. FinishedJobs \in [J -> Job] /\ J \in SUBSET Active
    BY FinishedJobsType
  <2>2. \A k \in J : FinishedJobs[k] = activeJobs[k]
    BY DEF FinishedJobs
  <2>3. ArchiveStep
    BY <1>8, <2>1, <2>2 DEF Cleanup, ArchiveStep
  <2> QED
    BY <1>8, <2>3 DEF Cleanup, AmendOrArchive
<1>9. ASSUME ExpireJobs PROVE AmendOrArchive
  <2> DEFINE expired == [j \in Missed |->
                           [activeJobs[j] EXCEPT !.status = "EXPIRED", !.updated = now]]
  <2>1. \A j \in Missed : Known(j) /\ j \in Active /\ activeJobs[j] \in Job
    BY KnownIsJob DEF Missed, Active
  <2>2. "EXPIRED" \in Statuses
    BY DEF Statuses
  <2>3. \A j \in Missed : expired[j] \in Job /\ expired[j].created = activeJobs[j].created
    <3>1. SUFFICES ASSUME NEW k \in Missed
                   PROVE  expired[k] \in Job /\ expired[k].created = activeJobs[k].created
      OBVIOUS
    <3>2. k \in JobIds /\ Known(k) /\ activeJobs[k] \in Job
      BY <2>1 DEF Missed
    <3>3. expired[k] = [activeJobs[k] EXCEPT !.status = "EXPIRED", !.updated = now]
      OBVIOUS
    <3> HIDE DEF expired
    <3>4. [activeJobs[k] EXCEPT !.status = "EXPIRED", !.updated = now] \in Job
      BY <2>2, <3>2, AmendedIsJob
    <3>5. [activeJobs[k] EXCEPT !.status = "EXPIRED", !.updated = now].created
            = activeJobs[k].created
      BY <3>2, AmendedFields
    <3>6. expired[k].created = activeJobs[k].created
      BY <3>3, <3>5
    <3> QED
      BY <3>3, <3>4, <3>6
  <2>4. expired \in [Missed -> Job] /\ Missed \in SUBSET Active
    BY <2>1, <2>3
  <2>5. Archive(expired)
    BY <1>9 DEF ExpireJobs
  <2>6. ArchiveStep
    BY <2>3, <2>4, <2>5 DEF ArchiveStep
  <2> QED
    BY <1>9, <2>6 DEF ExpireJobs, AmendOrArchive
<1>10. ASSUME NEW j \in JobIds, NEW outcome \in {"COMPLETED", "FAILED"},
              EndJobExecution(j, outcome)
       PROVE  AmendOrArchive
  <2>1. Known(j) /\ activeJobs[j] \in Job /\ outcome \in Terminal
    BY <1>10, KnownIsJob DEF EndJobExecution
  <2>2. CASE activeJobs[j].trigger \in OneTime
    BY <1>4, <1>10, <2>1, <2>2 DEF EndJobExecution, AmendOrArchive
  <2>3. CASE activeJobs[j].trigger \notin OneTime
    <3>1. PICK nextRun \in NextRuns(activeJobs[j].trigger, now) :
            Amend(j, [activeJobs[j] EXCEPT !.status = "SCHEDULED",
                                           !.nextRun = nextRun, !.updated = now])
      BY <1>10, <2>3 DEF EndJobExecution, Rescheduled
    <3> DEFINE job == [activeJobs[j] EXCEPT !.status = "SCHEDULED",
                                            !.nextRun = nextRun, !.updated = now]
    <3>2. nextRun \in RunTimes \cup {NoRun}
      BY <2>1, NextRunsType DEF Job
    <3>3. job \in Job /\ job.created = activeJobs[j].created /\ ~Finished(job)
      <4>1. job \in Job
        BY <2>1, <3>2, AmendedIsJob DEF Statuses
      <4>2. job.created = activeJobs[j].created /\ job.status = "SCHEDULED"
        BY <2>1, AmendedFields
      <4> QED
        BY <4>1, <4>2
    <3>4. AmendStep
      BY <2>1, <3>1, <3>3 DEF AmendStep
    <3> QED
      BY <1>10, <3>4 DEF EndJobExecution, AmendOrArchive
  <2> QED
    BY <2>2, <2>3
<1> QED
  BY <1>1, <1>3, <1>5, <1>6, <1>7, <1>8, <1>9, <1>10
  DEF AmendOrArchiveCall, CompleteJobExecution, FailJobExecution

LEMMA InitTypes == Init => TypeOK
BY EmptySeq, SchedulerAssumption DEF Init, TypeOK, Records

\* Every step of the scheduler, and of its environment, keeps the types.
LEMMA StepKeepsTypes ==
  ASSUME TypeOK, [Next]_vars
  PROVE  TypeOK'
<1>1. ASSUME NEW j \in JobIds, NEW trigger \in Triggers, NEW enabled \in BOOLEAN,
             CreateJob(j, trigger, enabled)
      PROVE  TypeOK'
  <2>1. StoresOK' /\ creations' \in [JobIds -> 0 .. MaxCreates]
    BY <1>1, CreateType
  <2> QED
    BY <1>1, <2>1 DEF CreateJob, TypeOK, StoresOK
<1>2. ASSUME AmendOrArchiveCall PROVE TypeOK'
  BY <1>2, Kinds, AmendOrArchiveKeepsTypes
<1>3. ASSUME NEW j \in JobIds, RemoveJob(j) PROVE TypeOK'
  <2> DEFINE others == {i \in DOMAIN completedJobs : completedJobs[i].id # j}
  <2>1. activeJobs' \in Records
    BY <1>3 DEF RemoveJob, Without, Records, TypeOK
  <2>2. /\ completedJobs' \in Seq(Entry)
        /\ Len(completedJobs') <= Len(completedJobs)
    BY <1>3, RestrictionsLemma DEF RemoveJob, TypeOK
  <2>3. Len(completedJobs') <= MaximumHistory
    BY <2>2, SchedulerAssumption, LenProperties DEF TypeOK
  <2>4. One(j, NoJob) \in [{j} -> Job \cup {NoJob}]
    BY DEF One
  <2>5. persisted' \in Records
    BY <1>3, <2>4, StoresLemma DEF RemoveJob, Persist, TypeOK
  <2> QED
    BY <1>3, <2>1, <2>2, <2>3, <2>5 DEF RemoveJob, TypeOK
<1>4. ASSUME CleanupExpiredJobs PROVE TypeOK'
  <2> DEFINE old == {i \in DOMAIN completedJobs : now - completedJobs[i].job.updated >= Retention}
             ids == {completedJobs[i].id : i \in old}
  <2>1. /\ completedJobs' \in Seq(Entry)
        /\ Len(completedJobs') <= Len(completedJobs)
    BY <1>4, RestrictionsLemma DEF CleanupExpiredJobs, TypeOK
  <2>2. Len(completedJobs') <= MaximumHistory
    BY <2>1, SchedulerAssumption, LenProperties DEF TypeOK
  <2>3. ids \in SUBSET JobIds
    <3>1. completedJobs \in Seq(Entry) /\ DOMAIN completedJobs = 1 .. Len(completedJobs)
      BY LenProperties DEF TypeOK
    <3>2. \A i \in old : completedJobs[i] \in Entry
      BY <3>1, ElementOfSeq
    <3> QED
      BY <3>2 DEF Entry
  <2>4. [j \in ids |-> NoJob] \in [ids -> Job \cup {NoJob}]
    OBVIOUS
  <2>5. persisted' \in Records
    BY <1>4, <2>3, <2>4, StoresLemma DEF CleanupExpiredJobs, Persist, TypeOK
  <2> QED
    BY <1>4, <2>1, <2>2, <2>5 DEF CleanupExpiredJobs, TypeOK
<1>5. ASSUME Clear \/ Crash PROVE TypeOK'
  <2>1. activeJobs' \in Records
    BY <1>5 DEF Clear, Crash, Without, Records
  <2>2. completedJobs' \in Seq(Entry) /\ Len(completedJobs') <= MaximumHistory
    <3>1. completedJobs' = << >>
      BY <1>5 DEF Clear, Crash
    <3> QED
      BY <3>1, EmptySeq, SchedulerAssumption
  <2> QED
    BY <1>5, <2>1, <2>2 DEF Clear, Crash, TypeOK
<1>6. ASSUME ListReadyJobs PROVE TypeOK'
  <2>1. "READY" \in Statuses
    BY DEF Statuses
  <2>2. MarkedReady \in Records
    BY <2>1, AmendedIsJob DEF MarkedReady, Due, Records, TypeOK
  <2> QED
    BY <1>6, <2>2 DEF ListReadyJobs, TypeOK
<1>7. ASSUME Tick PROVE TypeOK'
  BY <1>7, SchedulerAssumption DEF Tick, TypeOK
<1>8. ASSUME RecoverJobs PROVE TypeOK'
  <2>1. PICK loaded \in Loads :
          LET finished == {j \in loaded : Finished(persisted[j])}
          IN  /\ activeJobs' = [j \in JobIds |-> IF j \in loaded \ finished THEN persisted[j]
                                                                           ELSE activeJobs[j]]
              /\ completedJobs' \in HistoriesWith([j \in finished |-> persisted[j]])
    BY <1>8 DEF RecoverJobs
  <2> DEFINE finished == {j \in loaded : Finished(persisted[j])}
  <2>2. loaded \in SUBSET Persisted
    BY DEF Loads
  <2>3. [j \in finished |-> persisted[j]] \in [finished -> Job] /\ finished \in SUBSET JobIds
    BY <2>2 DEF Persisted, Records, TypeOK
  <2>4. activeJobs' \in Records
    BY <2>1, <2>2 DEF Records, TypeOK
  <2>5. completedJobs' \in Seq(Entry) /\ Len(completedJobs') <= MaximumHistory
    BY <2>1, <2>3, HistoriesLemma DEF TypeOK
  <2> QED
    BY <1>8, <2>4, <2>5 DEF RecoverJobs, TypeOK
<1>9. ASSUME UNCHANGED vars PROVE TypeOK'
  BY <1>9 DEF vars, TypeOK
<1> QED
  BY <1>1, <1>2, <1>3, <1>4, <1>5, <1>6, <1>7, <1>8, <1>9
  DEF Next, UserStep, EngineStep, EnvironmentStep, AmendOrArchiveCall

\* Whatever is called, in any order, with crashes, recoveries and lost writes, the
\* stores hold job records and the history is no longer than configured.
THEOREM TypeCorrect == Spec => []TypeOK
<1>1. TypeOK /\ [Next]_vars => TypeOK'
  BY StepKeepsTypes
<1> QED
  BY InitTypes, <1>1, PTL DEF Spec

-----------------------------------------------------------------------------
(* The store holds what memory holds                                         *)

\* What Durable needs of the configuration: the hook never fails, identifiers are
\* not used twice, and recovery is for a process that has just started.
DurableSettings == ~PersistenceFails /\ MaxCreates = 1 /\ ~RecoverWhileRunning

\* No job is in the history and in memory at once: retention cleanup, which deletes
\* a persisted record by identifier, hits no active job.
HistoryIsInactive == \A e \in Range(completedJobs) : activeJobs[e.id] = NoJob

\* What bears an identifier was created under it.
OnlyCreated ==
  /\ \A j \in Active : creations[j] # 0
  /\ \A j \in Persisted : creations[j] # 0
  /\ \A e \in Range(completedJobs) : creations[e.id] # 0

DownIsEmpty == ~up => Active = {} /\ completedJobs = << >>

DurableInv == TypeOK /\ Durable /\ HistoryIsInactive /\ OnlyCreated /\ DownIsEmpty

\* The four parts that speak of the stores only.
DurableStores == Durable /\ HistoryIsInactive /\ OnlyCreated

\* What a call leaves in the store when no write is lost.
LEMMA PersistLemma ==
  ASSUME TypeOK, ~PersistenceFails, NEW J \in SUBSET JobIds,
         NEW changes \in [J -> Job \cup {NoJob}], Persist(changes)
  PROVE  persisted' = [j \in JobIds |-> IF j \in J THEN changes[j] ELSE persisted[j]]
<1>1. persisted \in Records /\ persisted' \in StoresWith(persisted, changes) /\ ~PersistenceFails
  BY DEF Persist, TypeOK, DurableSettings
<1> QED
  BY <1>1, StoresLemma

LEMMA AmendDurable ==
  ASSUME DurableInv, DurableSettings, NEW j \in JobIds, Known(j), NEW job \in Job,
         Amend(j, job), UNCHANGED creations
  PROVE  DurableStores'
<1>1. One(j, job) \in [{j} -> Job \cup {NoJob}]
  BY DEF One
<1>2. persisted' = [k \in JobIds |-> IF k = j THEN job ELSE persisted[k]]
  <2>1. persisted' = [k \in JobIds |-> IF k \in {j} THEN One(j, job)[k] ELSE persisted[k]]
    BY <1>1, PersistLemma DEF Amend, DurableInv, DurableSettings
  <2> QED
    BY <2>1 DEF One
<1>3. activeJobs' = [k \in JobIds |-> IF k = j THEN job ELSE activeJobs[k]]
  BY DEF Amend, DurableInv, TypeOK, Records
<1>4. job # NoJob
  BY SchedulerAssumption
<1>5. Durable'
  BY <1>2, <1>3, <1>4 DEF Durable, SameButReady, Active, Known, DurableInv
<1>6. HistoryIsInactive'
  BY <1>3 DEF HistoryIsInactive, DurableInv, Amend, Known
<1>7. OnlyCreated'
  BY <1>2, <1>3 DEF OnlyCreated, DurableInv, Amend, Active, Known, Persisted
<1> QED
  BY <1>5, <1>6, <1>7 DEF DurableStores

LEMMA ArchiveDurable ==
  ASSUME DurableInv, DurableSettings, NEW J \in SUBSET Active, NEW jobs \in [J -> Job],
         Archive(jobs), UNCHANGED creations
  PROVE  DurableStores'
<1>1. J \in SUBSET JobIds /\ DOMAIN jobs = J /\ TypeOK
  BY DEF Active, DurableInv
<1>2. persisted' = [j \in JobIds |-> IF j \in J THEN jobs[j] ELSE persisted[j]]
  BY <1>1, PersistLemma DEF Archive, DurableSettings
<1>3. activeJobs' = [j \in JobIds |-> IF j \in J THEN NoJob ELSE activeJobs[j]]
  BY <1>1 DEF Archive, Without
<1>4. Range(completedJobs') \subseteq Range(completedJobs) \cup EntriesOf(jobs)
  BY <1>1, HistoriesLemma DEF Archive, TypeOK
<1>5. \A e \in EntriesOf(jobs) : e.id \in J
  BY <1>1 DEF EntriesOf
<1>6. \A e \in Range(completedJobs) : e.id \in JobIds
  <2>1. Range(completedJobs) \in SUBSET Entry
    BY <1>1, RangeOfSeq DEF TypeOK
  <2> QED
    BY <2>1 DEF Entry
<1>7. Durable'
  BY <1>2, <1>3 DEF Durable, SameButReady, Active, Known, DurableInv
<1>8. HistoryIsInactive'
  BY <1>1, <1>3, <1>4, <1>5, <1>6 DEF HistoryIsInactive, DurableInv
<1>9. OnlyCreated'
  BY <1>1, <1>2, <1>3, <1>4, <1>5 DEF OnlyCreated, DurableInv, Active, Known, Persisted
<1> QED
  BY <1>7, <1>8, <1>9 DEF DurableStores

LEMMA CreateDurable ==
  ASSUME DurableInv, DurableSettings, NEW j \in JobIds, NEW trigger \in Triggers,
         NEW enabled \in BOOLEAN, CreateJob(j, trigger, enabled)
  PROVE  DurableStores'
<1>1. PICK nextRun \in NextRuns(trigger, now) :
        LET job  == NewJob(j, trigger, enabled, nextRun)
            done == FinishedJobs
        IN \/ /\ HasRoom(Active)
              /\ Amend(j, job)
           \/ /\ ~HasRoom(Active)
              /\ HasRoom(Active \ DOMAIN done)
              /\ activeJobs' = [Without(DOMAIN done) EXCEPT ![j] = job]
              /\ completedJobs' \in HistoriesWith(done)
              /\ \E store \in StoresWith(persisted, done) :
                   persisted' \in StoresWith(store, One(j, job))
  BY DEF CreateJob
<1> DEFINE job  == NewJob(j, trigger, enabled, nextRun)
           done == FinishedJobs
           J    == {k \in Active : Finished(activeJobs[k])}
<1>2. TypeOK /\ ~PersistenceFails
  BY DEF DurableInv, DurableSettings
<1>3. creations[j] = 0 /\ creations' = [creations EXCEPT ![j] = 1]
  <2>1. MaxCreates = 1 /\ creations[j] \in 0 .. MaxCreates /\ creations[j] < MaxCreates
    BY <1>2 DEF CreateJob, DurableSettings, TypeOK
  <2>2. creations[j] = 0
    BY <2>1
  <2> QED
    BY <2>2 DEF CreateJob
<1>4. ~Known(j) /\ j \notin J /\ \A e \in Range(completedJobs) : e.id # j
  BY <1>3 DEF DurableInv, OnlyCreated, Active
<1>5. job \in Job /\ job # NoJob
  BY <1>2, NewIsJob, SchedulerAssumption DEF CreateJob
<1>6. done \in [J -> Job] /\ J \in SUBSET JobIds /\ DOMAIN done = J
  BY <1>2, FinishedJobsType
<1>7. One(j, job) \in [{j} -> Job \cup {NoJob}] /\ One(j, job)[j] = job
  BY <1>5 DEF One
<1>8. PICK K \in SUBSET J :
        /\ activeJobs' = [k \in JobIds |-> IF k = j THEN job
                                           ELSE IF k \in K THEN NoJob ELSE activeJobs[k]]
        /\ persisted' = [k \in JobIds |-> IF k = j THEN job
                                          ELSE IF k \in K THEN done[k] ELSE persisted[k]]
        /\ \A e \in Range(completedJobs') : e \in Range(completedJobs) \/ e.id \in K
  <2> HIDE DEF job, done, J
  <2>1. CASE Amend(j, job)
    <3>1. persisted' = [k \in JobIds |-> IF k \in {j} THEN One(j, job)[k] ELSE persisted[k]]
      BY <1>2, <1>7, <2>1, PersistLemma DEF Amend, DurableSettings
    <3>2. persisted' = [k \in JobIds |-> IF k = j THEN job ELSE persisted[k]]
      BY <1>7, <3>1
    <3>3. activeJobs' = [k \in JobIds |-> IF k = j THEN job ELSE activeJobs[k]]
      BY <1>2, <2>1 DEF Amend, TypeOK, Records
    <3>4. completedJobs' = completedJobs
      BY <2>1 DEF Amend
    <3> WITNESS {} \in SUBSET J
    <3> QED
      BY <3>2, <3>3, <3>4
  <2>2. CASE /\ activeJobs' = [Without(DOMAIN done) EXCEPT ![j] = job]
             /\ completedJobs' \in HistoriesWith(done)
             /\ \E store \in StoresWith(persisted, done) :
                  persisted' \in StoresWith(store, One(j, job))
    <3>1. activeJobs' = [k \in JobIds |-> IF k = j THEN job
                                          ELSE IF k \in J THEN NoJob ELSE activeJobs[k]]
      BY <1>6, <2>2 DEF Without
    <3>2. PICK store \in StoresWith(persisted, done) :
            persisted' \in StoresWith(store, One(j, job))
      BY <2>2
    <3>3. /\ store \in Records
          /\ store = [k \in JobIds |-> IF k \in J THEN done[k] ELSE persisted[k]]
      <4>1. done \in [J -> Job \cup {NoJob}] /\ persisted \in Records
        BY <1>2, <1>6 DEF TypeOK
      <4> QED
        BY <1>2, <1>6, <4>1, StoresLemma
    <3>4. persisted' = [k \in JobIds |-> IF k \in {j} THEN One(j, job)[k] ELSE store[k]]
      BY <1>2, <1>7, <3>2, <3>3, StoresLemma
    <3>5. persisted' = [k \in JobIds |-> IF k = j THEN job
                                         ELSE IF k \in J THEN done[k] ELSE persisted[k]]
      BY <1>7, <3>3, <3>4
    <3>6. Range(completedJobs') \subseteq Range(completedJobs) \cup EntriesOf(done)
      BY <1>2, <1>6, <2>2, HistoriesLemma DEF TypeOK
    <3>7. \A e \in EntriesOf(done) : e.id \in J
      BY <1>6 DEF EntriesOf
    <3> WITNESS J \in SUBSET J
    <3> QED
      BY <3>1, <3>5, <3>6, <3>7
  <2> QED
    BY <1>1, <2>1, <2>2 DEF job, done
<1>9. /\ \A k \in JobIds : creations'[k] = IF k = j THEN 1 ELSE creations[k]
      /\ \A e \in Range(completedJobs) : e.id \in JobIds
  <2>1. Range(completedJobs) \in SUBSET Entry
    BY <1>2, RangeOfSeq DEF TypeOK
  <2> QED
    BY <1>2, <1>3, <2>1 DEF TypeOK, Entry
<1> HIDE DEF job, done
<1>10. Durable'
  BY <1>5, <1>8 DEF Durable, SameButReady, Active, Known, DurableInv
<1>11. HistoryIsInactive'
  BY <1>4, <1>8, <1>9 DEF HistoryIsInactive, DurableInv, Active
<1>12. OnlyCreated'
  BY <1>6, <1>8, <1>9 DEF OnlyCreated, DurableInv, Active, Known, Persisted
<1> QED
  BY <1>10, <1>11, <1>12 DEF DurableStores

\* Every step keeps the inductive invariant.
LEMMA StepKeepsDurableInv ==
  ASSUME DurableInv, DurableSettings, [Next]_vars
  PROVE  DurableInv'
<1> TypeOK' /\ TypeOK
  BY StepKeepsTypes DEF DurableInv
<1>1. ASSUME DurableStores', up, UNCHANGED up PROVE DurableInv'
  BY <1>1 DEF DurableStores, DurableInv, DownIsEmpty
<1>2. ASSUME NEW j \in JobIds, NEW trigger \in Triggers, NEW enabled \in BOOLEAN,
             CreateJob(j, trigger, enabled)
      PROVE  DurableInv'
  BY <1>1, <1>2, CreateDurable DEF CreateJob
<1>3. ASSUME AmendOrArchiveCall PROVE DurableInv'
  <2>1. AmendOrArchive
    BY <1>3, Kinds
  <2>2. CASE AmendStep
    BY <1>1, <2>1, <2>2, AmendDurable DEF AmendStep, AmendOrArchive
  <2>3. CASE ArchiveStep
    <3>1. PICK J \in SUBSET Active : \E jobs \in [J -> Job] : Archive(jobs)
      BY <2>3 DEF ArchiveStep
    <3>2. DurableStores'
      BY <2>1, <3>1, ArchiveDurable DEF AmendOrArchive
    <3> QED
      BY <1>1, <2>1, <3>2 DEF AmendOrArchive
  <2> QED
    BY <2>1, <2>2, <2>3 DEF AmendOrArchive
<1>4. ASSUME NEW j \in JobIds, RemoveJob(j) PROVE DurableInv'
  <2> DEFINE others == {i \in DOMAIN completedJobs : completedJobs[i].id # j}
  <2>1. activeJobs' = [k \in JobIds |-> IF k = j THEN NoJob ELSE activeJobs[k]]
    BY <1>4 DEF RemoveJob, Without
  <2>2. persisted' = [k \in JobIds |-> IF k = j THEN NoJob ELSE persisted[k]]
    <3>1. One(j, NoJob) \in [{j} -> Job \cup {NoJob}] /\ One(j, NoJob)[j] = NoJob
      BY DEF One
    <3>2. persisted' = [k \in JobIds |-> IF k \in {j} THEN One(j, NoJob)[k] ELSE persisted[k]]
      BY <1>4, <3>1, PersistLemma DEF RemoveJob, DurableSettings
    <3> QED
      BY <3>1, <3>2
  <2>3. Range(completedJobs') \subseteq Range(completedJobs)
    <3>1. Range(completedJobs') \subseteq {completedJobs[i] : i \in others}
      BY <1>4, RestrictionsLemma DEF RemoveJob, TypeOK
    <3> QED
      BY <3>1 DEF Range
  <2>4. \A e \in Range(completedJobs) : e.id \in JobIds
    <3>1. Range(completedJobs) \in SUBSET Entry
      BY RangeOfSeq DEF TypeOK
    <3> QED
      BY <3>1 DEF Entry
  <2>5. Durable'
    BY <2>1, <2>2 DEF Durable, SameButReady, Active, Known, DurableInv
  <2>6. HistoryIsInactive'
    BY <2>1, <2>3, <2>4 DEF HistoryIsInactive, DurableInv
  <2>7. OnlyCreated'
    BY <1>4, <2>1, <2>2, <2>3 DEF RemoveJob, OnlyCreated, DurableInv, Active, Known, Persisted
  <2> QED
    BY <1>1, <1>4, <2>5, <2>6, <2>7 DEF RemoveJob, DurableStores
<1>5. ASSUME CleanupExpiredJobs PROVE DurableInv'
  <2> DEFINE old == {i \in DOMAIN completedJobs : now - completedJobs[i].job.updated >= Retention}
             ids == {completedJobs[i].id : i \in old}
  <2>1. \A i \in old : completedJobs[i] \in Range(completedJobs)
    BY DEF Range
  <2>2. Range(completedJobs) \in SUBSET Entry
    BY RangeOfSeq DEF TypeOK
  <2>3. ids \in SUBSET JobIds
    BY <2>1, <2>2 DEF Entry
  <2>4. persisted' = [k \in JobIds |-> IF k \in ids THEN NoJob ELSE persisted[k]]
    <3>1. [j \in ids |-> NoJob] \in [ids -> Job \cup {NoJob}]
      OBVIOUS
    <3>2. Persist([j \in ids |-> NoJob])
      BY <1>5 DEF CleanupExpiredJobs
    <3>3. persisted' = [k \in JobIds |-> IF k \in ids THEN [j \in ids |-> NoJob][k] ELSE persisted[k]]
      <4> HIDE DEF ids
      <4> QED
        BY <2>3, <3>1, <3>2, PersistLemma DEF DurableSettings
    <3> QED
      BY <3>3
  <2>5. \A k \in ids : activeJobs[k] = NoJob
    BY <2>1 DEF DurableInv, HistoryIsInactive
  <2>6. Range(completedJobs') \subseteq Range(completedJobs)
    <3>1. Range(completedJobs') \subseteq {completedJobs[i] : i \in DOMAIN completedJobs \ old}
      BY <1>5, RestrictionsLemma DEF CleanupExpiredJobs, TypeOK
    <3> QED
      BY <3>1 DEF Range
  <2> HIDE DEF ids
  <2>7. Durable'
    BY <1>5, <2>4, <2>5 DEF CleanupExpiredJobs, Durable, SameButReady, Active, Known, DurableInv
  <2>8. HistoryIsInactive' /\ OnlyCreated'
    BY <1>5, <2>4, <2>6 DEF CleanupExpiredJobs, HistoryIsInactive, OnlyCreated, DurableInv,
                           Active, Known, Persisted
  <2> QED
    BY <1>1, <1>5, <2>7, <2>8 DEF CleanupExpiredJobs, DurableStores
<1>6. ASSUME Clear \/ Crash PROVE DurableInv'
  <2>1. Active' = {} /\ completedJobs' = << >> /\ UNCHANGED <<persisted, creations>>
    BY <1>6 DEF Clear, Crash, Without, Active, Known
  <2>2. Range(completedJobs') = {}
    BY <2>1 DEF Range
  <2> QED
    BY <2>1, <2>2 DEF DurableInv, Durable, HistoryIsInactive, OnlyCreated, DownIsEmpty, Persisted
<1>7. ASSUME ListReadyJobs PROVE DurableInv'
  <2>1. \A j \in Active : activeJobs[j] \in Job
    BY KnownIsJob DEF Active
  <2>2. \A j \in Due : activeJobs'[j] = [activeJobs[j] EXCEPT !.status = "READY", !.updated = now]
    BY <1>7 DEF ListReadyJobs, MarkedReady, Due
  <2>3. \A j \in JobIds \ Due : activeJobs'[j] = activeJobs[j]
    BY <1>7 DEF ListReadyJobs, MarkedReady
  <2>4. Active' = Active
    <3>1. \A j \in Due : Known(j) /\ activeJobs'[j] \in Job
      <4>1. "READY" \in Statuses /\ \A j \in Due : j \in JobIds /\ Known(j)
        BY DEF Due, Statuses
      <4>2. \A j \in Due : [activeJobs[j] EXCEPT !.status = "READY", !.updated = now] \in Job
        BY <4>1, AmendedIsJob
      <4> QED
        BY <2>2, <4>1, <4>2
    <3>2. \A j \in Due : j \in Active /\ j \in Active'
      BY <3>1, SchedulerAssumption DEF Active, Known, Due
    <3>3. \A j \in JobIds \ Due : j \in Active <=> j \in Active'
      BY <2>3 DEF Active, Known
    <3> QED
      BY <3>2, <3>3 DEF Active
  <2>5. ASSUME NEW j \in Due PROVE SameButReady(activeJobs'[j], persisted[j])
    <3>1. j \in Active /\ activeJobs[j].status = "SCHEDULED"
      BY DEF Due, Active
    <3>2. persisted[j] = activeJobs[j] /\ activeJobs[j] \in Job
      BY <2>1, <3>1 DEF DurableInv, Durable, SameButReady
    <3>3. activeJobs'[j] = [persisted[j] EXCEPT !.status = "READY", !.updated = now]
      BY <2>2, <3>2
    <3> QED
      BY <3>1, <3>2, <3>3 DEF SameButReady, Job
  <2>6. Durable'
    <3>1. persisted' = persisted /\ \A j \in Active : persisted[j] # NoJob
      BY <1>7 DEF ListReadyJobs, DurableInv, Durable
    <3>2. \A j \in Active : SameButReady(activeJobs'[j], persisted[j])
      BY <2>3, <2>5 DEF DurableInv, Durable, Active
    <3> QED
      BY <2>4, <3>1, <3>2 DEF Durable, SameButReady
  <2>7. HistoryIsInactive'
    <3>1. \A e \in Range(completedJobs) : e.id \in JobIds /\ activeJobs[e.id] = NoJob
      <4>1. Range(completedJobs) \in SUBSET Entry
        BY RangeOfSeq DEF TypeOK
      <4> QED
        BY <4>1 DEF DurableInv, HistoryIsInactive, Entry
    <3>2. \A e \in Range(completedJobs) : e.id \notin Due
      BY <3>1 DEF Due, Known
    <3> QED
      BY <1>7, <2>3, <3>1, <3>2 DEF ListReadyJobs, HistoryIsInactive
  <2>8. OnlyCreated'
    BY <1>7, <2>4 DEF ListReadyJobs, DurableInv, OnlyCreated, Persisted
  <2> QED
    BY <1>1, <1>7, <2>6, <2>7, <2>8 DEF ListReadyJobs, DurableStores
<1>8. ASSUME Tick \/ UNCHANGED vars PROVE DurableInv'
  <2>1. UNCHANGED <<activeJobs, completedJobs, persisted, up, creations>>
    BY <1>8 DEF Tick, vars
  <2> QED
    BY <2>1 DEF DurableInv, Durable, SameButReady, HistoryIsInactive, OnlyCreated, DownIsEmpty,
                Active, Known, Persisted
<1>9. ASSUME RecoverJobs PROVE DurableInv'
  <2>1. ~up /\ up' /\ Loads = {Persisted} /\ UNCHANGED <<persisted, creations>>
    BY <1>9 DEF RecoverJobs, DurableSettings, Loads
  <2> DEFINE finished == {j \in Persisted : Finished(persisted[j])}
             jobs == [j \in finished |-> persisted[j]]
  <2>2. /\ activeJobs' = [j \in JobIds |-> IF j \in Persisted \ finished THEN persisted[j]
                                                                         ELSE activeJobs[j]]
        /\ completedJobs' \in HistoriesWith(jobs)
    BY <1>9, <2>1 DEF RecoverJobs
  <2>3. Active = {} /\ Range(completedJobs) = {}
    BY <2>1 DEF DurableInv, DownIsEmpty, Range
  <2>4. jobs \in [finished -> Job] /\ finished \in SUBSET JobIds
    BY DEF Persisted, Records, TypeOK
  <2>5. \A e \in Range(completedJobs') : e.id \in finished
    <3>1. Range(completedJobs') \subseteq EntriesOf(jobs)
      BY <2>2, <2>3, <2>4, HistoriesLemma DEF TypeOK
    <3> QED
      BY <3>1 DEF EntriesOf
  <2>6. /\ \A j \in Active' : j \in Persisted /\ activeJobs'[j] = persisted[j]
        /\ \A j \in finished : activeJobs'[j] = NoJob
    BY <2>2, <2>3, <2>4 DEF Active, Known
  <2>7. Durable'
    BY <2>1, <2>6 DEF Durable, SameButReady, Persisted
  <2>8. HistoryIsInactive' /\ OnlyCreated'
    BY <2>1, <2>5, <2>6 DEF HistoryIsInactive, OnlyCreated, DurableInv, Persisted
  <2> QED
    BY <2>1, <2>7, <2>8 DEF DurableInv, DownIsEmpty
<1> QED
  BY <1>2, <1>3, <1>4, <1>5, <1>6, <1>7, <1>8, <1>9
  DEF Next, UserStep, EngineStep, EnvironmentStep, AmendOrArchiveCall

LEMMA InitDurable == Init => DurableInv
BY InitTypes DEF Init, DurableInv, Durable, HistoryIsInactive, OnlyCreated, DownIsEmpty,
                 Active, Known, Persisted, Range

\* When no write is lost and identifiers are not reused, the store holds, after any
\* sequence of calls, crashes and restarts, every active job as memory has it: a
\* restart forgets no accepted operation.
THEOREM DurableCorrect ==
  ASSUME DurableSettings
  PROVE  Spec => []Durable
<1>1. Init => DurableInv
  BY InitDurable
<1>2. DurableInv /\ [Next]_vars => DurableInv'
  BY StepKeepsDurableInv
<1>3. DurableInv => Durable
  BY DEF DurableInv
<1> QED
  BY <1>1, <1>2, <1>3, PTL DEF Spec

-----------------------------------------------------------------------------
(* A job that has ended stays ended                                          *)

\* What NoResurrection needs: jobs that end leave memory at once, and the store
\* hears of it.
EndingSettings == CleanupHistory /\ ~PersistenceFails

IsLiveInStore(j, c) ==
  persisted[j] # NoJob /\ ~Finished(persisted[j]) /\ persisted[j].created = c

Alive(j, c) == IsLive(j, c) \/ IsLiveInStore(j, c)

ActiveIsUnfinished == \A j \in Active : ~Finished(activeJobs[j])

\* A recovery turns what the store holds into active jobs, so what has ended must be
\* live nowhere.
EndedIsNotAlive ==
  \A j \in JobIds, c \in 1 .. MaxCreates : HasEnded(j, c) => ~Alive(j, c)

CreatedInOrder ==
  /\ \A j \in Active : activeJobs[j].created <= creations[j]
  /\ \A j \in Persisted : persisted[j].created <= creations[j]
  /\ \A e \in Range(completedJobs) : e.job.created <= creations[e.id]

EndingInv == TypeOK /\ ActiveIsUnfinished /\ EndedIsNotAlive /\ CreatedInOrder

\* What a step does to jobs that end: only a creation makes a job live that was not,
\* and a record that becomes terminal is the last of its job.
EndsForGood ==
  /\ \A j \in JobIds, c \in 1 .. MaxCreates :
       /\ Alive(j, c)' => Alive(j, c) \/ c = creations[j] + 1
       /\ HasEnded(j, c)' => HasEnded(j, c) \/ ~Alive(j, c)'
  /\ ActiveIsUnfinished'
  /\ CreatedInOrder'

LEMMA AmendEndsForGood ==
  ASSUME EndingInv, EndingSettings, AmendStep, UNCHANGED creations
  PROVE  EndsForGood
<1>1. PICK j \in JobIds, job \in Job :
        /\ Known(j)
        /\ Amend(j, job)
        /\ job.created = activeJobs[j].created
        /\ ~Finished(activeJobs[j]) => ~Finished(job)
  BY DEF AmendStep, EndingSettings
<1>2. j \in Active /\ ~Finished(activeJobs[j]) /\ ~Finished(job) /\ job # NoJob
  BY <1>1, SchedulerAssumption DEF EndingInv, ActiveIsUnfinished, Active
<1>3. activeJobs' = [k \in JobIds |-> IF k = j THEN job ELSE activeJobs[k]]
  BY <1>1 DEF Amend, EndingInv, TypeOK, Records
<1>4. persisted' = [k \in JobIds |-> IF k = j THEN job ELSE persisted[k]]
  <2>1. One(j, job) \in [{j} -> Job \cup {NoJob}] /\ One(j, job)[j] = job
    BY DEF One
  <2>2. Persist(One(j, job)) /\ TypeOK /\ ~PersistenceFails
    BY <1>1 DEF Amend, EndingInv, EndingSettings
  <2>3. persisted' = [k \in JobIds |-> IF k \in {j} THEN One(j, job)[k] ELSE persisted[k]]
    BY <2>1, <2>2, PersistLemma
  <2> QED
    BY <2>1, <2>3
<1>5. completedJobs' = completedJobs
  BY <1>1 DEF Amend
<1>6. ASSUME NEW k \in JobIds, NEW c \in 1 .. MaxCreates
      PROVE  /\ Alive(k, c)' => Alive(k, c)
             /\ HasEnded(k, c)' => HasEnded(k, c)
  <2>1. CASE k = j
    BY <1>1, <1>2, <1>3, <1>4, <1>5, <2>1
    DEF Alive, IsLive, IsLiveInStore, HasEnded, Unfinished, Known
  <2>2. CASE k # j
    BY <1>3, <1>4, <1>5, <2>2 DEF Alive, IsLive, IsLiveInStore, HasEnded, Unfinished, Known, Finished
  <2> QED
    BY <2>1, <2>2
<1>7. ActiveIsUnfinished'
  BY <1>2, <1>3 DEF ActiveIsUnfinished, EndingInv, Active, Known, Finished
<1>8. CreatedInOrder'
  BY <1>1, <1>2, <1>3, <1>4, <1>5 DEF CreatedInOrder, EndingInv, Active, Known, Persisted
<1> QED
  BY <1>6, <1>7, <1>8 DEF EndsForGood

LEMMA ArchiveEndsForGood ==
  ASSUME EndingInv, EndingSettings, ArchiveStep, UNCHANGED creations
  PROVE  EndsForGood
<1>1. PICK J \in SUBSET Active : \E jobs \in [J -> Job] :
        /\ Archive(jobs)
        /\ \A j \in J : jobs[j].created = activeJobs[j].created
  BY DEF ArchiveStep
<1>2. PICK jobs \in [J -> Job] :
        /\ Archive(jobs)
        /\ \A j \in J : jobs[j].created = activeJobs[j].created
  BY <1>1
<1>3. J \in SUBSET JobIds /\ DOMAIN jobs = J
  BY DEF Active
<1>4. activeJobs' = [k \in JobIds |-> IF k \in J THEN NoJob ELSE activeJobs[k]]
  BY <1>2, <1>3 DEF Archive, Without
<1>5. persisted' = [k \in JobIds |-> IF k \in J THEN jobs[k] ELSE persisted[k]]
  <2>1. jobs \in [J -> Job \cup {NoJob}]
    OBVIOUS
  <2>2. persisted \in Records /\ persisted' \in StoresWith(persisted, jobs)
    BY <1>2 DEF Archive, Persist, EndingInv, TypeOK
  <2> QED
    BY <1>3, <2>1, <2>2, StoresLemma DEF EndingSettings
<1>6. \A e \in Range(completedJobs') :
        e \in Range(completedJobs) \/ (e.id \in J /\ e.job = jobs[e.id])
  <2>1. Range(completedJobs') \subseteq Range(completedJobs) \cup EntriesOf(jobs)
    BY <1>2, <1>3, HistoriesLemma DEF Archive, EndingInv, TypeOK
  <2> QED
    BY <1>3, <2>1 DEF EntriesOf
<1>7. \A k \in J : k \in JobIds /\ Known(k) /\ ~Finished(activeJobs[k])
  BY <1>3 DEF EndingInv, ActiveIsUnfinished, Active
<1>8. ASSUME NEW k \in JobIds, NEW c \in 1 .. MaxCreates, Alive(k, c)'
      PROVE  Alive(k, c) /\ (HasEnded(k, c)' => HasEnded(k, c))
  <2>1. CASE k \in J
    <3>1. ~Finished(jobs[k]) /\ jobs[k].created = c
      BY <1>4, <1>5, <1>8, <2>1 DEF Alive, IsLive, IsLiveInStore, Unfinished, Known, Finished
    <3>2. IsLive(k, c)
      BY <1>2, <1>7, <2>1, <3>1 DEF IsLive, Unfinished
    <3>3. HasEnded(k, c)' => \E e \in Range(completedJobs') :
                               e.id = k /\ Finished(e.job) /\ e.job.created = c
      BY <1>4, <1>5, <2>1, <3>1 DEF HasEnded, Known, Finished
    <3>4. HasEnded(k, c)' => HasEnded(k, c)
      BY <1>6, <3>1, <3>3 DEF HasEnded
    <3> QED
      BY <3>2, <3>4 DEF Alive
  <2>2. CASE k \notin J
    <3>1. Alive(k, c)
      BY <1>4, <1>5, <1>8, <2>2 DEF Alive, IsLive, IsLiveInStore, Unfinished, Known, Finished
    <3>2. HasEnded(k, c)' => HasEnded(k, c)
      BY <1>4, <1>5, <1>6, <2>2 DEF HasEnded, Known, Finished
    <3> QED
      BY <3>1, <3>2
  <2> QED
    BY <2>1, <2>2
<1>9. ActiveIsUnfinished'
  BY <1>4 DEF ActiveIsUnfinished, EndingInv, Active, Known, Finished
<1>10. CreatedInOrder'
  BY <1>2, <1>3, <1>4, <1>5, <1>6 DEF CreatedInOrder, EndingInv, Active, Known, Persisted
<1> QED
  BY <1>8, <1>9, <1>10 DEF EndsForGood

LEMMA CreateEndsForGood ==
  ASSUME EndingInv, EndingSettings, NEW j \in JobIds, NEW trigger \in Triggers,
         NEW enabled \in BOOLEAN, CreateJob(j, trigger, enabled)
  PROVE  EndsForGood
<1>1. PICK nextRun \in NextRuns(trigger, now) :
        LET job  == NewJob(j, trigger, enabled, nextRun)
            done == FinishedJobs
        IN \/ /\ HasRoom(Active)
              /\ Amend(j, job)
           \/ /\ ~HasRoom(Active)
              /\ HasRoom(Active \ DOMAIN done)
              /\ activeJobs' = [Without(DOMAIN done) EXCEPT ![j] = job]
              /\ completedJobs' \in HistoriesWith(done)
              /\ \E store \in StoresWith(persisted, done) :
                   persisted' \in StoresWith(store, One(j, job))
  BY DEF CreateJob
<1> DEFINE job == NewJob(j, trigger, enabled, nextRun)
<1>2. TypeOK /\ ~PersistenceFails /\ {j} \in SUBSET JobIds
  BY DEF EndingInv, EndingSettings
<1>3. DOMAIN FinishedJobs = {}
  BY DEF FinishedJobs, EndingInv, ActiveIsUnfinished
<1>4. Active \ DOMAIN FinishedJobs = Active
  BY <1>3
<1>6. Amend(j, job)
  BY <1>1, <1>4
<1>7. job \in Job /\ job # NoJob
  BY <1>2, NewIsJob, SchedulerAssumption DEF CreateJob
<1>8. job.created = creations[j] + 1 /\ ~Finished(job)
  BY DEF NewJob, Finished, Terminal
<1>9. creations' = [creations EXCEPT ![j] = creations[j] + 1] /\ creations[j] \in Nat
  BY <1>2 DEF CreateJob, TypeOK
<1> HIDE DEF job
<1>10. activeJobs' = [k \in JobIds |-> IF k = j THEN job ELSE activeJobs[k]]
  BY <1>2, <1>6 DEF Amend, TypeOK, Records
<1>11. persisted' = [k \in JobIds |-> IF k = j THEN job ELSE persisted[k]]
  <2>1. One(j, job) \in [{j} -> Job \cup {NoJob}] /\ One(j, job)[j] = job
    BY <1>7 DEF One
  <2>2. persisted \in Records /\ persisted' \in StoresWith(persisted, One(j, job))
    BY <1>2, <1>6 DEF Amend, Persist, TypeOK
  <2>3. persisted' = [k \in JobIds |-> IF k \in {j} THEN One(j, job)[k] ELSE persisted[k]]
    BY <1>2, <2>1, <2>2, StoresLemma
  <2> QED
    BY <2>1, <2>3
<1>12. completedJobs' = completedJobs
  BY <1>6 DEF Amend
<1>13. ASSUME NEW k \in JobIds, NEW c \in 1 .. MaxCreates
       PROVE  /\ Alive(k, c)' => Alive(k, c) \/ c = creations[k] + 1
              /\ HasEnded(k, c)' => HasEnded(k, c)
  <2>1. CASE k = j
    BY <1>7, <1>8, <1>10, <1>11, <1>12, <2>1
    DEF Alive, IsLive, IsLiveInStore, HasEnded, Unfinished, Known
  <2>2. CASE k # j
    BY <1>10, <1>11, <1>12, <2>2
    DEF Alive, IsLive, IsLiveInStore, HasEnded, Unfinished, Known, Finished
  <2> QED
    BY <2>1, <2>2
<1>14. ActiveIsUnfinished'
  BY <1>8, <1>10 DEF ActiveIsUnfinished, EndingInv, Active, Known, Finished
<1>15. CreatedInOrder'
  <2>1. \A k \in JobIds : creations[k] \in Nat /\ creations'[k] = IF k = j THEN creations[k] + 1 ELSE creations[k]
    BY <1>2, <1>9 DEF TypeOK
  <2>2. \A k \in Active' : activeJobs'[k].created <= creations'[k]
    <3>1. \A k \in Active' : k \in JobIds /\ (k = j \/ k \in Active)
      BY <1>10 DEF Active, Known
    <3> QED
      BY <1>8, <1>10, <2>1, <3>1 DEF CreatedInOrder, EndingInv
  <2>3. \A k \in Persisted' : persisted'[k].created <= creations'[k]
    <3>1. \A k \in Persisted' : k \in JobIds /\ (k = j \/ k \in Persisted)
      BY <1>11 DEF Persisted
    <3> QED
      BY <1>8, <1>11, <2>1, <3>1 DEF CreatedInOrder, EndingInv
  <2>4. \A e \in Range(completedJobs) : e.id \in JobIds /\ e.job.created \in Nat
    <3>1. Range(completedJobs) \in SUBSET Entry
      BY <1>2, RangeOfSeq DEF TypeOK
    <3> QED
      BY <3>1 DEF Entry, Job
  <2>5. \A e \in Range(completedJobs') : e.job.created <= creations'[e.id]
    BY <1>12, <2>1, <2>4 DEF CreatedInOrder, EndingInv
  <2> QED
    BY <2>2, <2>3, <2>5 DEF CreatedInOrder
<1> QED
  BY <1>13, <1>14, <1>15 DEF EndsForGood

\* The steps that only drop records, or only move the ones that have ended.
LEMMA OtherStepsEndForGood ==
  ASSUME EndingInv, EndingSettings,
         \/ \E j \in JobIds : RemoveJob(j)
         \/ CleanupExpiredJobs \/ Clear \/ Crash \/ ListReadyJobs \/ Tick \/ RecoverJobs
         \/ UNCHANGED vars
  PROVE  EndsForGood
<1>1. TypeOK /\ ~PersistenceFails
  BY DEF EndingInv, EndingSettings
<1>2. ASSUME UNCHANGED creations,
             \A k \in JobIds : activeJobs'[k] \in {NoJob, activeJobs[k]},
             \A k \in JobIds : persisted'[k] \in {NoJob, persisted[k]},
             Range(completedJobs') \subseteq Range(completedJobs)
      PROVE  EndsForGood
  <2>1. ASSUME NEW k \in JobIds, NEW c \in 1 .. MaxCreates
        PROVE  /\ Alive(k, c)' => Alive(k, c)
               /\ HasEnded(k, c)' => HasEnded(k, c)
    BY <1>2 DEF Alive, IsLive, IsLiveInStore, HasEnded, Unfinished, Known, Finished
  <2>2. ActiveIsUnfinished' /\ CreatedInOrder'
    BY <1>2 DEF ActiveIsUnfinished, CreatedInOrder, EndingInv, Active, Known, Persisted, Finished
  <2> QED
    BY <2>1, <2>2 DEF EndsForGood
<1>3. ASSUME NEW J \in SUBSET JobIds, NEW changes \in [J -> {NoJob}], Persist(changes)
      PROVE  \A k \in JobIds : persisted'[k] \in {NoJob, persisted[k]}
  BY <1>3 DEF Persist, StoresWith
<1>4. ASSUME NEW keep \in SUBSET DOMAIN completedJobs,
             completedJobs' \in Restrictions(completedJobs, keep)
      PROVE  Range(completedJobs') \subseteq Range(completedJobs)
  <2>1. Range(completedJobs') \subseteq {completedJobs[i] : i \in keep}
    BY <1>1, <1>4, RestrictionsLemma DEF TypeOK
  <2> QED
    BY <2>1 DEF Range
<1>5. ASSUME NEW j \in JobIds, RemoveJob(j) PROVE EndsForGood
  <2> DEFINE others == {i \in DOMAIN completedJobs : completedJobs[i].id # j}
  <2>1. \A k \in JobIds : activeJobs'[k] \in {NoJob, activeJobs[k]}
    BY <1>5 DEF RemoveJob, Without
  <2>2. Persist(One(j, NoJob)) /\ One(j, NoJob) \in [{j} -> {NoJob}]
    BY <1>5 DEF RemoveJob, One
  <2>3. completedJobs' \in Restrictions(completedJobs, others) /\ UNCHANGED creations
    BY <1>5 DEF RemoveJob
  <2>4. Range(completedJobs') \subseteq Range(completedJobs)
    BY <1>4, <2>3
  <2>5. \A k \in JobIds : persisted'[k] \in {NoJob, persisted[k]}
    BY <1>3, <2>2
  <2> QED
    BY <1>2, <2>1, <2>3, <2>4, <2>5
<1>6. ASSUME CleanupExpiredJobs PROVE EndsForGood
  <2> DEFINE old == {i \in DOMAIN completedJobs : now - completedJobs[i].job.updated >= Retention}
             ids == {completedJobs[i].id : i \in old}
  <2>1. /\ completedJobs' \in Restrictions(completedJobs, DOMAIN completedJobs \ old)
        /\ Persist([j \in ids |-> NoJob])
        /\ UNCHANGED <<activeJobs, creations>>
    BY <1>6 DEF CleanupExpiredJobs
  <2>2. ids \in SUBSET JobIds
    <3>1. \A i \in old : completedJobs[i] \in Range(completedJobs)
      BY DEF Range
    <3>2. Range(completedJobs) \in SUBSET Entry
      BY <1>1, RangeOfSeq DEF TypeOK
    <3> QED
      BY <3>1, <3>2 DEF Entry
  <2>3. [j \in ids |-> NoJob] \in [ids -> {NoJob}]
    OBVIOUS
  <2>4. \A k \in JobIds : persisted'[k] \in {NoJob, persisted[k]}
    <3> HIDE DEF ids
    <3> QED
      BY <1>3, <2>1, <2>2, <2>3
  <2>5. Range(completedJobs') \subseteq Range(completedJobs)
    BY <1>4, <2>1
  <2> QED
    BY <1>2, <2>1, <2>4, <2>5
<1>7. ASSUME Clear \/ Crash PROVE EndsForGood
  <2>1. /\ \A k \in JobIds : activeJobs'[k] = NoJob
        /\ completedJobs' = << >> /\ UNCHANGED <<persisted, creations>>
    BY <1>7 DEF Clear, Crash, Without
  <2>2. Range(completedJobs') = {}
    BY <2>1 DEF Range
  <2> QED
    BY <1>2, <2>1, <2>2
<1>8. ASSUME Tick \/ UNCHANGED vars PROVE EndsForGood
  BY <1>2, <1>8 DEF Tick, vars
<1>9. ASSUME ListReadyJobs PROVE EndsForGood
  <2>1. UNCHANGED <<completedJobs, persisted, creations>>
    BY <1>9 DEF ListReadyJobs
  <2>2. ASSUME NEW k \in Due
        PROVE  /\ k \in JobIds /\ Known(k) /\ ~Finished(activeJobs[k])
               /\ ~Finished(activeJobs'[k])
               /\ activeJobs'[k].created = activeJobs[k].created
    <3>1. k \in JobIds /\ Known(k) /\ activeJobs[k].status = "SCHEDULED"
      BY DEF Due
    <3>2. activeJobs'[k] = [activeJobs[k] EXCEPT !.status = "READY", !.updated = now]
      BY <1>9, <3>1 DEF ListReadyJobs, MarkedReady
    <3>3. activeJobs[k] \in Job
      BY <1>1, <3>1, KnownIsJob
    <3> QED
      BY <3>1, <3>2, <3>3 DEF Finished, Terminal, Job
  <2>3. \A k \in JobIds \ Due : activeJobs'[k] = activeJobs[k]
    BY <1>9 DEF ListReadyJobs, MarkedReady
  <2>4. ASSUME NEW k \in JobIds, NEW c \in 1 .. MaxCreates
        PROVE  /\ Alive(k, c)' => Alive(k, c)
               /\ HasEnded(k, c)' => HasEnded(k, c)
    <3>1. CASE k \in Due
      BY <2>1, <2>2, <3>1 DEF Alive, IsLive, IsLiveInStore, HasEnded, Unfinished
    <3>2. CASE k \notin Due
      BY <2>1, <2>3, <3>2 DEF Alive, IsLive, IsLiveInStore, HasEnded, Unfinished, Known
    <3> QED
      BY <3>1, <3>2
  <2>5. ActiveIsUnfinished'
    BY <2>2, <2>3 DEF ActiveIsUnfinished, EndingInv, Active, Known, Finished
  <2>6. CreatedInOrder'
    BY <2>1, <2>2, <2>3 DEF CreatedInOrder, EndingInv, Active, Known, Persisted
  <2> QED
    BY <2>4, <2>5, <2>6 DEF EndsForGood
<1>10. ASSUME RecoverJobs PROVE EndsForGood
  <2> DEFINE finished == {j \in Persisted : Finished(persisted[j])}
             jobs == [j \in finished |-> persisted[j]]
  <2>1. Loads = {Persisted}
    BY <1>1 DEF Loads
  <2>2. /\ activeJobs' = [j \in JobIds |-> IF j \in Persisted \ finished THEN persisted[j]
                                                                         ELSE activeJobs[j]]
        /\ completedJobs' \in HistoriesWith(jobs)
        /\ UNCHANGED <<persisted, creations>>
    BY <1>10, <2>1 DEF RecoverJobs
  <2>3. jobs \in [finished -> Job] /\ finished \in SUBSET JobIds /\ Persisted \in SUBSET JobIds
    BY <1>1 DEF Persisted, Records, TypeOK
  <2>4. \A e \in Range(completedJobs') :
          \/ e \in Range(completedJobs)
          \/ /\ e.id \in Persisted /\ persisted[e.id] # NoJob
             /\ Finished(persisted[e.id]) /\ e.job = persisted[e.id]
    <3>1. Range(completedJobs') \subseteq Range(completedJobs) \cup EntriesOf(jobs)
      BY <1>1, <2>2, <2>3, HistoriesLemma DEF TypeOK
    <3>2. \A e \in EntriesOf(jobs) : e.id \in finished /\ e.job = persisted[e.id]
      BY DEF EntriesOf
    <3> QED
      BY <3>1, <3>2 DEF Persisted
  <2>5. \A k \in JobIds :
          \/ activeJobs'[k] = activeJobs[k]
          \/ /\ activeJobs'[k] = persisted[k]
             /\ persisted[k] # NoJob /\ ~Finished(persisted[k])
    BY <2>2 DEF Persisted
  <2>6. ASSUME NEW k \in JobIds, NEW c \in 1 .. MaxCreates
        PROVE  /\ Alive(k, c)' => Alive(k, c)
               /\ HasEnded(k, c)' => HasEnded(k, c)
    <3>1. Alive(k, c)' => Alive(k, c)
      BY <2>2, <2>5 DEF Alive, IsLive, IsLiveInStore, Unfinished, Known, Finished
    <3>2. HasEnded(k, c)' => HasEnded(k, c)
      BY <2>2, <2>4, <2>5 DEF HasEnded, Known, Finished
    <3> QED
      BY <3>1, <3>2
  <2>7. ActiveIsUnfinished'
    BY <2>5 DEF ActiveIsUnfinished, EndingInv, Active, Known, Finished
  <2>8. CreatedInOrder'
    <3>1. \A k \in Active' : activeJobs'[k].created <= creations[k]
      BY <2>5 DEF CreatedInOrder, EndingInv, Active, Known, Persisted
    <3>2. \A e \in Range(completedJobs') : e.job.created <= creations[e.id]
      BY <2>4 DEF CreatedInOrder, EndingInv
    <3> QED
      BY <2>2, <3>1, <3>2 DEF CreatedInOrder, EndingInv, Persisted
  <2> QED
    BY <2>6, <2>7, <2>8 DEF EndsForGood
<1> QED
  BY <1>5, <1>6, <1>7, <1>8, <1>9, <1>10

LEMMA StepEndsForGood ==
  ASSUME EndingInv, EndingSettings, [Next]_vars
  PROVE  EndsForGood
<1>1. ASSUME AmendOrArchiveCall PROVE EndsForGood
  BY <1>1, Kinds, AmendEndsForGood, ArchiveEndsForGood DEF AmendOrArchive, EndingInv
<1> QED
  BY <1>1, CreateEndsForGood, OtherStepsEndForGood
  DEF Next, UserStep, EngineStep, EnvironmentStep, AmendOrArchiveCall

\* A job that has been completed, failed, cancelled or expired is never live again:
\* no late call, no recovery and no new job with its identifier brings it back, as
\* long as jobs that end leave memory (cleanup_history) and no write is lost.
THEOREM NoResurrectionCorrect ==
  ASSUME EndingSettings
  PROVE  Spec => NoResurrection
<1>1. Init => EndingInv
  <2>1. Init => TypeOK
    BY InitTypes
  <2> QED
    BY <2>1 DEF Init, EndingInv, ActiveIsUnfinished, EndedIsNotAlive, CreatedInOrder,
                HasEnded, Active, Known, Persisted, Range
<1>2. ASSUME EndingInv, [Next]_vars
      PROVE  /\ EndingInv'
             /\ \A j \in JobIds, c \in 1 .. MaxCreates : HasEnded(j, c) => ~IsLive(j, c)'
  <2>1. EndsForGood /\ TypeOK' /\ TypeOK
    BY <1>2, StepEndsForGood, StepKeepsTypes DEF EndingInv
  <2>2. ASSUME NEW j \in JobIds, NEW c \in 1 .. MaxCreates, HasEnded(j, c)
        PROVE  ~Alive(j, c)'
    <3>1. ~Alive(j, c)
      BY <1>2, <2>2 DEF EndingInv, EndedIsNotAlive
    <3>2. c <= creations[j] /\ creations[j] \in Nat
      BY <1>2, <2>1, <2>2 DEF EndingInv, CreatedInOrder, HasEnded, Active, Persisted, TypeOK
    <3> QED
      BY <2>1, <3>1, <3>2 DEF EndsForGood
  <2>3. EndedIsNotAlive'
    BY <2>1, <2>2 DEF EndsForGood, EndedIsNotAlive
  <2> QED
    BY <2>1, <2>2, <2>3 DEF EndsForGood, EndingInv, Alive
<1> QED
  BY <1>1, <1>2, PTL DEF Spec, NoResurrection

-----------------------------------------------------------------------------
(* The maximum number of jobs                                                *)

\* A job more than a set that has room for it: the maximum is kept.
LEMMA RoomForOne ==
  ASSUME NEW S \in SUBSET JobIds, HasRoom(S), NEW j \in JobIds, NEW T \in SUBSET (S \cup {j})
  PROVE  Cardinality(T) <= MaximumJobs
<1>1. /\ IsFiniteSet(S) /\ IsFiniteSet(S \cup {j}) /\ Cardinality(S) \in Nat /\ MaximumJobs \in Nat
      /\ (Cardinality(S \cup {j}) = Cardinality(S) \/ Cardinality(S \cup {j}) = Cardinality(S) + 1)
  BY SchedulerAssumption, FS_Subset, FS_AddElement, FS_CardinalityType
<1>2. Cardinality(T) <= Cardinality(S \cup {j}) /\ Cardinality(T) \in Nat
  BY <1>1, FS_Subset, FS_CardinalityType
<1>3. Cardinality(S) < MaximumJobs
  BY DEF HasRoom
<1> DEFINE n == Cardinality(S)
           m == Cardinality(S \cup {j})
           k == Cardinality(T)
<1>4. /\ n \in Nat /\ (m = n \/ m = n + 1) /\ n < MaximumJobs /\ MaximumJobs \in Nat
      /\ k <= m /\ k \in Nat
  BY <1>1, <1>2, <1>3
<1> HIDE DEF n, m, k
<1>5. k <= MaximumJobs
  BY <1>4
<1> QED
  BY <1>5 DEF k

\* Only a recovery leaves more active jobs than maximum_jobs, for any number of jobs:
\* create_job looks at it, after its cleanup too, and nothing else adds a job.
THEOREM CapacityCorrect == Spec => CapacityExceededOnlyByRecovery
<1> DEFINE Kept == Cardinality(Active') > MaximumJobs =>
                     \/ Cardinality(Active') <= Cardinality(Active)
                     \/ RecoverJobs
<1>1. ASSUME TypeOK, [Next]_vars PROVE Kept
  <2>1. /\ Active \in SUBSET JobIds /\ Active' \in SUBSET JobIds
        /\ IsFiniteSet(Active) /\ IsFiniteSet(Active')
        /\ Cardinality(Active) \in Nat /\ Cardinality(Active') \in Nat /\ MaximumJobs \in Nat
    <3>1. Active \in SUBSET JobIds /\ Active' \in SUBSET JobIds
      BY DEF Active
    <3> QED
      BY <3>1, SchedulerAssumption, FS_Subset, FS_CardinalityType
  <2>2. ASSUME Active' \subseteq Active PROVE Kept
    <3>1. Cardinality(Active') <= Cardinality(Active)
      BY <2>1, <2>2, FS_Subset
    <3> QED
      BY <3>1
  <2>3. ASSUME NEW S \in SUBSET JobIds, HasRoom(S), NEW j \in JobIds, Active' \subseteq S \cup {j}
        PROVE  Kept
    <3>1. Cardinality(Active') <= MaximumJobs
      BY <2>3, RoomForOne
    <3> QED
      BY <2>1, <3>1
  <2>4. activeJobs \in [JobIds -> Job \cup {NoJob}]
    BY <1>1 DEF TypeOK, Records
  <2>5. ASSUME NEW j \in JobIds, NEW trigger \in Triggers, NEW enabled \in BOOLEAN,
               CreateJob(j, trigger, enabled)
        PROVE  Kept
    <3>1. PICK nextRun \in NextRuns(trigger, now) :
            \/ HasRoom(Active) /\ Amend(j, NewJob(j, trigger, enabled, nextRun))
            \/ /\ HasRoom(Active \ DOMAIN FinishedJobs)
               /\ activeJobs' = [Without(DOMAIN FinishedJobs) EXCEPT ![j] = NewJob(j, trigger, enabled, nextRun)]
      BY <2>5 DEF CreateJob
    <3>2. CASE HasRoom(Active) /\ Amend(j, NewJob(j, trigger, enabled, nextRun))
      <4>1. Active' \subseteq Active \cup {j}
        BY <2>4, <3>2 DEF Amend, Active, Known
      <4> QED
        BY <2>1, <2>3, <3>2, <4>1
    <3>3. CASE /\ HasRoom(Active \ DOMAIN FinishedJobs)
               /\ activeJobs' = [Without(DOMAIN FinishedJobs) EXCEPT ![j] = NewJob(j, trigger, enabled, nextRun)]
      <4> DEFINE S == Active \ DOMAIN FinishedJobs
      <4>1. Active' \subseteq S \cup {j}
        BY <2>4, <3>3 DEF Without, Active, Known
      <4>2. S \in SUBSET JobIds /\ HasRoom(S)
        BY <2>1, <3>3
      <4> HIDE DEF S
      <4> QED
        BY <2>3, <4>1, <4>2
    <3> QED
      BY <3>1, <3>2, <3>3
  <2>6. ASSUME AmendOrArchiveCall PROVE Kept
    <3>1. AmendStep \/ ArchiveStep
      BY <1>1, <2>6, Kinds DEF AmendOrArchive
    <3>2. CASE AmendStep
      BY <2>2, <2>4, <3>2 DEF AmendStep, Amend, Active, Known
    <3>3. CASE ArchiveStep
      BY <2>2, <2>4, <3>3 DEF ArchiveStep, Archive, Without, Active, Known
    <3> QED
      BY <3>1, <3>2, <3>3
  <2>7. ASSUME NEW j \in JobIds, RemoveJob(j) PROVE Kept
    BY <2>2, <2>7 DEF RemoveJob, Without, Active, Known
  <2>8. ASSUME Clear \/ Crash PROVE Kept
    BY <2>2, <2>8 DEF Clear, Crash, Without, Active, Known
  <2>9. ASSUME CleanupExpiredJobs \/ Tick \/ UNCHANGED vars PROVE Kept
    BY <2>2, <2>9 DEF CleanupExpiredJobs, Tick, vars, Active, Known
  <2>10. ASSUME ListReadyJobs PROVE Kept
    <3>1. \A j \in JobIds : Known(j)' => Known(j)
      BY <2>10 DEF ListReadyJobs, MarkedReady, Due, Known
    <3> QED
      BY <2>2, <3>1 DEF Active
  <2>11. RecoverJobs => Kept
    OBVIOUS
  <2> QED
    BY <1>1, <2>5, <2>6, <2>7, <2>8, <2>9, <2>10, <2>11
    DEF Next, UserStep, EngineStep, EnvironmentStep, AmendOrArchiveCall
<1>2. TypeOK /\ [Next]_vars => [Kept]_vars
  BY <1>1
<1> QED
  BY <1>2, TypeCorrect, PTL DEF Spec, CapacityExceededOnlyByRecovery
================================================================================
