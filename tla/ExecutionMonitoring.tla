-------------------------- MODULE ExecutionMonitoring --------------------------
(***************************************************************************)
(* The locks of the execution monitor and of the managers it watches.      *)
(* Each of these objects has one re-entrant lock and calls the others with *)
(* its lock held: the managers tell the monitor what ended, and the        *)
(* monitor asks the managers for what its statistics count.                *)
(***************************************************************************)
EXTENDS Naturals, Sequences, FiniteSets

CONSTANTS
  Threads,
  Nobody    \* not one of the threads

Locks == {"tasks", "executions", "jobs", "monitor"}

Enter(lock, body) == <<[op |-> "acquire", lock |-> lock]>> \o body \o <<[op |-> "release", lock |-> lock]>>

\* A method of the manager of tasks emits an event, and the monitor is a listener.
TaskMethod == Enter("tasks", Enter("monitor", << >>))

\* mark_completed, mark_failed and mark_cancelled record the end in the monitor.
MarkFinished == Enter("executions", Enter("monitor", << >>))

\* The statistics list the tasks, the active executions, the jobs and the ready jobs.
GetStatistics ==
  Enter("monitor", Enter("tasks", << >>) \o Enter("executions", << >>)
                     \o Enter("jobs", << >>) \o Enter("jobs", << >>))

\* list_jobs, list_ready_jobs and the other methods of the scheduler call nobody.
JobMethod == Enter("jobs", << >>)

Methods == {TaskMethod, MarkFinished, GetStatistics, JobMethod}

VARIABLES
  ahead,   \* what each thread has still to do
  holder   \* the thread that holds each lock

monitorVars == <<ahead, holder>>

MonitorTypeOK ==
  /\ DOMAIN ahead = Threads
  /\ holder \in [Locks -> Threads \cup {Nobody}]

-----------------------------------------------------------------------------
MonitorInit ==
  /\ ahead = [t \in Threads |-> << >>]
  /\ holder = [l \in Locks |-> Nobody]

Begin(t) ==
  /\ ahead[t] = << >>
  /\ \E method \in Methods : ahead' = [ahead EXCEPT ![t] = method]
  /\ UNCHANGED holder

Does(t, op) == ahead[t] # << >> /\ Head(ahead[t]).op = op

Proceed(t, by) ==
  /\ ahead' = [ahead EXCEPT ![t] = Tail(@)]
  /\ holder' = [holder EXCEPT ![Head(ahead[t]).lock] = by]

Acquire(t) ==
  /\ Does(t, "acquire")
  /\ holder[Head(ahead[t]).lock] \in {Nobody, t}
  /\ Proceed(t, t)

Release(t) == Does(t, "release") /\ Proceed(t, Nobody)

MonitorNext == \E t \in Threads : Begin(t) \/ Acquire(t) \/ Release(t)

MonitorSpec == MonitorInit /\ [][MonitorNext]_monitorVars

-----------------------------------------------------------------------------
\* The lock a thread waits for is held by the other.
WaitsFor(t, u) == t # u /\ Does(t, "acquire") /\ holder[Head(ahead[t]).lock] = u

\* Threads that use the managers and the monitor at the same time, as all of them
\* promise to allow, do not wait for one another in a circle.
NoCircularWait == \A t, u \in Threads : ~(WaitsFor(t, u) /\ WaitsFor(u, t))
=============================================================================
