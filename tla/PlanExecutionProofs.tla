-------------------------- MODULE PlanExecutionProofs --------------------------
(***************************************************************************)
(* Theorems about the execution of plans, for any number of executions,    *)
(* steps, retries and sessions.                                            *)
(***************************************************************************)
EXTENDS PlanExecution, TLAPS

-----------------------------------------------------------------------------
(* The inductive invariant, for one execution                                *)

Before  == {"created", "register", "queue", "start", "validate"}
Walking == {"dispatch", "recover", "retry", "redispatch", "wait", "fallback", "unrecovered",
            "legacy", "remedy"}
Left    == {"end", "endTask", "returned"}

Exists(e) == executions[e] # NoExecution

\* A failed step is known as failed as long as the walk is at it.
StepInv(e) ==
  /\ run[e].at \in Walking => run[e].step <= Steps
  /\ unsettled[e] \subseteq {run[e].step}
  /\ run[e].at \in Before \cup {"idle", "step", "dispatch"} => unsettled[e] = {}
  /\ run[e].success => run[e].at \in Left /\ run[e].step = Steps + 1 /\ unsettled[e] = {}

\* The recovery loop counts up to the maximum for all steps together; each step adds at
\* most two, one after a wait and one before the older recovery engine.
CountInv(e) ==
  Exists(e) =>
    /\ run[e].at # "idle"
    /\ executions[e].retries <= MaximumRetries + 2 * Steps
    /\ run[e].at \in Before \cup {"step", "dispatch", "recover", "retry", "redispatch", "wait"}
         => executions[e].retries <= MaximumRetries + 2 * (run[e].step - 1)
    /\ run[e].at \in {"fallback", "unrecovered", "legacy"}
         => executions[e].retries <= MaximumRetries + 2 * (run[e].step - 1) + 1
    /\ run[e].at = "remedy" => executions[e].retries <= MaximumRetries + 2 * run[e].step
    /\ run[e].at \in {"retry", "redispatch"} => run[e].held = executions[e].retries

\* The manager of tasks is told the outcome by the last call of execute_plan.
TaskInv(e) ==
  /\ tasks[e] \in {"COMPLETED", "FAILED"} => run[e].at = "returned"
  /\ tasks[e] = "COMPLETED" => run[e].success
  /\ tasks[e] = "FAILED" => ~run[e].success
  /\ run[e].at = "returned" /\ TaskIsLive(e) => e \in refused
  /\ run[e].at = "endTask" /\ run[e].end = "COMPLETED" => run[e].success
  /\ run[e].at = "endTask" /\ run[e].end = "FAILED" => ~run[e].success

GoesOn(e) == HasStatus(e, {"QUEUED", "RUNNING", "RETRYING"})

\* A walk that has ended leaves no execution as if it went on.
StatusInv(e) ==
  /\ \/ run[e].at \in {"endTask", "returned"}
     \/ run[e].at = "end" /\ ~run[e].success
  /\ GoesOn(e)
  => e \in resumed

\* Without removals the count that the loop reads is the one it adds to.
RetryInv(e) ==
  RemovalWhileRunning \/ (/\ ~IsIdle(e) => Exists(e)
                          /\ run[e].retried <= MaximumRetries
                          /\ run[e].at \in {"retry", "redispatch"} => run[e].retried <= run[e].held)

OneInv(e) == StepInv(e) /\ CountInv(e) /\ TaskInv(e) /\ StatusInv(e) /\ RetryInv(e)

PlanInv == PlanTypeOK /\ \A e \in ExecutionIds : OneInv(e)

-----------------------------------------------------------------------------
(* What the steps change                                                     *)

LEMMA Bounds ==
  /\ Steps \in Nat /\ Steps >= 1 /\ MaximumRetries \in Nat /\ LastRetry \in Nat
  /\ LastRetry >= MaximumRetries + 2 * Steps
BY PlanAssumption, ExecutionAssumption

\* The locals of the other executions stay.
Moved(e, to) ==
  /\ run' \in [ExecutionIds -> Run]
  /\ \A f \in ExecutionIds \ {e} : run'[f] = run[f]
  /\ run'[e].at = to

SameCounts(e) ==
  run'[e].held = run[e].held /\ run'[e].retried = run[e].retried /\ run'[e].end = run[e].end

LEMMA GoesLemma ==
  ASSUME run \in [ExecutionIds -> Run], NEW e \in ExecutionIds, NEW to \in Places,
         run' = [run EXCEPT ![e].at = to]
  PROVE  /\ Moved(e, to) /\ SameCounts(e)
         /\ run'[e].step = run[e].step /\ run'[e].success = run[e].success
<1> DEFINE r == [run[e] EXCEPT !.at = to]
<1>1. run[e] \in Run /\ run' = [run EXCEPT ![e] = r]
  OBVIOUS
<1>2. /\ r \in Run /\ r.at = to /\ r.step = run[e].step /\ r.success = run[e].success
      /\ r.held = run[e].held /\ r.retried = run[e].retried /\ r.end = run[e].end
  BY <1>1 DEF Run
<1> HIDE DEF r
<1> QED
  BY <1>1, <1>2 DEF Moved, SameCounts

LEMMA LeavesLemma ==
  ASSUME run \in [ExecutionIds -> Run], NEW e \in ExecutionIds, NEW success \in BOOLEAN,
         Leaves(e, success)
  PROVE  /\ Moved(e, "end") /\ SameCounts(e)
         /\ run'[e].step = run[e].step /\ run'[e].success = success
<1> DEFINE r == [run[e] EXCEPT !.at = "end", !.success = success]
<1>1. run[e] \in Run /\ run' = [run EXCEPT ![e] = r]
  BY DEF Leaves
<1>2. /\ r \in Run /\ r.at = "end" /\ r.step = run[e].step /\ r.success = success
      /\ r.held = run[e].held /\ r.retried = run[e].retried /\ r.end = run[e].end
  BY <1>1 DEF Run, Places
<1> HIDE DEF r
<1> QED
  BY <1>1, <1>2 DEF Moved, SameCounts

LEMMA NextStepLemma ==
  ASSUME run \in [ExecutionIds -> Run], NEW e \in ExecutionIds, NextStep(e),
         run[e].step <= Steps
  PROVE  /\ Moved(e, "step") /\ SameCounts(e)
         /\ run'[e].step = run[e].step + 1 /\ run'[e].success = run[e].success
<1> DEFINE r == [run[e] EXCEPT !.at = "step", !.step = @ + 1]
<1>1. run[e] \in Run /\ run' = [run EXCEPT ![e] = r]
  BY DEF NextStep
<1>2. run[e].step + 1 \in 1 .. Steps + 1
  BY <1>1, Bounds DEF Run
<1>3. /\ r \in Run /\ r.at = "step" /\ r.step = run[e].step + 1 /\ r.success = run[e].success
      /\ r.held = run[e].held /\ r.retried = run[e].retried /\ r.end = run[e].end
  BY <1>1, <1>2 DEF Run, Places
<1> HIDE DEF r
<1> QED
  BY <1>1, <1>3 DEF Moved, SameCounts

\* A mark changes the status of one execution, if there is one.
Marked(e, status, more) ==
  /\ executions' \in [ExecutionIds -> ExecutionState \cup {NoExecution}]
  /\ \A f \in ExecutionIds \ {e} : executions'[f] = executions[f]
  /\ ~Exists(e) => ~Exists(e)'
  /\ Exists(e) => /\ Exists(e)' /\ executions'[e].status = status
                  /\ executions'[e].retries = executions[e].retries + more

LEMMA MarkLemma ==
  ASSUME StatesTypeOK, NEW e \in ExecutionIds, NEW status \in ExecutionStatus, Mark(e, status)
  PROVE  Marked(e, status, 0)
<1>1. CASE ~Exists(e)
  BY <1>1 DEF Mark, Marked, Exists, StatesTypeOK
<1>2. CASE Exists(e)
  <2> DEFINE x == [executions[e] EXCEPT !.status = status]
  <2>1. executions[e] \in ExecutionState /\ executions' = [executions EXCEPT ![e] = x]
    BY <1>2 DEF Mark, Exists, StatesTypeOK
  <2>2. x \in ExecutionState /\ x.status = status /\ x.retries = executions[e].retries + 0
    BY <2>1, ExecutionAssumption DEF ExecutionState
  <2> HIDE DEF x
  <2>3. x # NoExecution
    BY <2>2, ExecutionAssumption
  <2> QED
    BY <1>2, <2>1, <2>2, <2>3 DEF Marked, Exists, StatesTypeOK
<1> QED
  BY <1>1, <1>2

LEMMA MarkRetryingLemma ==
  ASSUME StatesTypeOK, NEW e \in ExecutionIds, MarkRetrying(e),
         Exists(e) => executions[e].retries < LastRetry
  PROVE  Marked(e, "RETRYING", 1)
<1>1. CASE ~Exists(e)
  BY <1>1 DEF MarkRetrying, Marked, Exists, StatesTypeOK
<1>2. CASE Exists(e)
  <2> DEFINE x == [status |-> "RETRYING", retries |-> executions[e].retries + 1]
  <2>1. executions[e] \in ExecutionState /\ executions' = [executions EXCEPT ![e] = x]
    BY <1>2 DEF MarkRetrying, Exists, StatesTypeOK
  <2>2. executions[e].retries + 1 \in 0 .. LastRetry
    BY <1>2, <2>1, ExecutionAssumption DEF ExecutionState
  <2>3. x \in ExecutionState /\ x.status = "RETRYING" /\ x.retries = executions[e].retries + 1
    BY <2>2 DEF ExecutionState, ExecutionStatus, Unfinished
  <2> HIDE DEF x
  <2>4. x # NoExecution
    BY <2>3, ExecutionAssumption
  <2> QED
    BY <1>2, <2>1, <2>3, <2>4 DEF Marked, Exists, StatesTypeOK
<1> QED
  BY <1>1, <1>2

LEMMA SettledLemma ==
  ASSUME unsettled \in [ExecutionIds -> SUBSET (1 .. Steps)], NEW e \in ExecutionIds,
         NEW failed \in BOOLEAN, Settled(e, failed), run[e].step \in 1 .. Steps
  PROVE  /\ unsettled' \in [ExecutionIds -> SUBSET (1 .. Steps)]
         /\ \A f \in ExecutionIds \ {e} : unsettled'[f] = unsettled[f]
         /\ unsettled'[e] = IF failed THEN unsettled[e] \cup {run[e].step}
                                      ELSE unsettled[e] \ {run[e].step}
BY DEF Settled

\* Everything that belongs to another execution stays.
Elsewhere(e) ==
  \A f \in ExecutionIds \ {e} :
    /\ run'[f] = run[f] /\ executions'[f] = executions[f]
    /\ tasks'[f] = tasks[f] /\ unsettled'[f] = unsettled[f]
    /\ f \in refused' <=> f \in refused
    /\ f \in resumed' <=> f \in resumed

LEMMA OneOfThem ==
  ASSUME PlanInv, NEW e \in ExecutionIds, PlanTypeOK', Elsewhere(e), OneInv(e)'
  PROVE  PlanInv'
<1> SUFFICES ASSUME NEW f \in ExecutionIds, f # e
             PROVE  OneInv(f)'
  BY DEF PlanInv
<1>1. /\ run'[f] = run[f] /\ executions'[f] = executions[f]
      /\ tasks'[f] = tasks[f] /\ unsettled'[f] = unsettled[f]
      /\ f \in refused' <=> f \in refused
      /\ f \in resumed' <=> f \in resumed
  BY DEF Elsewhere
<1>2. StepInv(f) /\ CountInv(f) /\ TaskInv(f) /\ StatusInv(f) /\ RetryInv(f)
  BY DEF PlanInv, OneInv
<1>3. StepInv(f)'
  BY <1>1, <1>2 DEF StepInv
<1>4. CountInv(f)'
  BY <1>1, <1>2 DEF CountInv, Exists
<1>5. TaskInv(f)'
  BY <1>1, <1>2 DEF TaskInv, TaskIsLive, HasTask
<1>6. StatusInv(f)'
  BY <1>1, <1>2 DEF StatusInv, GoesOn, HasStatus
<1>7. RetryInv(f)'
  BY <1>1, <1>2 DEF RetryInv, IsIdle, Exists
<1> QED
  BY <1>3, <1>4, <1>5, <1>6, <1>7 DEF OneInv

\* What is known of one execution.
LEMMA Known ==
  ASSUME PlanInv, NEW e \in ExecutionIds
  PROVE  /\ executions[e] \in ExecutionState \cup {NoExecution}
         /\ Exists(e) => executions[e].retries \in Nat
         /\ run[e] \in Run /\ run[e].step \in 1 .. Steps + 1
         /\ run[e].held \in 0 .. LastRetry /\ run[e].retried \in 0 .. MaximumRetries + 1
         /\ tasks[e] \in TaskStatus /\ unsettled[e] \in SUBSET (1 .. Steps)
         /\ StepInv(e) /\ CountInv(e) /\ TaskInv(e) /\ StatusInv(e) /\ RetryInv(e)
         /\ PlanTypeOK /\ StatesTypeOK /\ SessionsTypeOK
         /\ run \in [ExecutionIds -> Run]
<1>1. PlanTypeOK /\ StatesTypeOK /\ SessionsTypeOK /\ OneInv(e)
  BY DEF PlanInv, PlanTypeOK
<1>2. executions[e] \in ExecutionState \cup {NoExecution}
  BY <1>1 DEF StatesTypeOK
<1>3. Exists(e) => executions[e].retries \in Nat
  BY <1>2, Bounds DEF Exists, ExecutionState
<1>4. run \in [ExecutionIds -> Run] /\ run[e] \in Run
  BY <1>1 DEF PlanTypeOK
<1>5. /\ run[e].step \in 1 .. Steps + 1 /\ run[e].held \in 0 .. LastRetry
      /\ run[e].retried \in 0 .. MaximumRetries + 1
  BY <1>4 DEF Run
<1>6. tasks[e] \in TaskStatus /\ unsettled[e] \in SUBSET (1 .. Steps)
  BY <1>1 DEF PlanTypeOK
<1> QED
  BY <1>1, <1>2, <1>3, <1>4, <1>5, <1>6 DEF OneInv

LEMMA SessionsKept ==
  ASSUME SessionsTypeOK, UNCHANGED sessionVars
  PROVE  SessionsTypeOK'
BY DEF SessionsTypeOK, sessionVars

-----------------------------------------------------------------------------
(* The steps of execute_plan                                                 *)

\* Steps that only go on, and at most set the status.
Onward == {<<"created", "register">>, <<"created", "validate">>, <<"register", "validate">>,
           <<"validate", "step">>, <<"step", "dispatch">>, <<"recover", "unrecovered">>,
           <<"retry", "unrecovered">>, <<"unrecovered", "legacy">>}

LEMMA OnwardStep ==
  ASSUME PlanInv, NEW e \in ExecutionIds, NEW from, NEW to, <<from, to>> \in Onward,
         to = "dispatch" => run[e].step <= Steps,
         Goes(e, from, to),
         UNCHANGED executions \/ \E status \in ExecutionStatus : Mark(e, status),
         UNCHANGED <<sessionVars, tasks, history>>
  PROVE  PlanInv'
<1>1. /\ run[e].at = from /\ Moved(e, to) /\ SameCounts(e)
      /\ run'[e].step = run[e].step /\ run'[e].success = run[e].success
  <2>1. to \in Places
    BY DEF Onward, Places
  <2>2. run \in [ExecutionIds -> Run]
    BY Known
  <2> QED
    BY <2>1, <2>2, GoesLemma DEF Goes
<1>2. \E status : Marked(e, status, 0)
  <2>1. CASE UNCHANGED executions
    <3>1. executions[e].retries = executions[e].retries + 0 \/ ~Exists(e)
      BY Known
    <3> QED
      BY <2>1, <3>1, Known DEF Marked, StatesTypeOK, Exists
  <2>2. ASSUME NEW status \in ExecutionStatus, Mark(e, status)
        PROVE  Marked(e, status, 0)
    BY <2>2, Known, MarkLemma
  <2> QED
    BY <2>1, <2>2
<1>3. /\ Exists(e)' => Exists(e) /\ executions'[e].retries = executions[e].retries
      /\ Exists(e) => Exists(e)'
  BY <1>2, Known DEF Marked
<1>4. UNCHANGED <<tasks, unsettled, refused, resumed>> /\ UNCHANGED sessionVars
  BY DEF history
<1>5. PlanTypeOK'
  BY <1>1, <1>2, <1>4, Known, SessionsKept DEF PlanTypeOK, Marked, Moved, StatesTypeOK
<1>6. Elsewhere(e)
  BY <1>1, <1>2, <1>4 DEF Elsewhere, Marked, Moved
<1>7. run'[e].at = to
  BY <1>1 DEF Moved
<1>8. StepInv(e)'
  BY <1>1, <1>4, <1>7, Known DEF StepInv, Onward, Before, Walking, Left
<1>9. CountInv(e)'
  BY <1>1, <1>3, <1>7, Known, Bounds DEF CountInv, Onward, Before, SameCounts
<1>10. TaskInv(e)' /\ StatusInv(e)'
  BY <1>1, <1>4, <1>7, Known DEF TaskInv, StatusInv, GoesOn, HasStatus, Onward
<1>11. RetryInv(e)'
  BY <1>1, <1>3, <1>7, Known DEF RetryInv, Onward, SameCounts, IsIdle
<1> QED
  BY <1>5, <1>6, <1>8, <1>9, <1>10, <1>11, OneOfThem DEF OneInv

\* Steps of the task before the walk.
LEMMA TaskStep ==
  ASSUME PlanInv, NEW e \in ExecutionIds,
         \/ Goes(e, "register", "queue")
         \/ Goes(e, "queue", "start")
         \/ Goes(e, "start", "validate"),
         NEW status \in TaskStatus \ {"COMPLETED", "FAILED"},
         tasks' = [tasks EXCEPT ![e] = status] \/ UNCHANGED tasks,
         UNCHANGED <<executions, sessionVars, history>>
  PROVE  PlanInv'
<1>1. PICK to \in {"queue", "start", "validate"} :
        /\ run[e].at \in {"register", "queue", "start"} /\ Moved(e, to) /\ SameCounts(e)
        /\ run'[e].step = run[e].step /\ run'[e].success = run[e].success
  BY Known, GoesLemma DEF Goes, Places
<1>2. UNCHANGED <<executions, unsettled, refused, resumed>> /\ UNCHANGED sessionVars
  BY DEF history
<1>3. /\ tasks' \in [ExecutionIds -> TaskStatus]
      /\ \A f \in ExecutionIds \ {e} : tasks'[f] = tasks[f]
      /\ tasks'[e] = status \/ tasks'[e] = tasks[e]
  BY DEF PlanInv, PlanTypeOK
<1>4. PlanTypeOK'
  BY <1>1, <1>2, <1>3, Known, SessionsKept DEF PlanTypeOK, Moved, StatesTypeOK
<1>5. Elsewhere(e)
  BY <1>1, <1>2, <1>3 DEF Elsewhere, Moved
<1>6. run'[e].at = to
  BY <1>1 DEF Moved
<1>7. StepInv(e)'
  BY <1>1, <1>2, <1>6, Known DEF StepInv, Before, Walking, Left
<1>8. CountInv(e)'
  BY <1>1, <1>2, <1>6, Known DEF CountInv, Exists, Before, SameCounts
<1>9. TaskInv(e)'
  BY <1>1, <1>3, <1>6, Known DEF TaskInv
<1>10. StatusInv(e)' /\ RetryInv(e)'
  BY <1>1, <1>2, <1>6, Known DEF StatusInv, GoesOn, HasStatus, RetryInv, SameCounts, Exists, IsIdle
<1> QED
  BY <1>4, <1>5, <1>7, <1>8, <1>9, <1>10, OneOfThem DEF OneInv

\* A plan that is not valid returns at once.
LEMMA RefusedStep ==
  ASSUME PlanInv, NEW e \in ExecutionIds, Goes(e, "validate", "returned"), Mark(e, "FAILED"),
         refused' = refused \cup {e},
         UNCHANGED <<sessionVars, tasks, unsettled, resumed>>
  PROVE  PlanInv'
<1>1. /\ run[e].at = "validate" /\ Moved(e, "returned") /\ SameCounts(e)
      /\ run'[e].step = run[e].step /\ run'[e].success = run[e].success
  BY Known, GoesLemma DEF Goes, Places
<1>2. Marked(e, "FAILED", 0)
  BY Known, MarkLemma DEF ExecutionStatus
<1>3. UNCHANGED sessionVars
  OBVIOUS
<1>4. PlanTypeOK'
  BY <1>1, <1>2, <1>3, Known, SessionsKept DEF PlanTypeOK, Moved, Marked, StatesTypeOK
<1>5. Elsewhere(e)
  BY <1>1, <1>2 DEF Elsewhere, Moved, Marked
<1>6. run'[e].at = "returned"
  BY <1>1 DEF Moved
<1>7. StepInv(e)'
  BY <1>1, <1>6, Known DEF StepInv, Before, Walking, Left
<1>8. CountInv(e)'
  <2>1. Exists(e)' => executions'[e].retries = executions[e].retries /\ Exists(e)
    BY <1>2, Known DEF Marked
  <2>2. Exists(e) => executions[e].retries <= MaximumRetries + 2 * Steps
    BY Known DEF CountInv
  <2> QED
    BY <1>6, <2>1, <2>2 DEF CountInv, Before
<1>9. TaskInv(e)'
  BY <1>1, <1>6, Known DEF TaskInv
<1>10. StatusInv(e)'
  BY <1>2 DEF StatusInv, GoesOn, HasStatus, Marked, Exists
<1>11. RetryInv(e)'
  BY <1>1, <1>6, Known DEF RetryInv, SameCounts, IsIdle
<1> QED
  BY <1>4, <1>5, <1>7, <1>8, <1>9, <1>10, <1>11, OneOfThem DEF OneInv

\* The walk goes on to the next step, with nothing unsettled behind it.
LEMMA PassStep ==
  ASSUME PlanInv, NEW e \in ExecutionIds, NextStep(e), run[e].step <= Steps,
         \/ run[e].at = "step" /\ UNCHANGED unsettled
         \/ run[e].at \in {"dispatch", "redispatch", "fallback", "remedy"} /\ Settled(e, FALSE),
         UNCHANGED <<executions, sessionVars, tasks, refused, resumed>>
  PROVE  PlanInv'
<1>1. /\ Moved(e, "step") /\ SameCounts(e)
      /\ run'[e].step = run[e].step + 1 /\ run'[e].success = run[e].success
  BY Known, NextStepLemma
<1>2. /\ unsettled' \in [ExecutionIds -> SUBSET (1 .. Steps)]
      /\ \A f \in ExecutionIds \ {e} : unsettled'[f] = unsettled[f]
      /\ unsettled'[e] = {}
  <2>1. CASE run[e].at = "step" /\ UNCHANGED unsettled
    BY <2>1, Known DEF PlanTypeOK, StepInv
  <2>2. CASE Settled(e, FALSE)
    <3>1. run[e].step \in 1 .. Steps /\ unsettled[e] \subseteq {run[e].step}
      BY Known, Bounds DEF StepInv
    <3>2. unsettled \in [ExecutionIds -> SUBSET (1 .. Steps)]
      BY DEF PlanInv, PlanTypeOK
    <3> QED
      BY <2>2, <3>1, <3>2, SettledLemma
  <2> QED
    BY <2>1, <2>2
<1>3. UNCHANGED <<executions, tasks, refused, resumed>> /\ UNCHANGED sessionVars
  OBVIOUS
<1>4. PlanTypeOK'
  BY <1>1, <1>2, <1>3, Known, SessionsKept DEF PlanTypeOK, Moved, StatesTypeOK
<1>5. Elsewhere(e)
  BY <1>1, <1>2, <1>3 DEF Elsewhere, Moved
<1>6. run'[e].at = "step"
  BY <1>1 DEF Moved
<1>7. run[e].at \in {"step", "dispatch", "redispatch", "fallback", "remedy"}
  OBVIOUS
<1>8. StepInv(e)'
  BY <1>1, <1>2, <1>6, <1>7, Known DEF StepInv, Walking, Left
<1>9. CountInv(e)'
  <2> SUFFICES ASSUME Exists(e)
               PROVE  executions[e].retries <= MaximumRetries + 2 * run[e].step
    BY <1>1, <1>3, <1>6, <1>7, Known, Bounds DEF CountInv, Exists
  <2> QED
    BY <1>7, Known, Bounds DEF CountInv
<1>10. TaskInv(e)' /\ StatusInv(e)'
  BY <1>3, <1>6, <1>7, Known DEF TaskInv, StatusInv
<1>11. RetryInv(e)'
  BY <1>1, <1>3, <1>6, <1>7, Known DEF RetryInv, SameCounts, IsIdle, Exists
<1> QED
  BY <1>4, <1>5, <1>8, <1>9, <1>10, <1>11, OneOfThem DEF OneInv

\* A dispatch that fails.
LEMMA FailedStep ==
  ASSUME PlanInv, NEW e \in ExecutionIds, NEW from, NEW to,
         \/ from = "dispatch" /\ to = "recover"
         \/ from = "redispatch" /\ to = "retry"
         \/ from = "fallback" /\ to = "unrecovered",
         run[e].at = from, run' = [run EXCEPT ![e].at = to], Settled(e, TRUE),
         UNCHANGED <<executions, sessionVars, tasks, refused, resumed>>
  PROVE  PlanInv'
<1>1. /\ Moved(e, to) /\ SameCounts(e)
      /\ run'[e].step = run[e].step /\ run'[e].success = run[e].success
  <2>1. to \in Places
    BY DEF Places
  <2> QED
    BY <2>1, Known, GoesLemma
<1>2. /\ unsettled' \in [ExecutionIds -> SUBSET (1 .. Steps)]
      /\ \A f \in ExecutionIds \ {e} : unsettled'[f] = unsettled[f]
      /\ unsettled'[e] \subseteq {run[e].step}
  <2>1. run[e].step \in 1 .. Steps /\ unsettled[e] \subseteq {run[e].step}
    BY Known, Bounds DEF StepInv, Walking
  <2>2. unsettled \in [ExecutionIds -> SUBSET (1 .. Steps)]
    BY DEF PlanInv, PlanTypeOK
  <2> QED
    BY <2>1, <2>2, SettledLemma
<1>3. UNCHANGED <<executions, tasks, refused, resumed>> /\ UNCHANGED sessionVars
  OBVIOUS
<1>4. PlanTypeOK'
  BY <1>1, <1>2, <1>3, Known, SessionsKept DEF PlanTypeOK, Moved, StatesTypeOK
<1>5. Elsewhere(e)
  BY <1>1, <1>2, <1>3 DEF Elsewhere, Moved
<1>6. run'[e].at = to
  BY <1>1 DEF Moved
<1>7. StepInv(e)'
  BY <1>1, <1>2, <1>6, Known DEF StepInv, Before, Walking, Left
<1>8. CountInv(e)'
  BY <1>1, <1>3, <1>6, Known, Bounds DEF CountInv, Exists, Before, SameCounts
<1>9. TaskInv(e)' /\ StatusInv(e)'
  BY <1>3, <1>6, Known DEF TaskInv, StatusInv
<1>10. RetryInv(e)'
  BY <1>1, <1>3, <1>6, Known DEF RetryInv, SameCounts, IsIdle, Exists
<1> QED
  BY <1>4, <1>5, <1>7, <1>8, <1>9, <1>10, OneOfThem DEF OneInv

LEMMA TriesStep ==
  ASSUME PlanInv, NEW e \in ExecutionIds, Dispatch(e) \/ Redispatch(e) \/ Fallback(e)
  PROVE  PlanInv'
<1>1. PICK from, to :
        /\ \/ from = "dispatch" /\ to = "recover"
           \/ from = "redispatch" /\ to = "retry"
           \/ from = "fallback" /\ to = "unrecovered"
        /\ Tries(e, from, to)
  BY Zenon DEF Dispatch, Redispatch, Fallback
<1>2. run[e].at = from /\ UNCHANGED <<executions, sessionVars, tasks, refused, resumed>>
  BY <1>1 DEF Tries
<1>3. CASE Settled(e, FALSE) /\ NextStep(e)
  <2>1. run[e].step <= Steps
    BY <1>1, <1>2, Known DEF StepInv, Walking
  <2>2. run[e].at \in {"dispatch", "redispatch", "fallback", "remedy"}
    BY <1>1, <1>2
  <2> QED
    BY <1>2, <1>3, <2>1, <2>2, PassStep
<1>4. CASE Settled(e, TRUE) /\ run' = [run EXCEPT ![e].at = to]
  BY <1>1, <1>2, <1>4, FailedStep, Zenon
<1> QED
  BY <1>1, <1>3, <1>4 DEF Tries

\* The walk ends.  When it has not come to its end, nothing says that it goes on.
LEMMA LeaveStep ==
  ASSUME PlanInv, NEW e \in ExecutionIds, NEW success \in BOOLEAN, Leaves(e, success),
         run[e].at \in {"step", "unrecovered", "remedy"},
         success => run[e].at = "step" /\ run[e].step > Steps,
         UNCHANGED unsettled \/ (Settled(e, TRUE) /\ run[e].at = "remedy"),
         UNCHANGED executions \/ \E status \in ExecutionStatus : Mark(e, status),
         success \/ ~GoesOn(e)',
         UNCHANGED <<sessionVars, tasks, refused, resumed>>
  PROVE  PlanInv'
<1>1. /\ Moved(e, "end") /\ SameCounts(e)
      /\ run'[e].step = run[e].step /\ run'[e].success = success
  BY Known, LeavesLemma
<1>2. /\ unsettled' \in [ExecutionIds -> SUBSET (1 .. Steps)]
      /\ \A f \in ExecutionIds \ {e} : unsettled'[f] = unsettled[f]
      /\ unsettled'[e] \subseteq {run[e].step}
      /\ success => unsettled'[e] = {}
  <2>1. unsettled \in [ExecutionIds -> SUBSET (1 .. Steps)]
    BY DEF PlanInv, PlanTypeOK
  <2>2. CASE UNCHANGED unsettled
    BY <2>1, <2>2, Known DEF StepInv
  <2>3. CASE Settled(e, TRUE) /\ run[e].at = "remedy"
    <3>1. run[e].step \in 1 .. Steps /\ unsettled[e] \subseteq {run[e].step}
      BY <2>3, Known, Bounds DEF StepInv, Walking
    <3> QED
      BY <2>1, <2>3, <3>1, SettledLemma
  <2> QED
    BY <2>2, <2>3
<1>3. \E status : Marked(e, status, 0)
  <2>1. CASE UNCHANGED executions
    <3>1. executions[e].retries = executions[e].retries + 0 \/ ~Exists(e)
      BY Known
    <3> QED
      BY <2>1, <3>1, Known DEF Marked, StatesTypeOK, Exists
  <2>2. ASSUME NEW status \in ExecutionStatus, Mark(e, status)
        PROVE  Marked(e, status, 0)
    BY <2>2, Known, MarkLemma
  <2> QED
    BY <2>1, <2>2
<1>4. /\ Exists(e)' => Exists(e) /\ executions'[e].retries = executions[e].retries
      /\ Exists(e) => Exists(e)'
  BY <1>3, Known DEF Marked
<1>5. UNCHANGED <<tasks, refused, resumed>> /\ UNCHANGED sessionVars
  OBVIOUS
<1>6. PlanTypeOK'
  BY <1>1, <1>2, <1>3, <1>5, Known, SessionsKept DEF PlanTypeOK, Moved, Marked, StatesTypeOK
<1>7. Elsewhere(e)
  BY <1>1, <1>2, <1>3, <1>5 DEF Elsewhere, Moved, Marked
<1>8. run'[e].at = "end"
  BY <1>1 DEF Moved
<1>9. success => run[e].step = Steps + 1
  BY Known, Bounds
<1>10. StepInv(e)'
  BY <1>1, <1>2, <1>8, <1>9 DEF StepInv, Before, Walking, Left
<1>11. CountInv(e)'
  BY <1>4, <1>8, Known DEF CountInv, Before
<1>12. TaskInv(e)' /\ StatusInv(e)'
  BY <1>1, <1>5, <1>8, Known DEF TaskInv, StatusInv
<1>13. RetryInv(e)'
  BY <1>1, <1>4, <1>8, Known DEF RetryInv, SameCounts, IsIdle
<1> QED
  BY <1>6, <1>7, <1>10, <1>11, <1>12, <1>13, OneOfThem DEF OneInv

\* What a mark makes of the status.
LEMMA MarkedStatus ==
  ASSUME PlanInv, NEW e \in ExecutionIds, NEW status \in ExecutionStatus, Mark(e, status),
         status \notin {"QUEUED", "RUNNING", "RETRYING"}
  PROVE  ~GoesOn(e)'
<1>1. Marked(e, status, 0)
  BY Known, MarkLemma
<1> QED
  BY <1>1 DEF Marked, GoesOn, HasStatus, Exists

LEMMA DecideStep ==
  ASSUME PlanInv, NEW e \in ExecutionIds, Decide(e) \/ AllDone(e)
  PROVE  PlanInv'
<1>1. /\ run[e].at = "step" /\ run[e].at \in {"step", "unrecovered", "remedy"}
      /\ UNCHANGED unsettled /\ UNCHANGED <<sessionVars, tasks, refused, resumed>>
  BY DEF Decide, AllDone, history
<1>2. CASE AllDone(e)
  <2>1. run[e].step \in Nat /\ Steps \in Nat
    BY Known, Bounds
  <2>2. PICK success \in BOOLEAN :
          success /\ ~MoreSteps(e) /\ Leaves(e, success) /\ UNCHANGED executions
    BY <1>2, Zenon DEF AllDone
  <2>3. run[e].step > Steps
    BY <2>1, <2>2 DEF MoreSteps
  <2> QED
    BY <1>1, <2>2, <2>3, LeaveStep, Zenon
<1>3. CASE Decide(e)
  <2>1. run[e].step <= Steps
    BY <1>3 DEF Decide, MoreSteps
  <2>2. CASE Goes(e, "step", "dispatch") /\ UNCHANGED executions
    <3>1. <<"step", "dispatch">> \in Onward /\ UNCHANGED history
      BY <1>1 DEF Onward, history
    <3> QED
      BY <1>1, <2>1, <2>2, <3>1, OnwardStep
  <2>3. CASE NextStep(e) /\ UNCHANGED executions
    BY <1>1, <2>1, <2>3, PassStep
  <2>4. ASSUME NEW status \in {"WAITING", "WAITING_FOR_CONFIRMATION", "PAUSED"},
               Mark(e, status), Leaves(e, FALSE)
        PROVE  PlanInv'
    <3>1. status \in ExecutionStatus /\ status \notin {"QUEUED", "RUNNING", "RETRYING"}
      BY DEF ExecutionStatus, Unfinished
    <3>2. ~GoesOn(e)'
      BY <2>4, <3>1, MarkedStatus
    <3> QED
      BY <1>1, <2>4, <3>1, <3>2, LeaveStep, Zenon
  <2> QED
    BY <1>3, <2>2, <2>3, <2>4 DEF Decide
<1> QED
  BY <1>2, <1>3

\* A strategy begins with the count of the entry it has found.
LEMMA StrategyStep ==
  ASSUME PlanInv, NEW e \in ExecutionIds, run[e].at = "recover", Exists(e),
         NEW strategy \in {"retry", "wait", "fallback"},
         run' = [run EXCEPT ![e].at = strategy, ![e].held = executions[e].retries,
                            ![e].retried = 0],
         UNCHANGED executions, UNCHANGED <<sessionVars, tasks, unsettled, refused, resumed>>
  PROVE  PlanInv'
<1> DEFINE r == [run[e] EXCEPT !.at = strategy, !.held = executions[e].retries, !.retried = 0]
<1>1. run \in [ExecutionIds -> Run] /\ run[e] \in Run /\ run' = [run EXCEPT ![e] = r]
  BY Known
<1>2. executions[e].retries \in 0 .. LastRetry /\ 0 \in 0 .. MaximumRetries + 1
  BY Known, Bounds DEF Exists, ExecutionState
<1>3. /\ r \in Run /\ r.at = strategy /\ r.step = run[e].step /\ r.success = run[e].success
      /\ r.held = executions[e].retries /\ r.retried = 0 /\ r.end = run[e].end
  BY <1>1, <1>2 DEF Run, Places
<1> HIDE DEF r
<1>4. run' \in [ExecutionIds -> Run] /\ run'[e] = r
  BY ONLY <1>1, <1>3, e \in ExecutionIds
<1>5. \A f \in ExecutionIds \ {e} : run'[f] = run[f]
  BY ONLY <1>1, e \in ExecutionIds
<1>6. PlanTypeOK'
  BY <1>4, Known, SessionsKept DEF PlanTypeOK, StatesTypeOK
<1>7. Elsewhere(e)
  BY <1>5 DEF Elsewhere
<1>8. StepInv(e)'
  BY <1>3, <1>4, Known DEF StepInv, Before, Walking, Left
<1>9. CountInv(e)'
  BY <1>3, <1>4, Known, Bounds DEF CountInv, Before, Exists
<1>10. TaskInv(e)' /\ StatusInv(e)'
  BY <1>3, <1>4, Known DEF TaskInv, StatusInv
<1>11. RetryInv(e)'
  BY <1>2, <1>3, <1>4, Known, Bounds DEF RetryInv, Exists
<1> QED
  BY <1>6, <1>7, <1>8, <1>9, <1>10, <1>11, OneOfThem DEF OneInv

LEMMA RecoverStep ==
  ASSUME PlanInv, NEW e \in ExecutionIds, Recover(e)
  PROVE  PlanInv'
<1>1. /\ run[e].at = "recover"
      /\ UNCHANGED <<sessionVars, tasks, history>>
      /\ UNCHANGED <<sessionVars, tasks, unsettled, refused, resumed>>
      /\ <<"recover", "unrecovered">> \in Onward
  BY DEF Recover, history, Onward
<1>2. ASSUME NEW strategy \in {"retry", "wait", "fallback"}, Exists(e), UNCHANGED executions,
             run' = [run EXCEPT ![e].at = strategy, ![e].held = executions[e].retries,
                                ![e].retried = 0]
      PROVE  PlanInv'
  BY <1>1, <1>2, StrategyStep
<1>3. CASE Goes(e, "recover", "unrecovered") /\ Mark(e, "WAITING_FOR_CONFIRMATION")
  <2>1. \E status \in ExecutionStatus : Mark(e, status)
    BY <1>3 DEF ExecutionStatus, Unfinished
  <2> QED
    BY <1>1, <1>3, <2>1, OnwardStep
<1>4. CASE Goes(e, "recover", "unrecovered") /\ UNCHANGED executions
  BY <1>1, <1>4, OnwardStep
<1> QED
  BY <1>2, <1>3, <1>4 DEF Recover, Exists

\* The execution is marked RETRYING, and the count goes up by one.
LEMMA RetryStep ==
  ASSUME PlanInv, NEW e \in ExecutionIds, Retry(e)
  PROVE  PlanInv'
<1>1. run[e].at = "retry" /\ UNCHANGED sessionVars /\ UNCHANGED <<tasks, unsettled, refused, resumed>>
  BY DEF Retry, Goes, history
<1>2. CASE Goes(e, "retry", "unrecovered") /\ UNCHANGED executions
  <2>1. <<"retry", "unrecovered">> \in Onward /\ UNCHANGED <<sessionVars, tasks, history>>
    BY DEF Onward, Retry
  <2> QED
    BY <1>2, <2>1, OnwardStep
<1>3. CASE MayRetry(e) /\ MarkRetrying(e)
           /\ run' = [run EXCEPT ![e].at = "redispatch", ![e].held = Counted(e),
                                 ![e].retried = IF @ > MaximumRetries THEN @ ELSE @ + 1]
  <2> DEFINE more == IF run[e].retried > MaximumRetries THEN run[e].retried ELSE run[e].retried + 1
             held == Counted(e)
             r == [run[e] EXCEPT !.at = "redispatch", !.held = held, !.retried = more]
  <2>1. run \in [ExecutionIds -> Run] /\ run[e] \in Run /\ run' = [run EXCEPT ![e] = r]
    BY <1>3, Known
  <2>2. run[e].held < MaximumRetries
    BY <1>3 DEF MayRetry
  <2>3. /\ held = IF Exists(e) THEN run[e].held + 1 ELSE run[e].held
        /\ held \in 0 .. LastRetry
    BY <2>2, Known, Bounds DEF Counted, Exists
  <2>4. /\ more \in 0 .. MaximumRetries + 1
        /\ run[e].retried <= MaximumRetries => more = run[e].retried + 1
    BY Known, Bounds
  <2> HIDE DEF held, more
  <2>5. /\ r \in Run /\ r.at = "redispatch" /\ r.step = run[e].step /\ r.success = run[e].success
        /\ r.held = held /\ r.retried = more /\ r.end = run[e].end
    BY <2>1, <2>3, <2>4 DEF Run, Places
  <2> HIDE DEF r
  <2>6. /\ run' \in [ExecutionIds -> Run] /\ run'[e] = r
        /\ \A f \in ExecutionIds \ {e} : run'[f] = run[f]
    BY <2>1, <2>5
  <2>7. Exists(e) => executions[e].retries = run[e].held
    BY <1>1, Known DEF CountInv
  <2>8. Marked(e, "RETRYING", 1)
    BY <1>3, <2>2, <2>7, Known, Bounds, MarkRetryingLemma
  <2>9. PlanTypeOK'
    BY <1>1, <2>6, <2>8, Known, SessionsKept DEF PlanTypeOK, StatesTypeOK, Marked
  <2>10. Elsewhere(e)
    BY <1>1, <2>6, <2>8 DEF Elsewhere, Marked
  <2>11. StepInv(e)'
    BY <1>1, <2>5, <2>6, Known DEF StepInv, Before, Walking, Left
  <2>12. CountInv(e)'
    <3> SUFFICES ASSUME Exists(e)'
                 PROVE  CountInv(e)'
      BY DEF CountInv
    <3>1. executions'[e].retries = held /\ held = run[e].held + 1
      BY <2>3, <2>7, <2>8 DEF Marked
    <3>2. run[e].step \in Nat /\ run[e].step >= 1 /\ run[e].held \in Nat
      BY Known, Bounds
    <3>3. /\ held <= MaximumRetries + 2 * Steps
          /\ held <= MaximumRetries + 2 * (run[e].step - 1)
      BY <2>2, <3>1, <3>2, Bounds
    <3> QED
      BY <2>5, <2>6, <3>1, <3>3 DEF CountInv
  <2>13. TaskInv(e)' /\ StatusInv(e)'
    BY <1>1, <2>5, <2>6, Known DEF TaskInv, StatusInv
  <2>14. RetryInv(e)'
    <3> SUFFICES ASSUME ~RemovalWhileRunning
                 PROVE  Exists(e)' /\ more <= MaximumRetries /\ more <= held
      BY <2>5, <2>6 DEF RetryInv
    <3>1. Exists(e) /\ run[e].retried <= MaximumRetries /\ run[e].retried <= run[e].held
      BY <1>1, Known DEF RetryInv, IsIdle
    <3>2. held = run[e].held + 1 /\ more = run[e].retried + 1
      BY <2>3, <2>4, <3>1
    <3> QED
      BY <2>2, <2>8, <3>1, <3>2, Known, Bounds DEF Marked
  <2> QED
    BY <2>9, <2>10, <2>11, <2>12, <2>13, <2>14, OneOfThem DEF OneInv
<1> QED
  BY <1>2, <1>3 DEF Retry

\* The two other ways to mark an execution RETRYING, each at most once in a step.
LEMMA MarkingStep ==
  ASSUME PlanInv, NEW e \in ExecutionIds, Wait(e) \/ Legacy(e)
  PROVE  PlanInv'
<1>1. /\ UNCHANGED sessionVars /\ UNCHANGED <<tasks, unsettled, refused, resumed>>
      /\ MarkRetrying(e)
  BY DEF Wait, Legacy, history
<1>2. PICK to \in {"fallback", "remedy"} :
        /\ run[e].at = IF to = "fallback" THEN "wait" ELSE "legacy"
        /\ Moved(e, to) /\ SameCounts(e)
        /\ run'[e].step = run[e].step /\ run'[e].success = run[e].success
  <2>1. CASE Goes(e, "wait", "fallback")
    BY <2>1, Known, GoesLemma DEF Goes, Places
  <2>2. CASE Goes(e, "legacy", "remedy")
    BY <2>2, Known, GoesLemma DEF Goes, Places
  <2> QED
    BY <2>1, <2>2 DEF Wait, Legacy
<1>3. run[e].step <= Steps
  BY <1>2, Known DEF StepInv, Walking
<1>4. Exists(e) =>
        /\ executions[e].retries < LastRetry
        /\ to = "fallback" => executions[e].retries <= MaximumRetries + 2 * (run[e].step - 1)
        /\ to = "remedy" => executions[e].retries <= MaximumRetries + 2 * (run[e].step - 1) + 1
  BY <1>2, <1>3, Known, Bounds DEF CountInv
<1>5. Marked(e, "RETRYING", 1)
  BY <1>1, <1>4, Known, MarkRetryingLemma
<1>6. PlanTypeOK'
  BY <1>1, <1>2, <1>5, Known, SessionsKept DEF PlanTypeOK, Moved, Marked, StatesTypeOK
<1>7. Elsewhere(e)
  BY <1>1, <1>2, <1>5 DEF Elsewhere, Moved, Marked
<1>8. run'[e].at = to
  BY <1>2 DEF Moved
<1>9. StepInv(e)'
  BY <1>1, <1>2, <1>8, Known DEF StepInv, Before, Walking, Left
<1>10. CountInv(e)'
  <2> SUFFICES ASSUME Exists(e)'
               PROVE  CountInv(e)'
    BY DEF CountInv
  <2>1. Exists(e) /\ executions'[e].retries = executions[e].retries + 1
    BY <1>5 DEF Marked
  <2> QED
    BY <1>2, <1>3, <1>4, <1>8, <2>1, Known, Bounds DEF CountInv, Before
<1>11. TaskInv(e)' /\ StatusInv(e)'
  BY <1>1, <1>2, <1>8, Known DEF TaskInv, StatusInv
<1>12. RetryInv(e)'
  BY <1>2, <1>5, <1>8, Known DEF RetryInv, SameCounts, IsIdle, Marked
<1> QED
  BY <1>6, <1>7, <1>9, <1>10, <1>11, <1>12, OneOfThem DEF OneInv

LEMMA UnrecoveredStep ==
  ASSUME PlanInv, NEW e \in ExecutionIds, Unrecovered(e)
  PROVE  PlanInv'
<1>1. /\ run[e].at = "unrecovered" /\ UNCHANGED executions
      /\ UNCHANGED <<sessionVars, tasks, history>>
      /\ UNCHANGED unsettled /\ UNCHANGED <<sessionVars, tasks, refused, resumed>>
  BY DEF Unrecovered, history
<1>2. CASE HasStatus(e, {"WAITING", "WAITING_FOR_CONFIRMATION"})
  <2>1. Leaves(e, FALSE)
    BY <1>2 DEF Unrecovered
  <2>2. ~GoesOn(e)'
    BY <1>1, <1>2 DEF GoesOn, HasStatus
  <2>3. run[e].at \in {"step", "unrecovered", "remedy"}
    BY <1>1
  <2> QED
    BY <1>1, <2>1, <2>2, <2>3, LeaveStep
<1>3. CASE ~HasStatus(e, {"WAITING", "WAITING_FOR_CONFIRMATION"})
  <2>1. Goes(e, "unrecovered", "legacy") /\ <<"unrecovered", "legacy">> \in Onward
    BY <1>1, <1>3 DEF Unrecovered, Goes, Onward
  <2> QED
    BY <1>1, <2>1, OnwardStep
<1> QED
  BY <1>2, <1>3

LEMMA RemedyStep ==
  ASSUME PlanInv, NEW e \in ExecutionIds, Remedy(e)
  PROVE  PlanInv'
<1>1. /\ run[e].at = "remedy" /\ run[e].at \in {"step", "unrecovered", "remedy"}
      /\ UNCHANGED <<sessionVars, tasks, refused, resumed>>
  BY DEF Remedy
<1>2. CASE Settled(e, FALSE) /\ NextStep(e) /\ UNCHANGED executions
  <2>1. run[e].step <= Steps
    BY <1>1, Known DEF StepInv, Walking
  <2> QED
    BY <1>1, <1>2, <2>1, PassStep
<1>3. CASE Settled(e, TRUE) /\ Leaves(e, FALSE) /\ Mark(e, "FAILED")
  <2>1. "FAILED" \in ExecutionStatus /\ "FAILED" \notin {"QUEUED", "RUNNING", "RETRYING"}
    BY DEF ExecutionStatus
  <2>2. ~GoesOn(e)'
    BY <1>3, <2>1, MarkedStatus
  <2> QED
    BY <1>1, <1>3, <2>1, <2>2, LeaveStep
<1> QED
  BY <1>2, <1>3 DEF Remedy

\* The outcome is recorded: a success in the table, and an end for the task.
LEMMA EndStep ==
  ASSUME PlanInv, NEW e \in ExecutionIds, End(e)
  PROVE  PlanInv'
<1> DEFINE to == IF HasTask(e) THEN "endTask" ELSE "returned"
           end == CASE run[e].success               -> "COMPLETED"
                    [] HasStatus(e, {"CANCELLED"})  -> "CANCELLED"
                    [] OTHER                        -> "FAILED"
<1>0. run' = [run EXCEPT ![e].at = to, ![e].end = end]
  BY DEF End
<1>2. /\ to \in {"endTask", "returned"}
      /\ to = "returned" => ~HasTask(e)
      /\ end \in {"COMPLETED", "CANCELLED", "FAILED"}
      /\ end = "COMPLETED" => run[e].success
      /\ end = "FAILED" => ~run[e].success
  OBVIOUS
<1> HIDE DEF to, end
<1> DEFINE r == [run[e] EXCEPT !.at = to, !.end = end]
<1>1. /\ run[e].at = "end" /\ run' = [run EXCEPT ![e] = r]
      /\ run \in [ExecutionIds -> Run] /\ run[e] \in Run
      /\ UNCHANGED sessionVars /\ UNCHANGED <<tasks, unsettled, refused, resumed>>
      /\ IF run[e].success THEN Mark(e, "COMPLETED") ELSE UNCHANGED executions
  <2>1. run \in [ExecutionIds -> Run] /\ run[e] \in Run
    BY Known
  <2>2. run' = [run EXCEPT ![e] = r]
    BY <1>0, <2>1
  <2>3. IF run[e].success THEN Mark(e, "COMPLETED") ELSE UNCHANGED executions
    BY Zenon DEF End
  <2> QED
    BY <2>1, <2>2, <2>3 DEF End, history
<1>3. /\ r \in Run /\ r.at = to /\ r.step = run[e].step /\ r.success = run[e].success
      /\ r.held = run[e].held /\ r.retried = run[e].retried /\ r.end = end
  BY <1>1, <1>2 DEF Run, Places, Finals
<1> HIDE DEF r
<1>4. /\ run' \in [ExecutionIds -> Run] /\ run'[e] = r
      /\ \A f \in ExecutionIds \ {e} : run'[f] = run[f]
  BY ONLY <1>1, <1>3, e \in ExecutionIds
<1>5. /\ \E status : Marked(e, status, 0)
      /\ run[e].success => ~GoesOn(e)'
      /\ ~run[e].success => UNCHANGED executions
  <2>1. CASE run[e].success
    <3>1. "COMPLETED" \in ExecutionStatus /\ "COMPLETED" \notin {"QUEUED", "RUNNING", "RETRYING"}
      BY DEF ExecutionStatus
    <3>2. Mark(e, "COMPLETED")
      BY <1>1, <2>1
    <3> QED
      BY <2>1, <3>1, <3>2, Known, MarkLemma, MarkedStatus
  <2>2. CASE ~run[e].success
    <3>1. UNCHANGED executions
      BY <1>1, <2>2
    <3>2. executions[e].retries = executions[e].retries + 0 \/ ~Exists(e)
      BY Known
    <3> QED
      BY <2>2, <3>1, <3>2, Known DEF Marked, StatesTypeOK, Exists
  <2> QED
    BY <2>1, <2>2
<1>6. /\ Exists(e)' => Exists(e) /\ executions'[e].retries = executions[e].retries
      /\ Exists(e) => Exists(e)'
  BY <1>5, Known DEF Marked
<1>7. PlanTypeOK'
  BY <1>1, <1>4, <1>5, Known, SessionsKept DEF PlanTypeOK, StatesTypeOK, Marked
<1>8. Elsewhere(e)
  BY <1>1, <1>4, <1>5 DEF Elsewhere, Marked
<1>9. StepInv(e)'
  BY <1>1, <1>2, <1>3, <1>4, Known DEF StepInv, Before, Walking, Left
<1>10. CountInv(e)'
  BY <1>2, <1>3, <1>4, <1>6, Known DEF CountInv, Before
<1>11. TaskInv(e)'
  BY <1>1, <1>2, <1>3, <1>4, Known DEF TaskInv, TaskIsLive, HasTask
<1>12. StatusInv(e)'
  BY <1>1, <1>3, <1>4, <1>5, Known DEF StatusInv, GoesOn, HasStatus
<1>13. RetryInv(e)'
  BY <1>1, <1>2, <1>3, <1>4, <1>6, Known DEF RetryInv, IsIdle
<1> QED
  BY <1>7, <1>8, <1>9, <1>10, <1>11, <1>12, <1>13, OneOfThem DEF OneInv

LEMMA EndTaskStep ==
  ASSUME PlanInv, NEW e \in ExecutionIds, EndTask(e)
  PROVE  PlanInv'
<1>1. /\ run[e].at = "endTask" /\ Moved(e, "returned") /\ SameCounts(e)
      /\ run'[e].step = run[e].step /\ run'[e].success = run[e].success
  BY Known, GoesLemma DEF EndTask, Goes, Places
<1>2. /\ UNCHANGED sessionVars /\ UNCHANGED <<executions, unsettled, refused, resumed>>
  BY DEF EndTask, history
<1>3. run[e].end \in Finals /\ Finals \subseteq TaskStatus
  BY Known DEF Run, TaskStatus
<1>4. /\ tasks' \in [ExecutionIds -> TaskStatus]
      /\ \A f \in ExecutionIds \ {e} : tasks'[f] = tasks[f]
      /\ tasks'[e] = IF TaskIsLive(e) THEN run[e].end ELSE tasks[e]
  BY <1>3 DEF EndTask, PlanInv, PlanTypeOK
<1>5. PlanTypeOK'
  BY <1>1, <1>2, <1>4, Known, SessionsKept DEF PlanTypeOK, Moved, StatesTypeOK
<1>6. Elsewhere(e)
  BY <1>1, <1>2, <1>4 DEF Elsewhere, Moved
<1>7. run'[e].at = "returned"
  BY <1>1 DEF Moved
<1>8. StepInv(e)'
  BY <1>1, <1>2, <1>7, Known DEF StepInv, Before, Walking, Left
<1>9. CountInv(e)'
  BY <1>1, <1>2, <1>7, Known DEF CountInv, Before, Exists
<1>10. TaskInv(e)'
  BY <1>1, <1>2, <1>3, <1>4, <1>7, Known DEF TaskInv, TaskIsLive, HasTask
<1>11. StatusInv(e)'
  BY <1>1, <1>2, <1>7, Known DEF StatusInv, GoesOn, HasStatus
<1>12. RetryInv(e)'
  BY <1>1, <1>2, <1>7, Known DEF RetryInv, SameCounts, IsIdle
<1> QED
  BY <1>5, <1>6, <1>8, <1>9, <1>10, <1>11, <1>12, OneOfThem DEF OneInv

LEMMA HeadStep ==
  ASSUME PlanInv, NEW e \in ExecutionIds,
         Running(e) \/ Register(e) \/ QueueTask(e) \/ StartTask(e) \/ Validate(e)
  PROVE  PlanInv'
<1>1. CASE Running(e)
  <2>1. PICK to \in {"register", "validate"} : Goes(e, "created", to)
    BY <1>1 DEF Running
  <2>2. /\ \E status \in ExecutionStatus : Mark(e, status)
        /\ UNCHANGED <<sessionVars, tasks, history>> /\ <<"created", to>> \in Onward
    BY <1>1 DEF Running, ExecutionStatus, Unfinished, Onward
  <2> QED
    BY <2>1, <2>2, OnwardStep
<1>2. CASE Register(e)
  <2>1. UNCHANGED <<executions, sessionVars, history>> /\ UNCHANGED executions
    BY <1>2 DEF Register
  <2>2. CASE Goes(e, "register", "queue") /\ tasks' = [tasks EXCEPT ![e] = "PENDING"]
    <3>1. "PENDING" \in TaskStatus \ {"COMPLETED", "FAILED"}
      BY DEF TaskStatus
    <3> QED
      BY <2>1, <2>2, <3>1, TaskStep
  <2>3. CASE Goes(e, "register", "validate") /\ UNCHANGED tasks
    <3>1. <<"register", "validate">> \in Onward /\ UNCHANGED <<sessionVars, tasks, history>>
      BY <2>1, <2>3 DEF Onward
    <3> QED
      BY <2>1, <2>3, <3>1, OnwardStep
  <2> QED
    BY <1>2, <2>2, <2>3 DEF Register
<1>3. CASE QueueTask(e) \/ StartTask(e)
  <2>1. PICK status \in TaskStatus \ {"COMPLETED", "FAILED"} :
          tasks' = [tasks EXCEPT ![e] = status] \/ UNCHANGED tasks
    <3>1. /\ {"QUEUED", "RUNNING"} \subseteq TaskStatus \ {"COMPLETED", "FAILED"}
          /\ tasks \in [ExecutionIds -> TaskStatus]
      BY DEF TaskStatus, PlanInv, PlanTypeOK
    <3> QED
      BY <1>3, <3>1 DEF QueueTask, StartTask
  <2>2. /\ UNCHANGED <<executions, sessionVars, history>>
        /\ Goes(e, "queue", "start") \/ Goes(e, "start", "validate")
    BY <1>3 DEF QueueTask, StartTask
  <2> QED
    BY <2>1, <2>2, TaskStep
<1>4. CASE Validate(e)
  <2>1. CASE Goes(e, "validate", "step") /\ UNCHANGED <<executions, refused>>
    <3>1. <<"validate", "step">> \in Onward /\ UNCHANGED <<sessionVars, tasks, history>>
      BY <1>4, <2>1 DEF Onward, Validate, history
    <3> QED
      BY <2>1, <3>1, OnwardStep
  <2>2. CASE Goes(e, "validate", "returned") /\ Mark(e, "FAILED") /\ refused' = refused \cup {e}
    BY <1>4, <2>2, RefusedStep DEF Validate
  <2> QED
    BY <1>4, <2>1, <2>2 DEF Validate
<1> QED
  BY <1>1, <1>2, <1>3, <1>4

-----------------------------------------------------------------------------
(* The other callers                                                         *)

LEMMA CreateStep ==
  ASSUME PlanInv, NEW e \in ExecutionIds, Create(e)
  PROVE  PlanInv'
<1> DEFINE x == [status |-> "QUEUED", retries |-> 0]
           r == [at |-> "created", step |-> 1, held |-> 0, retried |-> 0,
                 success |-> FALSE, end |-> "FAILED", runs |-> run[e].runs + 1]
<1>1. /\ executions \in [ExecutionIds -> ExecutionState \cup {NoExecution}]
      /\ run \in [ExecutionIds -> Run] /\ tasks \in [ExecutionIds -> TaskStatus]
      /\ unsettled \in [ExecutionIds -> SUBSET (1 .. Steps)]
      /\ refused \subseteq ExecutionIds /\ resumed \subseteq ExecutionIds
  BY Known DEF PlanInv, PlanTypeOK, StatesTypeOK
<1>2. /\ executions' = [executions EXCEPT ![e] = x] /\ run' = [run EXCEPT ![e] = r]
      /\ tasks' = [tasks EXCEPT ![e] = "NONE"] /\ unsettled' = [unsettled EXCEPT ![e] = {}]
      /\ refused' = refused \ {e} /\ resumed' = resumed \ {e}
      /\ UNCHANGED sessionVars
  BY <1>1 DEF Create, CreateExecution
<1>3. x \in ExecutionState /\ x.retries = 0
  BY Bounds DEF ExecutionState, ExecutionStatus, Unfinished
<1>4. run[e].runs + 1 \in 0 .. MaximumRuns
  BY <1>1, PlanAssumption DEF Create, Run
<1>5. /\ r \in Run /\ r.at = "created" /\ r.step = 1 /\ r.retried = 0 /\ ~r.success
      /\ r.end = "FAILED"
  <2>1. 0 \in 0 .. LastRetry /\ 0 \in 0 .. MaximumRetries + 1 /\ 1 \in 1 .. Steps + 1
    BY Bounds
  <2> QED
    BY <1>4, <2>1 DEF Run, Places, Finals
<1> HIDE DEF x, r
<1>6. /\ executions'[e] = x /\ run'[e] = r /\ tasks'[e] = "NONE" /\ unsettled'[e] = {}
      /\ x # NoExecution /\ Elsewhere(e)
  BY <1>1, <1>2, <1>3, ExecutionAssumption DEF Elsewhere
<1>7. PlanTypeOK'
  <2>1. "NONE" \in TaskStatus
    BY DEF TaskStatus
  <2> QED
    BY <1>1, <1>2, <1>3, <1>5, <2>1, Known, SessionsKept DEF PlanTypeOK, StatesTypeOK
<1>8. StepInv(e)'
  BY <1>5, <1>6, Bounds DEF StepInv, Walking
<1>9. CountInv(e)'
  BY <1>3, <1>5, <1>6, Bounds DEF CountInv
<1>10. TaskInv(e)' /\ StatusInv(e)' /\ RetryInv(e)'
  BY <1>5, <1>6, Bounds DEF TaskInv, StatusInv, RetryInv, Exists
<1> QED
  BY <1>6, <1>7, <1>8, <1>9, <1>10, OneOfThem DEF OneInv

LEMMA TaskChangesStep ==
  ASSUME PlanInv, NEW e \in ExecutionIds, TaskChanges(e)
  PROVE  PlanInv'
<1>1. /\ TaskIsLive(e)
      /\ UNCHANGED <<executions, run, unsettled, refused, resumed>> /\ UNCHANGED sessionVars
  BY DEF TaskChanges, history
<1>2. PICK status \in {"CANCELLED", "TIMED_OUT", "PAUSED", "RUNNING"} :
        tasks' = [tasks EXCEPT ![e] = status]
  BY DEF TaskChanges
<1>3. /\ tasks' \in [ExecutionIds -> TaskStatus] /\ tasks'[e] = status
      /\ \A f \in ExecutionIds \ {e} : tasks'[f] = tasks[f]
  BY <1>2 DEF PlanInv, PlanTypeOK, TaskStatus, Finals
<1>4. PlanTypeOK'
  BY <1>1, <1>3, Known, SessionsKept DEF PlanTypeOK, StatesTypeOK
<1>5. Elsewhere(e)
  BY <1>1, <1>3 DEF Elsewhere
<1>6. TaskInv(e)'
  BY <1>1, <1>3, Known DEF TaskInv, TaskIsLive, HasTask
<1>7. StepInv(e)' /\ CountInv(e)' /\ StatusInv(e)' /\ RetryInv(e)'
  <2>1. StepInv(e)'
    BY <1>1, Known DEF StepInv
  <2>2. CountInv(e)'
    BY <1>1, Known DEF CountInv, Exists
  <2>3. StatusInv(e)' /\ RetryInv(e)'
    BY <1>1, Known DEF StatusInv, GoesOn, HasStatus, RetryInv, IsIdle, Exists
  <2> QED
    BY <2>1, <2>2, <2>3
<1> QED
  BY <1>4, <1>5, <1>6, <1>7, OneOfThem DEF OneInv

LEMMA RemoveStep ==
  ASSUME PlanInv, NEW e \in ExecutionIds, Remove(e)
  PROVE  PlanInv'
<1>1. /\ executions' = [executions EXCEPT ![e] = NoExecution]
      /\ UNCHANGED <<run, tasks, unsettled, refused, resumed>> /\ UNCHANGED sessionVars
      /\ IsIdle(e) \/ RemovalWhileRunning
  BY DEF Remove, RemoveExecution, history
<1>2. /\ executions' \in [ExecutionIds -> ExecutionState \cup {NoExecution}]
      /\ ~Exists(e)' /\ \A f \in ExecutionIds \ {e} : executions'[f] = executions[f]
  BY <1>1, Known DEF StatesTypeOK, Exists
<1>3. PlanTypeOK'
  BY <1>1, <1>2, Known, SessionsKept DEF PlanTypeOK, StatesTypeOK
<1>4. Elsewhere(e)
  BY <1>1, <1>2 DEF Elsewhere
<1>5. StepInv(e)'
  BY <1>1, Known DEF StepInv
<1>6. CountInv(e)' /\ StatusInv(e)'
  BY <1>2 DEF CountInv, StatusInv, GoesOn, HasStatus, Exists
<1>7. TaskInv(e)'
  BY <1>1, Known DEF TaskInv, TaskIsLive, HasTask
<1>8. RetryInv(e)'
  BY <1>1, Known DEF RetryInv, IsIdle
<1> QED
  BY <1>3, <1>4, <1>5, <1>6, <1>7, <1>8, OneOfThem DEF OneInv

-----------------------------------------------------------------------------
(* The sessions                                                              *)

LEMMA SessionsTyped ==
  ASSUME SessionsTypeOK, SessionStep
  PROVE  SessionsTypeOK'
<1> USE DEF SessionsTypeOK
<1>1. \A s \in SessionIds, status \in SessionStatus :
        IsOpen(s) => [sessions[s] EXCEPT !.status = status] \in Session
  BY DEF IsOpen, Session
<1>2. /\ Expired \in [SessionIds -> Session \cup {NoSession}]
  <2>1. \A s \in SessionIds : IsPending(s) => [sessions[s] EXCEPT !.status = "TIMED_OUT"] \in Session
    BY <1>1 DEF IsPending, SessionStatus
  <2> QED
    BY <2>1 DEF Expired
<1>3. ASSUME NEW s \in SessionIds, NEW e \in ExecutionIds, CreateSession(s, e)
      PROVE  SessionsTypeOK'
  <2> DEFINE new == [execution |-> e, status |-> "PENDING", expires |-> time + SessionTimeout]
  <2>1. new \in Session
    <3>1. time + SessionTimeout \in 0 .. LastMoment + SessionTimeout
      BY SessionAssumption
    <3> QED
      BY <3>1 DEF Session, SessionStatus
  <2>2. PICK kept \in {sessions, Expired} : sessions' = [kept EXCEPT ![s] = new]
    BY <1>3 DEF CreateSession
  <2> HIDE DEF new
  <2>3. sessions' \in [SessionIds -> Session \cup {NoSession}]
    BY <1>2, <2>1, <2>2
  <2> QED
    BY <1>3, <2>3 DEF CreateSession
<1>4. ASSUME NEW s \in SessionIds, SubmitResponse(s) \/ ResumeExecution(s) \/ CancelSession(s)
      PROVE  SessionsTypeOK'
  <2>1. PICK status \in SessionStatus : sessions' = [sessions EXCEPT ![s].status = status]
    BY <1>4 DEF SubmitResponse, ResumeExecution, CancelSession, SessionStatus
  <2>2. IsOpen(s) /\ UNCHANGED <<opened, time>>
    BY <1>4 DEF SubmitResponse, ResumeExecution, CancelSession, IsPending
  <2> DEFINE x == [sessions[s] EXCEPT !.status = status]
  <2>3. x \in Session /\ sessions' = [sessions EXCEPT ![s] = x]
    BY <1>1, <2>1, <2>2
  <2> HIDE DEF x
  <2> QED
    BY <2>2, <2>3
<1>5. ASSUME NEW s \in SessionIds, RemoveSession(s)
      PROVE  SessionsTypeOK'
  BY <1>5 DEF RemoveSession
<1>6. CASE ExpireSessions \/ ClearSessions
  BY <1>2, <1>6 DEF ExpireSessions, ClearSessions
<1> QED
  BY <1>3, <1>4, <1>5, <1>6 DEF SessionStep

\* What a method of the sessions makes of the executions.
Touched(f) ==
  /\ Exists(f)' <=> Exists(f)
  /\ Exists(f) => executions'[f].retries = executions[f].retries
  /\ GoesOn(f)' => GoesOn(f) \/ (~HasStatus(f, {"RUNNING"}) /\ HasStatus(f, {"RUNNING"})')
  /\ HasStatus(f, {"CANCELLED"}) => ~HasStatus(f, {"RUNNING"})'

LEMMA TouchedByMark ==
  ASSUME StatesTypeOK, NEW e \in ExecutionIds, NEW status \in ExecutionStatus, Mark(e, status),
         \/ status \in {"CANCELLED", "WAITING_FOR_CONFIRMATION"}
         \/ status = "RUNNING" /\ HasStatus(e, {"WAITING_FOR_CONFIRMATION"})
  PROVE  StatesTypeOK' /\ \A f \in ExecutionIds : Touched(f)
<1>1. Marked(e, status, 0)
  BY MarkLemma
<1>2. \A f \in ExecutionIds : Exists(f) => executions[f].retries \in Nat
  BY ExecutionAssumption DEF StatesTypeOK, Exists, ExecutionState
<1>3. StatesTypeOK'
  BY <1>1 DEF Marked, StatesTypeOK
<1>4. Touched(e)
  BY <1>1, <1>2 DEF Marked, Touched, GoesOn, HasStatus, Exists
<1>5. ASSUME NEW f \in ExecutionIds \ {e}
      PROVE  Touched(f)
  <2>1. executions'[f] = executions[f]
    BY <1>1 DEF Marked
  <2> QED
    BY <2>1 DEF Touched, GoesOn, HasStatus, Exists
<1> QED
  BY <1>3, <1>4, <1>5

LEMMA SessionEffect ==
  ASSUME StatesTypeOK, SessionsTypeOK, SessionStep
  PROVE  StatesTypeOK' /\ \A f \in ExecutionIds : Touched(f)
<1>1. CASE UNCHANGED executions
  BY <1>1 DEF StatesTypeOK, Touched, GoesOn, HasStatus, Exists
<1>2. ASSUME NEW s \in SessionIds, NEW e \in ExecutionIds, CreateSession(s, e)
      PROVE  StatesTypeOK' /\ \A f \in ExecutionIds : Touched(f)
  BY <1>2, TouchedByMark DEF CreateSession, ExecutionStatus, Unfinished
<1>3. ASSUME NEW s \in SessionIds, ResumeExecution(s) \/ CancelSession(s)
      PROVE  StatesTypeOK' /\ \A f \in ExecutionIds : Touched(f)
  <2> DEFINE e == sessions[s].execution
  <2>1. e \in ExecutionIds
    BY <1>3 DEF ResumeExecution, CancelSession, IsOpen, SessionsTypeOK, Session
  <2>2. CASE UNCHANGED executions
    BY <1>1, <2>2
  <2>3. CASE Mark(e, "RUNNING") /\ HasStatus(e, {"WAITING_FOR_CONFIRMATION"})
    BY <2>1, <2>3, TouchedByMark DEF ExecutionStatus, Unfinished
  <2>4. CASE Mark(e, "CANCELLED")
    BY <2>1, <2>4, TouchedByMark DEF ExecutionStatus
  <2> QED
    BY <1>3, <2>2, <2>3, <2>4 DEF ResumeExecution, CancelSession
<1> QED
  BY <1>1, <1>2, <1>3 DEF SessionStep, SubmitResponse, RemoveSession, ExpireSessions, ClearSessions

LEMMA SessionCallStep ==
  ASSUME PlanInv, SessionCall
  PROVE  PlanInv'
<1>1. /\ StatesTypeOK' /\ SessionsTypeOK'
      /\ \A f \in ExecutionIds : Touched(f)
  <2>1. StatesTypeOK /\ SessionsTypeOK /\ SessionStep
    BY DEF PlanInv, PlanTypeOK, SessionCall
  <2> QED
    BY <2>1, SessionsTyped, SessionEffect
<1>2. /\ UNCHANGED <<run, tasks, unsettled, refused>>
      /\ resumed' = resumed \cup {e \in ExecutionIds :
           HasLeft(e) /\ ~HasStatus(e, {"RUNNING"}) /\ HasStatus(e, {"RUNNING"})'}
  BY DEF SessionCall
<1>3. PlanTypeOK'
  BY <1>1, <1>2 DEF PlanInv, PlanTypeOK
<1> SUFFICES ASSUME NEW f \in ExecutionIds
             PROVE  OneInv(f)'
  BY <1>3 DEF PlanInv
<1>4. /\ Touched(f)
      /\ f \in resumed \/ (HasLeft(f) /\ ~HasStatus(f, {"RUNNING"}) /\ HasStatus(f, {"RUNNING"})')
           => f \in resumed'
  BY <1>1, <1>2
<1>5. StepInv(f)'
  BY <1>2, Known DEF StepInv
<1>6. CountInv(f)'
  BY <1>2, <1>4, Known DEF CountInv, Touched
<1>7. TaskInv(f)'
  BY <1>2, Known DEF TaskInv, TaskIsLive, HasTask
<1>8. StatusInv(f)'
  BY <1>2, <1>4, Known DEF StatusInv, Touched, HasLeft
<1>9. RetryInv(f)'
  BY <1>2, <1>4, Known DEF RetryInv, Touched, IsIdle
<1> QED
  BY <1>5, <1>6, <1>7, <1>8, <1>9 DEF OneInv

\* Steps in which nothing but the clock changes.
LEMMA ClockStep ==
  ASSUME PlanInv, UNCHANGED <<executions, run, tasks, unsettled, refused, resumed>>,
         SessionsTypeOK'
  PROVE  PlanInv'
<1>1. PlanTypeOK'
  BY DEF PlanInv, PlanTypeOK, StatesTypeOK
<1> SUFFICES ASSUME NEW f \in ExecutionIds
             PROVE  OneInv(f)'
  BY <1>1 DEF PlanInv
<1>2. StepInv(f)'
  BY Known DEF StepInv
<1>3. CountInv(f)'
  BY Known DEF CountInv, Exists
<1>4. TaskInv(f)'
  BY Known DEF TaskInv, TaskIsLive, HasTask
<1>5. StatusInv(f)' /\ RetryInv(f)'
  BY Known DEF StatusInv, GoesOn, HasStatus, RetryInv, IsIdle, Exists
<1> QED
  BY <1>2, <1>3, <1>4, <1>5 DEF OneInv

-----------------------------------------------------------------------------
(* The theorems                                                              *)

LEMMA PlanInvInit == PlanInit => PlanInv
<1> SUFFICES ASSUME PlanInit
             PROVE  PlanInv
  OBVIOUS
<1> DEFINE r == [at |-> "idle", step |-> 1, held |-> 0, retried |-> 0,
                 success |-> FALSE, end |-> "FAILED", runs |-> 0]
<1>1. /\ executions = [e \in ExecutionIds |-> NoExecution]
      /\ run = [e \in ExecutionIds |-> r]
      /\ tasks = [e \in ExecutionIds |-> "NONE"]
      /\ unsettled = [e \in ExecutionIds |-> {}]
      /\ refused = {} /\ resumed = {}
  BY DEF PlanInit
<1>2. r \in Run /\ r.at = "idle" /\ r.step = 1 /\ r.retried = 0 /\ ~r.success
  <2>1. /\ 0 \in 0 .. LastRetry /\ 0 \in 0 .. MaximumRetries + 1 /\ 1 \in 1 .. Steps + 1
        /\ 0 \in 0 .. MaximumRuns
    BY Bounds, PlanAssumption
  <2> QED
    BY <2>1 DEF Run, Places, Finals
<1> HIDE DEF r
<1>3. SessionsTypeOK
  BY SessionAssumption DEF PlanInit, SessionsInit, SessionsTypeOK
<1>4. PlanTypeOK
  BY <1>1, <1>2, <1>3 DEF PlanTypeOK, StatesTypeOK, TaskStatus
<1>5. ASSUME NEW e \in ExecutionIds
      PROVE  OneInv(e)
  <2>1. /\ ~Exists(e) /\ run[e] = r /\ tasks[e] = "NONE" /\ unsettled[e] = {}
    BY <1>1 DEF Exists
  <2>2. StepInv(e) /\ CountInv(e)
    BY <1>2, <2>1 DEF StepInv, Walking, CountInv
  <2>3. TaskInv(e) /\ StatusInv(e)
    BY <1>2, <2>1 DEF TaskInv, StatusInv
  <2>4. RetryInv(e)
    BY <1>2, <2>1, Bounds DEF RetryInv, IsIdle
  <2> QED
    BY <2>2, <2>3, <2>4 DEF OneInv
<1> QED
  BY <1>4, <1>5 DEF PlanInv

LEMMA PlanInvStep == PlanInv /\ [PlanNext]_planVars => PlanInv'
<1> SUFFICES ASSUME PlanInv, [PlanNext]_planVars
             PROVE  PlanInv'
  OBVIOUS
<1>1. ASSUME NEW e \in ExecutionIds, Create(e) \/ EngineStep(e) \/ TaskChanges(e) \/ Remove(e)
      PROVE  PlanInv'
  <2>1. CASE Create(e)
    BY <2>1, CreateStep
  <2>2. CASE Running(e) \/ Register(e) \/ QueueTask(e) \/ StartTask(e) \/ Validate(e)
    BY <2>2, HeadStep
  <2>3. CASE Decide(e) \/ AllDone(e)
    BY <2>3, DecideStep
  <2>4. CASE Dispatch(e) \/ Redispatch(e) \/ Fallback(e)
    BY <2>4, TriesStep
  <2>5. CASE Recover(e)
    BY <2>5, RecoverStep
  <2>6. CASE Retry(e)
    BY <2>6, RetryStep
  <2>7. CASE Wait(e) \/ Legacy(e)
    BY <2>7, MarkingStep
  <2>8. CASE Unrecovered(e)
    BY <2>8, UnrecoveredStep
  <2>9. CASE Remedy(e)
    BY <2>9, RemedyStep
  <2>10. CASE End(e)
    BY <2>10, EndStep
  <2>11. CASE EndTask(e)
    BY <2>11, EndTaskStep
  <2>12. CASE TaskChanges(e)
    BY <2>12, TaskChangesStep
  <2>13. CASE Remove(e)
    BY <2>13, RemoveStep
  <2> QED
    BY <1>1, <2>1, <2>2, <2>3, <2>4, <2>5, <2>6, <2>7, <2>8, <2>9, <2>10, <2>11, <2>12, <2>13
    DEF EngineStep
<1>2. CASE SessionCall
  BY <1>2, SessionCallStep
<1>3. CASE TimePasses /\ UNCHANGED <<run, tasks, history>>
  <2>1. UNCHANGED <<executions, run, tasks, unsettled, refused, resumed>>
    BY <1>3 DEF TimePasses, history
  <2>2. SessionsTypeOK'
    BY <1>3, Known, SessionAssumption DEF TimePasses, SessionsTypeOK, PlanInv, PlanTypeOK
  <2> QED
    BY <2>1, <2>2, ClockStep
<1>4. CASE UNCHANGED planVars
  <2>1. UNCHANGED <<executions, run, tasks, unsettled, refused, resumed>> /\ UNCHANGED sessionVars
    BY <1>4 DEF planVars, history
  <2>2. SessionsTypeOK'
    BY <2>1, SessionsKept DEF PlanInv, PlanTypeOK
  <2> QED
    BY <2>1, <2>2, ClockStep
<1> QED
  BY <1>1, <1>2, <1>3, <1>4 DEF PlanNext

\* The invariant the other theorems follow from.
THEOREM PlanInvariance == PlanSpec => []PlanInv
BY PlanInvInit, PlanInvStep, PTL DEF PlanSpec

\* The types; the retry count of an execution stays below what all steps together may
\* add to it.
THEOREM PlanTypeCorrect == PlanSpec => []PlanTypeOK
<1>1. PlanInv => PlanTypeOK
  BY DEF PlanInv
<1> QED
  BY <1>1, PlanInvariance, PTL

\* No step is begun after one that failed and was not recovered, however long the plan,
\* and whichever way the recovery took.
THEOREM NoFailedStepIsPassedCorrect == PlanSpec => []NoFailedStepIsPassed
<1>1. PlanInv => NoFailedStepIsPassed
  BY DEF PlanInv, OneInv, StepInv, NoFailedStepIsPassed
<1> QED
  BY <1>1, PlanInvariance, PTL

\* One failure is retried at most as often as the plan allows, if nobody removes the
\* execution while its plan runs: a removed entry does not count.
THEOREM RetriesWithinLimitCorrect ==
  ASSUME ~RemovalWhileRunning
  PROVE  PlanSpec => []RetriesWithinLimit
<1>1. PlanInv => RetriesWithinLimit
  BY DEF PlanInv, OneInv, RetryInv, RetriesWithinLimit
<1> QED
  BY <1>1, PlanInvariance, PTL

\* A plan that has returned leaves no execution behind as if it still ran, unless an
\* answer has come since.
THEOREM NoneLeftRunningCorrect == PlanSpec => []NoneLeftRunning
<1>1. PlanInv => NoneLeftRunning
  <2> SUFFICES ASSUME PlanInv, NEW e \in ExecutionIds, IsIdle(e), GoesOn(e)
               PROVE  e \in resumed
    BY DEF NoneLeftRunning, GoesOn
  <2>1. Exists(e)
    BY DEF GoesOn, HasStatus, Exists
  <2>2. run[e].at = "returned"
    BY <2>1, Known DEF CountInv, IsIdle
  <2> QED
    BY <2>2, Known DEF StatusInv
<1> QED
  BY <1>1, PlanInvariance, PTL

\* The task of a plan has ended when the plan has, whoever else changed the task.
THEOREM TaskEndsWithPlanCorrect == PlanSpec => []TaskEndsWithPlan
<1>1. PlanInv => TaskEndsWithPlan
  BY DEF PlanInv, OneInv, TaskInv, TaskEndsWithPlan
<1> QED
  BY <1>1, PlanInvariance, PTL

\* The task never claims another outcome than that of the plan.
THEOREM TaskTellsOutcomeCorrect == PlanSpec => []TaskTellsOutcome
<1>1. PlanInv => TaskTellsOutcome
  BY DEF PlanInv, OneInv, StepInv, TaskInv, TaskTellsOutcome
<1> QED
  BY <1>1, PlanInvariance, PTL
=============================================================================
