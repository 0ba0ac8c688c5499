SPECIFICATION FairPlanSpec
CONSTANTS
  e1 = e1
  s1 = s1
  s2 = s2
  ExecutionIds = {e1}
  NoExecution = NoExecution
  LastRetry = 5
  SessionIds = {s1, s2}
  NoSession = NoSession
  MaximumSessions = 1
  SessionTimeout = 0
  LastMoment = 1
  Steps = 2
  MaximumRetries = 1
  MaximumRuns = 1
  RemovalWhileRunning = FALSE
CHECK_DEADLOCK FALSE
INVARIANTS PlanTypeOK NoFailedStepIsPassed RetriesWithinLimit NoneLeftRunning
INVARIANTS TaskEndsWithPlan TaskTellsOutcome
PROPERTIES PlansReturn
