SPECIFICATION ExecutionSpec
CONSTANTS
  j1 = j1
  j2 = j2
  p1 = p1
  p2 = p2
  JobIds <- MCJobIds
  Pollers <- MCPollers
  Nothing = Nothing
  Inconvertible <- MCInconvertible
  NoJob = NoJob
  NoRun = NoRun
  MaximumJobs = 1
  MaximumHistory = 1
  CleanupHistory = TRUE
  Retention = 1
  PersistenceFails = FALSE
  RecoverWhileRunning = FALSE
  MaxCreates = 1
  MaxTime = 1
INVARIANTS Durable ExecutionTypeOK RunsOncePerSchedule RunningIsExecuted
PROPERTIES NoResurrection
