SPECIFICATION FairExecutionSpec
CONSTANTS
  j1 = j1
  j2 = j2
  p1 = p1
  p2 = p2
  JobIds <- MCJobIds
  Pollers <- MCPollers
  Nothing = Nothing
  Inconvertible = {}
  NoJob = NoJob
  NoRun = NoRun
  MaximumJobs = 1
  MaximumHistory = 1
  CleanupHistory = FALSE
  Retention = 1
  PersistenceFails = FALSE
  RecoverWhileRunning = FALSE
  MaxCreates = 1
  MaxTime = 0
 
PROPERTIES CapacityExceededOnlyByRecovery ListedJobsAreExecuted
