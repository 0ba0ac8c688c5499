SPECIFICATION FairTaskSpec
CONSTANTS
  t1 = t1
  t2 = t2
  l1 = l1
  l2 = l2
  TaskIds <- MCTaskIds
  Listeners <- MCListeners
  Events <- MCEvents
  NoTask = NoTask
  Erased = Erased
  MaximumTasks = 1
  MaximumHistory = 1
  CleanupAfterCompletion = {FALSE}
  Timeouts = {0}
  RetentionTime = 0
  Endings = {"COMPLETED", "TIMED_OUT"}
  HookFailures = 0
  RecoversAtWork = FALSE
  LastMoment = 0
PROPERTIES FollowsLifeCycle FullOnlyByRecovery EveryListenerIsTold
