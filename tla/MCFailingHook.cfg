SPECIFICATION TaskSpec
CONSTANTS
  t1 = t1
  t2 = t2
  l1 = l1
  l2 = l2
  TaskIds <- MCOneTask
  Listeners <- MCOneListener
  Events <- MCEvents
  NoTask = NoTask
  Erased = Erased
  MaximumTasks = 1
  MaximumHistory = 1
  CleanupAfterCompletion = {FALSE, TRUE}
  Timeouts = {0}
  RetentionTime = 0
  Endings = {"COMPLETED"}
  HookFailures = 2
  RecoversAtWork = TRUE
  LastMoment = 1
INVARIANTS TaskTypeOK WrittenThrough AnnouncedIsFinal
