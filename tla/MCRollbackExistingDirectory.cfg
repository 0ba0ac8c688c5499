SPECIFICATION FilesSpec
CONSTANTS
  t1 = t1
  c1 = c1
  x = x
  y = y
  torn = torn
  TransactionIds = {t1}
  Clients <- MCClients
  Operations <- MCCreateDirectory
  Direct = {}
  NoTransaction = NoTransaction
  Idle = Idle
  NoRollback = NoRollback
  MaxBegins = 1
  MaxOperations = 1
  Paths <- MCPaths
  Contents = {x, y, torn}
  Torn = torn
  Absent = Absent
  Directory = Directory
  Faults = FALSE
  InitialTrees <- MCInitialTrees
  StopOnFailure = FALSE
PROPERTIES RollbackSparesUntouchedFiles
CHECK_DEADLOCK FALSE
