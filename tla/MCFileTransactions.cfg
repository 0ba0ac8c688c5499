SPECIFICATION FilesSpec
CONSTANTS
  t1 = t1
  c1 = c1
  x = x
  y = y
  torn = torn
  TransactionIds = {t1}
  Clients <- MCClients
  Operations <- MCOperations
  Direct <- MCDirect
  NoTransaction = NoTransaction
  Idle = Idle
  NoRollback = NoRollback
  MaxBegins = 1
  MaxOperations = 3
  Paths <- MCPaths
  Contents = {x, y, torn}
  Torn = torn
  Absent = Absent
  Directory = Directory
  Faults = TRUE
  InitialTrees <- MCInitialTrees
  StopOnFailure = FALSE
INVARIANTS FilesTypeOK RollbackRestores
CHECK_DEADLOCK FALSE
