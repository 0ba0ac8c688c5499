SPECIFICATION FairManagerSpec
CONSTANTS
  t1 = t1
  c1 = c1
  c2 = c2
  op1 = op1
  op2 = op2
  TransactionIds = {t1}
  Clients <- MCClients
  Operations <- MCOperations
  NoTransaction = NoTransaction
  Idle = Idle
  MaxBegins = 3
  MaxOperations = 2
INVARIANTS ManagerTypeOK StatusTellsEffects OneCommitPerTransaction
PROPERTIES CommitsEnd
CHECK_DEADLOCK FALSE
