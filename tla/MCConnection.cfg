SPECIFICATION FairConnectionSpec
CONSTANTS
  w1 = w1
  w2 = w2
  w3 = w3
  Sockets = {w1, w2, w3}
  None = None
  MaximumAttempts = 5
INVARIANTS ConnectionTypeOK StoppedStaysClosed
PROPERTIES KeepsTrying
