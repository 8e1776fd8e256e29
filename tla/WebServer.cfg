SPECIFICATION FairSpec
CONSTANTS
  f1 = f1
  f2 = f2
  old = old
  new = new
  Nil = Nil
  Frontend <- MCFrontend
  First = f1
  Session <- MCSession
  Saved <- MCSaved
  MaxPid = 2
  MaxConn = 2
  MaxQuery = 2
  MaxFault = 1
  MaxSockets = 1
  Kinds = {"command", "head", "logout"}
INVARIANTS AtMostOnce OwnAnswer RanInSession
PROPERTIES Answered
CHECK_DEADLOCK FALSE
