SPECIFICATION Spec
CONSTANTS
  root = root
  k1 = k1
  k2 = k2
  Root = root
  Kids <- TwoKids
  Links <- MCLinks
  Started <- MCStarted
  Remain = {}
  NHier = 2
  MaxVer = 1
  MaxFaults = 1
  MaxCalls = 5
  Liberties = {}
INVARIANTS Recoverable Truthful Reloadable DepsResolved
CHECK_DEADLOCK FALSE
