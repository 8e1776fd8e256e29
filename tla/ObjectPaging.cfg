SPECIFICATION Spec
CONSTANTS
  root = root
  k1 = k1
  k2 = k2
  Root = root
  Kids <- OneKid
  Links <- NoLinks
  Started <- NoKid
  Remain = {}
  NHier = 2
  MaxVer = 1
  MaxFaults = 0
  MaxCalls = 5
  Liberties = {"again"}
INVARIANTS Truthful
CHECK_DEADLOCK FALSE
