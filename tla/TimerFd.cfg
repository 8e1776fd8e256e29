SPECIFICATION FairSpec
CONSTANTS
  o1 = o1
  o2 = o2
  t1 = t1
  a1 = a1
  Nil = Nil
  Object <- MCObject
  Timer <- MCTimer
  AutoTimer <- MCAutoTimer
  MayCancel = {"self", "other"}
  Ivals = {1, 2}
  NFds = 3
  MaxLag = 2
  Threads = FALSE
  OnReported = {}
INVARIANTS FdsOwned
PROPERTIES NoFreedTimerRead ImplementsService ExpiredServed
