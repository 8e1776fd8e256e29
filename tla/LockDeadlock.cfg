SPECIFICATION LockSpec
CONSTANTS
  win = win
  box = box
  lab = lab
  Object = {win, box, lab}
  Root = win
  Parent <- MCParent
  Timing = Timing
  Thread = {th1, th2}
  Main = th1
  Nil = Nil
  Calls <- OneObject
  Depth <- MCDepth
  Level <- MCLevel
INVARIANTS NoDeadlock
