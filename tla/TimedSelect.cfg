SPECIFICATION SelSpec
CONSTANTS
  o1 = o1
  o2 = o2
  t1 = t1
  a1 = a1
  Nil = Nil
  Object <- MCObject
  Timer <- MCTimer
  AutoTimer <- MCAutoTimer
  MayCancel = {"self", "other"}
  MayRearm = {"behind"}
  Ivals = {1, 2}
  TickMod = 11
  MaxLag = 1
  Spinners = FALSE
SYMMETRY Symmetry
INVARIANTS QueuesConsistent NoUseAfterFree SleepsToNext
PROPERTIES ImplementsService
