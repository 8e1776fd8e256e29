SPECIFICATION Spec
CONSTANTS
  win = win
  box = box
  button = button
  x = x
  Object = {win, box, button}
  Root = win
  Kids <- MCKids
  h1 = h1
  h2 = h2
  h3 = h3
  Handler <- MCHandler
  Name = {n}
  Nil = Nil
  Main = main
  Thread = {main, th}
  Flags <- MCFlags
  SchedArgs <- NoArgs
  MaxDepth = 2
INVARIANTS NoUseAfterFree
PROPERTIES DeliveredToAll
SYMMETRY Symmetry
CHECK_DEADLOCK FALSE
