SPECIFICATION Spec
CONSTANTS
  a = a
  b = b
  c = c
  Object <- MCObject
  Preserving <- MCPreserving
  Name = {n}
  Nil = Nil
  DepMax = 2
  Rules = {"leaves", "names"}
  Holder <- MCHolder
  Ticking <- MCTicking
  MaxDeps = 1
  MaxRefs = 3
INVARIANTS TreeConsistent PathFinds RefsCounted
CHECK_DEADLOCK FALSE
