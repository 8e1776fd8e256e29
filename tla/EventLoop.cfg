SPECIFICATION FairLoopSpec
CONSTANTS
  Thread = {main}
  Main = main
  Object = {win}
  Root = win
  in1 = in1
  in2 = in2
  out = out
  spin = spin
  epi = epi
  rd = rd
  wr = wr
  Nil = Nil
  Sink <- MCSink
  ListOf <- MCListOf
  EventOf <- MCEventOf
  Event <- MCEvent
  Code = {2}
  Blocking = TRUE
  Liberties = {}
INVARIANTS NoFreedSink PassComplete
PROPERTIES TerminateHonoured MainSinksCalled
