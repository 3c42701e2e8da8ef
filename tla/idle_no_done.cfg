SPECIFICATION Spec
CONSTANTS
  w1 = w1
  w2 = w2
  i1 = i1
  i2 = i2
  Main = Main
  Closer = Closer
  Nobody = Nobody
  Workers <- OneWorker
  IdleThreads <- TwoThreads
  MainCalls = {"allow"}
  Closes = FALSE
  LostUpdates = FALSE
  MaxOps = 2
  MaxCalls = 1
CHECK_DEADLOCK FALSE
INVARIANTS
  NoCommandWhileIdling
