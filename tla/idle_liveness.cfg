SPECIFICATION FairSpec
CONSTANTS
  w1 = w1
  w2 = w2
  i1 = i1
  i2 = i2
  Main = Main
  Closer = Closer
  Nobody = Nobody
  Workers <- OneWorker
  IdleThreads <- TwoThreads
  MainCalls = {"allow", "block"}
  Closes = FALSE
  LostUpdates = TRUE
  MaxOps = 2
  MaxCalls = 2
CHECK_DEADLOCK FALSE
PROPERTIES
  OperationReturns
  
