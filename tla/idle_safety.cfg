SPECIFICATION Spec
CONSTANTS
  w1 = w1
  w2 = w2
  i1 = i1
  i2 = i2
  Main = Main
  Closer = Closer
  Nobody = Nobody
  Workers <- TwoWorkers
  IdleThreads <- TwoThreads
  MainCalls = {"push on", "push off", "allow", "block"}
  Closes = TRUE
  LostUpdates = FALSE
  MaxOps = 1
  MaxCalls = 3
SYMMETRY Symmetry
CHECK_DEADLOCK FALSE
INVARIANTS
  TypeOK
  OneIdleThread
  AreaIsQuiet
  ProtocolUntilRenewal
  NothingDropped
  ReasonsCounted
