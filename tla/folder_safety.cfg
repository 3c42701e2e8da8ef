SPECIFICATION FairSpec
CONSTANTS
  main = main
  worker = worker
  idle = idle
  nothing = nothing
  u1 = u1
  u2 = u2
  h1 = h1
  h2 = h2
  h3 = h3
  h4 = h4
  h5 = h5
  k1 = k1
  k2 = k2
  Main <- main
  Worker <- worker
  Push <- idle
  Nothing <- nothing
  Uids <- OneUid
  Headers <- Headers3
  Changes <- TwoChanges
  LostUpdates = FALSE
  MaxPending = 1
INVARIANTS
  TypeOK
  ReasonsCounted
  InUseLoaded
  HeadersBacked
  UnloadedAtRest
  ListConverges
PROPERTIES
  RequestAnswered
CHECK_DEADLOCK FALSE
