SPECIFICATION FairSpec
CONSTANTS
  i1 = i1
  i2 = i2
  i3 = i3
  i4 = i4
  w1 = w1
  w2 = w2
  NoItem = NoItem
  Items <- ThreeSlots
  Threads <- Workers
  LaunchFlags <- MCFlatFlags
  RemoveFlags <- MCCancelFlags
  SpawnMayFail = TRUE
  SpuriousWaits = {}
  OtherQueue = FALSE
CHECK_DEADLOCK FALSE
INVARIANTS
  AccountAlive
PROPERTIES
  SleeperHearsShutdown
  AnsweredUnlessStranded
