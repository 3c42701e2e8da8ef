SPECIFICATION Spec
CONSTANTS
  i1 = i1
  i2 = i2
  i3 = i3
  i4 = i4
  w1 = w1
  w2 = w2
  NoItem = NoItem
  Items <- Slots
  Threads <- Workers
  LaunchFlags <- MCLaunchFlags
  RemoveFlags <- MCCancelFlags
  SpawnMayFail = TRUE
  SpuriousWaits = {"park"}
  OtherQueue = TRUE
SYMMETRY Symmetry
CHECK_DEADLOCK FALSE
INVARIANTS
  TypeOK
  OneWorker
  PriorityFirst
  DataOutlivesCallback
  CancelHitsTarget
  IdleHintFresh
PROPERTIES
  FifoPerClass
  KeepsContract
