SPECIFICATION Spec
CONSTANTS
  c1 = c1
  i1 = i1
  i2 = i2
  f1 = f1
  f2 = f2
  f3 = f3
  s1 = s1
  n1 = n1
  n2 = n2
  n3 = n3
  Nothing = Nothing
  Callers <- OneCaller
  Ids <- TwoIds
  Files <- TwoFiles
  Streams <- OneStream
  Inodes <- ThreeInodes
  SizeOf <- SmallSizes
  Surplus = {0, 1}
  MaxSizes = {1, 2}
  MaxActive = 2
  Calls = {"get", "remove", "resize"}
  Failures = {}
  Crashes = FALSE
CHECK_DEADLOCK FALSE
INVARIANTS
  TypeOK
  EntryReadable
  ExhaustedWithRoom
PROPERTIES
  InsertFits
