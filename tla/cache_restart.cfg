SPECIFICATION FairSpec
CONSTANTS
  c1 = c1
  i1 = i1
  i2 = i2
  f1 = f1
  f2 = f2
  f3 = f3
  s1 = s1
  n1 = n1
  n2 = n2
  n3 = n3
  Nothing = Nothing
  Callers <- OneCaller
  Ids <- OneId
  Files <- TwoFiles
  Streams <- OneStream
  Inodes <- ThreeInodes
  SizeOf <- LargerSize
  Surplus = {1}
  MaxSizes = {3}
  MaxActive = 2
  Calls = {"get", "remove", "seek"}
  Failures = {"open", "read", "write"}
  Crashes = TRUE
CHECK_DEADLOCK FALSE
INVARIANTS
  FoundWhole
PROPERTIES
  ReadingEnds
