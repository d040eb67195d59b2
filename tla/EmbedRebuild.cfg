SPECIFICATION RebuildSpec
CONSTANTS
  s1 = s1
  la = la
  lb = lb
  lc = lc
  i1 = i1
  w1 = w1
  Session = {s1}
  Version = {1, 2}
  Chunk = {0, 1}
  ChunksIn <- MCChunksIn
  Lane = {la, lb}
  Dim <- MCDim
  Ingester = {i1}
  Sweeper = {w1}
  Overlapping = FALSE
  MaxAttempts = 2
  None = none
  SaveEvery = 1
  MaxSaves = 1
  MaxDeaths = 1
INVARIANTS
  RebuildTypeOK
  VectorsCurrent
  NothingLost
  
  MapIsWhole
PROPERTIES
  DueGetsSettled
CHECK_DEADLOCK FALSE
