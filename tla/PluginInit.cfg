SPECIFICATION FairSpec
CONSTANTS
  t1 = t1
  t2 = t2
  p1 = p1
  p2 = p2
  Threads <- TwoThreads
  Procs <- TwoProcs
  Archs <- BothArchs
  ArchOf <- OneEach
  Own = "x64"
  MaxLaunches = 2
INVARIANTS
  TypeOK
  NoTornOffsets
PROPERTIES
  UnloadedIdle
  CallsReturn
