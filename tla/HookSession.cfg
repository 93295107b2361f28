\* One source and two processes of one program, or two sources and one process.
CONSTANTS
  s1 = s1
  s2 = s2
  p1 = p1
  p2 = p2
  None = None
  MaxUpdates = 1
  MaxCrashes = 0
  MapsFail = TRUE
  Sources <- TwoSources
  Procs <- TwoProcs
  ExeOf <- SameExe
SPECIFICATION Spec
SYMMETRY Symmetry
CONSTRAINT Narrow
INVARIANTS
  TypeOK
  SessionHandles
  
  NamesComplete
  OffsetsBeforeHook
