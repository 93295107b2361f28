\* One source, one process; fairness.
CONSTANTS
  s1 = s1
  s2 = s2
  p1 = p1
  p2 = p2
  None = None
  MaxUpdates = 2
  MaxCrashes = 2
  MapsFail = TRUE
  Sources <- OneSource
  Procs <- OneProc
  ExeOf <- SameExe
SPECIFICATION FairSpec
PROPERTIES
  HookReleases
  Attaches
