\* One source, two processes of two programs.
CONSTANTS
  s1 = s1
  s2 = s2
  p1 = p1
  p2 = p2
  None = None
  MaxUpdates = 1
  MaxCrashes = 0
  MapsFail = TRUE
  Sources <- OneSource
  Procs <- TwoProcs
  ExeOf <- OwnExe
SPECIFICATION Spec
INVARIANT SelectedOnly
