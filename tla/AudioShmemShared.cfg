\* Two processes with a rendering thread each, and a source attached to each.
CONSTANTS
  t1 = t1
  t2 = t2
  r1 = r1
  r2 = r2
  NoThread = NoThread
  Targets <- TwoTargets
  Renderers <- TwoRenderers
  ProcessOf <- OwnProcess
  Sizes = {1}
  BufferSize = 3
  MaxMaps = 1
  MaxPackets = 2
  MaxCrashes = 0
SPECIFICATION Spec
CHECK_DEADLOCK FALSE
INVARIANT OnlySelectedProcess
