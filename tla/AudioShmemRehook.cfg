\* One process with an application that keeps rendering, one source that comes and goes.
CONSTANTS
  t1 = t1
  t2 = t2
  r1 = r1
  r2 = r2
  NoThread = NoThread
  Targets <- OneTarget
  Renderers <- TwoRenderers
  ProcessOf <- SameProcess
  Sizes = {1}
  BufferSize = 2
  MaxMaps = 2
  MaxPackets = 1
  MaxCrashes = 0
SPECIFICATION RenderingSpec
CHECK_DEADLOCK FALSE
PROPERTY
  ExistingHookStarts
