\* One process with two rendering threads of one packet size, one source; fairness.
CONSTANTS
  t1 = t1
  t2 = t2
  r1 = r1
  r2 = r2
  NoThread = NoThread
  Targets <- OneTarget
  Renderers <- TwoRenderers
  ProcessOf <- SameProcess
  Sizes = {1}
  BufferSize = 2
  MaxMaps = 1
  MaxPackets = 2
  MaxCrashes = 1
SPECIFICATION FairSpec
CHECK_DEADLOCK FALSE
PROPERTIES
  RenderReturns
  StopEnds
  Delivery
