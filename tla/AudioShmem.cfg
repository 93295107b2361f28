\* One process, two rendering threads, one source.
CONSTANTS
  t1 = t1
  t2 = t2
  r1 = r1
  r2 = r2
  NoThread = NoThread
  Targets <- OneTarget
  Renderers <- TwoRenderers
  ProcessOf <- SameProcess
  Sizes = {1, 2}
  BufferSize = 3
  MaxMaps = 2
  MaxPackets = 2
  MaxCrashes = 1
SPECIFICATION Spec
SYMMETRY RendererSymmetry
CHECK_DEADLOCK FALSE
INVARIANTS
  TypeOK
  RegionExclusive
  
  
  
  NoLostWakeup
  LeakNeedsCrash
  
PROPERTY StreamSpec
