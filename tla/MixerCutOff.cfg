\* One client; the source is started again at any time up to a full buffer later.
SPECIFICATION Spec
CONSTANTS
  c1 = c1
  c2 = c2
  Frame = 1
  Block = 2
  Smooth = 3
  Delay = 4
  MaxVar = 8
  MaxBuf = 10
  Clients <- TwoClients
  Packet = 1
  MaxTicks = 3
  Junk <- AnyTime
  Scenarios <- RestartedLater
  Horizon = 34
INVARIANTS
  NotCutOff
