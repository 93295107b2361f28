\* Two clients; a late one; and one whose source is started again, behind the time.
SPECIFICATION Spec
CONSTANTS
  c1 = c1
  c2 = c2
  Frame = 1
  Block = 2
  Smooth = 3
  Delay = 4
  MaxVar = 5
  MaxBuf = 10
  Clients <- TwoClients
  Packet = 1
  MaxTicks = 2
  Junk <- AnyTime
  Scenarios <- Ordinary
  Horizon = 34
INVARIANTS
  TypeOK
  Buffering
  Undisturbed
  BehindIsBuffered
  NoDrift
  NotAhead
  InOrder
PROPERTIES
  OutputsInOrder
  StreamSpec
  HeardOnce
