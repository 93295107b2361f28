\* The calls as the plugin makes them.
CONSTANTS
  Values <- Bits
  Junk = Junk
  MaxPush = 2
  MaxSize = 4
SPECIFICATION Spec
INVARIANTS
  TypeOK
  Geometry
PROPERTY IsDeque
