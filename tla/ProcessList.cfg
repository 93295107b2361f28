SPECIFICATION Spec
CONSTANTS
  i1 = i1
  i2 = i2
  i3 = i3
  i4 = i4
  a = a
  b = b
  system = system
  None = None
  Pids <- FourPids
  Exes <- ThreeExes
  Hidden <- SystemOnly
  Limit = 3
  Reuse = FALSE
  MaxLives = 4
  MaxChoices = 2
SYMMETRY PidSymmetry
INVARIANTS
  TypeOK
  
PROPERTIES
  KeepsSelected
