SPECIFICATION Spec
CONSTANTS
  Conns = {c1, c2}
  Proper = {c1, c2}
  Logged = FALSE
  Slots = 1
  Wire = 1
  Null = Null
  MaxSamples = 3
CHECK_DEADLOCK FALSE
SYMMETRY Symmetry
INVARIANTS
  TypeOK
  NoSilentGap
PROPERTY
  IsLossyBroadcast
