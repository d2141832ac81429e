SPECIFICATION Spec
CONSTANTS
  Conns = {c1}
  Proper = {c1}
  Logged = TRUE
  Slots = 1
  Wire = 1
  Null = Null
  MaxSamples = 3
CHECK_DEADLOCK FALSE
INVARIANT
  ProperAreServed
