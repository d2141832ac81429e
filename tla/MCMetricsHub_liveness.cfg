SPECIFICATION FairSpec
CONSTANTS
  Conns = {c1, c2}
  Proper = {c1}
  Logged = FALSE
  Slots = 1
  Wire = 1
  Null = Null
  MaxSamples = 3
CHECK_DEADLOCK FALSE
PROPERTIES
  QueueDrains
  GoneAreForgotten
