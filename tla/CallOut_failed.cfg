SPECIFICATION Spec
CONSTANTS
  o1 = o1
  o2 = o2
  o3 = o3
  Objects = {o1, o2, o3}
  NoObject = NoObject
  Loaded = {o1, o2}
  Resident = {o2}
  Closures = {o1}
  NUM_SLOTS = 4
  HORIZON = 3
  MAX_CALL_OUT = 2
  Delays = {1}
  Reloads = {0, 1}
  MaxTime = 3
  MaxId = 2
PROPERTIES
  FailedIsOff
