SPECIFICATION Spec
CONSTANTS
  o1 = o1
  o2 = o2
  o3 = o3
  Objects = {o1, o2}
  NoObject = NoObject
  Loaded = {o1, o2}
  Resident = {}
  Closures = {o1}
  NUM_SLOTS = 4
  HORIZON = 3
  MAX_CALL_OUT = 2
  Delays = {0, 2, 5}
  Reloads = {0, 1}
  MaxTime = 6
  MaxId = 2
INVARIANTS
  TypeOK
  WheelConsistent
  NoneBehind
  NoFatal
  NoOversleep
  NumCallExact
PROPERTIES
  FiresInOrder
  FailedIsOff
  KeepsPromise
