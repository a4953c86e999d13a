SPECIFICATION Spec
CONSTANTS
  Byte = {"a", "b"}
  nq_size = 4
INVARIANTS TypeOK RingOK
PROPERTY KeepsBytes
