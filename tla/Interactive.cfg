SPECIFICATION Spec
CONSTANTS
  o1 = o1
  o2 = o2
  o3 = o3
  r1 = r1
  r2 = r2
  r3 = r3
  s1 = s1
  s2 = s2
  s3 = s3
  Obj <- MCObj
  Rec <- MCRec
  Sess <- MCSess
  Master = Master
  None = None
  MAX_PLAYERS = 3
  MaxDepth = 5
SYMMETRY Symmetry
INVARIANTS TypeOK TableExact SnoopPaired SessionsOwned
