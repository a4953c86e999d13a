SPECIFICATION Spec
CONSTANTS
  TIME_RES = 4
  StartSecond = 5
  Passes = {1, 3, 6}
  Backs = {1, 4, 9}
  Forwards = {3, 8}
  MaxAlarm = 40
  MaxSets = 2
  MaxElapsed = 14
INVARIANTS TypeOK FollowsWall
PROPERTY NeverBackwards
CHECK_DEADLOCK FALSE
