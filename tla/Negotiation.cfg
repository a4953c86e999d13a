SPECIFICATION FairSpec
CONSTANTS
  Option = "ECHO"
  Kinds = {"agrees", "free"}
  Congested = FALSE
  MaxAsked = 8
INVARIANTS TypeOK Agreement EchoHonoured
PROPERTIES Settles Converges
CHECK_DEADLOCK FALSE
