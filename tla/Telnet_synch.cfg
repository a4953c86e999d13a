SPECIFICATION FairSpec
CONSTANTS
  Bytes = {"a", "LF", "IAC", "AYT", "DM"}
  Messages <- SynchMessages
  RAWQ_SIZE = 2
  CANQ_SIZE = 2
  OPTQ_SIZE = 1
  OUTQ_SIZE = 8
  LOWAT = 2
  HIWAT = 5
  REQUIRED = 3
  AYT_LEN = 3
  NOTICE_LEN = 1
  Outs = {3}
  Lpc = {"fail"}
  Synchs = TRUE
  SOCK_SIZE = 3
  MaxSent = 4
INVARIANTS NoLostWakeup SynchEnds
PROPERTY InputResumed
