SPECIFICATION Spec
CONSTANTS
  Bytes = {"a", "b", "NUL", "LF", "CR", "BS", "IAC", "AYT", "EC", "EL", "SB", "SE", "DO", "WONT", "SGA"}
  Messages <- SessionMessages
  RAWQ_SIZE = 2
  CANQ_SIZE = 2
  OPTQ_SIZE = 1
  OUTQ_SIZE = 8
  LOWAT = 2
  HIWAT = 5
  REQUIRED = 3
  AYT_LEN = 3
  NOTICE_LEN = 1
  Outs = {3, 5}
  Lpc = {"output", "quit", "echo"}
  Synchs = FALSE
  SOCK_SIZE = 12
  MaxSent = 2
INVARIANTS TypeOK NoLostWakeup
PROPERTY LineIsTyped
