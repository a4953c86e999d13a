SPECIFICATION FairSpec
CONSTANTS
  Bytes = {"a", "b", "LF"}
  Messages <- LineMessages
  RAWQ_SIZE = 4
  CANQ_SIZE = 4
  OPTQ_SIZE = 1
  OUTQ_SIZE = 8
  LOWAT = 2
  HIWAT = 5
  REQUIRED = 3
  AYT_LEN = 3
  NOTICE_LEN = 1
  Outs = {1}
  Lpc = {}
  Synchs = FALSE
  SOCK_SIZE = 4
  MaxSent = 2
PROPERTY InputHandled
