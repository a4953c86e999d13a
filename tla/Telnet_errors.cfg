SPECIFICATION Spec
CONSTANTS
  Bytes = {"a", "b", "LF"}
  Messages <- LineMessages
  RAWQ_SIZE = 2
  CANQ_SIZE = 4
  OPTQ_SIZE = 1
  OUTQ_SIZE = 8
  LOWAT = 2
  HIWAT = 5
  REQUIRED = 3
  AYT_LEN = 3
  NOTICE_LEN = 1
  Outs = {1}
  Lpc = {"fail"}
  Synchs = FALSE
  SOCK_SIZE = 2
  MaxSent = 2
PROPERTY LineIsTyped
