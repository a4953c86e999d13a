SPECIFICATION FairSpec
CONSTANTS
  c1 = c1
  c2 = c2
  lsn = lsn
  udp = udp
  Udp = udp
  MaxDatagrams = 1
  None = None
  Conn <- MCConn
  Sock <- MCSock
  Listener = lsn
  FD_SETSIZE = 5
  TCPSVC_MAX = 1
  RAWQ_SIZE = 2
  CANQ_SIZE = 2
  AnswerLens = {2, 3}
  RCVBUF_SIZE = 2
  SNDBUF_SIZE = 1
  MaxTyped = 3
INVARIANTS TypeOK DescriptorsOwned Exchange
PROPERTIES ToldBeforeClose Answered
