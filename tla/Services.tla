------------------------------ MODULE Services ------------------------------
(***************************************************************************)
(* The service sockets of the driver together: the TCP services (TcpSvc)   *)
(* and the socket for UDP datagrams (src/src/udpsvc.c), called back by the *)
(* one pass of nd_select() (Ndesc).  A datagram is given to the master     *)
(* object outside of any error context of the network code: an LPC error   *)
(* there jumps to the main loop, out of the middle of the pass.            *)
(***************************************************************************)
EXTENDS TcpSvc

CONSTANTS
  Udp,            \* the socket of udpsvc_init()
  MaxDatagrams    \* bound on the datagrams that arrive

ASSUME ServicesAssumption ==
  /\ Sock = Conn \cup {Listener, Udp} /\ Udp \notin Conn \cup {Listener}
  /\ MaxDatagrams \in Nat

VARIABLES
  waiting,        \* datagrams the kernel holds
  arrived         \* how many have arrived

vars == <<files, dm, pass, ts, tcpsvc_count, backlog, wire, log,
          waiting, arrived>>

\* prepare_ipc(): nd_init(), tcpsvc_init() and udpsvc_init().  (The resolver
\* and the telnet port, which it attaches before them, are left out.)
Init ==
  /\ files = [n \in Fds |-> IF n = 0 THEN Listener
                            ELSE IF n = 1 THEN Udp ELSE None]
  /\ dm = nd_enable(nd_attach(nd_enable(nd_attach(nd_init, Listener, 0),
                     Listener, {"R"}), Udp, 1), Udp, {"R"})
  /\ pass = Idle
  /\ TcpSvcInit
  /\ waiting = 0
  /\ arrived = 0

Condition(k, s) ==
  IF s = Udp THEN k = "R" /\ waiting > 0 ELSE TcpCondition(k, s)

\* udpsvc_read(): the master object is told of the datagram.  When it fails
\* the rest of the pass does not take place, nor its garbage collection.
udpsvc_read ==
  /\ pass.at = "R" /\ pass.nd = Udp
  /\ waiting' = waiting - 1
  /\ pass' \in {Due(pass, dm, "C"), Idle}
  /\ UNCHANGED <<files, dm, ts, tcpsvc_count, backlog, wire, log, arrived>>

\* Only select() looks for datagrams: one that arrives in the middle of a
\* pass makes no difference until the next.
Datagram ==
  /\ pass.at = "idle"
  /\ arrived < MaxDatagrams
  /\ arrived' = arrived + 1
  /\ waiting' = waiting + 1
  /\ UNCHANGED <<files, dm, pass, ts, tcpsvc_count, backlog, wire, log>>

Select ==
  /\ nd_select([k \in Kinds |-> {s \in Sock : Condition(k, s)}])
  /\ UNCHANGED <<tcpsvars, waiting, arrived>>

\* The parts of nd_select() that call nobody.
Walk ==
  /\ NextDescriptor \/ nd_gc
  /\ UNCHANGED <<tcpsvars, waiting, arrived>>

Serve ==
  /\ \/ tcpsvc_accept
     \/ \E c \in Conn : tcpsvc_read(c) \/ tcpsvc_write(c) \/ tcpsvc_cleanup(c)
  /\ UNCHANGED <<waiting, arrived>>

Driver == Select \/ Walk \/ Serve \/ udpsvc_read

servervars == <<files, dm, pass, ts, tcpsvc_count, waiting, arrived>>

Read(c) == ReadAnswer(c) /\ UNCHANGED servervars

Client(c) ==
  \/ Read(c)
  \/ (Connect(c) \/ Type(c) \/ Hangup(c)) /\ UNCHANGED servervars

Next == Driver \/ Datagram \/ \E c \in Conn : Client(c)

Spec == Init /\ [][Next]_vars

(***************************************************************************)
(* The main loop calls nd_select() again and again and no callback blocks; *)
(* clients that wait for an answer read what has arrived.                  *)
(***************************************************************************)
Fairness ==
  /\ WF_vars(Driver)
  /\ \A c \in Conn : WF_vars(Read(c))

FairSpec == Spec /\ Fairness

-----------------------------------------------------------------------------

TypeOK ==
  /\ NdescTypeOK
  /\ \A c \in Conn :
       /\ ts[c].flags \subseteq {"CLOSE", "ENABC", "ENABR"}
       /\ ts[c].rawq \in Seq(Chars) /\ Len(ts[c].rawq) <= RAWQ_SIZE
       /\ ts[c].canq \in Seq(Chars) /\ Len(ts[c].canq) <= CANQ_SIZE
       /\ wire[c].in \in Seq(Chars) /\ Len(wire[c].in) <= RCVBUF_SIZE
       /\ wire[c].unread \in 0 .. SNDBUF_SIZE
  /\ backlog \subseteq Conn \ Attached
  /\ tcpsvc_count = Cardinality(Accepted)

\* What of the canonical queue is an answer that waits to be written.
Unwritten(c) == IF "W" \in dm.mask[c] THEN ts[c].canq ELSE <<>>

(***************************************************************************)
(* A service connection is a sequence of exchanges, although a request and *)
(* its answer use one queue and the client may send ahead: every request   *)
(* given to the master object is exactly one line of the client, in order, *)
(* and what has been written and waits to be written are exactly the       *)
(* answers, in order, with nothing of a request among them.  The queue is  *)
(* never collecting a request while an answer waits in it.                 *)
(***************************************************************************)
Exchange ==
  \A c \in Accepted :
    /\ IsPrefix(log[c].asked, log[c].typed)
    /\ log[c].sent \o Unwritten(c) = log[c].answers
    /\ "W" \in dm.mask[c] /\ "C" \in dm.mask[c] => "CLOSE" \in ts[c].flags

(***************************************************************************)
(* A connection is closed by tcpsvc_cleanup() with an error answer still   *)
(* unwritten only if the client had closed it, or if it was not ready for  *)
(* writing when select() looked: of the callbacks of a descriptor writing  *)
(* comes before clean-up.                                                  *)
(***************************************************************************)
ToldBeforeClose ==
  [][\A c \in Accepted :
       /\ dm'.fd[c] = -1
       /\ Unwritten(c) # <<>>
       /\ ~wire[c].fin
       => dm.fd[c] \notin pass.ready["W"]]_vars

\* Some complete line of the client is not answered, or not all of an answer
\* is written, or the connection is to be closed.
Waiting(c) ==
  /\ c \in Attached
  /\ \/ log[c].count < LineNumber(c) - 1
     \/ Unwritten(c) # <<>>
     \/ "CLOSE" \in ts[c].flags

(***************************************************************************)
(* Every complete line sent on a connection is answered and the answer     *)
(* written, or the connection is closed, whatever is sent ahead and        *)
(* however little the queues and the socket take at a time, and one that   *)
(* tcpsvc_disconnect() has marked is closed: with the clients' characters  *)
(* bounded, whoever waits will not wait forever.                           *)
(***************************************************************************)
Answered == \A c \in Conn : []<>~Waiting(c)

=============================================================================
