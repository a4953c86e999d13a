------------------------------- MODULE TcpSvc -------------------------------
(***************************************************************************)
(* The TCP services of the driver (src/src/tcpsvc.c) under the descriptor  *)
(* manager (Ndesc): a listening socket and the connections accepted from   *)
(* it.  A client writes requests, one to a line, and reads an answer to    *)
(* each, which the master object of the mudlib (incoming_service()) gives. *)
(*                                                                         *)
(* Of the two queues of a connection, ts_rawq takes what is read from the  *)
(* network; ts_canq collects a request and then holds its answer until it  *)
(* is written.  All that keeps the two apart is which callbacks of the     *)
(* descriptor are enabled: the clean-up callback, which collects requests, *)
(* and the write callback are never meant to be enabled together.          *)
(*                                                                         *)
(* Characters are numbered by the request (or answer) they belong to.  The *)
(* queues are bounded sequences, which is what module NQueue shows of the  *)
(* rings of nqueue.c.  Clients and the kernel take steps between any two   *)
(* callbacks.                                                              *)
(***************************************************************************)
EXTENDS Ndesc

CONSTANTS
  Conn,           \* the connections
  Listener,       \* the socket of tcpsvc_init()
  TCPSVC_MAX,
  RAWQ_SIZE, CANQ_SIZE,
  AnswerLens,     \* the lengths of the answers of the master object
  RCVBUF_SIZE,    \* what the kernel holds of what a client sends,
  SNDBUF_SIZE,    \* and of what is sent to it
  MaxTyped        \* bound on the characters sent on the connections there are

ASSUME TcpSvcAssumption ==
  /\ Conn \cup {Listener} \subseteq Sock /\ Listener \notin Conn
  /\ {TCPSVC_MAX, RAWQ_SIZE, CANQ_SIZE, RCVBUF_SIZE, SNDBUF_SIZE}
       \subseteq Nat \ {0}
  /\ AnswerLens \subseteq Nat
  /\ IsFiniteSet(Sock) /\ Cardinality(Sock) <= FD_SETSIZE

VARIABLES
  ts,             \* the control block of a connection
  tcpsvc_count,
  backlog,        \* connections that wait for accept()
  wire,           \* what the kernel holds for a connection, and its client
  log             \* the history of a connection

tcpsvars == <<ts, tcpsvc_count, backlog, wire, log>>

NL == [t |-> "nl", n |-> 0]                 \* the end of a line
Req(k) == [t |-> "req", n |-> k]            \* of the request on line k
Answer(k, len) == [i \in 1 .. len |-> [t |-> "ans", n |-> k]]
ERROR == <<[t |-> "err", n |-> 0]>>         \* "ERROR Service ...\n"
Chars == {NL} \cup [t : {"req", "ans", "err"}, n : Nat]

Full(q, size) == Len(q) = size

\* tcpsvc_alloc()
tcpsvc_alloc == [flags |-> {"ENABC"}, rawq |-> <<>>, canq |-> <<>>]

NoWire == [in |-> <<>>, fin |-> FALSE, unread |-> 0]

\* What the client has typed, the lines of it that the master object was
\* asked, its answers and their number, and what of them has been sent.
NoLog == [typed |-> <<>>, asked |-> <<>>, answers |-> <<>>, count |-> 0,
          sent |-> <<>>]

TcpSvcInit ==
  /\ ts = [c \in Conn |-> tcpsvc_alloc]
  /\ tcpsvc_count = 0
  /\ backlog = {}
  /\ wire = [c \in Conn |-> NoWire]
  /\ log = [c \in Conn |-> NoLog]

(***************************************************************************)
(* The callbacks.  Each is an action of the pass of nd_select().           *)
(***************************************************************************)

\* tcpsvc_disconnect(), with t the control block and d the manager.
DisconnectTs(t) == [t EXCEPT !.flags = @ \cup {"CLOSE"}]
DisconnectNd(d, c, t) ==
  IF "CLOSE" \in t.flags THEN d ELSE nd_enable(d, c, {"C"})

\* Mutant: the clean-up callback is enabled at every read.
AwakenAlways(d, c, t) == nd_enable(d, c, {"C"})

\* The clean-up callback is enabled if it was found without work.
Awaken(d, c, t) == IF "ENABC" \in t.flags THEN nd_enable(d, c, {"C"}) ELSE d

\* tcpsvc_read(): as much as fits is taken from the network, or the client
\* has closed the connection.
tcpsvc_read(c) ==
  /\ pass.at = "R" /\ pass.nd = c
  /\ LET room == RAWQ_SIZE - Len(ts[c].rawq)
         some == {n \in 1 .. room : n <= Len(wire[c].in)}
     IN  \/ /\ room = 0 \/ ~wire[c].fin \/ wire[c].in # <<>>
            /\ \E n \in IF some = {} THEN {0} ELSE some :
                 LET raw == ts[c].rawq \o SubSeq(wire[c].in, 1, n)
                     t == IF room = 0 THEN ts[c]
                          ELSE [ts[c] EXCEPT !.rawq = raw,
                                             !.flags = @ \ {"ENABC"}]
                     d == IF room = 0 THEN dm ELSE Awaken(dm, c, ts[c])
                     stop == Full(raw, RAWQ_SIZE)
                 IN  /\ ts' = [ts EXCEPT ![c] =
                                 IF stop THEN [t EXCEPT !.flags = @ \cup {"ENABR"}]
                                 ELSE t]
                     /\ dm' = IF stop THEN nd_disable(d, c, {"R"}) ELSE d
                     /\ wire' = [wire EXCEPT ![c].in =
                                   SubSeq(@, n + 1, Len(@))]
         \/ /\ room > 0 /\ wire[c].fin      \* end of file, or a reset
            /\ ts' = [ts EXCEPT ![c] = DisconnectTs(ts[c])]
            /\ dm' = DisconnectNd(dm, c, ts[c])
            /\ UNCHANGED wire
  /\ pass' = Due(pass, dm', "C")
  /\ UNCHANGED <<files, tcpsvc_count, backlog, log>>

\* The end of tcpsvc_write(): the answer is written, the next request may
\* be collected.
Written(d, c) == nd_enable(nd_disable(d, c, {"W"}), c, {"C"})

\* tcpsvc_write(): the socket takes what it has room for.
tcpsvc_write(c) ==
  /\ pass.at = "W" /\ pass.nd = c
  /\ LET canq == ts[c].canq
         some == {n \in 1 .. Len(canq) : n <= SNDBUF_SIZE - wire[c].unread}
     IN  \/ \E n \in IF some = {} THEN {0} ELSE some :
              LET rest == SubSeq(canq, n + 1, Len(canq))
              IN  /\ ts' = [ts EXCEPT ![c].canq = rest]
                  /\ wire' = [wire EXCEPT ![c].unread = @ + n]
                  /\ log' = [log EXCEPT ![c].sent = @ \o SubSeq(canq, 1, n)]
                  /\ dm' = IF rest = <<>> THEN Written(dm, c) ELSE dm
         \/ /\ canq # <<>> /\ wire[c].fin   \* the client is gone
            /\ ts' = [ts EXCEPT ![c] = DisconnectTs(ts[c])]
            /\ dm' = DisconnectNd(dm, c, ts[c])
            /\ UNCHANGED <<wire, log>>
  /\ pass' = Due(pass, dm', "R")
  /\ UNCHANGED <<files, tcpsvc_count, backlog>>

\* tcpsvc_shutdown() of a connection: it is closed and detached.
tcpsvc_shutdown(c) ==
  /\ files' = [files EXCEPT ![dm.fd[c]] = None]
  /\ dm' = nd_detach(dm, c)
  /\ ts' = [ts EXCEPT ![c] = tcpsvc_alloc]
  /\ tcpsvc_count' = tcpsvc_count - 1
  /\ wire' = [wire EXCEPT ![c] = NoWire]
  /\ log' = [log EXCEPT ![c] = NoLog]

\* Mutant: the room left in the canonical queue is not looked at.
CollectedAll(canq, s) == canq \o s

\* What is collected of a request: what does not fit is dropped.
Collected(canq, s) ==
  LET all == canq \o s
  IN  IF Len(all) <= CANQ_SIZE THEN all ELSE SubSeq(all, 1, CANQ_SIZE)

\* Mutant: reading is not resumed when the raw queue has been emptied.
NoRequestStopped(c) ==
  /\ ts' = [ts EXCEPT ![c] =
              [flags |-> @.flags \cup {"ENABC"}, rawq |-> <<>>,
               canq |-> Collected(@.canq, @.rawq)]]
  /\ dm' = nd_disable(dm, c, {"C"})
  /\ UNCHANGED log

\* The raw queue is used up and the request not complete: reading goes on.
NoRequest(c) ==
  /\ ts' = [ts EXCEPT ![c] =
              [flags |-> (@.flags \ {"ENABR"}) \cup {"ENABC"}, rawq |-> <<>>,
               canq |-> Collected(@.canq, @.rawq)]]
  /\ dm' = nd_disable(IF "ENABR" \in ts[c].flags
                      THEN nd_enable(dm, c, {"R"}) ELSE dm, c, {"C"})
  /\ UNCHANGED log

\* An error answer is left in the canonical queue, and the connection is to
\* be closed.
Refuse(c, raw, d) ==
  LET t == [ts[c] EXCEPT !.rawq = raw, !.canq = ERROR]
  IN  /\ ts' = [ts EXCEPT ![c] = DisconnectTs(t)]
      /\ dm' = DisconnectNd(d, c, t)
      /\ log' = [log EXCEPT ![c].answers = @ \o ERROR, ![c].count = @ + 1]

\* The answer a of the master object to request req.
Reply(c, raw, d, req, a) ==
  /\ ts' = [ts EXCEPT ![c].rawq = raw, ![c].canq = a]
  /\ dm' = d
  /\ log' = [log EXCEPT ![c].asked = @ \o Append(req, NL),
                        ![c].answers = @ \o a, ![c].count = @ + 1]

\* With a complete request clean-up gives way to writing.
RequestCallbacks(d, c) == nd_enable(nd_disable(d, c, {"C"}), c, {"W"})

\* A request is complete, up to the i-th character of the raw queue.  The
\* master object answers with a string of any length, or fails.
Request(c, i) ==
  LET q   == ts[c].rawq
      req == Collected(ts[c].canq, SubSeq(q, 1, i - 1))
      raw == SubSeq(q, i + 1, Len(q))
      d   == RequestCallbacks(dm, c)
      k   == log[c].count + 1
  IN  \/ Refuse(c, raw, d)        \* request too long, LPC error, or no string
      \/ /\ ~Full(req, CANQ_SIZE)
         /\ \E len \in AnswerLens :
              IF len > CANQ_SIZE THEN Refuse(c, raw, d)
              ELSE Reply(c, raw, d, req, Answer(k, len))

tcpsvc_cleanup(c) ==
  /\ pass.at = "C" /\ pass.nd = c
  /\ pass' = [pass EXCEPT !.at = "next"]
  /\ LET ends == {i \in DOMAIN ts[c].rawq : ts[c].rawq[i] = NL}
     IN  \/ "CLOSE" \in ts[c].flags /\ tcpsvc_shutdown(c)
         \/ /\ "CLOSE" \notin ts[c].flags
            /\ IF ends = {} THEN NoRequest(c)
               ELSE Request(c, CHOOSE i \in ends : \A j \in ends : i <= j)
            /\ UNCHANGED <<files, tcpsvc_count, wire>>
  /\ UNCHANGED backlog

\* tcpsvc_accept(): clients on other machines are turned away; when there
\* are too many the client is told so and never read.
tcpsvc_accept ==
  /\ pass.at = "R" /\ pass.nd = Listener
  /\ \/ /\ backlog = {}                     \* the client has gone
        /\ UNCHANGED <<files, dm, ts, tcpsvc_count, backlog, wire, log>>
     \/ \E c \in backlog :
          /\ backlog' = backlog \ {c}
          /\ \/ /\ wire' = [wire EXCEPT ![c] = NoWire]
                /\ log' = [log EXCEPT ![c] = NoLog]
                /\ UNCHANGED <<files, dm, ts, tcpsvc_count>>
             \/ LET n == LowestFree(files)
                    d == nd_attach(dm, c, n)
                    t == tcpsvc_alloc
                IN  /\ files' = [files EXCEPT ![n] = c]
                    /\ tcpsvc_count' = tcpsvc_count + 1
                    /\ UNCHANGED wire
                    /\ IF tcpsvc_count + 1 > TCPSVC_MAX
                       THEN /\ ts' = [ts EXCEPT ![c] =
                                        DisconnectTs([t EXCEPT !.canq = ERROR])]
                            /\ dm' = DisconnectNd(nd_enable(d, c, {"W"}), c, t)
                            /\ log' = [log EXCEPT ![c].answers = ERROR,
                                                  ![c].count = 1]
                       ELSE /\ ts' = [ts EXCEPT ![c] = t]
                            /\ dm' = nd_enable(d, c, {"R"})
                            /\ UNCHANGED log
  /\ pass' = Due(pass, dm', "C")

(***************************************************************************)
(* Clients and the kernel.                                                 *)
(***************************************************************************)

\* What select() looks for.  A socket whose client has closed is ready for
\* both: the call will not block.
TcpCondition(k, s) ==
  IF s = Listener THEN k = "R" /\ backlog # {}
  ELSE IF k = "R" THEN wire[s].in # <<>> \/ wire[s].fin
       ELSE wire[s].unread < SNDBUF_SIZE \/ wire[s].fin

Accepted == Conn \cap Attached
Connected == backlog \cup Accepted

Connect(c) ==
  /\ c \notin Connected
  /\ backlog' = backlog \cup {c}
  /\ wire' = [wire EXCEPT ![c] = NoWire]
  /\ log' = [log EXCEPT ![c] = NoLog]

LineNumber(c) ==
  1 + Cardinality({i \in DOMAIN log[c].typed : log[c].typed[i] = NL})

\* What a client sends before accept() makes no difference until after it,
\* and what one sends that was told there are too many is never read.
Type(c) ==
  /\ c \in Accepted /\ ~wire[c].fin
  /\ "R" \in dm.mask[c] \/ "ENABR" \in ts[c].flags
  /\ Len(wire[c].in) < RCVBUF_SIZE
  /\ MapThenSumSet(LAMBDA x : Len(log[x].typed), Conn) < MaxTyped
  /\ \E x \in {NL, Req(LineNumber(c))} :
       /\ wire' = [wire EXCEPT ![c].in = Append(@, x)]
       /\ log' = [log EXCEPT ![c].typed = Append(@, x)]
  /\ UNCHANGED backlog

ReadAnswer(c) ==
  /\ c \in Connected /\ wire[c].unread > 0
  /\ wire' = [wire EXCEPT ![c].unread = 0]
  /\ UNCHANGED <<backlog, log>>

\* The client closes; one that still waits may be gone before accept().
Hangup(c) ==
  /\ c \in Connected /\ ~wire[c].fin
  /\ wire' = [wire EXCEPT ![c].fin = TRUE]
  /\ backlog' \in {backlog, backlog \ {c}}
  /\ UNCHANGED log

=============================================================================
