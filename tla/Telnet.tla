------------------------------- MODULE Telnet -------------------------------
(***************************************************************************)
(* A telnet session of the driver (src/src/telnet.c) under the descriptor  *)
(* manager that calls it (nd_select() in src/src/ndesc.c).                 *)
(*                                                                         *)
(* Bytes of the client wait in the raw queue, are interpreted one by one   *)
(* into the canonical queue, and a finished line is passed to the player's *)
(* object (interactive_input() in src/src/comm1.c), which runs LPC code.   *)
(* What LPC code writes, and what the protocol answers, waits in the       *)
(* output queue.  No queue ever blocks the driver: when one is full the    *)
(* session disables a callback of its descriptor and remembers in t_flags  *)
(* to enable it again.                                                     *)
(*                                                                         *)
(* nd_select() calls, in this order, the exception, write and read         *)
(* callbacks of a descriptor that select() found ready, and then its       *)
(* clean-up callback, which is where input is interpreted.  Other LPC code *)
(* (alarms, other players) runs between the turns of a session, also       *)
(* between select() and the turn.  All queues are sequences here; only the *)
(* length of the output queue matters.                                     *)
(***************************************************************************)
EXTENDS Integers, Sequences, FiniteSets, SequencesExt, TelnetOptions

CONSTANTS
  Bytes,          \* the bytes clients send
  Messages,       \* what a client sends at once, as sequences of them
  RAWQ_SIZE, CANQ_SIZE, OPTQ_SIZE, OUTQ_SIZE,
  LOWAT, HIWAT,   \* TELNET_OUTQ_LOWAT, TELNET_OUTQ_HIWAT
  REQUIRED,       \* TELNET_OUTQ_REQUIRED
  AYT_LEN,        \* the length of the answer to Are You There
  NOTICE_LEN,     \* the length of "*** Truncated. ***\r\n"
  Outs,           \* the lengths of the messages of LPC code, as sent
  Lpc,            \* what LPC code does: "output", "quit", "echo", "fail"
  Synchs,         \* whether the client sends Synch signals
  SOCK_SIZE,      \* bound on the bytes the kernel holds for us
  MaxSent         \* bound on the messages of a connection

ASSUME SizesAssumption ==
  /\ {RAWQ_SIZE, CANQ_SIZE, OPTQ_SIZE, OUTQ_SIZE, LOWAT, HIWAT, REQUIRED,
      AYT_LEN, NOTICE_LEN, SOCK_SIZE, MaxSent} \subseteq Nat \ {0}
  /\ Messages \subseteq Seq(Bytes)
  /\ Outs \subseteq Nat
  /\ AYT_LEN <= REQUIRED /\ 3 <= REQUIRED
  /\ LOWAT <= HIWAT
  /\ HIWAT + REQUIRED <= OUTQ_SIZE
  /\ LOWAT + NOTICE_LEN <= OUTQ_SIZE
  /\ Synchs \in BOOLEAN /\ (Synchs => {"IAC", "DM"} \subseteq Bytes)

VARIABLES
  t_flags,        \* the TF_ flags that are set
  t_state,        \* the TS_ state of the interpreter of input
  t_optb,         \* the option blocks
  rawq, canq,
  optq,           \* the length of the option queue
  outq,           \* the length of the output queue
  nd_mask,        \* the callbacks enabled
  ready,          \* what select() found ready and was not called yet
  pc,             \* where the driver is with respect to this session
  line,           \* the string interactive_input() was called with
  sock,           \* bytes of the client the kernel holds
  mark,           \* the place of the urgent byte among them; 0: none
  eof,            \* the client has closed the connection
  count,          \* messages sent on this connection
  typed           \* what the player has typed on the current line

queues == <<rawq, canq, optq, outq>>
net == <<sock, mark, eof, count>>
vars == <<t_flags, t_state, t_optb, rawq, canq, optq, outq, nd_mask, ready, pc,
          line, sock, mark, eof, count, typed>>

Flags == {"ATTACH", "ENABR", "ENABW", "FLOWC", "OVFLCANQ", "OVFLOPTQ",
          "OVFLOUTQ", "SYNCH", "URGENT", "GA", "SGA"}
InputStates == {"DATA", "CR", "IAC", "IAC_SB", "IAC_SB_DATA", "IAC_SB_IAC",
                "IAC_WILL", "IAC_WONT", "IAC_DO", "IAC_DONT"}
Callbacks == {"R", "W", "X", "C"}

\* closed: no connection; idle: elsewhere in the loop of the driver; turn:
\* select() has returned; callbacks: in the callbacks of this descriptor;
\* input: in telnet_input(); lpc: in interactive_input().
Phases == {"closed", "idle", "turn", "callbacks", "input", "lpc"}

TypeOK ==
  /\ t_flags \subseteq Flags
  /\ t_state \in InputStates
  /\ t_optb \in [Known -> [us : Direction, him : Direction]]
  /\ rawq \in Seq(Bytes) /\ Len(rawq) <= RAWQ_SIZE
  /\ canq \in Seq(Bytes \cup {"NUL"}) /\ Len(canq) <= CANQ_SIZE
  /\ optq \in 0 .. OPTQ_SIZE
  /\ outq \in 0 .. OUTQ_SIZE
  /\ nd_mask \subseteq Callbacks
  /\ ready \subseteq {"R", "W", "X"}
  /\ pc \in Phases
  /\ line \in Seq(Bytes \cup {"NUL"})
  /\ sock \in Seq(Bytes)
  /\ mark \in 0 .. Len(sock)
  /\ eof \in BOOLEAN
  /\ count \in 0 .. MaxSent
  /\ typed \in Seq(Bytes)

-----------------------------------------------------------------------------
(* The queues and the callbacks *)

Has(flag) == flag \in t_flags

avail == OUTQ_SIZE - outq
RawFull == Len(rawq) = RAWQ_SIZE
CanFull == Len(canq) = CANQ_SIZE

\* telnet_enabr(), telnet_enabw(): the flags and the mask after enabling a
\* callback that was disabled because of a queue.
Enabled(fl, mask, flag, callback) ==
  IF flag \in fl THEN [fl |-> fl \ {flag}, mask |-> mask \cup {callback}]
                 ELSE [fl |-> fl, mask |-> mask]
Enabw(fl, mask) == Enabled(fl, mask, "ENABW", "W")
Enabr(fl, mask) == Enabled(fl, mask, "ENABR", "R")

\* n bytes are appended to the output queue and its callback is enabled.
Put(n) ==
  /\ outq' = outq + n
  /\ t_flags' = Enabw(t_flags, nd_mask).fl
  /\ nd_mask' = Enabw(t_flags, nd_mask).mask

\* Mutant: the message that does not fit is put behind the flushed ones.
OutputAnyway(n, k) ==
  IF Has("OVFLOUTQ") \/ n = 0
    THEN [outq |-> outq, fl |-> t_flags, mask |-> nd_mask]
    ELSE LET left == IF outq + n >= HIWAT THEN outq - k ELSE outq
             e == Enabw(t_flags, nd_mask)
         IN  [outq |-> left + n, fl |-> e.fl, mask |-> e.mask]

\* telnet_output() of n bytes: ignored after an overflow; otherwise the
\* queue is flushed when n would take it to the high-water mark (the socket
\* takes k bytes), and if that does not help the message is dropped and the
\* overflow noted.
Output(n, k) ==
  IF Has("OVFLOUTQ") \/ n = 0
    THEN [outq |-> outq, fl |-> t_flags, mask |-> nd_mask]
    ELSE LET left == IF outq + n >= HIWAT THEN outq - k ELSE outq
             full == left + n >= HIWAT
             e == Enabw(t_flags, nd_mask)
         IN  [outq |-> IF full THEN left ELSE left + n,
              fl |-> IF full THEN e.fl \cup {"OVFLOUTQ"} ELSE e.fl,
              mask |-> e.mask]

-----------------------------------------------------------------------------
(* The life of a session *)

NoOptions == [o \in Known |-> [us |-> Off, him |-> Off]]

\* No connection yet; the record is as telnet_alloc() makes it.
Init ==
  /\ t_flags = {"ENABW"} /\ t_state = "DATA" /\ t_optb = NoOptions
  /\ rawq = <<>> /\ canq = <<>> /\ optq = 0 /\ outq = 0
  /\ nd_mask = {} /\ ready = {} /\ pc = "closed" /\ line = <<>>
  /\ sock = <<>> /\ mark = 0 /\ eof = FALSE /\ count = 0
  /\ typed = <<>>

\* telnet_accept(): new_player() lets LPC code greet the player with n
\* bytes, the session is attached and the callbacks are enabled.
telnet_accept(n) ==
  /\ pc = "closed"
  /\ pc' = "idle"
  /\ LET o == Output(n, 0)
     IN  /\ outq' = o.outq
         /\ t_flags' = o.fl \cup {"ATTACH"}
         /\ nd_mask' = o.mask \cup {"R", "X", "C"}
  /\ UNCHANGED <<t_state, t_optb, rawq, canq, optq, ready, line, net, typed>>

\* telnet_cleanup() of a detached session is telnet_shutdown(): what is
\* left of the output is flushed and the record is freed.
telnet_shutdown ==
  /\ t_flags' = {"ENABW"} /\ t_state' = "DATA" /\ t_optb' = NoOptions
  /\ rawq' = <<>> /\ canq' = <<>> /\ optq' = 0 /\ outq' = 0
  /\ nd_mask' = {} /\ ready' = {} /\ pc' = "closed" /\ line' = <<>>
  /\ sock' = <<>> /\ mark' = 0 /\ eof' = FALSE /\ count' = 0
  /\ typed' = <<>>

\* remove_interactive(): a farewell of n bytes, then telnet_detach().
Removed(n, k) ==
  LET o == Output(n, k)
  IN  /\ outq' = o.outq
      /\ t_flags' = o.fl \ {"ATTACH"}
      /\ nd_mask' = o.mask \cup {"C"}

\* telnet_disconnect()
Disconnected ==
  \/ /\ Has("ATTACH")
     /\ \E n \in Outs, k \in 0 .. outq : Removed(n, k)
  \/ /\ ~Has("ATTACH")
     /\ UNCHANGED <<outq, t_flags, nd_mask>>

-----------------------------------------------------------------------------
(* LPC code *)

\* LPC code runs for this player, in an alarm or for another player.
InLpc == pc \in {"idle", "turn", "lpc"}

Write_(n, k) ==
  /\ InLpc /\ "output" \in Lpc /\ Has("ATTACH")
  /\ k <= outq
  /\ LET o == Output(n, k)
     IN  outq' = o.outq /\ t_flags' = o.fl /\ nd_mask' = o.mask
  /\ UNCHANGED <<t_state, t_optb, rawq, canq, optq, ready, pc, line, net, typed>>

\* The player quits or the player's object is destructed.
Quit ==
  /\ InLpc /\ "quit" \in Lpc /\ Has("ATTACH")
  /\ \E n \in Outs, k \in 0 .. outq : Removed(n, k)
  /\ UNCHANGED <<t_state, t_optb, rawq, canq, optq, ready, pc, line, net, typed>>

\* telnet_enable_echo(), telnet_disable_echo(): nothing without room.
Echo(on) ==
  LET e == IF on THEN Enable(t_optb["ECHO"].us) ELSE Disable(t_optb["ECHO"].us)
  IN  /\ InLpc /\ "echo" \in Lpc /\ Has("ATTACH")
      /\ avail >= 3
      /\ t_optb' = [t_optb EXCEPT !["ECHO"].us = e.dir]
      /\ IF e.sent = "nothing" THEN UNCHANGED <<outq, t_flags, nd_mask>>
                               ELSE Put(3)
      /\ UNCHANGED <<t_state, rawq, canq, optq, ready, pc, line, net, typed>>

-----------------------------------------------------------------------------
(* The callbacks *)

\* select() returns.  The read and exception callbacks are ready when the
\* kernel has bytes, the end of the connection or an urgent byte for us; the
\* write callback is, when the client has made room.  others: descriptors
\* further down the list are ready too.  nd_select() stops when it has seen
\* as many descriptors as select() found ready, so without them a session
\* that is not ready gets no turn, not even for its clean-up callback.
Readable == sock # <<>> \/ eof

Select(r, others) ==
  /\ pc = "idle"
  /\ r \subseteq nd_mask
  /\ "R" \in r <=> (Readable /\ "R" \in nd_mask)
  /\ "X" \in r <=> (mark # 0 /\ "X" \in nd_mask)
  /\ r # {} \/ (others /\ nd_mask # {})
  /\ ready' = r
  /\ pc' = "turn"
  /\ UNCHANGED <<t_flags, t_state, t_optb, queues, nd_mask, line, net, typed>>

InTurn == pc \in {"turn", "callbacks"}

\* Mutant: the callback stays enabled and Synch does not wait for the mark.
ExceptionForgetsMark ==
  /\ InTurn /\ "X" \in ready
  /\ t_flags' = t_flags \cup {"SYNCH"}
  /\ canq' = <<>>
  /\ typed' = <<>>
  /\ nd_mask' = nd_mask \ {"X"}
  /\ ready' = ready \ {"X"}
  /\ pc' = "callbacks"
  /\ UNCHANGED <<t_state, t_optb, rawq, optq, outq, line, net>>

telnet_exception ==
  /\ InTurn /\ "X" \in ready
  /\ t_flags' = t_flags \cup {"SYNCH", "URGENT"}
  /\ canq' = <<>>
  /\ typed' = <<>>
  /\ nd_mask' = nd_mask \ {"X"}
  /\ ready' = ready \ {"X"}
  /\ pc' = "callbacks"
  /\ UNCHANGED <<t_state, t_optb, rawq, optq, outq, line, net>>

\* Mutant: telnet_write() returns after the notice.
WrittenOnly(left) ==
  LET notice == Has("OVFLOUTQ") /\ left < LOWAT
  IN  [outq |-> IF notice THEN left + NOTICE_LEN ELSE left,
       fl |-> IF notice THEN t_flags \ {"OVFLOUTQ"} ELSE t_flags,
       mask |-> nd_mask]

\* The rest of telnet_write() after nq_send() has left that many bytes: the
\* notice of an overflow that is over, the end of flow control, and the
\* callback disabled when there is nothing left to write.
Written(left) ==
  LET notice == Has("OVFLOUTQ") /\ left < LOWAT
      len == IF notice THEN left + NOTICE_LEN ELSE left
      resume == Has("FLOWC") /\ len < HIWAT
      fl == (t_flags \ (IF notice THEN {"OVFLOUTQ"} ELSE {}))
                     \ (IF resume THEN {"FLOWC"} ELSE {})
      mask == IF resume THEN nd_mask \cup {"C"} ELSE nd_mask
  IN  [outq |-> len,
       fl |-> IF len = 0 THEN fl \cup {"ENABW"} ELSE fl,
       mask |-> IF len = 0 THEN mask \ {"W"} ELSE mask]

\* telnet_write(): the socket takes n bytes, or fails.
telnet_write(n) ==
  /\ InTurn /\ "X" \notin ready /\ "W" \in ready
  /\ n <= outq
  /\ LET w == Written(outq - n)
     IN  outq' = w.outq /\ t_flags' = w.fl /\ nd_mask' = w.mask
  /\ ready' = ready \ {"W"}
  /\ pc' = "callbacks"
  /\ UNCHANGED <<t_state, t_optb, rawq, canq, optq, line, net, typed>>

WriteFails ==
  /\ InTurn /\ "X" \notin ready /\ "W" \in ready
  /\ outq > 0
  /\ Disconnected
  /\ ready' = ready \ {"W"}
  /\ pc' = "callbacks"
  /\ UNCHANGED <<t_state, t_optb, rawq, canq, optq, line, net, typed>>

\* What one recv() may return: bytes up to the urgent one, or from it on.
Receivable == IF mark > 1 THEN mark - 1 ELSE Len(sock)

\* telnet_read(): at the mark the exception callback is enabled again; n
\* bytes are read (0: recv() had none after all), the clean-up callback is
\* enabled unless output is congested, and reading stops when the raw queue
\* is full.
telnet_read(n) ==
  LET atMark == Has("URGENT") /\ mark = 1
      fl == IF atMark THEN t_flags \ {"URGENT"} ELSE t_flags
      mask == (IF atMark THEN nd_mask \cup {"X"} ELSE nd_mask)
                \cup (IF Has("FLOWC") THEN {} ELSE {"C"})
      e == Enabr(fl, mask)
      full == Len(rawq) + n = RAWQ_SIZE
  IN  /\ InTurn /\ ready = {"R"}
      /\ ~RawFull
      /\ n <= Receivable /\ n <= RAWQ_SIZE - Len(rawq)
      /\ rawq' = rawq \o SubSeq(sock, 1, n)
      /\ sock' = SubSeq(sock, n + 1, Len(sock))
      /\ mark' = IF n >= mark THEN 0 ELSE mark - n
      /\ t_flags' = IF full THEN e.fl \cup {"ENABR"} ELSE e.fl
      /\ nd_mask' = IF full THEN e.mask \ {"R"} ELSE e.mask
      /\ ready' = {}
      /\ pc' = "callbacks"
      /\ UNCHANGED <<t_state, t_optb, canq, optq, outq, line, eof, count, typed>>

\* telnet_read() at the end of the connection, or recv() fails, with bytes
\* still to come or not.  (At the mark, recv() has nothing before it fails:
\* telnet_read(0) comes first.)
ReadFails ==
  /\ InTurn /\ ready = {"R"}
  /\ ~RawFull
  /\ ~(Has("URGENT") /\ mark = 1)
  /\ Disconnected
  /\ ready' = {}
  /\ pc' = "callbacks"
  /\ UNCHANGED <<t_state, t_optb, rawq, canq, optq, line, net, typed>>

\* The turn ends with telnet_cleanup(), if that is enabled.
Cleanup ==
  /\ InTurn /\ ready = {}
  /\ \/ /\ "C" \notin nd_mask
        /\ pc' = "idle"
        /\ UNCHANGED <<t_flags, t_state, t_optb, queues, nd_mask, ready, line,
                       net, typed>>
     \/ /\ "C" \in nd_mask /\ Has("ATTACH")
        /\ pc' = "input"
        /\ UNCHANGED <<t_flags, t_state, t_optb, queues, nd_mask, ready, line,
                       net, typed>>
     \/ /\ "C" \in nd_mask /\ ~Has("ATTACH")
        /\ telnet_shutdown

-----------------------------------------------------------------------------
(* telnet_input() *)

\* The loop takes the next byte while the longest answer fits.
b == Head(rawq)
NextByte ==
  /\ pc = "input"
  /\ rawq # <<>>
  /\ avail >= REQUIRED
  /\ rawq' = Tail(rawq)

\* It stops when the output is congested ...
FlowControl ==
  /\ pc = "input"
  /\ rawq # <<>>
  /\ avail < REQUIRED
  /\ t_flags' = t_flags \cup {"FLOWC"}
  /\ nd_mask' = nd_mask \ {"C"}
  /\ pc' = "idle"
  /\ UNCHANGED <<t_state, t_optb, queues, ready, line, net, typed>>

\* ... and when there are no more bytes: a Go Ahead unless it is suppressed
\* or the last line was answered with one, and reading is enabled again.
InputDone ==
  /\ pc = "input"
  /\ rawq = <<>>
  /\ LET ga == ~Has("SGA") /\ ~Has("GA") /\ avail >= 2
         w == IF ga THEN Enabw(t_flags \cup {"GA"}, nd_mask)
                    ELSE [fl |-> t_flags, mask |-> nd_mask]
         e == Enabr(w.fl, w.mask)
     IN  /\ outq' = IF ga THEN outq + 2 ELSE outq
         /\ t_flags' = e.fl
         /\ nd_mask' = e.mask \ {"C"}
  /\ pc' = "idle"
  /\ UNCHANGED <<t_state, t_optb, rawq, canq, optq, ready, line, net, typed>>

\* telnet_canq_putc(), telnet_ec() and telnet_el() do nothing during a
\* Synch or after the line became too long.
Discarding == Has("OVFLCANQ") \/ Has("SYNCH")

\* The player's line as it looks on the screen.  A line that is too long is
\* lost up to its end.
TooLong == Len(typed) > CANQ_SIZE

Control == {"NUL", "BS", "LF", "CR", "IAC"}

\* telnet_canq_putc() of an ordinary byte, or of an escaped IAC; a bell is
\* sent when the canonical queue is full.
CanqPutc ==
  /\ NextByte
  /\ \/ t_state = "DATA" /\ b \notin Control
     \/ t_state = "IAC" /\ b = "IAC"
  /\ t_state' = "DATA"
  /\ typed' = IF Has("SYNCH") THEN typed ELSE Append(typed, b)
  /\ \/ /\ ~Discarding /\ ~CanFull
        /\ canq' = Append(canq, b)
        /\ UNCHANGED <<outq, t_flags, nd_mask>>
     \/ /\ ~Discarding /\ CanFull
        /\ LET e == Enabw(t_flags, nd_mask)
           IN  /\ outq' = outq + 1
               /\ t_flags' = e.fl \cup {"OVFLCANQ"}
               /\ nd_mask' = e.mask
        /\ UNCHANGED canq
     \/ /\ Discarding
        /\ UNCHANGED <<canq, outq, t_flags, nd_mask>>
  /\ UNCHANGED <<t_optb, optq, ready, pc, line, net>>

\* telnet_ec(): backspace, delete or Erase Character.
telnet_ec ==
  /\ NextByte
  /\ \/ t_state = "DATA" /\ b = "BS"
     \/ t_state = "IAC" /\ b = "EC"
  /\ t_state' = "DATA"
  /\ canq' = IF Discarding \/ canq = <<>> THEN canq ELSE Front(canq)
  /\ typed' = IF TooLong \/ typed = <<>> THEN typed ELSE Front(typed)
  /\ UNCHANGED <<t_flags, t_optb, optq, outq, nd_mask, ready, pc, line, net>>

\* telnet_el(): Erase Line.
telnet_el ==
  /\ NextByte
  /\ t_state = "IAC" /\ b = "EL"
  /\ t_state' = "DATA"
  /\ canq' = IF Discarding THEN canq ELSE <<>>
  /\ typed' = IF TooLong THEN typed ELSE <<>>
  /\ UNCHANGED <<t_flags, t_optb, optq, outq, nd_mask, ready, pc, line, net>>

\* The end of a line: LF, or any byte after CR.
AtEol == (t_state = "DATA" /\ b = "LF") \/ t_state = "CR"

\* The C string at the start of the canonical queue: the bytes before the
\* first NUL.
StrLen(q) ==
  Cardinality({i \in 1 .. Len(q) : \A j \in 1 .. i : q[j] # "NUL"})
CString(q) == SubSeq(q, 1, StrLen(q))

\* telnet_eol() passes the line, or an empty one if the queue is full, to
\* interactive_input() ...
EolEnter ==
  /\ NextByte /\ AtEol /\ ~Has("SYNCH")
  /\ canq' = IF CanFull THEN canq ELSE Append(canq, "NUL")
  /\ line' = IF CanFull THEN <<>> ELSE CString(canq)
  /\ t_flags' = IF CanFull THEN t_flags \ {"OVFLCANQ"} ELSE t_flags
  /\ pc' = "lpc"
  /\ typed' = <<>>
  /\ UNCHANGED <<t_state, t_optb, optq, outq, nd_mask, ready, net>>

\* Mutant: the canonical queue is not emptied.
EolReturnKeeps ==
  /\ pc = "lpc"
  /\ line' = <<>>
  /\ t_flags' = t_flags \ {"GA"}
  /\ t_state' = "DATA"
  /\ pc' = "idle"
  /\ UNCHANGED <<t_optb, queues, nd_mask, ready, net, typed>>

\* ... and when that returns, empties the queue; the loop is left, for the
\* next line to wait until the other sessions had their turn.
EolReturn ==
  /\ pc = "lpc"
  /\ canq' = <<>>
  /\ line' = <<>>
  /\ t_flags' = t_flags \ {"GA"}
  /\ t_state' = "DATA"
  /\ pc' = "idle"
  /\ UNCHANGED <<t_optb, rawq, optq, outq, nd_mask, ready, net, typed>>

\* interactive_input() protects itself against errors of the command, but
\* not against those of catch_tell(), which writes the prompt and tells
\* the snooper: backend() starts its loop anew.
EolFails ==
  /\ pc = "lpc" /\ "fail" \in Lpc
  /\ line' = <<>>
  /\ pc' = "idle"
  /\ UNCHANGED <<t_flags, t_state, t_optb, queues, nd_mask, ready, net, typed>>

\* During a Synch the end of a line is dropped as well.
EolDropped ==
  /\ NextByte /\ AtEol /\ Has("SYNCH")
  /\ t_state' = "DATA"
  /\ pc' = "idle"
  /\ UNCHANGED <<t_flags, t_optb, canq, optq, outq, nd_mask, ready, line, net,
                 typed>>

\* Bytes that only move the interpreter to another state.
Moves ==
  { <<"DATA", "NUL", "DATA">>, <<"DATA", "CR", "CR">>, <<"DATA", "IAC", "IAC">>,
    <<"IAC", "SB", "IAC_SB">>, <<"IAC", "WILL", "IAC_WILL">>,
    <<"IAC", "WONT", "IAC_WONT">>, <<"IAC", "DO", "IAC_DO">>,
    <<"IAC", "DONT", "IAC_DONT">>, <<"IAC_SB_DATA", "IAC", "IAC_SB_IAC">> }
Handled == {"DM", "AYT", "EC", "EL", "SB", "WILL", "WONT", "DO", "DONT", "IAC"}

Move ==
  /\ NextByte
  /\ \/ \E m \in Moves : t_state = m[1] /\ b = m[2] /\ t_state' = m[3]
     \/ t_state = "IAC" /\ b \notin Handled /\ t_state' = "DATA"
     \/ t_state = "IAC_SB" /\ t_state' = "IAC_SB_DATA"
     \/ t_state = "IAC_SB_IAC" /\ b \notin {"SE", "IAC"}
        /\ t_state' = "IAC_SB_DATA"
  /\ UNCHANGED <<t_flags, t_optb, canq, optq, outq, nd_mask, ready, pc, line,
                 net, typed>>

\* Mutant: the condition is the wrong way round.
DmInverted ==
  /\ NextByte
  /\ t_state = "IAC" /\ b = "DM"
  /\ t_state' = "DATA"
  /\ t_flags' = IF Has("URGENT") THEN t_flags \ {"SYNCH"} ELSE t_flags
  /\ UNCHANGED <<t_optb, canq, optq, outq, nd_mask, ready, pc, line, net, typed>>

\* telnet_dm(): the Data Mark ends the Synch, unless another urgent byte is
\* still to come.
telnet_dm ==
  /\ NextByte
  /\ t_state = "IAC" /\ b = "DM"
  /\ t_state' = "DATA"
  /\ t_flags' = IF Has("URGENT") THEN t_flags ELSE t_flags \ {"SYNCH"}
  /\ UNCHANGED <<t_optb, canq, optq, outq, nd_mask, ready, pc, line, net, typed>>

telnet_ayt ==
  /\ NextByte
  /\ t_state = "IAC" /\ b = "AYT"
  /\ t_state' = "DATA"
  /\ Put(AYT_LEN)
  /\ UNCHANGED <<t_optb, canq, optq, ready, pc, line, net, typed>>

\* telnet_optq_putc(): the parameters of an option are collected ...
OptqPutc ==
  /\ NextByte
  /\ \/ t_state = "IAC_SB_DATA" /\ b # "IAC"
     \/ t_state = "IAC_SB_IAC" /\ b = "IAC"
  /\ t_state' = "IAC_SB_DATA"
  /\ LET full == optq = OPTQ_SIZE
     IN  /\ optq' = IF Has("OVFLOPTQ") \/ full THEN optq ELSE optq + 1
         /\ t_flags' = IF full THEN t_flags \cup {"OVFLOPTQ"} ELSE t_flags
  /\ UNCHANGED <<t_optb, canq, outq, nd_mask, ready, pc, line, net, typed>>

\* ... and thrown away at their end: telnet_se().
telnet_se ==
  /\ NextByte
  /\ t_state = "IAC_SB_IAC" /\ b = "SE"
  /\ t_state' = "DATA"
  /\ t_flags' = t_flags \ {"OVFLOPTQ"}
  /\ optq' = 0
  /\ UNCHANGED <<t_optb, canq, outq, nd_mask, ready, pc, line, net, typed>>

\* Mutant: the answer does not enable the write callback.
AnsweredStuck(sent, fl) ==
  /\ outq' = IF sent = "nothing" THEN outq ELSE outq + 3
  /\ t_flags' = fl
  /\ nd_mask' = nd_mask

\* The flags after an answer of 3 bytes, or none.
Answered(sent, fl) ==
  IF sent = "nothing"
    THEN outq' = outq /\ t_flags' = fl /\ nd_mask' = nd_mask
    ELSE /\ outq' = outq + 3
         /\ t_flags' = Enabw(fl, nd_mask).fl
         /\ nd_mask' = Enabw(fl, nd_mask).mask

\* telnet_do(), telnet_dont(): TF_SGA follows the option SGA.
OnUs ==
  /\ NextByte
  /\ t_state \in {"IAC_DO", "IAC_DONT"}
  /\ t_state' = "DATA"
  /\ \/ /\ b \in Known
        /\ LET e == IF t_state = "IAC_DO" THEN Agree(t_optb[b].us, lenabp(b))
                                          ELSE Refuse(t_optb[b].us)
               fl == IF b # "SGA" THEN t_flags
                     ELSE IF e.dir.st = "YES" THEN t_flags \cup {"SGA"}
                     ELSE t_flags \ {"SGA"}
           IN  /\ t_optb' = [t_optb EXCEPT ![b].us = e.dir]
               /\ Answered(e.sent, fl)
     \/ /\ b \notin Known
        /\ t_optb' = t_optb
        /\ Answered(IF t_state = "IAC_DO" THEN "no" ELSE "nothing", t_flags)
  /\ UNCHANGED <<canq, optq, ready, pc, line, net, typed>>

\* telnet_will(), telnet_wont()
OnHim ==
  /\ NextByte
  /\ t_state \in {"IAC_WILL", "IAC_WONT"}
  /\ t_state' = "DATA"
  /\ \/ /\ b \in Known
        /\ LET e == IF t_state = "IAC_WILL" THEN Agree(t_optb[b].him, renabp(b))
                                            ELSE Refuse(t_optb[b].him)
           IN  /\ t_optb' = [t_optb EXCEPT ![b].him = e.dir]
               /\ Answered(e.sent, t_flags)
     \/ /\ b \notin Known
        /\ t_optb' = t_optb
        /\ Answered(IF t_state = "IAC_WILL" THEN "no" ELSE "nothing", t_flags)
  /\ UNCHANGED <<canq, optq, ready, pc, line, net, typed>>

-----------------------------------------------------------------------------
(* The client *)

Send(m) ==
  /\ pc # "closed" /\ ~eof
  /\ count < MaxSent /\ Len(sock) + Len(m) <= SOCK_SIZE
  /\ sock' = sock \o m
  /\ count' = count + 1
  /\ UNCHANGED <<t_flags, t_state, t_optb, queues, nd_mask, ready, pc, line,
                 mark, eof, typed>>

\* A Synch: IAC DM with the DM sent urgently.  TCP keeps one urgent mark.
Synch ==
  /\ Synchs
  /\ pc # "closed" /\ ~eof
  /\ count < MaxSent /\ Len(sock) + 1 < SOCK_SIZE
  /\ sock' = sock \o <<"IAC", "DM">>
  /\ mark' = Len(sock) + 2
  /\ count' = count + 1
  /\ UNCHANGED <<t_flags, t_state, t_optb, queues, nd_mask, ready, pc, line,
                 eof, typed>>

Close ==
  /\ pc # "closed" /\ ~eof
  /\ eof' = TRUE
  /\ UNCHANGED <<t_flags, t_state, t_optb, queues, nd_mask, ready, pc, line,
                 sock, mark, count, typed>>

-----------------------------------------------------------------------------

Input ==
  \/ FlowControl \/ InputDone \/ CanqPutc \/ telnet_ec \/ telnet_el
  \/ EolEnter \/ EolDropped \/ Move \/ telnet_dm \/ telnet_ayt \/ OptqPutc
  \/ telnet_se \/ OnUs \/ OnHim

LpcStep ==
  \/ \E n \in Outs, k \in 0 .. OUTQ_SIZE : Write_(n, k)
  \/ Quit
  \/ \E on \in BOOLEAN : Echo(on)

Turn ==
  \/ telnet_exception
  \/ \E n \in 0 .. OUTQ_SIZE : telnet_write(n)
  \/ WriteFails
  \/ \E n \in 0 .. RAWQ_SIZE : telnet_read(n)
  \/ ReadFails
  \/ Cleanup

Client == (\E m \in Messages : Send(m)) \/ Synch \/ Close

Next ==
  \/ \E n \in Outs : telnet_accept(n)
  \/ \E r \in SUBSET {"R", "W", "X"}, others \in BOOLEAN : Select(r, others)
  \/ Turn
  \/ Input
  \/ EolReturn
  \/ EolFails
  \/ LpcStep
  \/ Client

Spec == Init /\ [][Next]_vars

\* The driver's loop goes on and callbacks and LPC code end; and a client
\* that is sent something again and again takes some of it.  Nothing is
\* assumed of other connections: nd_select() does not wait for them.
Fairness ==
  /\ WF_vars(Turn) /\ WF_vars(Input) /\ WF_vars(EolReturn)
  /\ WF_vars(\E r \in SUBSET {"R", "W", "X"} : Select(r, FALSE))
  /\ SF_vars(\E r \in SUBSET {"R", "W", "X"} : "W" \in r /\ Select(r, FALSE))
  /\ SF_vars(outq > 0 /\ \E n \in 1 .. OUTQ_SIZE : telnet_write(n))

FairSpec == Spec /\ Fairness

-----------------------------------------------------------------------------
(* Properties *)

\* No wake-up is lost: between two turns of the session every callback that
\* is disabled is one there is nothing to do for, or one that another
\* callback, which is enabled, will enable.  The callbacks are switched in
\* eight places, each of which knows only its own queue.
NoLostWakeup ==
  pc = "idle" =>
    /\ outq > 0 \/ Has("OVFLOUTQ") => "W" \in nd_mask
    /\ rawq # <<>> \/ "R" \notin nd_mask \/ ~Has("ATTACH") =>
         "C" \in nd_mask \/ (Has("ATTACH") /\ Has("FLOWC") /\ "W" \in nd_mask)
    /\ "X" \notin nd_mask => mark # 0

\* "Send the contents of the canonical queue to the interactive object"
\* (telnet_eol()): a line that LPC code gets is what the player typed since
\* the line before, with the erased characters erased; a line that does
\* not fit the queue arrives empty.
LineIsTyped ==
  [][pc = "input" /\ pc' = "lpc" =>
       line' = IF Len(typed) < CANQ_SIZE THEN typed ELSE <<>>]_vars

\* What telnet_input() has not interpreted yet.
Stream == (IF t_state = "IAC" THEN <<"IAC">> ELSE <<>>) \o rawq \o sock

\* While input is discarded because of a Synch, the Data Mark that ends it
\* is still to come: a session never goes deaf.
SynchEnds ==
  Has("SYNCH") => \E i \in 1 .. Len(Stream) - 1 :
                    Stream[i] = "IAC" /\ Stream[i + 1] = "DM"

\* The session waits between two turns with its clean-up callback enabled.
CleanupDue == pc = "idle" /\ "C" \in nd_mask

\* Input that has been read is not held up for ever by the answers it causes:
\* it is interpreted, or the session ends, or there comes a moment when
\* nothing but a call of the clean-up callback is missing, which flow control
\* disables in telnet_input() and only telnet_write() enables again.
InputResumed ==
  rawq # <<>> ~> (rawq = <<>> \/ pc = "closed" \/ CleanupDue)

\* "If a clean-up callback has been enabled, call it last." (nd_select(),
\* ndesc.c:283): input that has been read is interpreted by the clean-up
\* callback, or the session ends.
InputHandled == rawq # <<>> ~> (rawq = <<>> \/ pc = "closed")

=============================================================================
