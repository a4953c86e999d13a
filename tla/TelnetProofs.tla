---------------------------- MODULE TelnetProofs ----------------------------
(***************************************************************************)
(* What the runs of Telnet check on small queues, for queues of any size,  *)
(* any bytes and any LPC code: the bounds of the queues (TypeOK) and that  *)
(* no callback stays disabled (NoLostWakeup); for clients that keep to the *)
(* protocol, that a Synch ends (SynchEnds); and where neither Synchs nor   *)
(* LPC errors interfere, that lines arrive as typed (LineIsTyped).         *)
(***************************************************************************)
EXTENDS Telnet, SequenceTheorems, FiniteSetTheorems, TLAPS

\* The part of the invariant about output: the write callback is enabled
\* while there is something to write or a notice to come, and whenever the
\* interpretation of input waits for it.
WriteOK(fl, mask, out) ==
  /\ "ENABW" \in fl <=> "W" \notin mask
  /\ out > 0 \/ "OVFLOUTQ" \in fl => "W" \in mask
  /\ "FLOWC" \in fl => "W" \in mask

\* The part about input.
ReadOK(fl, mask, raw) ==
  /\ "R" \notin mask => "ENABR" \in fl
  /\ raw # <<>> \/ "R" \notin mask => "C" \in mask \/ "FLOWC" \in fl
  /\ "ATTACH" \notin fl => "C" \in mask

\* The part about the urgent mark.
MarkOK(fl, mask, rd, mk) ==
  /\ "X" \notin mask => mk # 0 /\ "URGENT" \in fl
  /\ "X" \in rd => mk # 0

Wake ==
  /\ pc # "closed" => /\ WriteOK(t_flags, nd_mask, outq)
                      /\ ReadOK(t_flags, nd_mask, rawq)
                      /\ MarkOK(t_flags, nd_mask, ready, mark)
  /\ pc = "input" => "ATTACH" \in t_flags
  /\ pc = "closed" => /\ t_flags = {"ENABW"} /\ nd_mask = {}
                      /\ outq = 0 /\ rawq = <<>> /\ ready = {}

IInv == TypeOK /\ Wake

-----------------------------------------------------------------------------

\* The sizes are natural numbers and leave the room that is relied on.
LEMMA Sizes ==
  /\ RAWQ_SIZE \in Nat /\ RAWQ_SIZE > 0
  /\ CANQ_SIZE \in Nat /\ CANQ_SIZE > 0
  /\ OPTQ_SIZE \in Nat /\ OPTQ_SIZE > 0
  /\ OUTQ_SIZE \in Nat /\ OUTQ_SIZE > 0
  /\ LOWAT \in Nat /\ LOWAT > 0
  /\ HIWAT \in Nat /\ HIWAT > 0
  /\ REQUIRED \in Nat /\ REQUIRED > 0
  /\ AYT_LEN \in Nat /\ AYT_LEN > 0
  /\ NOTICE_LEN \in Nat /\ NOTICE_LEN > 0
  /\ SOCK_SIZE \in Nat /\ MaxSent \in Nat
  /\ \A n \in Outs : n \in Nat
  /\ AYT_LEN <= REQUIRED /\ 3 <= REQUIRED
  /\ LOWAT <= HIWAT
  /\ HIWAT + REQUIRED <= OUTQ_SIZE
  /\ LOWAT + NOTICE_LEN <= OUTQ_SIZE
BY SMTT(60), SizesAssumption DEF SizesAssumption

\* The states of an option stay what they are supposed to be, whatever the
\* parties say: every operator of TelnetOptions returns a direction.
LEMMA OptionTypes ==
  ASSUME NEW d \in Direction, NEW e \in BOOLEAN
  PROVE  /\ Agree(d, e).dir \in Direction
         /\ Refuse(d).dir \in Direction
         /\ Enable(d).dir \in Direction
         /\ Disable(d).dir \in Direction
<1>1. /\ d.st \in States /\ d.q \in Queues
      /\ d = [st |-> d.st, q |-> d.q]
      /\ d.q = "OPPOSITE" => d.st \in {"WANTNO", "WANTYES"}
  BY DEF Direction
<1>2. \A st \in States, q \in Queues :
        (q = "OPPOSITE" => st \in {"WANTNO", "WANTYES"}) =>
          [st |-> st, q |-> q] \in Direction
  BY DEF Direction
<1>3. Agree(d, e).dir \in Direction
  BY <1>1, <1>2 DEF Agree, Result, Same, States, Queues
<1>4. Refuse(d).dir \in Direction
  BY <1>1, <1>2 DEF Refuse, Result, Same, States, Queues
<1>5. Enable(d).dir \in Direction
  BY <1>1, <1>2 DEF Enable, Result, Same, States, Queues
<1>6. Disable(d).dir \in Direction
  BY <1>1, <1>2 DEF Disable, Result, Same, States, Queues
<1> QED
  BY <1>3, <1>4, <1>5, <1>6

\* The C string in a queue is a prefix of it.
LEMMA CStringType ==
  ASSUME NEW S, NEW q \in Seq(S)
  PROVE  CString(q) \in Seq(S)
<1> DEFINE P == {i \in 1 .. Len(q) : \A j \in 1 .. i : q[j] # "NUL"}
<1>1. Len(q) \in Nat
  BY LenProperties
<1>2. IsFiniteSet(1 .. Len(q)) /\ Cardinality(1 .. Len(q)) = Len(q)
  BY SMTT(60), <1>1, FS_Interval
<1>3. P \subseteq 1 .. Len(q)
  OBVIOUS
<1>4. IsFiniteSet(P) /\ Cardinality(P) <= Len(q)
  BY <1>2, <1>3, FS_Subset
<1>5. Cardinality(P) \in Nat
  BY <1>4, FS_CardinalityType
<1>6. StrLen(q) \in 0 .. Len(q)
  BY <1>1, <1>4, <1>5 DEF StrLen
<1> QED
  BY <1>1, <1>6, SubSeqProperties DEF CString

\* telnet_output() keeps the output queue within its bounds and the write
\* callback enabled, and touches no other flag and no other callback.
LEMMA OutputFacts ==
  ASSUME TypeOK, NEW n \in Outs, NEW k \in 0 .. outq,
         WriteOK(t_flags, nd_mask, outq)
  PROVE  /\ Output(n, k).outq \in 0 .. OUTQ_SIZE
         /\ Output(n, k).fl \subseteq Flags
         /\ Output(n, k).mask \subseteq Callbacks
         /\ WriteOK(Output(n, k).fl, Output(n, k).mask, Output(n, k).outq)
         /\ \A f \in Flags \ {"ENABW", "OVFLOUTQ"} :
              f \in Output(n, k).fl <=> f \in t_flags
         /\ \A c \in Callbacks \ {"W"} :
              c \in Output(n, k).mask <=> c \in nd_mask
<1>1. outq \in Nat /\ outq <= OUTQ_SIZE /\ k \in Nat /\ k <= outq /\ n \in Nat
  BY Sizes DEF TypeOK
<1>2. t_flags \subseteq Flags /\ nd_mask \subseteq Callbacks
  BY DEF TypeOK
<1>3. CASE Has("OVFLOUTQ") \/ n = 0
  BY <1>1, <1>2, <1>3 DEF Output
<1>4. CASE ~(Has("OVFLOUTQ") \/ n = 0)
  <2> DEFINE left == IF outq + n >= HIWAT THEN outq - k ELSE outq
             full == left + n >= HIWAT
             e == Enabw(t_flags, nd_mask)
  <2>1. Output(n, k) = [outq |-> IF full THEN left ELSE left + n,
                        fl |-> IF full THEN e.fl \cup {"OVFLOUTQ"} ELSE e.fl,
                        mask |-> e.mask]
    BY <1>4 DEF Output
  <2>2. left \in Nat /\ left <= outq
    BY <1>1, Sizes
  <2>3. (IF full THEN left ELSE left + n) \in 0 .. OUTQ_SIZE
    BY <1>1, <2>2, Sizes
  <2>4. /\ e.fl = t_flags \ {"ENABW"}
        /\ e.mask = nd_mask \cup {"W"}
    BY DEF Enabw, Enabled, WriteOK
  <2> HIDE DEF left, full, e
  <2> QED
    BY <1>2, <2>1, <2>3, <2>4 DEF WriteOK, Flags, Callbacks
<1> QED
  BY <1>3, <1>4

\* remove_interactive() keeps the output queue within its bounds and leaves
\* the clean-up callback enabled.
LEMMA RemovedFacts ==
  ASSUME IInv, pc # "closed", NEW n \in Outs, NEW k \in 0 .. outq, Removed(n, k)
  PROVE  /\ outq' \in 0 .. OUTQ_SIZE
         /\ t_flags' \subseteq Flags
         /\ nd_mask' \subseteq Callbacks
         /\ WriteOK(t_flags', nd_mask', outq')
         /\ ReadOK(t_flags', nd_mask', rawq)
         /\ MarkOK(t_flags', nd_mask', ready, mark)
<1> DEFINE o == Output(n, k)
<1>1. /\ WriteOK(t_flags, nd_mask, outq)
      /\ ReadOK(t_flags, nd_mask, rawq)
      /\ MarkOK(t_flags, nd_mask, ready, mark)
  BY DEF IInv, Wake
<1>2. /\ o.outq \in 0 .. OUTQ_SIZE
      /\ o.fl \subseteq Flags
      /\ o.mask \subseteq Callbacks
      /\ WriteOK(o.fl, o.mask, o.outq)
      /\ \A f \in Flags \ {"ENABW", "OVFLOUTQ"} : f \in o.fl <=> f \in t_flags
      /\ \A c \in Callbacks \ {"W"} : c \in o.mask <=> c \in nd_mask
  BY <1>1, OutputFacts DEF IInv
<1>3. /\ outq' = o.outq
      /\ t_flags' = o.fl \ {"ATTACH"}
      /\ nd_mask' = o.mask \cup {"C"}
  BY DEF Removed
<1> HIDE DEF o
<1> QED
  BY <1>1, <1>2, <1>3 DEF WriteOK, ReadOK, MarkOK, Flags, Callbacks

LEMMA DisconnectedFacts ==
  ASSUME IInv, pc # "closed", Disconnected
  PROVE  /\ outq' \in 0 .. OUTQ_SIZE
         /\ t_flags' \subseteq Flags
         /\ nd_mask' \subseteq Callbacks
         /\ WriteOK(t_flags', nd_mask', outq')
         /\ ReadOK(t_flags', nd_mask', rawq)
         /\ MarkOK(t_flags', nd_mask', ready, mark)
<1>1. CASE \E n \in Outs, k \in 0 .. outq : Removed(n, k)
  BY <1>1, RemovedFacts
<1>2. CASE UNCHANGED <<outq, t_flags, nd_mask>>
  BY <1>2 DEF IInv, TypeOK, Wake
<1> QED
  BY <1>1, <1>2 DEF Disconnected

\* The loop of telnet_input() takes a byte only when the longest answer fits.
LEMMA NextByteFacts ==
  ASSUME TypeOK, NextByte
  PROVE  /\ pc = "input" /\ rawq # <<>>
         /\ b \in Bytes
         /\ rawq' \in Seq(Bytes) /\ Len(rawq') <= RAWQ_SIZE
         /\ outq \in Nat /\ outq + REQUIRED <= OUTQ_SIZE
<1>1. rawq \in Seq(Bytes) /\ Len(rawq) <= RAWQ_SIZE /\ rawq # <<>>
  BY DEF TypeOK, NextByte
<1>2. /\ Head(rawq) \in Bytes
      /\ Tail(rawq) \in Seq(Bytes)
      /\ Len(Tail(rawq)) = Len(rawq) - 1
      /\ Len(rawq) \in Nat
  BY <1>1, HeadTailProperties, LenProperties
<1>3. outq \in Nat /\ outq + REQUIRED <= OUTQ_SIZE
  BY Sizes DEF TypeOK, NextByte, avail
<1> QED
  BY <1>1, <1>2, <1>3, Sizes DEF NextByte, b

-----------------------------------------------------------------------------
(* Every action keeps the invariant. *)

LEMMA InitInv == Init => IInv
<1> SUFFICES ASSUME Init PROVE IInv
  OBVIOUS
<1>1. \A S : <<>> \in Seq(S) /\ Len(<<>>) = 0
  BY EmptySeq
<1>2. Off \in Direction
  BY DEF Off, Direction, States, Queues
<1>3. TypeOK
  <2>1. t_optb \in [Known -> [us : Direction, him : Direction]]
    BY <1>2 DEF Init, NoOptions
  <2>2. /\ rawq \in Seq(Bytes) /\ Len(rawq) <= RAWQ_SIZE
        /\ canq \in Seq(Bytes \cup {"NUL"}) /\ Len(canq) <= CANQ_SIZE
        /\ line \in Seq(Bytes \cup {"NUL"})
        /\ sock \in Seq(Bytes) /\ typed \in Seq(Bytes)
        /\ mark \in 0 .. Len(sock)
    BY <1>1, Sizes DEF Init
  <2>3. /\ t_flags \subseteq Flags /\ t_state \in InputStates
        /\ nd_mask \subseteq Callbacks /\ ready \subseteq {"R", "W", "X"}
        /\ pc \in Phases /\ eof \in BOOLEAN
    BY DEF Init, Flags, InputStates, Phases
  <2>4. /\ optq \in 0 .. OPTQ_SIZE /\ outq \in 0 .. OUTQ_SIZE
        /\ count \in 0 .. MaxSent
    BY Sizes DEF Init
  <2> QED
    BY <2>1, <2>2, <2>3, <2>4 DEF TypeOK
<1>4. Wake
  BY DEF Init, Wake
<1> QED
  BY <1>3, <1>4 DEF IInv

LEMMA AcceptKeeps ==
  ASSUME IInv, NEW n \in Outs, telnet_accept(n)
  PROVE  IInv'
<1> DEFINE o == Output(n, 0)
<1>1. /\ pc = "closed" /\ outq = 0 /\ rawq = <<>> /\ ready = {}
      /\ t_flags = {"ENABW"} /\ nd_mask = {}
  BY DEF IInv, Wake, telnet_accept
<1>2. WriteOK(t_flags, nd_mask, outq)
  BY <1>1 DEF WriteOK
<1>3. 0 \in 0 .. outq
  BY <1>1
<1>4. /\ o.outq \in 0 .. OUTQ_SIZE
      /\ o.fl \subseteq Flags
      /\ o.mask \subseteq Callbacks
      /\ WriteOK(o.fl, o.mask, o.outq)
      /\ \A f \in Flags \ {"ENABW", "OVFLOUTQ"} : f \in o.fl <=> f \in t_flags
      /\ \A c \in Callbacks \ {"W"} : c \in o.mask <=> c \in nd_mask
  BY <1>2, <1>3, OutputFacts DEF IInv
<1>5. /\ pc' = "idle" /\ outq' = o.outq
      /\ t_flags' = o.fl \cup {"ATTACH"}
      /\ nd_mask' = o.mask \cup {"R", "X", "C"}
      /\ UNCHANGED <<t_state, t_optb, rawq, canq, optq, ready, line, sock, mark,
                     eof, count, typed>>
  BY DEF telnet_accept, net
<1> HIDE DEF o
<1>6. TypeOK'
  BY <1>4, <1>5 DEF IInv, TypeOK, Flags, Callbacks, Phases
<1>7. Wake'
  BY <1>1, <1>4, <1>5 DEF Wake, WriteOK, ReadOK, MarkOK, Flags, Callbacks
<1> QED
  BY <1>6, <1>7 DEF IInv

LEMMA ShutdownKeeps ==
  ASSUME telnet_shutdown
  PROVE  IInv'
<1>1. Init'
  BY DEF telnet_shutdown, Init
<1>2. Init' => IInv'
  BY InitInv, PTL
<1> QED
  BY <1>1, <1>2

\* LPC code.
LEMMA LpcKeeps ==
  ASSUME IInv, LpcStep
  PROVE  IInv'
<1>1. ASSUME NEW n \in Outs, NEW k \in 0 .. OUTQ_SIZE, Write_(n, k)
      PROVE  IInv'
  <2> DEFINE o == Output(n, k)
  <2>1. /\ pc \in {"idle", "turn", "lpc"} /\ "ATTACH" \in t_flags
        /\ k <= outq
        /\ outq' = o.outq /\ t_flags' = o.fl /\ nd_mask' = o.mask
        /\ UNCHANGED <<t_state, t_optb, rawq, canq, optq, ready, pc, line, sock,
                       mark, eof, count, typed>>
    BY <1>1 DEF Write_, InLpc, Has, net
  <2>2. /\ WriteOK(t_flags, nd_mask, outq)
        /\ ReadOK(t_flags, nd_mask, rawq)
        /\ MarkOK(t_flags, nd_mask, ready, mark)
    BY <2>1 DEF IInv, Wake
  <2>3. k \in 0 .. outq
    BY <2>1 DEF IInv, TypeOK
  <2>4. /\ o.outq \in 0 .. OUTQ_SIZE
        /\ o.fl \subseteq Flags
        /\ o.mask \subseteq Callbacks
        /\ WriteOK(o.fl, o.mask, o.outq)
        /\ \A f \in Flags \ {"ENABW", "OVFLOUTQ"} : f \in o.fl <=> f \in t_flags
        /\ \A c \in Callbacks \ {"W"} : c \in o.mask <=> c \in nd_mask
    BY <2>2, <2>3, OutputFacts DEF IInv
  <2> HIDE DEF o
  <2>5. TypeOK'
    BY <2>1, <2>4 DEF IInv, TypeOK
  <2>6. Wake'
    BY <2>1, <2>2, <2>4 DEF Wake, ReadOK, MarkOK, Flags, Callbacks
  <2> QED
    BY <2>5, <2>6 DEF IInv
<1>2. ASSUME Quit
      PROVE  IInv'
  <2>1. PICK n \in Outs, k \in 0 .. outq : Removed(n, k)
    BY <1>2 DEF Quit
  <2>2. /\ pc \in {"idle", "turn", "lpc"}
        /\ UNCHANGED <<t_state, t_optb, rawq, canq, optq, ready, pc, line, sock,
                       mark, eof, count, typed>>
    BY <1>2 DEF Quit, InLpc, net
  <2>3. /\ outq' \in 0 .. OUTQ_SIZE
        /\ t_flags' \subseteq Flags
        /\ nd_mask' \subseteq Callbacks
        /\ WriteOK(t_flags', nd_mask', outq')
        /\ ReadOK(t_flags', nd_mask', rawq)
        /\ MarkOK(t_flags', nd_mask', ready, mark)
    BY <2>1, <2>2, RemovedFacts
  <2>4. TypeOK'
    BY <2>2, <2>3 DEF IInv, TypeOK
  <2>5. Wake'
    BY <2>2, <2>3 DEF Wake
  <2> QED
    BY <2>4, <2>5 DEF IInv
<1>3. ASSUME NEW on \in BOOLEAN, Echo(on)
      PROVE  IInv'
  <2> DEFINE d == t_optb["ECHO"].us
             e == IF on THEN Enable(d) ELSE Disable(d)
  <2>1. /\ e.dir \in Direction
        /\ t_optb' = [t_optb EXCEPT !["ECHO"].us = e.dir]
        /\ IF e.sent = "nothing" THEN UNCHANGED <<outq, t_flags, nd_mask>>
                                 ELSE Put(3)
    <3>1. d \in Direction
      BY DEF IInv, TypeOK, Known
    <3>2. Enable(d).dir \in Direction /\ Disable(d).dir \in Direction
      BY <3>1, OptionTypes
    <3> QED
      BY <1>3, <3>2 DEF Echo
  <2> HIDE DEF e
  <2>2. /\ pc \in {"idle", "turn", "lpc"} /\ "ATTACH" \in t_flags
        /\ OUTQ_SIZE - outq >= 3
        /\ UNCHANGED <<t_state, rawq, canq, optq, ready, pc, line, sock,
                       mark, eof, count, typed>>
    BY <1>3 DEF Echo, InLpc, Has, net, avail
  <2>3. t_optb' \in [Known -> [us : Direction, him : Direction]]
    BY <2>1 DEF IInv, TypeOK, Known
  <2>4. /\ WriteOK(t_flags, nd_mask, outq)
        /\ ReadOK(t_flags, nd_mask, rawq)
        /\ MarkOK(t_flags, nd_mask, ready, mark)
    BY <2>2 DEF IInv, Wake
  <2>5. \/ UNCHANGED <<outq, t_flags, nd_mask>>
        \/ /\ outq' = outq + 3
           /\ t_flags' = t_flags \ {"ENABW"}
           /\ nd_mask' = nd_mask \cup {"W"}
    BY <2>1, <2>4 DEF Put, Enabw, Enabled, WriteOK
  <2>6. TypeOK'
    <3>1. /\ outq' \in 0 .. OUTQ_SIZE
          /\ t_flags' \subseteq Flags /\ nd_mask' \subseteq Callbacks
      <4>1. outq' \in 0 .. OUTQ_SIZE
        <5>1. outq \in Nat /\ outq <= OUTQ_SIZE
          BY Sizes DEF IInv, TypeOK
        <5>2. outq' = outq \/ outq' = outq + 3
          BY <2>5
        <5> HIDE DEF d
        <5> QED
          BY <5>1, <5>2, <2>2, Sizes
      <4>2. t_flags' \subseteq Flags /\ nd_mask' \subseteq Callbacks
        BY <2>5 DEF IInv, TypeOK, Callbacks
      <4> QED
        BY <4>1, <4>2
    <3>2. /\ rawq' \in Seq(Bytes) /\ Len(rawq') <= RAWQ_SIZE
          /\ canq' \in Seq(Bytes \cup {"NUL"}) /\ Len(canq') <= CANQ_SIZE
          /\ line' \in Seq(Bytes \cup {"NUL"})
          /\ sock' \in Seq(Bytes) /\ typed' \in Seq(Bytes)
          /\ mark' \in 0 .. Len(sock')
      BY <2>2 DEF IInv, TypeOK
    <3>3. /\ t_state' \in InputStates /\ optq' \in 0 .. OPTQ_SIZE
          /\ ready' \subseteq {"R", "W", "X"}
          /\ pc' \in Phases /\ eof' \in BOOLEAN /\ count' \in 0 .. MaxSent
      BY <2>2 DEF IInv, TypeOK
    <3> HIDE DEF d
    <3> QED
      BY <2>3, <3>1, <3>2, <3>3 DEF TypeOK
  <2>7. Wake'
    BY <2>2, <2>4, <2>5 DEF Wake, WriteOK, ReadOK, MarkOK
  <2> QED
    BY <2>6, <2>7 DEF IInv
<1> QED
  BY <1>1, <1>2, <1>3 DEF LpcStep

-----------------------------------------------------------------------------
(* The callbacks *)

LEMMA SelectKeeps ==
  ASSUME IInv, NEW r \in SUBSET {"R", "W", "X"}, NEW others \in BOOLEAN,
         Select(r, others)
  PROVE  IInv'
<1>1. /\ pc = "idle" /\ pc' = "turn" /\ ready' = r
      /\ "X" \in r => mark # 0
      /\ UNCHANGED <<t_flags, t_state, t_optb, rawq, canq, optq, outq, nd_mask,
                     line, sock, mark, eof, count, typed>>
  BY DEF Select, queues, net
<1>2. TypeOK'
  BY <1>1 DEF IInv, TypeOK, Phases
<1>3. Wake'
  BY <1>1 DEF IInv, Wake, WriteOK, ReadOK, MarkOK
<1> QED
  BY <1>2, <1>3 DEF IInv

\* During a turn the connection is open.
LEMMA OpenFacts ==
  ASSUME IInv, pc # "closed"
  PROVE  /\ TypeOK
         /\ WriteOK(t_flags, nd_mask, outq)
         /\ ReadOK(t_flags, nd_mask, rawq)
         /\ MarkOK(t_flags, nd_mask, ready, mark)
BY DEF IInv, Wake

LEMMA ExceptionKeeps ==
  ASSUME IInv, telnet_exception
  PROVE  IInv'
<1>1. /\ pc \in {"turn", "callbacks"} /\ "X" \in ready
      /\ t_flags' = t_flags \cup {"SYNCH", "URGENT"}
      /\ canq' = <<>> /\ typed' = <<>>
      /\ nd_mask' = nd_mask \ {"X"} /\ ready' = ready \ {"X"}
      /\ pc' = "callbacks"
      /\ UNCHANGED <<t_state, t_optb, rawq, optq, outq, line, sock, mark, eof,
                     count>>
  BY DEF telnet_exception, InTurn, net
<1>2. /\ TypeOK
      /\ WriteOK(t_flags, nd_mask, outq)
      /\ ReadOK(t_flags, nd_mask, rawq)
      /\ MarkOK(t_flags, nd_mask, ready, mark)
  BY <1>1, OpenFacts
<1>3. TypeOK'
  <2>1. \A S : <<>> \in Seq(S) /\ Len(<<>>) = 0
    BY EmptySeq
  <2>2. canq' \in Seq(Bytes \cup {"NUL"}) /\ Len(canq') <= CANQ_SIZE
        /\ typed' \in Seq(Bytes)
    BY <1>1, <2>1, Sizes
  <2>3. t_flags' \subseteq Flags /\ nd_mask' \subseteq Callbacks
        /\ ready' \subseteq {"R", "W", "X"} /\ pc' \in Phases
    BY <1>1, <1>2 DEF TypeOK, Flags, Phases
  <2> QED
    BY <1>1, <1>2, <2>2, <2>3 DEF TypeOK
<1>4. Wake'
  BY <1>1, <1>2 DEF Wake, WriteOK, ReadOK, MarkOK
<1> QED
  BY <1>3, <1>4 DEF IInv

\* When telnet_write() has written, the write callback is disabled only if
\* no notice and no flow control waits for it.
LEMMA WrittenFacts ==
  ASSUME IInv, pc # "closed", NEW left \in 0 .. outq
  PROVE  /\ Written(left).outq \in 0 .. OUTQ_SIZE
         /\ Written(left).fl \subseteq Flags
         /\ Written(left).mask \subseteq Callbacks
         /\ WriteOK(Written(left).fl, Written(left).mask, Written(left).outq)
         /\ ReadOK(Written(left).fl, Written(left).mask, rawq)
         /\ MarkOK(Written(left).fl, Written(left).mask, ready, mark)
<1> DEFINE notice == Has("OVFLOUTQ") /\ left < LOWAT
           len == IF notice THEN left + NOTICE_LEN ELSE left
           resume == Has("FLOWC") /\ len < HIWAT
           fl == (t_flags \ (IF notice THEN {"OVFLOUTQ"} ELSE {}))
                     \ (IF resume THEN {"FLOWC"} ELSE {})
           mask == IF resume THEN nd_mask \cup {"C"} ELSE nd_mask
<1>1. /\ TypeOK
      /\ WriteOK(t_flags, nd_mask, outq)
      /\ ReadOK(t_flags, nd_mask, rawq)
      /\ MarkOK(t_flags, nd_mask, ready, mark)
  BY OpenFacts
<1>2. /\ Written(left).outq = len
      /\ Written(left).fl = IF len = 0 THEN fl \cup {"ENABW"} ELSE fl
      /\ Written(left).mask = IF len = 0 THEN mask \ {"W"} ELSE mask
  BY DEF Written
<1>3. outq \in Nat /\ outq <= OUTQ_SIZE /\ left \in Nat /\ left <= outq
  BY <1>1, Sizes DEF TypeOK
<1>4. len \in Nat /\ len <= OUTQ_SIZE
  BY <1>3, Sizes
<1>5. len = 0 => /\ ~("OVFLOUTQ" \in t_flags)
                 /\ resume <=> "FLOWC" \in t_flags
  BY <1>3, Sizes DEF Has
<1>6. len > 0 => outq > 0 \/ "OVFLOUTQ" \in t_flags
  BY <1>3, Sizes DEF Has
<1>7. /\ fl \subseteq t_flags
      /\ \A f \in Flags \ {"OVFLOUTQ", "FLOWC"} : f \in fl <=> f \in t_flags
      /\ "OVFLOUTQ" \in fl => "OVFLOUTQ" \in t_flags
      /\ "FLOWC" \in fl <=> "FLOWC" \in t_flags /\ ~resume
  BY DEF Flags
<1>8. /\ nd_mask \subseteq mask /\ mask \subseteq nd_mask \cup {"C"}
      /\ resume => "C" \in mask
  OBVIOUS
<1>9. resume => "FLOWC" \in t_flags
  BY DEF Has
<1> HIDE DEF notice, len, resume, fl, mask
<1>10. Written(left).outq \in 0 .. OUTQ_SIZE
  BY <1>2, <1>4, Sizes
<1>11. Written(left).fl \subseteq Flags /\ Written(left).mask \subseteq Callbacks
  BY <1>1, <1>2, <1>7, <1>8 DEF TypeOK, Flags, Callbacks
<1>12. ReadOK(Written(left).fl, Written(left).mask, rawq)
  BY <1>1, <1>2, <1>7, <1>8, <1>9 DEF ReadOK, Flags
<1>13. MarkOK(Written(left).fl, Written(left).mask, ready, mark)
  BY <1>1, <1>2, <1>7, <1>8 DEF MarkOK, Flags
<1>14. WriteOK(Written(left).fl, Written(left).mask, Written(left).outq)
  <2>1. CASE len = 0
    BY <1>2, <1>5, <1>7, <2>1 DEF WriteOK
  <2>2. CASE len # 0
    <3>1. /\ Written(left).fl = fl /\ Written(left).mask = mask
          /\ len > 0
      BY <1>2, <1>4, <2>2
    <3>2. "W" \in nd_mask
      BY <1>1, <1>6, <3>1 DEF WriteOK
    <3> QED
      BY <1>1, <1>7, <1>8, <3>1, <3>2 DEF WriteOK, Flags
  <2> QED
    BY <2>1, <2>2
<1> QED
  BY <1>10, <1>11, <1>12, <1>13, <1>14

LEMMA WriteKeeps ==
  ASSUME IInv, NEW n \in 0 .. OUTQ_SIZE, telnet_write(n)
  PROVE  IInv'
<1> DEFINE w == Written(outq - n)
<1>1. /\ pc \in {"turn", "callbacks"} /\ n <= outq
      /\ outq' = w.outq /\ t_flags' = w.fl /\ nd_mask' = w.mask
      /\ ready' = ready \ {"W"} /\ pc' = "callbacks"
      /\ UNCHANGED <<t_state, t_optb, rawq, canq, optq, line, sock, mark, eof,
                     count, typed>>
  BY DEF telnet_write, InTurn, net
<1>2. outq - n \in 0 .. outq
  BY <1>1, Sizes DEF IInv, TypeOK
<1>3. /\ w.outq \in 0 .. OUTQ_SIZE
      /\ w.fl \subseteq Flags
      /\ w.mask \subseteq Callbacks
      /\ WriteOK(w.fl, w.mask, w.outq)
      /\ ReadOK(w.fl, w.mask, rawq)
      /\ MarkOK(w.fl, w.mask, ready, mark)
  BY <1>1, <1>2, WrittenFacts
<1> HIDE DEF w
<1>4. TypeOK'
  BY <1>1, <1>3 DEF IInv, TypeOK, Phases
<1>5. Wake'
  BY <1>1, <1>3 DEF Wake, MarkOK
<1> QED
  BY <1>4, <1>5 DEF IInv

\* A callback that fails disconnects the session.
LEMMA FailsKeeps ==
  ASSUME IInv, WriteFails \/ ReadFails
  PROVE  IInv'
<1>1. /\ pc \in {"turn", "callbacks"} /\ Disconnected
      /\ ready' \subseteq ready /\ pc' = "callbacks"
      /\ UNCHANGED <<t_state, t_optb, rawq, canq, optq, line, sock, mark, eof,
                     count, typed>>
  BY DEF WriteFails, ReadFails, InTurn, net
<1>2. /\ outq' \in 0 .. OUTQ_SIZE
      /\ t_flags' \subseteq Flags
      /\ nd_mask' \subseteq Callbacks
      /\ WriteOK(t_flags', nd_mask', outq')
      /\ ReadOK(t_flags', nd_mask', rawq)
      /\ MarkOK(t_flags', nd_mask', ready, mark)
  BY <1>1, DisconnectedFacts
<1>3. TypeOK'
  BY <1>1, <1>2 DEF IInv, TypeOK, Phases
<1>4. Wake'
  BY <1>1, <1>2 DEF Wake, MarkOK
<1> QED
  BY <1>3, <1>4 DEF IInv

\* telnet_read() stops at the mark, and while the exception callback is
\* disabled it does not read past it.
LEMMA ReadKeeps ==
  ASSUME IInv, NEW n \in 0 .. RAWQ_SIZE, telnet_read(n)
  PROVE  IInv'
<1> DEFINE atMark == Has("URGENT") /\ mark = 1
           fl == IF atMark THEN t_flags \ {"URGENT"} ELSE t_flags
           mask == (IF atMark THEN nd_mask \cup {"X"} ELSE nd_mask)
                     \cup (IF Has("FLOWC") THEN {} ELSE {"C"})
           e == Enabr(fl, mask)
           full == Len(rawq) + n = RAWQ_SIZE
<1>1. /\ pc \in {"turn", "callbacks"}
      /\ n <= Receivable /\ n <= RAWQ_SIZE - Len(rawq)
      /\ rawq' = rawq \o SubSeq(sock, 1, n)
      /\ sock' = SubSeq(sock, n + 1, Len(sock))
      /\ mark' = IF n >= mark THEN 0 ELSE mark - n
      /\ ready' = {} /\ pc' = "callbacks"
      /\ UNCHANGED <<t_state, t_optb, canq, optq, outq, line, eof, count, typed>>
  BY DEF telnet_read, InTurn
<1>2. /\ t_flags' = IF full THEN e.fl \cup {"ENABR"} ELSE e.fl
      /\ nd_mask' = IF full THEN e.mask \ {"R"} ELSE e.mask
  BY DEF telnet_read
<1>3. /\ TypeOK
      /\ WriteOK(t_flags, nd_mask, outq)
      /\ ReadOK(t_flags, nd_mask, rawq)
      /\ MarkOK(t_flags, nd_mask, ready, mark)
  BY <1>1, OpenFacts
<1>4. /\ rawq \in Seq(Bytes) /\ Len(rawq) \in Nat /\ Len(rawq) <= RAWQ_SIZE
      /\ sock \in Seq(Bytes) /\ Len(sock) \in Nat
      /\ mark \in Nat /\ mark <= Len(sock) /\ n \in Nat
  BY <1>3, LenProperties DEF TypeOK
<1>5. n <= Len(sock)
  BY <1>1, <1>4 DEF Receivable
<1>6. /\ rawq' \in Seq(Bytes) /\ Len(rawq') <= RAWQ_SIZE
      /\ sock' \in Seq(Bytes) /\ mark' \in 0 .. Len(sock')
  <2>1. SubSeq(sock, 1, n) \in Seq(Bytes) /\ Len(SubSeq(sock, 1, n)) = n
    BY <1>4, <1>5, SubSeqProperties
  <2>2. rawq' \in Seq(Bytes) /\ Len(rawq') = Len(rawq) + n
    BY <1>1, <1>4, <2>1, ConcatProperties
  <2>3. sock' \in Seq(Bytes) /\ Len(sock') = Len(sock) - n
    BY <1>1, <1>4, <1>5, SubSeqProperties
  <2>4. mark' \in 0 .. Len(sock')
    BY <1>1, <1>4, <1>5, <2>3
  <2> QED
    BY <1>1, <1>4, <2>2, <2>3, <2>4, Sizes
<1>7. /\ \A f \in Flags \ {"URGENT", "ENABR"} : f \in e.fl <=> f \in t_flags
      /\ "URGENT" \in e.fl <=> "URGENT" \in t_flags /\ ~atMark
      /\ e.fl \subseteq Flags
      /\ \A c \in Callbacks \ {"R", "C", "X"} : c \in e.mask <=> c \in nd_mask
      /\ nd_mask \subseteq e.mask /\ e.mask \subseteq Callbacks
      /\ "R" \in e.mask
      /\ "C" \in e.mask \/ "FLOWC" \in t_flags
      /\ atMark => "X" \in e.mask
  BY <1>3 DEF TypeOK, ReadOK, Enabr, Enabled, Flags, Callbacks, Has
<1>8. "X" \in e.mask \/ (mark' # 0 /\ "URGENT" \in e.fl)
  <2> SUFFICES ASSUME "X" \notin e.mask PROVE mark' # 0 /\ "URGENT" \in e.fl
    OBVIOUS
  <2>1. mark # 0 /\ "URGENT" \in t_flags /\ ~atMark
    BY <1>3, <1>7 DEF MarkOK
  <2>2. mark > 1
    BY <1>4, <2>1 DEF Has
  <2>3. n < mark
    BY <1>1, <1>4, <2>2 DEF Receivable
  <2>4. mark' # 0
    BY <1>1, <1>4, <2>3
  <2> HIDE DEF e, atMark
  <2> QED
    BY <1>7, <2>1, <2>4
<1> HIDE DEF atMark, fl, mask, e, full
<1>9. TypeOK'
  <2>1. t_flags' \subseteq Flags /\ nd_mask' \subseteq Callbacks
    BY <1>2, <1>7 DEF Flags
  <2> QED
    BY <1>1, <1>3, <1>6, <2>1 DEF TypeOK, Phases
<1>10. Wake'
  <2>1. WriteOK(t_flags', nd_mask', outq)
    BY <1>2, <1>3, <1>7 DEF WriteOK, Flags, Callbacks
  <2>2. ReadOK(t_flags', nd_mask', rawq')
    BY <1>2, <1>3, <1>7 DEF ReadOK, Flags, Callbacks
  <2>3. MarkOK(t_flags', nd_mask', ready', mark')
    BY <1>1, <1>2, <1>8 DEF MarkOK
  <2> QED
    BY <1>1, <2>1, <2>2, <2>3 DEF Wake
<1> QED
  BY <1>9, <1>10 DEF IInv

LEMMA CleanupKeeps ==
  ASSUME IInv, Cleanup
  PROVE  IInv'
<1>1. CASE telnet_shutdown
  BY <1>1, ShutdownKeeps
<1>2. CASE ~telnet_shutdown
  <2>1. /\ pc \in {"turn", "callbacks"}
        /\ pc' = "idle" \/ (pc' = "input" /\ "ATTACH" \in t_flags)
        /\ UNCHANGED <<t_flags, t_state, t_optb, rawq, canq, optq, outq,
                       nd_mask, ready, line, sock, mark, eof, count, typed>>
    BY <1>2 DEF Cleanup, InTurn, Has, queues, net
  <2>2. TypeOK'
    BY <2>1 DEF IInv, TypeOK, Phases
  <2>3. Wake'
    BY <2>1 DEF IInv, Wake, WriteOK, ReadOK, MarkOK
  <2> QED
    BY <2>2, <2>3 DEF IInv
<1> QED
  BY <1>1, <1>2

LEMMA TurnKeeps ==
  ASSUME IInv, Turn
  PROVE  IInv'
BY ExceptionKeeps, WriteKeeps, FailsKeeps, ReadKeeps, CleanupKeeps DEF Turn

-----------------------------------------------------------------------------
(* The client *)

LEMMA ClientKeeps ==
  ASSUME IInv, Client
  PROVE  IInv'
<1>1. sock \in Seq(Bytes) /\ Len(sock) \in Nat /\ mark \in 0 .. Len(sock)
      /\ count \in 0 .. MaxSent
  BY LenProperties DEF IInv, TypeOK
<1>2. /\ pc # "closed"
      /\ UNCHANGED <<t_flags, t_state, t_optb, rawq, canq, optq, outq, nd_mask,
                     ready, pc, line, typed>>
  BY DEF Client, Send, Synch, Close, queues
<1>3. /\ sock' \in Seq(Bytes) /\ mark' \in 0 .. Len(sock')
      /\ eof' \in BOOLEAN /\ count' \in 0 .. MaxSent
      /\ mark # 0 => mark' # 0
  <2>1. ASSUME NEW m \in Messages, Send(m)
        PROVE  /\ sock' \in Seq(Bytes) /\ mark' \in 0 .. Len(sock')
               /\ eof' \in BOOLEAN /\ count' \in 0 .. MaxSent
               /\ mark # 0 => mark' # 0
    <3>1. m \in Seq(Bytes) /\ Len(m) \in Nat
      BY SizesAssumption, LenProperties DEF SizesAssumption
    <3>2. sock' = sock \o m /\ mark' = mark /\ eof' = eof /\ count < MaxSent
          /\ count' = count + 1
      BY <2>1 DEF Send
    <3>3. sock' \in Seq(Bytes) /\ Len(sock') = Len(sock) + Len(m)
      BY <1>1, <3>1, <3>2, ConcatProperties
    <3>4. count' \in 0 .. MaxSent
      BY <1>1, <3>2, Sizes
    <3>5. eof' \in BOOLEAN
      BY <3>2 DEF IInv, TypeOK
    <3> QED
      BY <1>1, <3>1, <3>2, <3>3, <3>4, <3>5
  <2>2. ASSUME Synch
        PROVE  /\ sock' \in Seq(Bytes) /\ mark' \in 0 .. Len(sock')
               /\ eof' \in BOOLEAN /\ count' \in 0 .. MaxSent
               /\ mark # 0 => mark' # 0
    <3>1. sock' = sock \o <<"IAC", "DM">> /\ mark' = Len(sock) + 2
          /\ eof' = eof /\ count < MaxSent /\ count' = count + 1
      BY <2>2 DEF Synch
    <3>2. <<"IAC", "DM">> \in Seq(Bytes) /\ Len(<<"IAC", "DM">>) = 2
      BY <2>2, SizesAssumption DEF SizesAssumption, Synch
    <3>3. sock' \in Seq(Bytes) /\ Len(sock') = Len(sock) + 2
      BY <1>1, <3>1, <3>2, ConcatProperties
    <3>4. count' \in 0 .. MaxSent
      BY <1>1, <3>1, Sizes
    <3>5. eof' \in BOOLEAN
      BY <3>1 DEF IInv, TypeOK
    <3> QED
      BY <1>1, <3>1, <3>3, <3>4, <3>5
  <2>3. ASSUME Close
        PROVE  /\ sock' \in Seq(Bytes) /\ mark' \in 0 .. Len(sock')
               /\ eof' \in BOOLEAN /\ count' \in 0 .. MaxSent
               /\ mark # 0 => mark' # 0
    BY <1>1, <2>3 DEF Close
  <2> QED
    BY <2>1, <2>2, <2>3 DEF Client
<1>4. TypeOK'
  BY <1>2, <1>3 DEF IInv, TypeOK
<1>5. Wake'
  BY <1>2, <1>3 DEF IInv, Wake, WriteOK, ReadOK, MarkOK
<1> QED
  BY <1>4, <1>5 DEF IInv

-----------------------------------------------------------------------------
(* telnet_input() *)

\* What a step of the loop has to show: the types of what it changes, that
\* the write callback is right, and that it leaves the flags and the
\* callbacks of the other queues alone.
LEMMA ByteKeeps ==
  ASSUME IInv, NextByte,
         UNCHANGED <<ready, sock, mark, eof, count>>,
         pc' \in {"input", "idle", "lpc"},
         t_state' \in InputStates,
         t_optb' \in [Known -> [us : Direction, him : Direction]],
         canq' \in Seq(Bytes \cup {"NUL"}), Len(canq') <= CANQ_SIZE,
         optq' \in 0 .. OPTQ_SIZE,
         line' \in Seq(Bytes \cup {"NUL"}),
         typed' \in Seq(Bytes),
         outq' \in 0 .. OUTQ_SIZE,
         t_flags' \subseteq Flags,
         nd_mask' \subseteq Callbacks,
         WriteOK(t_flags', nd_mask', outq'),
         \A f \in {"ATTACH", "ENABR", "FLOWC", "URGENT"} :
           f \in t_flags' <=> f \in t_flags,
         \A c \in {"R", "X", "C"} : c \in nd_mask' <=> c \in nd_mask
  PROVE  IInv'
<1>1. /\ pc = "input" /\ rawq # <<>>
      /\ rawq' \in Seq(Bytes) /\ Len(rawq') <= RAWQ_SIZE
  BY NextByteFacts DEF IInv
<1>2. /\ ReadOK(t_flags, nd_mask, rawq)
      /\ MarkOK(t_flags, nd_mask, ready, mark)
      /\ "ATTACH" \in t_flags
  BY <1>1 DEF IInv, Wake
<1>3. TypeOK'
  <2>1. /\ sock' \in Seq(Bytes) /\ mark' \in 0 .. Len(sock')
        /\ ready' \subseteq {"R", "W", "X"} /\ pc' \in Phases
        /\ eof' \in BOOLEAN /\ count' \in 0 .. MaxSent
    BY DEF IInv, TypeOK, Phases
  <2> QED
    BY <1>1, <2>1 DEF TypeOK
<1>4. Wake'
  <2>1. "C" \in nd_mask \/ "FLOWC" \in t_flags
    BY <1>1, <1>2 DEF ReadOK
  <2>2. ReadOK(t_flags', nd_mask', rawq')
    BY <1>2, <2>1 DEF ReadOK
  <2>3. MarkOK(t_flags', nd_mask', ready', mark')
    BY <1>2 DEF MarkOK
  <2> QED
    BY <1>2, <2>2, <2>3 DEF Wake
<1> QED
  BY <1>3, <1>4 DEF IInv

\* An answer within the room that was checked.
LEMMA AnswerFacts ==
  ASSUME IInv, NextByte, NEW n \in 1 .. REQUIRED, NEW fl \in SUBSET Flags,
         \A f \in {"ENABW", "OVFLOUTQ", "FLOWC"} : f \in fl <=> f \in t_flags
  PROVE  /\ outq + n \in 0 .. OUTQ_SIZE
         /\ Enabw(fl, nd_mask).fl = fl \ {"ENABW"}
         /\ Enabw(fl, nd_mask).mask = nd_mask \cup {"W"}
         /\ Enabw(fl, nd_mask).fl \subseteq Flags
         /\ Enabw(fl, nd_mask).mask \subseteq Callbacks
         /\ WriteOK(Enabw(fl, nd_mask).fl, Enabw(fl, nd_mask).mask, outq + n)
         /\ WriteOK(fl, nd_mask, outq)
<1>1. WriteOK(t_flags, nd_mask, outq) /\ nd_mask \subseteq Callbacks
  BY NextByteFacts DEF IInv, Wake, TypeOK
<1>2. outq \in Nat /\ outq + REQUIRED <= OUTQ_SIZE
  BY NextByteFacts DEF IInv
<1>3. outq + n \in 0 .. OUTQ_SIZE
  BY <1>2, Sizes
<1>4. /\ Enabw(fl, nd_mask).fl = fl \ {"ENABW"}
      /\ Enabw(fl, nd_mask).mask = nd_mask \cup {"W"}
  BY <1>1 DEF Enabw, Enabled, WriteOK
<1>5. WriteOK(fl \ {"ENABW"}, nd_mask \cup {"W"}, outq + n)
  BY DEF WriteOK
<1>6. WriteOK(fl, nd_mask, outq)
  BY <1>1 DEF WriteOK
<1> QED
  BY <1>1, <1>3, <1>4, <1>5, <1>6 DEF Callbacks

\* What the invariant says while a byte is interpreted.
LEMMA ByteFacts ==
  ASSUME IInv, NextByte
  PROVE  /\ b \in Bytes
         /\ t_flags \in SUBSET Flags /\ nd_mask \subseteq Callbacks
         /\ WriteOK(t_flags, nd_mask, outq)
         /\ outq \in 0 .. OUTQ_SIZE /\ optq \in 0 .. OPTQ_SIZE
         /\ t_state \in InputStates
         /\ t_optb \in [Known -> [us : Direction, him : Direction]]
         /\ canq \in Seq(Bytes \cup {"NUL"}) /\ Len(canq) \in Nat
         /\ Len(canq) <= CANQ_SIZE
         /\ line \in Seq(Bytes \cup {"NUL"})
         /\ typed \in Seq(Bytes) /\ Len(typed) \in Nat
         /\ pc = "input"
<1>1. b \in Bytes /\ pc = "input"
  BY NextByteFacts DEF IInv
<1>2. Len(canq) \in Nat /\ Len(typed) \in Nat
  BY LenProperties DEF IInv, TypeOK
<1> QED
  BY <1>1, <1>2 DEF IInv, TypeOK, Wake

\* Front of a queue that is not empty.
LEMMA FrontType ==
  ASSUME NEW S, NEW q \in Seq(S), q # <<>>
  PROVE  Front(q) \in Seq(S) /\ Len(Front(q)) = Len(q) - 1 /\ Len(q) \in Nat
<1>1. PICK n \in Nat : n = Len(q) /\ n # 0 /\ \A i \in 1 .. n : q[i] \in S
  BY LenProperties, EmptySeq, ElementOfSeq
<1>2. n - 1 \in Int /\ \A i \in 1 .. n - 1 : q[i] \in S
  BY <1>1
<1>3. /\ SubSeq(q, 1, n - 1) \in Seq(S)
      /\ Len(SubSeq(q, 1, n - 1)) = IF 1 <= n - 1 THEN n - 1 - 1 + 1 ELSE 0
  BY <1>2, SubSeqProperties
<1>4. (IF 1 <= n - 1 THEN n - 1 - 1 + 1 ELSE 0) = n - 1
  BY <1>1
<1>5. Front(q) = SubSeq(q, 1, n - 1)
  BY <1>1 DEF Front
<1> QED
  BY <1>1, <1>3, <1>4, <1>5, Zenon

LEMMA CanqPutcKeeps ==
  ASSUME IInv, CanqPutc
  PROVE  IInv'
<1>0. NextByte
  BY DEF CanqPutc
<1>1. /\ t_state' = "DATA"
      /\ typed' = IF Has("SYNCH") THEN typed ELSE Append(typed, b)
      /\ UNCHANGED <<t_optb, optq, ready, pc, line, sock, mark, eof, count>>
  BY DEF CanqPutc, net
<1>2. typed' \in Seq(Bytes)
  BY <1>0, <1>1, ByteFacts, AppendProperties
<1>3. CASE /\ Len(canq) # CANQ_SIZE /\ canq' = Append(canq, b)
           /\ UNCHANGED <<outq, t_flags, nd_mask>>
  <2>1. canq' \in Seq(Bytes \cup {"NUL"}) /\ Len(canq') = Len(canq) + 1
    BY <1>0, <1>3, ByteFacts, AppendProperties
  <2>2. Len(canq') <= CANQ_SIZE
    BY <1>0, <1>3, <2>1, ByteFacts, Sizes
  <2> QED
    BY <1>0, <1>1, <1>2, <1>3, <2>1, <2>2, ByteFacts, ByteKeeps DEF InputStates
<1>4. CASE /\ outq' = outq + 1
           /\ t_flags' = Enabw(t_flags, nd_mask).fl \cup {"OVFLCANQ"}
           /\ nd_mask' = Enabw(t_flags, nd_mask).mask
           /\ UNCHANGED canq
  <2>1. 1 \in 1 .. REQUIRED
    BY Sizes
  <2>2. /\ outq' \in 0 .. OUTQ_SIZE
        /\ t_flags' = (t_flags \ {"ENABW"}) \cup {"OVFLCANQ"}
        /\ nd_mask' = nd_mask \cup {"W"}
        /\ t_flags' \subseteq Flags /\ nd_mask' \subseteq Callbacks
        /\ WriteOK(t_flags \ {"ENABW"}, nd_mask', outq')
    <3>1. t_flags \in SUBSET Flags
      BY <1>0, ByteFacts
    <3>2. /\ outq + 1 \in 0 .. OUTQ_SIZE
          /\ Enabw(t_flags, nd_mask).fl = t_flags \ {"ENABW"}
          /\ Enabw(t_flags, nd_mask).mask = nd_mask \cup {"W"}
          /\ Enabw(t_flags, nd_mask).mask \subseteq Callbacks
          /\ WriteOK(Enabw(t_flags, nd_mask).fl, Enabw(t_flags, nd_mask).mask,
                     outq + 1)
      BY <1>0, <2>1, <3>1, AnswerFacts
    <3> QED
      BY <1>4, <3>1, <3>2 DEF Flags
  <2>3. WriteOK(t_flags', nd_mask', outq')
    BY <2>2 DEF WriteOK
  <2> QED
    BY <1>0, <1>1, <1>2, <1>4, <2>2, <2>3, ByteFacts, ByteKeeps DEF InputStates
<1>5. CASE UNCHANGED <<canq, outq, t_flags, nd_mask>>
  BY <1>0, <1>1, <1>2, <1>5, ByteFacts, ByteKeeps DEF InputStates
<1> QED
  BY <1>3, <1>4, <1>5 DEF CanqPutc, CanFull

LEMMA EraseKeeps ==
  ASSUME IInv, telnet_ec \/ telnet_el
  PROVE  IInv'
<1>0. NextByte
  BY DEF telnet_ec, telnet_el
<1>1. /\ t_state' = "DATA"
      /\ canq' \in {canq, <<>>} \/ (canq # <<>> /\ canq' = Front(canq))
      /\ typed' \in {typed, <<>>} \/ (typed # <<>> /\ typed' = Front(typed))
      /\ UNCHANGED <<t_flags, t_optb, optq, outq, nd_mask, ready, pc, line, sock,
                     mark, eof, count>>
  BY DEF telnet_ec, telnet_el, net
<1>2. \A S : <<>> \in Seq(S) /\ Len(<<>>) = 0
  BY EmptySeq
<1>3. canq' \in Seq(Bytes \cup {"NUL"}) /\ Len(canq') <= CANQ_SIZE
  <2>1. CASE canq' \in {canq, <<>>}
    <3>1. CASE canq' = canq
      BY <1>0, <3>1, ByteFacts
    <3>2. CASE canq' = <<>>
      BY <1>2, <3>2, Sizes
    <3> QED
      BY <2>1, <3>1, <3>2
  <2>2. CASE canq # <<>> /\ canq' = Front(canq)
    <3>1. canq' \in Seq(Bytes \cup {"NUL"}) /\ Len(canq') = Len(canq) - 1
      BY <1>0, <2>2, ByteFacts, FrontType
    <3> QED
      BY <1>0, <3>1, ByteFacts, Sizes
  <2> QED
    BY <1>1, <2>1, <2>2
<1>4. typed' \in Seq(Bytes)
  <2>1. CASE typed' \in {typed, <<>>}
    BY <1>0, <1>2, <2>1, ByteFacts
  <2>2. CASE typed # <<>> /\ typed' = Front(typed)
    BY <1>0, <2>2, ByteFacts, FrontType
  <2> QED
    BY <1>1, <2>1, <2>2
<1> QED
  BY <1>0, <1>1, <1>3, <1>4, ByteFacts, ByteKeeps DEF InputStates

LEMMA EolEnterKeeps ==
  ASSUME IInv, EolEnter
  PROVE  IInv'
<1>0. NextByte
  BY DEF EolEnter
<1>1. /\ canq' = IF CanFull THEN canq ELSE Append(canq, "NUL")
      /\ line' = IF CanFull THEN <<>> ELSE CString(canq)
      /\ t_flags' = IF CanFull THEN t_flags \ {"OVFLCANQ"} ELSE t_flags
      /\ pc' = "lpc" /\ typed' = <<>>
      /\ UNCHANGED <<t_state, t_optb, optq, outq, nd_mask, ready, sock, mark,
                     eof, count>>
  BY DEF EolEnter, net
<1>2. \A S : <<>> \in Seq(S) /\ Len(<<>>) = 0
  BY EmptySeq
<1>3. canq' \in Seq(Bytes \cup {"NUL"}) /\ Len(canq') <= CANQ_SIZE
  <2>1. CASE CanFull
    BY <1>0, <1>1, <2>1, ByteFacts
  <2>2. CASE ~CanFull
    <3>1. canq' \in Seq(Bytes \cup {"NUL"}) /\ Len(canq') = Len(canq) + 1
      BY <1>0, <1>1, <2>2, ByteFacts, AppendProperties
    <3> QED
      BY <1>0, <2>2, <3>1, ByteFacts, Sizes DEF CanFull
  <2> QED
    BY <2>1, <2>2
<1>4. line' \in Seq(Bytes \cup {"NUL"}) /\ typed' \in Seq(Bytes)
  BY <1>0, <1>1, <1>2, ByteFacts, CStringType
<1>5. /\ t_flags' \subseteq Flags
      /\ \A f \in {"ATTACH", "ENABR", "FLOWC", "URGENT", "ENABW", "OVFLOUTQ"} :
           f \in t_flags' <=> f \in t_flags
  BY <1>0, <1>1, ByteFacts
<1>6. WriteOK(t_flags', nd_mask', outq')
  BY <1>0, <1>1, <1>5, ByteFacts DEF WriteOK
<1> QED
  BY <1>0, <1>1, <1>3, <1>4, <1>5, <1>6, ByteFacts, ByteKeeps

LEMMA FlowControlKeeps ==
  ASSUME IInv, FlowControl
  PROVE  IInv'
<1>1. /\ pc = "input" /\ pc' = "idle"
      /\ OUTQ_SIZE - outq < REQUIRED
      /\ t_flags' = t_flags \cup {"FLOWC"}
      /\ nd_mask' = nd_mask \ {"C"}
      /\ UNCHANGED <<t_state, t_optb, rawq, canq, optq, outq, ready, line, sock,
                     mark, eof, count, typed>>
  BY DEF FlowControl, avail, queues, net
<1>2. /\ TypeOK
      /\ WriteOK(t_flags, nd_mask, outq)
      /\ ReadOK(t_flags, nd_mask, rawq)
      /\ MarkOK(t_flags, nd_mask, ready, mark)
      /\ "ATTACH" \in t_flags
  BY <1>1 DEF IInv, Wake
<1>3. outq > 0
  BY <1>1, <1>2, Sizes DEF TypeOK
<1>4. TypeOK'
  BY <1>1, <1>2 DEF TypeOK, Flags, Phases
<1>5. Wake'
  BY <1>1, <1>2, <1>3 DEF Wake, WriteOK, ReadOK, MarkOK
<1> QED
  BY <1>4, <1>5 DEF IInv

LEMMA InputDoneKeeps ==
  ASSUME IInv, InputDone
  PROVE  IInv'
<1> DEFINE ga == ~Has("SGA") /\ ~Has("GA") /\ avail >= 2
           w == IF ga THEN Enabw(t_flags \cup {"GA"}, nd_mask)
                      ELSE [fl |-> t_flags, mask |-> nd_mask]
           e == Enabr(w.fl, w.mask)
<1>1. /\ pc = "input" /\ pc' = "idle" /\ rawq = <<>>
      /\ UNCHANGED <<t_state, t_optb, rawq, canq, optq, ready, line, sock, mark,
                     eof, count, typed>>
  BY DEF InputDone, net
<1>2. /\ outq' = IF ga THEN outq + 2 ELSE outq
      /\ t_flags' = e.fl
      /\ nd_mask' = e.mask \ {"C"}
  BY DEF InputDone
<1>3. /\ TypeOK
      /\ WriteOK(t_flags, nd_mask, outq)
      /\ ReadOK(t_flags, nd_mask, rawq)
      /\ MarkOK(t_flags, nd_mask, ready, mark)
      /\ "ATTACH" \in t_flags
  BY <1>1 DEF IInv, Wake
<1>4. outq' \in 0 .. OUTQ_SIZE
  BY <1>2, <1>3, Sizes DEF TypeOK, avail
<1>5. /\ w.fl \subseteq Flags /\ w.mask \subseteq Callbacks
      /\ WriteOK(w.fl, w.mask, outq')
      /\ \A f \in Flags \ {"ENABW", "GA"} : f \in w.fl <=> f \in t_flags
      /\ \A c \in Callbacks \ {"W"} : c \in w.mask <=> c \in nd_mask
  <2>1. CASE ga
    <3>1. /\ w.fl = (t_flags \cup {"GA"}) \ {"ENABW"}
          /\ w.mask = nd_mask \cup {"W"}
      BY <1>3, <2>1 DEF Enabw, Enabled, WriteOK
    <3> HIDE DEF w
    <3> QED
      BY <1>3, <3>1 DEF TypeOK, WriteOK, Flags, Callbacks
  <2>2. CASE ~ga
    BY <1>2, <1>3, <2>2 DEF TypeOK
  <2> QED
    BY <2>1, <2>2
<1> HIDE DEF w
<1>6. /\ e.fl = w.fl \ {"ENABR"}
      /\ e.mask \in {w.mask, w.mask \cup {"R"}} /\ "R" \in e.mask
  BY <1>3, <1>5 DEF ReadOK, Enabr, Enabled, Flags, Callbacks
<1> HIDE DEF e, ga
<1>7. t_flags' \subseteq Flags /\ nd_mask' \subseteq Callbacks
  BY <1>2, <1>5, <1>6 DEF Callbacks
<1>8. TypeOK'
  BY <1>1, <1>3, <1>4, <1>7 DEF TypeOK, Phases
<1>9. WriteOK(t_flags', nd_mask', outq')
  BY <1>2, <1>5, <1>6 DEF WriteOK
<1>10. ReadOK(t_flags', nd_mask', rawq')
  BY <1>1, <1>2, <1>3, <1>5, <1>6 DEF ReadOK, Flags
<1>11. MarkOK(t_flags', nd_mask', ready', mark')
  BY <1>1, <1>2, <1>3, <1>5, <1>6 DEF MarkOK, Flags, Callbacks
<1>12. Wake'
  BY <1>1, <1>9, <1>10, <1>11 DEF Wake
<1> QED
  BY <1>8, <1>12 DEF IInv

\* interactive_input() returns, or fails.
LEMMA EolLeaveKeeps ==
  ASSUME IInv, EolReturn \/ EolFails
  PROVE  IInv'
<1>1. /\ pc = "lpc" /\ pc' = "idle" /\ line' = <<>>
      /\ canq' \in {canq, <<>>}
      /\ t_flags' \in {t_flags, t_flags \ {"GA"}}
      /\ t_state' \in {t_state, "DATA"}
      /\ UNCHANGED <<t_optb, rawq, optq, outq, nd_mask, ready, sock, mark, eof,
                     count, typed>>
  BY DEF EolReturn, EolFails, queues, net
<1>2. \A S : <<>> \in Seq(S) /\ Len(<<>>) = 0
  BY EmptySeq
<1>3. /\ TypeOK
      /\ WriteOK(t_flags, nd_mask, outq)
      /\ ReadOK(t_flags, nd_mask, rawq)
      /\ MarkOK(t_flags, nd_mask, ready, mark)
  BY <1>1, OpenFacts
<1>4. canq' \in Seq(Bytes \cup {"NUL"}) /\ Len(canq') <= CANQ_SIZE
  <2>1. CASE canq' = canq
    BY <1>3, <2>1 DEF TypeOK
  <2>2. CASE canq' = <<>>
    BY <1>2, <2>2, Sizes
  <2> QED
    BY <1>1, <2>1, <2>2
<1>5. /\ line' \in Seq(Bytes \cup {"NUL"})
      /\ t_flags' \subseteq Flags /\ t_state' \in InputStates /\ pc' \in Phases
  BY <1>1, <1>2, <1>3 DEF TypeOK, InputStates, Phases
<1>6. TypeOK'
  BY <1>1, <1>3, <1>4, <1>5 DEF TypeOK
<1>7. Wake'
  BY <1>1, <1>3 DEF Wake, WriteOK, ReadOK, MarkOK
<1> QED
  BY <1>6, <1>7 DEF IInv

\* The bytes that change the flags of no queue but their own.
LEMMA CommandKeeps ==
  ASSUME IInv, EolDropped \/ Move \/ telnet_dm \/ OptqPutc \/ telnet_se
  PROVE  IInv'
<1>0. NextByte
  BY DEF EolDropped, Move, telnet_dm, OptqPutc, telnet_se
<1>1. /\ pc' \in {pc, "idle"}
      /\ UNCHANGED <<t_optb, canq, outq, nd_mask, ready, line, sock, mark, eof,
                     count, typed>>
  BY DEF EolDropped, Move, telnet_dm, OptqPutc, telnet_se, net
<1>2. t_state' \in InputStates
  BY DEF EolDropped, Move, Moves, telnet_dm, OptqPutc, telnet_se, InputStates
<1>3. t_flags' \in {t_flags, t_flags \ {"SYNCH"}, t_flags \cup {"OVFLOPTQ"},
                    t_flags \ {"OVFLOPTQ"}}
  BY DEF EolDropped, Move, telnet_dm, OptqPutc, telnet_se
<1>4. optq' \in {optq, 0} \/ (optq # OPTQ_SIZE /\ optq' = optq + 1)
  BY DEF EolDropped, Move, telnet_dm, OptqPutc, telnet_se
<1>5. optq' \in 0 .. OPTQ_SIZE
  BY <1>0, <1>4, ByteFacts, Sizes
<1>6. /\ t_flags' \subseteq Flags
      /\ \A f \in {"ATTACH", "ENABR", "FLOWC", "URGENT", "ENABW", "OVFLOUTQ"} :
           f \in t_flags' <=> f \in t_flags
  BY <1>0, <1>3, ByteFacts DEF Flags
<1>7. WriteOK(t_flags', nd_mask', outq')
  BY <1>0, <1>1, <1>6, ByteFacts DEF WriteOK
<1> QED
  BY <1>0, <1>1, <1>2, <1>5, <1>6, <1>7, ByteFacts, ByteKeeps

LEMMA AytKeeps ==
  ASSUME IInv, telnet_ayt
  PROVE  IInv'
<1>0. NextByte
  BY DEF telnet_ayt
<1>1. /\ t_state' = "DATA"
      /\ outq' = outq + AYT_LEN
      /\ t_flags' = Enabw(t_flags, nd_mask).fl
      /\ nd_mask' = Enabw(t_flags, nd_mask).mask
      /\ UNCHANGED <<t_optb, canq, optq, ready, pc, line, sock, mark, eof, count,
                     typed>>
  BY DEF telnet_ayt, Put, net
<1>2. AYT_LEN \in 1 .. REQUIRED
  BY Sizes
<1>3. t_flags \in SUBSET Flags
  BY <1>0, ByteFacts
<1>4. /\ outq + AYT_LEN \in 0 .. OUTQ_SIZE
      /\ Enabw(t_flags, nd_mask).fl = t_flags \ {"ENABW"}
      /\ Enabw(t_flags, nd_mask).mask = nd_mask \cup {"W"}
      /\ Enabw(t_flags, nd_mask).fl \subseteq Flags
      /\ Enabw(t_flags, nd_mask).mask \subseteq Callbacks
      /\ WriteOK(Enabw(t_flags, nd_mask).fl, Enabw(t_flags, nd_mask).mask,
                 outq + AYT_LEN)
  BY <1>0, <1>2, <1>3, AnswerFacts
<1>5. /\ outq' \in 0 .. OUTQ_SIZE
      /\ t_flags' \subseteq Flags /\ nd_mask' \subseteq Callbacks
      /\ WriteOK(t_flags', nd_mask', outq')
      /\ \A f \in {"ATTACH", "ENABR", "FLOWC", "URGENT"} :
           f \in t_flags' <=> f \in t_flags
      /\ \A c \in {"R", "X", "C"} : c \in nd_mask' <=> c \in nd_mask
  BY <1>1, <1>4
<1> QED
  BY <1>0, <1>1, <1>5, ByteFacts, ByteKeeps DEF InputStates

\* The answer to a request about an option, or none.
LEMMA AnsweredKeeps ==
  ASSUME IInv, NextByte, t_state' = "DATA",
         UNCHANGED <<canq, optq, ready, pc, line, net, typed>>,
         t_optb' \in [Known -> [us : Direction, him : Direction]],
         NEW sent,
         NEW fl \in {t_flags, t_flags \cup {"SGA"}, t_flags \ {"SGA"}},
         Answered(sent, fl)
  PROVE  IInv'
<1>0. UNCHANGED <<canq, optq, ready, pc, line, sock, mark, eof, count, typed>>
  BY DEF net
<1>1. /\ fl \in SUBSET Flags
      /\ \A f \in {"ATTACH", "ENABR", "FLOWC", "URGENT", "ENABW", "OVFLOUTQ"} :
           f \in fl <=> f \in t_flags
  BY ByteFacts DEF Flags
<1>2. 3 \in 1 .. REQUIRED
  BY Sizes
<1>3. /\ outq + 3 \in 0 .. OUTQ_SIZE
      /\ Enabw(fl, nd_mask).fl = fl \ {"ENABW"}
      /\ Enabw(fl, nd_mask).mask = nd_mask \cup {"W"}
      /\ Enabw(fl, nd_mask).fl \subseteq Flags
      /\ Enabw(fl, nd_mask).mask \subseteq Callbacks
      /\ WriteOK(Enabw(fl, nd_mask).fl, Enabw(fl, nd_mask).mask, outq + 3)
      /\ WriteOK(fl, nd_mask, outq)
  BY <1>1, <1>2, AnswerFacts
<1>4. /\ outq' \in 0 .. OUTQ_SIZE
      /\ t_flags' \subseteq Flags /\ nd_mask' \subseteq Callbacks
      /\ WriteOK(t_flags', nd_mask', outq')
      /\ t_flags' \in {fl, fl \ {"ENABW"}}
      /\ nd_mask' \in {nd_mask, nd_mask \cup {"W"}}
  <2>1. CASE sent = "nothing"
    BY <1>1, <1>3, <2>1, ByteFacts DEF Answered
  <2>2. CASE sent # "nothing"
    BY <1>3, <2>2 DEF Answered
  <2> QED
    BY <2>1, <2>2
<1>5. /\ \A f \in {"ATTACH", "ENABR", "FLOWC", "URGENT"} :
           f \in t_flags' <=> f \in t_flags
      /\ \A c \in {"R", "X", "C"} : c \in nd_mask' <=> c \in nd_mask
  BY <1>1, <1>4
<1> QED
  BY <1>0, <1>4, <1>5, ByteFacts, ByteKeeps DEF InputStates

LEMMA OnUsKeeps ==
  ASSUME IInv, OnUs
  PROVE  IInv'
<1>0. NextByte /\ t_state' = "DATA"
      /\ UNCHANGED <<canq, optq, ready, pc, line, net, typed>>
  BY DEF OnUs
<1>1. t_optb \in [Known -> [us : Direction, him : Direction]]
  BY DEF IInv, TypeOK
<1>2. CASE b \in Known
  <2> DEFINE e == IF t_state = "IAC_DO" THEN Agree(t_optb[b].us, lenabp(b))
                                        ELSE Refuse(t_optb[b].us)
             fl == IF b # "SGA" THEN t_flags
                   ELSE IF e.dir.st = "YES" THEN t_flags \cup {"SGA"}
                   ELSE t_flags \ {"SGA"}
  <2>1. t_optb' = [t_optb EXCEPT ![b].us = e.dir] /\ Answered(e.sent, fl)
    BY <1>2 DEF OnUs
  <2>2. e.dir \in Direction
    <3>1. t_optb[b].us \in Direction /\ lenabp(b) \in BOOLEAN
      BY <1>1, <1>2 DEF lenabp
    <3>2. Agree(t_optb[b].us, lenabp(b)).dir \in Direction
          /\ Refuse(t_optb[b].us).dir \in Direction
      BY <3>1, OptionTypes
    <3> QED
      BY <3>2
  <2>3. fl \in {t_flags, t_flags \cup {"SGA"}, t_flags \ {"SGA"}}
    OBVIOUS
  <2> HIDE DEF e, fl
  <2>4. t_optb' \in [Known -> [us : Direction, him : Direction]]
    BY <1>1, <1>2, <2>1, <2>2
  <2> QED
    BY <1>0, <2>1, <2>3, <2>4, AnsweredKeeps
<1>3. CASE b \notin Known
  <2>1. t_optb' = t_optb
        /\ Answered(IF t_state = "IAC_DO" THEN "no" ELSE "nothing", t_flags)
    BY <1>3 DEF OnUs
  <2> QED
    BY <1>0, <1>1, <2>1, AnsweredKeeps
<1> QED
  BY <1>2, <1>3

LEMMA OnHimKeeps ==
  ASSUME IInv, OnHim
  PROVE  IInv'
<1>0. NextByte /\ t_state' = "DATA"
      /\ UNCHANGED <<canq, optq, ready, pc, line, net, typed>>
  BY DEF OnHim
<1>1. t_optb \in [Known -> [us : Direction, him : Direction]]
  BY DEF IInv, TypeOK
<1>2. CASE b \in Known
  <2> DEFINE e == IF t_state = "IAC_WILL" THEN Agree(t_optb[b].him, renabp(b))
                                          ELSE Refuse(t_optb[b].him)
  <2>1. t_optb' = [t_optb EXCEPT ![b].him = e.dir] /\ Answered(e.sent, t_flags)
    BY <1>2 DEF OnHim
  <2>2. e.dir \in Direction
    <3>1. t_optb[b].him \in Direction /\ renabp(b) \in BOOLEAN
      BY <1>1, <1>2 DEF renabp
    <3>2. Agree(t_optb[b].him, renabp(b)).dir \in Direction
          /\ Refuse(t_optb[b].him).dir \in Direction
      BY <3>1, OptionTypes
    <3> QED
      BY <3>2
  <2> HIDE DEF e
  <2>3. t_optb' \in [Known -> [us : Direction, him : Direction]]
    BY <1>1, <1>2, <2>1, <2>2
  <2> QED
    BY <1>0, <2>1, <2>3, AnsweredKeeps
<1>3. CASE b \notin Known
  <2>1. t_optb' = t_optb
        /\ Answered(IF t_state = "IAC_WILL" THEN "no" ELSE "nothing", t_flags)
    BY <1>3 DEF OnHim
  <2> QED
    BY <1>0, <1>1, <2>1, AnsweredKeeps
<1> QED
  BY <1>2, <1>3

LEMMA InputKeeps ==
  ASSUME IInv, Input
  PROVE  IInv'
BY FlowControlKeeps, InputDoneKeeps, CanqPutcKeeps, EraseKeeps, EolEnterKeeps,
   CommandKeeps, AytKeeps, OnUsKeeps, OnHimKeeps DEF Input

-----------------------------------------------------------------------------
(* The theorems *)

LEMMA StutterKeeps ==
  ASSUME IInv, UNCHANGED vars
  PROVE  IInv'
<1>1. UNCHANGED <<t_flags, t_state, t_optb, rawq, canq, optq, outq, nd_mask,
                  ready, pc, line, sock, mark, eof, count, typed>>
  BY DEF vars
<1>2. TypeOK'
  BY <1>1 DEF IInv, TypeOK
<1>3. Wake'
  BY <1>1 DEF IInv, Wake, WriteOK, ReadOK, MarkOK
<1> QED
  BY <1>2, <1>3 DEF IInv

\* IInv is an inductive invariant of a session: which callbacks of the
\* descriptor are enabled follows from the queues, the flags and the mark.
THEOREM Invariance == Spec => []IInv
<1>1. Init => IInv
  BY InitInv
<1>2. IInv /\ [Next]_vars => IInv'
  BY AcceptKeeps, SelectKeeps, TurnKeeps, InputKeeps, EolLeaveKeeps, LpcKeeps,
     ClientKeeps, StutterKeeps DEF Next
<1> QED
  BY <1>1, <1>2, PTL DEF Spec

\* No queue is ever filled past its size (RAWQ, CANQ, OPTQ and OUTQ of
\* telnet.c), whatever clients send and LPC code writes: the room the loop of
\* telnet_input() checks before a byte is enough for every answer.
THEOREM SessionTypes == Spec => []TypeOK
<1>1. IInv => TypeOK
  BY DEF IInv
<1> QED
  BY <1>1, Invariance, PTL

\* No wake-up is lost, for queues of any size: a callback of nd_select() that
\* has work to do is enabled, or one that enables it is.
THEOREM WakeupKept == Spec => []NoLostWakeup
<1>1. IInv => NoLostWakeup
  BY DEF IInv, Wake, WriteOK, ReadOK, MarkOK, NoLostWakeup, Has
<1> QED
  BY <1>1, Invariance, PTL

-----------------------------------------------------------------------------
(* A Synch ends.                                                           *)

Verbs == {"WILL", "WONT", "DO", "DONT"}
VerbStates == {"IAC_WILL", "IAC_WONT", "IAC_DO", "IAC_DONT"}

\* What was begun before the place i of s is completed from there on, by a
\* byte that cannot be the first of a command.
Completes(st, s, i) ==
  /\ st # "DATA" => i <= Len(s) /\ s[i] # "IAC"
  /\ st = "IAC" =>
       s[i] # "SB" /\ (s[i] \in Verbs => i < Len(s) /\ s[i + 1] # "IAC")

\* The telnet protocol: CR is followed by another byte of the same message,
\* and commands are sent in one piece.  Parameters of options (SB) are not
\* sent, since the driver agrees to no option that has any.
Complete(s) ==
  \A i \in 1 .. Len(s) :
    s[i] \in {"CR", "IAC"} => Completes(s[i], s, i + 1)

\* What clients and LPC code are supposed to do.  An error in the middle of
\* telnet_eol() leaves the state CR, and the next byte would be dropped.
Compliant ==
  /\ \A m \in Messages : Complete(m)
  /\ "fail" \in Lpc => \A m \in Messages :
                         \A i \in 1 .. Len(m) : m[i] # "CR"

\* The state in which the next byte will be interpreted, the bytes to be
\* interpreted, and the place of the urgent one among them.
State == IF pc = "lpc" THEN "DATA" ELSE t_state
Coming == rawq \o sock
MarkPlace == IF mark = 0 THEN 0 ELSE Len(rawq) + mark

\* The urgent byte is the DM of a pair IAC DM.
Marked(st, s, p) == p # 0 =>
  /\ s[p] = "DM"
  /\ IF p = 1 THEN st = "IAC" ELSE s[p - 1] = "IAC"

\* A Data Mark is to come.
DataMark(st, s) ==
  \/ st = "IAC" /\ s # <<>> /\ s[1] = "DM"
  \/ \E i \in 1 .. Len(s) - 1 : s[i] = "IAC" /\ s[i + 1] = "DM"

NoCR(s) == \A i \in 1 .. Len(s) : s[i] # "CR"

SynchInv ==
  /\ t_state \in {"DATA", "CR", "IAC"} \cup VerbStates
  /\ "fail" \in Lpc => t_state # "CR" /\ NoCR(Coming)
  /\ pc = "lpc" => t_state \in {"DATA", "CR"}
  /\ Complete(Coming) /\ Completes(State, Coming, 1)
  /\ Marked(State, Coming, MarkPlace)
  /\ Has("URGENT") => mark # 0
  /\ Has("SYNCH") => DataMark(State, Coming)

\* The transitions of the interpreter of input, as far as a Synch is
\* concerned.
Steps(st, c, st2) ==
  \/ st = "DATA" /\ c = "CR" /\ st2 = "CR"
  \/ st = "DATA" /\ c = "IAC" /\ st2 = "IAC"
  \/ st = "DATA" /\ c \notin {"CR", "IAC"} /\ st2 = "DATA"
  \/ st = "CR" /\ st2 = "DATA"
  \/ st = "IAC" /\ c \in Verbs /\ st2 \in VerbStates
  \/ st = "IAC" /\ c \notin Verbs /\ st2 = "DATA"
  \/ st \in VerbStates /\ st2 = "DATA"

\* A byte is taken: no pair IAC DM is torn apart, but for the one that the
\* byte completes.
LEMMA ByteTaken ==
  ASSUME NEW s \in Seq(Bytes), s # <<>>, NEW st, NEW st2,
         Complete(s), Completes(st, s, 1), Steps(st, s[1], st2)
  PROVE  /\ Complete(Tail(s)) /\ Completes(st2, Tail(s), 1)
         /\ \A p \in 2 .. Len(s) :
              Marked(st, s, p) => Marked(st2, Tail(s), p - 1)
         /\ DataMark(st, s) /\ ~(st = "IAC" /\ s[1] = "DM") =>
              DataMark(st2, Tail(s))
         /\ NoCR(s) => NoCR(Tail(s))
<1> DEFINE t == Tail(s)
<1>1. /\ Len(s) \in Nat /\ Len(s) >= 1 /\ Len(t) = Len(s) - 1
      /\ \A i \in 1 .. Len(s) - 1 : t[i] = s[i + 1]
      /\ t \in Seq(Bytes)
  BY HeadTailProperties, LenProperties
<1> HIDE DEF t
<1>2. s[1] = "IAC" => st2 = "IAC" /\ st = "DATA"
  BY DEF Completes, Steps, VerbStates
<1>3. Complete(t)
  <2> SUFFICES ASSUME NEW i \in 1 .. Len(t), t[i] \in {"CR", "IAC"}
               PROVE  Completes(t[i], t, i + 1)
    BY DEF Complete
  <2>1. i + 1 \in 1 .. Len(s) /\ t[i] = s[i + 1]
    BY <1>1
  <2>2. Completes(s[i + 1], s, (i + 1) + 1)
    BY <2>1 DEF Complete
  <2>3. i + 2 <= Len(s) /\ s[i + 2] # "IAC" /\ t[i + 1] = s[i + 2]
    BY <1>1, <2>1, <2>2 DEF Completes
  <2>4. t[i] = "IAC" =>
          /\ s[i + 2] # "SB"
          /\ s[i + 2] \in Verbs => i + 2 < Len(s) /\ s[i + 3] # "IAC"
    BY <2>1, <2>2 DEF Completes
  <2>5. i + 2 < Len(s) => t[i + 2] = s[i + 3]
    BY <1>1
  <2> QED BY <1>1, <2>3, <2>4, <2>5 DEF Completes
<1>4. Completes(st2, t, 1)
  <2>1. CASE st2 = "DATA"
    BY <2>1 DEF Completes
  <2>2. CASE st2 \in {"CR", "IAC"}
    <3>1. s[1] = st2
      BY <2>2 DEF Steps, VerbStates
    <3>2. Completes(st2, s, 2)
      <4>1. 1 \in 1 .. Len(s)
        BY <1>1
      <4>2. Completes(s[1], s, 1 + 1)
        BY <2>2, <3>1, <4>1 DEF Complete
      <4> QED BY <3>1, <4>2
    <3>3. 2 <= Len(s) /\ s[2] # "IAC" /\ t[1] = s[2]
      BY <1>1, <2>2, <3>2 DEF Completes
    <3>4. 2 < Len(s) => t[2] = s[3]
      BY <1>1
    <3> QED BY <1>1, <3>2, <3>3, <3>4 DEF Completes
  <2>3. CASE st2 \in VerbStates
    <3>1. st = "IAC" /\ s[1] \in Verbs
      BY <2>3 DEF Steps, VerbStates
    <3>2. 1 < Len(s) /\ s[2] # "IAC" /\ t[1] = s[2]
      BY <1>1, <3>1 DEF Completes
    <3> QED BY <1>1, <2>3, <3>2 DEF Completes, VerbStates
  <2> QED BY <2>1, <2>2, <2>3 DEF Steps
<1>5. ASSUME NEW p \in 2 .. Len(s), Marked(st, s, p)
      PROVE  Marked(st2, t, p - 1)
  <2>1. s[p] = "DM" /\ s[p - 1] = "IAC" /\ t[p - 1] = s[p]
    BY <1>1, <1>5 DEF Marked
  <2>2. CASE p = 2
    BY <1>2, <2>1, <2>2 DEF Marked
  <2>3. CASE p # 2
    <3>1. t[p - 2] = s[p - 1]
      BY <1>1, <2>3
    <3> QED BY <2>1, <2>3, <3>1 DEF Marked
  <2> QED BY <2>2, <2>3
<1>6. ASSUME DataMark(st, s), ~(st = "IAC" /\ s[1] = "DM")
      PROVE  DataMark(st2, t)
  <2>1. PICK i \in 1 .. Len(s) - 1 : s[i] = "IAC" /\ s[i + 1] = "DM"
    BY <1>6 DEF DataMark
  <2>2. CASE i = 1
    <3>1. st2 = "IAC" /\ t[1] = "DM" /\ t # <<>>
      BY <1>1, <1>2, <2>1, <2>2
    <3> QED BY <3>1 DEF DataMark
  <2>3. CASE i # 1
    <3>1. i - 1 \in 1 .. Len(t) - 1 /\ t[i - 1] = s[i] /\ t[i - 1 + 1] = s[i + 1]
      BY <1>1, <2>3
    <3> QED BY <2>1, <3>1 DEF DataMark
  <2> QED BY <2>2, <2>3
<1>7. NoCR(s) => NoCR(t)
  BY <1>1 DEF NoCR
<1> QED BY <1>3, <1>4, <1>5, <1>6, <1>7 DEF t

\* A message arrives behind what is to be interpreted.
LEMMA BytesAdded ==
  ASSUME NEW s \in Seq(Bytes), NEW m \in Seq(Bytes), NEW st,
         Complete(s), Complete(m), Completes(st, s, 1)
  PROVE  /\ Complete(s \o m) /\ Completes(st, s \o m, 1)
         /\ \A p \in 0 .. Len(s) : Marked(st, s, p) => Marked(st, s \o m, p)
         /\ DataMark(st, s) => DataMark(st, s \o m)
         /\ NoCR(s) /\ NoCR(m) => NoCR(s \o m)
<1> DEFINE t == s \o m
<1>1. /\ Len(s) \in Nat /\ Len(m) \in Nat /\ Len(t) = Len(s) + Len(m)
      /\ \A i \in 1 .. Len(s) + Len(m) :
           t[i] = IF i <= Len(s) THEN s[i] ELSE m[i - Len(s)]
      /\ t \in Seq(Bytes)
  BY ConcatProperties, LenProperties
<1> HIDE DEF t
<1>2. \A i \in 1 .. Len(s) : t[i] = s[i]
  BY <1>1
<1>3. \A i \in 1 .. Len(m) : t[i + Len(s)] = m[i]
  BY <1>1
<1>4. ASSUME NEW x, NEW i \in 1 .. Len(s) + 1, Completes(x, s, i)
      PROVE  Completes(x, t, i)
  <2>1. CASE x = "DATA"
    BY <2>1 DEF Completes
  <2>2. CASE x # "DATA"
    <3>1. i <= Len(s) /\ t[i] = s[i] /\ s[i] # "IAC"
      BY <1>1, <1>2, <1>4, <2>2 DEF Completes
    <3>2. i < Len(s) => t[i + 1] = s[i + 1]
      BY <1>1, <1>2
    <3> QED BY <1>1, <1>4, <3>1, <3>2 DEF Completes
  <2> QED BY <2>1, <2>2
<1>5. Completes(st, t, 1)
  BY <1>1, <1>4
<1>6. Complete(t)
  <2> SUFFICES ASSUME NEW i \in 1 .. Len(t), t[i] \in {"CR", "IAC"}
               PROVE  Completes(t[i], t, i + 1)
    BY DEF Complete
  <2>1. CASE i <= Len(s)
    <3>1. i \in 1 .. Len(s) /\ i + 1 \in 1 .. Len(s) + 1 /\ t[i] = s[i]
      BY <1>1, <1>2, <2>1
    <3>2. Completes(s[i], s, i + 1)
      BY <3>1 DEF Complete
    <3> QED BY <1>4, <3>1, <3>2
  <2>2. CASE i > Len(s)
    <3> DEFINE j == i - Len(s)
    <3>1. j \in 1 .. Len(m) /\ t[i] = m[j]
      BY <1>1, <2>2
    <3>2. Completes(m[j], m, j + 1)
      BY <3>1 DEF Complete
    <3>3. j + 1 <= Len(m) /\ m[j + 1] # "IAC" /\ t[i + 1] = m[j + 1]
      BY <1>1, <2>2, <3>1, <3>2 DEF Completes
    <3>4. t[i] = "IAC" =>
            /\ m[j + 1] # "SB"
            /\ m[j + 1] \in Verbs => j + 1 < Len(m) /\ m[j + 2] # "IAC"
      BY <3>1, <3>2 DEF Completes
    <3>5. j + 1 < Len(m) => t[i + 2] = m[j + 2]
      BY <1>1, <2>2
    <3> QED BY <1>1, <2>2, <3>3, <3>4, <3>5 DEF Completes
  <2> QED BY <1>1, <2>1, <2>2
<1>7. ASSUME NEW p \in 0 .. Len(s), Marked(st, s, p)
      PROVE  Marked(st, t, p)
  BY SMTT(60), <1>1, <1>2, <1>7 DEF Marked
<1>8. ASSUME DataMark(st, s)
      PROVE  DataMark(st, t)
  <2>1. CASE st = "IAC" /\ s # <<>> /\ s[1] = "DM"
    <3>1. Len(s) >= 1 /\ t # <<>>
      BY <1>1, <2>1, EmptySeq
    <3> QED BY <1>2, <2>1, <3>1 DEF DataMark
  <2>2. CASE \E i \in 1 .. Len(s) - 1 : s[i] = "IAC" /\ s[i + 1] = "DM"
    <3>1. PICK i \in 1 .. Len(s) - 1 : s[i] = "IAC" /\ s[i + 1] = "DM"
      BY <2>2
    <3>2. i \in 1 .. Len(t) - 1 /\ t[i] = "IAC" /\ t[i + 1] = "DM"
      BY <1>1, <1>2, <3>1
    <3> QED BY <3>2 DEF DataMark
  <2> QED BY <1>8, <2>1, <2>2 DEF DataMark
<1>9. NoCR(s) /\ NoCR(m) => NoCR(t)
  BY <1>1 DEF NoCR
<1> QED BY <1>5, <1>6, <1>7, <1>8, <1>9 DEF t

\* An urgent byte that is to come is a Data Mark that is to come.
LEMMA MarkIsDataMark ==
  ASSUME NEW s \in Seq(Bytes), NEW st, NEW p \in 1 .. Len(s), Marked(st, s, p)
  PROVE  DataMark(st, s)
<1>1. Len(s) \in Nat
  OBVIOUS
<1>2. CASE p = 1
  BY <1>1, <1>2, EmptySeq DEF Marked, DataMark
<1>3. CASE p # 1
  <2>1. p - 1 \in 1 .. Len(s) - 1 /\ s[p - 1] = "IAC" /\ s[p - 1 + 1] = "DM"
    BY <1>1, <1>3 DEF Marked
  <2> QED BY <2>1 DEF DataMark
<1> QED BY <1>2, <1>3

\* No flag of a Synch is set.
NoNewSynch ==
  /\ "SYNCH" \in t_flags' => "SYNCH" \in t_flags
  /\ "URGENT" \in t_flags' => "URGENT" \in t_flags

\* The types of what is to come.
LEMMA ComingType ==
  ASSUME TypeOK
  PROVE  /\ rawq \in Seq(Bytes) /\ sock \in Seq(Bytes) /\ Coming \in Seq(Bytes)
         /\ Len(rawq) \in Nat /\ Len(sock) \in Nat
         /\ Len(Coming) = Len(rawq) + Len(sock)
         /\ mark \in Nat /\ MarkPlace \in 0 .. Len(Coming)
         /\ mark # 0 <=> MarkPlace # 0
<1>1. rawq \in Seq(Bytes) /\ sock \in Seq(Bytes) /\ mark \in 0 .. Len(sock)
  BY DEF TypeOK
<1>2. Len(rawq) \in Nat /\ Len(sock) \in Nat
  BY <1>1, LenProperties
<1>3. Coming \in Seq(Bytes) /\ Len(Coming) = Len(rawq) + Len(sock)
  BY <1>1, ConcatProperties DEF Coming
<1> QED BY <1>1, <1>2, <1>3 DEF MarkPlace

\* A step that touches neither the bytes to come nor the interpreter.
LEMMA QuietKeeps ==
  ASSUME SynchInv, UNCHANGED <<t_state, rawq, sock, mark>>,
         pc = "lpc" <=> pc' = "lpc", NoNewSynch
  PROVE  SynchInv'
<1>1. State' = State /\ Coming' = Coming /\ MarkPlace' = MarkPlace
  BY DEF State, Coming, MarkPlace
<1> QED BY <1>1 DEF SynchInv, NoNewSynch, Has

\* telnet_output() and what uses it set no flag of a Synch.
LEMMA OutputQuiet ==
  ASSUME NEW n, NEW k
  PROVE  /\ Output(n, k).fl \subseteq t_flags \cup {"OVFLOUTQ"}
         /\ Removed(n, k) => NoNewSynch
<1>1. Enabw(t_flags, nd_mask).fl \subseteq t_flags
  BY DEF Enabw, Enabled
<1>2. Output(n, k).fl \subseteq t_flags \cup {"OVFLOUTQ"}
  BY <1>1 DEF Output
<1> QED BY <1>2 DEF Removed, NoNewSynch

\* LPC code between the turns, the return of select() and a new connection.
LEMMA LpcSynch ==
  ASSUME SynchInv,
         \/ \E n \in Outs : telnet_accept(n)
         \/ \E r \in SUBSET {"R", "W", "X"}, others \in BOOLEAN :
              Select(r, others)
         \/ LpcStep
  PROVE  SynchInv'
<1>1. ASSUME NEW n \in Outs, telnet_accept(n) PROVE SynchInv'
  <2>1. /\ UNCHANGED <<t_state, rawq, sock, mark>>
        /\ pc # "lpc" /\ pc' # "lpc"
        /\ t_flags' = Output(n, 0).fl \cup {"ATTACH"}
    BY <1>1 DEF telnet_accept, net
  <2>2. Output(n, 0).fl \subseteq t_flags \cup {"OVFLOUTQ"}
    BY OutputQuiet
  <2>3. NoNewSynch
    BY <2>1, <2>2 DEF NoNewSynch
  <2> QED BY <2>1, <2>3, QuietKeeps
<1>2. ASSUME NEW r, NEW others, Select(r, others) PROVE SynchInv'
  <2>1. /\ UNCHANGED <<t_state, rawq, sock, mark, t_flags>>
        /\ pc # "lpc" /\ pc' # "lpc"
    BY <1>2 DEF Select, net, queues
  <2>2. NoNewSynch
    BY <2>1 DEF NoNewSynch
  <2> QED BY <2>1, <2>2, QuietKeeps
<1>3. ASSUME NEW n, NEW k, Write_(n, k) PROVE SynchInv'
  <2>1. UNCHANGED <<t_state, rawq, sock, mark, pc>> /\ t_flags' = Output(n, k).fl
    BY <1>3 DEF Write_, net
  <2>2. Output(n, k).fl \subseteq t_flags \cup {"OVFLOUTQ"}
    BY OutputQuiet
  <2>3. NoNewSynch
    BY <2>1, <2>2 DEF NoNewSynch
  <2> QED BY <2>1, <2>3, QuietKeeps
<1>4. ASSUME Quit PROVE SynchInv'
  <2>1. UNCHANGED <<t_state, rawq, sock, mark, pc>>
    BY <1>4 DEF Quit, net
  <2>2. NoNewSynch
    BY <1>4, OutputQuiet DEF Quit
  <2> QED BY <2>1, <2>2, QuietKeeps
<1>5. ASSUME NEW on, Echo(on) PROVE SynchInv'
  <2>1. UNCHANGED <<t_state, rawq, sock, mark, pc>>
    BY <1>5 DEF Echo, net
  <2>2. t_flags' = t_flags \/ Put(3)
    BY <1>5 DEF Echo
  <2>3. NoNewSynch
    BY <2>2 DEF NoNewSynch, Put, Enabw, Enabled
  <2> QED BY <2>1, <2>3, QuietKeeps
<1> QED BY <1>1, <1>2, <1>3, <1>4, <1>5 DEF LpcStep

\* The callbacks: telnet_exception() begins a Synch when the urgent byte is
\* still to come, and telnet_read() does not read past it without noticing.
LEMMA TurnSynch ==
  ASSUME IInv, SynchInv, Turn
  PROVE  SynchInv'
<1>0. TypeOK
  BY DEF IInv
<1>1. CASE telnet_exception
  <2>1. /\ UNCHANGED <<t_state, rawq, sock, mark>>
        /\ pc # "lpc" /\ pc' # "lpc" /\ pc # "closed" /\ "X" \in ready
    BY <1>1 DEF telnet_exception, InTurn, net
  <2>2. mark # 0
    BY <2>1 DEF IInv, Wake, MarkOK
  <2>3. State' = State /\ Coming' = Coming /\ MarkPlace' = MarkPlace
    BY <2>1 DEF State, Coming, MarkPlace
  <2>4. Coming \in Seq(Bytes) /\ MarkPlace \in 1 .. Len(Coming)
    BY <1>0, <2>2, ComingType
  <2>5. DataMark(State, Coming)
    BY <2>4, MarkIsDataMark DEF SynchInv
  <2> QED BY <2>1, <2>2, <2>3, <2>5 DEF SynchInv
<1>2. ASSUME NEW n \in 0 .. OUTQ_SIZE, telnet_write(n) PROVE SynchInv'
  <2>1. /\ UNCHANGED <<t_state, rawq, sock, mark>>
        /\ pc # "lpc" /\ pc' # "lpc"
        /\ t_flags' = Written(outq - n).fl
    BY <1>2 DEF telnet_write, InTurn, net
  <2>2. Written(outq - n).fl \subseteq t_flags \cup {"ENABW"}
    BY DEF Written
  <2>3. NoNewSynch
    BY <2>1, <2>2 DEF NoNewSynch
  <2> QED BY <2>1, <2>3, QuietKeeps
<1>3. CASE WriteFails \/ ReadFails
  <2>1. /\ UNCHANGED <<t_state, rawq, sock, mark>>
        /\ pc # "lpc" /\ pc' # "lpc" /\ Disconnected
    BY <1>3 DEF WriteFails, ReadFails, InTurn, net
  <2>2. NoNewSynch
    BY <2>1, OutputQuiet DEF Disconnected, NoNewSynch
  <2> QED BY <2>1, <2>2, QuietKeeps
<1>4. ASSUME NEW n \in 0 .. RAWQ_SIZE, telnet_read(n) PROVE SynchInv'
  <2>0. /\ rawq \in Seq(Bytes) /\ sock \in Seq(Bytes)
        /\ Len(rawq) \in Nat /\ Len(sock) \in Nat
        /\ mark \in Nat /\ mark <= Len(sock) /\ n \in Nat
    BY <1>0, ComingType, Sizes DEF TypeOK
  <2>1. /\ n <= Receivable
        /\ rawq' = rawq \o SubSeq(sock, 1, n)
        /\ sock' = SubSeq(sock, n + 1, Len(sock))
        /\ mark' = IF n >= mark THEN 0 ELSE mark - n
        /\ t_state' = t_state /\ pc # "lpc" /\ pc' # "lpc"
    BY <1>4 DEF telnet_read, InTurn
  <2>2. n <= Len(sock) /\ (mark > 1 => n < mark)
    BY <2>0, <2>1 DEF Receivable
  <2>3. /\ Coming' = Coming
        /\ Len(rawq') = Len(rawq) + n
    <3> DEFINE a == SubSeq(sock, 1, n)
               c == SubSeq(sock, n + 1, Len(sock))
    <3>1. \A i \in 1 .. Len(sock) : sock[i] \in Bytes
      BY <2>0, ElementOfSeq
    <3>2. /\ a \in Seq(Bytes) /\ Len(a) = n
          /\ \A i \in 1 .. n : a[i] = sock[i]
      BY <2>0, <2>2, <3>1, SubSeqProperties
    <3>3. /\ c \in Seq(Bytes) /\ Len(c) = Len(sock) - n
          /\ \A i \in 1 .. Len(sock) - n : c[i] = sock[n + i]
      BY <2>0, <2>2, <3>1, SubSeqProperties
    <3> HIDE DEF a, c
    <3>4. /\ rawq \o a \in Seq(Bytes) /\ Len(rawq \o a) = Len(rawq) + n
          /\ \A i \in 1 .. Len(rawq) + n :
               (rawq \o a)[i] = IF i <= Len(rawq) THEN rawq[i]
                                ELSE a[i - Len(rawq)]
      BY <2>0, <3>2, ConcatProperties
    <3> DEFINE r == rawq \o a
    <3> HIDE DEF r
    <3>5. /\ r \o c \in Seq(Bytes)
          /\ Len(r \o c) = Len(rawq) + Len(sock)
          /\ \A i \in 1 .. Len(rawq) + Len(sock) :
               (r \o c)[i] = IF i <= Len(rawq) + n THEN r[i]
                             ELSE c[i - (Len(rawq) + n)]
      <4>1. /\ r \in Seq(Bytes) /\ Len(r) = Len(rawq) + n
        BY <3>4 DEF r
      <4>2. /\ r \o c \in Seq(Bytes)
            /\ Len(r \o c) = Len(r) + Len(c)
            /\ \A i \in 1 .. Len(r) + Len(c) :
                 (r \o c)[i] = IF i <= Len(r) THEN r[i] ELSE c[i - Len(r)]
        BY <3>3, <4>1, ConcatProperties
      <4>3. Len(r) + Len(c) = Len(rawq) + Len(sock)
        BY <2>0, <3>3, <4>1
      <4> QED BY <4>1, <4>2, <4>3
    <3>6. /\ rawq \o sock \in Seq(Bytes)
          /\ Len(rawq \o sock) = Len(rawq) + Len(sock)
          /\ \A i \in 1 .. Len(rawq) + Len(sock) :
               (rawq \o sock)[i] = IF i <= Len(rawq) THEN rawq[i]
                                   ELSE sock[i - Len(rawq)]
      BY <2>0, ConcatProperties
    <3>7. ASSUME NEW i \in 1 .. Len(rawq) + Len(sock)
          PROVE  (r \o c)[i] = (rawq \o sock)[i]
      <4>1. CASE i <= Len(rawq)
        <5>1. (r \o c)[i] = r[i]
          BY <2>0, <3>5, <4>1
        <5>2. r[i] = rawq[i]
          BY <2>0, <3>4, <4>1 DEF r
        <5> QED BY <3>6, <4>1, <5>1, <5>2
      <4>2. CASE i > Len(rawq) /\ i <= Len(rawq) + n
        <5>1. (r \o c)[i] = r[i]
          BY <2>0, <3>5, <4>2
        <5>2. r[i] = a[i - Len(rawq)]
          BY <2>0, <3>4, <4>2 DEF r
        <5>3. i - Len(rawq) \in 1 .. n
          BY <2>0, <4>2
        <5> QED BY <2>0, <3>2, <3>6, <4>2, <5>1, <5>2, <5>3
      <4>3. CASE i > Len(rawq) + n
        <5>1. (r \o c)[i] = c[i - (Len(rawq) + n)]
          BY SMTT(60), <2>0, <3>5, <4>3
        <5>2. i - (Len(rawq) + n) \in 1 .. Len(sock) - n
          BY <2>0, <4>3
        <5>3. c[i - (Len(rawq) + n)] = sock[n + (i - (Len(rawq) + n))]
          BY <3>3, <5>2
        <5>4. n + (i - (Len(rawq) + n)) = i - Len(rawq) /\ ~(i <= Len(rawq))
          BY <2>0, <4>3
        <5> QED BY <3>6, <5>1, <5>3, <5>4
      <4>4. \/ i <= Len(rawq)
            \/ i > Len(rawq) /\ i <= Len(rawq) + n
            \/ i > Len(rawq) + n
        BY <2>0
      <4> QED BY <4>1, <4>2, <4>3, <4>4
    <3>8. r \o c = rawq \o sock
      BY <2>0, <3>5, <3>6, <3>7, SeqEqual
    <3> QED BY <2>1, <3>4, <3>8 DEF Coming, r, a, c
  <2>4. State' = State
    BY <2>1 DEF State
  <2>5. MarkPlace' = MarkPlace \/ MarkPlace' = 0
    <3>1. CASE n >= mark
      BY <2>1, <3>1 DEF MarkPlace
    <3>2. CASE ~(n >= mark)
      <4>1. mark # 0 /\ mark' = mark - n /\ mark' # 0
        BY <2>0, <2>1, <3>2
      <4>2. Len(rawq') + mark' = Len(rawq) + mark
        BY <2>0, <2>3, <4>1
      <4> QED BY <4>1, <4>2 DEF MarkPlace
    <3> QED BY <3>1, <3>2
  <2>6. /\ "SYNCH" \in t_flags' => "SYNCH" \in t_flags
        /\ "URGENT" \in t_flags' =>
             "URGENT" \in t_flags /\ mark # 1
    BY <1>4 DEF telnet_read, Enabr, Enabled, Has
  <2>7. "URGENT" \in t_flags' => mark' # 0
    BY <2>0, <2>1, <2>2, <2>6 DEF SynchInv, Has
  <2>8. Marked(State', Coming', MarkPlace')
    BY <2>3, <2>4, <2>5 DEF SynchInv, Marked
  <2> QED BY <2>1, <2>3, <2>4, <2>6, <2>7, <2>8 DEF SynchInv, Has
<1>5. CASE Cleanup
  <2>1. CASE /\ UNCHANGED <<t_state, rawq, sock, mark, t_flags>>
             /\ pc # "lpc" /\ pc' # "lpc"
    <3>1. NoNewSynch
      BY <2>1 DEF NoNewSynch
    <3> QED BY <2>1, <3>1, QuietKeeps
  <2>2. CASE telnet_shutdown
    <3>1. /\ t_flags' = {"ENABW"} /\ t_state' = "DATA" /\ pc' = "closed"
          /\ rawq' = <<>> /\ sock' = <<>> /\ mark' = 0
      BY <2>2 DEF telnet_shutdown
    <3>2. <<>> \o <<>> = <<>> /\ Len(<<>>) = 0
      OBVIOUS
    <3>3. Coming' = <<>> /\ State' = "DATA" /\ MarkPlace' = 0
      BY <3>1, <3>2 DEF Coming, State, MarkPlace
    <3>4. Complete(<<>>) /\ Completes("DATA", <<>>, 1) /\ NoCR(<<>>)
      BY DEF Complete, Completes, NoCR
    <3> QED BY <3>1, <3>3, <3>4 DEF SynchInv, Has, Marked
  <2> QED BY <1>5, <2>1, <2>2 DEF Cleanup, InTurn, queues, net
<1> QED BY <1>1, <1>2, <1>3, <1>4, <1>5 DEF Turn

\* telnet_input() takes a byte: Synch is over only with the Data Mark.
LEMMA ByteSynch ==
  ASSUME IInv, SynchInv, NextByte, UNCHANGED <<sock, mark>>,
         Steps(t_state, b, State'),
         t_state' \in {"DATA", "CR", "IAC"} \cup VerbStates,
         pc' = "lpc" => t_state' \in {"DATA", "CR"} /\ t_state' = t_state,
         "URGENT" \in t_flags' => "URGENT" \in t_flags,
         "SYNCH" \in t_flags' =>
           /\ "SYNCH" \in t_flags
           /\ t_state = "IAC" /\ b = "DM" => "URGENT" \in t_flags
  PROVE  SynchInv'
<1>1. TypeOK /\ pc = "input" /\ rawq # <<>> /\ rawq' = Tail(rawq)
  BY DEF IInv, NextByte
<1>2. /\ rawq \in Seq(Bytes) /\ sock \in Seq(Bytes) /\ Coming \in Seq(Bytes)
      /\ Len(rawq) \in Nat /\ Len(sock) \in Nat
      /\ Len(Coming) = Len(rawq) + Len(sock)
      /\ mark \in Nat /\ MarkPlace \in 0 .. Len(Coming)
      /\ mark # 0 <=> MarkPlace # 0
  BY <1>1, ComingType
<1>3. State = t_state
  BY <1>1 DEF State
<1>4. /\ Len(rawq) >= 1 /\ Len(rawq') = Len(rawq) - 1 /\ rawq' \in Seq(Bytes)
      /\ \A i \in 1 .. Len(rawq) - 1 : rawq'[i] = rawq[i + 1]
      /\ b = rawq[1]
  BY <1>1, <1>2, HeadTailProperties, LenProperties DEF b
<1>5. Coming # <<>> /\ Coming[1] = b /\ Coming' = Tail(Coming)
  <2>1. \A i \in 1 .. Len(rawq) + Len(sock) :
          Coming[i] = IF i <= Len(rawq) THEN rawq[i] ELSE sock[i - Len(rawq)]
    BY <1>2, ConcatProperties DEF Coming
  <2>2. Len(Coming) >= 1 /\ Coming # <<>> /\ Coming[1] = b
    BY <1>2, <1>4, <2>1, EmptySeq
  <2>3. /\ Tail(Coming) \in Seq(Bytes) /\ Len(Tail(Coming)) = Len(Coming) - 1
        /\ \A i \in 1 .. Len(Coming) - 1 : Tail(Coming)[i] = Coming[i + 1]
    BY <1>2, <2>2, HeadTailProperties
  <2>4. /\ Coming' \in Seq(Bytes) /\ Len(Coming') = Len(rawq') + Len(sock)
        /\ \A i \in 1 .. Len(rawq') + Len(sock) :
             Coming'[i] = IF i <= Len(rawq') THEN rawq'[i]
                          ELSE sock[i - Len(rawq')]
    <3>1. Coming' = rawq' \o sock
      BY DEF Coming
    <3> QED BY SMTT(60), <1>2, <1>4, <3>1, ConcatProperties
  <2>5. Len(Coming') = Len(Tail(Coming)) /\ Len(Coming') = Len(Coming) - 1
    BY <1>2, <1>4, <2>3, <2>4
  <2>6. ASSUME NEW i \in 1 .. Len(Coming')
        PROVE  Coming'[i] = Tail(Coming)[i]
    <3>1. Tail(Coming)[i] = Coming[i + 1]
      BY <1>2, <2>3, <2>5
    <3>2. CASE i <= Len(rawq')
      <4>1. Coming'[i] = rawq'[i] /\ rawq'[i] = rawq[i + 1]
        BY <1>2, <1>4, <2>4, <3>2
      <4>2. Coming[i + 1] = rawq[i + 1]
        BY SMTT(60), <1>2, <1>4, <2>1, <3>2
      <4> QED BY <3>1, <4>1, <4>2
    <3>3. CASE ~(i <= Len(rawq'))
      <4>1. Coming'[i] = sock[i - Len(rawq')]
        BY <1>2, <1>4, <2>4, <3>3
      <4>2. Coming[i + 1] = sock[i + 1 - Len(rawq)]
        BY SMTT(60), <1>2, <1>4, <2>1, <2>4, <3>3
      <4>3. i - Len(rawq') = i + 1 - Len(rawq)
        BY <1>2, <1>4
      <4> QED BY <3>1, <4>1, <4>2, <4>3
    <3> QED BY <3>2, <3>3
  <2>7. Coming' = Tail(Coming)
    BY <2>3, <2>4, <2>5, <2>6, SeqEqual
  <2> QED BY <2>2, <2>7
<1> DEFINE st2 == State'
           s == Coming
           p == MarkPlace
<1>6. /\ Complete(s) /\ Completes(t_state, s, 1) /\ Marked(t_state, s, p)
      /\ Has("URGENT") => mark # 0
      /\ Has("SYNCH") => DataMark(t_state, s)
      /\ "fail" \in Lpc => t_state # "CR" /\ NoCR(s)
  BY <1>3 DEF SynchInv
<1>7. s \in Seq(Bytes) /\ s # <<>> /\ Steps(t_state, s[1], st2)
  BY <1>2, <1>5
<1>8. p # 0 => p \in 2 .. Len(s)
  BY <1>2, <1>4 DEF MarkPlace
<1>9. MarkPlace' = IF p = 0 THEN 0 ELSE p - 1
  BY <1>2, <1>4 DEF MarkPlace
<1> HIDE DEF st2, s, p
<1>10. /\ Complete(Tail(s)) /\ Completes(st2, Tail(s), 1)
       /\ \A q \in 2 .. Len(s) :
            Marked(t_state, s, q) => Marked(st2, Tail(s), q - 1)
       /\ DataMark(t_state, s) /\ ~(t_state = "IAC" /\ s[1] = "DM") =>
            DataMark(st2, Tail(s))
       /\ NoCR(s) => NoCR(Tail(s))
  BY <1>6, <1>7, ByteTaken
<1>11. Marked(st2, Tail(s), IF p = 0 THEN 0 ELSE p - 1)
  <2>1. CASE p = 0
    BY <2>1 DEF Marked
  <2>2. CASE p # 0
    BY <1>6, <1>8, <1>10, <2>2
  <2> QED BY <2>1, <2>2
<1>12. ASSUME "SYNCH" \in t_flags'
       PROVE  DataMark(st2, Tail(s))
  <2>1. CASE t_state = "IAC" /\ b = "DM"
    <3>1. p # 0
      BY <1>2, <1>6, <1>12, <2>1 DEF Has, p
    <3>2. /\ Tail(s) \in Seq(Bytes) /\ Len(Tail(s)) = Len(s) - 1
          /\ Len(s) \in Nat
      BY <1>7, HeadTailProperties, LenProperties
    <3>3. p - 1 \in 1 .. Len(Tail(s)) /\ Marked(st2, Tail(s), p - 1)
      BY <1>8, <1>11, <3>1, <3>2
    <3> QED BY <3>2, <3>3, MarkIsDataMark
  <2>2. CASE ~(t_state = "IAC" /\ b = "DM")
    <3>1. s[1] = b
      BY <1>5 DEF s
    <3> QED BY <1>6, <1>10, <1>12, <2>2, <3>1 DEF Has
  <2> QED BY <2>1, <2>2
<1>13. "fail" \in Lpc => t_state' # "CR"
  <2> SUFFICES ASSUME "fail" \in Lpc, t_state' = "CR" PROVE FALSE
    OBVIOUS
  <2>1. pc' # "lpc"
    BY <1>6
  <2>2. st2 = "CR"
    BY <2>1 DEF State, st2
  <2>3. s[1] = "CR"
    BY <1>6, <1>7, <2>2 DEF Steps, VerbStates
  <2>4. 1 \in 1 .. Len(s)
    BY <1>2, <1>4 DEF s
  <2> QED BY <1>6, <2>3, <2>4 DEF NoCR
<1>14. /\ Complete(Coming') /\ Completes(State', Coming', 1)
       /\ Marked(State', Coming', MarkPlace')
       /\ "SYNCH" \in t_flags' => DataMark(State', Coming')
       /\ "fail" \in Lpc => t_state' # "CR" /\ NoCR(Coming')
  <2>1. Coming' = Tail(s)
    BY <1>5 DEF s
  <2> QED BY <1>6, <1>9, <1>10, <1>11, <1>12, <1>13, <2>1 DEF st2
<1>15. "URGENT" \in t_flags' => mark' # 0
  BY <1>6 DEF Has
<1> QED BY <1>14, <1>15 DEF SynchInv, Has

\* An answer sets no flag of a Synch.
LEMMA AnsweredQuiet ==
  ASSUME NEW sent, NEW fl, Answered(sent, fl)
  PROVE  t_flags' \subseteq fl
BY DEF Answered, Enabw, Enabled

\* A byte that is interpreted without a change of the flags of a Synch.
LEMMA PlainByteSynch ==
  ASSUME IInv, SynchInv, NextByte, UNCHANGED <<sock, mark, pc>>, NoNewSynch,
         Steps(t_state, b, t_state'), ~(t_state = "IAC" /\ b = "DM"),
         t_state' \in {"DATA", "CR", "IAC"} \cup VerbStates
  PROVE  SynchInv'
<1>1. pc' # "lpc" /\ State' = t_state'
  BY DEF NextByte, State
<1> QED BY <1>1, ByteSynch DEF NoNewSynch

LEMMA InputSynch ==
  ASSUME IInv, SynchInv, Input
  PROVE  SynchInv'
<1>0. t_state \in {"DATA", "CR", "IAC"} \cup VerbStates
  BY DEF SynchInv
<1>1. CASE FlowControl
  <2>1. UNCHANGED <<t_state, rawq, sock, mark>> /\ pc # "lpc" /\ pc' # "lpc"
        /\ NoNewSynch
    BY <1>1 DEF FlowControl, queues, net, NoNewSynch
  <2> QED BY <2>1, QuietKeeps
<1>2. CASE InputDone
  <2>1. UNCHANGED <<t_state, rawq, sock, mark>> /\ pc # "lpc" /\ pc' # "lpc"
    BY <1>2 DEF InputDone, net
  <2>2. NoNewSynch
    BY <1>2 DEF InputDone, Enabr, Enabw, Enabled, NoNewSynch
  <2> QED BY <2>1, <2>2, QuietKeeps
<1>3. CASE CanqPutc
  <2>1. /\ NextByte /\ UNCHANGED <<sock, mark, pc>> /\ t_state' = "DATA"
        /\ \/ t_state = "DATA" /\ b \notin Control
           \/ t_state = "IAC" /\ b = "IAC"
    BY <1>3 DEF CanqPutc, net
  <2>2. Steps(t_state, b, t_state')
    BY <2>1 DEF Steps, Control, Verbs
  <2>3. NoNewSynch
    BY <1>3 DEF CanqPutc, NoNewSynch, Enabw, Enabled
  <2> QED BY <2>1, <2>2, <2>3, PlainByteSynch
<1>4. CASE telnet_ec \/ telnet_el
  <2>1. /\ NextByte /\ UNCHANGED <<sock, mark, pc, t_flags>> /\ t_state' = "DATA"
        /\ \/ t_state = "DATA" /\ b = "BS"
           \/ t_state = "IAC" /\ b \in {"EC", "EL"}
    BY <1>4 DEF telnet_ec, telnet_el, net
  <2>2. Steps(t_state, b, t_state')
    BY <2>1 DEF Steps, Verbs
  <2>3. NoNewSynch
    BY <2>1 DEF NoNewSynch
  <2> QED BY <2>1, <2>2, <2>3, PlainByteSynch
<1>5. CASE EolEnter
  <2>1. /\ NextByte /\ UNCHANGED <<sock, mark, t_state>> /\ pc' = "lpc"
        /\ (t_state = "DATA" /\ b = "LF") \/ t_state = "CR"
        /\ t_flags' \subseteq t_flags
    BY <1>5 DEF EolEnter, AtEol, net
  <2>2. State' = "DATA"
    BY <2>1 DEF State
  <2>3. Steps(t_state, b, State')
    BY <2>1, <2>2 DEF Steps
  <2> QED BY <2>1, <2>3, ByteSynch
<1>6. CASE EolDropped
  <2>1. /\ NextByte /\ UNCHANGED <<sock, mark, t_flags>> /\ pc' = "idle"
        /\ t_state' = "DATA"
        /\ (t_state = "DATA" /\ b = "LF") \/ t_state = "CR"
    BY <1>6 DEF EolDropped, AtEol, net
  <2>2. State' = "DATA"
    BY <2>1 DEF State
  <2>3. Steps(t_state, b, State')
    BY <2>1, <2>2 DEF Steps
  <2> QED BY <2>1, <2>3, ByteSynch
<1>7. CASE Move
  <2>1. NextByte /\ UNCHANGED <<sock, mark, pc, t_flags>>
    BY <1>7 DEF Move, net
  <2>2. ~(t_state = "IAC" /\ b = "SB")
    <3>1. State = t_state /\ TypeOK /\ rawq # <<>>
      BY <2>1 DEF NextByte, State, IInv
    <3>2. Completes(t_state, Coming, 1)
      BY <3>1 DEF SynchInv
    <3>3. Coming[1] = b
      <4>1. rawq \in Seq(Bytes) /\ sock \in Seq(Bytes) /\ Len(rawq) \in Nat
            /\ Len(sock) \in Nat
        BY <3>1, ComingType
      <4>2. b = rawq[1] /\ Len(rawq) >= 1
        BY <3>1, <4>1, HeadTailProperties, EmptySeq DEF b
      <4>3. Coming[1] = rawq[1]
        BY <4>1, <4>2, ConcatProperties DEF Coming
      <4> QED BY <4>2, <4>3
    <3> QED BY <3>2, <3>3 DEF Completes
  <2>3. \/ \E m \in Moves : t_state = m[1] /\ b = m[2] /\ t_state' = m[3]
        \/ t_state = "IAC" /\ b \notin Handled /\ t_state' = "DATA"
    BY <1>0, <1>7 DEF Move, VerbStates
  <2>4. /\ Steps(t_state, b, t_state') /\ ~(t_state = "IAC" /\ b = "DM")
        /\ t_state' \in {"DATA", "CR", "IAC"} \cup VerbStates
    <3>1. CASE t_state = "IAC" /\ b \notin Handled /\ t_state' = "DATA"
      BY <3>1 DEF Handled, Steps, Verbs
    <3>2. ASSUME NEW m \in Moves, t_state = m[1], b = m[2], t_state' = m[3]
          PROVE  /\ Steps(t_state, b, t_state')
                 /\ ~(t_state = "IAC" /\ b = "DM")
                 /\ t_state' \in {"DATA", "CR", "IAC"} \cup VerbStates
      <4>1. \/ t_state = "DATA" /\ b = "NUL" /\ t_state' = "DATA"
            \/ t_state = "DATA" /\ b = "CR" /\ t_state' = "CR"
            \/ t_state = "DATA" /\ b = "IAC" /\ t_state' = "IAC"
            \/ t_state = "IAC" /\ b = "SB"
            \/ t_state = "IAC" /\ b = "WILL" /\ t_state' = "IAC_WILL"
            \/ t_state = "IAC" /\ b = "WONT" /\ t_state' = "IAC_WONT"
            \/ t_state = "IAC" /\ b = "DO" /\ t_state' = "IAC_DO"
            \/ t_state = "IAC" /\ b = "DONT" /\ t_state' = "IAC_DONT"
            \/ t_state = "IAC_SB_DATA"
        BY <3>2 DEF Moves
      <4> QED BY <1>0, <2>2, <4>1 DEF Steps, Verbs, VerbStates
    <3> QED BY <2>3, <3>1, <3>2
  <2>5. NoNewSynch
    BY <2>1 DEF NoNewSynch
  <2> QED BY <2>1, <2>4, <2>5, PlainByteSynch
<1>8. CASE telnet_dm
  <2>1. /\ NextByte /\ UNCHANGED <<sock, mark, pc>> /\ t_state' = "DATA"
        /\ t_state = "IAC" /\ b = "DM" /\ pc' # "lpc"
        /\ t_flags' = IF "URGENT" \in t_flags THEN t_flags
                      ELSE t_flags \ {"SYNCH"}
    BY <1>8 DEF telnet_dm, net, Has, NextByte
  <2>2. State' = "DATA"
    BY <2>1 DEF State
  <2>3. Steps(t_state, b, State')
    BY <2>1, <2>2 DEF Steps, Verbs
  <2> QED BY <2>1, <2>3, ByteSynch
<1>9. CASE telnet_ayt
  <2>1. /\ NextByte /\ UNCHANGED <<sock, mark, pc>> /\ t_state' = "DATA"
        /\ t_state = "IAC" /\ b = "AYT" /\ Put(AYT_LEN)
    BY <1>9 DEF telnet_ayt, net
  <2>2. Steps(t_state, b, t_state')
    BY <2>1 DEF Steps, Verbs
  <2>3. NoNewSynch
    BY <2>1 DEF NoNewSynch, Put, Enabw, Enabled
  <2> QED BY <2>1, <2>2, <2>3, PlainByteSynch
<1>10. CASE OptqPutc \/ telnet_se
  BY <1>0, <1>10 DEF OptqPutc, telnet_se, VerbStates
<1>11. CASE OnUs \/ OnHim
  <2>1. /\ NextByte /\ UNCHANGED <<sock, mark, pc>> /\ t_state' = "DATA"
        /\ t_state \in VerbStates
    BY <1>11 DEF OnUs, OnHim, net, VerbStates
  <2>2. Steps(t_state, b, t_state') /\ t_state # "IAC"
    BY <2>1 DEF Steps, VerbStates
  <2>3. t_flags' \subseteq t_flags \cup {"SGA"}
    BY <1>11, AnsweredQuiet DEF OnUs, OnHim
  <2>4. NoNewSynch
    BY <2>3 DEF NoNewSynch
  <2> QED BY <2>1, <2>2, <2>4, PlainByteSynch
<1> QED BY <1>1, <1>2, <1>3, <1>4, <1>5, <1>6, <1>7, <1>8, <1>9, <1>10, <1>11
        DEF Input

\* interactive_input() returns, or does not.
LEMMA EolSynch ==
  ASSUME SynchInv, EolReturn \/ EolFails
  PROVE  SynchInv'
<1>1. /\ UNCHANGED <<rawq, sock, mark>> /\ pc = "lpc" /\ pc' = "idle"
      /\ t_flags' \subseteq t_flags
      /\ t_state' = "DATA" \/ ("fail" \in Lpc /\ t_state' = t_state)
  BY DEF EolReturn, EolFails, queues, net
<1>2. t_state' = "DATA"
  BY <1>1 DEF SynchInv
<1>3. State' = State /\ Coming' = Coming /\ MarkPlace' = MarkPlace
  BY <1>1, <1>2 DEF State, Coming, MarkPlace
<1> QED BY <1>1, <1>2, <1>3 DEF SynchInv, Has

\* What a client sends comes behind what is to come.
LEMMA SentBehind ==
  ASSUME TypeOK, NEW m \in Seq(Bytes)
  PROVE  rawq \o (sock \o m) = Coming \o m
BY SMTT(60), ComingType, ConcatAssociative DEF Coming

\* A Synch is complete, and is marked where it is appended.
LEMMA SynchIsComplete ==
  ASSUME {"IAC", "DM"} \subseteq Bytes, NEW s \in Seq(Bytes), NEW st
  PROVE  /\ <<"IAC", "DM">> \in Seq(Bytes) /\ Complete(<<"IAC", "DM">>)
         /\ NoCR(<<"IAC", "DM">>)
         /\ Marked(st, s \o <<"IAC", "DM">>, Len(s) + 2)
<1> DEFINE m == <<"IAC", "DM">>
<1>1. /\ m \in Seq(Bytes) /\ Len(m) = 2 /\ m[1] = "IAC" /\ m[2] = "DM"
      /\ Len(s) \in Nat
  BY LenProperties
<1> HIDE DEF m
<1>2. /\ (s \o m)[Len(s) + 1] = m[1]
      /\ (s \o m)[Len(s) + 2] = m[2]
  BY <1>1, ConcatProperties
<1>3. Marked(st, s \o m, Len(s) + 2)
  <2>1. Len(s) + 2 # 1 /\ (Len(s) + 2) - 1 = Len(s) + 1
    BY <1>1
  <2> QED BY <1>1, <1>2, <2>1 DEF Marked
<1>4. \A i \in 1 .. Len(m) : i = 1 \/ i = 2
  BY <1>1
<1>5. Complete(m)
  <2> SUFFICES ASSUME NEW i \in 1 .. Len(m), m[i] \in {"CR", "IAC"}
               PROVE  Completes(m[i], m, i + 1)
    BY DEF Complete
  <2>1. i = 1 /\ m[i] = "IAC" /\ i + 1 = 2
    BY <1>1, <1>4
  <2> QED BY <1>1, <2>1 DEF Completes, Verbs
<1>6. NoCR(m)
  BY <1>1, <1>4 DEF NoCR
<1> QED BY <1>1, <1>3, <1>5, <1>6 DEF m

LEMMA ClientSynch ==
  ASSUME Compliant, IInv, SynchInv, Client
  PROVE  SynchInv'
<1>0. TypeOK
  BY DEF IInv
<1>1. /\ sock \in Seq(Bytes) /\ Coming \in Seq(Bytes)
      /\ Len(rawq) \in Nat /\ Len(sock) \in Nat /\ Len(Coming) \in Nat
      /\ Len(Coming) = Len(rawq) + Len(sock)
      /\ MarkPlace \in 0 .. Len(Coming)
  BY <1>0, ComingType
<1>2. /\ Complete(Coming) /\ Completes(State, Coming, 1)
      /\ Marked(State, Coming, MarkPlace)
      /\ Has("SYNCH") => DataMark(State, Coming)
      /\ "fail" \in Lpc => NoCR(Coming)
  BY DEF SynchInv
<1>3. ASSUME NEW m \in Seq(Bytes), Complete(m), "fail" \in Lpc => NoCR(m),
             sock' = sock \o m, Marked(State, Coming \o m, MarkPlace'),
             Has("URGENT") => mark' # 0,
             UNCHANGED <<t_flags, t_state, rawq, pc>>
      PROVE  SynchInv'
  <2>1. Coming' = Coming \o m /\ State' = State
    BY <1>0, <1>3, SentBehind DEF Coming, State
  <2>2. /\ Complete(Coming \o m) /\ Completes(State, Coming \o m, 1)
        /\ DataMark(State, Coming) => DataMark(State, Coming \o m)
        /\ NoCR(Coming) /\ NoCR(m) => NoCR(Coming \o m)
    BY <1>1, <1>2, <1>3, BytesAdded
  <2>3. /\ Complete(Coming') /\ Completes(State', Coming', 1)
        /\ Marked(State', Coming', MarkPlace')
        /\ Has("SYNCH") => DataMark(State', Coming')
        /\ "fail" \in Lpc => NoCR(Coming')
    BY <1>2, <1>3, <2>1, <2>2
  <2> QED BY <1>3, <2>3 DEF SynchInv, Has
<1>4. ASSUME NEW m \in Messages, Send(m) PROVE SynchInv'
  <2>1. /\ m \in Seq(Bytes) /\ Complete(m)
        /\ "fail" \in Lpc => NoCR(m)
    BY SizesAssumption DEF SizesAssumption, Compliant, NoCR
  <2>2. sock' = sock \o m /\ UNCHANGED <<t_flags, t_state, rawq, pc, mark>>
    BY <1>4 DEF Send, queues
  <2>3. MarkPlace' = MarkPlace /\ (Has("URGENT") => mark' # 0)
    BY <2>2 DEF MarkPlace, SynchInv
  <2>4. Marked(State, Coming \o m, MarkPlace')
    BY <1>1, <1>2, <2>1, <2>3, BytesAdded
  <2> QED BY <1>3, <2>1, <2>2, <2>3, <2>4
<1>5. CASE Synch
  <2> DEFINE m == <<"IAC", "DM">>
  <2>1. /\ sock' = sock \o m /\ mark' = Len(sock) + 2
        /\ UNCHANGED <<t_flags, t_state, rawq, pc>>
        /\ {"IAC", "DM"} \subseteq Bytes
    BY <1>5, SizesAssumption DEF Synch, queues, SizesAssumption
  <2>2. /\ m \in Seq(Bytes) /\ Complete(m) /\ NoCR(m)
        /\ Marked(State, Coming \o m, Len(Coming) + 2)
    BY <1>1, <2>1, SynchIsComplete
  <2>3. mark' # 0 /\ MarkPlace' = Len(Coming) + 2
    <3>1. mark' # 0 /\ Len(rawq) + mark' = Len(Coming) + 2
      BY <1>1, <2>1
    <3> QED BY <2>1, <3>1 DEF MarkPlace
  <2> HIDE DEF m
  <2> QED BY <1>3, <2>1, <2>2, <2>3
<1>6. CASE Close
  <2>1. UNCHANGED <<t_state, rawq, sock, mark, pc, t_flags>>
    BY <1>6 DEF Close, queues
  <2>2. NoNewSynch
    BY <2>1 DEF NoNewSynch
  <2> QED BY <2>1, <2>2, QuietKeeps
<1> QED BY <1>4, <1>5, <1>6 DEF Client

LEMMA InitSynch == Init => SynchInv
<1> SUFFICES ASSUME Init PROVE SynchInv
  OBVIOUS
<1>1. /\ t_flags = {"ENABW"} /\ t_state = "DATA" /\ pc = "closed"
      /\ rawq = <<>> /\ sock = <<>> /\ mark = 0
  BY DEF Init
<1>2. <<>> \o <<>> = <<>> /\ Len(<<>>) = 0
  OBVIOUS
<1>3. Coming = <<>> /\ State = "DATA" /\ MarkPlace = 0
  BY <1>1, <1>2 DEF Coming, State, MarkPlace
<1>4. Complete(<<>>) /\ Completes("DATA", <<>>, 1) /\ NoCR(<<>>)
  BY DEF Complete, Completes, NoCR
<1> QED BY <1>1, <1>3, <1>4 DEF SynchInv, Has, Marked

\* What comes behind a prefix.
LEMMA BehindPrefix ==
  ASSUME NEW S, NEW q \in Seq(S), NEW r \in Seq(S), NEW k \in Seq(S)
  PROVE  LET all == (q \o r) \o k IN
         /\ Len(all) = Len(q) + Len(r \o k)
         /\ \A i \in 1 .. Len(q) : all[i] = q[i]
         /\ \A i \in 1 .. Len(r \o k) : all[i + Len(q)] = (r \o k)[i]
<1> DEFINE t == r \o k
<1>1. (q \o r) \o k = q \o t
  BY ConcatAssociative
<1>2. t \in Seq(S)
  BY ConcatProperties
<1> HIDE DEF t
<1>3. Len(q) \in Nat /\ Len(t) \in Nat
  BY <1>2, LenProperties
<1>4. /\ Len(q \o t) = Len(q) + Len(t)
      /\ \A i \in 1 .. Len(q) + Len(t) :
           (q \o t)[i] = IF i <= Len(q) THEN q[i] ELSE t[i - Len(q)]
  BY <1>2, ConcatProperties
<1>5. \A i \in 1 .. Len(q) : (q \o t)[i] = q[i]
  BY <1>3, <1>4
<1>6. ASSUME NEW i \in 1 .. Len(t) PROVE (q \o t)[i + Len(q)] = t[i]
  <2>1. /\ i + Len(q) \in 1 .. Len(q) + Len(t) /\ ~(i + Len(q) <= Len(q))
        /\ i + Len(q) - Len(q) = i
    BY <1>3
  <2> QED BY <1>4, <2>1
<1> QED BY <1>1, <1>4, <1>5, <1>6 DEF t

\* A Data Mark that is to come is in the stream as SynchEnds reads it.
LEMMA DataMarkInStream ==
  ASSUME TypeOK, SynchInv
  PROVE  SynchEnds
<1> SUFFICES ASSUME Has("SYNCH")
             PROVE  \E i \in 1 .. Len(Stream) - 1 :
                      Stream[i] = "IAC" /\ Stream[i + 1] = "DM"
  BY DEF SynchEnds
<1>1. /\ rawq \in Seq(Bytes) /\ sock \in Seq(Bytes) /\ Coming \in Seq(Bytes)
      /\ Len(Coming) \in Nat
  BY ComingType
<1>2. DataMark(State, Coming)
  BY DEF SynchInv
<1> DEFINE pre == IF t_state = "IAC" THEN <<"IAC">> ELSE <<>>
           S == Bytes \cup {"IAC"}
           n == Len(pre)
<1>3. pre \in Seq(S) /\ n \in Nat
  <2>1. <<"IAC">> \in Seq(S) /\ <<>> \in Seq(S)
    OBVIOUS
  <2>2. pre \in Seq(S)
    BY <2>1
  <2> QED BY <2>2, LenProperties
<1>4. t_state = "IAC" => n = 1 /\ pre[1] = "IAC"
  OBVIOUS
<1>5. rawq \in Seq(S) /\ sock \in Seq(S) /\ Coming \in Seq(S)
  BY <1>1, SeqMonotonic
<1>6. Stream = (pre \o rawq) \o sock
  BY DEF Stream
<1> HIDE DEF pre, S, n
<1>7. /\ Len(Stream) = n + Len(Coming)
      /\ \A i \in 1 .. n : Stream[i] = pre[i]
      /\ \A i \in 1 .. Len(Coming) : Stream[i + n] = Coming[i]
  BY <1>3, <1>5, <1>6, BehindPrefix DEF Coming, n
<1>8. CASE State = "IAC" /\ Coming # <<>> /\ Coming[1] = "DM"
  <2>1. t_state = "IAC"
    BY <1>8 DEF State
  <2>2. Len(Coming) >= 1
    BY <1>1, <1>8, EmptySeq
  <2>3. Stream[1] = "IAC" /\ Stream[1 + 1] = "DM" /\ 1 \in 1 .. Len(Stream) - 1
    BY <1>1, <1>3, <1>4, <1>7, <1>8, <2>1, <2>2
  <2> QED BY <2>3
<1>9. CASE \E i \in 1 .. Len(Coming) - 1 :
             Coming[i] = "IAC" /\ Coming[i + 1] = "DM"
  <2>1. PICK i \in 1 .. Len(Coming) - 1 :
               Coming[i] = "IAC" /\ Coming[i + 1] = "DM"
    BY <1>9
  <2>2. /\ i + n \in 1 .. Len(Stream) - 1
        /\ Stream[i + n] = "IAC" /\ Stream[i + 1 + n] = "DM"
        /\ i + 1 + n = i + n + 1
    BY <1>1, <1>3, <1>7, <2>1
  <2> QED BY <2>2
<1> QED BY <1>2, <1>8, <1>9 DEF DataMark

\* telnet_exception() makes telnet_input() throw away what the player types
\* until telnet_dm() sees the Data Mark.  With a client that sends its
\* commands in one piece and something behind each CR, the Data Mark is
\* still in the raw queue or in the kernel as long as input is thrown away,
\* however bytes, urgent marks, Synchs, overflows and turns interleave.
THEOREM SynchAlwaysEnds ==
  ASSUME Compliant
  PROVE  Spec => []SynchEnds
<1>1. Init => SynchInv
  BY InitSynch
<1>2. ASSUME IInv, SynchInv, [Next]_vars
      PROVE  SynchInv'
  <2>1. CASE UNCHANGED vars
    <3>1. UNCHANGED <<t_state, rawq, sock, mark, pc, t_flags>>
      BY <2>1 DEF vars
    <3>2. NoNewSynch
      BY <3>1 DEF NoNewSynch
    <3> QED BY <1>2, <3>1, <3>2, QuietKeeps
  <2> QED BY <1>2, <2>1, LpcSynch, TurnSynch, InputSynch, EolSynch, ClientSynch
          DEF Next
<1>3. IInv /\ SynchInv => SynchEnds
  BY DataMarkInStream DEF IInv
<1> QED BY <1>1, <1>2, <1>3, Invariance, PTL DEF Spec

-----------------------------------------------------------------------------
(* Lines are what was typed.                                               *)

\* The canonical queue holds what was typed, or is full of the beginning of
\* a line that is too long.
Canonical(q, ty, overflow) ==
  /\ Len(ty) <= CANQ_SIZE => q = ty /\ ~overflow
  /\ Len(ty) > CANQ_SIZE => Len(q) = CANQ_SIZE /\ overflow

NoNul(s) == \A i \in 1 .. Len(s) : s[i] # "NUL"

\* While LPC code has the line, nothing is typed yet of the next one.
LineInv ==
  /\ mark = 0 /\ "SYNCH" \notin t_flags
  /\ NoNul(typed)
  /\ pc # "lpc" => Canonical(canq, typed, "OVFLCANQ" \in t_flags)
  /\ pc = "lpc" => typed = <<>> /\ "OVFLCANQ" \notin t_flags

SameLineFlags ==
  \A f \in {"SYNCH", "OVFLCANQ"} : f \in t_flags' <=> f \in t_flags

\* A line without NUL is the C string that it is.
LEMMA CStringOfLine ==
  ASSUME NEW S, NEW q \in Seq(S), NoNul(q)
  PROVE  CString(q) = q
<1>1. Len(q) \in Nat /\ \A i \in 1 .. Len(q) : q[i] \in S
  BY LenProperties, ElementOfSeq
<1>2. {i \in 1 .. Len(q) : \A j \in 1 .. i : q[j] # "NUL"} = 1 .. Len(q)
  <2>1. ASSUME NEW i \in 1 .. Len(q), NEW j \in 1 .. i PROVE q[j] # "NUL"
    <3>1. j \in 1 .. Len(q)
      BY <1>1
    <3> QED BY <3>1 DEF NoNul
  <2> QED BY <2>1
<1>3. Cardinality(1 .. Len(q)) = Len(q)
  <2>1. Cardinality(1 .. Len(q)) = IF 1 > Len(q) THEN 0 ELSE Len(q) - 1 + 1
    BY SMTT(60), <1>1, FS_Interval
  <2> QED BY <1>1, <2>1
<1>4. StrLen(q) = Len(q)
  BY <1>2, <1>3 DEF StrLen
<1> DEFINE r == SubSeq(q, 1, Len(q))
<1>5. r \in Seq(S) /\ Len(r) = Len(q) /\ \A i \in 1 .. Len(q) : r[i] = q[i]
  BY <1>1, SubSeqProperties
<1> HIDE DEF r
<1>6. r = q
  BY <1>5, SeqEqual
<1> QED BY <1>4, <1>6 DEF CString, r

\* A step that touches neither the line nor the interpreter.
LEMMA LineKeeps ==
  ASSUME LineInv, UNCHANGED <<canq, typed>>, mark' = 0, SameLineFlags,
         pc = "lpc" <=> pc' = "lpc"
  PROVE  LineInv'
<1>1. /\ "SYNCH" \notin t_flags'
      /\ "OVFLCANQ" \in t_flags' <=> "OVFLCANQ" \in t_flags
  BY DEF LineInv, SameLineFlags
<1>2. NoNul(typed')
  BY DEF LineInv
<1>3. pc' # "lpc" => Canonical(canq', typed', "OVFLCANQ" \in t_flags')
  BY <1>1 DEF LineInv, Canonical
<1> QED BY <1>1, <1>2, <1>3 DEF LineInv

\* telnet_output() and what uses it leave the flags of the line alone.
LEMMA OutputLine ==
  ASSUME NEW n, NEW k
  PROVE  /\ \A f \in {"SYNCH", "OVFLCANQ"} :
              f \in Output(n, k).fl <=> f \in t_flags
         /\ Removed(n, k) => SameLineFlags
<1>1. \A f \in {"SYNCH", "OVFLCANQ"} :
        f \in Enabw(t_flags, nd_mask).fl <=> f \in t_flags
  BY DEF Enabw, Enabled
<1>2. \A f \in {"SYNCH", "OVFLCANQ"} : f \in Output(n, k).fl <=> f \in t_flags
  BY <1>1 DEF Output
<1> QED BY <1>2 DEF Removed, SameLineFlags

LEMMA LpcLine ==
  ASSUME LineInv,
         \/ \E n \in Outs : telnet_accept(n)
         \/ \E r \in SUBSET {"R", "W", "X"}, others \in BOOLEAN :
              Select(r, others)
         \/ LpcStep
  PROVE  LineInv'
<1>0. mark = 0
  BY DEF LineInv
<1>1. ASSUME NEW n \in Outs, telnet_accept(n) PROVE LineInv'
  <2>1. /\ UNCHANGED <<canq, typed, mark>> /\ pc # "lpc" /\ pc' # "lpc"
        /\ t_flags' = Output(n, 0).fl \cup {"ATTACH"}
    BY <1>1 DEF telnet_accept, net
  <2>2. SameLineFlags
    BY <2>1, OutputLine DEF SameLineFlags
  <2> QED BY <1>0, <2>1, <2>2, LineKeeps
<1>2. ASSUME NEW r, NEW others, Select(r, others) PROVE LineInv'
  <2>1. /\ UNCHANGED <<canq, typed, mark, t_flags>>
        /\ pc # "lpc" /\ pc' # "lpc"
    BY <1>2 DEF Select, net, queues
  <2> QED BY <1>0, <2>1, LineKeeps DEF SameLineFlags
<1>3. ASSUME NEW n, NEW k, Write_(n, k) PROVE LineInv'
  <2>1. UNCHANGED <<canq, typed, mark, pc>> /\ t_flags' = Output(n, k).fl
    BY <1>3 DEF Write_, net
  <2>2. SameLineFlags
    BY <2>1, OutputLine DEF SameLineFlags
  <2> QED BY <1>0, <2>1, <2>2, LineKeeps
<1>4. ASSUME Quit PROVE LineInv'
  <2>1. UNCHANGED <<canq, typed, mark, pc>> /\ SameLineFlags
    BY <1>4, OutputLine DEF Quit, net
  <2> QED BY <1>0, <2>1, LineKeeps
<1>5. ASSUME NEW on, Echo(on) PROVE LineInv'
  <2>1. UNCHANGED <<canq, typed, mark, pc>> /\ (t_flags' = t_flags \/ Put(3))
    BY <1>5 DEF Echo, net
  <2>2. SameLineFlags
    BY <2>1 DEF SameLineFlags, Put, Enabw, Enabled
  <2> QED BY <1>0, <2>1, <2>2, LineKeeps
<1> QED BY <1>1, <1>2, <1>3, <1>4, <1>5 DEF LpcStep

\* An empty line.
LEMMA EmptyLine == NoNul(<<>>) /\ Canonical(<<>>, <<>>, FALSE)
<1>1. Len(<<>>) = 0 /\ 0 <= CANQ_SIZE /\ ~(0 > CANQ_SIZE)
  BY Sizes
<1> QED BY <1>1 DEF NoNul, Canonical

LEMMA TurnLine ==
  ASSUME IInv, LineInv, Turn
  PROVE  LineInv'
<1>0. mark = 0
  BY DEF LineInv
<1>1. CASE telnet_exception
  <2>1. pc # "closed" /\ "X" \in ready
    BY <1>1 DEF telnet_exception, InTurn
  <2> QED BY <1>0, <2>1 DEF IInv, Wake, MarkOK
<1>2. ASSUME NEW n \in 0 .. OUTQ_SIZE, telnet_write(n) PROVE LineInv'
  <2>1. /\ UNCHANGED <<canq, typed, mark>> /\ pc # "lpc" /\ pc' # "lpc"
        /\ t_flags' = Written(outq - n).fl
    BY <1>2 DEF telnet_write, InTurn, net
  <2>2. \A f \in {"SYNCH", "OVFLCANQ"} :
          f \in Written(outq - n).fl <=> f \in t_flags
    BY DEF Written
  <2> QED BY <1>0, <2>1, <2>2, LineKeeps DEF SameLineFlags
<1>3. CASE WriteFails \/ ReadFails
  <2>1. /\ UNCHANGED <<canq, typed, mark>> /\ pc # "lpc" /\ pc' # "lpc"
        /\ Disconnected
    BY <1>3 DEF WriteFails, ReadFails, InTurn, net
  <2>2. SameLineFlags
    BY <2>1, OutputLine DEF Disconnected, SameLineFlags
  <2> QED BY <1>0, <2>1, <2>2, LineKeeps
<1>4. ASSUME NEW n \in 0 .. RAWQ_SIZE, telnet_read(n) PROVE LineInv'
  <2>1. /\ UNCHANGED <<canq, typed>> /\ pc # "lpc" /\ pc' # "lpc"
        /\ mark' = IF n >= mark THEN 0 ELSE mark - n
    BY <1>4 DEF telnet_read, InTurn
  <2>2. mark' = 0
    BY <1>0, <2>1
  <2>3. SameLineFlags
    BY <1>4 DEF telnet_read, Enabr, Enabled, Has, SameLineFlags
  <2> QED BY <2>1, <2>2, <2>3, LineKeeps
<1>5. CASE Cleanup
  <2>1. CASE /\ UNCHANGED <<canq, typed, mark, t_flags>>
             /\ pc # "lpc" /\ pc' # "lpc"
    BY <1>0, <2>1, LineKeeps DEF SameLineFlags
  <2>2. CASE telnet_shutdown
    <3>1. /\ t_flags' = {"ENABW"} /\ pc' = "closed" /\ mark' = 0
          /\ canq' = <<>> /\ typed' = <<>>
      BY <2>2 DEF telnet_shutdown
    <3>2. ("OVFLCANQ" \in t_flags') = FALSE /\ "SYNCH" \notin t_flags'
      BY <3>1
    <3> QED BY <3>1, <3>2, EmptyLine DEF LineInv
  <2> QED BY <1>5, <2>1, <2>2 DEF Cleanup, InTurn, queues, net
<1> QED BY <1>1, <1>2, <1>3, <1>4, <1>5 DEF Turn

\* A byte typed: it is put into the queue, fills it up, or is lost.
LEMMA PutcLine ==
  ASSUME IInv, LineInv, CanqPutc
  PROVE  LineInv'
<1>1. /\ NextByte /\ pc' = pc /\ pc = "input" /\ mark' = mark
      /\ b # "NUL" /\ ~Has("SYNCH") /\ typed' = Append(typed, b)
  BY DEF CanqPutc, net, NextByte, LineInv, Has, Control
<1>2. /\ typed \in Seq(Bytes) /\ Len(typed) \in Nat /\ b \in Bytes
      /\ CANQ_SIZE \in Nat
      /\ Canonical(canq, typed, "OVFLCANQ" \in t_flags) /\ NoNul(typed)
  BY <1>1, ByteFacts, Sizes DEF LineInv
<1>3. /\ Len(typed') = Len(typed) + 1
      /\ \A i \in 1 .. Len(typed) : typed'[i] = typed[i]
      /\ typed'[Len(typed) + 1] = b
  BY <1>1, <1>2, AppendProperties
<1>4. NoNul(typed')
  BY <1>1, <1>2, <1>3 DEF NoNul
<1>5. CASE ~Discarding /\ ~CanFull
  <2>1. canq' = Append(canq, b) /\ t_flags' = t_flags
    BY <1>5 DEF CanqPutc
  <2>2. "OVFLCANQ" \notin t_flags /\ canq = typed /\ Len(canq) # CANQ_SIZE
        /\ Len(typed) <= CANQ_SIZE
    BY <1>2, <1>5 DEF Discarding, CanFull, Has, Canonical
  <2>3. Len(typed') <= CANQ_SIZE /\ canq' = typed'
    BY <1>1, <1>2, <1>3, <2>1, <2>2
  <2>4. Canonical(canq', typed', "OVFLCANQ" \in t_flags')
    BY <1>2, <1>3, <2>1, <2>2, <2>3 DEF Canonical
  <2> QED BY <1>1, <1>4, <2>1, <2>4 DEF LineInv
<1>6. CASE ~Discarding /\ CanFull
  <2>1. /\ canq' = canq
        /\ t_flags' = Enabw(t_flags, nd_mask).fl \cup {"OVFLCANQ"}
    BY <1>6 DEF CanqPutc
  <2>2. "OVFLCANQ" \in t_flags' /\ "SYNCH" \notin t_flags'
    BY <1>1, <2>1 DEF Enabw, Enabled, Has
  <2>3. canq = typed /\ Len(canq) = CANQ_SIZE
    BY <1>2, <1>6 DEF Discarding, CanFull, Has, Canonical
  <2>4. Len(typed') > CANQ_SIZE /\ ~(Len(typed') <= CANQ_SIZE)
        /\ Len(canq') = CANQ_SIZE
    BY <1>2, <1>3, <2>1, <2>3
  <2>5. Canonical(canq', typed', "OVFLCANQ" \in t_flags')
    BY <2>2, <2>4 DEF Canonical
  <2> QED BY <1>1, <1>4, <2>2, <2>5 DEF LineInv
<1>7. CASE Discarding
  <2>1. canq' = canq /\ t_flags' = t_flags
    BY <1>7 DEF CanqPutc
  <2>2. "OVFLCANQ" \in t_flags
    BY <1>1, <1>7 DEF Discarding, Has
  <2>3. Len(typed) > CANQ_SIZE /\ Len(canq) = CANQ_SIZE
    BY <1>2, <2>2 DEF Canonical
  <2>4. Len(typed') > CANQ_SIZE /\ ~(Len(typed') <= CANQ_SIZE)
    BY <1>2, <1>3, <2>3
  <2>5. Canonical(canq', typed', "OVFLCANQ" \in t_flags')
    BY <2>1, <2>2, <2>3, <2>4 DEF Canonical
  <2> QED BY <1>1, <1>4, <2>1, <2>5 DEF LineInv
<1> QED BY <1>5, <1>6, <1>7

\* Front of a line.
LEMMA FrontLine ==
  ASSUME NEW S, NEW q \in Seq(S), q # <<>>, NoNul(q)
  PROVE  NoNul(Front(q)) /\ Len(Front(q)) <= Len(q)
<1>1. PICK n \in Nat : n = Len(q) /\ n # 0 /\ \A i \in 1 .. n : q[i] \in S
  BY LenProperties, EmptySeq, ElementOfSeq
<1>2. n - 1 \in Int /\ \A i \in 1 .. n - 1 : q[i] \in S
  BY <1>1
<1>3. /\ Len(SubSeq(q, 1, n - 1)) = IF 1 <= n - 1 THEN n - 1 - 1 + 1 ELSE 0
      /\ \A i \in 1 .. n - 1 - 1 + 1 : SubSeq(q, 1, n - 1)[i] = q[1 + i - 1]
  BY <1>2, SubSeqProperties
<1>4. Front(q) = SubSeq(q, 1, n - 1)
  BY <1>1 DEF Front
<1>5. Len(Front(q)) = n - 1
  BY <1>1, <1>3, <1>4
<1>6. \A i \in 1 .. n - 1 : Front(q)[i] = q[i]
  BY <1>1, <1>3, <1>4
<1>7. NoNul(Front(q))
  BY <1>1, <1>5, <1>6 DEF NoNul
<1> QED BY <1>1, <1>5, <1>7

\* Erase Character and Erase Line erase what was typed, unless the line is
\* too long already.
LEMMA EraseLine ==
  ASSUME IInv, LineInv, telnet_ec \/ telnet_el
  PROVE  LineInv'
<1>1. /\ NextByte /\ pc = "input" /\ UNCHANGED <<pc, mark, t_flags>>
      /\ ~Has("SYNCH")
  BY DEF telnet_ec, telnet_el, net, NextByte, LineInv, Has
<1>2. /\ typed \in Seq(Bytes) /\ Len(typed) \in Nat /\ CANQ_SIZE \in Nat
      /\ Canonical(canq, typed, "OVFLCANQ" \in t_flags) /\ NoNul(typed)
  BY <1>1, ByteFacts, Sizes DEF LineInv
<1>3. Discarding <=> TooLong
  BY <1>1, <1>2 DEF Discarding, TooLong, Canonical, Has
<1>4. CASE TooLong
  <2>1. canq' = canq /\ typed' = typed
    BY <1>3, <1>4 DEF telnet_ec, telnet_el
  <2> QED BY <1>1, <2>1, LineKeeps DEF SameLineFlags, LineInv
<1>5. CASE ~TooLong
  <2>1. canq = typed /\ "OVFLCANQ" \notin t_flags /\ Len(typed) <= CANQ_SIZE
    BY <1>2, <1>5 DEF TooLong, Canonical
  <2>2. /\ canq' = typed'
        /\ \/ typed' = typed
           \/ typed' = <<>>
           \/ typed # <<>> /\ typed' = Front(typed)
    <3>1. CASE telnet_ec
      <4>1. /\ canq' = IF canq = <<>> THEN canq ELSE Front(canq)
            /\ typed' = IF typed = <<>> THEN typed ELSE Front(typed)
        BY <1>3, <1>5, <3>1, Zenon DEF telnet_ec
      <4> QED BY <2>1, <4>1, Zenon
    <3>2. CASE telnet_el
      BY <1>3, <1>5, <3>2, Zenon DEF telnet_el
    <3> QED BY <3>1, <3>2
  <2>3. NoNul(typed') /\ Len(typed') <= CANQ_SIZE /\ Len(typed') \in Nat
    <3>1. CASE typed' = typed
      BY <1>2, <2>1, <3>1
    <3>2. CASE typed' = <<>>
      BY <1>2, <3>2, EmptyLine
    <3>3. CASE typed # <<>> /\ typed' = Front(typed)
      <4>1. /\ NoNul(Front(typed)) /\ Len(Front(typed)) <= Len(typed)
            /\ Len(Front(typed)) = Len(typed) - 1
        BY <1>2, <3>3, FrontLine, FrontType
      <4>2. Len(typed) # 0
        BY <1>2, <3>3, EmptySeq
      <4> QED BY <1>2, <2>1, <3>3, <4>1, <4>2
    <3> QED BY <2>2, <3>1, <3>2, <3>3
  <2>4. ~(Len(typed') > CANQ_SIZE)
    BY <1>2, <2>3
  <2>5. Canonical(canq', typed', "OVFLCANQ" \in t_flags')
    BY <1>1, <2>1, <2>2, <2>3, <2>4 DEF Canonical
  <2> QED BY <1>1, <2>3, <2>5 DEF LineInv, Has
<1> QED BY <1>4, <1>5

\* telnet_eol(): the line passed on.
LEMMA EolEnterLine ==
  ASSUME IInv, LineInv, EolEnter
  PROVE  /\ LineInv'
         /\ line' = IF Len(typed) < CANQ_SIZE THEN typed ELSE <<>>
<1>1. /\ NextByte /\ pc = "input" /\ pc' = "lpc" /\ typed' = <<>>
      /\ mark' = mark
      /\ line' = IF CanFull THEN <<>> ELSE CString(canq)
      /\ t_flags' = IF CanFull THEN t_flags \ {"OVFLCANQ"} ELSE t_flags
  BY DEF EolEnter, net, NextByte
<1>2. /\ typed \in Seq(Bytes) /\ Len(typed) \in Nat /\ CANQ_SIZE \in Nat
      /\ Canonical(canq, typed, "OVFLCANQ" \in t_flags) /\ NoNul(typed)
  BY <1>1, ByteFacts, Sizes DEF LineInv
<1>3. CASE CanFull
  <2>1. ~(Len(typed) < CANQ_SIZE)
    BY <1>2, <1>3 DEF CanFull, Canonical
  <2> QED BY <1>1, <1>3, <2>1, EmptyLine DEF LineInv
<1>4. CASE ~CanFull
  <2>1. canq = typed /\ Len(typed) < CANQ_SIZE /\ "OVFLCANQ" \notin t_flags
    BY <1>2, <1>4 DEF CanFull, Canonical
  <2>2. CString(canq) = typed
    BY <1>2, <2>1, CStringOfLine
  <2> QED BY <1>1, <1>4, <2>1, <2>2, EmptyLine DEF LineInv
<1> QED BY <1>3, <1>4

LEMMA InputLine ==
  ASSUME IInv, LineInv, Input
  PROVE  LineInv'
<1>0. mark = 0
  BY DEF LineInv
<1>1. CASE FlowControl
  <2>1. UNCHANGED <<canq, typed, mark>> /\ pc # "lpc" /\ pc' # "lpc"
        /\ SameLineFlags
    BY <1>1 DEF FlowControl, queues, net, SameLineFlags
  <2> QED BY <1>0, <2>1, LineKeeps
<1>2. CASE InputDone
  <2>1. UNCHANGED <<canq, typed, mark>> /\ pc # "lpc" /\ pc' # "lpc"
    BY <1>2 DEF InputDone, net
  <2>2. SameLineFlags
    BY <1>2 DEF InputDone, Enabr, Enabw, Enabled, SameLineFlags
  <2> QED BY <1>0, <2>1, <2>2, LineKeeps
<1>3. CASE EolDropped
  BY <1>3 DEF EolDropped, LineInv, Has
<1>4. CASE Move \/ telnet_dm \/ OptqPutc \/ telnet_se
  <2>1. UNCHANGED <<canq, typed, mark, pc>>
    BY <1>4 DEF Move, telnet_dm, OptqPutc, telnet_se, net
  <2>2. SameLineFlags
    BY <1>4 DEF Move, telnet_dm, OptqPutc, telnet_se, SameLineFlags, LineInv
  <2> QED BY <1>0, <2>1, <2>2, LineKeeps
<1>5. CASE telnet_ayt
  <2>1. UNCHANGED <<canq, typed, mark, pc>> /\ Put(AYT_LEN)
    BY <1>5 DEF telnet_ayt, net
  <2>2. SameLineFlags
    BY <2>1 DEF Put, Enabw, Enabled, SameLineFlags
  <2> QED BY <1>0, <2>1, <2>2, LineKeeps
<1>6. CASE OnUs \/ OnHim
  <2>1. UNCHANGED <<canq, typed, mark, pc>>
    BY <1>6 DEF OnUs, OnHim, net
  <2>2. \E sent, fl : /\ Answered(sent, fl)
                      /\ fl \in {t_flags, t_flags \cup {"SGA"}, t_flags \ {"SGA"}}
    BY <1>6 DEF OnUs, OnHim
  <2>3. SameLineFlags
    BY <2>2 DEF Answered, Enabw, Enabled, SameLineFlags
  <2> QED BY <1>0, <2>1, <2>3, LineKeeps
<1> QED BY <1>1, <1>2, <1>3, <1>4, <1>5, <1>6, PutcLine, EraseLine, EolEnterLine
        DEF Input

\* telnet_eol() sends the contents of the canonical queue to the player's
\* object: whatever bytes come in whatever pieces, with erased characters
\* and lines, overflows, congestion and commands of the protocol among them,
\* every line that LPC code gets is what was typed since the line before it,
\* or empty if that does not fit.  It holds as long as interactive_input()
\* returns and the client sends no Synch: an error leaves the old line in
\* the queue, and a Synch leaves the mark that the line is too long.
THEOREM LinesAreTyped ==
  ASSUME "fail" \notin Lpc, ~Synchs
  PROVE  Spec => LineIsTyped
<1>1. Init => LineInv
  <2> SUFFICES ASSUME Init PROVE LineInv
    OBVIOUS
  <2>1. /\ t_flags = {"ENABW"} /\ pc = "closed" /\ mark = 0
        /\ canq = <<>> /\ typed = <<>>
    BY DEF Init
  <2>2. ("OVFLCANQ" \in t_flags) = FALSE /\ "SYNCH" \notin t_flags
    BY <2>1
  <2> QED BY <2>1, <2>2, EmptyLine DEF LineInv
<1>2. ASSUME IInv, LineInv, [Next]_vars
      PROVE  LineInv'
  <2>0. mark = 0
    BY <1>2 DEF LineInv
  <2>1. CASE UNCHANGED vars
    BY <1>2, <2>0, <2>1, LineKeeps DEF vars, SameLineFlags
  <2>2. CASE Client
    <3>1. UNCHANGED <<canq, typed, mark, pc, t_flags>>
      BY <2>2 DEF Client, Send, Synch, Close, queues
    <3> QED BY <1>2, <2>0, <3>1, LineKeeps DEF SameLineFlags
  <2>3. CASE EolReturn
    <3>1. /\ canq' = <<>> /\ typed' = typed /\ mark' = mark /\ pc' = "idle"
          /\ pc = "lpc" /\ t_flags' \subseteq t_flags
      BY <2>3 DEF EolReturn, net
    <3>2. /\ typed' = <<>> /\ ("OVFLCANQ" \in t_flags') = FALSE
          /\ "SYNCH" \notin t_flags'
      BY <1>2, <3>1 DEF LineInv
    <3> QED BY <2>0, <3>1, <3>2, EmptyLine DEF LineInv
  <2>4. ~EolFails
    BY DEF EolFails
  <2> QED BY <1>2, <2>1, <2>2, <2>3, <2>4, LpcLine, TurnLine, InputLine DEF Next
<1>3. ASSUME IInv, LineInv, [Next]_vars
      PROVE  [pc = "input" /\ pc' = "lpc" =>
                line' = IF Len(typed) < CANQ_SIZE THEN typed ELSE <<>>]_vars
  <2> SUFFICES ASSUME Next, pc = "input", pc' = "lpc"
               PROVE  line' = IF Len(typed) < CANQ_SIZE THEN typed ELSE <<>>
    BY <1>3
  <2>1. EolEnter
    <3>1. ~Turn
      BY DEF Turn, telnet_exception, telnet_write, WriteFails, telnet_read,
             ReadFails, Cleanup, InTurn
    <3>2. ~LpcStep /\ ~EolReturn /\ ~EolFails /\ ~Client
      BY DEF LpcStep, Write_, Quit, Echo, InLpc, EolReturn, EolFails, Client,
             Send, Synch, Close
    <3>3. /\ ~\E n \in Outs : telnet_accept(n)
          /\ ~\E r \in SUBSET {"R", "W", "X"}, others \in BOOLEAN :
                Select(r, others)
      BY DEF telnet_accept, Select
    <3>4. Input
      BY <3>1, <3>2, <3>3 DEF Next
    <3>5. /\ ~FlowControl /\ ~InputDone /\ ~CanqPutc /\ ~telnet_ec /\ ~telnet_el
          /\ ~EolDropped /\ ~Move /\ ~telnet_dm /\ ~telnet_ayt /\ ~OptqPutc
          /\ ~telnet_se /\ ~OnUs /\ ~OnHim
      BY DEF FlowControl, InputDone, CanqPutc, telnet_ec, telnet_el, EolDropped,
             Move, telnet_dm, telnet_ayt, OptqPutc, telnet_se, OnUs, OnHim
    <3> QED BY <3>4, <3>5 DEF Input
  <2> QED BY <1>3, <2>1, EolEnterLine
<1> QED BY <1>1, <1>2, <1>3, Invariance, PTL DEF Spec, LineIsTyped

=============================================================================
