--------------------------- MODULE NQueueProofs ----------------------------
(***************************************************************************)
(* Proofs about the network queue, for a ring of any size and any bytes.   *)
(***************************************************************************)
EXTENDS NQueue, SequenceTheorems, TLAPS

\* The type invariant and RingOK are inductive together: the pointers stay
\* in the ring because the length tells how far apart they are.  In its
\* loop nq_send() has something left to send.
IInv == TypeOK /\ RingOK /\ (sending => nq_len > 0 /\ rest = <<>>)

\* A run copied into the ring leaves a ring of bytes.
LEMMA CopiedType ==
  ASSUME NEW b \in [Cells -> Byte], NEW w \in Cells, NEW s \in Seq(Byte)
  PROVE  Copied(b, w, s) \in [Cells -> Byte]
<1>1. nq_size \in Nat
  BY SizeAssumption
<1>2. ASSUME NEW i \in Cells, i \in w .. w + Len(s) - 1
      PROVE  s[i - w + 1] \in Byte
  <2>1. Len(s) \in Nat
    BY LenProperties
  <2>2. i - w + 1 \in 1 .. Len(s)
    BY <1>1, <1>2, <2>1 DEF Cells
  <2> QED
    BY <2>2, ElementOfSeq
<1> QED
  BY <1>2 DEF Copied

\* The inductive invariant holds of every behaviour of the queue.
THEOREM Invariance == Spec => []IInv
<1>0. nq_size \in Nat /\ nq_size > 0
  BY SizeAssumption
<1>1. Init => IInv
  <2> SUFFICES ASSUME Init PROVE IInv
    OBVIOUS
  <2>1. rest \in Seq(Byte) /\ Len(rest) = 0
    BY EmptySeq DEF Init
  <2>a. nq_len \in Int /\ nq_rptr \in Cells /\ nq_wptr \in Cells
    BY <1>0 DEF Init, Cells
  <2>2. TypeOK
    BY <2>1, <2>a, Zenon DEF Init, TypeOK
  <2>3. RingOK /\ ~sending
    BY <1>0, <2>1 DEF Init, RingOK, Cell, nq_avail
  <2> QED
    BY <2>2, <2>3 DEF IInv
<1>2. IInv /\ [Next]_vars => IInv'
  <2> SUFFICES ASSUME IInv, [Next]_vars PROVE IInv'
    OBVIOUS
  <2>0. Len(rest) \in Nat
    BY LenProperties DEF IInv, TypeOK
  <2>a. /\ buf \in [Cells -> Byte] /\ rest \in Seq(Byte)
        /\ nq_rptr \in Cells /\ nq_wptr \in Cells
    BY DEF IInv, TypeOK
  <2>e. Idle => Len(rest) = 0
    BY EmptySeq DEF Idle
  <2>1. CASE nq_init
    BY <1>0, <2>0, <2>e, <2>1
    DEF nq_init, Idle, IInv, TypeOK, RingOK, Cell, Cells, nq_avail
  <2>2. CASE nq_getc
    BY <1>0, <2>0, <2>e, <2>2
    DEF nq_getc, Idle, IInv, TypeOK, RingOK, Cell, Cells, nq_avail, nq_empty,
        Wrapped
  <2>3. ASSUME NEW c \in Byte, nq_ungetc(c) PROVE IInv'
    BY <1>0, <2>0, <2>e, <2>3
    DEF nq_ungetc, Idle, IInv, TypeOK, RingOK, Cell, Cells, nq_avail, nq_full,
        Before
  <2>4. ASSUME NEW c \in Byte, nq_putc(c) PROVE IInv'
    BY <1>0, <2>0, <2>e, <2>4
    DEF nq_putc, Idle, IInv, TypeOK, RingOK, Cell, Cells, nq_avail, nq_full,
        Wrapped
  <2>5. CASE nq_unputc
    BY <1>0, <2>0, <2>e, <2>5
    DEF nq_unputc, Idle, IInv, TypeOK, RingOK, Cell, Cells, nq_avail, nq_empty,
        Before
  <2>6. ASSUME NEW s \in Strings, nq_puts(s) PROVE IInv'
    <3>1. s \in Seq(Byte)
      BY <1>0 DEF Strings
    <3> QED
      BY <1>0, <2>0, <2>6, <3>1
      DEF nq_puts, ring, Idle, IInv, TypeOK, RingOK, Cell, Cells, nq_avail
  <2>7. CASE PutsRun
    <3> DEFINE run == FreeRun(nq_rptr, nq_wptr)
               size == IF run > Len(rest) THEN Len(rest) ELSE run
               left == SubSeq(rest, size + 1, Len(rest))
    <3>1. rest # <<>> /\ Len(rest) > 0
      BY <2>0, <2>7, EmptySeq DEF PutsRun, IInv, TypeOK
    <3>2. run \in Nat /\ run > 0
      BY <1>0 DEF FreeRun, IInv, TypeOK, Cells
    <3> HIDE DEF run
    <3>3. /\ size \in 1 .. Len(rest)
          /\ size <= run
      BY <2>0, <3>1, <3>2
    <3> HIDE DEF size
    <3>4. left \in Seq(Byte) /\ Len(left) = Len(rest) - size
      BY <2>0, <2>a, <3>3, SubSeqProperties
    <3> HIDE DEF left
    <3>5. SubSeq(rest, 1, size) \in Seq(Byte)
      BY <2>0, <2>a, <3>3, SubSeqProperties
    <3>6. /\ buf' = Copied(buf, nq_wptr, SubSeq(rest, 1, size))
          /\ nq_len' = nq_len + size
          /\ nq_wptr' = Wrapped(nq_wptr + size)
          /\ rest' = left
          /\ UNCHANGED <<nq_rptr, sending>>
          /\ ~sending
      BY <2>7, <3>1 DEF PutsRun, size, run, left, IInv
    <3>7. buf' \in [Cells -> Byte]
      BY <2>a, <3>5, <3>6, CopiedType
    <3>8. TypeOK' /\ RingOK'
      BY <1>0, <2>0, <3>3, <3>4, <3>6, <3>7
      DEF IInv, TypeOK, RingOK, Cell, Cells, nq_avail, Wrapped, run, FreeRun
    <3> QED
      BY <3>6, <3>8 DEF IInv
  <2>8. ASSUME NEW s \in Strings, nq_recv(s) PROVE IInv'
    <3>1. s \in Seq(Byte) /\ Len(s) \in Nat
      BY <1>0 DEF Strings
    <3>2. buf' \in [Cells -> Byte]
      BY <2>8, <2>a, <3>1, CopiedType DEF nq_recv
    <3> QED
      BY <1>0, <2>0, <2>e, <2>8, <3>1, <3>2
      DEF nq_recv, Idle, IInv, TypeOK, RingOK, Cell, Cells, nq_avail, nq_full,
          Wrapped, FreeRun
  <2>9. CASE nq_send
    BY <1>0, <2>0, <2>9
    DEF nq_send, ring, Idle, IInv, TypeOK, RingOK, Cell, Cells, nq_avail,
        nq_empty
  <2>10. ASSUME NEW cc \in 0 .. nq_size, SendRun(cc) PROVE IInv'
    BY <1>0, <2>0, <2>10
    DEF SendRun, IInv, TypeOK, RingOK, Cell, Cells, nq_avail, Wrapped
  <2>11. CASE UNCHANGED vars
    BY <2>11 DEF vars, IInv, TypeOK, RingOK, nq_avail
  <2> QED
    BY <2>1, <2>2, <2>3, <2>4, <2>5, <2>6, <2>7, <2>8, <2>9, <2>10, <2>11
    DEF Next
<1> QED
  BY <1>1, <1>2, PTL DEF Spec

\* Every variable of the queue keeps its type: the pointers stay inside the
\* ring, so no operation touches memory outside of it.
THEOREM QueueTypes == Spec => []TypeOK
<1>1. IInv => TypeOK
  BY DEF IInv
<1> QED
  BY <1>1, Invariance, PTL

\* The length and the two pointers agree, for a ring of any size.
THEOREM RingConsistent == Spec => []RingOK
<1>1. IInv => RingOK
  BY DEF IInv
<1> QED
  BY <1>1, Invariance, PTL

-----------------------------------------------------------------------------
(* The ring implements the byte queue. *)

\* The n bytes of the ring b from the cell r on, head first.
InRing(b, r, n) == [i \in 1 .. n |-> b[Cell(r + i - 1)]]

\* What lies in the ring is a sequence of bytes.
LEMMA InRingSeq ==
  ASSUME NEW b \in [Cells -> Byte], NEW r \in Cells, NEW n \in 0 .. nq_size
  PROVE  /\ InRing(b, r, n) \in Seq(Byte)
         /\ Len(InRing(b, r, n)) = n
         /\ \A i \in 1 .. n : InRing(b, r, n)[i] = b[Cell(r + i - 1)]
<1>1. nq_size \in Nat /\ nq_size > 0
  BY SizeAssumption
<1>2. \A i \in 1 .. n : b[Cell(r + i - 1)] \in Byte
  BY <1>1 DEF Cell, Cells
<1>3. InRing(b, r, n) \in [1 .. n -> Byte]
  BY <1>2 DEF InRing
<1>4. n \in Nat
  BY <1>1
<1> QED
  BY <1>3, <1>4 DEF InRing

\* Moving the read pointer k cells on takes the first k bytes.
LEMMA RingTake ==
  ASSUME NEW b \in [Cells -> Byte], NEW r \in Cells, NEW n \in 0 .. nq_size,
         NEW k \in 0 .. n
  PROVE  InRing(b, Cell(r + k), n - k) = SubSeq(InRing(b, r, n), k + 1, n)
<1>1. nq_size \in Nat /\ nq_size > 0
  BY SizeAssumption
<1> DEFINE c == InRing(b, r, n)
           d == InRing(b, Cell(r + k), n - k)
<1>2. Cell(r + k) \in Cells /\ n - k \in 0 .. nq_size
  BY <1>1 DEF Cell, Cells
<1>3. /\ c \in Seq(Byte) /\ Len(c) = n
      /\ \A i \in 1 .. n : c[i] = b[Cell(r + i - 1)]
  BY InRingSeq
<1>4. /\ d \in Seq(Byte) /\ Len(d) = n - k
      /\ \A i \in 1 .. n - k : d[i] = b[Cell(Cell(r + k) + i - 1)]
  BY <1>2, InRingSeq
<1> HIDE DEF c, d
<1>5. \A i \in k + 1 .. n : c[i] \in Byte
  BY <1>1, <1>3, ElementOfSeq
<1>6. /\ SubSeq(c, k + 1, n) \in Seq(Byte)
      /\ Len(SubSeq(c, k + 1, n)) = n - k
      /\ \A i \in 1 .. n - k : SubSeq(c, k + 1, n)[i] = c[k + i]
  <2>1. k + 1 \in Int /\ n \in Int
    BY <1>1
  <2>2. /\ SubSeq(c, k + 1, n) \in Seq(Byte)
        /\ Len(SubSeq(c, k + 1, n))
             = IF k + 1 <= n THEN n - (k + 1) + 1 ELSE 0
        /\ \A i \in 1 .. n - (k + 1) + 1 :
             SubSeq(c, k + 1, n)[i] = c[k + 1 + i - 1]
    BY <1>5, <2>1, SubSeqProperties
  <2> HIDE DEF c
  <2>3. \A i \in 1 .. n - k : SubSeq(c, k + 1, n)[i] = c[k + i]
    <3> SUFFICES ASSUME NEW i \in 1 .. n - k
                 PROVE  SubSeq(c, k + 1, n)[i] = c[k + i]
      OBVIOUS
    <3>1. i \in 1 .. n - (k + 1) + 1 /\ k + 1 + i - 1 = k + i
      BY <1>1
    <3> QED
      BY <2>2, <3>1
  <2> QED
    BY <1>1, <2>2, <2>3
<1>7. \A i \in 1 .. n - k : d[i] = SubSeq(c, k + 1, n)[i]
  <2> SUFFICES ASSUME NEW i \in 1 .. n - k
               PROVE  d[i] = SubSeq(c, k + 1, n)[i]
    OBVIOUS
  <2>1. Cell(Cell(r + k) + i - 1) = Cell(r + (k + i) - 1) /\ k + i \in 1 .. n
    BY <1>1 DEF Cell, Cells
  <2> QED
    BY <1>3, <1>4, <1>6, <2>1
<1> QED
  BY <1>4, <1>6, <1>7, SeqEqual DEF c, d

\* Bytes copied to the free cells behind the last byte, up to the end of
\* the ring, are appended.
LEMMA RingAppend ==
  ASSUME NEW b \in [Cells -> Byte], NEW r \in Cells, NEW n \in 0 .. nq_size,
         NEW s \in Seq(Byte), n + Len(s) <= nq_size,
         Cell(r + n) + Len(s) <= nq_size
  PROVE  InRing(Copied(b, Cell(r + n), s), r, n + Len(s))
           = InRing(b, r, n) \o s
<1>1. nq_size \in Nat /\ nq_size > 0 /\ Len(s) \in Nat
  BY SizeAssumption, LenProperties
<1> DEFINE m == n + Len(s)
           w == Cell(r + n)
           e == Copied(b, w, s)
           c == InRing(b, r, n)
           d == InRing(e, r, m)
<1>2. m \in 0 .. nq_size
  BY <1>1
<1>w. w \in Cells
  BY <1>1 DEF Cell, Cells
<1>e. e \in [Cells -> Byte]
  BY <1>w, CopiedType
<1>3. /\ c \in Seq(Byte) /\ Len(c) = n
      /\ \A i \in 1 .. n : c[i] = b[Cell(r + i - 1)]
  BY InRingSeq
<1> HIDE DEF m, e, c
<1>4. /\ d \in Seq(Byte) /\ Len(d) = m
      /\ \A i \in 1 .. m : d[i] = e[Cell(r + i - 1)]
  BY <1>2, <1>e, InRingSeq
<1> HIDE DEF d
<1>5. /\ c \o s \in Seq(Byte) /\ Len(c \o s) = m
      /\ \A i \in 1 .. m : (c \o s)[i] = IF i <= n THEN c[i] ELSE s[i - n]
  BY <1>3, ConcatProperties DEF m
<1>6. \A i \in 1 .. m : d[i] = (c \o s)[i]
  <2> SUFFICES ASSUME NEW i \in 1 .. m PROVE d[i] = (c \o s)[i]
    OBVIOUS
  <2> DEFINE p == Cell(r + i - 1)
  <2>1. p \in Cells
    BY <1>1, <1>2 DEF Cell, Cells
  <2>2. e[p] = IF p \in w .. w + Len(s) - 1 THEN s[p - w + 1] ELSE b[p]
    BY <2>1 DEF e, Copied
  <2>3. CASE i <= n
    <3>1. p \notin w .. w + Len(s) - 1
      BY <1>1, <1>2, <2>3 DEF Cell, Cells, m
    <3> QED
      BY <1>3, <1>4, <1>5, <2>2, <2>3, <3>1
  <2>4. CASE ~ (i <= n)
    <3>1. p \in w .. w + Len(s) - 1 /\ p - w + 1 = i - n
      BY <1>1, <1>2, <2>4 DEF Cell, Cells, m
    <3> QED
      BY <1>4, <1>5, <2>2, <2>4, <3>1
  <2> QED
    BY <2>3, <2>4
<1> QED
  BY <1>4, <1>5, <1>6, SeqEqual DEF c, d, e, m

\* A byte stored before the first one is given back to the head.
LEMMA RingGiveBack ==
  ASSUME NEW b \in [Cells -> Byte], NEW r \in Cells, NEW n \in 0 .. nq_size,
         n < nq_size, NEW c \in Byte
  PROVE  InRing([b EXCEPT ![Before(r)] = c], Before(r), n + 1)
           = <<c>> \o InRing(b, r, n)
<1>1. nq_size \in Nat /\ nq_size > 0
  BY SizeAssumption
<1> DEFINE a == Before(r)
           e == [b EXCEPT ![a] = c]
           f == InRing(b, r, n)
           d == InRing(e, a, n + 1)
<1>2. a \in Cells /\ n + 1 \in 0 .. nq_size
  BY <1>1 DEF Before, Cells
<1>a. e \in [Cells -> Byte]
  BY <1>2
<1>3. /\ f \in Seq(Byte) /\ Len(f) = n
      /\ \A i \in 1 .. n : f[i] = b[Cell(r + i - 1)]
  BY InRingSeq
<1> HIDE DEF e, f
<1>4. /\ d \in Seq(Byte) /\ Len(d) = n + 1
      /\ \A i \in 1 .. n + 1 : d[i] = e[Cell(a + i - 1)]
  BY <1>2, <1>a, InRingSeq
<1> HIDE DEF d
<1>5. <<c>> \in Seq(Byte) /\ Len(<<c>>) = 1 /\ <<c>>[1] = c
  OBVIOUS
<1>6. /\ <<c>> \o f \in Seq(Byte) /\ Len(<<c>> \o f) = n + 1
      /\ \A i \in 1 .. n + 1 :
           (<<c>> \o f)[i] = IF i <= 1 THEN <<c>>[i] ELSE f[i - 1]
  <2>1. /\ <<c>> \o f \in Seq(Byte) /\ Len(<<c>> \o f) = 1 + n
        /\ \A i \in 1 .. 1 + n :
             (<<c>> \o f)[i] = IF i <= 1 THEN <<c>>[i] ELSE f[i - 1]
    BY ZenonT(60), <1>3, <1>5, ConcatProperties, Zenon
  <2> QED
    BY <1>1, <2>1
<1>7. \A i \in 1 .. n + 1 : d[i] = (<<c>> \o f)[i]
  <2> SUFFICES ASSUME NEW i \in 1 .. n + 1 PROVE d[i] = (<<c>> \o f)[i]
    OBVIOUS
  <2>1. CASE i = 1
    <3>1. Cell(a + i - 1) = a /\ e[a] = c
      BY <1>1, <1>2, <2>1 DEF Cell, Cells, e
    <3> QED
      BY <1>1, <1>4, <1>5, <1>6, <2>1, <3>1
  <2>2. CASE i # 1
    <3>1. i - 1 \in 1 .. n /\ ~ (i <= 1)
      BY <1>1, <2>2
    <3>2. /\ Cell(a + i - 1) = Cell(r + (i - 1) - 1)
          /\ Cell(a + i - 1) # a
          /\ Cell(a + i - 1) \in Cells
      BY <1>1, <2>2 DEF Cell, Cells, Before
    <3>3. e[Cell(a + i - 1)] = b[Cell(r + (i - 1) - 1)]
      BY <1>2, <3>2 DEF e
    <3> QED
      BY <1>3, <1>4, <1>6, <3>1, <3>3
  <2> QED
    BY <2>1, <2>2
<1> QED
  BY <1>4, <1>6, <1>7, SeqEqual DEF d, e, f

\* Leaving out the last byte erases it.
LEMMA RingErase ==
  ASSUME NEW b \in [Cells -> Byte], NEW r \in Cells, NEW n \in 0 .. nq_size,
         n > 0
  PROVE  InRing(b, r, n - 1) = SubSeq(InRing(b, r, n), 1, n - 1)
<1>1. nq_size \in Nat /\ nq_size > 0
  BY SizeAssumption
<1> DEFINE c == InRing(b, r, n)
           d == InRing(b, r, n - 1)
<1>2. n - 1 \in 0 .. nq_size
  BY <1>1
<1>3. /\ c \in Seq(Byte) /\ Len(c) = n
      /\ \A i \in 1 .. n : c[i] = b[Cell(r + i - 1)]
  BY InRingSeq
<1>4. /\ d \in Seq(Byte) /\ Len(d) = n - 1
      /\ \A i \in 1 .. n - 1 : d[i] = b[Cell(r + i - 1)]
  BY <1>2, InRingSeq
<1> HIDE DEF c, d
<1>5. \A i \in 1 .. n - 1 : c[i] \in Byte
  BY <1>1, <1>3, ElementOfSeq
<1>6. /\ SubSeq(c, 1, n - 1) \in Seq(Byte)
      /\ Len(SubSeq(c, 1, n - 1)) = IF 1 <= n - 1 THEN n - 1 - 1 + 1 ELSE 0
      /\ \A i \in 1 .. n - 1 - 1 + 1 : SubSeq(c, 1, n - 1)[i] = c[1 + i - 1]
  <2>1. 1 \in Int /\ n - 1 \in Int
    BY <1>1
  <2> QED
    BY <1>5, <2>1, SubSeqProperties
<1>7. \A i \in 1 .. n - 1 : d[i] = SubSeq(c, 1, n - 1)[i]
  <2> SUFFICES ASSUME NEW i \in 1 .. n - 1
               PROVE  d[i] = SubSeq(c, 1, n - 1)[i]
    OBVIOUS
  <2>1. i \in 1 .. n - 1 - 1 + 1 /\ 1 + i - 1 = i /\ i \in 1 .. n
    BY <1>1
  <2> QED
    BY <1>3, <1>4, <1>6, <2>1
<1>8. Len(SubSeq(c, 1, n - 1)) = n - 1
  BY <1>1, <1>6
<1> QED
  BY <1>4, <1>6, <1>7, <1>8, SeqEqual DEF c, d

\* What the queue of the refinement mapping holds.
LEMMA ContentsInRing ==
  /\ Contents = InRing(buf, nq_rptr, nq_len)
  /\ Contents' = InRing(buf', nq_rptr', nq_len')
BY DEF Contents, InRing

\* Every step of the ring is a step of the byte queue or leaves the bytes in
\* the queue as they are: nq_puts(), which has only been given its string,
\* and nq_send(), which has not reached its loop, change nothing.
LEMMA StepRefined ==
  IInv /\ IInv' /\ [Next]_vars => [Queue!Next]_Contents
<1> SUFFICES ASSUME IInv, IInv', [Next]_vars, Contents' # Contents
             PROVE  Queue!Next
  OBVIOUS
<1>0. nq_size \in Nat /\ nq_size > 0 /\ Len(rest) \in Nat
  BY SizeAssumption, LenProperties DEF IInv, TypeOK
<1>1. /\ buf \in [Cells -> Byte] /\ nq_rptr \in Cells /\ nq_wptr \in Cells
      /\ nq_len \in 0 .. nq_size /\ rest \in Seq(Byte)
      /\ nq_wptr = Cell(nq_rptr + nq_len)
      /\ Len(rest) <= nq_size - nq_len
  BY DEF IInv, TypeOK, RingOK, nq_avail
<1>2. /\ Contents = InRing(buf, nq_rptr, nq_len)
      /\ Contents' = InRing(buf', nq_rptr', nq_len')
  BY ContentsInRing
<1>3. Contents \in Seq(Byte) /\ Len(Contents) = nq_len
  BY <1>1, <1>2, InRingSeq
\* A run of bytes that was copied behind the others.
<1>4. ASSUME NEW s \in Seq(Byte), Len(s) <= nq_size - nq_len,
             nq_wptr + Len(s) <= nq_size,
             buf' = Copied(buf, nq_wptr, s), nq_rptr' = nq_rptr,
             nq_len' = nq_len + Len(s)
      PROVE  Queue!Next
  <2>1. Len(s) \in Nat /\ s \in [1 .. Len(s) -> Byte]
    BY LenProperties
  <2>2. nq_len + Len(s) <= nq_size /\ Len(s) \in 0 .. nq_size
    BY <1>0, <1>1, <1>4, <2>1
  <2>3. Contents' = Contents \o s
    BY <1>1, <1>2, <1>4, <2>2, RingAppend
  <2>4. s \in UNION {[1 .. n -> Byte] : n \in 0 .. nq_size}
    BY <2>1, <2>2
  <2>5. Queue!Append_(s)
    BY <1>3, <2>2, <2>3 DEF Queue!Append_
  <2> QED
    BY <2>4, <2>5, Zenon DEF Queue!Next
\* The first bytes were read.
<1>5. ASSUME NEW k \in 0 .. nq_len, buf' = buf,
             nq_rptr' = Wrapped(nq_rptr + k), nq_rptr + k <= nq_size,
             nq_len' = nq_len - k
      PROVE  Queue!Next
  <2>1. Wrapped(nq_rptr + k) = Cell(nq_rptr + k)
    BY <1>0, <1>1, <1>5 DEF Wrapped, Cell, Cells
  <2>2. Contents' = SubSeq(Contents, k + 1, Len(Contents))
    BY ZenonT(60), <1>1, <1>2, <1>3, <1>5, <2>1, RingTake
  <2>3. k \in 0 .. nq_size /\ k <= nq_len
    BY <1>0, <1>1
  <2>4. Queue!Take(k)
    BY <1>3, <2>2, <2>3 DEF Queue!Take
  <2> QED
    BY <2>3, <2>4, Zenon DEF Queue!Next
<1>6. CASE nq_init
  <2>1. nq_len' = 0
    BY <1>6 DEF nq_init
  <2>2. Contents' = <<>>
    BY <2>1, <1>2 DEF InRing
  <2> QED
    BY <2>2 DEF Queue!Next, Queue!Clear
<1>7. CASE nq_getc
  <2>1. /\ buf' = buf /\ nq_rptr' = Wrapped(nq_rptr + 1)
        /\ nq_len' = nq_len - 1 /\ nq_len # 0
    BY <1>7 DEF nq_getc, nq_empty
  <2>2. 1 \in 0 .. nq_len /\ nq_rptr + 1 <= nq_size
    BY <1>0, <1>1, <2>1 DEF Cells
  <2> QED
    BY <2>1, <2>2, <1>5
<1>8. ASSUME NEW c \in Byte, nq_ungetc(c) PROVE Queue!Next
  <2>1. /\ buf' = [buf EXCEPT ![Before(nq_rptr)] = c]
        /\ nq_rptr' = Before(nq_rptr) /\ nq_len' = nq_len + 1
        /\ nq_len # nq_size
    BY <1>8 DEF nq_ungetc, nq_full
  <2>2. nq_len < nq_size
    BY <1>0, <1>1, <2>1
  <2>3. Contents' = <<c>> \o Contents
    BY <1>1, <1>2, <2>1, <2>2, RingGiveBack
  <2>4. Queue!GiveBack(c)
    BY <1>3, <2>2, <2>3 DEF Queue!GiveBack
  <2> QED
    BY <2>4 DEF Queue!Next
<1>9. ASSUME NEW c \in Byte, nq_putc(c) PROVE Queue!Next
  <2>1. /\ buf' = [buf EXCEPT ![nq_wptr] = c] /\ nq_rptr' = nq_rptr
        /\ nq_len' = nq_len + 1 /\ nq_len # nq_size
    BY <1>9 DEF nq_putc, nq_full
  <2>2. <<c>> \in Seq(Byte) /\ Len(<<c>>) = 1 /\ <<c>>[1] = c
    OBVIOUS
  <2>3. 1 <= nq_size - nq_len /\ nq_wptr + 1 <= nq_size
    BY <1>0, <1>1, <2>1 DEF Cells
  <2>4. Copied(buf, nq_wptr, <<c>>) = buf'
    <3>1. \A i \in Cells : i \in nq_wptr .. nq_wptr + 1 - 1 <=> i = nq_wptr
      BY <1>0, <1>1 DEF Cells
    <3>2. nq_wptr - nq_wptr + 1 = 1
      BY <1>0, <1>1 DEF Cells
    <3>3. \A i \in Cells : Copied(buf, nq_wptr, <<c>>)[i] = buf'[i]
      BY <1>1, <2>1, <2>2, <3>1, <3>2 DEF Copied
    <3>4. /\ Copied(buf, nq_wptr, <<c>>) \in [Cells -> Byte]
          /\ buf' \in [Cells -> Byte]
      BY <1>1, <2>1, <2>2, CopiedType
    <3> QED
      BY <3>3, <3>4
  <2> QED
    BY <1>4, <2>1, <2>2, <2>3, <2>4
<1>10. CASE nq_unputc
  <2>1. /\ buf' = buf /\ nq_rptr' = nq_rptr /\ nq_len' = nq_len - 1
        /\ nq_len # 0
    BY <1>10 DEF nq_unputc, nq_empty
  <2>2. nq_len > 0
    BY <1>0, <1>1, <2>1
  <2>3. Contents' = SubSeq(Contents, 1, Len(Contents) - 1)
    BY <1>1, <1>2, <1>3, <2>1, <2>2, RingErase
  <2>4. Contents # <<>>
    BY <1>3, <2>2, EmptySeq
  <2> QED
    BY <2>3, <2>4 DEF Queue!Next, Queue!Erase
<1>11. ASSUME NEW s \in Strings, nq_puts(s) PROVE Contents' = Contents
  BY <1>11, <1>2 DEF nq_puts, ring
<1>12. CASE PutsRun
  <2> DEFINE run == FreeRun(nq_rptr, nq_wptr)
             size == IF run > Len(rest) THEN Len(rest) ELSE run
             s == SubSeq(rest, 1, size)
  <2>1. /\ rest # <<>> /\ buf' = Copied(buf, nq_wptr, s)
        /\ nq_len' = nq_len + size /\ nq_rptr' = nq_rptr
    BY <1>12 DEF PutsRun
  <2>2. run \in Nat /\ run > 0 /\ nq_wptr + run <= nq_size
    BY <1>0, <1>1 DEF FreeRun, Cells
  <2> HIDE DEF run
  <2>3. size \in 0 .. Len(rest) /\ size <= run
    BY <1>0, <2>2
  <2> HIDE DEF size
  <2>4. s \in Seq(Byte) /\ Len(s) = size
    <3>1. \A i \in 1 .. size : rest[i] \in Byte
      BY <1>0, <1>1, <2>3, ElementOfSeq
    <3>2. 1 \in Int /\ size \in Int
      BY <1>0, <2>3
    <3> QED
      BY <1>0, <2>3, <3>1, <3>2, SubSeqProperties
  <2> HIDE DEF s
  <2>5. size <= nq_size - nq_len /\ nq_wptr + size <= nq_size
    BY <1>0, <1>1, <2>2, <2>3 DEF Cells
  <2> QED
    BY <1>4, <2>1, <2>4, <2>5
<1>13. ASSUME NEW s \in Strings, nq_recv(s) PROVE Queue!Next
  <2>1. s \in Seq(Byte) /\ Len(s) \in Nat
    BY <1>0 DEF Strings
  <2>2. /\ buf' = Copied(buf, nq_wptr, s) /\ nq_rptr' = nq_rptr
        /\ nq_len' = nq_len + Len(s) /\ nq_len # nq_size
        /\ Len(s) <= FreeRun(nq_rptr, nq_wptr)
    BY <1>0, <1>1, <2>1, <1>13 DEF nq_recv, nq_full
  <2>3. Len(s) <= nq_size - nq_len /\ nq_wptr + Len(s) <= nq_size
    BY <1>0, <1>1, <2>1, <2>2 DEF FreeRun, Cell, Cells
  <2> QED
    BY <1>4, <2>1, <2>2, <2>3
<1>14. CASE nq_send
  BY <1>14, <1>2 DEF nq_send, ring
<1>15. ASSUME NEW cc \in 0 .. nq_size, SendRun(cc) PROVE Queue!Next
  <2>1. /\ buf' = buf /\ nq_rptr' = Wrapped(nq_rptr + cc)
        /\ nq_len' = nq_len - cc
        /\ cc <= nq_len /\ nq_rptr + cc <= nq_size
    BY <1>0, <1>1, <1>15 DEF SendRun, Cells
  <2>2. cc \in 0 .. nq_len
    BY <1>0, <1>1, <2>1
  <2> QED
    BY <1>5, <2>1, <2>2
<1>16. CASE UNCHANGED vars
  BY <1>16, <1>2 DEF vars
<1> QED
  BY <1>6, <1>7, <1>8, <1>9, <1>10, <1>11, <1>12, <1>13, <1>14, <1>15, <1>16
  DEF Next

\* The ring keeps the promise of ByteQueue, for a ring of any size and any
\* bytes: no operation of nqueue.c, wherever the pointers stand, loses,
\* alters, repeats or reorders a byte.
THEOREM RingKeepsBytes == Spec => KeepsBytes
<1>1. Init => Queue!Init
  <2> SUFFICES ASSUME Init PROVE Contents = <<>>
    BY DEF Queue!Init
  <2>1. nq_len = 0
    BY DEF Init
  <2> QED
    BY <2>1 DEF Contents
<1>2. IInv /\ IInv' /\ [Next]_vars => [Queue!Next]_Contents
  BY StepRefined
<1> QED
  BY <1>1, <1>2, Invariance, PTL DEF Spec, KeepsBytes, Queue!Spec

=============================================================================
