------------------------------- MODULE NQueue -------------------------------
(***************************************************************************)
(* The network queue of src/src/nqueue.c: a ring of nq_size bytes with a   *)
(* length, a read and a write pointer.  Every connection of the driver     *)
(* keeps its input and output in such queues.                              *)
(*                                                                         *)
(* Bytes move between a queue and a string or a socket in runs that do not *)
(* cross the end of the ring: nq_puts() and nq_send() are loops over such  *)
(* runs, and each pass of the loop is a step here.  The functions that     *)
(* only read the record (nq_len, nq_avail, nq_empty, nq_full) are          *)
(* operators.  The guards on an operation are what its comment assumes the *)
(* caller has determined.                                                  *)
(***************************************************************************)
EXTENDS Integers, Sequences

CONSTANTS
  Byte,           \* the bytes
  nq_size         \* the size of the ring

ASSUME SizeAssumption == nq_size \in Nat \ {0}
ASSUME ByteAssumption == Byte # {}

VARIABLES
  buf,            \* the bytes behind the record
  nq_len,
  nq_rptr,
  nq_wptr,
  rest,           \* what nq_puts() has not copied yet
  sending         \* nq_send() is in its loop

ring == <<buf, nq_len, nq_rptr, nq_wptr>>
vars == <<buf, nq_len, nq_rptr, nq_wptr, rest, sending>>

Cells == 0 .. nq_size - 1

TypeOK ==
  /\ buf \in [Cells -> Byte]
  /\ nq_len \in Int
  /\ nq_rptr \in Cells
  /\ nq_wptr \in Cells
  /\ rest \in Seq(Byte)
  /\ sending \in BOOLEAN

nq_avail == nq_size - nq_len
nq_empty == nq_len = 0
nq_full == nq_len = nq_size

\* No loop of this module is running.
Idle == rest = <<>> /\ ~sending

\* Mutant: a pointer may be left at the end of the ring.
NoWrap(p) == p

\* A pointer that has reached the end of the ring goes back to its start.
Wrapped(p) == IF p = nq_size THEN 0 ELSE p

\* if (p-- == 0) p = nq_size - 1
Before(p) == IF p = 0 THEN nq_size - 1 ELSE p - 1

\* Mutant: the run of free cells is taken to end with the ring.
RunToEnd(r, w) == nq_size - w

\* How many cells nq_puts() and nq_recv() find free from the write pointer
\* on without crossing the end of the ring.
FreeRun(r, w) == IF r > w THEN r - w ELSE nq_size - w

\* memcpy() or recv() of s to the cells from w on.
Copied(b, w, s) ==
  [i \in Cells |-> IF i \in w .. w + Len(s) - 1 THEN s[i - w + 1] ELSE b[i]]

\* nq_alloc(): the memory is not initialised, the record is.
Init ==
  /\ buf \in [Cells -> Byte]
  /\ nq_len = 0
  /\ nq_rptr = 0
  /\ nq_wptr = 0
  /\ rest = <<>>
  /\ sending = FALSE

nq_init ==
  /\ Idle
  /\ nq_len' = 0
  /\ nq_rptr' = 0
  /\ nq_wptr' = 0
  /\ UNCHANGED <<buf, rest, sending>>

nq_getc ==
  /\ Idle /\ ~nq_empty
  /\ nq_len' = nq_len - 1
  /\ nq_rptr' = Wrapped(nq_rptr + 1)
  /\ UNCHANGED <<buf, nq_wptr, rest, sending>>

\* Mutant: the byte is stored before the pointer is moved.
UngetcLate(c) ==
  /\ Idle /\ ~nq_full
  /\ nq_len' = nq_len + 1
  /\ nq_rptr' = Before(nq_rptr)
  /\ buf' = [buf EXCEPT ![nq_rptr] = c]
  /\ UNCHANGED <<nq_wptr, rest, sending>>

nq_ungetc(c) ==
  /\ Idle /\ ~nq_full
  /\ nq_len' = nq_len + 1
  /\ nq_rptr' = Before(nq_rptr)
  /\ buf' = [buf EXCEPT ![Before(nq_rptr)] = c]
  /\ UNCHANGED <<nq_wptr, rest, sending>>

nq_putc(c) ==
  /\ Idle /\ ~nq_full
  /\ buf' = [buf EXCEPT ![nq_wptr] = c]
  /\ nq_len' = nq_len + 1
  /\ nq_wptr' = Wrapped(nq_wptr + 1)
  /\ UNCHANGED <<nq_rptr, rest, sending>>

nq_unputc ==
  /\ Idle /\ ~nq_empty
  /\ nq_len' = nq_len - 1
  /\ nq_wptr' = Before(nq_wptr)
  /\ UNCHANGED <<buf, nq_rptr, rest, sending>>

\* nq_puts() of a string for which there is room ...
nq_puts(s) ==
  /\ Idle
  /\ Len(s) <= nq_avail
  /\ rest' = s
  /\ UNCHANGED <<ring, sending>>

\* ... copies one run in each pass of its loop.
PutsRun ==
  LET run == FreeRun(nq_rptr, nq_wptr)
      size == IF run > Len(rest) THEN Len(rest) ELSE run
  IN  /\ rest # <<>>
      /\ buf' = Copied(buf, nq_wptr, SubSeq(rest, 1, size))
      /\ nq_len' = nq_len + size
      /\ nq_wptr' = Wrapped(nq_wptr + size)
      /\ rest' = SubSeq(rest, size + 1, Len(rest))
      /\ UNCHANGED <<nq_rptr, sending>>

\* nq_recv(): the socket gives any number of bytes up to the free run.
nq_recv(s) ==
  /\ Idle /\ ~nq_full
  /\ Len(s) \in 1 .. FreeRun(nq_rptr, nq_wptr)
  /\ buf' = Copied(buf, nq_wptr, s)
  /\ nq_len' = nq_len + Len(s)
  /\ nq_wptr' = Wrapped(nq_wptr + Len(s))
  /\ UNCHANGED <<nq_rptr, rest, sending>>

nq_send ==
  /\ Idle /\ ~nq_empty
  /\ sending' = TRUE
  /\ UNCHANGED <<ring, rest>>

\* One pass of the loop of nq_send(): the socket takes cc of the bytes up
\* to the end of the ring; the loop goes on if it took all of them.
SendRun(cc) ==
  LET run == nq_size - nq_rptr
      len == IF run > nq_len THEN nq_len ELSE run
  IN  /\ sending
      /\ cc <= len
      /\ nq_len' = nq_len - cc
      /\ nq_rptr' = Wrapped(nq_rptr + cc)
      /\ sending' = (cc = len /\ nq_len' > 0)
      /\ UNCHANGED <<buf, nq_wptr, rest>>

\* The strings a caller may pass and the runs a socket may give.
Strings == UNION {[1 .. n -> Byte] : n \in 1 .. nq_size}

Next ==
  \/ nq_init
  \/ nq_getc
  \/ \E c \in Byte : nq_ungetc(c)
  \/ \E c \in Byte : nq_putc(c)
  \/ nq_unputc
  \/ \E s \in Strings : nq_puts(s)
  \/ PutsRun
  \/ \E s \in Strings : nq_recv(s)
  \/ nq_send
  \/ \E cc \in 0 .. nq_size : SendRun(cc)

Spec == Init /\ [][Next]_vars

-----------------------------------------------------------------------------
(* Properties *)

\* The cell p cells behind the start of the ring, at most once around.
Cell(p) == IF p < nq_size THEN p ELSE p - nq_size

\* The length and the two pointers agree, although each operation updates
\* them on its own and, when the pointers are equal, only the length tells
\* a full queue from an empty one; and what nq_puts() has yet to copy still
\* fits.
RingOK ==
  /\ nq_len \in 0 .. nq_size
  /\ nq_wptr = Cell(nq_rptr + nq_len)
  /\ Len(rest) <= nq_avail

\* The bytes in the queue, head first.
Contents ==
  [i \in 1 .. nq_len |-> buf[Cell(nq_rptr + i - 1)]]

Queue == INSTANCE ByteQueue WITH Size <- nq_size, q <- Contents

\* The ring keeps the promise of ByteQueue: no operation, wherever the
\* pointers stand, loses, alters, repeats or reorders a byte.
KeepsBytes == Queue!Spec

=============================================================================
