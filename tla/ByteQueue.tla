----------------------------- MODULE ByteQueue -----------------------------
(***************************************************************************)
(* What a network queue of src/src/nqueue.c promises to its users: a       *)
(* bounded queue of bytes.  Bytes leave at the head in the order in which  *)
(* they were appended, none is lost, altered or repeated, and there are    *)
(* never more of them than the size of the queue.                          *)
(***************************************************************************)
EXTENDS Naturals, Sequences

CONSTANTS Byte, Size

VARIABLE q

TypeOK == q \in Seq(Byte) /\ Len(q) <= Size

Init == q = <<>>

\* A run of bytes is appended, as long as there is room for it.
Append_(s) == Len(q) + Len(s) <= Size /\ q' = q \o s

\* The first n bytes leave.
Take(n) == n <= Len(q) /\ q' = SubSeq(q, n + 1, Len(q))

\* A byte is given back to the head.
GiveBack(c) == Len(q) < Size /\ q' = <<c>> \o q

\* The last byte is erased.
Erase == q # <<>> /\ q' = SubSeq(q, 1, Len(q) - 1)

\* All are erased.
Clear == q' = <<>>

Next ==
  \/ \E s \in UNION {[1 .. n -> Byte] : n \in 0 .. Size} : Append_(s)
  \/ \E n \in 0 .. Size : Take(n)
  \/ \E c \in Byte : GiveBack(c)
  \/ Erase
  \/ Clear

Spec == Init /\ [][Next]_q

=============================================================================
