--------------------------- MODULE ServicesProofs ---------------------------
(***************************************************************************)
(* Proofs about the service sockets, whatever the number of connections    *)
(* and the sizes of their queues: the numbers of descriptors stay with     *)
(* their owners (DescriptorsOwned), the queues keep their sizes (TypeOK),  *)
(* requests and answers are kept apart and in order (Exchange), and an     *)
(* error answer is written before the connection is closed                 *)
(* (ToldBeforeClose).                                                      *)
(*                                                                         *)
(* The first lemmas follow ndesc.c: what nd_enable(), nd_disable(),        *)
(* nd_attach() and nd_detach() do to the numbers; the round of nd_gc().    *)
(* That a pass calls nobody back for another is a matter of order: the     *)
(* listening socket is first in the list, so a connection is accepted      *)
(* before any is closed in the same pass, and gets a number select() found *)
(* nothing on.                                                             *)
(*                                                                         *)
(* The others follow tcpsvc.c.  Texts are joined and split with operators  *)
(* of their own; one connection is looked at by itself (ConnOK), with one  *)
(* lemma for each thing that can happen to it; then the pass, which owes a *)
(* connection the order of its callbacks (Told) and, to those behind it in *)
(* the list, what select() found (ToCome).                                 *)
(***************************************************************************)
EXTENDS Services, SequenceTheorems, FiniteSetTheorems,
        WellFoundedInduction, TLAPS

\* A non-empty set of naturals has a least element, and Min returns it: the
\* search along a list stops at the first place that fits.
LEMMA MinIsLeast ==
  ASSUME NEW S \in SUBSET Nat, S # {}
  PROVE  Min(S) \in S /\ \A y \in S : Min(S) <= y
<1>1. \E x \in S : \A y \in S : <<y, x>> \notin OpToRel(<, Nat)
  BY NatLessThanWellFounded, WFMin
<1>2. PICK x \in S : \A y \in S : <<y, x>> \notin OpToRel(<, Nat)
  BY <1>1
<1>3. \A y \in S : x <= y
  <2> SUFFICES ASSUME NEW y \in S PROVE x <= y
    OBVIOUS
  <2>1. ~(y < x)
    BY <1>2 DEF OpToRel
  <2> QED BY <2>1
<1> QED BY <1>3 DEF Min

\* What RemoveAt returns, position by position.
LEMMA RemoveAtProperties ==
  ASSUME NEW T, NEW s \in Seq(T), NEW i \in 1 .. Len(s)
  PROVE  /\ RemoveAt(s, i) \in Seq(T)
         /\ Len(RemoveAt(s, i)) = Len(s) - 1
         /\ \A j \in 1 .. Len(s) - 1 :
              RemoveAt(s, i)[j] = IF j < i THEN s[j] ELSE s[j + 1]
<1> DEFINE a == SubSeq(s, 1, i - 1)
           b == SubSeq(s, i + 1, Len(s))
<1>0. Len(s) \in Nat /\ \A j \in 1 .. Len(s) : s[j] \in T
  BY ElementOfSeq
<1>1. /\ a \in Seq(T)
      /\ Len(a) = i - 1
      /\ \A j \in 1 .. i - 1 : a[j] = s[j]
  BY <1>0, SubSeqProperties
<1>2. /\ b \in Seq(T)
      /\ Len(b) = Len(s) - i
      /\ \A j \in 1 .. Len(s) - i : b[j] = s[i + j]
  BY <1>0, SubSeqProperties
<1>3. RemoveAt(s, i) = a \o b
  BY DEF RemoveAt, a, b
<1> HIDE DEF a, b
<1>4. /\ a \o b \in Seq(T)
      /\ Len(a \o b) = Len(a) + Len(b)
      /\ \A j \in 1 .. Len(a) + Len(b) :
           (a \o b)[j] = IF j <= Len(a) THEN a[j] ELSE b[j - Len(a)]
  BY <1>1, <1>2, ConcatProperties
<1> QED BY <1>0, <1>1, <1>2, <1>3, <1>4

-----------------------------------------------------------------------------

Files == [Fds -> Sock \cup {None}]

CallingBack(p) == p.at \in {"W", "R", "C"}

\* The order of the list and of the pass over it.
PassOrder(f, d, p) ==
  /\ Len(d.list) > 0 /\ d.list[1] = Listener
  /\ CallingBack(p) => p.next \notin {p.nd, Listener}
  /\ p.next = Listener \/ (CallingBack(p) /\ p.nd = Listener) =>
       \A k \in Kinds : \A n \in p.ready[k] : f[n] # None
  /\ p.at \in {"idle", "gc"} =>
       p.next = None /\ \A k \in Kinds : p.ready[k] = {}

\* Manager d, table f of the kernel and pass p, in order.
Owned(f, d, p) ==
  /\ f \in Files /\ d \in Manager /\ p \in Passes
  /\ NumbersOwned(f, d) /\ PassOwned(d, p) /\ PassOrder(f, d, p)

OwnedInv ==
  /\ Owned(files, dm, pass)
  /\ backlog \subseteq Conn \ Attached

\* The descriptor at hand in pass p, and what comes after it.
Current(f, d, p) ==
  /\ p.at \in {"next", "W", "R", "C"}
  /\ p.nd \in Sock /\ d.fd[p.nd] # -1
  /\ p.next \notin {p.nd, Listener}
  /\ p.nd = Listener => \A k \in Kinds : \A n \in p.ready[k] : f[n] # None

\* e is manager d after callbacks were enabled and disabled.
SameNumbers(f, d, e) ==
  /\ e \in Manager /\ NumbersOwned(f, e)
  /\ e.fd = d.fd /\ e.list = d.list

\* What the assumptions say of the sockets and the numbers.
LEMMA Constants ==
  /\ FD_SETSIZE \in Nat /\ None \notin Sock
  /\ Conn \subseteq Sock /\ Listener \in Sock /\ Udp \in Sock
  /\ Listener \notin Conn /\ Udp \notin Conn /\ Udp # Listener
  /\ -1 \notin Fds /\ Fds \subseteq Nat
<1>1. -1 \notin Fds /\ Fds \subseteq Nat
  BY NdescAssumption DEF Fds
<1> QED BY <1>1, NdescAssumption, TcpSvcAssumption, ServicesAssumption

\* nd_enable() keeps every number with its owner.
LEMMA EnableKeeps ==
  ASSUME NEW f \in Files, NEW d \in Manager, NumbersOwned(f, d),
         NEW s \in Sock, d.fd[s] # -1, NEW m \in SUBSET Masks
  PROVE  SameNumbers(f, d, nd_enable(d, s, m))
<1> DEFINE e == nd_enable(d, s, m)
<1>1. /\ e.fd = d.fd /\ e.list = d.list /\ e.ndesc = d.ndesc /\ e.max = d.max
      /\ e.gc = d.gc
      /\ e.mask = [d.mask EXCEPT ![s] = @ \cup m]
      /\ e.fds = [k \in Kinds |-> IF k \in m THEN d.fds[k] \cup {d.fd[s]} ELSE d.fds[k]]
  BY DEF nd_enable, Manager
<1>2. e \in Manager
  BY ZenonT(60), Constants DEF nd_enable, Manager, Masks
<1> HIDE DEF e
<1>3. \A t \in Sock : d.fd[t] # -1 /\ t # s => d.fd[t] # d.fd[s]
  BY Constants DEF NumbersOwned, Manager
<1>4. NumbersOwned(f, e)
  BY <1>1, <1>3, Constants DEF NumbersOwned, Manager, Kinds, Masks
<1> QED BY <1>1, <1>2, <1>4 DEF SameNumbers, e

\* nd_disable() keeps every number with its owner.
LEMMA DisableKeeps ==
  ASSUME NEW f \in Files, NEW d \in Manager, NumbersOwned(f, d),
         NEW s \in Sock, d.fd[s] # -1, NEW m \in SUBSET Masks
  PROVE  SameNumbers(f, d, nd_disable(d, s, m))
<1> DEFINE e == nd_disable(d, s, m)
<1>1. /\ e.fd = d.fd /\ e.list = d.list /\ e.ndesc = d.ndesc /\ e.max = d.max
      /\ e.gc = d.gc
      /\ e.mask = [d.mask EXCEPT ![s] = @ \ m]
      /\ e.fds = [k \in Kinds |-> IF k \in m THEN d.fds[k] \ {d.fd[s]} ELSE d.fds[k]]
  BY DEF nd_disable, Manager
<1>2. e \in Manager
  BY Constants DEF nd_disable, Manager, Masks
<1> HIDE DEF e
<1>3. \A t \in Sock : d.fd[t] # -1 /\ t # s => d.fd[t] # d.fd[s]
  BY Constants DEF NumbersOwned, Manager
<1>4. NumbersOwned(f, e)
  BY <1>1, <1>3, Constants DEF NumbersOwned, Manager, Kinds, Masks
<1> QED BY <1>1, <1>2, <1>4 DEF SameNumbers, e

\* nd_attach() with a free number, which the kernel has just given out.
LEMMA AttachKeeps ==
  ASSUME NEW f \in Files, NEW d \in Manager, NumbersOwned(f, d),
         NEW s \in Sock, d.fd[s] = -1, NEW n \in Fds, f[n] = None
  PROVE  LET e == nd_attach(d, s, n)
             g == [f EXCEPT ![n] = s]
         IN  /\ g \in Files /\ e \in Manager /\ NumbersOwned(g, e)
             /\ e.fd = [d.fd EXCEPT ![s] = n]
             /\ e.list = Append(d.list, s)
<1> DEFINE e == nd_attach(d, s, n)
           g == [f EXCEPT ![n] = s]
<1>1. /\ e.fd = [d.fd EXCEPT ![s] = n] /\ e.list = Append(d.list, s)
      /\ e.ndesc = [d.ndesc EXCEPT ![n] = s]
      /\ e.max = IF d.max < n THEN n ELSE d.max
      /\ e.mask = [d.mask EXCEPT ![s] = {}] /\ e.fds = d.fds /\ e.gc = d.gc
  BY DEF nd_attach, Manager
<1>3. g \in Files
  BY DEF Files
<1>4. /\ d.fd \in [Sock -> Fds \cup {-1}] /\ d.ndesc \in [Fds -> Sock \cup {None}]
      /\ d.list \in Seq(Sock) /\ d.max \in Fds \cup {-1}
      /\ d.mask \in [Sock -> SUBSET Masks] /\ d.fds \in [Kinds -> SUBSET Fds]
      /\ f \in [Fds -> Sock \cup {None}]
  BY DEF Manager, Files
<1>2. e \in Manager
  <2>1. /\ Append(d.list, s) \in Seq(Sock)
        /\ [d.fd EXCEPT ![s] = n] \in [Sock -> Fds \cup {-1}]
    BY <1>4
  <2>2. (IF d.max < n THEN n ELSE d.max) \in Fds \cup {-1}
    BY <1>4
  <2> QED BY <2>1, <2>2, Constants DEF nd_attach, Manager
<1> HIDE DEF e
<1>5. \A t \in Sock : d.fd[t] # n
  BY <1>4, Constants DEF NumbersOwned
<1>M. d.max \in Int /\ e.max \in Int /\ n <= e.max /\ d.max <= e.max
  <2>1. d.max \in Int /\ n \in Int
    BY <1>4, Constants
  <2>2. e.max = IF d.max < n THEN n ELSE d.max
    BY <1>1
  <2> QED BY <2>1, <2>2
<1>6. \A t \in Sock : e.fd[t] # -1 =>
        /\ g[e.fd[t]] = t /\ e.ndesc[e.fd[t]] = t /\ e.fd[t] <= e.max
  <2> SUFFICES ASSUME NEW t \in Sock, e.fd[t] # -1
               PROVE  g[e.fd[t]] = t /\ e.ndesc[e.fd[t]] = t /\ e.fd[t] <= e.max
    OBVIOUS
  <2>1. CASE t = s
    <3>1. e.fd[t] = n /\ g[n] = t /\ e.ndesc[n] = t
      BY <1>1, <1>4, <2>1
    <3>2. n <= e.max
      BY <1>M
    <3> QED BY <3>1, <3>2
  <2>2. CASE t # s
    <3>1. e.fd[t] = d.fd[t] /\ d.fd[t] # -1 /\ d.fd[t] # n /\ d.fd[t] \in Fds
      BY <1>1, <1>4, <1>5, <2>2
    <3>2. f[d.fd[t]] = t /\ d.ndesc[d.fd[t]] = t /\ d.fd[t] <= d.max
      BY <3>1 DEF NumbersOwned
    <3>3. g[d.fd[t]] = t /\ e.ndesc[d.fd[t]] = t
      BY <1>1, <1>4, <3>1, <3>2
    <3>4. d.fd[t] <= e.max
      <4>1. d.fd[t] \in Int
        BY <3>1 DEF Fds
      <4> QED BY <1>M, <3>2, <4>1
    <3> QED BY <3>1, <3>3, <3>4
  <2> QED BY <2>1, <2>2
<1>7. \A t \in Sock : e.fd[t] # -1 =>
        \A k \in Kinds : (e.fd[t] \in e.fds[k]) = (k \in e.mask[t])
  BY <1>1, <1>4, <1>5 DEF NumbersOwned
<1>8. /\ \A t \in Sock : e.fd[t] # -1 <=> \E i \in DOMAIN e.list : e.list[i] = t
      /\ IsInjective(e.list)
  <2>1. /\ Len(d.list) \in Nat /\ DOMAIN e.list = 1 .. Len(d.list) + 1
        /\ DOMAIN d.list = 1 .. Len(d.list)
        /\ e.list[Len(d.list) + 1] = s
        /\ \A i \in 1 .. Len(d.list) : e.list[i] = d.list[i]
    BY <1>1, <1>4
  <2>2. \A i \in 1 .. Len(d.list) : d.list[i] # s /\ d.list[i] \in Sock
    BY <1>4, <2>1 DEF NumbersOwned
  <2>3. IsInjective(e.list)
    BY SMTT(60), <2>1, <2>2 DEF NumbersOwned, IsInjective
  <2>4. ASSUME NEW t \in Sock
        PROVE  e.fd[t] # -1 <=> \E i \in DOMAIN e.list : e.list[i] = t
    <3>1. CASE t = s
      BY SMTT(60), <1>1, <1>4, <2>1, <3>1, Constants
    <3>2. CASE t # s
      <4>1. e.fd[t] = d.fd[t]
        BY <1>1, <1>4, <3>2
      <4>2. d.fd[t] # -1 <=> \E i \in DOMAIN d.list : d.list[i] = t
        BY DEF NumbersOwned
      <4> QED BY <2>1, <3>2, <4>1, <4>2
    <3> QED BY <3>1, <3>2
  <2> QED BY <2>3, <2>4
<1>9. \A k \in Fds : /\ g[k] # None => e.fd[g[k]] = k
                     /\ e.ndesc[k] # None => e.fd[e.ndesc[k]] = k
  <2> SUFFICES ASSUME NEW k \in Fds
               PROVE  /\ g[k] # None => e.fd[g[k]] = k
                      /\ e.ndesc[k] # None => e.fd[e.ndesc[k]] = k
    OBVIOUS
  <2>1. CASE k = n
    BY <1>1, <1>4, <2>1
  <2>2. CASE k # n
    <3>1. g[k] = f[k] /\ e.ndesc[k] = d.ndesc[k]
      BY <1>1, <1>4, <2>2
    <3>2. /\ f[k] # None => f[k] \in Sock /\ d.fd[f[k]] = k
          /\ d.ndesc[k] # None => d.ndesc[k] \in Sock /\ d.fd[d.ndesc[k]] = k
      BY <1>4 DEF NumbersOwned
    <3>3. -1 \notin Fds
      BY Constants
    <3> QED BY <1>1, <1>4, <3>1, <3>2, <3>3
  <2> QED BY <2>1, <2>2
<1>10. \A k \in Kinds : e.fds[k] \subseteq {e.fd[t] : t \in {x \in Sock : e.fd[x] # -1}}
  <2>1. \A t \in Sock : d.fd[t] # -1 => e.fd[t] = d.fd[t]
    BY <1>1, <1>4
  <2>2. \A k \in Kinds : d.fds[k] \subseteq {d.fd[t] : t \in {x \in Sock : d.fd[x] # -1}}
    BY DEF NumbersOwned
  <2> QED BY <1>1, <2>1, <2>2
<1>11. NumbersOwned(g, e)
  BY <1>6, <1>7, <1>8, <1>9, <1>10 DEF NumbersOwned
<1> QED BY <1>1, <1>2, <1>3, <1>11 DEF e

\* nd_detach() of an attached descriptor whose socket is closed.
LEMMA DetachKeeps ==
  ASSUME NEW f \in Files, NEW d \in Manager, NumbersOwned(f, d),
         NEW s \in Sock, d.fd[s] # -1
  PROVE  LET e == nd_detach(d, s)
             g == [f EXCEPT ![d.fd[s]] = None]
         IN  /\ g \in Files /\ e \in Manager /\ NumbersOwned(g, e)
             /\ e.fd = [d.fd EXCEPT ![s] = -1]
             /\ Place(d, s) \in 1 .. Len(d.list)
             /\ d.list[Place(d, s)] = s
             /\ e.list = RemoveAt(d.list, Place(d, s))
<1> DEFINE e == nd_detach(d, s)
           n == d.fd[s]
           g == [f EXCEPT ![n] = None]
           p == Place(d, s)
<1>4. /\ d.fd \in [Sock -> Fds \cup {-1}] /\ d.ndesc \in [Fds -> Sock \cup {None}]
      /\ d.list \in Seq(Sock) /\ d.max \in Fds \cup {-1}
      /\ d.mask \in [Sock -> SUBSET Masks] /\ d.fds \in [Kinds -> SUBSET Fds]
      /\ f \in [Fds -> Sock \cup {None}] /\ n \in Fds
  BY DEF Manager, Files
<1>0. /\ Len(d.list) \in Nat /\ p \in 1 .. Len(d.list) /\ d.list[p] = s
      /\ DOMAIN d.list = 1 .. Len(d.list)
  <2>1. \E i \in DOMAIN d.list : d.list[i] = s
    BY DEF NumbersOwned
  <2> QED BY <1>4, <2>1 DEF Place
<1> HIDE DEF p
<1>1. /\ e.fd = [d.fd EXCEPT ![s] = -1] /\ e.list = RemoveAt(d.list, p)
      /\ e.ndesc = [d.ndesc EXCEPT ![n] = None] /\ e.max = d.max
      /\ e.mask = [d.mask EXCEPT ![s] = {}]
      /\ e.fds = [k \in Kinds |-> d.fds[k] \ {n}] /\ e.gc = TRUE
  BY DEF nd_detach, nd_initfd, nd_remove, Manager, p
<1>R. /\ RemoveAt(d.list, p) \in Seq(Sock)
      /\ Len(RemoveAt(d.list, p)) = Len(d.list) - 1
      /\ \A j \in 1 .. Len(d.list) - 1 :
           RemoveAt(d.list, p)[j] = IF j < p THEN d.list[j] ELSE d.list[j + 1]
  BY <1>0, <1>4, RemoveAtProperties
<1>2. e \in Manager
  <2>1. [d EXCEPT !.list = RemoveAt(d.list, p)] \in Manager
    BY SMTT(60), <1>R DEF Manager
  <2>2. nd_remove(d, s) \in Manager
    BY <2>1 DEF nd_remove, p
  <2>3. nd_initfd(nd_remove(d, s), n) \in Manager
    BY <1>4, <2>2 DEF nd_initfd, Manager
  <2> QED BY <2>3 DEF nd_detach, Manager
<1>3. g \in Files
  BY <1>4 DEF Files
<1> HIDE DEF e
<1>5. \A t \in Sock : t # s => d.fd[t] # n
  BY <1>4, Constants DEF NumbersOwned
<1>6. \A t \in Sock : e.fd[t] # -1 =>
        /\ g[e.fd[t]] = t /\ e.ndesc[e.fd[t]] = t /\ e.fd[t] <= e.max
        /\ \A k \in Kinds : (e.fd[t] \in e.fds[k]) = (k \in e.mask[t])
  <2> SUFFICES ASSUME NEW t \in Sock, e.fd[t] # -1
        PROVE /\ g[e.fd[t]] = t /\ e.ndesc[e.fd[t]] = t /\ e.fd[t] <= e.max
              /\ \A k \in Kinds : (e.fd[t] \in e.fds[k]) = (k \in e.mask[t])
    OBVIOUS
  <2>1. t # s /\ e.fd[t] = d.fd[t] /\ d.fd[t] # n /\ d.fd[t] \in Fds
    BY <1>1, <1>4, <1>5
  <2>2. /\ f[d.fd[t]] = t /\ d.ndesc[d.fd[t]] = t /\ d.fd[t] <= d.max
        /\ \A k \in Kinds : (d.fd[t] \in d.fds[k]) = (k \in d.mask[t])
    BY <1>1, <1>4, <2>1 DEF NumbersOwned
  <2> QED BY <1>1, <1>4, <2>1, <2>2
<1>8. /\ \A t \in Sock : e.fd[t] # -1 <=> \E i \in DOMAIN e.list : e.list[i] = t
      /\ IsInjective(e.list)
  <2>1. DOMAIN e.list = 1 .. Len(d.list) - 1
    BY <1>0, <1>1, <1>R
  <2>2. \A j \in 1 .. Len(d.list) - 1 :
          e.list[j] = IF j < p THEN d.list[j] ELSE d.list[j + 1]
    BY <1>1, <1>R
  <2>3. \A i, j \in 1 .. Len(d.list) : d.list[i] = d.list[j] => i = j
    BY <1>0 DEF NumbersOwned, IsInjective
  <2>4. IsInjective(e.list)
    BY SMTT(60), <1>0, <2>1, <2>2, <2>3 DEF IsInjective
  <2>5. ASSUME NEW t \in Sock
        PROVE  e.fd[t] # -1 <=> \E i \in DOMAIN e.list : e.list[i] = t
    <3>1. CASE t = s
      <4>1. e.fd[t] = -1
        BY <1>1, <1>4, <3>1
      <4>2. ASSUME NEW i \in 1 .. Len(d.list) - 1 PROVE e.list[i] # s
        <5>1. CASE i < p
          <6>1. i \in 1 .. Len(d.list) /\ i # p /\ e.list[i] = d.list[i]
            BY <1>0, <2>2, <5>1
          <6> QED BY <1>0, <2>3, <6>1
        <5>2. CASE ~(i < p)
          <6>1. i + 1 \in 1 .. Len(d.list) /\ i + 1 # p /\ e.list[i] = d.list[i + 1]
            BY <1>0, <2>2, <5>2
          <6> QED BY <1>0, <2>3, <6>1
        <5> QED BY <5>1, <5>2
      <4> QED BY <2>1, <3>1, <4>1, <4>2
    <3>2. CASE t # s
      <4>1. e.fd[t] = d.fd[t]
        BY <1>1, <1>4, <3>2
      <4>2. d.fd[t] # -1 <=> \E i \in 1 .. Len(d.list) : d.list[i] = t
        BY <1>0 DEF NumbersOwned
      <4>3. ASSUME NEW i \in 1 .. Len(d.list), d.list[i] = t
            PROVE  \E j \in 1 .. Len(d.list) - 1 : e.list[j] = t
        <5>1. i # p
          BY <1>0, <3>2, <4>3
        <5>2. CASE i < p
          <6>1. i \in 1 .. Len(d.list) - 1
            BY <1>0, <5>2
          <6> QED BY <2>2, <4>3, <5>2, <6>1
        <5>3. CASE i > p
          <6>1. i - 1 \in 1 .. Len(d.list) - 1 /\ ~(i - 1 < p) /\ (i - 1) + 1 = i
            BY <1>0, <5>3
          <6> QED BY <2>2, <4>3, <6>1
        <5> QED BY <1>0, <5>1, <5>2, <5>3
      <4>4. ASSUME NEW j \in 1 .. Len(d.list) - 1, e.list[j] = t
            PROVE  \E i \in 1 .. Len(d.list) : d.list[i] = t
        BY <1>0, <2>2, <4>4
      <4> QED BY <2>1, <4>1, <4>2, <4>3, <4>4
    <3> QED BY <3>1, <3>2
  <2> QED BY <2>4, <2>5
<1>9. \A k \in Fds : /\ g[k] # None => e.fd[g[k]] = k
                     /\ e.ndesc[k] # None => e.fd[e.ndesc[k]] = k
  <2> SUFFICES ASSUME NEW k \in Fds
               PROVE  /\ g[k] # None => e.fd[g[k]] = k
                      /\ e.ndesc[k] # None => e.fd[e.ndesc[k]] = k
    OBVIOUS
  <2>1. CASE k = n
    BY <1>1, <1>4, <2>1
  <2>2. CASE k # n
    <3>1. g[k] = f[k] /\ e.ndesc[k] = d.ndesc[k]
      BY <1>1, <1>4, <2>2
    <3>2. /\ f[k] # None => f[k] \in Sock /\ d.fd[f[k]] = k
          /\ d.ndesc[k] # None => d.ndesc[k] \in Sock /\ d.fd[d.ndesc[k]] = k
      BY <1>4 DEF NumbersOwned
    <3> QED BY <1>1, <1>4, <2>2, <3>1, <3>2
  <2> QED BY <2>1, <2>2
<1>10. \A k \in Kinds : e.fds[k] \subseteq {e.fd[t] : t \in {x \in Sock : e.fd[x] # -1}}
  <2>1. \A t \in Sock : t # s => e.fd[t] = d.fd[t]
    BY <1>1, <1>4
  <2>2. \A k \in Kinds : d.fds[k] \subseteq {d.fd[t] : t \in {x \in Sock : d.fd[x] # -1}}
    BY DEF NumbersOwned
  <2>3. \A k \in Kinds : e.fds[k] = d.fds[k] \ {n}
    BY <1>1
  <2> QED BY <2>1, <2>2, <2>3
<1>11. NumbersOwned(g, e)
  BY <1>6, <1>8, <1>9, <1>10 DEF NumbersOwned
<1> QED BY <1>0, <1>1, <1>2, <1>3, <1>11 DEF e, p

\* A set of naturals up to b has a greatest element.
LEMMA GreatestExists ==
  ASSUME NEW S \in SUBSET Nat, S # {}, NEW b \in Nat, \A x \in S : x <= b
  PROVE  \E x \in S : \A y \in S : y <= x
<1> DEFINE T == {b - x : x \in S}
           m == Min(T)
<1>1. T \in SUBSET Nat /\ T # {}
  <2>1. \A x \in S : b - x \in Nat
    OBVIOUS
  <2> QED BY <2>1
<1>2. m \in T /\ \A y \in T : m <= y
  BY <1>1, MinIsLeast
<1> HIDE DEF m
<1>3. PICK x \in S : m = b - x
  BY <1>2
<1>4. ASSUME NEW y \in S PROVE y <= x
  <2>1. b - x <= b - y
    BY <1>2, <1>3
  <2> QED BY <2>1
<1> QED BY <1>4

\* accept() and dup() find the lowest free number, if there is one.
LEMMA LowestIsFree ==
  ASSUME NEW f \in Files, \E n \in Fds : f[n] = None
  PROVE  LowestFree(f) \in Fds /\ f[LowestFree(f)] = None
<1> DEFINE S == {n \in Fds : f[n] = None}
           m == Min(S)
<1>1. m \in S /\ \A y \in S : m <= y
  <2>1. S \in SUBSET Nat /\ S # {}
    BY Constants
  <2> HIDE DEF S
  <2> QED BY <2>1, MinIsLeast
<1> HIDE DEF m
<1>2. \A k \in 0 .. m - 1 : k \in Fds /\ ~(m <= k)
  BY <1>1, NdescAssumption DEF Fds
<1>3. m \in Fds /\ f[m] = None /\ \A k \in 0 .. m - 1 : f[k] # None
  BY <1>1, <1>2
<1> QED BY <1>3 DEF LowestFree

\* There are as many numbers as sockets: one that is not attached finds one.
LEMMA NumberLeft ==
  ASSUME NEW f \in Files, NEW d \in Manager, NumbersOwned(f, d),
         NEW s \in Sock, d.fd[s] = -1
  PROVE  \E n \in Fds : f[n] = None
<1> SUFFICES ASSUME \A n \in Fds : f[n] # None PROVE FALSE
  OBVIOUS
<1> DEFINE T == Sock \ {s}
<1>1. IsFiniteSet(T) /\ Cardinality(T) = Cardinality(Sock) - 1
  BY FS_RemoveElement, TcpSvcAssumption
<1>2. Cardinality(Sock) \in Nat
  BY FS_CardinalityType, TcpSvcAssumption
<1>3. IsFiniteSet(Fds) /\ Cardinality(Fds) = FD_SETSIZE
  <2>1. FD_SETSIZE - 1 \in Int /\ 0 \in Int /\ FD_SETSIZE \in Nat
    BY NdescAssumption
  <2>2. /\ IsFiniteSet(0 .. FD_SETSIZE - 1)
        /\ Cardinality(0 .. FD_SETSIZE - 1) =
             IF 0 > FD_SETSIZE - 1 THEN 0 ELSE (FD_SETSIZE - 1) - 0 + 1
    BY <2>1, FS_Interval
  <2> QED BY <2>1, <2>2 DEF Fds
<1>4. Cardinality(T) < Cardinality(Fds)
  BY <1>1, <1>2, <1>3, TcpSvcAssumption, NdescAssumption
<1>5. f \in [Fds -> T] /\ \A n \in Fds : d.fd[f[n]] = n
  BY Constants DEF Files, NumbersOwned
<1> HIDE DEF T
<1>6. \E x, y \in Fds : x # y /\ f[x] = f[y]
  BY <1>1, <1>3, <1>4, <1>5, FS_PigeonHole
<1> QED BY <1>5, <1>6

\* The numbers in use are those of the attached descriptors.
LEMMA UsedNumbers ==
  ASSUME NEW f \in Files, NEW d \in Manager, NumbersOwned(f, d)
  PROVE  /\ \A t \in Sock : d.fd[t] # -1 => d.fd[t] \in Used(d)
         /\ Used(d) # {} => /\ HighestUsed(d) \in Used(d)
                             /\ \A n \in Used(d) : n <= HighestUsed(d)
<1>1. \A t \in Sock : d.fd[t] # -1 => d.fd[t] \in Used(d)
  BY Constants DEF NumbersOwned, Used, Manager
<1>2. ASSUME Used(d) # {}
      PROVE  /\ HighestUsed(d) \in Used(d)
             /\ \A n \in Used(d) : n <= HighestUsed(d)
  <2>1. d.max \in Nat
    <3>1. PICK n \in Fds : n <= d.max
      BY <1>2 DEF Used
    <3>2. n \in Nat /\ (d.max \in Nat \/ d.max = -1)
      BY Constants DEF Manager
    <3> QED BY <3>1, <3>2
  <2>2. Used(d) \in SUBSET Nat /\ \A n \in Used(d) : n <= d.max
    BY Constants DEF Used
  <2>3. \E x \in Used(d) : \A y \in Used(d) : y <= x
    BY <1>2, <2>1, <2>2, GreatestExists
  <2> QED BY <2>3 DEF HighestUsed
<1> QED BY <1>1, <1>2

\* A round of nd_gc() that moves the descriptor with the highest number.
LEMMA MovedKeeps ==
  ASSUME NEW f \in Files, NEW d \in Manager, NumbersOwned(f, d),
         NEW top \in Fds, d.ndesc[top] # None,
         \A n \in Used(d) : n <= top,
         NEW n \in Fds, f[n] = None, n < top
  PROVE  LET e == Moved(d, top, n)
             g == [f EXCEPT ![n] = d.ndesc[top], ![top] = None]
         IN  /\ g \in Files /\ e \in Manager /\ NumbersOwned(g, e)
             /\ e.list = d.list
             /\ \A t \in Sock : (e.fd[t] = -1) <=> (d.fd[t] = -1)
<1> DEFINE s == d.ndesc[top]
           e == Moved(d, top, n)
           g == [f EXCEPT ![n] = s, ![top] = None]
<1>4. /\ d.fd \in [Sock -> Fds \cup {-1}] /\ d.ndesc \in [Fds -> Sock \cup {None}]
      /\ d.list \in Seq(Sock) /\ d.max \in Fds \cup {-1}
      /\ d.mask \in [Sock -> SUBSET Masks] /\ d.fds \in [Kinds -> SUBSET Fds]
      /\ f \in [Fds -> Sock \cup {None}]
  BY DEF Manager, Files
<1>0. s \in Sock /\ d.fd[s] = top /\ top # n
  <2>1. top # n
    BY Constants
  <2> QED BY <1>4, <2>1 DEF NumbersOwned
<1>1. /\ e.list = d.list /\ e.mask = d.mask /\ e.gc = d.gc /\ e.max = top
      /\ e.fd = [d.fd EXCEPT ![s] = n]
      /\ e.ndesc = [[d.ndesc EXCEPT ![top] = None] EXCEPT ![n] = s]
      /\ \A k \in Kinds : e.fds[k] = IF top \in d.fds[k] THEN (d.fds[k] \ {top}) \cup {n}
                                     ELSE d.fds[k] \ {top}
  BY DEF Moved, nd_initfd, Manager
<1>2. e \in Manager
  <2>1. nd_initfd(d, top) \in Manager
    BY DEF nd_initfd, Manager
  <2>2. nd_initfd(d, top).fds \in [Kinds -> SUBSET Fds]
    BY <2>1 DEF Manager
  <2> DEFINE d1 == nd_initfd(d, top)
             F == [k \in Kinds |-> IF top \in d.fds[k] THEN d1.fds[k] \cup {n}
                                   ELSE d1.fds[k]]
  <2>3. F \in [Kinds -> SUBSET Fds]
    BY <2>2
  <2>4. e = [d1 EXCEPT !.fds = F, !.ndesc[n] = s, !.fd[s] = n, !.max = top]
    <3>1. d1 = [d1 EXCEPT !.fds = d1.fds]
      BY <2>1 DEF Manager
    <3> QED BY <2>1 DEF Moved, Manager
  <2> HIDE DEF d1, F, s, e
  <2>5. d1 \in Manager
    BY <2>1 DEF d1
  <2> QED BY <1>0, <2>3, <2>4, <2>5 DEF Manager
<1>3. g \in Files
  BY <1>0, <1>4 DEF Files
<1> HIDE DEF e, s
<1>F. ASSUME NEW k \in Kinds, NEW m
      PROVE  m \in e.fds[k] <=>
               ((m # top /\ m \in d.fds[k]) \/ (m = n /\ top \in d.fds[k]))
  <2>1. CASE top \in d.fds[k]
    <3>1. e.fds[k] = (d.fds[k] \ {top}) \cup {n}
      BY <1>1, <2>1
    <3> QED BY <2>1, <3>1
  <2>2. CASE top \notin d.fds[k]
    <3>1. e.fds[k] = d.fds[k] \ {top}
      BY <1>1, <2>2
    <3> QED BY <2>2, <3>1
  <2> QED BY <2>1, <2>2
<1>5. \A t \in Sock : t # s => d.fd[t] # top
  BY <1>0, <1>4, Constants DEF NumbersOwned
<1>6. \A t \in Sock : d.fd[t] # n
  BY <1>4, Constants DEF NumbersOwned
<1>7. \A t \in Sock : e.fd[t] # -1 =>
        /\ g[e.fd[t]] = t /\ e.ndesc[e.fd[t]] = t /\ e.fd[t] <= e.max
        /\ \A k \in Kinds : (e.fd[t] \in e.fds[k]) = (k \in e.mask[t])
  <2> SUFFICES ASSUME NEW t \in Sock, e.fd[t] # -1
        PROVE /\ g[e.fd[t]] = t /\ e.ndesc[e.fd[t]] = t /\ e.fd[t] <= e.max
              /\ \A k \in Kinds : (e.fd[t] \in e.fds[k]) = (k \in e.mask[t])
    OBVIOUS
  <2>1. CASE t = s
    <3>1. e.fd[t] = n /\ g[n] = t /\ e.ndesc[n] = t
      BY <1>0, <1>1, <1>4, <2>1
    <3>2. n <= e.max
      BY <1>1, Constants
    <3>3. ASSUME NEW k \in Kinds PROVE (n \in e.fds[k]) = (k \in e.mask[t])
      <4>1. n \notin d.fds[k]
        BY <1>4, <1>6 DEF NumbersOwned
      <4>2. (top \in d.fds[k]) = (k \in d.mask[s])
        BY <1>0, Constants DEF NumbersOwned
      <4>3. e.mask[t] = d.mask[s]
        BY <1>1, <2>1
      <4> QED BY <1>F, <4>1, <4>2, <4>3
    <3> QED BY <3>1, <3>2, <3>3
  <2>2. CASE t # s
    <3>1. e.fd[t] = d.fd[t] /\ d.fd[t] # -1 /\ d.fd[t] # n /\ d.fd[t] # top /\ d.fd[t] \in Fds
      BY <1>0, <1>1, <1>4, <1>5, <1>6, <2>2
    <3>2. /\ f[d.fd[t]] = t /\ d.ndesc[d.fd[t]] = t
          /\ \A k \in Kinds : (d.fd[t] \in d.fds[k]) = (k \in d.mask[t])
      BY <3>1 DEF NumbersOwned
    <3>3. g[d.fd[t]] = t /\ e.ndesc[d.fd[t]] = t
      BY <1>0, <1>1, <1>4, <3>1, <3>2
    <3>4. d.fd[t] <= e.max
      <4>1. d.fd[t] \in Used(d)
        BY <3>1, UsedNumbers
      <4> QED BY <1>1, <4>1
    <3>5. ASSUME NEW k \in Kinds PROVE (d.fd[t] \in e.fds[k]) = (k \in e.mask[t])
      <4>1. e.mask[t] = d.mask[t]
        BY <1>1
      <4> QED BY <1>F, <3>1, <3>2, <4>1
    <3> QED BY <3>1, <3>3, <3>4, <3>5
  <2> QED BY <2>1, <2>2
<1>8. \A t \in Sock : (e.fd[t] = -1) <=> (d.fd[t] = -1)
  BY <1>0, <1>1, <1>4, Constants
<1>9. \A k \in Fds : /\ g[k] # None => e.fd[g[k]] = k
                     /\ e.ndesc[k] # None => e.fd[e.ndesc[k]] = k
  <2> SUFFICES ASSUME NEW k \in Fds
               PROVE  /\ g[k] # None => e.fd[g[k]] = k
                      /\ e.ndesc[k] # None => e.fd[e.ndesc[k]] = k
    OBVIOUS
  <2>1. CASE k = n
    BY <1>0, <1>1, <1>4, <2>1
  <2>2. CASE k = top
    BY <1>0, <1>1, <1>4, <2>2
  <2>3. CASE k # n /\ k # top
    <3>1. g[k] = f[k] /\ e.ndesc[k] = d.ndesc[k]
      BY <1>0, <1>1, <1>4, <2>3
    <3>2. /\ f[k] # None => f[k] \in Sock /\ d.fd[f[k]] = k
          /\ d.ndesc[k] # None => d.ndesc[k] \in Sock /\ d.fd[d.ndesc[k]] = k
      BY <1>4 DEF NumbersOwned
    <3> QED BY <1>0, <1>1, <1>4, <2>3, <3>1, <3>2
  <2> QED BY <2>1, <2>2, <2>3
<1>10. \A k \in Kinds : e.fds[k] \subseteq {e.fd[t] : t \in {x \in Sock : e.fd[x] # -1}}
  <2> SUFFICES ASSUME NEW k \in Kinds, NEW m \in e.fds[k]
               PROVE  \E t \in Sock : e.fd[t] # -1 /\ e.fd[t] = m
    OBVIOUS
  <2>1. CASE m = n
    BY <1>0, <1>1, <1>4, <2>1, Constants
  <2>2. CASE m # n
    <3>1. m \in d.fds[k] /\ m # top
      BY <1>F, <2>2
    <3>2. PICK t \in Sock : d.fd[t] # -1 /\ d.fd[t] = m
      BY <3>1 DEF NumbersOwned
    <3> QED BY <1>0, <1>1, <1>4, <3>1, <3>2
  <2> QED BY <2>1, <2>2
<1>11. NumbersOwned(g, e)
  <2>1. /\ \A t \in Sock : d.fd[t] # -1 <=> \E i \in DOMAIN d.list : d.list[i] = t
        /\ IsInjective(d.list)
    BY DEF NumbersOwned
  <2>2. e.list = d.list
    BY <1>1
  <2>3. /\ \A t \in Sock : e.fd[t] # -1 <=> \E i \in DOMAIN e.list : e.list[i] = t
        /\ IsInjective(e.list)
    BY <1>8, <2>1, <2>2
  <2> HIDE DEF g
  <2> QED BY <1>7, <1>9, <1>10, <2>3 DEF NumbersOwned
<1> QED BY <1>1, <1>2, <1>3, <1>8, <1>11 DEF e, s

\* Enabling and disabling callbacks leaves the pass as it is.
LEMMA SameKeeps ==
  ASSUME NEW f, NEW d, NEW p, NEW e, Owned(f, d, p), SameNumbers(f, d, e)
  PROVE  Owned(f, e, p)
BY DEF Owned, SameNumbers, PassOwned, PassOrder

\* The descriptor that is called back is the one at hand.
LEMMA CallingBackCurrent ==
  ASSUME NEW f, NEW d, NEW p, Owned(f, d, p), CallingBack(p)
  PROVE  Current(f, d, p)
BY DEF Owned, CallingBack, Current, PassOwned, PassOrder, Passes

\* The next callback of the descriptor at hand.
LEMMA DueKeeps ==
  ASSUME NEW f, NEW d, NEW p, Owned(f, d, p), Current(f, d, p), NEW k
  PROVE  Owned(f, d, Due(p, d, k))
<1> DEFINE q == Due(p, d, k)
<1>1. /\ p \in Passes /\ p.nfds \in Int /\ p.setp \in {0, 1}
      /\ p.nfds - p.setp \in Int
  BY DEF Owned, Passes
<1>2. /\ q \in Passes /\ q.nd = p.nd /\ q.next = p.next
      /\ q.ready = p.ready /\ q.found = p.found
      /\ q.at \in {"next", "W", "R", "C"}
  BY <1>1 DEF Due, Passes
<1> HIDE DEF q
<1>3. PassOwned(d, q)
  BY <1>2, Constants DEF Owned, Current, PassOwned
<1>4. PassOrder(f, d, q)
  BY <1>2 DEF Owned, Current, PassOrder, CallingBack
<1> QED BY <1>2, <1>3, <1>4 DEF Owned, q

\* A callback that enables and disables callbacks.
LEMMA CallbackKeeps ==
  ASSUME NEW f, NEW d, NEW p, NEW e, Owned(f, d, p), CallingBack(p),
         SameNumbers(f, d, e), NEW k
  PROVE  Owned(f, e, Due(p, e, k))
<1>1. Owned(f, e, p)
  BY SameKeeps
<1> QED BY <1>1, CallingBackCurrent, DueKeeps

\* The end of a clean-up callback, and of the pass.
LEMMA PassGoesOn ==
  ASSUME NEW f, NEW d, NEW p, Owned(f, d, p)
  PROVE  /\ CallingBack(p) => Owned(f, d, [p EXCEPT !.at = "next"])
         /\ Owned(f, d, Idle) /\ Owned(f, d, [Idle EXCEPT !.at = "gc"])
<1>1. ASSUME CallingBack(p) PROVE Owned(f, d, [p EXCEPT !.at = "next"])
  <2> DEFINE q == [p EXCEPT !.at = "next"]
  <2>1. /\ q \in Passes /\ q.at = "next" /\ q.nd = p.nd /\ q.next = p.next
        /\ q.ready = p.ready /\ q.found = p.found
    BY DEF Owned, Passes
  <2> HIDE DEF q
  <2>2. PassOwned(d, q) /\ PassOrder(f, d, q)
    BY <1>1, <2>1 DEF Owned, PassOwned, PassOrder, CallingBack
  <2> QED BY <2>1, <2>2 DEF Owned, q
<1>2. ASSUME NEW q \in {Idle, [Idle EXCEPT !.at = "gc"]}
      PROVE  Owned(f, d, q)
  <2>1. /\ q \in Passes /\ q.at \in {"idle", "gc"} /\ q.nd = None
        /\ q.next = None /\ \A k \in Kinds : q.ready[k] = {}
    BY DEF Idle, Passes
  <2>2. PassOwned(d, q)
    BY <2>1 DEF PassOwned
  <2>3. PassOrder(f, d, q)
    BY <2>1, Constants DEF Owned, PassOrder, CallingBack
  <2> QED BY <2>1, <2>2, <2>3 DEF Owned
<1> QED BY <1>1, <1>2

\* The head of the loop takes the next descriptor of the list.
LEMMA AdvanceKeeps ==
  ASSUME NEW f, NEW d, NEW p, Owned(f, d, p), p.at = "next", p.next # None
  PROVE  LET q == [p EXCEPT !.nd = p.next, !.next = nd_next(d, p.next), !.setp = 0]
         IN  Owned(f, d, q) /\ Current(f, d, q)
<1> DEFINE s == p.next
           m == nd_next(d, s)
           i == Place(d, s)
           q == [p EXCEPT !.nd = s, !.next = m, !.setp = 0]
<1>1. /\ s \in Sock /\ d.fd[s] # -1 /\ d.list \in Seq(Sock)
      /\ Len(d.list) \in Nat /\ DOMAIN d.list = 1 .. Len(d.list)
  BY DEF Owned, Passes, PassOwned, Manager
<1>2. i \in 1 .. Len(d.list) /\ d.list[i] = s
  <2>1. \E j \in DOMAIN d.list : d.list[j] = s
    BY <1>1 DEF Owned, NumbersOwned
  <2> QED BY <1>1, <2>1 DEF Place
<1>3. m = IF i = Len(d.list) THEN None ELSE d.list[i + 1]
  BY DEF nd_next
<1> HIDE DEF m, i
<1>4. \/ m = None
      \/ m \in Sock /\ d.fd[m] # -1 /\ m \notin {s, Listener}
  <2>1. CASE i = Len(d.list)
    BY <1>3, <2>1
  <2>2. CASE i # Len(d.list)
    <3>1. i + 1 \in 1 .. Len(d.list) /\ i + 1 # i /\ i + 1 # 1 /\ 1 \in 1 .. Len(d.list)
      BY <1>1, <1>2, <2>2
    <3>2. m = d.list[i + 1] /\ m \in Sock
      BY <1>1, <1>3, <2>2, <3>1
    <3>3. \A a, b \in 1 .. Len(d.list) : d.list[a] = d.list[b] => a = b
      BY <1>1 DEF Owned, NumbersOwned, IsInjective
    <3>4. d.list[1] = Listener
      BY DEF Owned, PassOrder
    <3>5. m # s /\ m # Listener
      BY <1>2, <3>1, <3>2, <3>3, <3>4
    <3>6. d.fd[m] # -1
      BY <1>1, <3>1, <3>2 DEF Owned, NumbersOwned
    <3> QED BY <3>2, <3>5, <3>6
  <2> QED BY <2>1, <2>2
<1>5. m \in Sock \cup {None}
  BY <1>4
<1>6. /\ q \in Passes /\ q.at = "next" /\ q.nd = s /\ q.next = m
      /\ q.ready = p.ready /\ q.found = p.found
  BY <1>1, <1>5 DEF Owned, Passes
<1>7. s = Listener => \A k \in Kinds : \A n \in p.ready[k] : f[n] # None
  BY DEF Owned, PassOrder
<1> HIDE DEF q, s
<1>8. PassOwned(d, q)
  BY <1>4, <1>6 DEF Owned, PassOwned
<1>9. PassOrder(f, d, q)
  BY <1>4, <1>6, Constants DEF Owned, PassOrder, CallingBack
<1>10. Current(f, d, q)
  BY <1>1, <1>4, <1>6, <1>7, Constants DEF Current
<1> QED BY <1>6, <1>8, <1>9, <1>10 DEF Owned, q, s, m

\* tcpsvc_accept() attaches a connection.  It is called for the listening
\* socket, before any descriptor of the pass is closed, so the free number
\* it gets is none that select() found.
LEMMA AcceptKeeps ==
  ASSUME NEW f, NEW d, NEW p, Owned(f, d, p), CallingBack(p), p.nd = Listener,
         NEW c \in Sock, d.fd[c] = -1, NEW n \in Fds, f[n] = None
  PROVE  Owned([f EXCEPT ![n] = c], nd_attach(d, c, n), p)
<1> DEFINE e == nd_attach(d, c, n)
           g == [f EXCEPT ![n] = c]
<1>1. /\ g \in Files /\ e \in Manager /\ NumbersOwned(g, e)
      /\ e.fd = [d.fd EXCEPT ![c] = n]
      /\ e.list = Append(d.list, c)
  BY AttachKeeps DEF Owned
<1>2. /\ d.list \in Seq(Sock) /\ d.fd \in [Sock -> Fds \cup {-1}]
      /\ f \in [Fds -> Sock \cup {None}] /\ p \in Passes
  BY DEF Owned, Manager, Files
<1>3. \A k \in Kinds : \A m \in p.ready[k] : f[m] # None
  BY DEF Owned, PassOrder
<1>4. \A k \in Kinds : n \notin p.ready[k] /\ p.ready[k] \subseteq Fds
  BY <1>2, <1>3 DEF Passes
<1>5. g = [f EXCEPT ![n] = c]
  OBVIOUS
<1> HIDE DEF e, g
<1>6. e.list[1] = Listener /\ Len(e.list) > 0
  BY <1>1, <1>2 DEF Owned, PassOrder
<1>7. \A t \in Sock : d.fd[t] # -1 => e.fd[t] # -1
  BY <1>1, <1>2, Constants
<1>8. ASSUME NEW t \in Sock, NEW k \in Kinds, e.fd[t] # -1, e.fd[t] \in p.ready[k]
      PROVE  t \in p.found[k]
  <2>1. t # c
    BY <1>1, <1>2, <1>4, <1>8
  <2>2. e.fd[t] = d.fd[t]
    BY <1>1, <1>2, <2>1
  <2> QED BY <1>8, <2>2 DEF Owned, PassOwned
<1>9. /\ p.nd # None /\ d.fd[p.nd] # -1 /\ p.nd \in Sock
      /\ p.next # None => p.next \in Sock /\ d.fd[p.next] # -1
  BY <1>2 DEF Owned, PassOwned, CallingBack, Passes
<1>10. PassOwned(e, p)
  BY <1>7, <1>8, <1>9 DEF PassOwned
<1>11. \A k \in Kinds : \A m \in p.ready[k] : g[m] # None
  BY <1>2, <1>3, <1>4, <1>5
<1>12. PassOrder(g, e, p)
  BY <1>6, <1>11 DEF Owned, PassOrder, CallingBack
<1> QED BY <1>1, <1>2, <1>10, <1>12 DEF Owned, e, g

\* tcpsvc_shutdown() closes the connection that is called back.
LEMMA CloseKeeps ==
  ASSUME NEW f, NEW d, NEW p, Owned(f, d, p), CallingBack(p), p.nd \in Conn
  PROVE  Owned([f EXCEPT ![d.fd[p.nd]] = None], nd_detach(d, p.nd),
               [p EXCEPT !.at = "next"])
<1> DEFINE s == p.nd
           e == nd_detach(d, s)
           g == [f EXCEPT ![d.fd[s]] = None]
           q == [p EXCEPT !.at = "next"]
           i == Place(d, s)
<1>0. /\ s \in Sock /\ s # Listener /\ d.fd[s] # -1 /\ p.next \notin {s, Listener}
      /\ p.next # None => p.next \in Sock /\ d.fd[p.next] # -1
  BY Constants DEF Owned, PassOwned, PassOrder, CallingBack, Passes
<1>1. /\ g \in Files /\ e \in Manager /\ NumbersOwned(g, e)
      /\ e.fd = [d.fd EXCEPT ![s] = -1]
      /\ i \in 1 .. Len(d.list) /\ d.list[i] = s
      /\ e.list = RemoveAt(d.list, i)
  BY <1>0, DetachKeeps DEF Owned
<1>2. /\ d.list \in Seq(Sock) /\ d.fd \in [Sock -> Fds \cup {-1}]
      /\ p \in Passes /\ Len(d.list) \in Nat /\ d.list[1] = Listener
  BY DEF Owned, Manager, PassOrder
<1>3. /\ q \in Passes /\ q.at = "next" /\ q.nd = s /\ q.next = p.next
      /\ q.ready = p.ready /\ q.found = p.found
  BY <1>2 DEF Passes
<1> HIDE DEF e, g, q, i, s
<1>4. e.list[1] = Listener /\ Len(e.list) > 0
  <2>1. i # 1
    BY <1>0, <1>1, <1>2
  <2>2. 1 < i /\ 1 \in 1 .. Len(d.list) - 1
    BY <1>1, <1>2, <2>1
  <2>3. /\ Len(e.list) = Len(d.list) - 1
        /\ e.list[1] = IF 1 < i THEN d.list[1] ELSE d.list[1 + 1]
    BY <1>1, <1>2, <2>2, RemoveAtProperties
  <2> QED BY <1>2, <2>2, <2>3
<1>5. \A t \in Sock : e.fd[t] # -1 => e.fd[t] = d.fd[t]
  BY <1>0, <1>1, <1>2
<1>6. p.next # None => e.fd[p.next] # -1
  BY <1>0, <1>1, <1>2
<1>7. PassOwned(e, q)
  BY <1>3, <1>5, <1>6 DEF Owned, PassOwned
<1>8. PassOrder(g, e, q)
  BY <1>0, <1>3, <1>4 DEF PassOrder, CallingBack
<1> QED BY <1>1, <1>3, <1>7, <1>8 DEF Owned, e, g, q, s

\* nd_gc() gives the descriptor with the highest number a lower one.  No
\* pass is under way.
LEMMA GcMoves ==
  ASSUME NEW f, NEW d, NEW p, Owned(f, d, p), p.at = "gc",
         Used(d) # {}, \E n \in Fds : f[n] = None,
         LowestFree(f) < HighestUsed(d)
  PROVE  LET top == HighestUsed(d)
             new == LowestFree(f)
         IN  Owned([f EXCEPT ![new] = d.ndesc[top], ![top] = None],
                   Moved(d, top, new), p)
<1> DEFINE top == HighestUsed(d)
           new == LowestFree(f)
           g == [f EXCEPT ![new] = d.ndesc[top], ![top] = None]
           e == Moved(d, top, new)
<1>1. f \in Files /\ d \in Manager /\ NumbersOwned(f, d) /\ p \in Passes
  BY DEF Owned
<1>2. top \in Used(d) /\ \A n \in Used(d) : n <= top
  BY <1>1, UsedNumbers
<1>3. top \in Fds /\ d.ndesc[top] # None
  BY <1>2 DEF Used
<1>4. new \in Fds /\ f[new] = None /\ new < top
  BY <1>1, LowestIsFree
<1> HIDE DEF top, new
<1>5. /\ g \in Files /\ e \in Manager /\ NumbersOwned(g, e)
      /\ e.list = d.list
      /\ \A t \in Sock : (e.fd[t] = -1) <=> (d.fd[t] = -1)
  BY <1>1, <1>2, <1>3, <1>4, MovedKeeps
<1>6. p.next = None /\ \A k \in Kinds : p.ready[k] = {}
  BY DEF Owned, PassOrder
<1> HIDE DEF e, g
<1>7. PassOwned(e, p)
  BY <1>6 DEF PassOwned
<1>8. PassOrder(g, e, p)
  BY <1>5, <1>6, Constants DEF Owned, PassOrder, CallingBack
<1> QED BY <1>1, <1>5, <1>7, <1>8 DEF Owned, e, g, top, new

\* The last round of nd_gc() lowers nd_max_fd to the highest number in use.
LEMMA GcEnds ==
  ASSUME NEW f, NEW d, NEW p, Owned(f, d, p)
  PROVE  SameNumbers(f, d, [d EXCEPT !.gc = FALSE,
                              !.max = IF Used(d) = {} THEN -1 ELSE HighestUsed(d)])
<1> DEFINE top == IF Used(d) = {} THEN -1 ELSE HighestUsed(d)
           e == [d EXCEPT !.gc = FALSE, !.max = top]
<1>1. f \in Files /\ d \in Manager /\ NumbersOwned(f, d)
  BY DEF Owned
<1>2. /\ \A t \in Sock : d.fd[t] # -1 => d.fd[t] \in Used(d)
      /\ Used(d) # {} => top \in Used(d) /\ \A n \in Used(d) : n <= top
  BY <1>1, UsedNumbers
<1>3. top \in Fds \cup {-1}
  BY <1>2 DEF Used
<1>4. \A t \in Sock : d.fd[t] # -1 => d.fd[t] <= top
  BY <1>2
<1> HIDE DEF top
<1>5. /\ e \in Manager /\ e.list = d.list /\ e.fd = d.fd /\ e.ndesc = d.ndesc
      /\ e.mask = d.mask /\ e.fds = d.fds /\ e.max = top
  BY <1>1, <1>3 DEF Manager
<1> HIDE DEF e
<1>6. NumbersOwned(f, e)
  BY <1>1, <1>4, <1>5 DEF NumbersOwned
<1> QED BY <1>5, <1>6 DEF SameNumbers, e, top

\* The pass that starts when select() finds the conditions is.
StartedPass(f, d, is) ==
  LET ready == [k \in Kinds |-> {n \in d.fds[k] : f[n] \in is[k]}]
  IN  [Idle EXCEPT !.at = "next", !.next = Head(d.list), !.ready = ready,
         !.nfds = Cardinality(ready["R"]) + Cardinality(ready["W"]),
         !.found = [k \in Kinds |-> {f[n] : n \in ready[k]}]]

\* select() starts a pass with what it found on descriptors in use.
LEMMA SelectKeeps ==
  ASSUME NEW f, NEW d, NEW p, Owned(f, d, p), NEW is
  PROVE  Owned(f, d, StartedPass(f, d, is))
<1> DEFINE ready == [k \in Kinds |-> {n \in d.fds[k] : f[n] \in is[k]}]
           found == [k \in Kinds |-> {f[n] : n \in ready[k]}]
           nfds == Cardinality(ready["R"]) + Cardinality(ready["W"])
           q == [Idle EXCEPT !.at = "next", !.next = Head(d.list),
                             !.ready = ready, !.nfds = nfds, !.found = found]
<1>1. /\ f \in [Fds -> Sock \cup {None}] /\ d.fds \in [Kinds -> SUBSET Fds]
      /\ d.fd \in [Sock -> Fds \cup {-1}] /\ d.list \in Seq(Sock)
      /\ NumbersOwned(f, d)
  BY DEF Owned, Files, Manager
<1>2. ready \in [Kinds -> SUBSET Fds]
  BY <1>1
<1>3. \A k \in Kinds : \A n \in ready[k] :
        \E t \in Sock : d.fd[t] # -1 /\ d.fd[t] = n /\ f[n] = t
  BY <1>1 DEF NumbersOwned
<1>4. found \in [Kinds -> SUBSET Sock]
  BY <1>3
<1>5. nfds \in Int
  <2>1. "R" \in Kinds /\ "W" \in Kinds
    BY DEF Kinds
  <2>2. IsFiniteSet(Fds)
    BY FS_Interval, NdescAssumption DEF Fds
  <2>3. IsFiniteSet(ready["R"]) /\ IsFiniteSet(ready["W"])
    BY <1>2, <2>1, <2>2, FS_Subset
  <2>4. Cardinality(ready["R"]) \in Nat /\ Cardinality(ready["W"]) \in Nat
    BY <2>3, FS_CardinalityType
  <2> QED BY <2>4
<1>6. Head(d.list) = Listener /\ d.fd[Listener] # -1
  <2>1. Len(d.list) > 0 /\ d.list[1] = Listener
    BY DEF Owned, PassOrder
  <2>2. Head(d.list) = d.list[1] /\ 1 \in DOMAIN d.list
    BY <1>1, <2>1
  <2> QED BY <1>1, <2>1, <2>2, Constants DEF NumbersOwned
<1>7. \A k \in Kinds : found[k] = {f[n] : n \in ready[k]}
  OBVIOUS
<1> HIDE DEF ready, found, nfds
<1>8. /\ q \in Passes /\ q.at = "next" /\ q.nd = None /\ q.next = Listener
      /\ q.ready = ready /\ q.found = found
  BY <1>2, <1>4, <1>5, <1>6, Constants DEF Idle, Passes
<1> HIDE DEF q
<1>9. \A t \in Sock, k \in Kinds :
        d.fd[t] # -1 /\ d.fd[t] \in ready[k] => t \in found[k]
  <2> SUFFICES ASSUME NEW t \in Sock, NEW k \in Kinds,
                      d.fd[t] # -1, d.fd[t] \in ready[k]
               PROVE  t \in found[k]
    OBVIOUS
  <2>1. f[d.fd[t]] = t
    BY <1>1 DEF NumbersOwned
  <2> QED BY <1>7, <2>1
<1>10. PassOwned(d, q)
  BY <1>6, <1>8, <1>9 DEF PassOwned
<1>11. \A k \in Kinds : \A n \in ready[k] : f[n] # None
  BY <1>3, Constants
<1>12. PassOrder(f, d, q)
  BY <1>8, <1>11 DEF Owned, PassOrder, CallingBack
<1> QED BY <1>8, <1>10, <1>12 DEF Owned, StartedPass, q, ready, found, nfds

\* prepare_ipc(): the two sockets of the driver are attached, the listening
\* socket first.
LEMMA InitOwned == Init => OwnedInv
<1> SUFFICES ASSUME Init PROVE OwnedInv
  OBVIOUS
<1> DEFINE f0 == [n \in Fds |-> None]
           f1 == [f0 EXCEPT ![0] = Listener]
           f2 == [f1 EXCEPT ![1] = Udp]
           d1 == nd_attach(nd_init, Listener, 0)
           e1 == nd_enable(d1, Listener, {"R"})
           d2 == nd_attach(e1, Udp, 1)
           e2 == nd_enable(d2, Udp, {"R"})
<1>0. Listener \in Sock /\ Udp \in Sock /\ Udp # Listener /\ {"R"} \in SUBSET Masks
  BY Constants DEF Masks, Kinds
<1>1. /\ f0 \in Files /\ nd_init \in Manager /\ NumbersOwned(f0, nd_init)
      /\ \A t \in Sock : nd_init.fd[t] = -1
      /\ nd_init.list = << >> /\ nd_init.fd \in [Sock -> {-1}]
  <2>1. f0 \in Files
    BY DEF Files
  <2>2. nd_init \in Manager
    BY DEF nd_init, Manager
  <2>3. /\ \A t \in Sock : nd_init.fd[t] = -1
        /\ nd_init.list = << >> /\ nd_init.fd \in [Sock -> {-1}]
        /\ \A n \in Fds : nd_init.ndesc[n] = None
        /\ \A k \in Kinds : nd_init.fds[k] = {}
    BY DEF nd_init
  <2>4. DOMAIN nd_init.list = {} /\ IsInjective(nd_init.list)
    BY <2>3 DEF IsInjective
  <2>5. NumbersOwned(f0, nd_init)
    BY <2>3, <2>4 DEF NumbersOwned
  <2> QED BY <2>1, <2>2, <2>3, <2>5
<1> HIDE DEF f0
<1>2. 0 \in Fds
  <2>1. \E n \in Fds : f0[n] = None
    BY <1>0, <1>1, NumberLeft
  <2> QED BY <2>1, NdescAssumption DEF Fds
<1>3. \A n \in Fds : f0[n] = None
  BY DEF f0
<1>4. /\ f1 \in Files /\ d1 \in Manager /\ NumbersOwned(f1, d1)
      /\ d1.fd = [nd_init.fd EXCEPT ![Listener] = 0]
      /\ d1.list = Append(<< >>, Listener)
  BY <1>0, <1>1, <1>2, <1>3, AttachKeeps
<1> HIDE DEF d1
<1>5. SameNumbers(f1, d1, e1)
  <2>1. d1.fd[Listener] # -1
    BY <1>0, <1>1, <1>4
  <2> QED BY <1>0, <1>4, <2>1, EnableKeeps
<1> HIDE DEF e1
<1>6. /\ e1 \in Manager /\ NumbersOwned(f1, e1) /\ e1.fd[Udp] = -1
      /\ e1.list = Append(<< >>, Listener)
  BY <1>0, <1>1, <1>4, <1>5 DEF SameNumbers
<1>7. 1 \in Fds /\ f1[1] = None
  <2>1. \E n \in Fds : f1[n] = None
    BY <1>0, <1>4, <1>6, NumberLeft
  <2>2. f1[0] = Listener /\ Listener # None
    BY <1>0, <1>1, <1>2, Constants DEF Files
  <2>3. 1 \in Fds
    BY <2>1, <2>2, NdescAssumption DEF Fds
  <2> QED BY <1>1, <1>3, <2>3 DEF Files
<1>8. /\ f2 \in Files /\ d2 \in Manager /\ NumbersOwned(f2, d2)
      /\ d2.fd = [e1.fd EXCEPT ![Udp] = 1]
      /\ d2.list = Append(Append(<< >>, Listener), Udp)
  <2>1. /\ f1 \in Files /\ e1 \in Manager /\ NumbersOwned(f1, e1)
        /\ Udp \in Sock /\ e1.fd[Udp] = -1 /\ 1 \in Fds /\ f1[1] = None
    BY <1>0, <1>4, <1>6, <1>7
  <2> HIDE DEF f1
  <2>2. /\ f2 \in Files /\ d2 \in Manager /\ NumbersOwned(f2, d2)
        /\ d2.fd = [e1.fd EXCEPT ![Udp] = 1]
        /\ d2.list = Append(e1.list, Udp)
    BY <2>1, AttachKeeps
  <2> HIDE DEF f2, d2
  <2> QED BY <1>6, <2>2
<1>9. e1.fd \in [Sock -> Fds \cup {-1}]
  BY <1>6 DEF Manager
<1> HIDE DEF d2
<1>10. SameNumbers(f2, d2, e2)
  <2>1. d2.fd[Udp] # -1
    BY <1>0, <1>8, <1>9
  <2> HIDE DEF f2
  <2> QED BY <1>0, <1>8, <2>1, EnableKeeps
<1>11. files = f2
  BY <1>1, <1>2, <1>3, <1>7 DEF Init, Files, f0
<1>12. dm = e2
  BY DEF Init, d1, e1, d2
<1>13. /\ files \in Files /\ dm \in Manager /\ NumbersOwned(files, dm)
       /\ dm.list = Append(Append(<< >>, Listener), Udp)
  BY <1>8, <1>10, <1>11, <1>12 DEF SameNumbers
<1>14. dm.list[1] = Listener /\ Len(dm.list) > 0
  BY <1>0, <1>13
<1>15. /\ pass \in Passes /\ pass.at = "idle" /\ pass.nd = None
       /\ pass.next = None /\ \A k \in Kinds : pass.ready[k] = {}
  BY DEF Init, Idle, Passes
<1>16. PassOwned(dm, pass)
  BY <1>15 DEF PassOwned
<1>17. PassOrder(files, dm, pass)
  BY <1>14, <1>15, Constants DEF PassOrder, CallingBack
<1>18. backlog = {}
  BY DEF Init, TcpSvcInit
<1> QED BY <1>13, <1>15, <1>16, <1>17, <1>18 DEF OwnedInv, Owned

\* What the callbacks of TcpSvc do to the manager.
LEMMA ChangesKeep ==
  ASSUME NEW f \in Files, NEW d \in Manager, NumbersOwned(f, d),
         NEW c \in Sock, d.fd[c] # -1, NEW t
  PROVE  /\ SameNumbers(f, d, d)
         /\ \A m \in SUBSET Masks : /\ SameNumbers(f, d, nd_enable(d, c, m))
                                    /\ SameNumbers(f, d, nd_disable(d, c, m))
         /\ SameNumbers(f, d, DisconnectNd(d, c, t))
         /\ SameNumbers(f, d, Awaken(d, c, t))
         /\ SameNumbers(f, d, Written(d, c))
         /\ SameNumbers(f, d, RequestCallbacks(d, c))
<1>0. {"R"} \in SUBSET Masks /\ {"W"} \in SUBSET Masks /\ {"C"} \in SUBSET Masks
  BY DEF Masks, Kinds
<1>1. SameNumbers(f, d, d)
  BY DEF SameNumbers
<1>2. \A m \in SUBSET Masks : /\ SameNumbers(f, d, nd_enable(d, c, m))
                             /\ SameNumbers(f, d, nd_disable(d, c, m))
  BY EnableKeeps, DisableKeeps
<1>3. SameNumbers(f, d, DisconnectNd(d, c, t)) /\ SameNumbers(f, d, Awaken(d, c, t))
  BY <1>0, <1>1, <1>2 DEF DisconnectNd, Awaken
<1>4. ASSUME NEW e, SameNumbers(f, d, e), NEW m \in SUBSET Masks
      PROVE  SameNumbers(f, d, nd_enable(e, c, m))
  <2>1. e \in Manager /\ NumbersOwned(f, e) /\ e.fd[c] # -1
    BY <1>4 DEF SameNumbers
  <2>2. SameNumbers(f, e, nd_enable(e, c, m))
    BY <2>1, EnableKeeps
  <2> QED BY <1>4, <2>2 DEF SameNumbers
<1>5. SameNumbers(f, d, Written(d, c)) /\ SameNumbers(f, d, RequestCallbacks(d, c))
  BY <1>0, <1>2, <1>4 DEF Written, RequestCallbacks
<1> QED BY <1>1, <1>2, <1>3, <1>5

\* Callbacks may be enabled and disabled several times.
LEMMA SameTransitive ==
  ASSUME NEW f, NEW d, NEW e, NEW g, SameNumbers(f, d, e), SameNumbers(f, e, g)
  PROVE  SameNumbers(f, d, g)
BY DEF SameNumbers

\* Callbacks that leave the numbers alone leave the backlog so, too.
LEMMA NoneAttached ==
  ASSUME OwnedInv, dm'.fd = dm.fd, backlog' = backlog
  PROVE  backlog' \subseteq Conn \ Attached'
BY DEF OwnedInv, Attached

\* tcpsvc_read() only enables and disables callbacks.
LEMMA ReadKeeps ==
  ASSUME OwnedInv, NEW c \in Conn, tcpsvc_read(c)
  PROVE  OwnedInv'
<1>1. /\ c \in Sock /\ CallingBack(pass) /\ pass.nd = c
      /\ Owned(files, dm, pass)
      /\ files' = files /\ backlog' = backlog /\ pass' = Due(pass, dm', "C")
  BY Constants DEF OwnedInv, tcpsvc_read, CallingBack
<1>2. files \in Files /\ dm \in Manager /\ NumbersOwned(files, dm) /\ dm.fd[c] # -1
  BY <1>1 DEF Owned, PassOwned, CallingBack
<1>3. SameNumbers(files, dm, dm')
  <2>1. \/ dm' = DisconnectNd(dm, c, ts[c])
        \/ dm' \in {dm, Awaken(dm, c, ts[c])}
        \/ dm' \in {nd_disable(dm, c, {"R"}),
                    nd_disable(Awaken(dm, c, ts[c]), c, {"R"})}
    BY DEF tcpsvc_read
  <2>2. {"R"} \in SUBSET Masks
    BY DEF Masks, Kinds
  <2>3. /\ SameNumbers(files, dm, DisconnectNd(dm, c, ts[c]))
        /\ SameNumbers(files, dm, dm)
        /\ SameNumbers(files, dm, Awaken(dm, c, ts[c]))
        /\ SameNumbers(files, dm, nd_disable(dm, c, {"R"}))
    BY <1>1, <1>2, <2>2, ChangesKeep
  <2>4. SameNumbers(files, dm, nd_disable(Awaken(dm, c, ts[c]), c, {"R"}))
    <3> DEFINE e == Awaken(dm, c, ts[c])
    <3> HIDE DEF e
    <3>1. SameNumbers(files, dm, e)
      BY <2>3 DEF e
    <3>2. e \in Manager /\ NumbersOwned(files, e) /\ e.fd[c] # -1
      BY <1>2, <3>1 DEF SameNumbers
    <3>3. SameNumbers(files, e, nd_disable(e, c, {"R"}))
      BY <1>1, <1>2, <2>2, <3>2, DisableKeeps
    <3> QED BY <3>1, <3>3, SameTransitive DEF e
  <2> QED BY <2>1, <2>3, <2>4
<1>4. Owned(files', dm', pass')
  BY <1>1, <1>3, CallbackKeeps
<1>5. dm'.fd = dm.fd
  BY <1>3 DEF SameNumbers
<1> QED BY <1>1, <1>4, <1>5, NoneAttached DEF OwnedInv

\* tcpsvc_write() only enables and disables callbacks.
LEMMA WriteKeeps ==
  ASSUME OwnedInv, NEW c \in Conn, tcpsvc_write(c)
  PROVE  OwnedInv'
<1>1. /\ c \in Sock /\ CallingBack(pass) /\ pass.nd = c
      /\ Owned(files, dm, pass)
      /\ files' = files /\ backlog' = backlog /\ pass' = Due(pass, dm', "R")
  BY Constants DEF OwnedInv, tcpsvc_write, CallingBack
<1>2. files \in Files /\ dm \in Manager /\ NumbersOwned(files, dm) /\ dm.fd[c] # -1
  BY <1>1 DEF Owned, PassOwned, CallingBack
<1>3. SameNumbers(files, dm, dm')
  <2>1. dm' \in {dm, Written(dm, c), DisconnectNd(dm, c, ts[c])}
    BY DEF tcpsvc_write
  <2> QED BY <1>1, <1>2, <2>1, ChangesKeep
<1>4. Owned(files', dm', pass')
  BY <1>1, <1>3, CallbackKeeps
<1>5. dm'.fd = dm.fd
  BY <1>3 DEF SameNumbers
<1> QED BY <1>1, <1>4, <1>5, NoneAttached DEF OwnedInv

\* tcpsvc_cleanup() closes the connection at hand, or answers on it.
LEMMA CleanupKeeps ==
  ASSUME OwnedInv, NEW c \in Conn, tcpsvc_cleanup(c)
  PROVE  OwnedInv'
<1>1. /\ c \in Sock /\ CallingBack(pass) /\ pass.nd = c
      /\ Owned(files, dm, pass) /\ backlog \subseteq Conn \ Attached
      /\ backlog' = backlog /\ pass' = [pass EXCEPT !.at = "next"]
  BY Constants DEF OwnedInv, tcpsvc_cleanup, CallingBack
<1>2. files \in Files /\ dm \in Manager /\ NumbersOwned(files, dm) /\ dm.fd[c] # -1
  BY <1>1 DEF Owned, PassOwned, CallingBack
<1>3. CASE tcpsvc_shutdown(c)
  <2>1. files' = [files EXCEPT ![dm.fd[c]] = None] /\ dm' = nd_detach(dm, c)
    BY <1>3 DEF tcpsvc_shutdown
  <2>2. Owned(files', dm', pass')
    BY <1>1, <2>1, CloseKeeps
  <2>3. dm'.fd = [dm.fd EXCEPT ![c] = -1] /\ dm.fd \in [Sock -> Fds \cup {-1}]
    <3>1. dm.fd \in [Sock -> Fds \cup {-1}]
      BY <1>2 DEF Manager
    <3> QED BY <1>1, <1>2, <2>1, <3>1, DetachKeeps
  <2>4. Attached' \subseteq Attached
    BY <2>3 DEF Attached
  <2> QED BY <1>1, <2>2, <2>4 DEF OwnedInv
<1>4. CASE files' = files /\ SameNumbers(files, dm, dm')
  <2>1. Owned(files', dm', pass)
    BY <1>1, <1>4, SameKeeps
  <2>2. Owned(files', dm', pass')
    BY <1>1, <2>1, PassGoesOn
  <2>3. dm'.fd = dm.fd
    BY <1>4 DEF SameNumbers
  <2> QED BY <1>1, <2>2, <2>3, NoneAttached DEF OwnedInv
<1>5. ASSUME files' = files, NoRequest(c)
      PROVE  SameNumbers(files, dm, dm')
  <2>1. {"R"} \in SUBSET Masks /\ {"C"} \in SUBSET Masks
    BY DEF Masks, Kinds
  <2>2. PICK e \in {dm, nd_enable(dm, c, {"R"})} : dm' = nd_disable(e, c, {"C"})
    BY <1>5 DEF NoRequest
  <2>3. SameNumbers(files, dm, e)
    BY <1>1, <1>2, <2>1, ChangesKeep
  <2>4. e \in Manager /\ NumbersOwned(files, e) /\ e.fd[c] # -1
    BY <1>2, <2>3 DEF SameNumbers
  <2>5. SameNumbers(files, e, dm')
    BY <1>1, <1>2, <2>1, <2>2, <2>4, DisableKeeps
  <2> QED BY <2>3, <2>5, SameTransitive
<1>6. ASSUME NEW i, Request(c, i)
      PROVE  SameNumbers(files, dm, dm')
  <2> DEFINE d == RequestCallbacks(dm, c)
  <2> HIDE DEF d
  <2>1. \E t : dm' \in {d, DisconnectNd(d, c, t)}
    BY <1>6 DEF Request, Refuse, Reply, d
  <2>2. SameNumbers(files, dm, d)
    BY <1>1, <1>2, ChangesKeep DEF d
  <2>3. d \in Manager /\ NumbersOwned(files, d) /\ d.fd[c] # -1
    BY <1>2, <2>2 DEF SameNumbers
  <2>4. SameNumbers(files, d, dm')
    BY <1>1, <1>2, <2>1, <2>3, ChangesKeep
  <2> QED BY SMTT(60), <2>2, <2>4, SameTransitive
<1>7. \/ tcpsvc_shutdown(c)
      \/ files' = files /\ (NoRequest(c) \/ \E i : Request(c, i))
  BY DEF tcpsvc_cleanup
<1> QED BY <1>3, <1>4, <1>5, <1>6, <1>7

\* tcpsvc_accept() attaches one connection of the backlog, or none.
LEMMA AcceptOwned ==
  ASSUME OwnedInv, tcpsvc_accept
  PROVE  OwnedInv'
<1>1. /\ CallingBack(pass) /\ pass.nd = Listener
      /\ Owned(files, dm, pass) /\ backlog \subseteq Conn \ Attached
      /\ pass' = Due(pass, dm', "C")
  BY DEF OwnedInv, tcpsvc_accept, CallingBack
<1>2. files \in Files /\ dm \in Manager /\ NumbersOwned(files, dm)
  BY <1>1 DEF Owned
<1>3. CASE UNCHANGED <<files, dm>> /\ backlog' \subseteq backlog
  <2>1. SameNumbers(files, dm, dm')
    BY <1>2, <1>3 DEF SameNumbers
  <2>2. Owned(files', dm', pass')
    BY <1>1, <1>3, <2>1, CallbackKeeps
  <2> QED BY <1>1, <1>3, <2>2 DEF OwnedInv, Attached
<1>4. ASSUME NEW c \in backlog, backlog' = backlog \ {c},
             files' = [files EXCEPT ![LowestFree(files)] = c],
             NEW d, d = nd_attach(dm, c, LowestFree(files)),
             \/ dm' = nd_enable(d, c, {"R"})
             \/ \E t : dm' = DisconnectNd(nd_enable(d, c, {"W"}), c, t)
      PROVE  OwnedInv'
  <2> DEFINE n == LowestFree(files)
  <2>1. c \in Sock /\ dm.fd[c] = -1
    BY <1>1, Constants DEF Attached
  <2>2. n \in Fds /\ files[n] = None
    <3>1. \E m \in Fds : files[m] = None
      BY <1>2, <2>1, NumberLeft
    <3> QED BY <1>2, <3>1, LowestIsFree
  <2> HIDE DEF n
  <2>3. files' = [files EXCEPT ![n] = c] /\ d = nd_attach(dm, c, n)
    BY <1>4 DEF n
  <2>4. Owned(files', d, pass)
    BY <1>1, <2>1, <2>2, <2>3, AcceptKeeps
  <2>5. /\ files' \in Files /\ d \in Manager /\ NumbersOwned(files', d)
        /\ d.fd = [dm.fd EXCEPT ![c] = n] /\ dm.fd \in [Sock -> Fds \cup {-1}]
    <3>1. dm.fd \in [Sock -> Fds \cup {-1}]
      BY <1>2 DEF Manager
    <3>2. /\ nd_attach(dm, c, n) \in Manager /\ [files EXCEPT ![n] = c] \in Files
          /\ NumbersOwned([files EXCEPT ![n] = c], nd_attach(dm, c, n))
          /\ nd_attach(dm, c, n).fd = [dm.fd EXCEPT ![c] = n]
      BY SMTT(60), <1>2, <2>1, <2>2, AttachKeeps
    <3> QED BY <2>3, <3>1, <3>2
  <2>6. d.fd[c] # -1
    BY <2>1, <2>2, <2>5, Constants
  <2>7. SameNumbers(files', d, dm')
    <3>1. {"R"} \in SUBSET Masks /\ {"W"} \in SUBSET Masks
      BY DEF Masks, Kinds
    <3>2. CASE dm' = nd_enable(d, c, {"R"})
      BY <2>1, <2>5, <2>6, <3>1, <3>2, EnableKeeps
    <3>3. CASE \E t : dm' = DisconnectNd(nd_enable(d, c, {"W"}), c, t)
      <4> DEFINE e == nd_enable(d, c, {"W"})
      <4>1. SameNumbers(files', d, e)
        BY <2>1, <2>5, <2>6, <3>1, EnableKeeps
      <4>2. PICK t : dm' = DisconnectNd(e, c, t)
        BY <3>3
      <4> HIDE DEF e
      <4>3. e \in Manager /\ NumbersOwned(files', e) /\ e.fd[c] # -1
        BY <2>6, <4>1 DEF SameNumbers
      <4>4. SameNumbers(files', e, dm')
        BY <2>1, <2>5, <4>2, <4>3, ChangesKeep
      <4> QED BY <4>1, <4>4, SameTransitive
    <3> QED BY <1>4, <3>2, <3>3
  <2>8. Owned(files', dm', pass')
    BY <1>1, <2>4, <2>7, CallbackKeeps
  <2>9. Attached' \subseteq Attached \cup {c}
    BY <2>1, <2>5, <2>7 DEF SameNumbers, Attached
  <2> QED BY <1>1, <1>4, <2>8, <2>9 DEF OwnedInv
<1>5. \/ UNCHANGED <<files, dm>> /\ backlog' \subseteq backlog
      \/ \E c \in backlog :
           /\ backlog' = backlog \ {c}
           /\ files' = [files EXCEPT ![LowestFree(files)] = c]
           /\ LET d == nd_attach(dm, c, LowestFree(files))
              IN  \/ dm' = nd_enable(d, c, {"R"})
                  \/ \E t : dm' = DisconnectNd(nd_enable(d, c, {"W"}), c, t)
  BY DEF tcpsvc_accept
<1> QED BY <1>3, <1>4, <1>5

\* The return of select() starts a pass, or none.
LEMMA SelectOwned ==
  ASSUME OwnedInv, Select
  PROVE  OwnedInv'
<1>1. Owned(files, dm, pass) /\ backlog \subseteq Conn \ Attached
  BY DEF OwnedInv
<1>2. /\ UNCHANGED <<files, dm, backlog>>
      /\ Owned(files, dm, pass')
  <2> DEFINE is == [k \in Kinds |-> {s \in Sock : Condition(k, s)}]
  <2>1. nd_select(is) /\ UNCHANGED backlog
    BY DEF Select, tcpsvars
  <2> HIDE DEF is
  <2>2. Owned(files, dm, PassOver)
    BY <1>1, PassGoesOn DEF PassOver
  <2>3. Owned(files, dm, StartedPass(files, dm, is))
    BY <1>1, SelectKeeps
  <2>4. pass' \in {PassOver, StartedPass(files, dm, is)} /\ UNCHANGED <<files, dm>>
    BY <2>1, Zenon DEF nd_select, StartedPass
  <2> QED BY <2>1, <2>2, <2>3, <2>4
<1> QED BY <1>1, <1>2 DEF OwnedInv, Attached

\* The head of the loop of nd_select(), and the rounds of nd_gc().
LEMMA WalkOwned ==
  ASSUME OwnedInv, Walk
  PROVE  OwnedInv'
<1>1. Owned(files, dm, pass) /\ backlog \subseteq Conn \ Attached
  BY DEF OwnedInv
<1>2. backlog' = backlog
  BY DEF Walk, tcpsvars
<1>3. CASE NextDescriptor
  <2>1. UNCHANGED <<files, dm>> /\ pass.at = "next"
    BY <1>3 DEF NextDescriptor
  <2>2. Owned(files, dm, PassOver)
    BY <1>1, PassGoesOn DEF PassOver
  <2> DEFINE q == [pass EXCEPT !.nd = pass.next, !.next = nd_next(dm, pass.next),
                               !.setp = 0]
  <2>3. \/ pass' = PassOver
        \/ pass.next # None /\ pass' \in {q, Due(q, dm, "W")}
    BY <1>3 DEF NextDescriptor
  <2>4. pass.next # None => Owned(files, dm, q) /\ Current(files, dm, q)
    BY <1>1, <2>1, AdvanceKeeps
  <2> HIDE DEF q
  <2>5. Owned(files, dm, pass')
    BY <2>2, <2>3, <2>4, DueKeeps
  <2> QED BY <1>1, <1>2, <2>1, <2>5 DEF OwnedInv, Attached
<1>4. CASE nd_gc
  <2>1. pass.at = "gc"
    BY <1>4 DEF nd_gc
  <2>2. CASE /\ Used(dm) # {} /\ (\E n \in Fds : files[n] = None)
             /\ LowestFree(files) < HighestUsed(dm)
             /\ dm' = Moved(dm, HighestUsed(dm), LowestFree(files))
             /\ files' = [files EXCEPT ![LowestFree(files)] = dm.ndesc[HighestUsed(dm)],
                                       ![HighestUsed(dm)] = None]
             /\ pass' = pass
    <3>1. Owned(files', dm', pass')
      BY <1>1, <2>1, <2>2, GcMoves
    <3>2. \A t \in Sock : (dm'.fd[t] = -1) <=> (dm.fd[t] = -1)
      <4>1. files \in Files /\ dm \in Manager /\ NumbersOwned(files, dm)
        BY <1>1 DEF Owned
      <4>2. /\ HighestUsed(dm) \in Fds /\ dm.ndesc[HighestUsed(dm)] # None
            /\ \A n \in Used(dm) : n <= HighestUsed(dm)
        BY <2>2, <4>1, UsedNumbers DEF Used
      <4>3. LowestFree(files) \in Fds /\ files[LowestFree(files)] = None
        BY <2>2, <4>1, LowestIsFree
      <4> QED BY <2>2, <4>1, <4>2, <4>3, MovedKeeps
    <3>3. Attached' = Attached
      BY <3>2 DEF Attached
    <3> QED BY <1>1, <1>2, <3>1, <3>3 DEF OwnedInv
  <2>3. CASE /\ dm' \in {dm, [dm EXCEPT !.gc = FALSE,
                              !.max = IF Used(dm) = {} THEN -1 ELSE HighestUsed(dm)]}
             /\ files' = files /\ pass' = Idle
    <3>1. SameNumbers(files, dm, dm')
      <4> DEFINE e == [dm EXCEPT !.gc = FALSE,
                         !.max = IF Used(dm) = {} THEN -1 ELSE HighestUsed(dm)]
      <4>1. SameNumbers(files, dm, dm)
        BY <1>1 DEF Owned, SameNumbers
      <4>2. SameNumbers(files, dm, e)
        BY <1>1, GcEnds
      <4> HIDE DEF e
      <4>3. dm' \in {dm, e}
        BY <2>3 DEF e
      <4> QED BY <4>1, <4>2, <4>3
    <3>2. Owned(files', dm', pass')
      BY <1>1, <2>3, <3>1, SameKeeps, PassGoesOn
    <3>3. dm'.fd = dm.fd
      BY <3>1 DEF SameNumbers
    <3> QED BY <1>2, <3>2, <3>3, NoneAttached DEF OwnedInv
  <2> QED BY <1>4, <2>2, <2>3 DEF nd_gc
<1> QED BY <1>3, <1>4 DEF Walk

\* Every step keeps the inductive invariant.
LEMMA NextOwned == OwnedInv /\ [Next]_vars => OwnedInv'
<1> SUFFICES ASSUME OwnedInv, [Next]_vars PROVE OwnedInv'
  OBVIOUS
<1>1. Owned(files, dm, pass) /\ backlog \subseteq Conn \ Attached
  BY DEF OwnedInv
<1>2. CASE Select
  BY <1>2, SelectOwned
<1>3. CASE Walk
  BY <1>3, WalkOwned
<1>4. CASE Serve
  <2>1. \/ tcpsvc_accept
        \/ \E c \in Conn : tcpsvc_read(c) \/ tcpsvc_write(c) \/ tcpsvc_cleanup(c)
    BY <1>4 DEF Serve
  <2> QED BY <2>1, AcceptOwned, ReadKeeps, WriteKeeps, CleanupKeeps
<1>5. CASE udpsvc_read
  <2>1. /\ UNCHANGED <<files, dm, backlog>> /\ CallingBack(pass)
        /\ pass' \in {Due(pass, dm, "C"), Idle}
    BY <1>5 DEF udpsvc_read, CallingBack
  <2>2. Owned(files, dm, Due(pass, dm, "C")) /\ Owned(files, dm, Idle)
    BY <1>1, <2>1, CallingBackCurrent, DueKeeps, PassGoesOn
  <2> QED BY <1>1, <2>1, <2>2 DEF OwnedInv, Attached
<1>6. CASE Datagram
  BY <1>1, <1>6 DEF Datagram, OwnedInv, Attached
<1>7. ASSUME NEW c \in Conn, Client(c) PROVE OwnedInv'
  <2>1. UNCHANGED <<files, dm, pass>>
    BY <1>7 DEF Client, Read, servervars
  <2>2. backlog' \subseteq Conn \ Attached
    BY <1>1, <1>7 DEF Client, Read, ReadAnswer, Connect, Type, Hangup,
                      Connected, Accepted
  <2> QED BY <1>1, <2>1, <2>2 DEF OwnedInv, Attached
<1>8. CASE UNCHANGED vars
  BY <1>1, <1>8 DEF vars, OwnedInv, Attached
<1> QED BY <1>2, <1>3, <1>4, <1>5, <1>6, <1>7, <1>8 DEF Next, Driver

(***************************************************************************)
(* DescriptorsOwned: in every behaviour of the services, with any number   *)
(* of connections and descriptor numbers, the number of each descriptor is *)
(* that of its own socket, nd_gc() included, and nd_select() calls nobody  *)
(* back for what it found on another descriptor.                           *)
(***************************************************************************)
THEOREM ServicesDescriptorsOwned == Spec => []DescriptorsOwned
<1>1. OwnedInv => DescriptorsOwned
  BY DEF OwnedInv, Owned, DescriptorsOwned
<1> QED BY <1>1, InitOwned, NextOwned, PTL DEF Spec

-----------------------------------------------------------------------------
(* Texts: what is read, collected and sent, piece by piece.                *)

Text == Seq(Chars)
Join(s, t) == s \o t
Put(s, x) == Append(s, x)
First(s, n) == SubSeq(s, 1, n)
Rest(s, n) == SubSeq(s, n + 1, Len(s))

\* Joined texts are a text, with the lengths added.
LEMMA JoinText ==
  \A s, t \in Text : Join(s, t) \in Text /\ Len(Join(s, t)) = Len(s) + Len(t)
BY ConcatProperties DEF Text, Join

\* It does not matter in which order pieces are joined.
LEMMA JoinAssociative ==
  \A s, t, u \in Text : Join(Join(s, t), u) = Join(s, Join(t, u))
<1> SUFFICES ASSUME NEW s \in Text, NEW t \in Text, NEW u \in Text
             PROVE  Join(Join(s, t), u) = Join(s, Join(t, u))
  OBVIOUS
<1> QED BY ConcatAssociative DEF Text, Join

\* Nothing joined to a text is the text.
LEMMA JoinEmpty ==
  <<>> \in Text /\ \A s \in Text : Join(s, <<>>) = s /\ Join(<<>>, s) = s
<1>1. <<>> \in Text
  BY DEF Text
<1>2. ASSUME NEW s \in Text PROVE Join(s, <<>>) = s /\ Join(<<>>, s) = s
  BY ConcatEmptySeq DEF Text, Join
<1> QED BY <1>1, <1>2

\* A text is the beginning and the rest.
LEMMA SplitText ==
  \A s \in Text : /\ Len(s) \in Nat
                  /\ \A n \in 0 .. Len(s) :
                       /\ First(s, n) \in Text /\ Len(First(s, n)) = n
                       /\ Rest(s, n) \in Text /\ Len(Rest(s, n)) = Len(s) - n
                       /\ Join(First(s, n), Rest(s, n)) = s
<1> SUFFICES ASSUME NEW s \in Seq(Chars)
    PROVE  /\ Len(s) \in Nat
           /\ \A n \in 0 .. Len(s) :
                /\ First(s, n) \in Seq(Chars) /\ Len(First(s, n)) = n
                /\ Rest(s, n) \in Seq(Chars) /\ Len(Rest(s, n)) = Len(s) - n
                /\ Join(First(s, n), Rest(s, n)) = s
  BY DEF Text
<1>0. Len(s) \in Nat /\ \A j \in 1 .. Len(s) : s[j] \in Chars
  BY LenProperties, ElementOfSeq
<1>1. ASSUME NEW n \in 0 .. Len(s)
      PROVE  /\ First(s, n) \in Seq(Chars) /\ Len(First(s, n)) = n
             /\ Rest(s, n) \in Seq(Chars) /\ Len(Rest(s, n)) = Len(s) - n
             /\ Join(First(s, n), Rest(s, n)) = s
  <2>1. First(s, n) \in Seq(Chars) /\ Len(First(s, n)) = n
    BY <1>0, SubSeqProperties DEF First
  <2>2. Rest(s, n) \in Seq(Chars) /\ Len(Rest(s, n)) = Len(s) - n
    BY <1>0, SubSeqProperties DEF Rest
  <2>3. Join(First(s, n), Rest(s, n)) = SubSeq(s, 1, Len(s))
    <3>1. 1 \in 1 .. Len(s) + 1 /\ n \in 1 - 1 .. Len(s) /\ Len(s) \in n .. Len(s)
      BY <1>0
    <3> QED BY <3>1, ConcatAdjacentSubSeq DEF Join, First, Rest
  <2>4. SubSeq(s, 1, Len(s)) = s
    BY SubSeqFull
  <2> QED BY <2>1, <2>2, <2>3, <2>4
<1> QED BY <1>0, <1>1

\* A character is put at the end of a text.
LEMMA PutText ==
  \A s, t \in Text : \A x \in Chars :
    /\ Put(s, x) \in Text /\ Len(Put(s, x)) = Len(s) + 1
    /\ Join(t, Put(s, x)) = Put(Join(t, s), x)
    /\ <<x>> \in Text /\ Put(s, x) = Join(s, <<x>>)
<1> SUFFICES ASSUME NEW s \in Seq(Chars), NEW t \in Seq(Chars), NEW x \in Chars
    PROVE  /\ Put(s, x) \in Text /\ Len(Put(s, x)) = Len(s) + 1
           /\ Join(t, Put(s, x)) = Put(Join(t, s), x)
           /\ <<x>> \in Text /\ Put(s, x) = Join(s, <<x>>)
  BY DEF Text
<1>1. Put(s, x) \in Text /\ Len(Put(s, x)) = Len(s) + 1
  BY AppendProperties DEF Text, Put
<1>2. <<x>> \in Text
  BY DEF Text
<1>3. \A r \in Seq(Chars) : Put(r, x) = Join(r, <<x>>)
  BY AppendIsConcat DEF Put, Join
<1>4. s \in Text /\ t \in Text /\ Join(t, s) \in Seq(Chars)
  BY JoinText DEF Text
<1> DEFINE e == <<x>>
<1> HIDE DEF e
<1>5. Join(t, Join(s, e)) = Join(Join(t, s), e)
  BY <1>2, <1>4, JoinAssociative DEF e
<1> QED BY <1>1, <1>2, <1>3, <1>4, <1>5 DEF e

\* A character put at the end of a joined text.
LEMMA PutLast ==
  \A s, t \in Text : \A x \in Chars : Join(t, Put(s, x)) = Put(Join(t, s), x)
BY PutText

\* The line that ends with the k-th character of q, and what is before and
\* after it.
LEMMA LineText ==
  ASSUME NEW a \in Text, NEW c \in Text, NEW q \in Text, NEW i \in Text,
         NEW k \in 1 .. Len(q)
  PROVE  LET req == Join(c, First(q, k - 1))
         IN  /\ req \in Text /\ Rest(q, k) \in Text /\ Len(Rest(q, k)) <= Len(q)
             /\ Join(a, Put(req, q[k])) \in Text
             /\ Join(a, Join(c, Join(q, i))) =
                  Join(Join(a, Put(req, q[k])), Join(Rest(q, k), i))
<1> DEFINE h == First(q, k - 1)
           raw == Rest(q, k)
           e == <<q[k]>>
           req == Join(c, h)
           re == Put(req, q[k])
<1>0. Len(q) \in Nat /\ q[k] \in Chars
  BY LenProperties, ElementOfSeq DEF Text
<1>1. h \in Text /\ Join(h, Rest(q, k - 1)) = q
  <2>1. k - 1 \in 0 .. Len(q)
    BY <1>0
  <2> QED BY <2>1, SplitText
<1>2. raw \in Text /\ Len(raw) = Len(q) - k
  <2>1. k \in 0 .. Len(q)
    BY <1>0
  <2> QED BY <2>1, SplitText
<1>3. Rest(q, k - 1) = Join(e, raw)
  <2>1. Len(q) \in k .. Len(q) /\ (k - 1) + 1 = k
    BY <1>0
  <2> QED BY <2>1, SubSeqRecursiveFirst DEF Join, Rest, Text
<1>4. e \in Text /\ req \in Text /\ re = Join(req, e) /\ re \in Text
  <2>1. req \in Text
    BY <1>1, JoinText
  <2> QED BY <1>0, <2>1, PutText
<1> HIDE DEF h, raw, e, req, re
<1>5. Join(q, i) = Join(h, Join(e, Join(raw, i)))
  <2>1. Join(e, raw) \in Text /\ Join(raw, i) \in Text
    BY <1>2, <1>4, JoinText
  <2>2. Join(Join(h, Join(e, raw)), i) = Join(h, Join(Join(e, raw), i))
    BY <1>1, <2>1, JoinAssociative
  <2>3. Join(Join(e, raw), i) = Join(e, Join(raw, i))
    BY <1>2, <1>4, JoinAssociative
  <2> QED BY <1>1, <1>3, <2>2, <2>3 DEF h
<1>6. Join(c, Join(q, i)) = Join(re, Join(raw, i))
  <2> DEFINE z == Join(raw, i)
  <2>1. z \in Text
    BY <1>2, JoinText
  <2> HIDE DEF z
  <2>2. Join(e, z) \in Text
    BY <1>4, <2>1, JoinText
  <2>3. Join(Join(c, h), Join(e, z)) = Join(c, Join(h, Join(e, z)))
    BY <1>1, <2>2, JoinAssociative
  <2>4. Join(Join(req, e), z) = Join(req, Join(e, z))
    BY <1>4, <2>1, JoinAssociative
  <2> QED BY <1>4, <1>5, <2>3, <2>4 DEF req, z
<1>7. Join(a, re) \in Text /\ Join(raw, i) \in Text
  BY <1>2, <1>4, JoinText
<1>8. Join(Join(a, re), Join(raw, i)) = Join(a, Join(re, Join(raw, i)))
  BY <1>4, <1>7, JoinAssociative
<1>9. Len(raw) <= Len(q)
  BY <1>0, <1>2
<1> QED BY <1>2, <1>4, <1>6, <1>7, <1>8, <1>9 DEF h, raw, req, re

\* The beginning of a text stays its beginning.
LEMMA PrefixStays ==
  \A a, t \in Text : \A x \in Chars :
    /\ IsPrefix(a, Join(a, t))
    /\ IsPrefix(a, t) => IsPrefix(a, Put(t, x))
<1> SUFFICES ASSUME NEW a \in Seq(Chars), NEW t \in Seq(Chars), NEW x \in Chars
             PROVE  /\ IsPrefix(a, a \o t)
                    /\ IsPrefix(a, t) => IsPrefix(a, Append(t, x))
  BY DEF Text, Join, Put
<1>0. /\ Len(a) \in Nat /\ Len(t) \in Nat
      /\ \A i \in 1 .. Len(a) : a[i] \in Chars
      /\ \A i \in 1 .. Len(t) : t[i] \in Chars
  BY LenProperties, ElementOfSeq
<1>1. SubSeq(a, 1, Len(a)) = a
  BY SubSeqFull
<1>2. ASSUME NEW s \in Seq(Chars), NEW u \in Seq(Chars), Len(a) <= Len(s), Len(a) <= Len(u),
             \A i \in 1 .. Len(a) : s[i] = u[i]
      PROVE  SubSeq(s, 1, Len(a)) = SubSeq(u, 1, Len(a))
  <2>1. Len(s) \in Nat /\ Len(u) \in Nat
        /\ \A i \in 1 .. Len(a) : s[i] \in Chars /\ u[i] \in Chars
    BY <1>0, <1>2, LenProperties, ElementOfSeq
  <2>2. /\ SubSeq(s, 1, Len(a)) \in Seq(Chars) /\ Len(SubSeq(s, 1, Len(a))) = Len(a)
        /\ \A i \in 1 .. Len(a) : SubSeq(s, 1, Len(a))[i] = s[i]
    BY <1>0, <2>1, SubSeqProperties
  <2>3. /\ SubSeq(u, 1, Len(a)) \in Seq(Chars) /\ Len(SubSeq(u, 1, Len(a))) = Len(a)
        /\ \A i \in 1 .. Len(a) : SubSeq(u, 1, Len(a))[i] = u[i]
    BY <1>0, <2>1, SubSeqProperties
  <2> QED BY <1>2, <2>2, <2>3, SeqEqual
<1>3. /\ a \o t \in Seq(Chars) /\ Len(a \o t) = Len(a) + Len(t)
      /\ \A i \in 1 .. Len(a) : (a \o t)[i] = a[i]
  BY <1>0, ConcatProperties
<1>4. IsPrefix(a, a \o t)
  BY <1>0, <1>2, <1>3 DEF IsPrefix
<1>5. ASSUME IsPrefix(a, t) PROVE IsPrefix(a, Append(t, x))
  <2>1. Len(a) <= Len(t) /\ SubSeq(a, 1, Len(a)) = SubSeq(t, 1, Len(a))
    BY <1>5 DEF IsPrefix
  <2>2. /\ Append(t, x) \in Seq(Chars) /\ Len(Append(t, x)) = Len(t) + 1
        /\ \A i \in 1 .. Len(a) : Append(t, x)[i] = t[i]
    BY <1>0, <2>1, AppendProperties
  <2>3. SubSeq(t, 1, Len(a)) = SubSeq(Append(t, x), 1, Len(a))
    BY <1>0, <1>2, <2>1, <2>2
  <2> QED BY <1>0, <2>1, <2>2, <2>3 DEF IsPrefix
<1> QED BY <1>4, <1>5

-----------------------------------------------------------------------------
(* The inductive invariant of the connections.  Which of the two texts the *)
(* canonical queue holds follows from the callbacks that are enabled and   *)
(* from TCPSVC_CLOSE; where an error answer waits, and the client has not  *)
(* gone, it is one character, which the socket takes at once when select() *)
(* found room, so it is written before the clean-up callback looks at it.  *)

Blocks ==
  {t \in [flags : SUBSET {"CLOSE", "ENABC", "ENABR"}, rawq : Text, canq : Text] :
     Len(t.rawq) <= RAWQ_SIZE /\ Len(t.canq) <= CANQ_SIZE}
Wires ==
  {w \in [in : Text, fin : BOOLEAN, unread : 0 .. SNDBUF_SIZE] :
     Len(w.in) <= RCVBUF_SIZE}
Logs == [typed : Text, asked : Text, answers : Text, count : Nat, sent : Text]

\* A request is collected.
Collecting(m, t) == "W" \notin m /\ "CLOSE" \notin t.flags

\* A connection as its callbacks find it: its callbacks m that are enabled,
\* its control block t, the kernel's part w and its history l.
ConnOK(m, t, w, l) ==
  /\ IsPrefix(l.asked, l.typed)
  /\ "W" \in m => Join(l.sent, t.canq) = l.answers
  /\ "W" \notin m => l.sent = l.answers
  /\ "W" \in m /\ "C" \in m => "CLOSE" \in t.flags
  /\ "W" \in m \/ "C" \in m => "CLOSE" \in t.flags \/ "ENABC" \notin t.flags
  /\ Collecting(m, t) /\ Len(t.canq) < CANQ_SIZE =>
       l.typed = Join(l.asked, Join(t.canq, Join(t.rawq, w.in)))
  /\ "W" \in m /\ "CLOSE" \notin t.flags => l.typed = Join(l.asked, Join(t.rawq, w.in))
  /\ "W" \in m /\ "CLOSE" \in t.flags /\ ~w.fin => Len(t.canq) <= 1

\* tcpsvc_read() moves n characters from the kernel to the raw queue.
LEMMA ConnRead ==
  ASSUME NEW m, NEW t \in Blocks, NEW w \in Wires, NEW l \in Logs,
         ConnOK(m, t, w, l), NEW n \in 0 .. Len(w.in),
         NEW e, NEW u, NEW x,
         ("W" \in e) <=> ("W" \in m),
         "C" \in e => "C" \in m \/ "ENABC" \in t.flags,
         ("CLOSE" \in u.flags) <=> ("CLOSE" \in t.flags),
         "ENABC" \in u.flags => "ENABC" \in t.flags /\ ("C" \in e => "C" \in m),
         u.rawq = Join(t.rawq, First(w.in, n)), u.canq = t.canq,
         x.in = Rest(w.in, n), x.fin = w.fin
  PROVE  ConnOK(e, u, x, l)
<1>1. t.rawq \in Text /\ w.in \in Text
  BY DEF Blocks, Wires
<1>2. First(w.in, n) \in Text /\ x.in \in Text /\ Join(First(w.in, n), x.in) = w.in
  BY <1>1, SplitText
<1>3. Join(Join(t.rawq, First(w.in, n)), x.in) = Join(t.rawq, w.in)
  BY <1>1, <1>2, JoinAssociative
<1>4. Join(u.rawq, x.in) = Join(t.rawq, w.in)
  BY <1>3
<1> QED BY <1>4 DEF ConnOK, Collecting

\* The connection is to be closed since the client has closed it.
LEMMA ConnGone ==
  ASSUME NEW m, NEW t, NEW w, NEW l, ConnOK(m, t, w, l), w.fin,
         NEW e, NEW u, ("W" \in e) <=> ("W" \in m),
         "CLOSE" \in u.flags, u.canq = t.canq
  PROVE  ConnOK(e, u, w, l)
BY DEF ConnOK, Collecting

\* tcpsvc_write() sends n characters of the answer.
Sends(m, t, w, l, n, e, u, x, k) ==
  /\ "W" \in m /\ n \in 0 .. Len(t.canq)
  /\ u.flags = t.flags /\ u.rawq = t.rawq /\ u.canq = Rest(t.canq, n)
  /\ x.in = w.in /\ x.fin = w.fin
  /\ k.typed = l.typed /\ k.asked = l.asked /\ k.answers = l.answers
  /\ k.sent = Join(l.sent, First(t.canq, n))
  /\ e = IF u.canq = <<>> THEN (m \ {"W"}) \cup {"C"} ELSE m

\* tcpsvc_write() moves n characters of the answer to the kernel.
LEMMA ConnWritten ==
  ASSUME NEW m, NEW t \in Blocks, NEW w \in Wires, NEW l \in Logs, NEW n,
         NEW e, NEW u, NEW x, NEW k,
         ConnOK(m, t, w, l), Sends(m, t, w, l, n, e, u, x, k)
  PROVE  ConnOK(e, u, x, k) /\ k.sent \in Text
<1> USE DEF Sends
<1>1. /\ t.canq \in Text /\ l.sent \in Text
      /\ t.rawq \in Text /\ w.in \in Text /\ Len(t.canq) \in Nat
  BY SplitText DEF Blocks, Wires, Logs
<1>2. /\ u.canq \in Text /\ First(t.canq, n) \in Text
      /\ Join(First(t.canq, n), u.canq) = t.canq
      /\ Len(u.canq) = Len(t.canq) - n
  BY <1>1, SplitText
<1>3. k.sent \in Text
  BY <1>1, <1>2, JoinText
<1>4. Join(k.sent, u.canq) = k.answers
  <2>1. Join(Join(l.sent, First(t.canq, n)), u.canq) = Join(l.sent, t.canq)
    BY <1>1, <1>2, JoinAssociative
  <2> QED BY <2>1 DEF ConnOK
<1>5. CASE u.canq = <<>>
  <2>1. e = (m \ {"W"}) \cup {"C"}
    BY <1>5
  <2>2. k.sent = k.answers
    BY <1>3, <1>4, <1>5, JoinEmpty
  <2>3. Join(u.canq, Join(u.rawq, x.in)) = Join(u.rawq, x.in)
    <3>1. Join(t.rawq, w.in) \in Text
      BY <1>1, JoinText
    <3>2. Join(<<>>, Join(t.rawq, w.in)) = Join(t.rawq, w.in)
      BY <3>1, JoinEmpty
    <3> QED BY <1>5, <3>2
  <2>4. "W" \notin e
    BY <2>1
  <2>5. "CLOSE" \in u.flags \/ "ENABC" \notin u.flags
    BY DEF ConnOK
  <2>6. "CLOSE" \notin u.flags => k.typed = Join(k.asked, Join(u.canq, Join(u.rawq, x.in)))
    BY <2>3 DEF ConnOK
  <2>7. IsPrefix(k.asked, k.typed)
    BY DEF ConnOK
  <2> QED BY <1>3, <2>2, <2>4, <2>5, <2>6, <2>7 DEF ConnOK, Collecting
<1>6. CASE u.canq # <<>>
  <2>1. e = m
    BY <1>6
  <2>2. "CLOSE" \in u.flags /\ ~x.fin => Len(u.canq) <= 1
    <3>1. "CLOSE" \in t.flags /\ ~w.fin => Len(t.canq) <= 1
      BY DEF ConnOK
    <3>2. Len(u.canq) <= Len(t.canq) /\ Len(u.canq) \in Nat
      <4>1. Len(u.canq) \in Nat
        BY <1>2, SplitText
      <4> QED BY <1>1, <1>2, <4>1
    <3> QED BY <1>1, <3>1, <3>2
  <2>3. /\ IsPrefix(k.asked, k.typed)
        /\ "C" \in m => "CLOSE" \in u.flags
        /\ "CLOSE" \in u.flags \/ "ENABC" \notin u.flags
        /\ "CLOSE" \notin u.flags => k.typed = Join(k.asked, Join(u.rawq, x.in))
    BY DEF ConnOK
  <2> QED BY <1>3, <1>4, <2>1, <2>2, <2>3 DEF ConnOK, Collecting
<1> QED BY <1>5, <1>6

\* What is collected of a request is all of it, unless it is too long.
LEMMA CollectedText ==
  \A q, s \in Text :
    /\ Collected(q, s) \in Text /\ Len(Collected(q, s)) <= CANQ_SIZE
    /\ ~Full(Collected(q, s), CANQ_SIZE) =>
         Collected(q, s) = Join(q, s) /\ Len(q) < CANQ_SIZE
<1> SUFFICES ASSUME NEW q \in Text, NEW s \in Text
    PROVE  /\ Collected(q, s) \in Text /\ Len(Collected(q, s)) <= CANQ_SIZE
           /\ ~Full(Collected(q, s), CANQ_SIZE) =>
                Collected(q, s) = Join(q, s) /\ Len(q) < CANQ_SIZE
  OBVIOUS
<1> DEFINE all == Join(q, s)
<1>1. all \in Text /\ Len(all) = Len(q) + Len(s)
  BY JoinText
<1>2. Len(q) \in Nat /\ Len(s) \in Nat /\ CANQ_SIZE \in Nat
  BY SplitText, TcpSvcAssumption
<1>3. Collected(q, s) = IF Len(all) <= CANQ_SIZE THEN all ELSE First(all, CANQ_SIZE)
  BY Zenon DEF Collected, Join, First
<1> HIDE DEF all
<1>4. CASE Len(all) <= CANQ_SIZE
  <2>1. Collected(q, s) = all
    BY <1>3, <1>4
  <2>2. Len(all) # CANQ_SIZE => Len(q) < CANQ_SIZE
    BY <1>1, <1>2, <1>4
  <2> QED BY <1>1, <1>4, <2>1, <2>2 DEF Full, all
<1>5. CASE ~(Len(all) <= CANQ_SIZE)
  <2>1. CANQ_SIZE \in 0 .. Len(all)
    BY <1>1, <1>2, <1>5
  <2>2. First(all, CANQ_SIZE) \in Text /\ Len(First(all, CANQ_SIZE)) = CANQ_SIZE
    BY <1>1, <2>1, SplitText
  <2>3. Collected(q, s) = First(all, CANQ_SIZE)
    BY <1>3, <1>5
  <2> QED BY <1>2, <2>2, <2>3 DEF Full
<1> QED BY <1>4, <1>5

\* The raw queue is used up without a complete request.
LEMMA ConnNoRequest ==
  ASSUME NEW m, NEW t \in Blocks, NEW w \in Wires, NEW l \in Logs,
         ConnOK(m, t, w, l), "C" \in m, "CLOSE" \notin t.flags,
         NEW e, NEW u, "W" \in e => "W" \in m, "C" \notin e,
         u.rawq = <<>>, u.canq = Collected(t.canq, t.rawq)
  PROVE  ConnOK(e, u, w, l)
<1>1. /\ t.canq \in Text /\ t.rawq \in Text /\ w.in \in Text
      /\ l.asked \in Text
  BY DEF Blocks, Wires, Logs
<1>2. "W" \notin m /\ Collecting(m, t) /\ "W" \notin e
  BY DEF ConnOK, Collecting
<1>3. ASSUME Len(u.canq) < CANQ_SIZE
      PROVE  l.typed = Join(l.asked, Join(u.canq, Join(u.rawq, w.in)))
  <2>0. Len(u.canq) # CANQ_SIZE
    <3>1. u.canq \in Text /\ CANQ_SIZE \in Nat
      BY <1>1, CollectedText, TcpSvcAssumption
    <3>2. Len(u.canq) \in Nat
      BY <3>1, SplitText
    <3> QED BY <1>3, <3>1, <3>2
  <2>1. u.canq = Join(t.canq, t.rawq) /\ Len(t.canq) < CANQ_SIZE
    BY <1>1, <2>0, CollectedText DEF Full
  <2>2. Join(u.rawq, w.in) = w.in
    BY <1>1, JoinEmpty
  <2>3. Join(Join(t.canq, t.rawq), w.in) = Join(t.canq, Join(t.rawq, w.in))
    BY <1>1, JoinAssociative
  <2>4. l.typed = Join(l.asked, Join(t.canq, Join(t.rawq, w.in)))
    BY <1>2, <2>1 DEF ConnOK
  <2> QED BY <2>1, <2>2, <2>3, <2>4
<1>4. IsPrefix(l.asked, l.typed) /\ l.sent = l.answers
  BY <1>2 DEF ConnOK
<1> QED BY <1>2, <1>3, <1>4 DEF ConnOK, Collecting

\* A request is refused: the error answer waits, alone.
LEMMA ConnRefused ==
  ASSUME NEW m, NEW t, NEW w, NEW l,
         ConnOK(m, t, w, l), "C" \in m, "CLOSE" \notin t.flags,
         NEW e, NEW u, NEW k, "W" \in e,
         "CLOSE" \in u.flags, u.canq = ERROR,
         k.typed = l.typed, k.asked = l.asked, k.sent = l.sent,
         k.answers = Join(l.answers, ERROR)
  PROVE  ConnOK(e, u, w, k)
<1>1. "W" \notin m /\ l.sent = l.answers /\ IsPrefix(k.asked, k.typed)
  BY DEF ConnOK
<1>2. Len(ERROR) = 1
  BY DEF ERROR
<1>3. Join(k.sent, u.canq) = k.answers /\ Len(u.canq) <= 1
  BY <1>1, <1>2
<1> QED BY <1>1, <1>3 DEF ConnOK, Collecting

\* A request is answered with a.
Replies(t, l, i, req, a, e, u, k) ==
  /\ i \in 1 .. Len(t.rawq) /\ t.rawq[i] = NL
  /\ req = Collected(t.canq, First(t.rawq, i - 1)) /\ ~Full(req, CANQ_SIZE)
  /\ "W" \in e /\ "C" \notin e
  /\ u.flags = t.flags /\ u.rawq = Rest(t.rawq, i) /\ u.canq = a
  /\ k.typed = l.typed /\ k.asked = Join(l.asked, Put(req, NL))
  /\ k.sent = l.sent /\ k.answers = Join(l.answers, a)

\* The master object is asked one line, and its answer takes the queue.
LEMMA ConnReplied ==
  ASSUME NEW m, NEW t \in Blocks, NEW w \in Wires, NEW l \in Logs,
         ConnOK(m, t, w, l), "C" \in m, "CLOSE" \notin t.flags,
         NEW i, NEW req, NEW a, NEW e, NEW u, NEW k,
         Replies(t, l, i, req, a, e, u, k)
  PROVE  ConnOK(e, u, w, k) /\ k.asked \in Text
<1> USE DEF Replies
<1> DEFINE s == First(t.rawq, i - 1)
<1>0. "W" \notin m /\ l.sent = l.answers /\ Collecting(m, t)
  BY DEF ConnOK, Collecting
<1>1. /\ t.canq \in Text /\ t.rawq \in Text /\ w.in \in Text
      /\ l.asked \in Text /\ Len(t.rawq) \in Nat
  BY SplitText DEF Blocks, Wires, Logs
<1>2. s \in Text
  <2>1. i - 1 \in 0 .. Len(t.rawq)
    BY <1>1
  <2> QED BY <1>1, <2>1, SplitText
<1>3. req = Join(t.canq, s) /\ Len(t.canq) < CANQ_SIZE
  BY <1>1, <1>2, CollectedText
<1>4. l.typed = Join(l.asked, Join(t.canq, Join(t.rawq, w.in)))
  BY <1>0, <1>3 DEF ConnOK
<1>5. /\ k.asked \in Text /\ u.rawq \in Text
      /\ Join(l.asked, Join(t.canq, Join(t.rawq, w.in))) = Join(k.asked, Join(u.rawq, w.in))
  <2>1. /\ Rest(t.rawq, i) \in Text
        /\ Join(l.asked, Put(Join(t.canq, s), t.rawq[i])) \in Text
        /\ Join(l.asked, Join(t.canq, Join(t.rawq, w.in))) =
             Join(Join(l.asked, Put(Join(t.canq, s), t.rawq[i])),
                  Join(Rest(t.rawq, i), w.in))
    <3> DEFINE c == t.canq
               q == t.rawq
               b == l.asked
               r == w.in
    <3>1. b \in Text /\ c \in Text /\ q \in Text /\ r \in Text /\ i \in 1 .. Len(q)
      BY <1>1
    <3> HIDE DEF b, c, q, r
    <3>2. /\ Rest(q, i) \in Text
          /\ Join(b, Put(Join(c, First(q, i - 1)), q[i])) \in Text
          /\ Join(b, Join(c, Join(q, r))) =
               Join(Join(b, Put(Join(c, First(q, i - 1)), q[i])), Join(Rest(q, i), r))
      BY <3>1, LineText
    <3> QED BY <3>2 DEF b, c, q, r
  <2>2. k.asked = Join(l.asked, Put(Join(t.canq, s), t.rawq[i]))
    BY <1>3
  <2> HIDE DEF s
  <2> QED BY <2>1, <2>2
<1>6. Join(u.rawq, w.in) \in Text /\ NL \in Chars
  BY <1>1, <1>5, JoinText DEF Chars
<1>7. k.typed = Join(k.asked, Join(u.rawq, w.in))
  BY <1>4, <1>5
<1>8. IsPrefix(k.asked, k.typed)
  BY <1>5, <1>6, <1>7, PrefixStays
<1>9. Join(k.sent, u.canq) = k.answers
  BY <1>0
<1>10. "ENABC" \notin u.flags /\ "CLOSE" \notin u.flags
  BY DEF ConnOK
<1> QED BY <1>5, <1>7, <1>8, <1>9, <1>10 DEF ConnOK, Collecting

\* A client types a character.
LEMMA ConnTyped ==
  ASSUME NEW m, NEW t \in Blocks, NEW w \in Wires, NEW l \in Logs,
         ConnOK(m, t, w, l), NEW c \in Chars, NEW x, NEW k,
         x.in = Put(w.in, c), x.fin = w.fin,
         k.typed = Put(l.typed, c), k.asked = l.asked, k.sent = l.sent,
         k.answers = l.answers
  PROVE  ConnOK(m, t, x, k)
<1>1. /\ t.canq \in Text /\ t.rawq \in Text /\ w.in \in Text
      /\ l.asked \in Text /\ l.typed \in Text
  BY DEF Blocks, Wires, Logs
<1>2. \A s \in Text : \A r \in Text : Join(r, Put(s, c)) = Put(Join(r, s), c)
  BY PutLast, Zenon
<1> DEFINE ri == Join(t.rawq, w.in)
           cri == Join(t.canq, ri)
<1>3. ri \in Text /\ cri \in Text
  BY <1>1, JoinText
<1>4. Join(t.rawq, x.in) = Put(ri, c)
  BY <1>1, <1>2, Zenon
<1> HIDE DEF ri
<1>5. /\ Join(l.asked, Put(ri, c)) = Put(Join(l.asked, ri), c)
      /\ Join(t.canq, Put(ri, c)) = Put(cri, c)
  BY <1>1, <1>2, <1>3, Zenon
<1> HIDE DEF cri
<1>6. Join(l.asked, Put(cri, c)) = Put(Join(l.asked, cri), c)
  BY <1>1, <1>2, <1>3, Zenon
<1>7. IsPrefix(k.asked, k.typed)
  <2>1. IsPrefix(l.asked, l.typed)
    BY DEF ConnOK
  <2>2. IsPrefix(l.asked, Put(l.typed, c))
    BY <1>1, <2>1, PrefixStays, Zenon
  <2> QED BY <2>2, Zenon
<1>8. /\ "W" \in m /\ "CLOSE" \notin t.flags => k.typed = Join(k.asked, Join(t.rawq, x.in))
      /\ Collecting(m, t) /\ Len(t.canq) < CANQ_SIZE =>
           k.typed = Join(k.asked, Join(t.canq, Join(t.rawq, x.in)))
  <2>1. /\ "W" \in m /\ "CLOSE" \notin t.flags => l.typed = Join(l.asked, ri)
        /\ Collecting(m, t) /\ Len(t.canq) < CANQ_SIZE => l.typed = Join(l.asked, cri)
    BY DEF ConnOK, ri, cri
  <2> QED BY <1>4, <1>5, <1>6, <2>1
<1> QED BY <1>7, <1>8 DEF ConnOK, Collecting

\* A client reads, or closes the connection.
LEMMA ConnRest ==
  ASSUME NEW m, NEW t, NEW w, NEW l, ConnOK(m, t, w, l), NEW x,
         x.in = w.in, w.fin => x.fin
  PROVE  ConnOK(m, t, x, l)
BY DEF ConnOK, Collecting

\* tcpsvc_accept() of a connection, and of one too many.
LEMMA ConnAccepted ==
  ASSUME NEW w, w.in = <<>>, NEW m, NEW t, NEW l
  PROVE  /\ (m = {"R"} /\ t = tcpsvc_alloc /\ l = NoLog) => ConnOK(m, t, w, l)
         /\ ("W" \in m /\ "CLOSE" \in t.flags /\ t.canq = ERROR /\ l.typed = <<>>
               /\ l.asked = <<>> /\ l.sent = <<>> /\ l.answers = ERROR) =>
              ConnOK(m, t, w, l)
<1>1. <<>> \in Text /\ ERROR \in Text /\ Len(ERROR) = 1 /\ NL \in Chars
  BY DEF ERROR, Chars, Text
<1>2. Join(<<>>, <<>>) = <<>> /\ Join(<<>>, ERROR) = ERROR
  BY <1>1, JoinEmpty
<1>3. IsPrefix(<<>>, <<>>)
  <2> DEFINE nil == <<>>
  <2>1. nil \in Text /\ Join(nil, nil) = nil
    BY <1>1, <1>2
  <2> HIDE DEF nil
  <2>2. IsPrefix(nil, Join(nil, nil))
    BY <1>1, <2>1, PrefixStays
  <2>3. IsPrefix(nil, nil)
    BY <2>1, <2>2
  <2> QED BY <2>3 DEF nil
<1>4. ASSUME m = {"R"}, t = tcpsvc_alloc, l = NoLog PROVE ConnOK(m, t, w, l)
  <2>1. /\ t.canq = <<>> /\ t.rawq = <<>> /\ l.typed = <<>> /\ l.asked = <<>>
        /\ l.sent = <<>> /\ l.answers = <<>>
    BY <1>4 DEF tcpsvc_alloc, NoLog
  <2>2. "W" \notin m /\ "C" \notin m
    BY <1>4
  <2>3. l.typed = Join(l.asked, Join(t.canq, Join(t.rawq, w.in)))
    BY <1>2, <2>1
  <2> QED BY <1>3, <2>1, <2>2, <2>3 DEF ConnOK, Collecting
<1>5. ASSUME "W" \in m, "CLOSE" \in t.flags, t.canq = ERROR, l.typed = <<>>,
             l.asked = <<>>, l.sent = <<>>, l.answers = ERROR
      PROVE  ConnOK(m, t, w, l)
  <2>1. Join(l.sent, t.canq) = l.answers
    BY <1>2, <1>5, Zenon
  <2>2. Len(t.canq) = 1 /\ IsPrefix(l.asked, l.typed)
    BY <1>1, <1>3, <1>5, Zenon
  <2>3. Len(t.canq) <= 1
    BY <2>2
  <2> QED BY <1>5, <2>1, <2>2, <2>3 DEF ConnOK, Collecting
<1> QED BY <1>4, <1>5

-----------------------------------------------------------------------------
(* The connections under the pass of nd_select().                          *)

Room(w) == w.unread < SNDBUF_SIZE \/ w.fin

\* What select() found of a connection that was not called back yet.
Writable(d, p, w, s) ==
  s \in Conn /\ d.fd[s] \in p.ready["W"] => "W" \in d.mask[s] /\ Room(w[s])

\* The connection at hand in pass p.
Told(d, p, t, w) ==
  /\ p.at = "C" => "C" \in d.mask[p.nd]
  /\ p.at = "W" /\ p.nd \in Conn => "W" \in d.mask[p.nd] /\ Room(w[p.nd])
  /\ p.at \in {"R", "C"} /\ p.nd \in Conn /\ d.fd[p.nd] \in p.ready["W"] =>
       \/ w[p.nd].fin \/ "CLOSE" \notin t[p.nd].flags
       \/ "W" \notin d.mask[p.nd]

\* The connections that come later in pass p: they are behind the one at
\* hand in the list.
ToCome(d, p, w) ==
  \A i, j \in DOMAIN d.list : d.list[i] = p.next =>
    /\ i <= j => Writable(d, p, w, d.list[j])
    /\ CallingBack(p) /\ d.list[j] = p.nd => j < i

SvcTypes == ts \in [Conn -> Blocks] /\ wire \in [Conn -> Wires] /\ log \in [Conn -> Logs]

SvcInv ==
  /\ SvcTypes
  /\ \A c \in Accepted : ConnOK(dm.mask[c], ts[c], wire[c], log[c])
  /\ \A c \in backlog : log[c] = NoLog /\ wire[c].in = <<>>
  /\ Told(dm, pass, ts, wire) /\ ToCome(dm, pass, wire)
  /\ tcpsvc_count = Cardinality(Accepted)

Inv == OwnedInv /\ SvcInv

\* e is manager d with m the callbacks of s that are enabled.
Remasked(d, e, s, m) ==
  /\ e.fd = d.fd /\ e.list = d.list /\ e.mask[s] = m
  /\ \A x \in Sock : x # s => e.mask[x] = d.mask[x]

\* nd_enable() and nd_disable() change the callbacks of one socket.
LEMMA MaskChanged ==
  ASSUME NEW d \in Manager, NEW s \in Sock, NEW m \in SUBSET Masks
  PROVE  /\ Remasked(d, nd_enable(d, s, m), s, d.mask[s] \cup m)
         /\ Remasked(d, nd_disable(d, s, m), s, d.mask[s] \ m)
BY DEF Manager, nd_enable, nd_disable, Remasked

\* What the callbacks of TcpSvc do to the masks.
LEMMA MasksChanged ==
  ASSUME NEW f \in Files, NEW d \in Manager, NumbersOwned(f, d),
         NEW c \in Sock, d.fd[c] # -1, NEW t
  PROVE  /\ Remasked(d, DisconnectNd(d, c, t), c,
                     IF "CLOSE" \in t.flags THEN d.mask[c] ELSE d.mask[c] \cup {"C"})
         /\ Remasked(d, Awaken(d, c, t), c,
                     IF "ENABC" \in t.flags THEN d.mask[c] \cup {"C"} ELSE d.mask[c])
         /\ Remasked(d, Written(d, c), c, (d.mask[c] \ {"W"}) \cup {"C"})
         /\ Remasked(d, RequestCallbacks(d, c), c, (d.mask[c] \ {"C"}) \cup {"W"})
<1>0. {"R"} \in SUBSET Masks /\ {"W"} \in SUBSET Masks /\ {"C"} \in SUBSET Masks
  BY DEF Masks, Kinds
<1>1. Remasked(d, d, c, d.mask[c])
  BY DEF Remasked
<1>2. Remasked(d, nd_enable(d, c, {"C"}), c, d.mask[c] \cup {"C"})
  BY <1>0, MaskChanged
<1>3. Remasked(d, DisconnectNd(d, c, t), c,
               IF "CLOSE" \in t.flags THEN d.mask[c] ELSE d.mask[c] \cup {"C"})
  BY <1>1, <1>2, Zenon DEF DisconnectNd
<1>4. Remasked(d, Awaken(d, c, t), c,
               IF "ENABC" \in t.flags THEN d.mask[c] \cup {"C"} ELSE d.mask[c])
  BY <1>1, <1>2, Zenon DEF Awaken
<1>5. ASSUME NEW a \in {"W", "C"}, NEW b \in {"W", "C"}
      PROVE  Remasked(d, nd_enable(nd_disable(d, c, {a}), c, {b}), c, (d.mask[c] \ {a}) \cup {b})
  <2> DEFINE e == nd_disable(d, c, {a})
  <2>0. {a} \in SUBSET Masks /\ {b} \in SUBSET Masks
    BY DEF Masks, Kinds
  <2>1. Remasked(d, e, c, d.mask[c] \ {a}) /\ e \in Manager
    BY <2>0, MaskChanged, DisableKeeps DEF SameNumbers
  <2> HIDE DEF e
  <2>2. Remasked(e, nd_enable(e, c, {b}), c, e.mask[c] \cup {b})
    BY <2>0, <2>1, MaskChanged
  <2>3. Remasked(d, nd_enable(e, c, {b}), c, (d.mask[c] \ {a}) \cup {b})
    BY <2>1, <2>2 DEF Remasked
  <2> QED BY <2>3 DEF e
<1>6. /\ Remasked(d, Written(d, c), c, (d.mask[c] \ {"W"}) \cup {"C"})
      /\ Remasked(d, RequestCallbacks(d, c), c, (d.mask[c] \ {"C"}) \cup {"W"})
  BY <1>5 DEF Written, RequestCallbacks
<1> QED BY <1>3, <1>4, <1>6

\* What the code after a callback finds due.
LEMMA DueAt ==
  ASSUME NEW p \in Passes, NEW d, NEW k
  PROVE  LET q == Due(p, d, k)
         IN  /\ q.nd = p.nd /\ q.next = p.next /\ q.ready = p.ready
             /\ q.at \in {"next", "W", "R", "C"}
             /\ q.at = "C" => "C" \in d.mask[p.nd]
             /\ q.at = "W" => k = "W" /\ d.fd[p.nd] \in p.ready["W"]
             /\ k = "W" /\ q.at \in {"R", "C"} => d.fd[p.nd] \notin p.ready["W"]
BY DEF Due, Passes

\* A callback of the connection at hand leaves what is to come alone.
LEMMA CallbackTells ==
  ASSUME NEW d, NEW p, NEW w, ToCome(d, p, w), CallingBack(p), p.nd \in Conn,
         d.list \in Seq(Sock),
         NEW e, NEW m, Remasked(d, e, p.nd, m), NEW t, NEW x,
         \A c \in Conn : c # p.nd => x[c] = w[c],
         NEW q, q.nd = p.nd, q.next = p.next, q.ready = p.ready,
         q.at \in {"next", "R", "C"}, q.at = "C" => "C" \in m,
         q.at \in {"R", "C"} /\ d.fd[p.nd] \in p.ready["W"] =>
           x[p.nd].fin \/ "CLOSE" \notin t[p.nd].flags \/ "W" \notin m
  PROVE  Told(e, q, t, x) /\ ToCome(e, q, x)
<1>1. /\ e.fd = d.fd /\ e.list = d.list /\ e.mask[p.nd] = m
      /\ \A s \in Sock : s # p.nd => e.mask[s] = d.mask[s]
  BY DEF Remasked
<1>2. Told(e, q, t, x)
  BY <1>1 DEF Told
<1>3. ASSUME NEW i \in DOMAIN d.list, NEW j \in DOMAIN d.list, d.list[i] = p.next
      PROVE  /\ i <= j => Writable(e, q, x, d.list[j])
             /\ CallingBack(q) /\ d.list[j] = p.nd => j < i
  <2>1. /\ i <= j => Writable(d, p, w, d.list[j])
        /\ d.list[j] = p.nd => j < i
    BY <1>3 DEF ToCome
  <2>2. i \in Int /\ j \in Int /\ d.list[j] \in Sock
    <3>1. DOMAIN d.list = 1 .. Len(d.list) /\ Len(d.list) \in Nat
      BY LenProperties
    <3> QED BY <3>1, ElementOfSeq
  <2>3. i <= j => d.list[j] # p.nd
    BY <2>1, <2>2
  <2>4. i <= j => Writable(e, q, x, d.list[j])
    BY <1>1, <2>1, <2>2, <2>3 DEF Writable
  <2> QED BY <2>1, <2>4
<1>4. ToCome(e, q, x)
  BY <1>1, <1>3 DEF ToCome
<1> QED BY <1>2, <1>4

\* The masks when a descriptor comes, goes or moves.
LEMMA MasksOfOthers ==
  ASSUME NEW d \in Manager, NEW s \in Sock, NEW n, NEW top
  PROVE  /\ nd_attach(d, s, n).mask = [d.mask EXCEPT ![s] = {}]
         /\ nd_detach(d, s).mask = [d.mask EXCEPT ![s] = {}]
         /\ Moved(d, top, n).mask = d.mask
BY DEF Manager, nd_attach, nd_detach, nd_initfd, nd_remove, Moved

-----------------------------------------------------------------------------
(* The steps.                                                              *)

\* A callback of connection c that leaves it attached: m are its callbacks
\* after it, u its control block, x the kernel's part and k its history.
Callback(c, m, u, x, k) ==
  /\ CallingBack(pass) /\ pass.nd = c /\ Remasked(dm, dm', c, m)
  /\ u \in Blocks /\ ts' = [ts EXCEPT ![c] = u]
  /\ x \in Wires /\ wire' = [wire EXCEPT ![c] = x]
  /\ k \in Logs /\ log' = [log EXCEPT ![c] = k]
  /\ ConnOK(m, u, x, k) /\ UNCHANGED <<backlog, tcpsvc_count>>
  /\ pass'.nd = c /\ pass'.next = pass.next /\ pass'.ready = pass.ready
  /\ pass'.at \in {"next", "R", "C"} /\ (pass'.at = "C" => "C" \in m)
  /\ pass'.at \in {"R", "C"} /\ dm.fd[c] \in pass.ready["W"] =>
       x.fin \/ "CLOSE" \notin u.flags \/ "W" \notin m

\* A callback keeps the invariant if it keeps it for its own connection.
LEMMA OneConnection ==
  ASSUME Inv, NEW c \in Conn, NEW m, NEW u, NEW x, NEW k, Callback(c, m, u, x, k)
  PROVE  SvcInv'
<1>0. /\ CallingBack(pass) /\ pass.nd = c /\ Remasked(dm, dm', c, m)
      /\ u \in Blocks /\ ts' = [ts EXCEPT ![c] = u]
      /\ x \in Wires /\ wire' = [wire EXCEPT ![c] = x]
      /\ k \in Logs /\ log' = [log EXCEPT ![c] = k]
      /\ ConnOK(m, u, x, k) /\ backlog' = backlog /\ tcpsvc_count' = tcpsvc_count
      /\ pass'.nd = c /\ pass'.next = pass.next /\ pass'.ready = pass.ready
      /\ pass'.at \in {"next", "R", "C"} /\ (pass'.at = "C" => "C" \in m)
      /\ pass'.at \in {"R", "C"} /\ dm.fd[c] \in pass.ready["W"] =>
           x.fin \/ "CLOSE" \notin u.flags \/ "W" \notin m
  BY DEF Callback
<1>1. /\ SvcTypes /\ ToCome(dm, pass, wire) /\ OwnedInv
      /\ \A a \in Accepted : ConnOK(dm.mask[a], ts[a], wire[a], log[a])
      /\ \A a \in backlog : log[a] = NoLog /\ wire[a].in = <<>>
      /\ tcpsvc_count = Cardinality(Accepted)
  BY DEF Inv, SvcInv
<1>2. /\ ts'[c] = u /\ wire'[c] = x /\ log'[c] = k
      /\ \A a \in Conn : a # c => ts'[a] = ts[a] /\ wire'[a] = wire[a] /\ log'[a] = log[a]
      /\ SvcTypes'
  BY <1>0, <1>1 DEF SvcTypes
<1>3. /\ dm'.fd = dm.fd /\ dm'.list = dm.list /\ dm'.mask[c] = m
      /\ \A a \in Sock : a # c => dm'.mask[a] = dm.mask[a]
  BY <1>0 DEF Remasked
<1>4. Accepted' = Accepted /\ c \notin backlog
  <2>1. dm.fd[c] # -1
    BY <1>0, <1>1 DEF OwnedInv, Owned, PassOwned, CallingBack
  <2>2. Accepted' = Accepted
    BY <1>3 DEF Accepted, Attached
  <2>3. c \in Attached
    BY <2>1, Constants DEF Attached
  <2> QED BY <1>1, <2>2, <2>3 DEF OwnedInv
<1>5. ASSUME NEW a \in Accepted
      PROVE  ConnOK(dm'.mask[a], ts'[a], wire'[a], log'[a])
  <2>1. a \in Conn /\ a \in Sock /\ ConnOK(dm.mask[a], ts[a], wire[a], log[a])
    BY <1>1, Constants DEF Accepted
  <2>2. CASE a = c
    BY <1>0, <1>2, <1>3, <2>2
  <2>3. CASE a # c
    <3>1. /\ dm'.mask[a] = dm.mask[a] /\ ts'[a] = ts[a] /\ wire'[a] = wire[a]
          /\ log'[a] = log[a]
      BY <1>2, <1>3, <2>1, <2>3
    <3> QED BY <2>1, <3>1
  <2> QED BY <2>2, <2>3
<1>6. \A a \in backlog' : log'[a] = NoLog /\ wire'[a].in = <<>>
  <2>1. \A a \in backlog : a \in Conn /\ a # c
    BY <1>1, <1>4 DEF OwnedInv
  <2> QED BY <1>0, <1>1, <1>2, <2>1
<1>7. Told(dm', pass', ts', wire') /\ ToCome(dm', pass', wire')
  <2>1. dm.list \in Seq(Sock)
    BY <1>1 DEF OwnedInv, Owned, Manager
  <2> DEFINE d == dm
             e == dm'
             p == pass
             q == pass'
             t == ts'
             y == wire'
             w == wire
  <2>2. /\ ToCome(d, p, w) /\ CallingBack(p) /\ p.nd = c /\ d.list \in Seq(Sock)
        /\ Remasked(d, e, p.nd, m)
    BY <1>0, <1>1, <2>1
  <2>3. \A a \in Conn : a # p.nd => y[a] = w[a]
    BY <1>0, <1>2
  <2>4. /\ q.nd = p.nd /\ q.next = p.next /\ q.ready = p.ready
        /\ q.at \in {"next", "R", "C"} /\ (q.at = "C" => "C" \in m)
    BY <1>0
  <2>5. y[c] = x /\ t[c] = u
    BY <1>2
  <2>6. q.at \in {"R", "C"} /\ d.fd[c] \in p.ready["W"] =>
          x.fin \/ "CLOSE" \notin u.flags \/ "W" \notin m
    BY <1>0
  <2> HIDE DEF d, e, p, q, t, y, w
  <2>7. q.at \in {"R", "C"} /\ d.fd[p.nd] \in p.ready["W"] =>
          y[p.nd].fin \/ "CLOSE" \notin t[p.nd].flags \/ "W" \notin m
    BY <2>2, <2>5, <2>6
  <2>8. Told(e, q, t, y) /\ ToCome(e, q, y)
    BY ZenonT(60), <2>2, <2>3, <2>4, <2>7, CallbackTells
  <2> QED BY <2>8 DEF d, e, p, q, t, y, w
<1> QED BY <1>0, <1>1, <1>2, <1>4, <1>5, <1>6, <1>7 DEF SvcInv

\* The connection that is called back.
LEMMA AtHand ==
  ASSUME Inv, NEW c \in Conn, CallingBack(pass), pass.nd = c
  PROVE  /\ files \in Files /\ dm \in Manager /\ NumbersOwned(files, dm)
         /\ c \in Sock /\ dm.fd[c] # -1 /\ c \in Accepted /\ pass \in Passes
         /\ ts \in [Conn -> Blocks] /\ wire \in [Conn -> Wires] /\ log \in [Conn -> Logs]
         /\ ts[c] \in Blocks /\ wire[c] \in Wires /\ log[c] \in Logs
         /\ dm.mask[c] \in SUBSET Masks
         /\ ConnOK(dm.mask[c], ts[c], wire[c], log[c])
<1>1. /\ files \in Files /\ dm \in Manager /\ NumbersOwned(files, dm)
      /\ c \in Sock /\ dm.fd[c] # -1 /\ pass \in Passes
  BY Constants DEF Inv, OwnedInv, Owned, PassOwned, CallingBack
<1>2. c \in Accepted
  BY <1>1 DEF Accepted, Attached
<1>3. dm.mask[c] \in SUBSET Masks
  BY <1>1 DEF Manager
<1>4. /\ ts \in [Conn -> Blocks] /\ wire \in [Conn -> Wires] /\ log \in [Conn -> Logs]
      /\ ConnOK(dm.mask[c], ts[c], wire[c], log[c])
  BY <1>2 DEF Inv, SvcInv, SvcTypes
<1> QED BY <1>1, <1>2, <1>3, <1>4

\* tcpsvc_read()
LEMMA ReadTells ==
  ASSUME Inv, NEW c \in Conn, tcpsvc_read(c)
  PROVE  SvcInv'
<1>0. /\ pass.at = "R" /\ pass.nd = c /\ CallingBack(pass) /\ pass' = Due(pass, dm', "C")
      /\ UNCHANGED <<tcpsvc_count, backlog, log>>
  BY DEF tcpsvc_read, CallingBack
<1>1. /\ files \in Files /\ dm \in Manager /\ NumbersOwned(files, dm)
      /\ c \in Sock /\ dm.fd[c] # -1 /\ pass \in Passes
      /\ ts \in [Conn -> Blocks] /\ wire \in [Conn -> Wires] /\ log \in [Conn -> Logs]
      /\ ts[c] \in Blocks /\ wire[c] \in Wires /\ log[c] \in Logs
      /\ ConnOK(dm.mask[c], ts[c], wire[c], log[c])
  BY <1>0, AtHand
<1>2. /\ pass'.nd = c /\ pass'.next = pass.next /\ pass'.ready = pass.ready
      /\ pass'.at \in {"next", "R", "C"} /\ (pass'.at = "C" => "C" \in dm'.mask[c])
  BY <1>0, <1>1, DueAt
<1>3. dm.fd[c] \in pass.ready["W"] =>
        wire[c].fin \/ "CLOSE" \notin ts[c].flags \/ "W" \notin dm.mask[c]
  BY <1>0 DEF Inv, SvcInv, Told
<1>4. log' = [log EXCEPT ![c] = log[c]]
  BY <1>0, <1>1
<1>5. /\ ts[c].flags \in SUBSET {"CLOSE", "ENABC", "ENABR"}
      /\ ts[c].rawq \in Text /\ ts[c].canq \in Text /\ wire[c].in \in Text
      /\ Len(ts[c].rawq) <= RAWQ_SIZE /\ Len(ts[c].canq) <= CANQ_SIZE
      /\ Len(wire[c].in) <= RCVBUF_SIZE /\ wire[c].fin \in BOOLEAN
      /\ wire[c].unread \in 0 .. SNDBUF_SIZE
  BY <1>1 DEF Blocks, Wires
<1>6. /\ Len(ts[c].rawq) \in Nat /\ Len(wire[c].in) \in Nat /\ RAWQ_SIZE \in Nat
      /\ RCVBUF_SIZE \in Nat
  BY <1>5, SplitText, TcpSvcAssumption
<1> DEFINE room == RAWQ_SIZE - Len(ts[c].rawq)
<1>7. ASSUME NEW n \in IF {i \in 1 .. room : i <= Len(wire[c].in)} = {} THEN {0}
                      ELSE {i \in 1 .. room : i <= Len(wire[c].in)},
             LET raw == Join(ts[c].rawq, First(wire[c].in, n))
                 t == IF room = 0 THEN ts[c]
                      ELSE [ts[c] EXCEPT !.rawq = raw, !.flags = @ \ {"ENABC"}]
                 u == IF Full(raw, RAWQ_SIZE)
                      THEN [t EXCEPT !.flags = @ \cup {"ENABR"}] ELSE t
                 d == IF room = 0 THEN dm ELSE Awaken(dm, c, ts[c])
                 x == [wire[c] EXCEPT !.in = Rest(wire[c].in, n)]
             IN  /\ ts' = [ts EXCEPT ![c] = u]
                 /\ dm' = IF Full(raw, RAWQ_SIZE) THEN nd_disable(d, c, {"R"}) ELSE d
                 /\ wire' = [wire EXCEPT ![c] = x]
      PROVE  SvcInv'
  <2> DEFINE raw == Join(ts[c].rawq, First(wire[c].in, n))
             t == IF room = 0 THEN ts[c]
                  ELSE [ts[c] EXCEPT !.rawq = raw, !.flags = @ \ {"ENABC"}]
             u == IF Full(raw, RAWQ_SIZE)
                  THEN [t EXCEPT !.flags = @ \cup {"ENABR"}] ELSE t
             d == IF room = 0 THEN dm ELSE Awaken(dm, c, ts[c])
             x == [wire[c] EXCEPT !.in = Rest(wire[c].in, n)]
  <2>a. /\ ts' = [ts EXCEPT ![c] = u] /\ wire' = [wire EXCEPT ![c] = x]
        /\ dm' = IF Full(raw, RAWQ_SIZE) THEN nd_disable(d, c, {"R"}) ELSE d
    BY <1>7
  <2>b. raw = Join(ts[c].rawq, First(wire[c].in, n))
    OBVIOUS
  <2>c. t = IF room = 0 THEN ts[c]
            ELSE [ts[c] EXCEPT !.rawq = raw, !.flags = @ \ {"ENABC"}]
    OBVIOUS
  <2>d. u = IF Full(raw, RAWQ_SIZE) THEN [t EXCEPT !.flags = @ \cup {"ENABR"}] ELSE t
    OBVIOUS
  <2>e. d = IF room = 0 THEN dm ELSE Awaken(dm, c, ts[c])
    OBVIOUS
  <2>f. x = [wire[c] EXCEPT !.in = Rest(wire[c].in, n)]
    OBVIOUS
  <2> HIDE DEF raw, t, u, d, x
  <2>1. /\ n \in 0 .. Len(wire[c].in) /\ n <= room /\ room \in Nat
        /\ (room = 0 => n = 0)
    <3>1. room \in Nat
      BY <1>5, <1>6
    <3>2. CASE {i \in 1 .. room : i <= Len(wire[c].in)} = {}
      BY <1>6, <3>1, <3>2
    <3>3. CASE {i \in 1 .. room : i <= Len(wire[c].in)} # {}
      <4>1. n \in 1 .. room /\ n <= Len(wire[c].in)
        BY <3>3
      <4> HIDE DEF room
      <4> QED BY <1>6, <3>1, <4>1
    <3> QED BY <3>2, <3>3
  <2>2. /\ First(wire[c].in, n) \in Text /\ Len(First(wire[c].in, n)) = n
        /\ Rest(wire[c].in, n) \in Text
        /\ Len(Rest(wire[c].in, n)) = Len(wire[c].in) - n
    BY <1>5, <2>1, SplitText
  <2>3. raw \in Text /\ Len(raw) = Len(ts[c].rawq) + n
    <3> DEFINE f == First(wire[c].in, n)
    <3>1. f \in Text /\ Len(f) = n
      BY <2>2
    <3> HIDE DEF f
    <3>2. Join(ts[c].rawq, f) \in Text /\ Len(Join(ts[c].rawq, f)) = Len(ts[c].rawq) + Len(f)
      BY <1>5, <3>1, JoinText
    <3> QED BY <2>b, <3>1, <3>2, Zenon DEF f
  <2>4. Len(raw) <= RAWQ_SIZE
    BY <1>6, <2>1, <2>3
  <2>5. room = 0 => raw = ts[c].rawq
    <3> SUFFICES ASSUME room = 0 PROVE raw = ts[c].rawq
      OBVIOUS
    <3>1. First(wire[c].in, n) = <<>>
      BY <2>1, <2>2, EmptySeq DEF Text
    <3> QED BY <1>5, <2>b, <3>1, JoinEmpty
  <2>6. /\ t.rawq = raw /\ t.canq = ts[c].canq
        /\ t.flags = IF room = 0 THEN ts[c].flags ELSE ts[c].flags \ {"ENABC"}
        /\ t \in [flags : SUBSET {"CLOSE", "ENABC", "ENABR"}, rawq : Text, canq : Text]
    <3>1. ts[c] \in [flags : SUBSET {"CLOSE", "ENABC", "ENABR"}, rawq : Text, canq : Text]
      BY <1>1 DEF Blocks
    <3>2. CASE room = 0
      BY <2>c, <2>5, <3>1, <3>2
    <3>3. CASE room # 0
      BY <2>c, <2>3, <3>1, <3>3
    <3> QED BY <3>2, <3>3
  <2>7. /\ u \in Blocks /\ u.rawq = raw /\ u.canq = ts[c].canq
        /\ u.flags \subseteq t.flags \cup {"ENABR"} /\ t.flags \subseteq u.flags
    BY <1>5, <2>d, <2>4, <2>6 DEF Blocks
  <2>8. x \in Wires /\ x.in = Rest(wire[c].in, n) /\ x.fin = wire[c].fin
    <3>1. Len(Rest(wire[c].in, n)) <= RCVBUF_SIZE
      BY <1>5, <1>6, <2>1, <2>2
    <3> QED BY <1>1, <2>f, <2>2, <3>1 DEF Wires
  <2> DEFINE md == IF room # 0 /\ "ENABC" \in ts[c].flags
                   THEN dm.mask[c] \cup {"C"} ELSE dm.mask[c]
             m == IF Full(raw, RAWQ_SIZE) THEN md \ {"R"} ELSE md
  <2>9. Remasked(dm, d, c, md) /\ d \in Manager
    <3>1. /\ Remasked(dm, Awaken(dm, c, ts[c]), c,
                IF "ENABC" \in ts[c].flags THEN dm.mask[c] \cup {"C"} ELSE dm.mask[c])
          /\ Awaken(dm, c, ts[c]) \in Manager
      BY <1>1, MasksChanged, ChangesKeep DEF SameNumbers
    <3>2. Remasked(dm, dm, c, dm.mask[c])
      BY DEF Remasked
    <3>3. CASE room = 0
      BY <1>1, <2>e, <3>2, <3>3
    <3>4. CASE room # 0
      BY <1>1, <2>e, <3>1, <3>4
    <3> QED BY <3>3, <3>4
  <2> HIDE DEF room
  <2>10. Remasked(dm, dm', c, m)
    <3>1. Remasked(d, nd_disable(d, c, {"R"}), c, d.mask[c] \ {"R"})
      <4>1. {"R"} \in SUBSET Masks
        BY DEF Masks, Kinds
      <4> QED BY <1>1, <2>9, <4>1, MaskChanged
    <3>2. CASE Full(raw, RAWQ_SIZE)
      BY <2>a, <2>9, <3>1, <3>2 DEF Remasked
    <3>3. CASE ~Full(raw, RAWQ_SIZE)
      BY <2>a, <2>9, <3>3
    <3> QED BY <3>2, <3>3
  <2>11. ConnOK(m, u, x, log[c])
    <3>1. ("W" \in m <=> "W" \in dm.mask[c]) /\ ("C" \in m <=> "C" \in md)
      OBVIOUS
    <3>2. ("CLOSE" \in u.flags <=> "CLOSE" \in ts[c].flags)
      BY <2>6, <2>7
    <3>3. "ENABC" \in u.flags => "ENABC" \in ts[c].flags /\ room = 0
      BY <2>6, <2>7
    <3>4. "C" \in m => "C" \in dm.mask[c] \/ (room # 0 /\ "ENABC" \in ts[c].flags)
      BY <3>1
    <3>5. u.rawq = Join(ts[c].rawq, First(wire[c].in, n)) /\ u.canq = ts[c].canq
      BY <2>b, <2>7
    <3> HIDE DEF m
    <3> QED BY <1>1, <2>1, <2>8, <3>1, <3>2, <3>3, <3>4, <3>5, ConnRead
  <2>12. dm'.mask[c] = m /\ ("W" \in m <=> "W" \in dm.mask[c])
    BY <2>10 DEF Remasked
  <2>13. ("CLOSE" \in u.flags <=> "CLOSE" \in ts[c].flags)
    BY <2>6, <2>7
  <2>14. /\ pass'.at = "C" => "C" \in m
         /\ pass'.at \in {"R", "C"} /\ dm.fd[c] \in pass.ready["W"] =>
              x.fin \/ "CLOSE" \notin u.flags \/ "W" \notin m
    BY <1>2, <1>3, <2>8, <2>12, <2>13
  <2> HIDE DEF m, md
  <2>15. Callback(c, m, u, x, log[c])
    BY <1>0, <1>1, <1>2, <1>4, <2>a, <2>7, <2>8, <2>10, <2>11, <2>14 DEF Callback
  <2> QED BY <2>15, OneConnection

<1>8. ASSUME wire[c].fin, ts' = [ts EXCEPT ![c] = DisconnectTs(ts[c])],
             dm' = DisconnectNd(dm, c, ts[c]), wire' = wire
      PROVE  SvcInv'
  <2> DEFINE u == DisconnectTs(ts[c])
             m == IF "CLOSE" \in ts[c].flags THEN dm.mask[c] ELSE dm.mask[c] \cup {"C"}
  <2>1. u \in Blocks /\ "CLOSE" \in u.flags /\ u.canq = ts[c].canq
    BY <1>1 DEF DisconnectTs, Blocks
  <2>2. Remasked(dm, dm', c, m) /\ ("W" \in m <=> "W" \in dm.mask[c])
    BY <1>1, <1>8, MasksChanged
  <2> HIDE DEF u, m
  <2>3. ConnOK(m, u, wire[c], log[c])
    BY <1>1, <1>8, <2>1, <2>2, ConnGone
  <2>4. dm'.mask[c] = m
    BY <2>2 DEF Remasked
  <2>5. wire' = [wire EXCEPT ![c] = wire[c]] /\ ts' = [ts EXCEPT ![c] = u]
    BY <1>1, <1>8 DEF u
  <2>6. Callback(c, m, u, wire[c], log[c])
    BY <1>0, <1>1, <1>2, <1>4, <1>8, <2>1, <2>2, <2>3, <2>4, <2>5 DEF Callback
  <2> QED BY <2>6, OneConnection
<1>9. \/ /\ wire[c].fin /\ ts' = [ts EXCEPT ![c] = DisconnectTs(ts[c])]
         /\ dm' = DisconnectNd(dm, c, ts[c]) /\ wire' = wire
      \/ \E n \in IF {i \in 1 .. room : i <= Len(wire[c].in)} = {} THEN {0}
                  ELSE {i \in 1 .. room : i <= Len(wire[c].in)} :
           LET raw == Join(ts[c].rawq, First(wire[c].in, n))
               t == IF room = 0 THEN ts[c]
                    ELSE [ts[c] EXCEPT !.rawq = raw, !.flags = @ \ {"ENABC"}]
               u == IF Full(raw, RAWQ_SIZE)
                    THEN [t EXCEPT !.flags = @ \cup {"ENABR"}] ELSE t
               d == IF room = 0 THEN dm ELSE Awaken(dm, c, ts[c])
               x == [wire[c] EXCEPT !.in = Rest(wire[c].in, n)]
           IN  /\ ts' = [ts EXCEPT ![c] = u]
               /\ dm' = IF Full(raw, RAWQ_SIZE) THEN nd_disable(d, c, {"R"}) ELSE d
               /\ wire' = [wire EXCEPT ![c] = x]
  BY DEF tcpsvc_read, Join, First, Rest
<1> QED BY <1>7, <1>8, <1>9

\* tcpsvc_write()
LEMMA WriteTells ==
  ASSUME Inv, NEW c \in Conn, tcpsvc_write(c)
  PROVE  SvcInv'
<1>0. /\ pass.at = "W" /\ pass.nd = c /\ CallingBack(pass) /\ pass' = Due(pass, dm', "R")
      /\ UNCHANGED <<tcpsvc_count, backlog>>
  BY DEF tcpsvc_write, CallingBack
<1>1. /\ files \in Files /\ dm \in Manager /\ NumbersOwned(files, dm)
      /\ c \in Sock /\ dm.fd[c] # -1 /\ pass \in Passes
      /\ ts \in [Conn -> Blocks] /\ wire \in [Conn -> Wires] /\ log \in [Conn -> Logs]
      /\ ts[c] \in Blocks /\ wire[c] \in Wires /\ log[c] \in Logs
      /\ ConnOK(dm.mask[c], ts[c], wire[c], log[c])
  BY <1>0, AtHand
<1>2. /\ pass'.nd = c /\ pass'.next = pass.next /\ pass'.ready = pass.ready
      /\ pass'.at \in {"next", "R", "C"} /\ (pass'.at = "C" => "C" \in dm'.mask[c])
  BY <1>0, <1>1, DueAt
<1>3. "W" \in dm.mask[c] /\ Room(wire[c])
  BY <1>0 DEF Inv, SvcInv, Told
<1>5. /\ ts[c] \in [flags : SUBSET {"CLOSE", "ENABC", "ENABR"}, rawq : Text, canq : Text]
      /\ ts[c].canq \in Text /\ Len(ts[c].canq) <= CANQ_SIZE
      /\ Len(ts[c].rawq) <= RAWQ_SIZE /\ wire[c].unread \in 0 .. SNDBUF_SIZE
      /\ wire[c].fin \in BOOLEAN
  BY <1>1 DEF Blocks, Wires
<1>6. Len(ts[c].canq) \in Nat /\ CANQ_SIZE \in Nat /\ SNDBUF_SIZE \in Nat
  BY <1>5, SplitText, TcpSvcAssumption
<1> DEFINE canq == ts[c].canq
           some == {i \in 1 .. Len(canq) : i <= SNDBUF_SIZE - wire[c].unread}
<1>7. ASSUME NEW n \in IF some = {} THEN {0} ELSE some,
             ts' = [ts EXCEPT ![c].canq = Rest(canq, n)],
             wire' = [wire EXCEPT ![c].unread = @ + n],
             log' = [log EXCEPT ![c].sent = Join(@, First(canq, n))],
             dm' = IF Rest(canq, n) = <<>> THEN Written(dm, c) ELSE dm
      PROVE  SvcInv'
  <2> DEFINE u == [ts[c] EXCEPT !.canq = Rest(canq, n)]
             x == [wire[c] EXCEPT !.unread = @ + n]
             k == [log[c] EXCEPT !.sent = Join(@, First(canq, n))]
             m == IF u.canq = <<>> THEN (dm.mask[c] \ {"W"}) \cup {"C"} ELSE dm.mask[c]
  <2>1. n \in 0 .. Len(canq) /\ wire[c].unread + n \in 0 .. SNDBUF_SIZE
    <3>2. CASE some = {}
      BY <1>5, <1>6, <3>2
    <3>3. CASE some # {}
      BY SMTT(60), <1>5, <1>6, <3>3
    <3> QED BY <3>2, <3>3
  <2>2. /\ First(canq, n) \in Text /\ Rest(canq, n) \in Text
        /\ Len(Rest(canq, n)) = Len(canq) - n
    BY <1>5, <2>1, SplitText
  <2>3. ASSUME ~wire[c].fin, "CLOSE" \in ts[c].flags PROVE Rest(canq, n) = <<>>
    <3>1. Len(canq) <= 1
      BY <1>1, <1>3, <2>3 DEF ConnOK
    <3>2. wire[c].unread < SNDBUF_SIZE
      BY <1>3, <2>3 DEF Room
    <3>3. Len(canq) - n = 0
      <4>0. n \in Int /\ 0 <= n /\ n <= Len(canq)
        BY <1>6, <2>1
      <4>1. CASE Len(canq) = 0
        <5> HIDE DEF canq, some
        <5> QED BY <4>0, <4>1
      <4>2. CASE Len(canq) = 1
        <5>1. 1 \in some
          BY <1>5, <1>6, <3>2, <4>2
        <5>2. n \in some
          <6> HIDE DEF some
          <6> QED BY <5>1
        <5>3. 1 <= n
          <6>1. \A i \in some : i \in Int /\ 1 <= i
            BY <1>6
          <6> HIDE DEF some
          <6> QED BY <5>2, <6>1
        <5> HIDE DEF canq, some
        <5> QED BY <4>0, <4>2, <5>3
      <4>3. Len(canq) = 0 \/ Len(canq) = 1
        <5>1. Len(canq) \in Nat
          BY <1>6
        <5>2. \A i \in Nat : i <= 1 => i = 0 \/ i = 1
          OBVIOUS
        <5> QED BY <3>1, <5>1, <5>2, Zenon
      <4> QED BY <4>1, <4>2, <4>3
    <3> QED BY <2>2, <3>3, EmptySeq DEF Text
  <2>4. /\ u \in Blocks /\ u.flags = ts[c].flags /\ u.rawq = ts[c].rawq
        /\ u.canq = Rest(canq, n)
    <3>1. Len(Rest(canq, n)) <= CANQ_SIZE
      BY <1>5, <1>6, <2>1, <2>2
    <3> HIDE DEF canq
    <3> QED BY <1>5, <2>2, <3>1 DEF Blocks
  <2>5. x \in Wires /\ x.in = wire[c].in /\ x.fin = wire[c].fin
    BY <1>1, <2>1 DEF Wires
  <2>6. /\ k.typed = log[c].typed /\ k.asked = log[c].asked
        /\ k.answers = log[c].answers /\ k.count = log[c].count
        /\ k.sent = Join(log[c].sent, First(canq, n))
    BY <1>1 DEF Logs
  <2>7. Remasked(dm, dm', c, m)
    <3>1. Remasked(dm, Written(dm, c), c, (dm.mask[c] \ {"W"}) \cup {"C"})
      BY <1>1, MasksChanged
    <3>2. Remasked(dm, dm, c, dm.mask[c])
      BY DEF Remasked
    <3>3. CASE u.canq = <<>>
      BY <1>7, <2>4, <3>1, <3>3
    <3>4. CASE u.canq # <<>>
      BY <1>7, <2>4, <3>2, <3>4
    <3> QED BY <3>3, <3>4
  <2>8. /\ ts' = [ts EXCEPT ![c] = u] /\ wire' = [wire EXCEPT ![c] = x]
        /\ log' = [log EXCEPT ![c] = k]
    BY <1>7
  <2>9. m = IF u.canq = <<>> THEN (dm.mask[c] \ {"W"}) \cup {"C"} ELSE dm.mask[c]
    OBVIOUS
  <2>10. k \in Logs <=> k.sent \in Text
    BY <1>1 DEF Logs
  <2> HIDE DEF u, x, k, m
  <2>11. ConnOK(m, u, x, k) /\ k.sent \in Text
    <3>1. Sends(dm.mask[c], ts[c], wire[c], log[c], n, m, u, x, k)
      BY <1>3, <2>1, <2>4, <2>5, <2>6, <2>9 DEF Sends
    <3> HIDE DEF some, canq
    <3> QED BY <1>1, <3>1, ConnWritten
  <2>12. dm'.mask[c] = m
    BY <2>7 DEF Remasked
  <2>13. x.fin \/ "CLOSE" \notin u.flags \/ "W" \notin m
    BY <2>3, <2>4, <2>5, <2>9
  <2>14. Callback(c, m, u, x, k)
    BY <1>0, <1>2, <2>4, <2>5, <2>7, <2>8, <2>10, <2>11, <2>12, <2>13 DEF Callback
  <2> QED BY <2>14, OneConnection
<1>8. ASSUME wire[c].fin, ts' = [ts EXCEPT ![c] = DisconnectTs(ts[c])],
             dm' = DisconnectNd(dm, c, ts[c]), wire' = wire, log' = log
      PROVE  SvcInv'
  <2> DEFINE u == DisconnectTs(ts[c])
             m == IF "CLOSE" \in ts[c].flags THEN dm.mask[c] ELSE dm.mask[c] \cup {"C"}
  <2>1. u \in Blocks /\ "CLOSE" \in u.flags /\ u.canq = ts[c].canq
    BY <1>1 DEF DisconnectTs, Blocks
  <2>2. Remasked(dm, dm', c, m) /\ ("W" \in m <=> "W" \in dm.mask[c])
    BY <1>1, <1>8, MasksChanged
  <2> HIDE DEF u, m
  <2>3. ConnOK(m, u, wire[c], log[c])
    BY <1>1, <1>8, <2>1, <2>2, ConnGone
  <2>4. dm'.mask[c] = m
    BY <2>2 DEF Remasked
  <2>5. /\ wire' = [wire EXCEPT ![c] = wire[c]] /\ ts' = [ts EXCEPT ![c] = u]
        /\ log' = [log EXCEPT ![c] = log[c]]
    BY <1>1, <1>8 DEF u
  <2>6. Callback(c, m, u, wire[c], log[c])
    BY <1>0, <1>1, <1>2, <1>8, <2>1, <2>2, <2>3, <2>4, <2>5 DEF Callback
  <2> QED BY <2>6, OneConnection
<1>9. \/ /\ wire[c].fin /\ ts' = [ts EXCEPT ![c] = DisconnectTs(ts[c])]
         /\ dm' = DisconnectNd(dm, c, ts[c]) /\ wire' = wire /\ log' = log
      \/ \E n \in IF some = {} THEN {0} ELSE some :
           /\ ts' = [ts EXCEPT ![c].canq = Rest(canq, n)]
           /\ wire' = [wire EXCEPT ![c].unread = @ + n]
           /\ log' = [log EXCEPT ![c].sent = Join(@, First(canq, n))]
           /\ dm' = IF Rest(canq, n) = <<>> THEN Written(dm, c) ELSE dm
  BY DEF tcpsvc_write, Join, First, Rest
<1> QED BY <1>7, <1>8, <1>9

\* The end of the first complete request of the raw queue.
LEMMA FirstEnd ==
  ASSUME NEW q \in Text, {i \in DOMAIN q : q[i] = NL} # {}
  PROVE  LET ends == {i \in DOMAIN q : q[i] = NL}
             i == CHOOSE i \in ends : \A j \in ends : i <= j
         IN  i \in 1 .. Len(q) /\ q[i] = NL
<1> DEFINE ends == {i \in DOMAIN q : q[i] = NL}
<1>1. DOMAIN q = 1 .. Len(q) /\ Len(q) \in Nat
  BY LenProperties DEF Text
<1>2. ends \in SUBSET Nat /\ ends # {} /\ \A i \in ends : i \in 1 .. Len(q) /\ q[i] = NL
  BY <1>1
<1> HIDE DEF ends
<1>3. \E i \in ends : \A j \in ends : i <= j
  BY <1>2, MinIsLeast
<1>4. (CHOOSE i \in ends : \A j \in ends : i <= j) \in ends
  BY <1>3
<1> QED BY <1>2, <1>4 DEF ends

\* tcpsvc_cleanup() of a connection that is not to be closed.
LEMMA CleanupTells ==
  ASSUME Inv, NEW c \in Conn, tcpsvc_cleanup(c), "CLOSE" \notin ts[c].flags
  PROVE  SvcInv'
<1>0. /\ pass.at = "C" /\ pass.nd = c /\ CallingBack(pass)
      /\ pass' = [pass EXCEPT !.at = "next"]
      /\ UNCHANGED <<tcpsvc_count, backlog, wire>>
  BY DEF tcpsvc_cleanup, CallingBack
<1>1. /\ files \in Files /\ dm \in Manager /\ NumbersOwned(files, dm)
      /\ c \in Sock /\ dm.fd[c] # -1 /\ pass \in Passes
      /\ ts \in [Conn -> Blocks] /\ wire \in [Conn -> Wires] /\ log \in [Conn -> Logs]
      /\ ts[c] \in Blocks /\ wire[c] \in Wires /\ log[c] \in Logs
      /\ ConnOK(dm.mask[c], ts[c], wire[c], log[c])
  BY <1>0, AtHand
<1>2. /\ pass'.nd = c /\ pass'.next = pass.next /\ pass'.ready = pass.ready
      /\ pass'.at = "next"
  BY <1>0, <1>1 DEF Passes
<1>3. "C" \in dm.mask[c]
  BY <1>0 DEF Inv, SvcInv, Told
<1>4. wire' = [wire EXCEPT ![c] = wire[c]]
  BY <1>0, <1>1
<1>5. /\ ts[c] \in [flags : SUBSET {"CLOSE", "ENABC", "ENABR"}, rawq : Text, canq : Text]
      /\ ts[c].canq \in Text /\ ts[c].rawq \in Text
      /\ Len(ts[c].rawq) <= RAWQ_SIZE /\ Len(ts[c].canq) <= CANQ_SIZE
      /\ Len(ts[c].rawq) \in Nat /\ RAWQ_SIZE \in Nat /\ CANQ_SIZE \in Nat /\ CANQ_SIZE >= 1
  <2>1. /\ ts[c] \in [flags : SUBSET {"CLOSE", "ENABC", "ENABR"}, rawq : Text, canq : Text]
        /\ Len(ts[c].rawq) <= RAWQ_SIZE /\ Len(ts[c].canq) <= CANQ_SIZE
    BY <1>1 DEF Blocks
  <2>2. ts[c].canq \in Text /\ ts[c].rawq \in Text
    BY <2>1
  <2>3. Len(ts[c].rawq) \in Nat
    BY <2>2, SplitText
  <2>4. RAWQ_SIZE \in Nat \ {0} /\ CANQ_SIZE \in Nat \ {0}
    BY TcpSvcAssumption
  <2>5. CANQ_SIZE >= 1
    BY <2>4
  <2> QED BY <2>1, <2>2, <2>3, <2>4, <2>5
<1>R. {"R"} \in SUBSET Masks /\ {"C"} \in SUBSET Masks
  BY DEF Masks, Kinds
<1>6. ASSUME NoRequest(c) PROVE SvcInv'
  <2> DEFINE u == [flags |-> (ts[c].flags \ {"ENABR"}) \cup {"ENABC"}, rawq |-> <<>>,
                   canq |-> Collected(ts[c].canq, ts[c].rawq)]
             d == IF "ENABR" \in ts[c].flags THEN nd_enable(dm, c, {"R"}) ELSE dm
             m == d.mask[c] \ {"C"}
  <2>1. /\ ts' = [ts EXCEPT ![c] = u] /\ dm' = nd_disable(d, c, {"C"}) /\ log' = log
    BY <1>6 DEF NoRequest
  <2>2. /\ Collected(ts[c].canq, ts[c].rawq) \in Text
        /\ Len(Collected(ts[c].canq, ts[c].rawq)) <= CANQ_SIZE
    BY <1>5, CollectedText
  <2>3. u \in Blocks /\ u.rawq = <<>> /\ u.canq = Collected(ts[c].canq, ts[c].rawq)
    <3>1. <<>> \in Text /\ Len(<<>>) = 0
      BY JoinEmpty
    <3> QED BY <1>5, <2>2, <3>1 DEF Blocks
  <2>4. /\ Remasked(dm, d, c, d.mask[c]) /\ d \in Manager
        /\ ("W" \in d.mask[c]) <=> ("W" \in dm.mask[c])
    <3>1. /\ Remasked(dm, nd_enable(dm, c, {"R"}), c, dm.mask[c] \cup {"R"})
          /\ nd_enable(dm, c, {"R"}) \in Manager
      BY <1>1, <1>R, MaskChanged, EnableKeeps DEF SameNumbers
    <3>2. CASE "ENABR" \in ts[c].flags
      <4>1. d = nd_enable(dm, c, {"R"})
        BY <3>2
      <4>2. d.mask[c] = dm.mask[c] \cup {"R"}
        BY <3>1, <4>1 DEF Remasked
      <4> QED BY <3>1, <4>1, <4>2
    <3>3. CASE "ENABR" \notin ts[c].flags
      BY <1>1, <3>3 DEF Remasked
    <3> QED BY <3>2, <3>3
  <2> HIDE DEF u, d
  <2>5. Remasked(d, nd_disable(d, c, {"C"}), c, d.mask[c] \ {"C"})
    BY <1>1, <1>R, <2>4, MaskChanged
  <2>6. Remasked(dm, dm', c, m)
    BY <2>1, <2>4, <2>5 DEF Remasked
  <2>7. ("W" \in m => "W" \in dm.mask[c]) /\ "C" \notin m
    BY <2>4
  <2> HIDE DEF m
  <2>8. ConnOK(m, u, wire[c], log[c])
    BY <1>1, <1>3, <2>3, <2>7, ConnNoRequest
  <2>9. log' = [log EXCEPT ![c] = log[c]]
    BY <1>1, <2>1
  <2>10. Callback(c, m, u, wire[c], log[c])
    BY <1>0, <1>1, <1>2, <1>4, <2>1, <2>3, <2>6, <2>8, <2>9 DEF Callback
  <2> QED BY <2>10, OneConnection
<1> DEFINE b == RequestCallbacks(dm, c)
<1>7. /\ Remasked(dm, b, c, (dm.mask[c] \ {"C"}) \cup {"W"})
      /\ b \in Manager /\ NumbersOwned(files, b) /\ b.fd = dm.fd
  BY <1>1, MasksChanged, ChangesKeep DEF SameNumbers
<1> HIDE DEF b
<1>8. ASSUME NEW raw \in Text, Len(raw) <= RAWQ_SIZE, Refuse(c, raw, b) PROVE SvcInv'
  <2> DEFINE t == [ts[c] EXCEPT !.rawq = raw, !.canq = ERROR]
             u == DisconnectTs(t)
             k == [log[c] EXCEPT !.answers = Join(@, ERROR), !.count = @ + 1]
             m == b.mask[c] \cup {"C"}
  <2>1. /\ ts' = [ts EXCEPT ![c] = u] /\ dm' = DisconnectNd(b, c, t)
        /\ log' = [log EXCEPT ![c].answers = Join(@, ERROR), ![c].count = @ + 1]
    BY <1>8 DEF Refuse, Join
  <2>E. ERROR \in Text /\ Len(ERROR) = 1
    BY DEF ERROR, Text, Chars
  <2>2. /\ t \in [flags : SUBSET {"CLOSE", "ENABC", "ENABR"}, rawq : Text, canq : Text]
        /\ t.canq = ERROR /\ t.flags = ts[c].flags /\ t.rawq = raw
    BY <1>5, <2>E
  <2>3. u \in Blocks /\ "CLOSE" \in u.flags /\ u.canq = ERROR
    <3>1. Len(ERROR) <= CANQ_SIZE
      BY <1>5, <2>E
    <3> HIDE DEF t
    <3> QED BY <1>8, <2>2, <3>1 DEF Blocks, DisconnectTs
  <2>4. /\ k.typed = log[c].typed /\ k.asked = log[c].asked /\ k.sent = log[c].sent
        /\ k.answers = Join(log[c].answers, ERROR) /\ k \in Logs
        /\ log' = [log EXCEPT ![c] = k]
    <3>1. log[c].answers \in Text
      BY <1>1 DEF Logs
    <3>2. Join(log[c].answers, ERROR) \in Text
      BY <2>E, <3>1, JoinText
    <3> QED BY <1>1, <2>1, <3>2 DEF Logs
  <2>5. b.fd[c] # -1
    BY <1>1, <1>7
  <2>6. Remasked(b, DisconnectNd(b, c, t), c,
                 IF "CLOSE" \in t.flags THEN b.mask[c] ELSE b.mask[c] \cup {"C"})
    <3> HIDE DEF t
    <3> QED BY <1>1, <1>7, <2>5, MasksChanged
  <2>7. Remasked(dm, dm', c, m)
    <3>1. Remasked(b, dm', c, m)
      <4>1. "CLOSE" \notin t.flags
        BY <2>2
      <4> HIDE DEF t
      <4> QED BY <2>1, <2>6, <4>1
    <3> QED BY <1>7, <3>1 DEF Remasked
  <2>8. "W" \in m
    BY <1>7 DEF Remasked
  <2> HIDE DEF u, k, m, t
  <2>9. ConnOK(m, u, wire[c], k)
    BY <1>1, <1>3, <2>3, <2>4, <2>8, ConnRefused
  <2>10. Callback(c, m, u, wire[c], k)
    BY <1>0, <1>1, <1>2, <1>4, <2>1, <2>3, <2>4, <2>7, <2>9 DEF Callback
  <2> QED BY <2>10, OneConnection
<1>9. ASSUME NEW i \in 1 .. Len(ts[c].rawq), ts[c].rawq[i] = NL, NEW a \in Text,
             Len(a) <= CANQ_SIZE,
             NEW req, req = Collected(ts[c].canq, First(ts[c].rawq, i - 1)),
             ~Full(req, CANQ_SIZE), Reply(c, Rest(ts[c].rawq, i), b, req, a)
      PROVE  SvcInv'
  <2> DEFINE u == [ts[c] EXCEPT !.rawq = Rest(ts[c].rawq, i), !.canq = a]
             k == [log[c] EXCEPT !.asked = Join(@, Put(req, NL)),
                                 !.answers = Join(@, a), !.count = @ + 1]
             m == b.mask[c]
  <2>1. /\ ts' = [ts EXCEPT ![c].rawq = Rest(ts[c].rawq, i), ![c].canq = a] /\ dm' = b
        /\ log' = [log EXCEPT ![c].asked = Join(@, Put(req, NL)),
                              ![c].answers = Join(@, a), ![c].count = @ + 1]
    BY <1>9 DEF Reply, Join, Put
  <2>2. Rest(ts[c].rawq, i) \in Text /\ Len(Rest(ts[c].rawq, i)) <= RAWQ_SIZE
    <3>1. i \in 0 .. Len(ts[c].rawq)
      BY <1>5
    <3>2. /\ Rest(ts[c].rawq, i) \in Text
          /\ Len(Rest(ts[c].rawq, i)) = Len(ts[c].rawq) - i
      BY <1>5, <3>1, SplitText
    <3> QED BY <1>5, <3>1, <3>2
  <2>3. /\ u \in Blocks /\ u.flags = ts[c].flags /\ u.rawq = Rest(ts[c].rawq, i)
        /\ u.canq = a /\ ts' = [ts EXCEPT ![c] = u]
    BY <1>1, <1>5, <1>9, <2>1, <2>2 DEF Blocks
  <2>4. /\ k.typed = log[c].typed /\ k.sent = log[c].sent
        /\ k.asked = Join(log[c].asked, Put(req, NL))
        /\ k.answers = Join(log[c].answers, a) /\ (k.asked \in Text => k \in Logs)
        /\ log' = [log EXCEPT ![c] = k]
    <3>1. log[c].answers \in Text
      BY <1>1 DEF Logs
    <3>2. Join(log[c].answers, a) \in Text
      BY <1>9, <3>1, JoinText
    <3>3. log[c] \in [typed : Text, asked : Text, answers : Text, count : Nat, sent : Text]
      BY <1>1 DEF Logs
    <3>4. /\ k.typed = log[c].typed /\ k.sent = log[c].sent
          /\ k.asked = Join(log[c].asked, Put(req, NL))
          /\ k.answers = Join(log[c].answers, a)
      BY <3>3
    <3>5. k.asked \in Text => k \in Logs
      <4> DEFINE A == Join(log[c].asked, Put(req, NL))
                 B == Join(log[c].answers, a)
                 N == log[c].count + 1
      <4>1. k = [log[c] EXCEPT !.asked = A, !.answers = B, !.count = N]
        OBVIOUS
      <4>2. N \in Nat /\ B \in Text /\ k.asked = A
        BY <3>2, <3>3, <3>4
      <4> HIDE DEF k, A, B, N
      <4>3. A \in Text => [log[c] EXCEPT !.asked = A, !.answers = B, !.count = N] \in Logs
        BY <3>3, <4>2 DEF Logs
      <4> QED BY <4>1, <4>2, <4>3
    <3>6. log' = [log EXCEPT ![c] = k]
      BY <1>1, <2>1, <3>3
    <3> QED BY <3>4, <3>5, <3>6
  <2>5. Remasked(dm, dm', c, m) /\ "W" \in m /\ "C" \notin m
    BY <1>7, <2>1 DEF Remasked
  <2> HIDE DEF u, k, m
  <2>6. ConnOK(m, u, wire[c], k) /\ k.asked \in Text
    <3>1. Replies(ts[c], log[c], i, req, a, m, u, k)
      BY <1>9, <2>3, <2>4, <2>5 DEF Replies
    <3> QED BY <1>1, <1>3, <3>1, ConnReplied
  <2>7. Callback(c, m, u, wire[c], k)
    BY <1>0, <1>1, <1>2, <1>4, <2>1, <2>3, <2>4, <2>5, <2>6 DEF Callback
  <2> QED BY <2>7, OneConnection
<1>10. ASSUME NEW i \in 1 .. Len(ts[c].rawq), ts[c].rawq[i] = NL, Request(c, i)
       PROVE  SvcInv'
  <2> DEFINE req == Collected(ts[c].canq, First(ts[c].rawq, i - 1))
             raw == Rest(ts[c].rawq, i)
             n == log[c].count + 1
  <2>1. \/ Refuse(c, raw, b)
        \/ /\ ~Full(req, CANQ_SIZE)
           /\ \E len \in AnswerLens : ~(len > CANQ_SIZE) /\ Reply(c, raw, b, req, Answer(n, len))
    BY <1>10, Zenon DEF Request, First, Rest, b
  <2>2. raw \in Text /\ Len(raw) <= RAWQ_SIZE
    <3>1. i \in 0 .. Len(ts[c].rawq)
      BY <1>5
    <3>2. /\ Rest(ts[c].rawq, i) \in Text
          /\ Len(Rest(ts[c].rawq, i)) = Len(ts[c].rawq) - i
      BY <1>5, <3>1, SplitText
    <3> QED BY <1>5, <3>1, <3>2
  <2>3. ASSUME NEW len \in AnswerLens, ~(len > CANQ_SIZE)
        PROVE  Answer(n, len) \in Text /\ Len(Answer(n, len)) <= CANQ_SIZE
    <3>1. len \in Nat /\ n \in Nat
      BY <1>1, TcpSvcAssumption DEF Logs
    <3> HIDE DEF n
    <3>2. [t |-> "ans", n |-> n] \in Chars
      BY <3>1 DEF Chars
    <3>3. Answer(n, len) \in Text /\ Len(Answer(n, len)) = len
      BY <3>1, <3>2 DEF Answer, Text
    <3> QED BY <1>5, <2>3, <3>1, <3>3
  <2>4. CASE Refuse(c, raw, b)
    <3> HIDE DEF raw
    <3> QED BY <1>8, <2>2, <2>4
  <2>5. ASSUME ~Full(req, CANQ_SIZE), NEW len \in AnswerLens, ~(len > CANQ_SIZE),
               Reply(c, raw, b, req, Answer(n, len))
        PROVE  SvcInv'
    <3>1. Answer(n, len) \in Text /\ Len(Answer(n, len)) <= CANQ_SIZE
      BY <2>3, <2>5
    <3> DEFINE a == Answer(n, len)
    <3> HIDE DEF n
    <3> QED BY <1>9, <1>10, <2>5, <3>1
  <2> QED BY <2>1, <2>4, <2>5
<1>11. NoRequest(c) \/ \E i \in 1 .. Len(ts[c].rawq) : ts[c].rawq[i] = NL /\ Request(c, i)
  <2> DEFINE q == ts[c].rawq
             ends == {i \in DOMAIN q : q[i] = NL}
             i == CHOOSE i \in ends : \A j \in ends : i <= j
  <2>1. NoRequest(c) \/ (ends # {} /\ Request(c, i))
    BY Zenon DEF tcpsvc_cleanup
  <2>2. ends # {} => i \in 1 .. Len(q) /\ q[i] = NL
    BY <1>5, FirstEnd
  <2> HIDE DEF ends, i
  <2> QED BY <2>1, <2>2
<1> QED BY <1>6, <1>10, <1>11

\* A connection before it is accepted and after it is closed.
LEMMA EmptyBlocks ==
  tcpsvc_alloc \in Blocks /\ NoWire \in Wires /\ NoLog \in Logs
<1>1. <<>> \in Text /\ Len(<<>>) = 0
  BY JoinEmpty
<1>2. /\ RAWQ_SIZE \in Nat /\ CANQ_SIZE \in Nat /\ RCVBUF_SIZE \in Nat
      /\ SNDBUF_SIZE \in Nat
  BY TcpSvcAssumption
<1>3. tcpsvc_alloc \in Blocks
  BY <1>1, <1>2 DEF tcpsvc_alloc, Blocks
<1>4. NoWire \in Wires
  BY <1>1, <1>2 DEF NoWire, Wires
<1>5. NoLog \in Logs
  BY <1>1 DEF NoLog, Logs
<1> QED BY <1>3, <1>4, <1>5

\* There are no more connections than sockets.
LEMMA AcceptedFinite == IsFiniteSet(Accepted)
<1>1. IsFiniteSet(Sock) /\ Accepted \subseteq Sock
  BY TcpSvcAssumption, Constants DEF Accepted
<1> QED BY <1>1, FS_Subset

\* The list after nd_detach().
LEMMA DetachedList ==
  ASSUME NEW f \in Files, NEW d \in Manager, NumbersOwned(f, d),
         NEW s \in Sock, d.fd[s] # -1
  PROVE  \E i \in 1 .. Len(d.list) :
           /\ d.list[i] = s /\ nd_detach(d, s).fd = [d.fd EXCEPT ![s] = -1]
           /\ DOMAIN nd_detach(d, s).list = 1 .. Len(d.list) - 1
           /\ \A j \in 1 .. Len(d.list) - 1 :
                nd_detach(d, s).list[j] = IF j < i THEN d.list[j] ELSE d.list[j + 1]
<1> DEFINE e == nd_detach(d, s)
           g == [f EXCEPT ![d.fd[s]] = None]
           i == Place(d, s)
<1>1. /\ g \in Files /\ e \in Manager /\ NumbersOwned(g, e)
      /\ e.fd = [d.fd EXCEPT ![s] = -1]
      /\ i \in 1 .. Len(d.list) /\ d.list[i] = s
      /\ e.list = RemoveAt(d.list, i)
  BY DetachKeeps
<1>2. d.list \in Seq(Sock)
  BY DEF Manager
<1> HIDE DEF e, g, i
<1>3. /\ e.list \in Seq(Sock) /\ Len(e.list) = Len(d.list) - 1
      /\ \A j \in 1 .. Len(d.list) - 1 :
           e.list[j] = IF j < i THEN d.list[j] ELSE d.list[j + 1]
  <2> DEFINE l == d.list
  <2>1. l \in Seq(Sock) /\ i \in 1 .. Len(l) /\ e.list = RemoveAt(l, i)
    BY <1>1, <1>2
  <2> HIDE DEF l
  <2>2. /\ RemoveAt(l, i) \in Seq(Sock) /\ Len(RemoveAt(l, i)) = Len(l) - 1
        /\ \A j \in 1 .. Len(l) - 1 :
             RemoveAt(l, i)[j] = IF j < i THEN l[j] ELSE l[j + 1]
    BY <2>1, RemoveAtProperties
  <2> QED BY <2>1, <2>2, Zenon DEF l
<1>4. DOMAIN e.list = 1 .. Len(d.list) - 1
  BY <1>3
<1> QED BY <1>1, <1>3, <1>4 DEF e

\* tcpsvc_cleanup() of a connection that is to be closed.
LEMMA ShutdownTells ==
  ASSUME Inv, NEW c \in Conn, tcpsvc_cleanup(c), "CLOSE" \in ts[c].flags
  PROVE  SvcInv'
<1>0. /\ pass.at = "C" /\ pass.nd = c /\ CallingBack(pass)
      /\ pass' = [pass EXCEPT !.at = "next"]
      /\ backlog' = backlog /\ dm' = nd_detach(dm, c)
      /\ ts' = [ts EXCEPT ![c] = tcpsvc_alloc] /\ tcpsvc_count' = tcpsvc_count - 1
      /\ wire' = [wire EXCEPT ![c] = NoWire] /\ log' = [log EXCEPT ![c] = NoLog]
  BY DEF tcpsvc_cleanup, tcpsvc_shutdown, CallingBack
<1>1. /\ files \in Files /\ dm \in Manager /\ NumbersOwned(files, dm)
      /\ c \in Sock /\ dm.fd[c] # -1 /\ pass \in Passes /\ c \in Accepted
      /\ ts \in [Conn -> Blocks] /\ wire \in [Conn -> Wires] /\ log \in [Conn -> Logs]
  BY <1>0, AtHand
<1>2. /\ ToCome(dm, pass, wire)
      /\ \A a \in Accepted : ConnOK(dm.mask[a], ts[a], wire[a], log[a])
      /\ \A a \in backlog : log[a] = NoLog /\ wire[a].in = <<>>
      /\ backlog \subseteq Conn \ Attached /\ tcpsvc_count = Cardinality(Accepted)
  BY DEF Inv, SvcInv, OwnedInv
<1>3. /\ pass'.next = pass.next /\ pass'.ready = pass.ready /\ pass'.at = "next"
      /\ pass'.nd = c
  BY <1>0, <1>1 DEF Passes
<1>4. PICK i \in 1 .. Len(dm.list) :
        /\ dm'.fd = [dm.fd EXCEPT ![c] = -1] /\ dm.list[i] = c
        /\ DOMAIN dm'.list = 1 .. Len(dm.list) - 1
        /\ \A j \in 1 .. Len(dm.list) - 1 :
             dm'.list[j] = IF j < i THEN dm.list[j] ELSE dm.list[j + 1]
  <2>1. \E i \in 1 .. Len(dm.list) :
           /\ dm.list[i] = c /\ nd_detach(dm, c).fd = [dm.fd EXCEPT ![c] = -1]
           /\ DOMAIN nd_detach(dm, c).list = 1 .. Len(dm.list) - 1
           /\ \A j \in 1 .. Len(dm.list) - 1 :
                nd_detach(dm, c).list[j] = IF j < i THEN dm.list[j] ELSE dm.list[j + 1]
    BY <1>1, DetachedList, Zenon
  <2> QED BY <1>0, <2>1, Zenon
<1>5. dm'.mask = [dm.mask EXCEPT ![c] = {}]
  BY <1>0, <1>1, MasksOfOthers
<1>6. /\ dm.list \in Seq(Sock) /\ dm.fd \in [Sock -> Fds \cup {-1}]
      /\ dm.mask \in [Sock -> SUBSET Masks]
  BY <1>1 DEF Manager
<1>7. tcpsvc_alloc \in Blocks /\ NoWire \in Wires /\ NoLog \in Logs
  BY EmptyBlocks
<1>8. /\ \A a \in Conn : a # c => ts'[a] = ts[a] /\ wire'[a] = wire[a] /\ log'[a] = log[a]
      /\ SvcTypes'
  BY <1>0, <1>1, <1>7 DEF SvcTypes
<1>9. \A a \in Sock : a # c => dm'.fd[a] = dm.fd[a] /\ dm'.mask[a] = dm.mask[a]
  BY <1>4, <1>5, <1>6
<1>10. Accepted' = Accepted \ {c}
  <2>1. dm'.fd[c] = -1
    BY <1>1, <1>4, <1>6
  <2> QED BY <1>9, <2>1 DEF Accepted, Attached
<1>11. tcpsvc_count' = Cardinality(Accepted')
  <2>1. IsFiniteSet(Accepted)
    BY AcceptedFinite
  <2> HIDE DEF Accepted
  <2>2. Cardinality(Accepted \ {c}) = Cardinality(Accepted) - 1
    BY <1>1, <2>1, FS_RemoveElement
  <2> QED BY <1>0, <1>2, <1>10, <2>2
<1>12. ASSUME NEW a \in Accepted'
       PROVE  ConnOK(dm'.mask[a], ts'[a], wire'[a], log'[a])
  <2>1. a \in Accepted /\ a # c /\ a \in Conn /\ a \in Sock
    BY <1>10, Constants DEF Accepted
  <2>2. ConnOK(dm.mask[a], ts[a], wire[a], log[a])
    BY <1>2, <2>1
  <2>3. /\ dm'.mask[a] = dm.mask[a] /\ ts'[a] = ts[a] /\ wire'[a] = wire[a]
        /\ log'[a] = log[a]
    BY <1>8, <1>9, <2>1
  <2> QED BY <2>2, <2>3
<1>13. \A a \in backlog' : log'[a] = NoLog /\ wire'[a].in = <<>>
  <2>1. \A a \in backlog : a \in Conn /\ a # c
    BY <1>1, <1>2 DEF Accepted
  <2> QED BY <1>0, <1>2, <1>8, <2>1
<1>14. Told(dm', pass', ts', wire')
  BY <1>3 DEF Told
<1>15. ToCome(dm', pass', wire')
  <2> DEFINE l == dm.list
             n == Len(dm.list)
  <2>1. n \in Nat /\ DOMAIN l = 1 .. n /\ \A j \in 1 .. n : l[j] \in Sock
    BY <1>6
  <2>2. /\ DOMAIN dm'.list = 1 .. n - 1
        /\ \A j \in 1 .. n - 1 : dm'.list[j] = IF j < i THEN l[j] ELSE l[j + 1]
    BY <1>4, Zenon
  <2> SUFFICES ASSUME NEW a \in DOMAIN dm'.list, NEW b \in DOMAIN dm'.list,
                      dm'.list[a] = pass.next, a <= b
               PROVE  Writable(dm', pass', wire', dm'.list[b])
    BY <1>3 DEF ToCome, CallingBack
  <2>3. PICK x \in 1 .. n : l[x] = pass.next /\ x \in {a, a + 1} /\ (x = a => a < i)
    <3>1. a \in 1 .. n - 1 /\ i \in 1 .. n
      BY <1>4, <2>2
    <3>2. CASE a < i
      BY <2>1, <2>2, <3>1, <3>2
    <3>3. CASE ~(a < i)
      <4>1. a + 1 \in 1 .. n /\ a + 1 # a
        BY <2>1, <3>1
      <4>2. l[a + 1] = pass.next
        BY <2>2, <3>1, <3>3
      <4> QED BY <4>1, <4>2
    <3> QED BY <3>2, <3>3
  <2>4. PICK y \in 1 .. n : l[y] = dm'.list[b] /\ y \in {b, b + 1} /\ (y = b => b < i) /\ y # i
    <3>1. b \in 1 .. n - 1 /\ i \in 1 .. n
      BY <1>4, <2>2
    <3>2. CASE b < i
      BY <2>1, <2>2, <3>1, <3>2
    <3>3. CASE ~(b < i)
      <4>1. b + 1 \in 1 .. n /\ b + 1 # b /\ b + 1 # i
        BY <2>1, <3>1, <3>3
      <4>2. l[b + 1] = dm'.list[b]
        BY <2>2, <3>1, <3>3
      <4> QED BY <4>1, <4>2
    <3> QED BY <3>2, <3>3
  <2>5. /\ x <= y => Writable(dm, pass, wire, l[y])
        /\ i < x
    BY <1>0, <1>2, <1>4, <2>1, <2>3, <2>4 DEF ToCome
  <2>6. x <= y
    BY <1>4, <2>1, <2>2, <2>3, <2>4, <2>5
  <2>7. i < y
    BY <1>4, <2>1, <2>3, <2>4, <2>5, <2>6
  <2>8. l[y] # c /\ l[y] \in Sock
    <3>1. IsInjective(l)
      BY <1>1 DEF NumbersOwned
    <3> QED BY <1>4, <2>1, <2>4, <3>1 DEF IsInjective
  <2>9. l[y] \in Conn => /\ dm'.fd[l[y]] = dm.fd[l[y]] /\ dm'.mask[l[y]] = dm.mask[l[y]]
                         /\ wire'[l[y]] = wire[l[y]]
    BY <1>8, <1>9, <2>8
  <2>10. Writable(dm', pass', wire', l[y])
    <3>1. Writable(dm, pass, wire, l[y])
      BY <2>5, <2>6
    <3> QED BY <1>3, <2>9, <3>1 DEF Writable
  <2> QED BY <2>4, <2>10
<1> QED BY <1>8, <1>11, <1>12, <1>13, <1>14, <1>15 DEF SvcInv

\* A pass goes on with what it has to come, whatever happens to connections
\* that are not attached and however much room the others get.
LEMMA SamePass ==
  ASSUME NEW f, NEW d, NEW p, Owned(f, d, p), NEW w, ToCome(d, p, w),
         NEW x, \A a \in Conn : d.fd[a] # -1 => (Room(w[a]) => Room(x[a])),
         NEW q, q.nd = p.nd, q.next = p.next, q.ready = p.ready,
         CallingBack(q) => CallingBack(p)
  PROVE  ToCome(d, q, x)
<1> SUFFICES ASSUME NEW i \in DOMAIN d.list, NEW j \in DOMAIN d.list,
                    d.list[i] = p.next
             PROVE  /\ i <= j => Writable(d, q, x, d.list[j])
                    /\ CallingBack(q) /\ d.list[j] = p.nd => j < i
  BY DEF ToCome
<1>1. /\ i <= j => Writable(d, p, w, d.list[j])
      /\ CallingBack(p) /\ d.list[j] = p.nd => j < i
  BY DEF ToCome
<1>2. d.list[j] \in Conn => d.fd[d.list[j]] # -1
  BY Constants DEF Owned, NumbersOwned
<1>3. ASSUME i <= j PROVE Writable(d, q, x, d.list[j])
  <2>1. Writable(d, p, w, d.list[j])
    BY <1>1, <1>3
  <2> QED BY <1>2, <2>1 DEF Writable
<1> QED BY <1>1, <1>3

\* A connection that is attached while the listening socket is called back
\* comes last, and select() did not look at it.
LEMMA AttachTells ==
  ASSUME NEW f, NEW d, NEW p, Owned(f, d, p), CallingBack(p), p.nd = Listener,
         NEW c \in Conn, d.fd[c] = -1, NEW n \in Fds, f[n] = None,
         NEW w, ToCome(d, p, w), NEW e, e.list = Append(d.list, c), e.fd[c] = n,
         \A s \in Sock : s # c => e.fd[s] = d.fd[s] /\ e.mask[s] = d.mask[s],
         NEW q, q.nd = p.nd, q.next = p.next, q.ready = p.ready
  PROVE  ToCome(e, q, w)
<1> DEFINE l == d.list
           k == Len(d.list)
<1>1. /\ l \in Seq(Sock) /\ k \in Nat /\ DOMAIN l = 1 .. k
      /\ \A j \in 1 .. k : l[j] \in Sock
  <2>1. l \in Seq(Sock)
    BY DEF Owned, Manager
  <2> QED BY <2>1, LenProperties, ElementOfSeq
<1>2. /\ DOMAIN e.list = 1 .. k + 1 /\ e.list[k + 1] = c
      /\ \A j \in 1 .. k : e.list[j] = l[j]
  <2> HIDE DEF l
  <2>1. /\ Len(Append(l, c)) = Len(l) + 1 /\ Append(l, c)[Len(l) + 1] = c
        /\ DOMAIN Append(l, c) = 1 .. Len(l) + 1
        /\ \A j \in 1 .. Len(l) : Append(l, c)[j] = l[j]
    BY <1>1, Constants
  <2> QED BY <2>1 DEF l
<1>3. \A j \in 1 .. k : l[j] # c
  BY <1>1 DEF Owned, NumbersOwned
<1>4. p.next # c
  BY Constants DEF Owned, PassOwned
<1>5. n \notin p.ready["W"]
  <2>1. "W" \in Kinds
    BY DEF Kinds
  <2> QED BY <2>1 DEF Owned, PassOrder
<1>6. c \in Sock /\ c # Listener
  BY Constants
<1> SUFFICES ASSUME NEW i \in DOMAIN e.list, NEW j \in DOMAIN e.list,
                    e.list[i] = p.next
             PROVE  /\ i <= j => Writable(e, q, w, e.list[j])
                    /\ e.list[j] = p.nd => j < i
  BY DEF ToCome
<1> HIDE DEF l, k
<1>7. i \in 1 .. k
  BY <1>1, <1>2, <1>4
<1>8. CASE j \in 1 .. k
  <2>1. /\ i <= j => Writable(d, p, w, l[j])
        /\ l[j] = p.nd => j < i
    BY <1>1, <1>2, <1>7, <1>8 DEF ToCome, l
  <2>2. l[j] \in Sock /\ e.fd[l[j]] = d.fd[l[j]] /\ e.mask[l[j]] = d.mask[l[j]]
    BY <1>1, <1>3, <1>8
  <2>3. ASSUME i <= j PROVE Writable(e, q, w, l[j])
    <3>1. Writable(d, p, w, l[j])
      BY <2>1, <2>3
    <3> QED BY <2>2, <3>1 DEF Writable
  <2> QED BY <1>2, <1>8, <2>1, <2>3
<1>9. CASE j = k + 1
  <2>1. e.list[j] = c
    BY <1>2, <1>9
  <2>2. Writable(e, q, w, c)
    BY <1>5 DEF Writable
  <2> QED BY <1>6, <2>1, <2>2
<1>10. j \in 1 .. k \/ j = k + 1
  BY <1>1, <1>2
<1> QED BY <1>8, <1>9, <1>10

\* A connection that tcpsvc_accept() takes from the backlog: m are its
\* callbacks, u its control block and k its history.
Accepts(c, n, m, u, k) ==
  /\ c \in backlog /\ backlog' = backlog \ {c} /\ n \in Fds /\ files[n] = None
  /\ dm'.fd = [dm.fd EXCEPT ![c] = n] /\ dm'.list = Append(dm.list, c)
  /\ dm'.mask = [dm.mask EXCEPT ![c] = m]
  /\ u \in Blocks /\ ts' = [ts EXCEPT ![c] = u]
  /\ k \in Logs /\ log' = [log EXCEPT ![c] = k]
  /\ ConnOK(m, u, wire[c], k) /\ wire' = wire
  /\ tcpsvc_count' = tcpsvc_count + 1

\* An accepted connection keeps the invariant if it begins in order.
LEMMA OneAccepted ==
  ASSUME Inv, CallingBack(pass), pass.nd = Listener, pass' = Due(pass, dm', "C"),
         NEW c, NEW n, NEW m, NEW u, NEW k, Accepts(c, n, m, u, k)
  PROVE  SvcInv'
<1>0. /\ c \in backlog /\ backlog' = backlog \ {c} /\ n \in Fds /\ files[n] = None
      /\ dm'.fd = [dm.fd EXCEPT ![c] = n] /\ dm'.list = Append(dm.list, c)
      /\ dm'.mask = [dm.mask EXCEPT ![c] = m]
      /\ u \in Blocks /\ ts' = [ts EXCEPT ![c] = u]
      /\ k \in Logs /\ log' = [log EXCEPT ![c] = k]
      /\ ConnOK(m, u, wire[c], k) /\ wire' = wire
      /\ tcpsvc_count' = tcpsvc_count + 1
  BY DEF Accepts
<1>1. /\ SvcTypes /\ ToCome(dm, pass, wire) /\ Owned(files, dm, pass)
      /\ \A a \in Accepted : ConnOK(dm.mask[a], ts[a], wire[a], log[a])
      /\ \A a \in backlog : log[a] = NoLog /\ wire[a].in = <<>>
      /\ backlog \subseteq Conn \ Attached /\ tcpsvc_count = Cardinality(Accepted)
  BY DEF Inv, SvcInv, OwnedInv
<1>2. c \in Conn /\ c \in Sock /\ dm.fd[c] = -1 /\ c \notin Accepted /\ pass \in Passes
  BY <1>0, <1>1, Constants DEF Attached, Accepted, Owned
<1>3. /\ dm.fd \in [Sock -> Fds \cup {-1}] /\ dm.mask \in [Sock -> SUBSET Masks]
  BY <1>1 DEF Owned, Manager
<1>4. /\ dm'.fd[c] = n /\ dm'.mask[c] = m
      /\ \A a \in Sock : a # c => dm'.fd[a] = dm.fd[a] /\ dm'.mask[a] = dm.mask[a]
  BY <1>0, <1>2, <1>3
<1>5. /\ ts'[c] = u /\ log'[c] = k
      /\ \A a \in Conn : a # c => ts'[a] = ts[a] /\ log'[a] = log[a]
      /\ SvcTypes'
  BY <1>0, <1>1, <1>2 DEF SvcTypes
<1>6. Accepted' = Accepted \cup {c}
  <2>1. n # -1
    BY <1>0, Constants
  <2> QED BY <1>2, <1>4, <2>1 DEF Accepted, Attached
<1>7. tcpsvc_count' = Cardinality(Accepted')
  <2>1. IsFiniteSet(Accepted)
    BY AcceptedFinite
  <2> HIDE DEF Accepted
  <2>2. Cardinality(Accepted \cup {c}) = Cardinality(Accepted) + 1
    BY <1>2, <2>1, FS_AddElement
  <2> QED BY <1>0, <1>1, <1>6, <2>2
<1>8. ASSUME NEW a \in Accepted'
      PROVE  ConnOK(dm'.mask[a], ts'[a], wire'[a], log'[a])
  <2>1. CASE a = c
    BY <1>0, <1>4, <1>5, <2>1
  <2>2. CASE a # c
    <3>1. a \in Accepted /\ a \in Conn /\ a \in Sock
      BY <1>6, <2>2, Constants DEF Accepted
    <3>2. ConnOK(dm.mask[a], ts[a], wire[a], log[a])
      BY <1>1, <3>1
    <3>3. /\ dm'.mask[a] = dm.mask[a] /\ ts'[a] = ts[a] /\ wire'[a] = wire[a]
          /\ log'[a] = log[a]
      BY <1>0, <1>4, <1>5, <2>2, <3>1
    <3> QED BY <3>2, <3>3
  <2> QED BY <2>1, <2>2
<1>9. \A a \in backlog' : log'[a] = NoLog /\ wire'[a].in = <<>>
  <2>1. \A a \in backlog' : a \in Conn /\ a # c /\ a \in backlog
    BY <1>0, <1>1
  <2> QED BY <1>0, <1>1, <1>5, <2>1
<1>10. /\ pass'.nd = pass.nd /\ pass'.next = pass.next /\ pass'.ready = pass.ready
       /\ pass'.at = "C" => "C" \in dm'.mask[pass.nd]
  BY <1>2, DueAt
<1>11. Told(dm', pass', ts', wire')
  BY <1>10, Constants DEF Told
<1>12. ToCome(dm', pass', wire')
  <2> DEFINE f == files
             d == dm
             e == dm'
             p == pass
             q == pass'
             w == wire
  <2>1. /\ Owned(f, d, p) /\ CallingBack(p) /\ p.nd = Listener /\ d.fd[c] = -1
        /\ f[n] = None /\ n \in Fds /\ ToCome(d, p, w) /\ e.list = Append(d.list, c)
        /\ e.fd[c] = n /\ c \in Conn
        /\ \A s \in Sock : s # c => e.fd[s] = d.fd[s] /\ e.mask[s] = d.mask[s]
        /\ q.nd = p.nd /\ q.next = p.next /\ q.ready = p.ready
    BY <1>0, <1>1, <1>2, <1>4, <1>10
  <2> HIDE DEF f, d, e, p, q, w
  <2>2. ToCome(e, q, w)
    BY <2>1, AttachTells
  <2> QED BY <1>0, <2>2 DEF e, q, w
<1> QED BY <1>5, <1>7, <1>8, <1>9, <1>11, <1>12 DEF SvcInv

\* nd_enable() for one socket, in full.
LEMMA Enabled ==
  ASSUME NEW d \in Manager, NEW s \in Sock, NEW m \in SUBSET Masks
  PROVE  /\ nd_enable(d, s, m).fd = d.fd /\ nd_enable(d, s, m).list = d.list
         /\ nd_enable(d, s, m).mask = [d.mask EXCEPT ![s] = d.mask[s] \cup m]
BY DEF Manager, nd_enable

\* r and x are managers with connection c, which the kernel gave number n:
\* one that will be read, and one that is told there are too many.
Attaches(f, d, c, n, r, x) ==
  /\ f \in Files /\ d \in Manager /\ NumbersOwned(f, d)
  /\ c \in Sock /\ d.fd[c] = -1 /\ n \in Fds /\ f[n] = None
  /\ r = nd_enable(nd_attach(d, c, n), c, {"R"})
  /\ \E t : x = DisconnectNd(nd_enable(nd_attach(d, c, n), c, {"W"}), c, t)

AttachedMasks(d, c, n, r, x) ==
  /\ r.fd = [d.fd EXCEPT ![c] = n] /\ r.list = Append(d.list, c)
  /\ r.mask = [d.mask EXCEPT ![c] = {"R"}]
  /\ x.fd = [d.fd EXCEPT ![c] = n] /\ x.list = Append(d.list, c)
  /\ \E m \in SUBSET Masks : "W" \in m /\ x.mask = [d.mask EXCEPT ![c] = m]

\* The callbacks of a connection that tcpsvc_accept() has attached.
LEMMA AcceptedMasks ==
  ASSUME NEW f, NEW d, NEW c, NEW n, NEW r, NEW x, Attaches(f, d, c, n, r, x)
  PROVE  AttachedMasks(d, c, n, r, x)
<1> DEFINE a == nd_attach(d, c, n)
           w == nd_enable(a, c, {"W"})
           g == [f EXCEPT ![n] = c]
<1>a. /\ f \in Files /\ d \in Manager /\ NumbersOwned(f, d)
      /\ c \in Sock /\ d.fd[c] = -1 /\ n \in Fds /\ f[n] = None
      /\ r = nd_enable(a, c, {"R"}) /\ \E t : x = DisconnectNd(w, c, t)
  BY DEF Attaches
<1>0. /\ {"R"} \in SUBSET Masks /\ {"W"} \in SUBSET Masks /\ {"C"} \in SUBSET Masks
      /\ {"W", "C"} \in SUBSET Masks
  BY DEF Masks, Kinds
<1>1. /\ g \in Files /\ a \in Manager /\ NumbersOwned(g, a)
      /\ a.fd = [d.fd EXCEPT ![c] = n] /\ a.list = Append(d.list, c)
  <2>1. LET e == nd_attach(d, c, n)
            h == [f EXCEPT ![n] = c]
        IN  /\ h \in Files /\ e \in Manager /\ NumbersOwned(h, e)
            /\ e.fd = [d.fd EXCEPT ![c] = n]
            /\ e.list = Append(d.list, c)
    BY <1>a, AttachKeeps
  <2> QED BY <2>1
<1>2. a.mask = [d.mask EXCEPT ![c] = {}]
  <2>1. nd_attach(d, c, n).mask = [d.mask EXCEPT ![c] = {}]
    BY <1>a, MasksOfOthers
  <2> QED BY <2>1
<1>3. /\ d.fd \in [Sock -> Fds \cup {-1}] /\ d.mask \in [Sock -> SUBSET Masks]
  BY <1>a DEF Manager
<1>4. a.fd[c] # -1
  BY <1>a, <1>1, <1>3, Constants
<1> HIDE DEF g, a
<1>5. r.fd = a.fd /\ r.list = a.list /\ r.mask = [a.mask EXCEPT ![c] = a.mask[c] \cup {"R"}]
  BY <1>a, <1>0, <1>1, Enabled
<1>6. w.fd = a.fd /\ w.list = a.list /\ w.mask = [a.mask EXCEPT ![c] = a.mask[c] \cup {"W"}]
  BY <1>a, <1>0, <1>1, Enabled
<1>7. w \in Manager
  <2>1. SameNumbers(g, a, w)
    BY <1>a, <1>0, <1>1, <1>4, EnableKeeps
  <2> QED BY <2>1 DEF SameNumbers
<1>8. x = w \/ x = nd_enable(w, c, {"C"})
  BY <1>a DEF DisconnectNd
<1> HIDE DEF w
<1>9. r.mask = [d.mask EXCEPT ![c] = {"R"}] /\ w.mask = [d.mask EXCEPT ![c] = {"W"}]
  BY <1>a, <1>2, <1>3, <1>5, <1>6
<1>10. CASE x = w
  BY <1>0, <1>1, <1>5, <1>6, <1>9, <1>10 DEF AttachedMasks
<1>11. CASE x = nd_enable(w, c, {"C"})
  <2>1. x.fd = w.fd /\ x.list = w.list /\ x.mask = [w.mask EXCEPT ![c] = w.mask[c] \cup {"C"}]
    BY <1>a, <1>0, <1>7, <1>11, Enabled
  <2>2. x.mask = [d.mask EXCEPT ![c] = {"W", "C"}]
    BY <1>a, <1>3, <1>9, <2>1
  <2>3. \E m \in SUBSET Masks : "W" \in m /\ x.mask = [d.mask EXCEPT ![c] = m]
    BY <1>0, <2>2
  <2> QED BY <1>1, <1>5, <1>6, <1>9, <2>1, <2>3 DEF AttachedMasks
<1> QED BY <1>8, <1>10, <1>11

\* tcpsvc_accept()
LEMMA AcceptTells ==
  ASSUME Inv, tcpsvc_accept
  PROVE  SvcInv'
<1>0. CallingBack(pass) /\ pass.nd = Listener /\ pass' = Due(pass, dm', "C")
  BY DEF tcpsvc_accept, CallingBack
<1>1. /\ SvcTypes /\ ToCome(dm, pass, wire) /\ Owned(files, dm, pass)
      /\ \A a \in Accepted : ConnOK(dm.mask[a], ts[a], wire[a], log[a])
      /\ \A a \in backlog : log[a] = NoLog /\ wire[a].in = <<>>
      /\ backlog \subseteq Conn \ Attached /\ tcpsvc_count = Cardinality(Accepted)
      /\ pass \in Passes /\ files \in Files /\ dm \in Manager /\ NumbersOwned(files, dm)
  BY DEF Inv, SvcInv, OwnedInv, Owned
<1>2. ASSUME UNCHANGED <<files, dm, ts, tcpsvc_count>>,
             backlog' \subseteq backlog,
             SvcTypes',
             \A a \in Conn : a \notin backlog => wire'[a] = wire[a] /\ log'[a] = log[a],
             \A a \in backlog' : log'[a] = NoLog /\ wire'[a].in = <<>>
      PROVE  SvcInv'
  <2>1. /\ pass'.nd = pass.nd /\ pass'.next = pass.next /\ pass'.ready = pass.ready
        /\ pass'.at = "C" => "C" \in dm'.mask[pass.nd]
    BY <1>0, <1>1, DueAt
  <2>2. Told(dm', pass', ts', wire')
    BY <1>0, <2>1, Constants DEF Told
  <2>3. Accepted' = Accepted
    BY <1>2 DEF Accepted, Attached
  <2>4. ASSUME NEW a \in Accepted
        PROVE  ConnOK(dm'.mask[a], ts'[a], wire'[a], log'[a])
    <3>1. a \in Conn /\ a \notin backlog
      BY <1>1 DEF Accepted
    <3>2. /\ dm'.mask[a] = dm.mask[a] /\ ts'[a] = ts[a] /\ wire'[a] = wire[a]
          /\ log'[a] = log[a]
      BY <1>2, <3>1
    <3> QED BY <1>1, <3>2
  <2>5. ToCome(dm', pass', wire')
    <3>1. \A a \in Conn : dm.fd[a] # -1 => (Room(wire[a]) => Room(wire'[a]))
      BY <1>1, <1>2, Constants DEF Attached
    <3> DEFINE f == files
               d == dm
               p == pass
               q == pass'
               w == wire
               x == wire'
    <3>2. /\ Owned(f, d, p) /\ ToCome(d, p, w)
          /\ \A a \in Conn : d.fd[a] # -1 => (Room(w[a]) => Room(x[a]))
          /\ q.nd = p.nd /\ q.next = p.next /\ q.ready = p.ready
          /\ CallingBack(q) => CallingBack(p)
      BY <1>0, <1>1, <2>1, <3>1
    <3> HIDE DEF f, d, p, q, w, x
    <3>3. ToCome(d, q, x)
      BY <3>2, SamePass
    <3> QED BY <1>2, <3>3 DEF d, q, x
  <2> QED BY <1>1, <1>2, <2>2, <2>3, <2>4, <2>5 DEF SvcInv
<1>3. CASE UNCHANGED <<files, dm, ts, tcpsvc_count, backlog, wire, log>>
  BY <1>1, <1>2, <1>3 DEF SvcTypes
<1>4. ASSUME NEW c \in backlog, backlog' = backlog \ {c},
             wire' = [wire EXCEPT ![c] = NoWire], log' = [log EXCEPT ![c] = NoLog],
             UNCHANGED <<files, dm, ts, tcpsvc_count>>
      PROVE  SvcInv'
  <2>1. c \in Conn /\ NoWire \in Wires /\ NoLog \in Logs
    BY <1>1, EmptyBlocks
  <2>2. /\ SvcTypes'
        /\ \A a \in Conn : a # c => wire'[a] = wire[a] /\ log'[a] = log[a]
    BY <1>1, <1>4, <2>1 DEF SvcTypes
  <2>3. \A a \in backlog' : log'[a] = NoLog /\ wire'[a].in = <<>>
    BY <1>1, <1>4, <2>2
  <2> QED BY <1>2, <1>4, <2>2, <2>3
<1>5. ASSUME NEW c \in backlog, backlog' = backlog \ {c},
             NEW n, n = LowestFree(files), NEW d, d = nd_attach(dm, c, n),
             tcpsvc_count' = tcpsvc_count + 1, wire' = wire,
             \/ /\ ts' = [ts EXCEPT ![c] = DisconnectTs([tcpsvc_alloc EXCEPT !.canq = ERROR])]
                /\ dm' = DisconnectNd(nd_enable(d, c, {"W"}), c, tcpsvc_alloc)
                /\ log' = [log EXCEPT ![c].answers = ERROR, ![c].count = 1]
             \/ /\ ts' = [ts EXCEPT ![c] = tcpsvc_alloc]
                /\ dm' = nd_enable(d, c, {"R"})
                /\ log' = log
      PROVE  SvcInv'
  <2>1. c \in Sock /\ dm.fd[c] = -1 /\ c \in Conn
    BY <1>1, Constants DEF Attached
  <2>2. n \in Fds /\ files[n] = None
    <3>1. \E k \in Fds : files[k] = None
      BY <1>1, <2>1, NumberLeft
    <3> QED BY <1>1, <1>5, <3>1, LowestIsFree
  <2> DEFINE r == nd_enable(d, c, {"R"})
             x == DisconnectNd(nd_enable(d, c, {"W"}), c, tcpsvc_alloc)
  <2>3. /\ r.fd = [dm.fd EXCEPT ![c] = n] /\ r.list = Append(dm.list, c)
        /\ r.mask = [dm.mask EXCEPT ![c] = {"R"}]
        /\ x.fd = [dm.fd EXCEPT ![c] = n] /\ x.list = Append(dm.list, c)
        /\ \E m \in SUBSET Masks : "W" \in m /\ x.mask = [dm.mask EXCEPT ![c] = m]
    <3> DEFINE e == dm
               f == files
    <3>1. /\ f \in Files /\ e \in Manager /\ NumbersOwned(f, e) /\ c \in Sock
          /\ e.fd[c] = -1 /\ n \in Fds /\ f[n] = None /\ d = nd_attach(e, c, n)
      BY <1>1, <1>5, <2>1, <2>2
    <3> HIDE DEF e, f
    <3>4. /\ r = nd_enable(nd_attach(e, c, n), c, {"R"})
          /\ x = DisconnectNd(nd_enable(nd_attach(e, c, n), c, {"W"}), c, tcpsvc_alloc)
      BY <3>1, Zenon
    <3> HIDE DEF r, x
    <3>2. Attaches(f, e, c, n, r, x)
      BY <3>1, <3>4 DEF Attaches
    <3> HIDE DEF r, x
    <3>3. AttachedMasks(e, c, n, r, x)
      BY <3>2, AcceptedMasks
    <3> QED BY <3>3, Zenon DEF e, AttachedMasks
  <2>4. log[c] = NoLog /\ wire[c].in = <<>>
    BY <1>1
  <2>5. tcpsvc_alloc \in Blocks /\ NoLog \in Logs /\ ERROR \in Text /\ Len(ERROR) = 1
    <3>1. ERROR \in Text /\ Len(ERROR) = 1
      BY DEF ERROR, Text, Chars
    <3> QED BY <3>1, EmptyBlocks
  <2> HIDE DEF r, x
  <2>6. CASE /\ ts' = [ts EXCEPT ![c] = tcpsvc_alloc] /\ dm' = r /\ log' = log
    <3>1. log' = [log EXCEPT ![c] = NoLog]
      BY <1>1, <2>1, <2>4, <2>6 DEF SvcTypes
    <3> DEFINE m == {"R"}
    <3>2. ConnOK({"R"}, tcpsvc_alloc, wire[c], NoLog)
      BY <2>4, ConnAccepted
    <3>3. Accepts(c, n, {"R"}, tcpsvc_alloc, NoLog)
      BY <1>5, <2>2, <2>3, <2>5, <2>6, <3>1, <3>2 DEF Accepts
    <3> QED BY <1>0, <3>3, OneAccepted
  <2>7. CASE /\ ts' = [ts EXCEPT ![c] = DisconnectTs([tcpsvc_alloc EXCEPT !.canq = ERROR])]
             /\ dm' = x
             /\ log' = [log EXCEPT ![c].answers = ERROR, ![c].count = 1]
    <3> DEFINE u == DisconnectTs([tcpsvc_alloc EXCEPT !.canq = ERROR])
               k == [NoLog EXCEPT !.answers = ERROR, !.count = 1]
    <3>1. PICK m \in SUBSET Masks : "W" \in m /\ x.mask = [dm.mask EXCEPT ![c] = m]
      BY <2>3
    <3>2. log' = [log EXCEPT ![c] = k]
      BY <1>1, <2>1, <2>4, <2>7 DEF SvcTypes
    <3>3. /\ k.typed = <<>> /\ k.asked = <<>> /\ k.sent = <<>> /\ k.answers = ERROR
          /\ k \in Logs
      BY <2>5 DEF NoLog, Logs
    <3>4. u.canq = ERROR /\ "CLOSE" \in u.flags /\ u \in Blocks
      <4>1. CANQ_SIZE \in Nat \ {0} /\ RAWQ_SIZE \in Nat
        BY TcpSvcAssumption
      <4> DEFINE t == [tcpsvc_alloc EXCEPT !.canq = ERROR]
      <4>4. t \in [flags : SUBSET {"CLOSE", "ENABC", "ENABR"}, rawq : Text, canq : Text]
        BY <2>5 DEF Blocks
      <4>5. t.canq = ERROR /\ t.rawq = <<>>
        BY DEF tcpsvc_alloc
      <4> HIDE DEF t
      <4>2. /\ u \in [flags : SUBSET {"CLOSE", "ENABC", "ENABR"}, rawq : Text, canq : Text]
            /\ u.canq = ERROR /\ u.rawq = <<>> /\ "CLOSE" \in u.flags
        <5>1. u = DisconnectTs(t)
          BY DEF t
        <5> HIDE DEF u
        <5> QED BY <4>4, <4>5, <5>1 DEF DisconnectTs
      <4>3. Len(ERROR) <= CANQ_SIZE /\ <<>> \in Text /\ Len(<<>>) <= RAWQ_SIZE
        BY <2>5, <4>1 DEF Text
      <4> HIDE DEF u
      <4> QED BY <2>5, <4>2, <4>3 DEF Blocks
    <3> HIDE DEF u, k
    <3>5. ConnOK(m, u, wire[c], k)
      BY <2>4, <3>1, <3>3, <3>4, ConnAccepted
    <3>6. ts' = [ts EXCEPT ![c] = u]
      BY <2>7 DEF u
    <3>7. Accepts(c, n, m, u, k)
      BY <1>5, <2>2, <2>3, <2>7, <3>1, <3>2, <3>3, <3>4, <3>5, <3>6 DEF Accepts
    <3> QED BY <1>0, <3>7, OneAccepted
  <2> QED BY <1>5, <2>6, <2>7 DEF r, x
<1>6. \/ UNCHANGED <<files, dm, ts, tcpsvc_count, backlog, wire, log>>
      \/ \E c \in backlog :
           /\ backlog' = backlog \ {c}
           /\ \/ /\ wire' = [wire EXCEPT ![c] = NoWire]
                 /\ log' = [log EXCEPT ![c] = NoLog]
                 /\ UNCHANGED <<files, dm, ts, tcpsvc_count>>
              \/ \E n, d :
                   /\ n = LowestFree(files) /\ d = nd_attach(dm, c, n)
                   /\ tcpsvc_count' = tcpsvc_count + 1 /\ wire' = wire
                   /\ \/ /\ ts' = [ts EXCEPT ![c] = DisconnectTs([tcpsvc_alloc EXCEPT !.canq = ERROR])]
                         /\ dm' = DisconnectNd(nd_enable(d, c, {"W"}), c, tcpsvc_alloc)
                         /\ log' = [log EXCEPT ![c].answers = ERROR, ![c].count = 1]
                      \/ /\ ts' = [ts EXCEPT ![c] = tcpsvc_alloc]
                         /\ dm' = nd_enable(d, c, {"R"})
                         /\ log' = log
  BY DEF tcpsvc_accept
<1> QED BY <1>3, <1>4, <1>5, <1>6

\* A step of the pass that calls no connection back.
LEMMA PassTells ==
  ASSUME Inv, UNCHANGED tcpsvars, dm'.mask = dm.mask, Attached' = Attached,
         Told(dm', pass', ts, wire), ToCome(dm', pass', wire)
  PROVE  SvcInv'
<1>1. /\ SvcTypes /\ tcpsvc_count = Cardinality(Accepted)
      /\ \A a \in Accepted : ConnOK(dm.mask[a], ts[a], wire[a], log[a])
      /\ \A a \in backlog : log[a] = NoLog /\ wire[a].in = <<>>
  BY DEF Inv, SvcInv
<1>2. /\ ts' = ts /\ wire' = wire /\ log' = log /\ backlog' = backlog
      /\ tcpsvc_count' = tcpsvc_count
  BY DEF tcpsvars
<1>3. Accepted' = Accepted /\ SvcTypes'
  BY <1>1, <1>2 DEF Accepted, SvcTypes
<1>4. \A a \in Accepted' : ConnOK(dm'.mask[a], ts'[a], wire'[a], log'[a])
  BY <1>1, <1>2, <1>3
<1>5. Told(dm', pass', ts', wire') /\ ToCome(dm', pass', wire')
  BY <1>2
<1>6. /\ \A a \in backlog' : log'[a] = NoLog /\ wire'[a].in = <<>>
      /\ tcpsvc_count' = Cardinality(Accepted')
  BY <1>1, <1>2, <1>3
<1> QED BY <1>3, <1>4, <1>5, <1>6 DEF SvcInv

\* When no pass is under way nobody is called back.
LEMMA NothingToCome ==
  ASSUME NEW d \in Manager, NEW q, q.at \in {"idle", "gc"}, q.next = None, NEW t, NEW w
  PROVE  Told(d, q, t, w) /\ ToCome(d, q, w)
<1>1. Told(d, q, t, w)
  BY DEF Told
<1>2. \A i \in DOMAIN d.list : d.list[i] # None
  <2>1. d.list \in Seq(Sock)
    BY DEF Manager
  <2> QED BY <2>1, Constants
<1>3. ToCome(d, q, w)
  BY <1>2 DEF ToCome
<1> QED BY <1>1, <1>3

\* The head of the loop of nd_select(): what comes after the next descriptor
\* is behind it in the list.
LEMMA AdvanceTells ==
  ASSUME NEW f, NEW d, NEW p, Owned(f, d, p), p.at = "next", p.next # None,
         NEW w, ToCome(d, p, w),
         NEW q, q.nd = p.next, q.next = nd_next(d, p.next), q.ready = p.ready
  PROVE  ToCome(d, q, w) /\ Writable(d, p, w, p.next)
<1> DEFINE s == p.next
           i == Place(d, s)
           l == d.list
           k == Len(d.list)
<1>1. /\ s \in Sock /\ d.fd[s] # -1 /\ l \in Seq(Sock)
      /\ k \in Nat /\ DOMAIN l = 1 .. k /\ IsInjective(l)
      /\ \A j \in 1 .. k : l[j] \in Sock
  <2>1. s \in Sock /\ d.fd[s] # -1 /\ l \in Seq(Sock) /\ IsInjective(l)
    BY DEF Owned, Passes, PassOwned, Manager, NumbersOwned
  <2> QED BY <2>1, LenProperties, ElementOfSeq
<1>2. i \in 1 .. k /\ l[i] = s
  <2>1. \E j \in DOMAIN l : l[j] = s
    BY <1>1 DEF Owned, NumbersOwned
  <2> QED BY <1>1, <2>1 DEF Place
<1>3. q.next = IF i = k THEN None ELSE l[i + 1]
  BY DEF nd_next
<1> HIDE DEF i, k
<1>4. \A a, b \in 1 .. k : l[a] = l[b] => a = b
  BY <1>1 DEF IsInjective
<1>5. \A j \in 1 .. k : i <= j => Writable(d, p, w, l[j])
  BY <1>1, <1>2 DEF ToCome
<1>6. Writable(d, p, w, s)
  BY <1>1, <1>2, <1>5
<1>7. ASSUME NEW a \in 1 .. k, NEW b \in 1 .. k, l[a] = q.next
      PROVE  /\ a <= b => Writable(d, q, w, l[b])
             /\ l[b] = s => b < a
  <2>1. i # k /\ i + 1 \in 1 .. k /\ l[a] = l[i + 1]
    <3>1. i # k
      BY <1>1, <1>3, <1>7, Constants
    <3> QED BY <1>1, <1>2, <1>3, <1>7, <3>1
  <2>2. a = i + 1
    BY <1>4, <2>1
  <2>3. l[b] = s => b = i
    BY <1>2, <1>4
  <2>4. a <= b => Writable(d, p, w, l[b])
    BY <1>2, <1>5, <2>2
  <2>5. a <= b => Writable(d, q, w, l[b])
    BY <2>4 DEF Writable
  <2> QED BY <1>2, <2>2, <2>3, <2>5
<1>8. ToCome(d, q, w)
  BY <1>1, <1>7 DEF ToCome
<1> QED BY <1>6, <1>8

\* select() finds the connections that have something to write, and room.
LEMMA SelectTells ==
  ASSUME Inv, Select
  PROVE  SvcInv'
<1> DEFINE is == [k \in Kinds |-> {s \in Sock : Condition(k, s)}]
           q == StartedPass(files, dm, is)
<1>0. Owned(files, dm, pass) /\ dm \in Manager /\ NumbersOwned(files, dm)
  BY DEF Inv, OwnedInv, Owned
<1>1. pass' \in {PassOver, q} /\ UNCHANGED <<files, dm>> /\ UNCHANGED tcpsvars
  <2>1. nd_select(is) /\ UNCHANGED tcpsvars
    BY DEF Select
  <2> HIDE DEF is
  <2> QED BY <2>1, Zenon DEF nd_select, StartedPass
<1>2. Told(dm, PassOver, ts, wire) /\ ToCome(dm, PassOver, wire)
  <2>1. PassOver.at \in {"idle", "gc"} /\ PassOver.next = None
    BY DEF PassOver, Idle
  <2> QED BY <1>0, <2>1, NothingToCome
<1>3. ASSUME NEW s \in Conn, dm.fd[s] # -1, dm.fd[s] \in q.ready["W"]
      PROVE  "W" \in dm.mask[s] /\ Room(wire[s])
  <2>1. dm.fd[s] \in dm.fds["W"] /\ files[dm.fd[s]] \in is["W"] /\ s \in Sock
    <3>1. q.ready = [k \in Kinds |-> {n \in dm.fds[k] : files[n] \in is[k]}]
      BY DEF StartedPass, Idle
    <3>2. "W" \in Kinds
      BY DEF Kinds
    <3> HIDE DEF is, q
    <3> QED BY <1>3, <3>1, <3>2, Constants
  <2>2. files[dm.fd[s]] = s /\ "W" \in dm.mask[s]
    BY <1>0, <1>3, <2>1 DEF NumbersOwned, Kinds
  <2>3. Condition("W", s)
    BY <2>1, <2>2 DEF Kinds
  <2>4. Room(wire[s])
    BY <2>3, Constants DEF Condition, TcpCondition, Room
  <2> QED BY <2>2, <2>4
<1>4. q.at = "next"
  BY DEF StartedPass, Idle
<1> HIDE DEF q, is
<1>5. Told(dm, q, ts, wire)
  BY <1>4 DEF Told
<1>6. ToCome(dm, q, wire)
  <2>1. \A j \in DOMAIN dm.list : dm.list[j] \in Conn => dm.fd[dm.list[j]] # -1
    BY <1>0, Constants DEF NumbersOwned
  <2>2. \A j \in DOMAIN dm.list : Writable(dm, q, wire, dm.list[j])
    BY <1>3, <2>1 DEF Writable
  <2> QED BY <1>4, <2>2 DEF ToCome, CallingBack
<1>7. Told(dm, pass', ts, wire) /\ ToCome(dm, pass', wire)
  BY <1>1, <1>2, <1>5, <1>6
<1>8. dm' = dm /\ Attached' = Attached
  BY <1>1 DEF Attached
<1> QED BY <1>1, <1>7, <1>8, PassTells

\* nd_gc() moves descriptors and detaches none.
LEMMA GcAttached ==
  ASSUME OwnedInv, nd_gc
  PROVE  Attached' = Attached
<1>1. Owned(files, dm, pass) /\ files \in Files /\ dm \in Manager /\ NumbersOwned(files, dm)
  BY DEF OwnedInv, Owned
<1>2. CASE /\ Used(dm) # {} /\ (\E n \in Fds : files[n] = None)
           /\ LowestFree(files) < HighestUsed(dm)
           /\ dm' = Moved(dm, HighestUsed(dm), LowestFree(files))
  <2>1. /\ HighestUsed(dm) \in Fds /\ dm.ndesc[HighestUsed(dm)] # None
        /\ \A n \in Used(dm) : n <= HighestUsed(dm)
    BY <1>1, <1>2, UsedNumbers DEF Used
  <2>2. LowestFree(files) \in Fds /\ files[LowestFree(files)] = None
    BY <1>1, <1>2, LowestIsFree
  <2>3. \A t \in Sock : (dm'.fd[t] = -1) <=> (dm.fd[t] = -1)
    <3> DEFINE top == HighestUsed(dm)
               new == LowestFree(files)
    <3>1. /\ top \in Fds /\ dm.ndesc[top] # None /\ (\A n \in Used(dm) : n <= top)
          /\ new \in Fds /\ files[new] = None /\ new < top /\ dm' = Moved(dm, top, new)
      BY <1>2, <2>1, <2>2
    <3> HIDE DEF top, new
    <3>2. LET e == Moved(dm, top, new)
              g == [files EXCEPT ![new] = dm.ndesc[top], ![top] = None]
          IN  /\ g \in Files /\ e \in Manager /\ NumbersOwned(g, e)
              /\ e.list = dm.list
              /\ \A t \in Sock : (e.fd[t] = -1) <=> (dm.fd[t] = -1)
      BY <1>1, <3>1, MovedKeeps
    <3> QED BY <3>1, <3>2
  <2> QED BY <2>3 DEF Attached
<1>3. CASE dm' = dm
  BY <1>3 DEF Attached
<1>4. CASE dm' = [dm EXCEPT !.gc = FALSE,
                    !.max = IF Used(dm) = {} THEN -1 ELSE HighestUsed(dm)]
  <2>1. dm'.fd = dm.fd
    BY <1>1, <1>4 DEF Manager
  <2> QED BY <2>1 DEF Attached
<1> QED BY <1>2, <1>3, <1>4 DEF nd_gc

\* The head of the loop of nd_select(), and the rounds of nd_gc().
LEMMA WalkTells ==
  ASSUME Inv, Walk
  PROVE  SvcInv'
<1>0. /\ Owned(files, dm, pass) /\ dm \in Manager /\ NumbersOwned(files, dm)
      /\ files \in Files /\ pass \in Passes /\ ToCome(dm, pass, wire) /\ OwnedInv
  BY DEF Inv, SvcInv, OwnedInv, Owned
<1>1. UNCHANGED tcpsvars
  BY DEF Walk
<1>2. CASE NextDescriptor
  <2> DEFINE q == [pass EXCEPT !.nd = pass.next, !.next = nd_next(dm, pass.next),
                               !.setp = 0]
  <2>1. /\ UNCHANGED <<files, dm>> /\ pass.at = "next"
        /\ \/ pass' = PassOver
           \/ pass.next # None /\ pass' \in {q, Due(q, dm, "W")}
    BY <1>2 DEF NextDescriptor
  <2>2. Told(dm, PassOver, ts, wire) /\ ToCome(dm, PassOver, wire)
    <3>1. PassOver.at \in {"idle", "gc"} /\ PassOver.next = None
      BY DEF PassOver, Idle
    <3> QED BY <1>0, <3>1, NothingToCome
  <2>3. ASSUME pass.next # None, pass' \in {q, Due(q, dm, "W")}
        PROVE  Told(dm, pass', ts, wire) /\ ToCome(dm, pass', wire)
    <3>1. /\ q.nd = pass.next /\ q.next = nd_next(dm, pass.next)
          /\ q.ready = pass.ready /\ q.at = "next"
      BY <1>0, <2>1 DEF Passes
    <3>2. q \in Passes
      BY <1>0, <2>1, <2>3, AdvanceKeeps DEF Owned
    <3> HIDE DEF q
    <3>3. /\ pass'.nd = q.nd /\ pass'.next = q.next /\ pass'.ready = q.ready
          /\ pass'.at = "C" => "C" \in dm.mask[q.nd]
          /\ pass'.at = "W" => dm.fd[q.nd] \in q.ready["W"]
          /\ pass'.at \in {"R", "C"} => dm.fd[q.nd] \notin q.ready["W"]
      <4>1. CASE pass' = q
        BY <3>1, <4>1
      <4>2. CASE pass' = Due(q, dm, "W")
        BY <3>2, <4>2, DueAt
      <4> QED BY <2>3, <4>1, <4>2
    <3>4. ToCome(dm, pass', wire) /\ Writable(dm, pass, wire, pass.next)
      <4> DEFINE p == pass'
      <4>1. p.nd = pass.next /\ p.next = nd_next(dm, pass.next) /\ p.ready = pass.ready
        BY <3>1, <3>3
      <4> HIDE DEF p
      <4>2. ToCome(dm, p, wire) /\ Writable(dm, pass, wire, pass.next)
        BY <1>0, <2>1, <2>3, <4>1, AdvanceTells
      <4> QED BY <4>2 DEF p
    <3>5. Told(dm, pass', ts, wire)
      BY <3>1, <3>3, <3>4 DEF Told, Writable
    <3> QED BY <3>4, <3>5
  <2> HIDE DEF q
  <2>4. Told(dm, pass', ts, wire) /\ ToCome(dm, pass', wire)
    BY <2>1, <2>2, <2>3
  <2>5. dm' = dm /\ Attached' = Attached
    BY <2>1 DEF Attached
  <2> QED BY <1>1, <2>4, <2>5, PassTells
<1>3. CASE nd_gc
  <2>1. /\ pass.at = "gc" /\ pass' \in {pass, Idle}
        /\ \/ dm' = Moved(dm, HighestUsed(dm), LowestFree(files))
           \/ dm' = dm
           \/ dm' = [dm EXCEPT !.gc = FALSE,
                       !.max = IF Used(dm) = {} THEN -1 ELSE HighestUsed(dm)]
    BY <1>3 DEF nd_gc
  <2>2. OwnedInv'
    BY <1>0, WalkOwned
  <2>3. dm' \in Manager /\ pass' \in Passes /\ PassOrder(files', dm', pass')
    BY <2>2 DEF OwnedInv, Owned
  <2>4. pass'.at \in {"idle", "gc"} /\ pass'.next = None
    <3>1. pass'.at \in {"idle", "gc"}
      BY <2>1 DEF Idle
    <3> QED BY <2>3, <3>1 DEF PassOrder
  <2>5. Told(dm', pass', ts, wire) /\ ToCome(dm', pass', wire)
    <3> DEFINE q == pass'
               d == dm'
    <3>1. d \in Manager /\ q.at \in {"idle", "gc"} /\ q.next = None
      BY <2>3, <2>4
    <3> HIDE DEF q, d
    <3>2. Told(d, q, ts, wire) /\ ToCome(d, q, wire)
      BY <3>1, NothingToCome
    <3> QED BY <3>2 DEF q, d
  <2>6. dm'.mask = dm.mask
    <3>1. CASE dm' = Moved(dm, HighestUsed(dm), LowestFree(files))
      BY <1>0, <3>1, Constants, MasksOfOthers
    <3>2. CASE dm' = dm
      BY <3>2
    <3>3. CASE dm' = [dm EXCEPT !.gc = FALSE,
                       !.max = IF Used(dm) = {} THEN -1 ELSE HighestUsed(dm)]
      BY <1>0, <3>3 DEF Manager
    <3> QED BY <2>1, <3>1, <3>2, <3>3
  <2>7. Attached' = Attached
    BY <1>0, <1>3, GcAttached
  <2> QED BY <1>1, <2>5, <2>6, <2>7, PassTells
<1> QED BY <1>2, <1>3 DEF Walk

\* udpsvc_read(), which leaves the pass or goes on with it.
LEMMA DatagramTells ==
  ASSUME Inv, udpsvc_read
  PROVE  SvcInv'
<1>0. /\ Owned(files, dm, pass) /\ dm \in Manager /\ pass \in Passes
      /\ ToCome(dm, pass, wire)
  BY DEF Inv, SvcInv, OwnedInv, Owned
<1>1. /\ pass.nd = Udp /\ CallingBack(pass) /\ pass' \in {Due(pass, dm, "C"), Idle}
      /\ UNCHANGED <<files, dm>> /\ UNCHANGED tcpsvars
  BY DEF udpsvc_read, CallingBack, tcpsvars
<1>2. Told(dm, pass', ts, wire) /\ ToCome(dm, pass', wire)
  <2>1. CASE pass' = Idle
    <3>1. Idle.at \in {"idle", "gc"} /\ Idle.next = None
      BY DEF Idle
    <3>2. Told(dm, Idle, ts, wire) /\ ToCome(dm, Idle, wire)
      BY <1>0, <3>1, NothingToCome
    <3> QED BY <2>1, <3>2
  <2>2. CASE pass' = Due(pass, dm, "C")
    <3>1. /\ pass'.nd = pass.nd /\ pass'.next = pass.next /\ pass'.ready = pass.ready
          /\ pass'.at = "C" => "C" \in dm.mask[pass.nd]
      BY <1>0, <2>2, DueAt
    <3>2. Told(dm, pass', ts, wire)
      BY <1>1, <3>1, Constants DEF Told
    <3> DEFINE q == pass'
    <3>3. q.nd = pass.nd /\ q.next = pass.next /\ q.ready = pass.ready
      BY <3>1
    <3> HIDE DEF q
    <3>4. ToCome(dm, q, wire)
      BY <1>0, <1>1, <3>3, SamePass
    <3> QED BY <3>2, <3>4 DEF q
  <2> QED BY <1>1, <2>1, <2>2
<1>3. dm' = dm /\ Attached' = Attached
  BY <1>1 DEF Attached
<1> QED BY <1>1, <1>2, <1>3, PassTells

\* A client of connection c, or the kernel for it: x is the kernel's part
\* afterwards and k the history.
LEMMA OneClient ==
  ASSUME Inv, NEW c \in Conn, NEW x \in Wires, NEW k \in Logs,
         wire' = [wire EXCEPT ![c] = x], log' = [log EXCEPT ![c] = k],
         UNCHANGED <<dm, pass, ts, tcpsvc_count>>,
         backlog' \subseteq backlog \cup {c},
         c \in backlog' => k = NoLog /\ x.in = <<>>,
         c \in Accepted => /\ ConnOK(dm.mask[c], ts[c], x, k)
                           /\ Room(wire[c]) => Room(x)
                           /\ wire[c].fin => x.fin
  PROVE  SvcInv'
<1>1. /\ SvcTypes /\ ToCome(dm, pass, wire) /\ Owned(files, dm, pass)
      /\ Told(dm, pass, ts, wire) /\ tcpsvc_count = Cardinality(Accepted)
      /\ \A a \in Accepted : ConnOK(dm.mask[a], ts[a], wire[a], log[a])
      /\ \A a \in backlog : log[a] = NoLog /\ wire[a].in = <<>>
      /\ backlog \subseteq Conn
  BY DEF Inv, SvcInv, OwnedInv
<1>2. /\ wire'[c] = x /\ log'[c] = k /\ SvcTypes'
      /\ \A a \in Conn : a # c => wire'[a] = wire[a] /\ log'[a] = log[a]
  BY <1>1 DEF SvcTypes
<1>3. Accepted' = Accepted
  BY DEF Accepted, Attached
<1>4. ASSUME NEW a \in Accepted
      PROVE  /\ ConnOK(dm.mask[a], ts[a], wire'[a], log'[a])
             /\ Room(wire[a]) => Room(wire'[a])
             /\ wire[a].fin => wire'[a].fin
  <2>1. a \in Conn /\ ConnOK(dm.mask[a], ts[a], wire[a], log[a])
    BY <1>1 DEF Accepted
  <2>2. CASE a = c
    BY <1>2, <2>2
  <2>3. CASE a # c
    <3>1. wire'[a] = wire[a] /\ log'[a] = log[a]
      BY <1>2, <2>1, <2>3
    <3> QED BY <2>1, <3>1
  <2> QED BY <2>2, <2>3
<1>5. \A a \in backlog' : log'[a] = NoLog /\ wire'[a].in = <<>>
  BY <1>1, <1>2
<1>6. Told(dm, pass, ts, wire')
  <2>1. CallingBack(pass) /\ pass.nd \in Conn => pass.nd \in Accepted
    BY <1>1, Constants DEF Owned, PassOwned, CallingBack, Accepted, Attached
  <2> QED BY <1>1, <1>4, <2>1 DEF Told, CallingBack
<1>7. ToCome(dm, pass, wire')
  <2>1. \A a \in Conn : dm.fd[a] # -1 => a \in Accepted
    BY Constants DEF Accepted, Attached
  <2> DEFINE y == wire'
  <2>2. \A a \in Conn : dm.fd[a] # -1 => (Room(wire[a]) => Room(y[a]))
    BY <1>4, <2>1
  <2> HIDE DEF y
  <2>3. ToCome(dm, pass, y)
    BY <1>1, <2>2, SamePass
  <2> QED BY <2>3 DEF y
<1>8. Told(dm', pass', ts', wire') /\ ToCome(dm', pass', wire')
  <2>1. dm' = dm /\ pass' = pass /\ ts' = ts
    OBVIOUS
  <2> QED BY <1>6, <1>7, <2>1
<1>9. \A a \in Accepted' : ConnOK(dm'.mask[a], ts'[a], wire'[a], log'[a])
  BY <1>3, <1>4
<1>10. tcpsvc_count' = Cardinality(Accepted')
  BY <1>1, <1>3
<1> QED BY <1>2, <1>5, <1>8, <1>9, <1>10 DEF SvcInv

\* The number of the line a client is typing.
LEMMA LineNumberNat ==
  ASSUME NEW c, log[c].typed \in Text
  PROVE  LineNumber(c) \in Nat
<1> DEFINE S == {i \in DOMAIN log[c].typed : log[c].typed[i] = NL}
<1>1. Len(log[c].typed) \in Nat /\ DOMAIN log[c].typed = 1 .. Len(log[c].typed)
  BY LenProperties DEF Text
<1>2. IsFiniteSet(1 .. Len(log[c].typed)) /\ S \subseteq 1 .. Len(log[c].typed)
  BY <1>1, FS_Interval
<1>3. Cardinality(S) \in Nat
  BY <1>2, FS_Subset, FS_CardinalityType
<1> HIDE DEF S
<1>4. 1 + Cardinality(S) \in Nat
  BY <1>3
<1> QED BY <1>4 DEF LineNumber, S

\* Clients connect, type, read and close.
LEMMA ClientTells ==
  ASSUME Inv, NEW c \in Conn, Client(c)
  PROVE  SvcInv'
<1>0. UNCHANGED <<dm, pass, ts, tcpsvc_count>>
  BY DEF Client, Read, servervars
<1>1. /\ wire \in [Conn -> Wires] /\ log \in [Conn -> Logs] /\ wire[c] \in Wires
      /\ log[c] \in Logs /\ ts \in [Conn -> Blocks] /\ ts[c] \in Blocks
      /\ c \in Accepted => ConnOK(dm.mask[c], ts[c], wire[c], log[c])
      /\ c \in backlog => log[c] = NoLog /\ wire[c].in = <<>>
      /\ backlog \subseteq Conn \ Attached
  BY DEF Inv, SvcInv, SvcTypes, OwnedInv
<1>2. /\ wire[c] \in [in : Text, fin : BOOLEAN, unread : 0 .. SNDBUF_SIZE]
      /\ Len(wire[c].in) <= RCVBUF_SIZE /\ wire[c].in \in Text
      /\ wire[c].unread \in 0 .. SNDBUF_SIZE
      /\ log[c] \in [typed : Text, asked : Text, answers : Text, count : Nat, sent : Text]
  BY <1>1 DEF Wires, Logs
<1>3. RCVBUF_SIZE \in Nat /\ SNDBUF_SIZE \in Nat /\ Len(wire[c].in) \in Nat /\ SNDBUF_SIZE > 0
  <2>1. RCVBUF_SIZE \in Nat \ {0} /\ SNDBUF_SIZE \in Nat \ {0}
    BY TcpSvcAssumption
  <2>2. Len(wire[c].in) \in Nat
    BY <1>2, SplitText
  <2> QED BY <2>1, <2>2
<1>4. log' = log => log' = [log EXCEPT ![c] = log[c]]
  BY <1>1
<1>5. CASE Connect(c)
  <2>1. /\ c \notin Accepted /\ backlog' = backlog \cup {c}
        /\ wire' = [wire EXCEPT ![c] = NoWire] /\ log' = [log EXCEPT ![c] = NoLog]
    BY <1>5 DEF Connect, Connected
  <2>2. NoWire \in Wires /\ NoLog \in Logs /\ NoWire.in = <<>>
    BY EmptyBlocks DEF NoWire
  <2> QED BY <1>0, <2>1, <2>2, OneClient
<1>6. CASE Type(c)
  <2>1. PICK y \in {NL, Req(LineNumber(c))} :
          /\ wire' = [wire EXCEPT ![c].in = Put(@, y)]
          /\ log' = [log EXCEPT ![c].typed = Put(@, y)]
    BY <1>6 DEF Type, Put
  <2>2. c \in Accepted /\ Len(wire[c].in) < RCVBUF_SIZE /\ backlog' = backlog
    BY <1>6 DEF Type
  <2>3. y \in Chars
    <3>1. LineNumber(c) \in Nat
      BY <1>2, LineNumberNat
    <3> QED BY <3>1 DEF Chars, Req, NL
  <2> DEFINE x == [wire[c] EXCEPT !.in = Put(wire[c].in, y)]
             k == [log[c] EXCEPT !.typed = Put(log[c].typed, y)]
  <2>4. wire' = [wire EXCEPT ![c] = x] /\ log' = [log EXCEPT ![c] = k]
    BY <1>1, <2>1
  <2>5. /\ Put(wire[c].in, y) \in Text /\ Len(Put(wire[c].in, y)) = Len(wire[c].in) + 1
        /\ Put(log[c].typed, y) \in Text
    BY <1>2, <2>3, PutText
  <2>6. x.in = Put(wire[c].in, y) /\ x.fin = wire[c].fin /\ x.unread = wire[c].unread
    BY <1>2
  <2>7. /\ k.typed = Put(log[c].typed, y) /\ k.asked = log[c].asked /\ k.sent = log[c].sent
        /\ k.answers = log[c].answers
    BY <1>2
  <2>8. x \in Wires
    <3>1. Len(Put(wire[c].in, y)) <= RCVBUF_SIZE
      BY <1>3, <2>2, <2>5
    <3>2. x \in [in : Text, fin : BOOLEAN, unread : 0 .. SNDBUF_SIZE]
      BY <1>2, <2>5
    <3> HIDE DEF x
    <3>3. Len(x.in) <= RCVBUF_SIZE
      BY <2>6, <3>1
    <3> QED BY <3>2, <3>3 DEF Wires
  <2>9. k \in Logs
    BY <1>2, <2>5 DEF Logs
  <2> HIDE DEF x, k
  <2>10. ConnOK(dm.mask[c], ts[c], x, k)
    BY <1>1, <2>2, <2>3, <2>6, <2>7, ConnTyped
  <2>11. (Room(wire[c]) => Room(x)) /\ (wire[c].fin => x.fin) /\ c \notin backlog'
    BY <1>1, <2>2, <2>6 DEF Room, Accepted
  <2> QED BY <1>0, <2>2, <2>4, <2>8, <2>9, <2>10, <2>11, OneClient
<1>7. CASE ReadAnswer(c)
  <2> DEFINE x == [wire[c] EXCEPT !.unread = 0]
  <2>1. wire' = [wire EXCEPT ![c] = x] /\ log' = log /\ backlog' = backlog
    BY <1>1, <1>7 DEF ReadAnswer
  <2>2. x.in = wire[c].in /\ x.fin = wire[c].fin /\ x.unread = 0 /\ x \in Wires
    <3>1. 0 \in 0 .. SNDBUF_SIZE
      BY <1>3
    <3> QED BY <1>2, <3>1 DEF Wires
  <2> HIDE DEF x
  <2>3. c \in Accepted => ConnOK(dm.mask[c], ts[c], x, log[c])
    BY <1>1, <2>2, ConnRest
  <2>4. Room(x)
    BY <1>3, <2>2 DEF Room
  <2> QED BY <1>0, <1>1, <1>4, <2>1, <2>2, <2>3, <2>4, OneClient
<1>8. CASE Hangup(c)
  <2> DEFINE x == [wire[c] EXCEPT !.fin = TRUE]
  <2>1. wire' = [wire EXCEPT ![c] = x] /\ log' = log /\ backlog' \subseteq backlog
    BY <1>1, <1>8 DEF Hangup
  <2>2. x.in = wire[c].in /\ x.fin /\ x \in Wires
    BY <1>2 DEF Wires
  <2> HIDE DEF x
  <2>3. c \in Accepted => ConnOK(dm.mask[c], ts[c], x, log[c])
    BY <1>1, <2>2, ConnRest
  <2>4. Room(x)
    BY <2>2 DEF Room
  <2>5. backlog' \subseteq backlog \cup {c} /\ (c \in backlog' => log[c] = NoLog /\ x.in = <<>>)
    BY <1>1, <2>1, <2>2
  <2> QED BY <1>0, <1>1, <1>4, <2>1, <2>2, <2>3, <2>4, <2>5, OneClient
<1> QED BY <1>5, <1>6, <1>7, <1>8 DEF Client, Read

\* prepare_ipc(): no connection is there.
LEMMA InitTells == Init => Inv
<1> SUFFICES ASSUME Init PROVE Inv
  OBVIOUS
<1>1. OwnedInv
  BY InitOwned
<1>2. /\ files \in Files /\ dm \in Manager /\ NumbersOwned(files, dm)
  BY <1>1 DEF OwnedInv, Owned
<1>3. Accepted = {}
  <2> SUFFICES ASSUME NEW c \in Conn, dm.fd[c] # -1 PROVE FALSE
    BY DEF Accepted, Attached
  <2>1. c \in Sock /\ dm.fd[c] \in Fds
    BY <1>2, Constants DEF Manager
  <2>2. files[dm.fd[c]] = c
    BY <1>2, <2>1 DEF NumbersOwned
  <2>3. files = [n \in Fds |-> IF n = 0 THEN Listener ELSE IF n = 1 THEN Udp ELSE None]
    BY DEF Init
  <2>4. files[dm.fd[c]] \in {Listener, Udp, None}
    BY <2>1, <2>3
  <2> QED BY <2>1, <2>2, <2>4, Constants
<1>4. /\ ts = [c \in Conn |-> tcpsvc_alloc] /\ wire = [c \in Conn |-> NoWire]
      /\ log = [c \in Conn |-> NoLog] /\ backlog = {} /\ tcpsvc_count = 0 /\ pass = Idle
  BY DEF Init, TcpSvcInit
<1>5. SvcTypes
  BY <1>4, EmptyBlocks DEF SvcTypes
<1>6. Told(dm, pass, ts, wire) /\ ToCome(dm, pass, wire)
  <2>1. pass.at \in {"idle", "gc"} /\ pass.next = None
    BY <1>4 DEF Idle
  <2> QED BY <1>2, <2>1, NothingToCome
<1>7. tcpsvc_count = Cardinality(Accepted)
  BY <1>3, <1>4, FS_EmptySet
<1> QED BY <1>1, <1>3, <1>4, <1>5, <1>6, <1>7 DEF Inv, SvcInv

\* Every step keeps the inductive invariant.
LEMMA NextTells == Inv /\ [Next]_vars => Inv'
<1> SUFFICES ASSUME Inv, [Next]_vars PROVE Inv'
  OBVIOUS
<1>1. OwnedInv'
  BY NextOwned DEF Inv
<1> SUFFICES SvcInv'
  BY <1>1 DEF Inv
<1>2. CASE Select
  BY <1>2, SelectTells
<1>3. CASE Walk
  BY <1>3, WalkTells
<1>4. CASE Serve
  <2>1. \/ tcpsvc_accept
        \/ \E c \in Conn : tcpsvc_read(c) \/ tcpsvc_write(c) \/ tcpsvc_cleanup(c)
    BY <1>4 DEF Serve
  <2>2. ASSUME NEW c \in Conn, tcpsvc_cleanup(c) PROVE SvcInv'
    BY <2>2, CleanupTells, ShutdownTells
  <2> QED BY <2>1, <2>2, AcceptTells, ReadTells, WriteTells
<1>5. CASE udpsvc_read
  BY <1>5, DatagramTells
<1>6. ASSUME UNCHANGED <<dm, pass, ts, tcpsvc_count, backlog, wire, log>>
      PROVE  SvcInv'
  <2>1. SvcInv
    BY DEF Inv
  <2> QED BY <1>6, <2>1 DEF SvcInv, SvcTypes, Accepted, Attached
<1>7. CASE Datagram
  BY <1>6, <1>7 DEF Datagram
<1>8. CASE \E c \in Conn : Client(c)
  BY <1>8, ClientTells
<1>9. CASE UNCHANGED vars
  BY <1>6, <1>9 DEF vars
<1> QED BY <1>2, <1>3, <1>4, <1>5, <1>7, <1>8, <1>9 DEF Next, Driver

\* The inductive invariant holds in every behaviour.
THEOREM ServicesInvariance == Spec => []Inv
BY InitTells, NextTells, PTL DEF Spec

(***************************************************************************)
(* TypeOK: the queues of the connections never hold more than nq_alloc()   *)
(* gave them room for, nor the kernel's buffers more than their sizes, no  *)
(* client that waits for accept() has a descriptor, and tcpsvc_count is    *)
(* the number of connections.                                              *)
(***************************************************************************)
THEOREM ServicesTypes == Spec => []TypeOK
<1>1. Inv => TypeOK
  <2> SUFFICES ASSUME Inv PROVE TypeOK
    OBVIOUS
  <2>1. /\ SvcTypes /\ tcpsvc_count = Cardinality(Accepted) /\ OwnedInv
    BY DEF Inv, SvcInv
  <2>2. NdescTypeOK /\ backlog \subseteq Conn \ Attached
    BY <2>1 DEF OwnedInv, Owned, NdescTypeOK, Files
  <2>3. ASSUME NEW c \in Conn
        PROVE  /\ ts[c].flags \subseteq {"CLOSE", "ENABC", "ENABR"}
               /\ ts[c].rawq \in Seq(Chars) /\ Len(ts[c].rawq) <= RAWQ_SIZE
               /\ ts[c].canq \in Seq(Chars) /\ Len(ts[c].canq) <= CANQ_SIZE
               /\ wire[c].in \in Seq(Chars) /\ Len(wire[c].in) <= RCVBUF_SIZE
               /\ wire[c].unread \in 0 .. SNDBUF_SIZE
    <3>1. ts[c] \in Blocks /\ wire[c] \in Wires
      BY <2>1 DEF SvcTypes
    <3> QED BY <3>1 DEF Blocks, Wires, Text
  <2> QED BY <2>1, <2>2, <2>3 DEF TypeOK
<1> QED BY <1>1, ServicesInvariance, PTL

(***************************************************************************)
(* Exchange: for any number of connections, and queues, kernel buffers and *)
(* answers of any size, what the master object was asked is a beginning of *)
(* what the client typed, in order and complete, and what was written and  *)
(* waits to be written are its answers, although requests and answers use  *)
(* one queue.                                                              *)
(***************************************************************************)
THEOREM ExchangesKept == Spec => []Exchange
<1>1. Inv => Exchange
  <2> SUFFICES ASSUME Inv, NEW c \in Accepted
               PROVE  /\ IsPrefix(log[c].asked, log[c].typed)
                      /\ log[c].sent \o Unwritten(c) = log[c].answers
                      /\ "W" \in dm.mask[c] /\ "C" \in dm.mask[c] => "CLOSE" \in ts[c].flags
    BY DEF Exchange
  <2>1. ConnOK(dm.mask[c], ts[c], wire[c], log[c])
    BY DEF Inv, SvcInv
  <2>2. log[c].sent \in Text /\ log[c].answers \in Text
    BY DEF Inv, SvcInv, SvcTypes, Accepted, Logs
  <2>3. log[c].sent \o Unwritten(c) = log[c].answers
    <3>1. CASE "W" \in dm.mask[c]
      BY <2>1, <3>1 DEF ConnOK, Unwritten, Join
    <3>2. CASE "W" \notin dm.mask[c]
      <4>1. log[c].sent = log[c].answers
        BY <2>1, <3>2 DEF ConnOK
      <4>2. Join(log[c].sent, <<>>) = log[c].sent
        BY <2>2, JoinEmpty
      <4> QED BY <3>2, <4>1, <4>2 DEF Unwritten, Join
    <3> QED BY <3>1, <3>2
  <2> QED BY <2>1, <2>3 DEF ConnOK
<1> QED BY <1>1, ServicesInvariance, PTL

\* Only tcpsvc_shutdown() takes the number of a connection away: as long as
\* the kernel has the socket at its number, the manager has it there.
LEMMA WhoCloses ==
  ASSUME Inv, [Next]_vars, NEW c \in Accepted, dm'.fd[c] = -1
  PROVE  tcpsvc_cleanup(c) /\ "CLOSE" \in ts[c].flags
<1>0. /\ dm \in Manager /\ NumbersOwned(files, dm) /\ OwnedInv
      /\ files \in Files /\ c \in Sock /\ c \in Conn /\ dm.fd[c] # -1
      /\ dm.fd \in [Sock -> Fds \cup {-1}] /\ backlog \subseteq Conn \ Attached
  BY Constants DEF Inv, OwnedInv, Owned, Accepted, Attached, Manager
<1> DEFINE n == dm.fd[c]
<1>1. n \in Fds /\ files[n] = c /\ c # None
  BY <1>0, Constants DEF NumbersOwned
<1>2. files'[n] # c
  <2>1. OwnedInv'
    BY <1>0, NextOwned
  <2>2. NumbersOwned(files', dm')
    BY <2>1 DEF OwnedInv, Owned
  <2>3. files'[n] # None => dm'.fd[files'[n]] = n
    BY <1>1, <2>2 DEF NumbersOwned
  <2> QED BY <1>1, <2>3, Constants
<1> HIDE DEF n
<1>3. CASE Walk
  <2>1. nd_gc
    BY <1>1, <1>2, <1>3 DEF Walk, NextDescriptor
  <2>2. Attached' = Attached
    BY <1>0, <2>1, GcAttached
  <2> QED BY <1>0, <2>2 DEF Attached
<1>4. CASE tcpsvc_accept
  <2>1. PICK a \in backlog : files' = [files EXCEPT ![LowestFree(files)] = a]
    BY <1>1, <1>2, <1>4 DEF tcpsvc_accept
  <2>2. a \in Sock /\ dm.fd[a] = -1
    BY <1>0, Constants DEF Attached
  <2>3. files[LowestFree(files)] = None
    <3>1. \E k \in Fds : files[k] = None
      BY <1>0, <2>2, NumberLeft
    <3> QED BY <1>0, <3>1, LowestIsFree
  <2>4. files'[n] = files[n]
    BY <1>0, <1>1, <2>1, <2>3 DEF Files
  <2> QED BY <1>1, <1>2, <2>4
<1>5. ASSUME NEW a \in Conn, tcpsvc_cleanup(a), "CLOSE" \in ts[a].flags, a # c
      PROVE  FALSE
  <2>1. /\ CallingBack(pass) /\ pass.nd = a
        /\ files' = [files EXCEPT ![dm.fd[a]] = None]
    BY <1>5 DEF tcpsvc_cleanup, tcpsvc_shutdown, CallingBack
  <2>2. a \in Sock /\ dm.fd[a] # -1
    BY <2>1, AtHand
  <2>3. dm.fd[a] # n
    BY <1>0, <1>1, <1>5, <2>2 DEF NumbersOwned
  <2>4. files'[n] = files[n]
    BY <1>0, <1>1, <2>1, <2>3 DEF Files
  <2> QED BY <1>1, <1>2, <2>4
<1>6. ASSUME NEW a \in Conn,
             \/ tcpsvc_read(a) \/ tcpsvc_write(a)
             \/ tcpsvc_cleanup(a) /\ "CLOSE" \notin ts[a].flags
      PROVE  FALSE
  <2>1. files' = files
    BY <1>6 DEF tcpsvc_read, tcpsvc_write, tcpsvc_cleanup
  <2> QED BY SMTT(60), <1>1, <1>2, <2>1
<1>7. \/ Walk \/ tcpsvc_accept
      \/ \E a \in Conn : tcpsvc_read(a) \/ tcpsvc_write(a) \/ tcpsvc_cleanup(a)
  <2>1. files' # files
    BY <1>1, <1>2
  <2> QED BY <2>1 DEF Next, Driver, Select, nd_select, Serve, udpsvc_read, Datagram,
                      Client, Read, servervars, vars
<1> QED BY <1>3, <1>4, <1>5, <1>6, <1>7

(***************************************************************************)
(* ToldBeforeClose: when tcpsvc_cleanup() closes a connection whose error  *)
(* answer is unwritten, the client has closed it or select() had not found *)
(* it ready for writing, for any number of connections in the pass.        *)
(***************************************************************************)
THEOREM ClosedAfterTelling == Spec => ToldBeforeClose
<1>1. Inv /\ [Next]_vars =>
        [\A c \in Accepted :
           /\ dm'.fd[c] = -1
           /\ Unwritten(c) # <<>>
           /\ ~wire[c].fin
           => dm.fd[c] \notin pass.ready["W"]]_vars
  <2> SUFFICES ASSUME Inv, [Next]_vars, NEW c \in Accepted, dm'.fd[c] = -1,
                      Unwritten(c) # <<>>, ~wire[c].fin
               PROVE  dm.fd[c] \notin pass.ready["W"]
    OBVIOUS
  <2>1. tcpsvc_cleanup(c) /\ "CLOSE" \in ts[c].flags
    BY WhoCloses
  <2>2. pass.at = "C" /\ pass.nd = c /\ c \in Conn
    BY <2>1 DEF tcpsvc_cleanup, Accepted
  <2>3. "W" \in dm.mask[c]
    BY DEF Unwritten
  <2> QED BY <2>1, <2>2, <2>3 DEF Inv, SvcInv, Told
<1> QED BY <1>1, ServicesInvariance, PTL DEF Spec, ToldBeforeClose

=============================================================================
