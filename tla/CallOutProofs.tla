--------------------------- MODULE CallOutProofs ---------------------------
(***************************************************************************)
(* Proofs about the alarm queue, for any number of objects and slots, any  *)
(* delays and any clock: the two-level queue stays consistent, nothing is  *)
(* left behind the walk of the wheel, no fatal() of call_out.c is reached, *)
(* and calls are fired in order of due time.  From this invariant follow   *)
(* the others: the loop sleeps no longer than it may, freed objects have   *)
(* no calls, ids are unique, the queue implements Alarms, its separate     *)
(* count of calls is exact, and a call that fails is turned off.           *)
(***************************************************************************)
EXTENDS CallOut, SequenceTheorems, FiniteSetTheorems,
        WellFoundedInduction, TLAPS

\* A non-empty set of naturals has a least element, and Min returns it: the
\* search along a list stops at the first place that fits.
LEMMA MinIsLeast ==
  ASSUME NEW S \in SUBSET Nat, S # {}
  PROVE  Min(S) \in S /\ \A y \in S : Min(S) <= y
<1>1. \E x \in S : \A y \in S : <<y, x>> \notin OpToRel(<, Nat)
  BY NatLessThanWellFounded, WFMin
<1>2. PICK x \in S : \A y \in S : <<y, x>> \notin OpToRel(<, Nat)
  BY <1>1
<1>3. \A y \in S : x <= y
  <2> SUFFICES ASSUME NEW y \in S PROVE x <= y
    OBVIOUS
  <2>1. ~(y < x)
    BY <1>2 DEF OpToRel
  <2> QED BY <2>1
<1> QED BY <1>3 DEF Min

\* What InsertAt returns, position by position.
LEMMA InsertAtProperties ==
  ASSUME NEW T, NEW s \in Seq(T), NEW i \in 1 .. Len(s) + 1, NEW e \in T
  PROVE  /\ InsertAt(s, i, e) \in Seq(T)
         /\ Len(InsertAt(s, i, e)) = Len(s) + 1
         /\ \A j \in 1 .. Len(s) + 1 :
              InsertAt(s, i, e)[j] = IF j < i THEN s[j]
                                     ELSE IF j = i THEN e ELSE s[j - 1]
<1> DEFINE a == SubSeq(s, 1, i - 1)
           b == SubSeq(s, i, Len(s))
           one == <<e>>
           m == a \o one
           t == m \o b
<1>0. Len(s) \in Nat /\ \A j \in 1 .. Len(s) : s[j] \in T
  BY ElementOfSeq
<1>1. /\ a \in Seq(T)
      /\ Len(a) = i - 1
      /\ \A j \in 1 .. i - 1 : a[j] = s[j]
  BY <1>0, SubSeqProperties
<1>2. /\ b \in Seq(T)
      /\ Len(b) = Len(s) - i + 1
      /\ \A j \in 1 .. Len(s) - i + 1 : b[j] = s[i + j - 1]
  BY <1>0, SubSeqProperties
<1>3. one \in Seq(T) /\ Len(one) = 1 /\ one[1] = e
  OBVIOUS
<1>4. InsertAt(s, i, e) = t
  BY DEF InsertAt
<1> HIDE DEF a, b, one
<1>5. /\ m \in Seq(T)
      /\ Len(m) = Len(a) + Len(one)
      /\ \A j \in 1 .. Len(a) + Len(one) :
           m[j] = IF j <= Len(a) THEN a[j] ELSE one[j - Len(a)]
  <2>1. a \in Seq(T) /\ one \in Seq(T)
    BY <1>1, <1>3
  <2> QED BY <2>1, ConcatProperties
<1> HIDE DEF m
<1>6. Len(m) = i /\ m[i] = e /\ \A j \in 1 .. i - 1 : m[j] = s[j]
  <2>1. Len(a) + Len(one) = i
    BY <1>0, <1>1, <1>3
  <2>2. m[i] = one[1]
    <3>1. i \in 1 .. Len(a) + Len(one) /\ ~(i <= Len(a)) /\ i - Len(a) = 1
      BY <1>0, <1>1, <2>1
    <3> QED BY <1>5, <3>1
  <2>3. ASSUME NEW j \in 1 .. i - 1 PROVE m[j] = s[j]
    BY SMTT(60), <1>0, <1>1, <1>5, <2>1
  <2> QED BY <1>3, <1>5, <2>1, <2>2, <2>3
<1>7. /\ t \in Seq(T)
      /\ Len(t) = Len(m) + Len(b)
      /\ \A j \in 1 .. Len(m) + Len(b) :
           t[j] = IF j <= Len(m) THEN m[j] ELSE b[j - Len(m)]
  <2>1. m \in Seq(T) /\ b \in Seq(T)
    BY <1>2, <1>5
  <2> QED BY <2>1, ConcatProperties
<1> HIDE DEF t
<1>8. Len(t) = Len(s) + 1
  BY <1>0, <1>2, <1>6, <1>7
<1>9. ASSUME NEW j \in 1 .. Len(s) + 1, j < i
      PROVE  t[j] = s[j]
  BY <1>0, <1>6, <1>7, <1>8, <1>9
<1>10. t[i] = e
  BY <1>0, <1>6, <1>7, <1>8
<1>11. ASSUME NEW j \in 1 .. Len(s) + 1, j > i
       PROVE  t[j] = s[j - 1]
  <2>1. t[j] = b[j - i]
    BY <1>0, <1>6, <1>7, <1>8, <1>11
  <2>2. b[j - i] = s[i + (j - i) - 1]
    BY <1>0, <1>2, <1>11
  <2>3. i + (j - i) - 1 = j - 1
    BY <1>0
  <2> QED BY <2>1, <2>2, <2>3
<1>12. \A j \in 1 .. Len(s) + 1 :
         t[j] = IF j < i THEN s[j] ELSE IF j = i THEN e ELSE s[j - 1]
  <2> SUFFICES ASSUME NEW j \in 1 .. Len(s) + 1
      PROVE t[j] = IF j < i THEN s[j] ELSE IF j = i THEN e ELSE s[j - 1]
    OBVIOUS
  <2>1. j < i \/ j = i \/ j > i
    BY <1>0
  <2> QED BY <1>9, <1>10, <1>11, <2>1
<1> QED BY <1>4, <1>7, <1>8, <1>12

\* What RemoveAt returns, position by position.
LEMMA RemoveAtProperties ==
  ASSUME NEW T, NEW s \in Seq(T), NEW i \in 1 .. Len(s)
  PROVE  /\ RemoveAt(s, i) \in Seq(T)
         /\ Len(RemoveAt(s, i)) = Len(s) - 1
         /\ \A j \in 1 .. Len(s) - 1 :
              RemoveAt(s, i)[j] = IF j < i THEN s[j] ELSE s[j + 1]
<1> DEFINE a == SubSeq(s, 1, i - 1)
           b == SubSeq(s, i + 1, Len(s))
<1>0. Len(s) \in Nat /\ \A j \in 1 .. Len(s) : s[j] \in T
  BY ElementOfSeq
<1>1. /\ a \in Seq(T)
      /\ Len(a) = i - 1
      /\ \A j \in 1 .. i - 1 : a[j] = s[j]
  BY <1>0, SubSeqProperties
<1>2. /\ b \in Seq(T)
      /\ Len(b) = Len(s) - i
      /\ \A j \in 1 .. Len(s) - i : b[j] = s[i + j]
  BY <1>0, SubSeqProperties
<1>3. RemoveAt(s, i) = a \o b
  BY DEF RemoveAt, a, b
<1> HIDE DEF a, b
<1>4. /\ a \o b \in Seq(T)
      /\ Len(a \o b) = Len(a) + Len(b)
      /\ \A j \in 1 .. Len(a) + Len(b) :
           (a \o b)[j] = IF j <= Len(a) THEN a[j] ELSE b[j - Len(a)]
  BY <1>1, <1>2, ConcatProperties
<1> QED BY <1>0, <1>1, <1>2, <1>3, <1>4

-----------------------------------------------------------------------------

CallLists == [Objects -> Seq(Call)]
Wheels == [Slots -> Seq(Objects)]

\* A due time always has a slot.
LEMMA SlotType ==
  ASSUME NEW w \in Nat
  PROVE  Slot(w) \in Slots
BY SlotsAssumption DEF Slot, Slots

\* A list that is not empty has a first call, and that has a due time.
LEMMA HeadWhenType ==
  ASSUME NEW cs \in CallLists, NEW o \in Objects, cs[o] # <<>>
  PROVE  /\ Len(cs[o]) \in Nat
         /\ Len(cs[o]) >= 1
         /\ cs[o][1] \in Call
         /\ HeadWhen(cs, o) \in Nat
         /\ Slot(HeadWhen(cs, o)) \in Slots
<1>1. cs[o] \in Seq(Call)
  BY DEF CallLists
<1>2. Len(cs[o]) \in Nat /\ Len(cs[o]) >= 1
  BY <1>1
<1>3. cs[o][1] \in Call
  BY <1>1, <1>2
<1>4. HeadWhen(cs, o) \in Nat
  BY <1>3 DEF HeadWhen, Call
<1> QED BY <1>2, <1>3, <1>4, SlotType

\* The search for an object that hangs in a chain finds it.
LEMMA ChainPlaceFinds ==
  ASSUME NEW chain \in Seq(Objects), NEW o,
         \E i \in 1 .. Len(chain) : chain[i] = o
  PROVE  /\ ChainPlace(chain, o) \in 1 .. Len(chain)
         /\ chain[ChainPlace(chain, o)] = o
<1> DEFINE P == {i \in 1 .. Len(chain) : chain[i] = o} \cup {Len(chain) + 1}
<1>1. Len(chain) \in Nat
  OBVIOUS
<1>2. P \in SUBSET Nat /\ P # {}
  BY <1>1
<1>3. Min(P) \in P /\ \A y \in P : Min(P) <= y
  BY <1>2, MinIsLeast
<1>4. ChainPlace(chain, o) = Min(P)
  BY DEF ChainPlace
<1>5. PICK i \in 1 .. Len(chain) : chain[i] = o
  OBVIOUS
<1> QED BY <1>1, <1>3, <1>4, <1>5

\* Unlink leaves a wheel that indexes the other objects.
LEMMA UnlinkIndexes ==
  ASSUME NEW wh \in Wheels, NEW cs \in CallLists,
         NEW S \in SUBSET Objects, NEW o \in S,
         Indexes(wh, cs, S)
  PROVE  /\ Unlink(wh, cs, o) \in Wheels
         /\ Indexes(Unlink(wh, cs, o), cs, S \ {o})
<1>1. CASE cs[o] = <<>>
  BY <1>1 DEF Indexes, Unlink
<1>2. CASE cs[o] # <<>>
  <2> DEFINE t == Slot(HeadWhen(cs, o))
             k == ChainPlace(wh[t], o)
             c == RemoveAt(wh[t], k)
             new == Unlink(wh, cs, o)
  <2>1. t \in Slots
    BY <1>2, HeadWhenType
  <2>2. wh[t] \in Seq(Objects)
    BY <2>1 DEF Wheels
  <2>3. k \in 1 .. Len(wh[t]) /\ wh[t][k] = o
    BY <1>2, <2>2, ChainPlaceFinds DEF Indexes
  <2>4. /\ c \in Seq(Objects)
        /\ Len(c) = Len(wh[t]) - 1
        /\ \A j \in 1 .. Len(wh[t]) - 1 :
             c[j] = IF j < k THEN wh[t][j] ELSE wh[t][j + 1]
    BY <2>2, <2>3, RemoveAtProperties
  <2>5. new = [wh EXCEPT ![t] = c]
    BY <1>2 DEF Unlink
  <2>6. /\ new \in Wheels
        /\ new[t] = c
        /\ \A s \in Slots \ {t} : new[s] = wh[s]
    BY <2>1, <2>4, <2>5 DEF Wheels
  <2> HIDE DEF t, k, c, new
  <2>7. Len(wh[t]) \in Nat
    BY <2>2
  <2>8. ASSUME NEW s \in Slots, NEW i \in 1 .. Len(new[s])
        PROVE  /\ new[s][i] \in S \ {o}
               /\ cs[new[s][i]] # <<>>
               /\ Slot(HeadWhen(cs, new[s][i])) = s
    <3>1. CASE s # t
      <4>1. new[s] = wh[s]
        BY <2>6, <3>1
      <4>2. wh[s][i] # o
        BY <3>1, <4>1 DEF Indexes, t
      <4> QED BY <4>1, <4>2 DEF Indexes
    <3>2. CASE s = t
      <4>0. i \in 1 .. Len(wh[t]) - 1
        BY <2>4, <2>6, <3>2
      <4>1. PICK j \in 1 .. Len(wh[t]) : c[i] = wh[t][j] /\ j # k
        <5>1. CASE i < k
          BY <2>3, <2>4, <2>7, <4>0, <5>1
        <5>2. CASE ~(i < k)
          <6>1. i + 1 \in 1 .. Len(wh[t]) /\ i + 1 # k /\ c[i] = wh[t][i + 1]
            BY <2>3, <2>4, <2>7, <4>0, <5>2
          <6> QED BY <6>1
        <5> QED BY <5>1, <5>2
      <4>2. wh[t][j] # o
        BY <2>1, <2>3, <2>7, <4>1 DEF Indexes
      <4> QED BY <2>1, <2>6, <3>2, <4>1, <4>2 DEF Indexes
    <3> QED BY <3>1, <3>2
  <2>9. ASSUME NEW s \in Slots, NEW i \in 1 .. Len(new[s]),
               NEW j \in 1 .. Len(new[s]), i < j
        PROVE  /\ new[s][i] # new[s][j]
               /\ HeadWhen(cs, new[s][i]) <= HeadWhen(cs, new[s][j])
    <3>1. CASE s # t
      BY <2>6, <2>9, <3>1 DEF Indexes
    <3>2. CASE s = t
      <4>1. PICK i2, j2 \in 1 .. Len(wh[t]) :
              c[i] = wh[t][i2] /\ c[j] = wh[t][j2] /\ i2 < j2
        <5>1. i \in 1 .. Len(wh[t]) - 1 /\ j \in 1 .. Len(wh[t]) - 1 /\ i < j
          BY <2>4, <2>6, <2>9, <3>2
        <5>2. ASSUME NEW x \in 1 .. Len(wh[t]) - 1, x < k
              PROVE  x \in 1 .. Len(wh[t]) /\ c[x] = wh[t][x]
          BY SMTT(60), <2>4, <2>7, <5>2
        <5>3. ASSUME NEW x \in 1 .. Len(wh[t]) - 1, ~(x < k)
              PROVE  x + 1 \in 1 .. Len(wh[t]) /\ c[x] = wh[t][x + 1]
          BY SMTT(60), <2>4, <2>7, <5>3
        <5>4. CASE j < k
          <6>1. i < k
            BY <2>3, <2>7, <5>1, <5>4
          <6> QED BY <5>1, <5>2, <5>4, <6>1
        <5>5. CASE i < k /\ ~(j < k)
          <6>1. i < j + 1
            BY <2>7, <5>1
          <6> QED BY <5>1, <5>2, <5>3, <5>5, <6>1
        <5>6. CASE ~(i < k) /\ ~(j < k)
          <6>1. i + 1 < j + 1
            BY <2>7, <5>1
          <6> QED BY <5>1, <5>3, <5>6, <6>1
        <5>7. ~(i < k) => ~(j < k)
          BY <2>3, <2>7, <5>1
        <5> QED BY <5>4, <5>5, <5>6, <5>7
      <4> QED BY <2>1, <2>6, <3>2, <4>1 DEF Indexes
    <3> QED BY <3>1, <3>2
  <2>10. ASSUME NEW p \in S \ {o}, cs[p] # <<>>
         PROVE  \E i \in 1 .. Len(new[Slot(HeadWhen(cs, p))]) :
                  new[Slot(HeadWhen(cs, p))][i] = p
    <3> DEFINE s == Slot(HeadWhen(cs, p))
    <3>1. s \in Slots
      BY <2>10, HeadWhenType
    <3>2. PICK i \in 1 .. Len(wh[s]) : wh[s][i] = p
      BY <2>10 DEF Indexes
    <3> HIDE DEF s
    <3>3. CASE s # t
      BY <2>6, <3>1, <3>2, <3>3 DEF s
    <3>4. CASE s = t
      <4>1. i # k
        BY <2>3, <3>2, <3>4
      <4>2. CASE i < k
        <5>1. i \in 1 .. Len(c) /\ c[i] = p
          BY <2>3, <2>4, <2>7, <3>2, <3>4, <4>2
        <5> QED BY <2>6, <3>4, <5>1 DEF s
      <4>3. CASE i > k
        <5>1. i - 1 \in 1 .. Len(c) /\ c[i - 1] = p
          BY <2>3, <2>4, <2>7, <3>2, <3>4, <4>3
        <5> QED BY <2>6, <3>4, <5>1 DEF s
      <4> QED BY <2>3, <2>7, <3>4, <4>1, <4>2, <4>3
    <3> QED BY <3>3, <3>4
  <2> QED BY <2>6, <2>8, <2>9, <2>10 DEF new, Indexes
<1> QED BY <1>1, <1>2

\* The place found for a new object in a sorted chain keeps it sorted.
LEMMA ObjectPlaceFits ==
  ASSUME NEW chain \in Seq(Objects), NEW cs, NEW w \in Nat,
         \A i \in 1 .. Len(chain) : HeadWhen(cs, chain[i]) \in Nat,
         \A i, j \in 1 .. Len(chain) :
           i < j => HeadWhen(cs, chain[i]) <= HeadWhen(cs, chain[j])
  PROVE  /\ ObjectPlace(chain, cs, w) \in 1 .. Len(chain) + 1
         /\ \A i \in 1 .. Len(chain) :
              /\ i < ObjectPlace(chain, cs, w) => HeadWhen(cs, chain[i]) <= w
              /\ i >= ObjectPlace(chain, cs, w) => w <= HeadWhen(cs, chain[i])
<1> DEFINE P == {i \in 1 .. Len(chain) : HeadWhen(cs, chain[i]) >= w}
                  \cup {Len(chain) + 1}
           k == Min(P)
<1>1. Len(chain) \in Nat
  OBVIOUS
<1>2. P \in SUBSET Nat /\ P # {}
  BY <1>1
<1>3. k \in P /\ \A y \in P : k <= y
  BY <1>2, MinIsLeast
<1>4. ObjectPlace(chain, cs, w) = k
  BY DEF ObjectPlace
<1>5. k \in 1 .. Len(chain) + 1
  BY <1>1, <1>3
<1>6. ASSUME NEW i \in 1 .. Len(chain), i < k
      PROVE  HeadWhen(cs, chain[i]) <= w
  <2>1. i \notin P
    BY <1>1, <1>3, <1>5, <1>6
  <2>2. ~(HeadWhen(cs, chain[i]) >= w)
    BY <2>1
  <2>3. HeadWhen(cs, chain[i]) \in Nat
    OBVIOUS
  <2> QED BY <2>2, <2>3
<1>7. ASSUME NEW i \in 1 .. Len(chain), i >= k
      PROVE  w <= HeadWhen(cs, chain[i])
  <2>1. k \in 1 .. Len(chain)
    BY <1>1, <1>5, <1>7
  <2>2. HeadWhen(cs, chain[k]) >= w
    BY <1>1, <1>3, <2>1
  <2>3. i = k \/ k < i
    BY <1>1, <1>7, <2>1
  <2>4. HeadWhen(cs, chain[k]) <= HeadWhen(cs, chain[i])
    BY <2>1, <2>3
  <2>5. HeadWhen(cs, chain[k]) \in Nat /\ HeadWhen(cs, chain[i]) \in Nat
    BY <2>1
  <2> HIDE DEF k
  <2> QED BY <2>2, <2>4, <2>5
<1> HIDE DEF k
<1> QED BY <1>4, <1>5, <1>6, <1>7

\* Link adds one object to the objects that a wheel indexes.
LEMMA LinkIndexes ==
  ASSUME NEW wh \in Wheels, NEW cs \in CallLists,
         NEW S \in SUBSET Objects, NEW o \in Objects \ S,
         Indexes(wh, cs, S)
  PROVE  /\ Link(wh, cs, o) \in Wheels
         /\ Indexes(Link(wh, cs, o), cs, S \cup {o})
<1>1. CASE cs[o] = <<>>
  BY <1>1 DEF Indexes, Link
<1>2. CASE cs[o] # <<>>
  <2> DEFINE w == HeadWhen(cs, o)
             t == Slot(w)
             k == ObjectPlace(wh[t], cs, w)
             c == InsertAt(wh[t], k, o)
             new == Link(wh, cs, o)
  <2>1. w \in Nat /\ t \in Slots
    BY <1>2, HeadWhenType
  <2>2. wh[t] \in Seq(Objects) /\ Len(wh[t]) \in Nat
    BY <2>1 DEF Wheels
  <2>3. ASSUME NEW i \in 1 .. Len(wh[t])
        PROVE  /\ wh[t][i] \in S
               /\ cs[wh[t][i]] # <<>>
               /\ HeadWhen(cs, wh[t][i]) \in Nat
               /\ Slot(HeadWhen(cs, wh[t][i])) = t
    <3>1. /\ wh[t][i] \in S
          /\ cs[wh[t][i]] # <<>>
          /\ Slot(HeadWhen(cs, wh[t][i])) = t
      BY <2>1 DEF Indexes
    <3> QED BY <3>1, HeadWhenType
  <2>4. \A i, j \in 1 .. Len(wh[t]) :
          i < j => /\ wh[t][i] # wh[t][j]
                   /\ HeadWhen(cs, wh[t][i]) <= HeadWhen(cs, wh[t][j])
    BY <2>1 DEF Indexes
  <2>5. /\ k \in 1 .. Len(wh[t]) + 1
        /\ \A i \in 1 .. Len(wh[t]) :
             /\ i < k => HeadWhen(cs, wh[t][i]) <= w
             /\ i >= k => w <= HeadWhen(cs, wh[t][i])
    BY <2>1, <2>2, <2>3, <2>4, ObjectPlaceFits
  <2>0. Slot(HeadWhen(cs, o)) = t /\ HeadWhen(cs, o) = w /\ o \in Objects
    OBVIOUS
  <2> HIDE DEF w, t, k
  <2>6. /\ c \in Seq(Objects)
        /\ Len(c) = Len(wh[t]) + 1
        /\ \A j \in 1 .. Len(wh[t]) + 1 :
             c[j] = IF j < k THEN wh[t][j] ELSE IF j = k THEN o ELSE wh[t][j - 1]
    <3> DEFINE ch == wh[t]
    <3>1. ch \in Seq(Objects) /\ k \in 1 .. Len(ch) + 1
      BY <2>2, <2>5
    <3> HIDE DEF ch
    <3>2. /\ InsertAt(ch, k, o) \in Seq(Objects)
          /\ Len(InsertAt(ch, k, o)) = Len(ch) + 1
          /\ \A j \in 1 .. Len(ch) + 1 :
               InsertAt(ch, k, o)[j] = IF j < k THEN ch[j]
                                       ELSE IF j = k THEN o ELSE ch[j - 1]
      BY <2>0, <3>1, InsertAtProperties
    <3> QED BY <3>2 DEF ch
  <2>7. new = [wh EXCEPT ![t] = c]
    BY <1>2 DEF Link, w, t, k
  <2>8. /\ new \in Wheels
        /\ new[t] = c
        /\ \A s \in Slots \ {t} : new[s] = wh[s]
    BY <2>1, <2>6, <2>7 DEF Wheels
  <2> HIDE DEF c, new
  \* Every element of the new chain is o at k, or an old one elsewhere.
  <2>10. ASSUME NEW i \in 1 .. Len(c)
         PROVE  \/ i = k /\ c[i] = o
                \/ i < k /\ i \in 1 .. Len(wh[t]) /\ c[i] = wh[t][i]
                \/ i > k /\ i - 1 \in 1 .. Len(wh[t]) /\ c[i] = wh[t][i - 1]
    BY <2>2, <2>5, <2>6
  <2>11. ASSUME NEW s \in Slots, NEW i \in 1 .. Len(new[s])
         PROVE  /\ new[s][i] \in S \cup {o}
                /\ cs[new[s][i]] # <<>>
                /\ Slot(HeadWhen(cs, new[s][i])) = s
    <3>1. CASE s # t
      BY <2>8, <3>1 DEF Indexes
    <3>2. CASE s = t
      <4>1. i \in 1 .. Len(c) /\ new[s][i] = c[i]
        BY <2>8, <3>2
      <4> QED BY ZenonT(60), <1>2, <2>3, <2>0, <2>10, <3>2, <4>1
    <3> QED BY <3>1, <3>2
  <2>12. ASSUME NEW s \in Slots, NEW i \in 1 .. Len(new[s]),
                NEW j \in 1 .. Len(new[s]), i < j
         PROVE  /\ new[s][i] # new[s][j]
                /\ HeadWhen(cs, new[s][i]) <= HeadWhen(cs, new[s][j])
    <3>1. CASE s # t
      BY <2>8, <2>12, <3>1 DEF Indexes
    <3>2. CASE s = t
      <4>1. i \in 1 .. Len(c) /\ j \in 1 .. Len(c) /\ new[s] = c
        BY <2>8, <3>2
      <4>2. ASSUME NEW m \in 1 .. Len(wh[t]) PROVE wh[t][m] # o
        BY <2>3, <4>2
      <4>3. CASE i = k
        <5>1. c[i] = o
          BY <2>10, <4>1, <4>3
        <5>2. j - 1 \in 1 .. Len(wh[t]) /\ j - 1 >= k
          BY <2>2, <2>5, <2>6, <2>12, <4>1, <4>3
        <5>3. c[j] = wh[t][j - 1]
          BY <2>2, <2>5, <2>6, <2>12, <4>1, <4>3
        <5> QED BY <2>5, <2>0, <4>1, <4>2, <5>1, <5>2, <5>3
      <4>4. CASE j = k
        <5>1. c[j] = o
          BY <2>10, <4>1, <4>4
        <5>2. i \in 1 .. Len(wh[t]) /\ c[i] = wh[t][i] /\ i < k
          BY <2>2, <2>5, <2>6, <2>12, <4>1, <4>4
        <5> QED BY <2>5, <2>0, <4>1, <4>2, <5>1, <5>2
      <4>5. CASE i # k /\ j # k
        <5>1. PICK i2, j2 \in 1 .. Len(wh[t]) :
                c[i] = wh[t][i2] /\ c[j] = wh[t][j2] /\ i2 < j2
          <6>1. CASE j < k
            BY <2>2, <2>5, <2>6, <2>12, <4>1, <4>5, <6>1
          <6>2. CASE i < k /\ k < j
            <7>1. j - 1 \in 1 .. Len(wh[t]) /\ i < j - 1 /\ c[j] = wh[t][j - 1]
              BY <2>2, <2>5, <2>6, <2>12, <4>1, <4>5, <6>2
            <7>2. i \in 1 .. Len(wh[t]) /\ c[i] = wh[t][i]
              BY <2>2, <2>5, <2>6, <2>12, <4>1, <4>5, <6>2
            <7> QED BY <7>1, <7>2
          <6>3. CASE k < i
            <7>1. j - 1 \in 1 .. Len(wh[t]) /\ i - 1 < j - 1 /\ c[j] = wh[t][j - 1]
              BY <2>2, <2>5, <2>6, <2>12, <4>1, <4>5, <6>3
            <7>2. i - 1 \in 1 .. Len(wh[t]) /\ c[i] = wh[t][i - 1]
              BY <2>2, <2>5, <2>6, <2>12, <4>1, <4>5, <6>3
            <7> QED BY <7>1, <7>2
          <6> QED BY <2>2, <2>5, <2>6, <2>12, <4>1, <4>5, <6>1, <6>2, <6>3
        <5> QED BY <2>4, <4>1, <5>1
      <4> QED BY <4>3, <4>4, <4>5
    <3> QED BY <3>1, <3>2
  <2>13. ASSUME NEW p \in S \cup {o}, cs[p] # <<>>
         PROVE  \E i \in 1 .. Len(new[Slot(HeadWhen(cs, p))]) :
                  new[Slot(HeadWhen(cs, p))][i] = p
    <3>1. CASE p = o
      <4>1. k \in 1 .. Len(c) /\ c[k] = o
        BY <2>2, <2>5, <2>6
      <4> QED BY <2>8, <2>0, <3>1, <4>1
    <3>2. CASE p \in S
      <4> DEFINE s == Slot(HeadWhen(cs, p))
      <4>1. s \in Slots
        BY <2>13, <3>2, HeadWhenType
      <4>2. PICK i \in 1 .. Len(wh[s]) : wh[s][i] = p
        BY <2>13, <3>2 DEF Indexes
      <4> HIDE DEF s
      <4>3. CASE s # t
        BY <2>8, <4>1, <4>2, <4>3 DEF s
      <4>4. CASE s = t
        <5>1. CASE i < k
          <6>1. i \in 1 .. Len(c) /\ c[i] = p
            BY <2>2, <2>5, <2>6, <4>2, <4>4, <5>1
          <6> QED BY <2>8, <4>4, <6>1 DEF s
        <5>2. CASE i >= k
          <6>0. /\ i + 1 \in 1 .. Len(wh[t]) + 1
                /\ ~(i + 1 < k) /\ i + 1 # k /\ (i + 1) - 1 = i
            BY <2>2, <2>5, <4>4, <5>2
          <6>1. i + 1 \in 1 .. Len(c) /\ c[i + 1] = p
            BY <2>6, <4>2, <4>4, <6>0
          <6> QED BY <2>8, <4>4, <6>1 DEF s
        <5> QED BY <2>2, <2>5, <4>4, <5>1, <5>2
      <4> QED BY <4>3, <4>4
    <3> QED BY <3>1, <3>2
  <2> QED BY <2>8, <2>11, <2>12, <2>13 DEF new, Indexes
<1> QED BY <1>1, <1>2

\* Indexes depends on the due times of the first calls only.
LEMMA IndexesFrame ==
  ASSUME NEW wh \in Wheels, NEW cs \in CallLists, NEW ds \in CallLists,
         NEW S \in SUBSET Objects,
         \A p \in S : /\ ds[p] = <<>> <=> cs[p] = <<>>
                      /\ cs[p] # <<>> => HeadWhen(ds, p) = HeadWhen(cs, p),
         Indexes(wh, cs, S)
  PROVE  Indexes(wh, ds, S)
<1>1. ASSUME NEW s \in Slots, NEW i \in 1 .. Len(wh[s])
      PROVE  /\ wh[s][i] \in S
             /\ ds[wh[s][i]] # <<>>
             /\ HeadWhen(ds, wh[s][i]) = HeadWhen(cs, wh[s][i])
             /\ Slot(HeadWhen(ds, wh[s][i])) = s
  BY DEF Indexes
<1>2. ASSUME NEW s \in Slots, NEW i \in 1 .. Len(wh[s]),
             NEW j \in 1 .. Len(wh[s]), i < j
      PROVE  /\ wh[s][i] # wh[s][j]
             /\ HeadWhen(ds, wh[s][i]) <= HeadWhen(ds, wh[s][j])
  BY <1>1, <1>2 DEF Indexes
<1>3. ASSUME NEW p \in S, ds[p] # <<>>
      PROVE  \E i \in 1 .. Len(wh[Slot(HeadWhen(ds, p))]) :
               wh[Slot(HeadWhen(ds, p))][i] = p
  <2>1. cs[p] # <<>> /\ HeadWhen(ds, p) = HeadWhen(cs, p)
    BY <1>3
  <2> QED BY <2>1 DEF Indexes
<1> QED BY <1>1, <1>2, <1>3 DEF Indexes

\* Every call of a list has a due time.
LEMMA CallWhenType ==
  ASSUME NEW list \in Seq(Call), NEW i \in 1 .. Len(list)
  PROVE  list[i] \in Call /\ list[i].when \in Nat
<1>1. list[i] \in Call
  BY ElementOfSeq
<1> QED BY <1>1 DEF Call

\* The place found for a new call in a sorted list keeps it sorted.
LEMMA CallPlaceFits ==
  ASSUME NEW list \in Seq(Call), Sorted(list), NEW w \in Nat
  PROVE  /\ CallPlace(list, w) \in 1 .. Len(list) + 1
         /\ \A i \in 1 .. Len(list) :
              /\ i < CallPlace(list, w) => list[i].when <= w
              /\ i >= CallPlace(list, w) => w <= list[i].when
<1> DEFINE P == {i \in 1 .. Len(list) : list[i].when >= w}
                  \cup {Len(list) + 1}
           k == Min(P)
<1>1. Len(list) \in Nat
  OBVIOUS
<1>0. \A i \in 1 .. Len(list) : list[i].when \in Nat
  BY CallWhenType
<1>2. P \in SUBSET Nat /\ P # {}
  BY <1>1
<1>3. k \in P /\ \A y \in P : k <= y
  BY <1>2, MinIsLeast
<1>4. CallPlace(list, w) = k
  BY DEF CallPlace
<1>5. k \in 1 .. Len(list) + 1
  BY <1>1, <1>3
<1>6. ASSUME NEW i \in 1 .. Len(list), i < k
      PROVE  list[i].when <= w
  <2>1. i \notin P
    BY <1>1, <1>3, <1>5, <1>6
  <2>2. ~(list[i].when >= w)
    BY <2>1
  <2> QED BY <1>0, <2>2
<1>7. ASSUME NEW i \in 1 .. Len(list), i >= k
      PROVE  w <= list[i].when
  <2>1. k \in 1 .. Len(list)
    BY <1>1, <1>5, <1>7
  <2>2. list[k].when >= w
    BY <1>1, <1>3, <2>1
  <2>3. i = k \/ k < i
    BY <1>1, <1>7, <2>1
  <2>4. list[k].when <= list[i].when
    <3> HIDE DEF k
    <3>1. CASE i = k
      BY <1>0, <3>1
    <3>2. CASE k < i
      BY <2>1, <3>2 DEF Sorted
    <3> QED BY <2>3, <3>1, <3>2
  <2>5. list[k].when \in Nat /\ list[i].when \in Nat
    BY <1>0, <2>1
  <2> HIDE DEF k
  <2> QED BY <2>2, <2>4, <2>5
<1> HIDE DEF k
<1> QED BY <1>4, <1>5, <1>6, <1>7

\* insert_call_out() keeps a list sorted, and adds nothing but the new call.
LEMMA InsertCallSorted ==
  ASSUME NEW list \in Seq(Call), Sorted(list), NEW c \in Call
  PROVE  /\ InsertCall(list, c) \in Seq(Call)
         /\ InsertCall(list, c) # <<>>
         /\ Sorted(InsertCall(list, c))
         /\ \A w \in Nat : NoneBefore(list, w) /\ c.when >= w =>
                           NoneBefore(InsertCall(list, c), w)
<1> DEFINE k == CallPlace(list, c.when)
           new == InsertCall(list, c)
<1>1. Len(list) \in Nat /\ c.when \in Nat
  BY DEF Call
<1>2. \A i \in 1 .. Len(list) : list[i].when \in Nat
  BY CallWhenType
<1>3. /\ k \in 1 .. Len(list) + 1
      /\ \A i \in 1 .. Len(list) :
           /\ i < k => list[i].when <= c.when
           /\ i >= k => c.when <= list[i].when
  BY <1>1, CallPlaceFits
<1> HIDE DEF k
<1>4. /\ new \in Seq(Call)
      /\ Len(new) = Len(list) + 1
      /\ \A j \in 1 .. Len(list) + 1 :
           new[j] = IF j < k THEN list[j] ELSE IF j = k THEN c ELSE list[j - 1]
  <2>1. new = InsertAt(list, k, c)
    BY DEF InsertCall, k
  <2> HIDE DEF new
  <2>2. /\ InsertAt(list, k, c) \in Seq(Call)
        /\ Len(InsertAt(list, k, c)) = Len(list) + 1
        /\ \A j \in 1 .. Len(list) + 1 :
             InsertAt(list, k, c)[j] = IF j < k THEN list[j]
                                       ELSE IF j = k THEN c ELSE list[j - 1]
    BY <1>3, InsertAtProperties
  <2> QED BY <2>1, <2>2
<1> HIDE DEF new
<1>5. ASSUME NEW i \in 1 .. Len(new)
      PROVE  \/ i < k /\ i \in 1 .. Len(list) /\ new[i] = list[i]
             \/ i = k /\ new[i] = c
             \/ i > k /\ i - 1 \in 1 .. Len(list) /\ new[i] = list[i - 1]
  <2>1. CASE i < k
    BY <1>1, <1>3, <1>4, <2>1
  <2>2. CASE i = k
    BY <1>1, <1>3, <1>4, <2>2
  <2>3. CASE i > k
    BY <1>1, <1>3, <1>4, <2>3
  <2> QED BY <1>1, <1>3, <1>4, <2>1, <2>2, <2>3
<1>6. ASSUME NEW i \in 1 .. Len(new), NEW j \in 1 .. Len(new), i < j
      PROVE  new[i].when <= new[j].when
  <2>1. CASE i = k
    <3>1. j - 1 \in 1 .. Len(list) /\ j - 1 >= k /\ new[j] = list[j - 1]
      BY <1>1, <1>3, <1>4, <1>5, <1>6, <2>1
    <3>2. new[i] = c
      BY <1>3, <1>5, <2>1
    <3> QED BY <1>3, <3>1, <3>2
  <2>2. CASE j = k
    <3>1. i \in 1 .. Len(list) /\ i < k /\ new[i] = list[i]
      BY <1>1, <1>3, <1>4, <1>5, <1>6, <2>2
    <3>2. new[j] = c
      BY <1>3, <1>5, <2>2
    <3> QED BY <1>3, <3>1, <3>2
  <2>3. CASE i < k /\ j < k
    <3>1. i \in 1 .. Len(list) /\ new[i] = list[i]
      BY <1>3, <1>4, <1>5, <2>3
    <3>2. j \in 1 .. Len(list) /\ new[j] = list[j]
      BY <1>3, <1>4, <1>5, <2>3
    <3> QED BY <1>6, <3>1, <3>2 DEF Sorted
  <2>4. CASE i < k /\ k < j
    <3>1. i \in 1 .. Len(list) /\ new[i] = list[i]
      BY <1>3, <1>4, <1>5, <2>4
    <3>2. j - 1 \in 1 .. Len(list) /\ new[j] = list[j - 1] /\ i < j - 1
      BY <1>3, <1>4, <1>5, <2>4
    <3> QED BY <3>1, <3>2 DEF Sorted
  <2>5. CASE k < i /\ k < j
    <3>1. i - 1 \in 1 .. Len(list) /\ new[i] = list[i - 1]
      BY <1>3, <1>4, <1>5, <2>5
    <3>2. j - 1 \in 1 .. Len(list) /\ new[j] = list[j - 1] /\ i - 1 < j - 1
      BY <1>3, <1>4, <1>5, <1>6, <2>5
    <3> QED BY <3>1, <3>2 DEF Sorted
  <2> QED BY <1>1, <1>3, <1>4, <1>6, <2>1, <2>2, <2>3, <2>4, <2>5
<1>7. ASSUME NEW w \in Nat, NoneBefore(list, w), c.when >= w,
             NEW i \in 1 .. Len(new)
      PROVE  new[i].when >= w
  BY <1>5, <1>7 DEF NoneBefore
<1>8. new # <<>>
  BY <1>1, <1>4
<1> QED BY <1>4, <1>6, <1>7, <1>8 DEF new, Sorted, NoneBefore

\* Removing a call keeps a list sorted.
LEMMA RemoveCallSorted ==
  ASSUME NEW list \in Seq(Call), Sorted(list), NEW k \in 1 .. Len(list)
  PROVE  /\ RemoveAt(list, k) \in Seq(Call)
         /\ Sorted(RemoveAt(list, k))
         /\ \A w \in Nat : NoneBefore(list, w) => NoneBefore(RemoveAt(list, k), w)
<1> DEFINE new == RemoveAt(list, k)
<1>1. /\ new \in Seq(Call)
      /\ Len(new) = Len(list) - 1
      /\ \A j \in 1 .. Len(list) - 1 :
           new[j] = IF j < k THEN list[j] ELSE list[j + 1]
  BY RemoveAtProperties
<1>2. Len(list) \in Nat
  OBVIOUS
<1> HIDE DEF new
<1>3. ASSUME NEW i \in 1 .. Len(new)
      PROVE  \/ i < k /\ i \in 1 .. Len(list) /\ new[i] = list[i]
             \/ i >= k /\ i + 1 \in 1 .. Len(list) /\ new[i] = list[i + 1]
  BY <1>1, <1>2
<1>4. ASSUME NEW i \in 1 .. Len(new), NEW j \in 1 .. Len(new), i < j
      PROVE  new[i].when <= new[j].when
  <2>1. PICK i2, j2 \in 1 .. Len(list) :
          new[i] = list[i2] /\ new[j] = list[j2] /\ i2 < j2
    <3>1. CASE j < k
      BY SMTT(60), <1>1, <1>2, <1>3, <1>4, <3>1
    <3>2. CASE i < k /\ j >= k
      <4>1. i \in 1 .. Len(list) /\ new[i] = list[i]
        BY <1>3, <3>2
      <4>2. j + 1 \in 1 .. Len(list) /\ new[j] = list[j + 1] /\ i < j + 1
        BY <1>1, <1>2, <1>3, <1>4, <3>2
      <4> QED BY <4>1, <4>2
    <3>3. CASE i >= k
      <4>1. i + 1 \in 1 .. Len(list) /\ new[i] = list[i + 1]
        BY <1>1, <1>2, <1>3, <3>3
      <4>2. j + 1 \in 1 .. Len(list) /\ new[j] = list[j + 1] /\ i + 1 < j + 1
        BY <1>1, <1>2, <1>3, <1>4, <3>3
      <4> QED BY <4>1, <4>2
    <3> QED BY <1>1, <1>2, <1>4, <3>1, <3>2, <3>3
  <2> QED BY <2>1 DEF Sorted
<1>5. ASSUME NEW w \in Nat, NoneBefore(list, w), NEW i \in 1 .. Len(new)
      PROVE  new[i].when >= w
  BY <1>3, <1>5 DEF NoneBefore
<1> QED BY <1>1, <1>4, <1>5 DEF new, Sorted, NoneBefore

\* So does taking the first call off.
LEMMA TailSorted ==
  ASSUME NEW list \in Seq(Call), Sorted(list), list # <<>>
  PROVE  /\ Tail(list) \in Seq(Call)
         /\ Sorted(Tail(list))
         /\ \A w \in Nat : NoneBefore(list, w) => NoneBefore(Tail(list), w)
<1> DEFINE new == Tail(list)
<1>1. /\ new \in Seq(Call)
      /\ Len(new) = Len(list) - 1
      /\ \A j \in 1 .. Len(new) : new[j] = list[j + 1]
  BY HeadTailProperties
<1>2. Len(list) \in Nat
  OBVIOUS
<1> HIDE DEF new
<1>3. ASSUME NEW i \in 1 .. Len(new)
      PROVE  i + 1 \in 1 .. Len(list) /\ new[i] = list[i + 1]
  BY <1>1, <1>2
<1>4. ASSUME NEW i \in 1 .. Len(new), NEW j \in 1 .. Len(new), i < j
      PROVE  new[i].when <= new[j].when
  <2>1. i + 1 < j + 1
    BY <1>4
  <2> QED BY <1>3, <2>1 DEF Sorted
<1>5. ASSUME NEW w \in Nat, NoneBefore(list, w), NEW i \in 1 .. Len(new)
      PROVE  new[i].when >= w
  BY <1>3, <1>5 DEF NoneBefore
<1> QED BY <1>1, <1>4, <1>5 DEF new, Sorted, NoneBefore

-----------------------------------------------------------------------------
(* The inductive invariant *)

\* WheelConsistent and NoneBehind need each other: a call can only be left
\* behind by the walk if its object hangs in the wrong slot or its slot is
\* not sorted.
IInv == TypeOK /\ WheelConsistent /\ NoneBehind /\ NoFatal

\* Under the invariant no object is lost: the searches of call_out.c succeed.
LEMMA NeverLost ==
  ASSUME IInv, NEW o \in Objects
  PROVE  ~Lost(o)
<1> SUFFICES ASSUME calls[o] # <<>>
             PROVE  o \in ToSet(wheel[Slot(HeadWhen(calls, o))])
  BY DEF Lost
<1>1. calls \in CallLists /\ wheel \in Wheels
  BY DEF IInv, TypeOK, CallLists, Wheels
<1> DEFINE chain == wheel[Slot(HeadWhen(calls, o))]
<1>2. chain \in Seq(Objects)
  BY <1>1, HeadWhenType DEF Wheels
<1>3. PICK i \in 1 .. Len(chain) : chain[i] = o
  BY DEF IInv, WheelConsistent, Indexes
<1> HIDE DEF chain
<1>4. i \in DOMAIN chain
  BY <1>2, <1>3
<1> QED BY <1>3, <1>4 DEF ToSet, chain

\* Replacing one object's list by a sorted one, and moving the object to the
\* slot of its new first call, keeps the queue consistent.
LEMMA SetCallsKeeps ==
  ASSUME IInv, NEW o \in Objects, NEW list \in Seq(Call),
         Sorted(list), NoneBefore(list, last),
         SetCalls(o, list), UNCHANGED <<alarm_time, last>>
  PROVE  /\ calls' \in CallLists
         /\ wheel' \in Wheels
         /\ WheelConsistent'
         /\ NoneBehind'
<1>1. calls \in CallLists /\ wheel \in Wheels
  BY DEF IInv, TypeOK, CallLists, Wheels
<1>2. /\ calls' \in CallLists
      /\ calls'[o] = list
      /\ \A p \in Objects \ {o} : calls'[p] = calls[p]
  BY <1>1 DEF SetCalls, CallLists
<1>3. Indexes(wheel, calls, Objects)
  BY DEF IInv, WheelConsistent
<1>4. wheel' \in Wheels /\ Indexes(wheel', calls', Objects)
  <2>1. CASE SameHead(calls[o], list)
    <3>1. wheel' = wheel
      BY <2>1 DEF SetCalls
    <3>2. ASSUME NEW p \in Objects
          PROVE  /\ calls'[p] = <<>> <=> calls[p] = <<>>
                 /\ calls[p] # <<>> => HeadWhen(calls', p) = HeadWhen(calls, p)
      <4>1. CASE p = o
        BY <1>2, <2>1, <4>1 DEF SameHead, HeadWhen
      <4>2. CASE p # o
        BY <1>2, <4>2 DEF HeadWhen
      <4> QED BY <4>1, <4>2
    <3> QED BY <1>1, <1>2, <1>3, <3>1, <3>2, IndexesFrame
  <2>2. CASE ~SameHead(calls[o], list)
    <3> DEFINE out == Unlink(wheel, calls, o)
               S == Objects \ {o}
    <3>1. wheel' = Link(out, calls', o)
      BY <2>2 DEF SetCalls
    <3>2. out \in Wheels /\ Indexes(out, calls, S)
      BY <1>1, <1>3, UnlinkIndexes
    <3> HIDE DEF out
    <3>3. \A p \in S : /\ calls'[p] = <<>> <=> calls[p] = <<>>
                        /\ calls[p] # <<>> => HeadWhen(calls', p) = HeadWhen(calls, p)
      BY <1>2 DEF HeadWhen
    <3>4. S \in SUBSET Objects /\ o \in Objects \ S /\ S \cup {o} = Objects
      OBVIOUS
    <3> HIDE DEF S
    <3>5. Indexes(out, calls', S)
      BY <1>1, <1>2, <3>2, <3>3, <3>4, IndexesFrame
    <3>6. /\ Link(out, calls', o) \in Wheels
          /\ Indexes(Link(out, calls', o), calls', S \cup {o})
      BY <1>2, <3>2, <3>4, <3>5, LinkIndexes
    <3> QED BY <3>1, <3>4, <3>6
  <2> QED BY <2>1, <2>2
<1>5. \A p \in Objects : Sorted(calls'[p]) /\ NoneBefore(calls'[p], last)
  BY <1>2 DEF IInv, WheelConsistent, NoneBehind
<1>6. last' = last /\ alarm_time' = alarm_time
  OBVIOUS
<1>7. last <= alarm_time + 1
  BY DEF IInv, NoneBehind
<1> QED BY <1>2, <1>4, <1>5, <1>6, <1>7 DEF WheelConsistent, NoneBehind

\* call_out_swap_objects() keeps the queue consistent.
LEMMA SwapKeeps ==
  ASSUME IInv, NEW o1 \in Objects, NEW o2 \in Objects, o1 # o2,
         call_out_swap_objects(o1, o2), UNCHANGED <<alarm_time, last>>
  PROVE  /\ calls' \in CallLists
         /\ wheel' \in Wheels
         /\ WheelConsistent'
         /\ NoneBehind'
<1>1. calls \in CallLists /\ wheel \in Wheels
  BY DEF IInv, TypeOK, CallLists, Wheels
<1>2. /\ calls' \in CallLists
      /\ calls'[o1] = calls[o2]
      /\ calls'[o2] = calls[o1]
      /\ \A p \in Objects \ {o1, o2} : calls'[p] = calls[p]
  BY <1>1 DEF call_out_swap_objects, CallLists
<1>3. Indexes(wheel, calls, Objects)
  BY DEF IInv, WheelConsistent
<1> DEFINE w1 == Unlink(wheel, calls, o1)
           w2 == Unlink(w1, calls, o2)
           w3 == Link(w2, calls', o1)
           w4 == Link(w3, calls', o2)
           S == (Objects \ {o1}) \ {o2}
<1>4. wheel' = w4
  BY DEF call_out_swap_objects
<1>5. w1 \in Wheels /\ Indexes(w1, calls, Objects \ {o1})
  BY <1>1, <1>3, UnlinkIndexes
<1> HIDE DEF w1
<1>6. w2 \in Wheels /\ Indexes(w2, calls, S)
  BY <1>1, <1>5, UnlinkIndexes
<1> HIDE DEF w2
<1>7. \A p \in S : /\ calls'[p] = <<>> <=> calls[p] = <<>>
                    /\ calls[p] # <<>> => HeadWhen(calls', p) = HeadWhen(calls, p)
  BY <1>2 DEF HeadWhen
<1>8. /\ S \in SUBSET Objects
      /\ o1 \in Objects \ S
      /\ S \cup {o1} \in SUBSET Objects
      /\ o2 \in Objects \ (S \cup {o1})
      /\ (S \cup {o1}) \cup {o2} = Objects
  OBVIOUS
<1> HIDE DEF S
<1>9. Indexes(w2, calls', S)
  BY <1>1, <1>2, <1>6, <1>7, <1>8, IndexesFrame
<1>10. w3 \in Wheels /\ Indexes(w3, calls', S \cup {o1})
  BY <1>2, <1>6, <1>8, <1>9, LinkIndexes
<1> HIDE DEF w3
<1>11. w4 \in Wheels /\ Indexes(w4, calls', (S \cup {o1}) \cup {o2})
  BY <1>2, <1>8, <1>10, LinkIndexes
<1> HIDE DEF w4
<1>12. \A p \in Objects : Sorted(calls'[p]) /\ NoneBefore(calls'[p], last)
  <2>1. \A p \in Objects : Sorted(calls[p]) /\ NoneBefore(calls[p], last)
    BY DEF IInv, WheelConsistent, NoneBehind
  <2> QED BY <1>2, <2>1
<1>13. last' = last /\ alarm_time' = alarm_time /\ last <= alarm_time + 1
  BY DEF IInv, NoneBehind
<1> QED BY <1>2, <1>4, <1>8, <1>11, <1>12, <1>13 DEF WheelConsistent, NoneBehind

\* The sleep computed by next_call_out() is at most the horizon.
LEMMA SleepType ==
  ASSUME IInv
  PROVE  next_call_out \in 0 .. HORIZON
<1>1. /\ HORIZON \in Nat /\ NUM_SLOTS \in Nat /\ NUM_SLOTS > 0
      /\ alarm_time \in Nat /\ last \in Nat
  BY SlotsAssumption DEF IInv, TypeOK
<1>2. CASE Hits = {}
  BY <1>1, <1>2 DEF next_call_out
<1>3. CASE Hits # {}
  <2> DEFINE m == Min(Hits)
             t == Slot(last + m)
             w == HeadWhen(calls, wheel[t][1])
  <2>1. ScanLength \in Nat
    BY <1>1 DEF ScanLength
  <2>2. Hits \in SUBSET Nat
    BY <2>1 DEF Hits
  <2>3. m \in Hits
    BY <1>3, <2>2, MinIsLeast
  <2>6. next_call_out = IF w < alarm_time THEN 0 ELSE w - alarm_time
    BY <1>3 DEF next_call_out
  <2> HIDE DEF m
  <2>4. wheel[t] # <<>> /\ w - alarm_time < HORIZON
    BY <2>3 DEF Hits
  <2>5. w \in Nat
    <3>1. last + m \in Nat
      BY <1>1, <2>2, <2>3
    <3>2. t \in Slots
      BY <3>1, SlotType
    <3> HIDE DEF t
    <3>3. wheel[t] \in Seq(Objects) /\ wheel[t] # <<>>
      BY <2>4, <3>2 DEF IInv, TypeOK
    <3>4. 1 \in 1 .. Len(wheel[t]) /\ wheel[t][1] \in Objects
      BY <3>3
    <3>5. calls[wheel[t][1]] # <<>>
      BY <3>2, <3>4 DEF IInv, WheelConsistent, Indexes
    <3>6. calls \in CallLists
      BY DEF IInv, TypeOK, CallLists
    <3> QED BY <3>4, <3>5, <3>6, HeadWhenType
  <2> HIDE DEF w
  <2> QED BY <1>1, <2>4, <2>5, <2>6
<1> QED BY <1>2, <1>3

\* The lists and the wheel are empty at the start.
LEMMA InitIInv == Init => IInv
<1> SUFFICES ASSUME Init PROVE IInv
  OBVIOUS
<1>1. \A o \in Objects : calls[o] = <<>> /\ Len(calls[o]) = 0
  BY DEF Init
<1>2. \A s \in Slots : wheel[s] = <<>> /\ Len(wheel[s]) = 0
  BY DEF Init
<1>3. TypeOK
  <2>1. calls \in [Objects -> Seq(Call)]
    BY DEF Init
  <2>2. wheel \in [Slots -> Seq(Objects)]
    BY DEF Init
  <2>3. life \in [Objects -> Lives]
    BY DEF Init, Lives
  <2>4. tv \in 0 .. HORIZON
    BY SlotsAssumption DEF Init
  <2>5. alarm_time \in Nat /\ last \in Nat /\ call_id \in Nat \ {0} /\ num_call \in Int
    BY DEF Init
  <2>6. inhibit \in BOOLEAN /\ zombies \in SUBSET Objects /\ pc \in Phases
    BY DEF Init, Phases
  <2>7. current \in Current \cup {NoCurrent}
    BY DEF Init
  <2> QED BY <2>1, <2>2, <2>3, <2>4, <2>5, <2>6, <2>7 DEF TypeOK
<1>4. WheelConsistent
  BY <1>1, <1>2 DEF WheelConsistent, Indexes, Sorted
<1>5. NoneBehind
  BY <1>1 DEF Init, NoneBehind, NoneBefore
<1>6. NoFatal
  BY DEF Init, NoFatal
<1> QED BY <1>3, <1>4, <1>5, <1>6 DEF IInv

\* The parts of TypeOK that are not about the queue.
OtherTypes ==
  /\ alarm_time \in Nat
  /\ last \in Nat
  /\ call_id \in Nat \ {0}
  /\ num_call \in Int
  /\ inhibit \in BOOLEAN
  /\ life \in [Objects -> Lives]
  /\ zombies \in SUBSET Objects
  /\ current \in Current \cup {NoCurrent}
  /\ tv \in 0 .. HORIZON
  /\ pc \in Phases

\* A step that leaves the queue and the clock alone keeps it consistent.
LEMMA QueueUnchanged ==
  ASSUME IInv, UNCHANGED <<alarm_time, last, calls, wheel>>,
         OtherTypes', NoFatal'
  PROVE  IInv'
<1>1. TypeOK'
  BY DEF IInv, TypeOK, OtherTypes
<1>2. WheelConsistent'
  BY DEF IInv, WheelConsistent, Indexes, HeadWhen
<1>3. NoneBehind'
  BY DEF IInv, NoneBehind
<1> QED BY <1>1, <1>2, <1>3 DEF IInv

\* A step that changes the calls of one object in a sorted way.
LEMMA QueueChanged ==
  ASSUME IInv, NEW o \in Objects, NEW list \in Seq(Call),
         Sorted(list), NoneBefore(list, last),
         SetCalls(o, list), UNCHANGED <<alarm_time, last>>,
         OtherTypes', NoFatal'
  PROVE  IInv'
<1>1. /\ calls' \in CallLists
      /\ wheel' \in Wheels
      /\ WheelConsistent'
      /\ NoneBehind'
  BY SetCallsKeeps
<1>2. TypeOK'
  BY <1>1 DEF TypeOK, OtherTypes, CallLists, Wheels
<1> QED BY <1>1, <1>2 DEF IInv

\* What TypeOK says of one object's list.
LEMMA ListOf ==
  ASSUME IInv, NEW o \in Objects
  PROVE  /\ calls[o] \in Seq(Call)
         /\ Len(calls[o]) \in Nat
         /\ Sorted(calls[o])
         /\ NoneBefore(calls[o], last)
         /\ last \in Nat /\ alarm_time \in Nat
BY DEF IInv, TypeOK, WheelConsistent, NoneBehind

\* delete_all_calls() of any object.
LEMMA DeleteAllKeeps ==
  ASSUME IInv, NEW o \in Objects, NEW next \in Phases, next # "fatal",
         delete_all_calls(o, next),
         UNCHANGED <<alarm_time, last, call_id, inhibit, current,
                     tv>>,
         life' \in [Objects -> Lives], zombies' \in SUBSET Objects
  PROVE  IInv'
<1>1. <<>> \in Seq(Call) /\ Sorted(<<>>) /\ NoneBefore(<<>>, last)
  BY DEF Sorted, NoneBefore
<1>2. pc' = next
  BY NeverLost DEF delete_all_calls, After
<1>3. num_call' \in Int
  BY ListOf DEF delete_all_calls, IInv, TypeOK
<1>4. OtherTypes'
  BY <1>2, <1>3 DEF IInv, TypeOK, OtherTypes
<1>5. NoFatal'
  BY <1>2 DEF NoFatal
<1>6. SetCalls(o, <<>>)
  BY DEF delete_all_calls
<1> QED BY <1>1, <1>4, <1>5, <1>6, QueueChanged

\* delete_call() of a call that is in the list.
LEMMA DeleteCallKeeps ==
  ASSUME IInv, NEW o \in Objects, NEW i \in 1 .. Len(calls[o]),
         NEW next \in Phases, next # "fatal",
         delete_call(o, i, next),
         UNCHANGED <<alarm_time, last, call_id, inhibit, life, tv>>,
         zombies' \in SUBSET Objects, current' \in Current \cup {NoCurrent}
  PROVE  IInv'
<1> DEFINE list == RemoveAt(calls[o], i)
<1>1. list \in Seq(Call) /\ Sorted(list) /\ NoneBefore(list, last)
  BY ListOf, RemoveCallSorted
<1>2. pc' = next
  BY NeverLost DEF delete_call, After
<1>3. OtherTypes'
  BY <1>2 DEF IInv, TypeOK, OtherTypes, delete_call
<1>4. NoFatal'
  BY <1>2 DEF NoFatal
<1>5. SetCalls(o, list)
  BY DEF delete_call
<1> HIDE DEF list
<1> QED BY <1>1, <1>3, <1>4, <1>5, QueueChanged

\* The search for a call by its id finds a call of the list.
LEMMA CallsWithIdType ==
  ASSUME IInv, NEW o \in Objects, NEW id, CallsWithId(o, id) # {}
  PROVE  Min(CallsWithId(o, id)) \in 1 .. Len(calls[o])
<1>1. Len(calls[o]) \in Nat
  BY ListOf
<1>2. CallsWithId(o, id) \in SUBSET Nat
  BY <1>1 DEF CallsWithId
<1>3. Min(CallsWithId(o, id)) \in CallsWithId(o, id)
  BY <1>2, MinIsLeast
<1> QED BY <1>3 DEF CallsWithId

\* set_alarm() inserts a call that is due after the walk has passed.
LEMMA SetAlarmKeeps ==
  ASSUME IInv, NEW o \in Objects, NEW f \in Closures, NEW delay \in Int,
         NEW reload \in Int, SetAlarm(o, f, delay, reload)
  PROVE  IInv'
<1> DEFINE c == NewCall(delay, reload, f)
           list == InsertCall(calls[o], c)
<1>1. /\ alarm_time \in Nat /\ last \in Nat /\ call_id \in Nat
      /\ last <= alarm_time + 1
  BY DEF IInv, TypeOK, NoneBehind
<1>2. c \in Call /\ c.when >= last /\ c.when \in Nat
  BY <1>1 DEF NewCall, Call
<1> HIDE DEF c
<1>3. list \in Seq(Call) /\ Sorted(list) /\ NoneBefore(list, last)
  BY <1>1, <1>2, ListOf, InsertCallSorted
<1>4. /\ SetCalls(o, list)
      /\ call_id' = call_id + 1
      /\ num_call' = num_call + 1
      /\ pc' = IF c.when < last \/ (list[1] = c /\ Lost(o)) THEN "fatal" ELSE pc
      /\ UNCHANGED <<alarm_time, last, inhibit, life, zombies,
                     current, tv>>
  BY DEF SetAlarm, new_call_out, c
<1> HIDE DEF list
<1>5. pc' = pc
  BY <1>1, <1>2, <1>4, NeverLost
<1>6. OtherTypes'
  BY <1>4, <1>5 DEF IInv, TypeOK, OtherTypes
<1>7. NoFatal'
  BY <1>5 DEF IInv, NoFatal
<1> QED BY <1>3, <1>4, <1>6, <1>7, QueueChanged

\* What the invariant says of the object that is first in the slot at last.
LEMMA FirstInSlot ==
  ASSUME IInv, wheel[Slot(last)] # <<>>
  PROVE  /\ wheel[Slot(last)][1] \in Objects
         /\ calls[wheel[Slot(last)][1]] # <<>>
         /\ 1 \in 1 .. Len(wheel[Slot(last)])
         /\ Slot(last) \in Slots
<1>1. last \in Nat
  BY DEF IInv, TypeOK
<1>2. Slot(last) \in Slots
  BY <1>1, SlotType
<1>3. wheel[Slot(last)] \in Seq(Objects)
  BY <1>2 DEF IInv, TypeOK
<1>4. 1 \in 1 .. Len(wheel[Slot(last)]) /\ wheel[Slot(last)][1] \in Objects
  BY <1>3
<1>5. calls[wheel[Slot(last)][1]] # <<>>
  BY <1>2, <1>4 DEF IInv, WheelConsistent, Indexes
<1> QED BY <1>2, <1>4, <1>5

\* Firing a call: a repeating one is due again after the clock.
LEMMA FireCallKeeps ==
  ASSUME IInv, FireCall
  PROVE  IInv'
<1> DEFINE o == wheel[Slot(last)][1]
           c == calls[o][1]
           rest == Tail(calls[o])
           again == Rescheduled(c)
           list == IF c.reload > 0 THEN InsertCall(rest, again) ELSE rest
<1>1. wheel[Slot(last)] # <<>> /\ last <= alarm_time
  BY DEF FireCall, Due
<1>2. o \in Objects /\ calls[o] # <<>>
  BY <1>1, FirstInSlot
<1>3. /\ SetCalls(o, list)
      /\ num_call' = IF c.reload > 0 THEN num_call ELSE num_call - 1
      /\ current' = [ob |-> o, id |-> IF c.reload > 0 THEN c.id ELSE 0]
      /\ pc' = IF c.reload > 0 /\ again.when < last THEN "fatal"
               ELSE IF Destructed(c.fun) THEN "failed" ELSE "lpc"
      /\ zombies' = {}
      /\ UNCHANGED <<alarm_time, last, call_id, inhibit, life, tv>>
  BY DEF FireCall
<1>4. c \in Call
  BY <1>2, HeadWhenType DEF IInv, TypeOK, CallLists
<1> HIDE DEF o, c
<1>5. c.when \in Nat /\ c.reload \in Nat /\ c.id \in Nat
  BY <1>4 DEF Call
<1>6. alarm_time \in Nat /\ last \in Nat
  BY DEF IInv, TypeOK
<1>7. again \in Call /\ again.when = alarm_time + c.reload
  BY <1>4, <1>5, <1>6 DEF Rescheduled, Call
<1>8. rest \in Seq(Call) /\ Sorted(rest) /\ NoneBefore(rest, last)
  BY <1>2, <1>6, ListOf, TailSorted
<1> HIDE DEF again, rest
<1>9. c.reload > 0 => again.when >= last
  BY <1>1, <1>5, <1>6, <1>7
<1>10. list \in Seq(Call) /\ Sorted(list) /\ NoneBefore(list, last)
  <2>1. CASE c.reload > 0
    BY <1>6, <1>7, <1>8, <1>9, <2>1, InsertCallSorted
  <2>2. CASE ~(c.reload > 0)
    BY <1>8, <2>2
  <2> QED BY <2>1, <2>2
<1> HIDE DEF list
<1>11. pc' \in {"failed", "lpc"}
  <2>1. c.reload > 0 => ~(again.when < last)
    BY <1>5, <1>6, <1>7, <1>9
  <2> QED BY <1>3, <2>1
<1>12. current' \in Current \cup {NoCurrent}
  BY <1>2, <1>3, <1>5 DEF Current
<1>14. num_call' \in Int
  BY <1>3 DEF IInv, TypeOK
<1>15. OtherTypes'
  BY <1>3, <1>11, <1>12, <1>14 DEF IInv, TypeOK, OtherTypes, Phases
<1>16. NoFatal'
  BY <1>11 DEF NoFatal
<1> QED BY <1>2, <1>3, <1>10, <1>15, <1>16, QueueChanged

\* The walk goes past a slot only when nothing is due in it.
LEMMA ScanNextKeeps ==
  ASSUME IInv, ScanNext
  PROVE  IInv'
<1>1. /\ last \in Nat /\ alarm_time \in Nat
      /\ calls \in CallLists
      /\ Slot(last) \in Slots
  BY SlotType DEF IInv, TypeOK, CallLists
<1>2. last' = last + 1 /\ UNCHANGED <<alarm_time, calls, wheel>>
  BY DEF ScanNext
<1>3. last <= alarm_time /\ ~Due
  BY DEF ScanNext
<1>4. ASSUME NEW o \in Objects, calls[o] # <<>>, HeadWhen(calls, o) = last
      PROVE  FALSE
  <2> DEFINE chain == wheel[Slot(last)]
  <2>1. PICK i \in 1 .. Len(chain) : chain[i] = o
    BY <1>4 DEF IInv, WheelConsistent, Indexes
  <2>2. chain \in Seq(Objects)
    BY <1>1 DEF IInv, TypeOK
  <2>3. chain # <<>>
    BY <2>1, <2>2
  <2>4. /\ chain[1] \in Objects
        /\ calls[chain[1]] # <<>>
        /\ 1 \in 1 .. Len(chain)
    BY <2>3, FirstInSlot
  <2>5. HeadWhen(calls, chain[1]) \in Nat
    BY <1>1, <2>4, HeadWhenType
  <2>6. 1 = i \/ 1 < i
    BY <2>1, <2>2
  <2>7. HeadWhen(calls, chain[1]) <= HeadWhen(calls, chain[i])
    <3>1. CASE 1 = i
      BY <2>5, <3>1
    <3>2. CASE 1 < i
      BY <1>1, <2>1, <2>4, <3>2 DEF IInv, WheelConsistent, Indexes
    <3> QED BY <2>6, <3>1, <3>2
  <2>8. HeadWhen(calls, chain[1]) <= last
    BY <1>4, <2>1, <2>7
  <2> QED BY <1>3, <2>3, <2>8 DEF Due
<1>5. ASSUME NEW o \in Objects PROVE NoneBefore(calls[o], last + 1)
  <2> SUFFICES ASSUME NEW i \in 1 .. Len(calls[o])
               PROVE  calls[o][i].when >= last + 1
    BY DEF NoneBefore
  <2>1. calls[o] \in Seq(Call) /\ Sorted(calls[o]) /\ NoneBefore(calls[o], last)
    BY ListOf
  <2>2. calls[o] # <<>>
    BY <2>1
  <2>3. 1 \in 1 .. Len(calls[o])
    BY <1>1, <2>2, HeadWhenType
  <2>4. HeadWhen(calls, o) = calls[o][1].when
    BY DEF HeadWhen
  <2>5. HeadWhen(calls, o) \in Nat /\ HeadWhen(calls, o) >= last
    BY <1>1, <2>1, <2>2, <2>3, <2>4, HeadWhenType DEF NoneBefore
  <2>6. HeadWhen(calls, o) # last
    BY <1>4, <2>2
  <2>7. calls[o][1].when >= last + 1
    BY <1>1, <2>4, <2>5, <2>6
  <2>8. calls[o][i].when \in Nat
    BY <2>1, CallWhenType
  <2>9. i = 1 \/ 1 < i
    BY <2>1
  <2>10. calls[o][1].when <= calls[o][i].when
    <3>1. CASE i = 1
      BY <2>8, <3>1
    <3>2. CASE 1 < i
      BY <2>1, <2>3, <3>2 DEF Sorted
    <3> QED BY <2>9, <3>1, <3>2
  <2> QED BY <1>1, <2>4, <2>5, <2>7, <2>8, <2>10
<1>6. NoneBehind'
  <2>1. \A o \in Objects : NoneBefore(calls'[o], last')
    BY <1>2, <1>5
  <2>2. last' <= alarm_time' + 1
    BY <1>1, <1>2, <1>3
  <2> QED BY <2>1, <2>2 DEF NoneBehind
<1>7. WheelConsistent'
  BY <1>2 DEF IInv, WheelConsistent, Indexes, HeadWhen
<1>8. TypeOK'
  BY <1>1, <1>2 DEF IInv, TypeOK, ScanNext
<1>9. NoFatal'
  BY DEF ScanNext, IInv, NoFatal
<1> QED BY <1>6, <1>7, <1>8, <1>9 DEF IInv

\* Every step keeps the invariant.
LEMMA NextIInv == IInv /\ [Next]_vars => IInv'
<1> SUFFICES ASSUME IInv, [Next]_vars PROVE IInv'
  OBVIOUS
<1> USE DEF queue
<1>0. TypeOK /\ OtherTypes /\ NoFatal /\ alarm_time \in Nat
  BY DEF IInv, TypeOK, OtherTypes
<1>1. CASE BackendTop
  <2>1. alarm_time' \in Nat /\ alarm_time <= alarm_time'
    BY <1>0, <1>1, BoundAssumption DEF BackendTop
  <2>2. TypeOK'
    BY <1>0, <1>1, <2>1 DEF BackendTop, TypeOK, Phases
  <2>3. WheelConsistent'
    BY <1>1 DEF BackendTop, IInv, WheelConsistent, Indexes, HeadWhen
  <2>4. NoneBehind'
    <3>1. last' <= alarm_time' + 1
      BY <1>0, <1>1, <2>1 DEF BackendTop, IInv, NoneBehind, TypeOK
    <3> QED BY <1>1, <3>1 DEF BackendTop, IInv, NoneBehind
  <2>5. NoFatal'
    BY <1>1 DEF BackendTop, NoFatal
  <2> QED BY <2>2, <2>3, <2>4, <2>5 DEF IInv
<1>2. CASE DeliverSignals
  <2>1. OtherTypes' /\ NoFatal'
    BY <1>0, <1>2 DEF DeliverSignals, OtherTypes, NoFatal, Phases
  <2> QED BY <1>2, <2>1, QueueUnchanged DEF DeliverSignals
<1>3. CASE CallOutEnter
  <2>1. tv' \in 0 .. HORIZON
    BY <1>3, SleepType, SlotsAssumption DEF CallOutEnter
  <2>2. OtherTypes' /\ NoFatal'
    BY <1>0, <1>3, <2>1
    DEF CallOutEnter, OtherTypes, NoFatal, Phases
  <2> QED BY <1>3, <2>2, QueueUnchanged DEF CallOutEnter
<1>4. CASE FireCall
  BY <1>4, FireCallKeeps
<1>5. CASE ScanNext
  BY <1>5, ScanNextKeeps
<1>6. CASE ScanDone
  <2>1. OtherTypes' /\ NoFatal'
    BY <1>0, <1>6, SleepType DEF ScanDone, OtherTypes, NoFatal, Phases
  <2> QED BY <1>6, <2>1, QueueUnchanged DEF ScanDone
<1>7. CASE CallOutReturn
  <2>1. OtherTypes' /\ NoFatal'
    BY <1>0, <1>7 DEF CallOutReturn, OtherTypes, NoFatal, Phases
  <2> QED BY <1>7, <2>1, QueueUnchanged DEF CallOutReturn
<1>8. CASE CallOutError
  <2>1. /\ zombies' \in SUBSET Objects
        /\ current' \in Current \cup {NoCurrent}
        /\ UNCHANGED <<alarm_time, last, call_id, inhibit, life, tv>>
    BY <1>8 DEF CallOutError
  <2>2. CASE current.id # 0 /\ CallsWithId(current.ob, current.id) # {}
    <3>1. current.ob \in Objects
      BY <1>0, <2>2 DEF TypeOK, Current, NoCurrent
    <3>2. delete_call(current.ob, Min(CallsWithId(current.ob, current.id)), "scan")
      BY <1>8, <2>2 DEF CallOutError
    <3>3. "scan" \in Phases /\ "scan" # "fatal"
      BY DEF Phases
    <3>4. Min(CallsWithId(current.ob, current.id)) \in 1 .. Len(calls[current.ob])
      BY <2>2, <3>1, CallsWithIdType
    <3> QED BY <2>1, <3>1, <3>2, <3>3, <3>4, DeleteCallKeeps
  <2>3. CASE ~(current.id # 0 /\ CallsWithId(current.ob, current.id) # {})
    <3>1. pc' = "scan" /\ UNCHANGED <<calls, wheel, num_call>>
      BY <1>8, <2>3 DEF CallOutError
    <3>2. OtherTypes' /\ NoFatal'
      BY <1>0, <2>1, <3>1 DEF OtherTypes, NoFatal, Phases
    <3> QED BY <2>1, <3>1, <3>2, QueueUnchanged
  <2> QED BY <2>2, <2>3
<1>9. CASE SelectDone
  <2>1. OtherTypes' /\ NoFatal'
    BY <1>0, <1>9, SlotsAssumption
    DEF SelectDone, OtherTypes, NoFatal, Phases
  <2> QED BY <1>9, <2>1, QueueUnchanged DEF SelectDone
<1>10. ASSUME NEW o \in Objects, Destruct2(o) PROVE IInv'
  <2>1. life' \in [Objects -> Lives] /\ pc \in Phases /\ pc # "fatal"
    BY <1>0, <1>10 DEF Destruct2, OtherTypes, Lives, NoFatal
  <2>2. zombies' \in SUBSET Objects
    BY <1>0, <1>10 DEF Destruct2, OtherTypes
  <2> QED BY <1>10, <2>1, <2>2, DeleteAllKeeps DEF Destruct2
<1>11. CASE Handler
  <2>1. OtherTypes' /\ NoFatal'
    BY <1>0, <1>11, SlotsAssumption
    DEF Handler, OtherTypes, NoFatal, Phases
  <2> QED BY <1>11, <2>1, QueueUnchanged DEF Handler
<1>12. CASE LpcError
  <2>1. OtherTypes' /\ NoFatal'
    BY <1>0, <1>12 DEF LpcError, OtherTypes, NoFatal, Phases
  <2> QED BY <1>12, <2>1, QueueUnchanged DEF LpcError
<1>14. CASE InhibitCallOuts
  <2>1. OtherTypes' /\ NoFatal'
    BY <1>0, <1>14 DEF InhibitCallOuts, OtherTypes, NoFatal
  <2> QED BY <1>14, <2>1, QueueUnchanged DEF InhibitCallOuts
<1>15. ASSUME NEW o \in Objects, TooManyAlarms(o) PROVE IInv'
  <2>1. life' \in [Objects -> Lives] /\ pc \in Phases /\ pc # "fatal"
    BY <1>0, <1>15 DEF TooManyAlarms, OtherTypes, NoFatal
  <2>2. zombies' \in SUBSET Objects
    BY <1>0, <1>15 DEF TooManyAlarms, OtherTypes
  <2> QED BY <1>15, <2>1, <2>2, DeleteAllKeeps DEF TooManyAlarms
<1>16. ASSUME NEW o \in Objects, Create(o) PROVE IInv'
  <2>1. OtherTypes' /\ NoFatal'
    BY <1>0, <1>16 DEF Create, OtherTypes, NoFatal, Lives
  <2> QED BY <1>16, <2>1, QueueUnchanged DEF Create
<1>17. ASSUME NEW o \in Objects, Destruct(o) PROVE IInv'
  <2>1. life' \in [Objects -> Lives] /\ pc \in Phases /\ pc # "fatal"
    BY <1>0, <1>17 DEF Destruct, OtherTypes, NoFatal, Lives
  <2>2. zombies' \in SUBSET Objects
    BY <1>0, <1>17 DEF Destruct, OtherTypes
  <2> QED BY <1>17, <2>1, <2>2, DeleteAllKeeps DEF Destruct
<1>18. ASSUME NEW o \in Objects, NEW id \in 1 .. MaxId, RemoveAlarm(o, id)
       PROVE  IInv'
  <2>1. Min(CallsWithId(o, id)) \in 1 .. Len(calls[o])
    BY <1>18, CallsWithIdType DEF RemoveAlarm
  <2>2. pc \in Phases /\ pc # "fatal"
    BY <1>0 DEF OtherTypes, NoFatal
  <2>3. /\ zombies' \in SUBSET Objects
        /\ current' \in Current \cup {NoCurrent}
        /\ UNCHANGED <<alarm_time, last, call_id, inhibit, life, tv>>
    BY <1>0, <1>18 DEF RemoveAlarm, OtherTypes
  <2>4. delete_call(o, Min(CallsWithId(o, id)), pc)
    BY <1>18 DEF RemoveAlarm
  <2> QED BY <2>1, <2>2, <2>3, <2>4, DeleteCallKeeps
<1>19. ASSUME NEW o \in Objects, NEW n \in Objects, Reload(o, n) PROVE IInv'
  <2>1. o # n /\ UNCHANGED <<alarm_time, last>> /\ call_out_swap_objects(o, n)
    BY <1>19 DEF Reload
  <2>2. /\ calls' \in CallLists
        /\ wheel' \in Wheels
        /\ WheelConsistent'
        /\ NoneBehind'
    BY <2>1, SwapKeeps
  <2>3. pc' = pc
    BY <2>1, NeverLost DEF call_out_swap_objects
  <2>4. life' \in [Objects -> Lives]
    BY <1>0, <1>19 DEF Reload, OtherTypes, Lives
  <2>5. TypeOK'
    BY <1>0, <1>19, <2>2, <2>3, <2>4
    DEF Reload, TypeOK, OtherTypes, CallLists, Wheels
  <2> QED BY <1>0, <2>2, <2>3, <2>5 DEF IInv, NoFatal
<1>20. ASSUME NEW o \in Objects, NEW f \in Closures, NEW delay \in Delays,
              NEW reload \in Reloads, SetAlarm(o, f, delay, reload)
       PROVE  IInv'
  <2>1. delay \in Int /\ reload \in Int
    BY BoundAssumption
  <2> QED BY <1>20, <2>1, SetAlarmKeeps
<1>21. CASE UNCHANGED vars
  <2>1. OtherTypes' /\ NoFatal'
    BY <1>0, <1>21 DEF vars, OtherTypes, NoFatal
  <2> QED BY <1>21, <2>1, QueueUnchanged DEF vars
<1>22. CASE Loop
  BY <1>1, <1>2, <1>3, <1>4, <1>5, <1>6, <1>7, <1>8, <1>9, <1>10, <1>22 DEF Loop
<1>23. CASE Lpc
  BY <1>11, <1>12, <1>14, <1>15, <1>16, <1>17, <1>18, <1>19, <1>20, <1>23
  DEF Lpc
<1> QED BY <1>21, <1>22, <1>23 DEF Next

-----------------------------------------------------------------------------
(* Theorems *)

\* The inductive invariant holds in every reachable state.
THEOREM Invariance == Spec => []IInv
<1>1. Init => IInv
  BY InitIInv
<1>2. IInv /\ [Next]_vars => IInv'
  BY NextIInv
<1> QED BY <1>1, <1>2, PTL DEF Spec

\* Every variable of the driver's alarm queue keeps its type.
THEOREM TypeCorrect == Spec => []TypeOK
<1>1. IInv => TypeOK
  BY DEF IInv
<1> QED BY <1>1, Invariance, PTL

\* The lists of calls and the slots of the wheel stay sorted, and every
\* object with calls hangs once in the slot of its first call.
THEOREM QueueConsistent == Spec => []WheelConsistent
<1>1. IInv => WheelConsistent
  BY DEF IInv
<1> QED BY <1>1, Invariance, PTL

\* No call is ever left behind the walk of the wheel by call_out().
THEOREM NothingBehind == Spec => []NoneBehind
<1>1. IInv => NoneBehind
  BY DEF IInv
<1> QED BY <1>1, Invariance, PTL

\* No fatal() in call_out.c is ever executed.
THEOREM NeverFatal == Spec => []NoFatal
<1>1. IInv => NoFatal
  BY DEF IInv
<1> QED BY <1>1, Invariance, PTL

\* A fired call is due, and is the first of all pending calls.
LEMMA FirstIsDue ==
  ASSUME IInv, FireCall, NEW o, o = wheel[Slot(last)][1], NEW c, c = calls[o][1]
  PROVE  /\ o \in Objects
         /\ calls[o] # <<>>
         /\ c.when <= alarm_time
         /\ \A p \in Objects : NoneBefore(calls[p], c.when)
<1>2. wheel[Slot(last)] # <<>> /\ HeadWhen(calls, o) <= last /\ last <= alarm_time
  BY DEF FireCall, Due
<1>4. o \in Objects /\ calls[o] # <<>>
  BY <1>2, FirstInSlot
<1>5. calls \in CallLists /\ last \in Nat /\ alarm_time \in Nat
  BY DEF IInv, TypeOK, CallLists
<1>6. c.when \in Nat /\ c.when <= last
  BY <1>2, <1>4, <1>5, HeadWhenType DEF HeadWhen
<1>7. ASSUME NEW p \in Objects, NEW i \in 1 .. Len(calls[p])
      PROVE  calls[p][i].when >= c.when
  <2>1. calls[p] \in Seq(Call) /\ NoneBefore(calls[p], last)
    BY ListOf
  <2>2. calls[p][i].when \in Nat /\ calls[p][i].when >= last
    BY <2>1, CallWhenType DEF NoneBefore
  <2> QED BY <1>5, <1>6, <2>2
<1>8. c.when <= alarm_time
  BY <1>2, <1>5, <1>6
<1> QED BY <1>4, <1>7, <1>8 DEF NoneBefore

\* The same, of a step that fires.
LEMMA FireStepInOrder ==
  ASSUME IInv, [Next]_vars, current' # current, current' # NoCurrent
  PROVE  LET c == calls[current'.ob][1]
         IN  /\ c.when <= alarm_time
             /\ \A o \in Objects : NoneBefore(calls[o], c.when)
<1>1. FireCall
  BY DEF Next, Loop, Lpc, vars, queue, BackendTop, DeliverSignals, CallOutEnter,
         ScanNext, ScanDone, CallOutReturn, CallOutError, SelectDone, Destruct2,
         Handler, LpcError, InhibitCallOuts, TooManyAlarms,
         Create, Destruct, RemoveAlarm, Reload, SetAlarm
<1>2. current'.ob = wheel[Slot(last)][1]
  BY <1>1 DEF FireCall
<1> QED BY <1>1, <1>2, FirstIsDue

\* Calls are fired when they are due and in the order of their due times.
THEOREM FiringOrder == Spec => FiresInOrder
<1>1. IInv /\ [Next]_vars =>
        [current' # current /\ current' # NoCurrent =>
           LET c == calls[current'.ob][1]
           IN  /\ c.when <= alarm_time
               /\ \A o \in Objects : NoneBefore(calls[o], c.when)]_vars
  BY FireStepInOrder
<1> QED BY <1>1, Invariance, PTL DEF Spec, FiresInOrder

-----------------------------------------------------------------------------
(* How long nd_select() may sleep *)

\* Two times less than one lap of the wheel apart have different slots.
LEMMA SlotsOfOneLap ==
  ASSUME NEW a \in Nat, NEW d \in 0 .. NUM_SLOTS - 1, NEW e \in 0 .. NUM_SLOTS - 1,
         Slot(a + d) = Slot(a + e)
  PROVE  d = e
<1>1. NUM_SLOTS \in Nat /\ NUM_SLOTS > 0
  BY SlotsAssumption
<1> DEFINE q == (a + d) \div NUM_SLOTS
           r == (a + e) \div NUM_SLOTS
           m == (a + d) % NUM_SLOTS
<1>2. /\ q \in Int /\ r \in Int /\ m \in 0 .. NUM_SLOTS - 1
      /\ a + d = NUM_SLOTS * q + m
      /\ a + e = NUM_SLOTS * r + m
  BY <1>1 DEF Slot
<1> HIDE DEF q, r, m
<1>3. (a + d) - (a + e) = NUM_SLOTS * (q - r)
  BY <1>1, <1>2
<1>4. q - r <= 0
  <2> SUFFICES ASSUME q - r >= 1 PROVE FALSE
    BY <1>2
  <2>1. NUM_SLOTS * (q - r) >= NUM_SLOTS
    BY <1>1, <1>2
  <2> QED
    BY <1>1, <1>2, <1>3, <2>1
<1>5. q - r >= 0
  <2> SUFFICES ASSUME q - r <= -1 PROVE FALSE
    BY <1>2
  <2>1. NUM_SLOTS * (q - r) <= -NUM_SLOTS
    BY <1>1, <1>2
  <2> QED
    BY <1>1, <1>2, <1>3, <2>1
<1>6. q = r
  BY <1>2, <1>4, <1>5
<1> QED
  BY <1>1, <1>2, <1>6

\* Once the walk has reached the clock, next_call_out() looks at the slots of
\* all the times before the horizon, and at no other.
LEMMA ScanToHorizon ==
  ASSUME IInv, last >= alarm_time
  PROVE  /\ ScanLength = alarm_time + HORIZON - last
         /\ ScanLength \in 1 .. NUM_SLOTS - 1
<1>1. /\ HORIZON \in Nat /\ NUM_SLOTS \in Nat /\ 1 < HORIZON
      /\ HORIZON < NUM_SLOTS
  BY SlotsAssumption
<1>2. alarm_time \in Nat /\ last \in Nat /\ last <= alarm_time + 1
  BY DEF IInv, TypeOK, NoneBehind
<1> DEFINE n == alarm_time + HORIZON - last
<1>3. n \in 1 .. NUM_SLOTS - 1
  BY <1>1, <1>2
<1> HIDE DEF n
<1>4. n % NUM_SLOTS = n
  BY <1>1, <1>3
<1> QED
  BY <1>1, <1>3, <1>4 DEF ScanLength, n

\* A pending call that is due before the horizon makes next_call_out() stop
\* at the slot of the first call of its object or earlier.
LEMMA SoonIsHit ==
  ASSUME IInv, last >= alarm_time, NEW o \in Objects, calls[o] # <<>>,
         HeadWhen(calls, o) < alarm_time + HORIZON
  PROVE  HeadWhen(calls, o) - last \in Hits
<1> DEFINE h == HeadWhen(calls, o)
           k == h - last
           chain == wheel[Slot(h)]
<1>1. HORIZON \in Nat /\ alarm_time \in Nat /\ last \in Nat
  BY SlotsAssumption DEF IInv, TypeOK
<1>2. calls \in CallLists
  BY DEF IInv, TypeOK, CallLists
<1>3. h \in Nat /\ Slot(h) \in Slots /\ 1 \in 1 .. Len(calls[o])
  BY <1>2, HeadWhenType
<1>4. h >= last
  BY <1>3 DEF IInv, NoneBehind, NoneBefore, HeadWhen
<1>5. chain \in Seq(Objects)
  BY <1>3 DEF IInv, TypeOK
<1>6. PICK i \in 1 .. Len(chain) : chain[i] = o
  BY DEF IInv, WheelConsistent, Indexes
<1>7. chain # <<>> /\ 1 \in 1 .. Len(chain) /\ Len(chain) \in Nat
  BY <1>5, <1>6
<1>8. /\ chain[1] \in Objects
      /\ calls[chain[1]] # <<>>
      /\ 1 < i => HeadWhen(calls, chain[1]) <= HeadWhen(calls, chain[i])
  BY <1>3, <1>5, <1>6, <1>7 DEF IInv, WheelConsistent, Indexes
<1>9. HeadWhen(calls, chain[1]) \in Nat
  BY <1>2, <1>8, HeadWhenType
<1>10. HeadWhen(calls, chain[1]) <= h
  BY <1>3, <1>6, <1>8
<1>11. last + k = h /\ h < alarm_time + HORIZON
  BY <1>1, <1>3
<1> DEFINE x == HeadWhen(calls, chain[1])
<1> HIDE DEF h, x
<1>12. x - alarm_time < HORIZON
  BY <1>1, <1>3, <1>9, <1>10, <1>11 DEF x
<1>13. k \in 0 .. ScanLength - 1
  BY <1>1, <1>3, <1>4, <1>11, ScanToHorizon
<1>14. /\ wheel[Slot(last + k)] # <<>>
       /\ HeadWhen(calls, wheel[Slot(last + k)][1]) - alarm_time < HORIZON
  BY <1>7, <1>11, <1>12 DEF x
<1> HIDE DEF k, chain
<1>15. k \in Hits
  BY <1>13, <1>14 DEF Hits
<1> QED
  BY <1>15 DEF k, h

\* When the walk has reached the clock, next_call_out() returns the time up
\* to the first pending call, or the horizon if that is farther away.
LEMMA SleepExact ==
  ASSUME IInv, last >= alarm_time
  PROVE  /\ \A o \in Objects : NoneBefore(calls[o], alarm_time + next_call_out)
         /\ \/ next_call_out = HORIZON
            \/ \E o \in Objects : \E i \in 1 .. Len(calls[o]) :
                 alarm_time + next_call_out = calls[o][i].when
<1>1. /\ HORIZON \in Nat /\ NUM_SLOTS \in Nat /\ NUM_SLOTS > 0
      /\ alarm_time \in Nat /\ last \in Nat
  BY SlotsAssumption DEF IInv, TypeOK
<1>2. calls \in CallLists
  BY DEF IInv, TypeOK, CallLists
\* It is enough to look at the first call of every list.
<1>3. ASSUME NEW t \in Nat,
             \A o \in Objects : calls[o] # <<>> => HeadWhen(calls, o) >= t
      PROVE  \A o \in Objects : NoneBefore(calls[o], t)
  <2> SUFFICES ASSUME NEW o \in Objects, NEW i \in 1 .. Len(calls[o])
               PROVE  calls[o][i].when >= t
    BY DEF NoneBefore
  <2>1. calls[o] \in Seq(Call) /\ Sorted(calls[o]) /\ Len(calls[o]) \in Nat
    BY <1>2 DEF IInv, WheelConsistent, CallLists
  <2>2. calls[o] # <<>> /\ 1 \in 1 .. Len(calls[o])
    BY <2>1
  <2>3. calls[o][1].when \in Nat /\ calls[o][i].when \in Nat
    BY <2>1, <2>2, CallWhenType
  <2>4. i = 1 \/ calls[o][1].when <= calls[o][i].when
    BY <2>1, <2>2 DEF Sorted
  <2>5. calls[o][1].when >= t
    BY <1>3, <2>2 DEF HeadWhen
  <2> QED
    BY <2>3, <2>4, <2>5
<1>4. \A o \in Objects : calls[o] # <<>> => HeadWhen(calls, o) \in Nat
  BY <1>2, HeadWhenType
<1>5. CASE Hits = {}
  <2>1. next_call_out = HORIZON
    BY <1>5 DEF next_call_out
  <2>2. alarm_time + HORIZON \in Nat
    BY <1>1
  <2>3. \A o \in Objects :
          calls[o] # <<>> => HeadWhen(calls, o) >= alarm_time + HORIZON
    BY <1>1, <1>4, <1>5, SoonIsHit
  <2> QED
    BY <1>3, <2>1, <2>2, <2>3
<1>6. CASE Hits # {}
  <2> DEFINE m == Min(Hits)
             x == wheel[Slot(last + m)][1]
             w == HeadWhen(calls, x)
  <2>1. ScanLength \in 1 .. NUM_SLOTS - 1
    BY ScanToHorizon
  <2>2. Hits \in SUBSET Nat
    BY <1>1, <2>1 DEF Hits
  <2>3. m \in Hits /\ \A k \in Hits : m <= k
    BY <1>6, <2>2, MinIsLeast
  <2>4. next_call_out = IF w < alarm_time THEN 0 ELSE w - alarm_time
    BY <1>6 DEF next_call_out
  <2> HIDE DEF m
  <2>5. /\ m \in 0 .. NUM_SLOTS - 1 /\ wheel[Slot(last + m)] # <<>>
        /\ m \in 0 .. ScanLength - 1
        /\ w - alarm_time < HORIZON
    BY <1>1, <2>1, <2>3 DEF Hits
  <2>6. Slot(last + m) \in Slots
    BY <1>1, <2>5, SlotType
  <2>7. wheel[Slot(last + m)] \in Seq(Objects)
    BY <2>6 DEF IInv, TypeOK
  <2>8. 1 \in 1 .. Len(wheel[Slot(last + m)])
    BY <2>5, <2>7
  <2>9. x \in Objects /\ calls[x] # <<>> /\ Slot(w) = Slot(last + m)
    BY <2>6, <2>7, <2>8 DEF IInv, WheelConsistent, Indexes
  <2>10. w \in Nat /\ 1 \in 1 .. Len(calls[x]) /\ w = calls[x][1].when
    BY <1>2, <2>9, HeadWhenType DEF HeadWhen
  <2>11. w >= last
    BY <2>9, <2>10 DEF IInv, NoneBehind, NoneBefore
  <2> HIDE DEF x, w
  <2>12. w < alarm_time + HORIZON /\ next_call_out = w - alarm_time
    BY <1>1, <2>4, <2>5, <2>10, <2>11
  <2>13. w - last \in 0 .. NUM_SLOTS - 1 /\ last + (w - last) = w
    BY SMTT(60), <1>1, <2>1, <2>10, <2>11, <2>12, ScanToHorizon
  <2>14. w - last = m
    <3>1. Slot(last + (w - last)) = Slot(last + m)
      BY <2>9, <2>13
    <3> DEFINE d == w - last
    <3>2. d \in 0 .. NUM_SLOTS - 1 /\ Slot(last + d) = Slot(last + m)
      BY <2>13, <3>1
    <3> HIDE DEF d
    <3>3. d = m
      BY <1>1, <2>5, <3>2, SlotsOfOneLap
    <3> QED
      BY <3>3 DEF d
  <2>15. ASSUME NEW o \in Objects, calls[o] # <<>>
         PROVE  HeadWhen(calls, o) >= w
    <3> SUFFICES ASSUME HeadWhen(calls, o) < w PROVE FALSE
      BY <1>4, <2>10, <2>15
    <3>1. HeadWhen(calls, o) \in Nat
      BY <1>4, <2>15
    <3>2. HeadWhen(calls, o) < alarm_time + HORIZON
      BY <1>1, <2>10, <2>12, <3>1
    <3>3. HeadWhen(calls, o) - last \in Hits
      BY <2>15, <3>2, SoonIsHit
    <3>4. m <= HeadWhen(calls, o) - last
      BY <2>3, <3>3
    <3> QED
      BY <1>1, <2>10, <2>14, <3>1, <3>4
  <2>16. alarm_time + next_call_out = w
    BY <1>1, <2>10, <2>12
  <2>17. \A o \in Objects : NoneBefore(calls[o], w)
    BY <1>3, <2>10, <2>15
  <2> QED
    BY <2>9, <2>10, <2>16, <2>17
<1> QED
  BY <1>5, <1>6

\* The sleep is right when nd_select() is entered, and nothing of the queue
\* changes before it wakes up.
LEMMA NextSleeps == IInv /\ NoOversleep /\ [Next]_vars => NoOversleep'
<1> SUFFICES ASSUME IInv, NoOversleep, [Next]_vars, pc' = "select", ~inhibit'
             PROVE  /\ \A o \in Objects : NoneBefore(calls'[o], alarm_time' + tv')
                    /\ \/ tv' = HORIZON
                       \/ \E o \in Objects : \E i \in 1 .. Len(calls'[o]) :
                            alarm_time' + tv' = calls'[o][i].when
  BY DEF NoOversleep
<1>1. \/ CallOutEnter
      \/ ScanDone
      \/ pc = "select" /\ UNCHANGED vars
  <2>1. pc # "select" => CallOutEnter \/ ScanDone
    BY DEF Next, Loop, Lpc, vars, queue, BackendTop, DeliverSignals, FireCall,
           ScanNext, CallOutReturn, CallOutError, SelectDone, Destruct2,
           Handler, LpcError, InhibitCallOuts, TooManyAlarms, InLpc, Running,
           Create, Destruct, RemoveAlarm, Reload, SetAlarm, delete_call,
           delete_all_calls, After, new_call_out, call_out_swap_objects
  <2>2. pc = "select" => UNCHANGED vars
    BY DEF Next, Loop, Lpc, vars, queue, BackendTop, DeliverSignals, FireCall,
           CallOutEnter, ScanDone,
           ScanNext, CallOutReturn, CallOutError, SelectDone, Destruct2,
           Handler, LpcError, InhibitCallOuts, TooManyAlarms, InLpc, Running,
           Create, Destruct, RemoveAlarm, Reload, SetAlarm
  <2> QED
    BY <2>1, <2>2
<1>2. CASE CallOutEnter
  <2>1. /\ UNCHANGED <<alarm_time, calls>> /\ last >= alarm_time
        /\ tv' = next_call_out
    <3>1. /\ UNCHANGED <<alarm_time, last, calls, inhibit>>
          /\ pc' = IF inhibit \/ last >= alarm_time THEN "select" ELSE "scan"
          /\ tv' = IF inhibit THEN HORIZON
                   ELSE IF last >= alarm_time THEN next_call_out ELSE 0
      BY <1>2 DEF CallOutEnter, queue
    <3> QED
      BY <3>1
  <2> QED
    BY <2>1, SleepExact
<1>3. CASE ScanDone
  <2>1. /\ UNCHANGED <<alarm_time, calls>> /\ last > alarm_time
        /\ tv' = next_call_out
    BY <1>3 DEF ScanDone, queue
  <2>2. last >= alarm_time
    BY <2>1 DEF IInv, TypeOK
  <2> QED
    BY <2>1, <2>2, SleepExact
<1>4. CASE pc = "select" /\ UNCHANGED vars
  BY <1>4 DEF vars, NoOversleep
<1> QED
  BY <1>1, <1>2, <1>3, <1>4

\* When backend() goes to sleep in nd_select() it wakes up no later than the
\* first pending call is due, and early only at the horizon.
THEOREM NeverOversleeps == Spec => []NoOversleep
<1>1. Init => NoOversleep
  BY DEF Init, NoOversleep
<1>2. IInv /\ NoOversleep /\ [Next]_vars => NoOversleep'
  BY NextSleeps
<1> QED
  BY <1>1, <1>2, Invariance, PTL DEF Spec

-----------------------------------------------------------------------------
(* Destructed objects *)

\* What NoCallsOfFreed needs to be inductive: the zombies of an LPC
\* activation are destructed and forgotten before destruct2() frees any of
\* them, and what a zombie has set lies in the future until the clock is set
\* again, by which time destruct2() deletes it.
FreedInv ==
  /\ \A o \in Objects : life[o] \in {"none", "gone"} => calls[o] = <<>>
  /\ \A o \in zombies : life[o] = "destructed"
  /\ pc \in {"top", "clean"} => zombies = {}
  /\ pc \in {"signals", "scan", "lpc", "failed"} =>
       \A o \in Objects : life[o] = "destructed" =>
         NoneBefore(calls[o], alarm_time + 1)

\* Every list a step leaves alone or empties is fine.
LEMMA EmptyList ==
  /\ \A w : NoneBefore(<<>>, w)
  /\ Len(<<>>) = 0
BY DEF NoneBefore

\* A call that is fired belongs to a live object: what destructed objects
\* have set is not due.
LEMMA DueIsLive ==
  ASSUME IInv, FreedInv, pc = "scan", last <= alarm_time, Due
  PROVE  life[wheel[Slot(last)][1]] = "live"
<1> DEFINE o == wheel[Slot(last)][1]
<1>1. o \in Objects /\ calls[o] # <<>>
  BY FirstInSlot DEF Due
<1>2. calls \in CallLists /\ life[o] \in Lives
  BY <1>1 DEF IInv, TypeOK, CallLists
<1>3. HeadWhen(calls, o) \in Nat /\ Len(calls[o]) \in Nat /\ Len(calls[o]) >= 1
  BY <1>1, <1>2, HeadWhenType
<1>4. HeadWhen(calls, o) <= last
  BY DEF Due
<1>5. alarm_time \in Nat /\ last \in Nat
  BY DEF IInv, TypeOK
<1> HIDE DEF o
<1>6. ~ NoneBefore(calls[o], alarm_time + 1)
  BY <1>3, <1>4, <1>5 DEF NoneBefore, HeadWhen
<1>7. life[o] \notin {"none", "gone", "destructed"}
  BY <1>1, <1>6 DEF FreedInv
<1> QED
  BY <1>2, <1>7 DEF Lives, o

\* A step that changes neither lists nor lives, does not set the clock and
\* does not go back to the top of the loop.
LEMMA FreedUnchanged ==
  ASSUME FreedInv, UNCHANGED <<calls, life, alarm_time>>,
         zombies' \in {{}, zombies},
         \/ pc' \notin {"top", "clean"}
         \/ zombies' = {},
         \/ pc' \notin {"signals", "scan", "lpc", "failed"}
         \/ pc \in {"signals", "scan", "lpc", "failed"}
         \/ \A o \in Objects : life[o] # "destructed"
  PROVE  FreedInv'
BY DEF FreedInv

\* Every step keeps the invariant.
LEMMA NextFreed == IInv /\ FreedInv /\ [Next]_vars => FreedInv'
<1> SUFFICES ASSUME IInv, FreedInv, [Next]_vars PROVE FreedInv'
  OBVIOUS
<1> USE DEF queue
<1>0. /\ alarm_time \in Nat /\ last \in Nat /\ calls \in [Objects -> Seq(Call)]
      /\ life \in [Objects -> Lives] /\ zombies \in SUBSET Objects
      /\ pc \in Phases
  BY DEF IInv, TypeOK
<1>1. CASE BackendTop
  BY <1>1 DEF BackendTop, FreedInv
<1>2. CASE DeliverSignals
  BY <1>2, FreedUnchanged DEF DeliverSignals
<1>3. CASE CallOutEnter
  BY <1>3, FreedUnchanged DEF CallOutEnter
<1>4. CASE FireCall
  <2> DEFINE o == wheel[Slot(last)][1]
  <2>1. pc = "scan" /\ last <= alarm_time /\ Due
    BY <1>4 DEF FireCall
  <2>2. life[o] = "live"
    BY <2>1, DueIsLive
  <2>3. /\ \E list : calls' = [calls EXCEPT ![o] = list]
        /\ zombies' = {} /\ UNCHANGED <<life, alarm_time>>
        /\ pc' \in {"fatal", "failed", "lpc"}
    BY <1>4 DEF FireCall, SetCalls
  <2> HIDE DEF o
  <2>4. \A p \in Objects : p # o => calls'[p] = calls[p]
    BY <1>0, <2>3
  <2> QED
    BY <2>1, <2>2, <2>3, <2>4 DEF FreedInv
<1>5. CASE ScanNext
  BY <1>5, FreedUnchanged DEF ScanNext
<1>6. CASE ScanDone
  BY <1>6, FreedUnchanged DEF ScanDone
<1>7. CASE CallOutReturn
  BY <1>7, FreedUnchanged DEF CallOutReturn
<1>8. CASE CallOutError
  <2>1. /\ pc \in {"lpc", "failed"} /\ zombies' = {}
        /\ UNCHANGED <<life, alarm_time>>
    BY <1>8 DEF CallOutError
  <2>2. CASE current.id # 0 /\ CallsWithId(current.ob, current.id) # {}
    <3> DEFINE o == current.ob
               k == Min(CallsWithId(o, current.id))
    <3>1. o \in Objects
      <4>1. current \in Current \cup {NoCurrent} /\ current # NoCurrent
        BY <2>2 DEF IInv, TypeOK, NoCurrent
      <4> QED
        BY <4>1 DEF Current
    <3>2. k \in 1 .. Len(calls[o])
      BY <2>2, <3>1, CallsWithIdType
    <3>3. delete_call(o, k, "scan")
      BY <1>8, <2>2 DEF CallOutError
    <3> HIDE DEF o, k
    <3>4. pc' = "scan" /\ calls' = [calls EXCEPT ![o] = RemoveAt(calls[o], k)]
      BY <3>1, <3>3, NeverLost DEF delete_call, SetCalls, After
    <3>5. /\ calls[o] # <<>>
          /\ \A w \in Nat :
               NoneBefore(calls[o], w) => NoneBefore(RemoveAt(calls[o], k), w)
      BY <3>1, <3>2, ListOf, RemoveCallSorted
    <3>6. \A p \in Objects : p # o => calls'[p] = calls[p]
      BY <1>0, <3>4
    <3>7. calls'[o] = RemoveAt(calls[o], k)
      BY <1>0, <3>1, <3>4
    <3>8. alarm_time + 1 \in Nat
      BY <1>0
    <3>9. NoneBefore(calls[o], alarm_time + 1) =>
            NoneBefore(calls'[o], alarm_time + 1)
      BY <3>5, <3>7, <3>8
    <3> QED
      BY <2>1, <3>1, <3>4, <3>5, <3>6, <3>9 DEF FreedInv
  <2>3. CASE ~(current.id # 0 /\ CallsWithId(current.ob, current.id) # {})
    BY <1>8, <2>1, <2>3, FreedUnchanged DEF CallOutError
  <2> QED
    BY <2>2, <2>3
<1>9. CASE SelectDone
  BY <1>9, FreedUnchanged DEF SelectDone
\* A step that takes all the calls of one object.
<1>d. ASSUME NEW o \in Objects, calls' = [calls EXCEPT ![o] = <<>>]
      PROVE  calls'[o] = <<>> /\ \A p \in Objects : p # o => calls'[p] = calls[p]
  BY <1>0, <1>d
<1>10. ASSUME NEW o \in Objects, Destruct2(o) PROVE FreedInv'
  <2>1. /\ calls' = [calls EXCEPT ![o] = <<>>] /\ pc = "clean"
        /\ life' = [life EXCEPT ![o] = "gone"]
        /\ UNCHANGED <<zombies, alarm_time>>
    BY <1>10 DEF Destruct2, delete_all_calls, SetCalls
  <2>2. pc' = "clean"
    BY <1>10, <2>1, NeverLost DEF Destruct2, delete_all_calls, After
  <2>3. \A p \in Objects : p # o => life'[p] = life[p]
    BY <1>0, <2>1
  <2> QED
    BY <1>0, <1>d, <2>1, <2>2, <2>3 DEF FreedInv
<1>11. CASE Handler
  BY <1>11, FreedUnchanged DEF Handler
<1>12. CASE LpcError
  BY <1>12, FreedUnchanged DEF LpcError
<1>14. CASE InhibitCallOuts
  BY <1>14, FreedUnchanged DEF InhibitCallOuts, InLpc
<1>15. ASSUME NEW o \in Objects, TooManyAlarms(o) PROVE FreedInv'
  <2>1. /\ calls' = [calls EXCEPT ![o] = <<>>] /\ pc' = pc
        /\ UNCHANGED <<life, zombies, alarm_time>>
    BY <1>15, NeverLost DEF TooManyAlarms, delete_all_calls, SetCalls, After
  <2> QED
    BY <1>d, <2>1, EmptyList DEF FreedInv
<1>16. ASSUME NEW o \in Objects, Create(o) PROVE FreedInv'
  <2>1. /\ life[o] = "none" /\ life' = [life EXCEPT ![o] = "live"]
        /\ UNCHANGED <<calls, zombies, alarm_time, pc>>
    BY <1>16 DEF Create
  <2>2. life'[o] = "live" /\ \A p \in Objects : p # o => life'[p] = life[p]
    BY <1>0, <2>1
  <2>3. \A p \in zombies' : life'[p] = "destructed"
    BY <1>0, <2>1, <2>2 DEF FreedInv
  <2> QED
    BY <2>1, <2>2, <2>3 DEF FreedInv
<1>17. ASSUME NEW o \in Objects, Destruct(o) PROVE FreedInv'
  <2>1. /\ calls' = [calls EXCEPT ![o] = <<>>] /\ pc' = pc /\ InLpc
        /\ life' = [life EXCEPT ![o] = "destructed"]
        /\ zombies' = zombies \cup {o} /\ alarm_time' = alarm_time
    BY <1>17, NeverLost DEF Destruct, delete_all_calls, SetCalls, After
  <2>2. life'[o] = "destructed" /\ \A p \in Objects : p # o => life'[p] = life[p]
    BY <1>0, <2>1
  <2>3. \A p \in zombies' : life'[p] = "destructed"
    BY <1>0, <2>1, <2>2 DEF FreedInv
  <2>4. NoneBefore(calls'[o], alarm_time + 1)
    BY <1>d, <2>1, EmptyList
  <2> QED
    BY <1>d, <2>1, <2>2, <2>3, <2>4 DEF FreedInv, InLpc
<1>18. ASSUME NEW o \in Objects, NEW id \in 1 .. MaxId, RemoveAlarm(o, id)
       PROVE  FreedInv'
  <2> DEFINE k == Min(CallsWithId(o, id))
  <2>1. CallsWithId(o, id) # {} /\ delete_call(o, k, pc)
    BY <1>18 DEF RemoveAlarm
  <2>2. k \in 1 .. Len(calls[o])
    BY <2>1, CallsWithIdType
  <2> HIDE DEF k
  <2>3. pc' = pc /\ calls' = [calls EXCEPT ![o] = RemoveAt(calls[o], k)]
    BY <2>1, NeverLost DEF delete_call, SetCalls, After
  <2>4. /\ calls[o] # <<>>
        /\ \A w \in Nat :
             NoneBefore(calls[o], w) => NoneBefore(RemoveAt(calls[o], k), w)
    BY <2>2, ListOf, RemoveCallSorted
  <2>5. /\ calls'[o] = RemoveAt(calls[o], k)
        /\ \A p \in Objects : p # o => calls'[p] = calls[p]
    BY <1>0, <2>3
  <2>6. alarm_time + 1 \in Nat
    BY <1>0
  <2>7. NoneBefore(calls[o], alarm_time + 1) =>
          NoneBefore(calls'[o], alarm_time + 1)
    BY <2>4, <2>5, <2>6
  <2>8. UNCHANGED <<life, zombies, alarm_time>>
    BY <1>18 DEF RemoveAlarm
  <2> QED
    BY <2>3, <2>4, <2>5, <2>7, <2>8 DEF FreedInv
<1>19. ASSUME NEW o \in Objects, NEW n \in Objects, Reload(o, n)
       PROVE  FreedInv'
  <2>1. /\ life[o] = "live" /\ life[n] = "none" /\ o # n
        /\ calls' = [calls EXCEPT ![o] = calls[n], ![n] = calls[o]]
        /\ life' = [life EXCEPT ![n] = "live"]
        /\ UNCHANGED <<zombies, alarm_time>> /\ pc' = pc
    BY <1>19, NeverLost DEF Reload, call_out_swap_objects
  <2>2. /\ calls'[o] = calls[n]
        /\ \A p \in Objects \ {o, n} : calls'[p] = calls[p]
    BY <1>0, <2>1
  <2>3. life'[n] = "live" /\ \A p \in Objects : p # n => life'[p] = life[p]
    BY <1>0, <2>1
  <2>4. \A p \in zombies' : life'[p] = "destructed"
    BY <1>0, <2>1, <2>3 DEF FreedInv
  <2> QED
    BY ZenonT(60), <2>1, <2>2, <2>3, <2>4 DEF FreedInv
<1>20. ASSUME NEW o \in Objects, NEW f \in Closures, NEW delay \in Delays,
              NEW reload \in Reloads, SetAlarm(o, f, delay, reload)
       PROVE  FreedInv'
  <2> DEFINE c == NewCall(delay, reload, f)
             list == InsertCall(calls[o], c)
  <2>1. delay \in Int /\ reload \in Int /\ call_id \in Nat
    BY BoundAssumption DEF IInv, TypeOK
  <2>2. c \in Call /\ c.when >= alarm_time + 1 /\ c.when >= last
    BY <1>0, <2>1 DEF NewCall, Call, IInv, NoneBehind
  <2>3. /\ calls' = [calls EXCEPT ![o] = list]
        /\ pc' = IF c.when < last \/ (list[1] = c /\ Lost(o))
                 THEN "fatal" ELSE pc
        /\ UNCHANGED <<life, zombies, alarm_time>> /\ InLpc
        /\ life[o] = "live" \/ o \in zombies
    BY <1>20 DEF SetAlarm, new_call_out, SetCalls, Running
  <2> HIDE DEF c
  <2>4. /\ list # <<>>
        /\ \A w \in Nat : NoneBefore(calls[o], w) /\ c.when >= w =>
                          NoneBefore(list, w)
    BY <2>2, ListOf, InsertCallSorted
  <2> HIDE DEF list
  <2>5. pc' = pc
    <3>1. c.when \in Nat
      BY <2>2 DEF Call
    <3> QED
      BY <1>0, <2>2, <2>3, <3>1, NeverLost
  <2>6. calls'[o] = list /\ \A p \in Objects : p # o => calls'[p] = calls[p]
    BY <1>0, <2>3
  <2>7. alarm_time + 1 \in Nat
    BY <1>0
  <2>8. NoneBefore(calls[o], alarm_time + 1) =>
          NoneBefore(calls'[o], alarm_time + 1)
    BY <2>2, <2>4, <2>6, <2>7
  <2>9. life[o] \notin {"none", "gone"}
    BY <2>3 DEF FreedInv
  <2> QED
    BY <2>3, <2>5, <2>6, <2>8, <2>9 DEF FreedInv
<1>21. CASE UNCHANGED vars
  BY <1>21 DEF vars, FreedInv
<1>22. CASE Loop
  BY <1>1, <1>2, <1>3, <1>4, <1>5, <1>6, <1>7, <1>8, <1>9, <1>10, <1>22 DEF Loop
<1>23. CASE Lpc
  BY <1>11, <1>12, <1>14, <1>15, <1>16, <1>17, <1>18, <1>19, <1>20, <1>23
  DEF Lpc
<1> QED BY <1>21, <1>22, <1>23 DEF Next

\* The strengthened invariant of the destructed objects holds throughout.
THEOREM FreedInvariance == Spec => []FreedInv
<1>1. Init => FreedInv
  <2> SUFFICES ASSUME Init PROVE FreedInv
    OBVIOUS
  <2>1. \A o \in Objects : calls[o] = <<>>
    BY DEF Init
  <2>2. zombies = {} /\ pc = "handlers"
    BY DEF Init
  <2> QED
    BY <2>1, <2>2 DEF FreedInv
<1>2. IInv /\ FreedInv /\ [Next]_vars => FreedInv'
  BY NextFreed
<1> QED
  BY <1>1, <1>2, Invariance, PTL DEF Spec

\* Freed memory is out of reach: an object that is gone has no calls, and no
\* call is fired in an object that is destructed.
THEOREM FreedHasNoCalls == Spec => []NoCallsOfFreed
<1>1. IInv /\ FreedInv => NoCallsOfFreed
  BY DueIsLive DEF FreedInv, NoCallsOfFreed
<1> QED
  BY <1>1, Invariance, FreedInvariance, PTL

-----------------------------------------------------------------------------
(* What a step does to the lists of calls *)

\* The calls of a list, and that no two of them have the same id.
CallsOf(list) == {list[i] : i \in 1 .. Len(list)}
Unique(list) ==
  \A i, j \in 1 .. Len(list) : list[i].id = list[j].id => i = j

\* What InsertCall adds to a list.
LEMMA InsertCallAdds ==
  ASSUME NEW list \in Seq(Call), Sorted(list), NEW c \in Call
  PROVE  /\ CallsOf(InsertCall(list, c)) = CallsOf(list) \cup {c}
         /\ Len(InsertCall(list, c)) = Len(list) + 1
         /\ Unique(list) /\ (\A d \in CallsOf(list) : d.id # c.id) =>
              Unique(InsertCall(list, c))
<1> DEFINE k == CallPlace(list, c.when)
           new == InsertCall(list, c)
<1>1. Len(list) \in Nat /\ c.when \in Nat
  BY DEF Call
<1>2. k \in 1 .. Len(list) + 1
  BY <1>1, CallPlaceFits
<1> HIDE DEF k
<1>3. /\ new \in Seq(Call)
      /\ Len(new) = Len(list) + 1
      /\ \A j \in 1 .. Len(list) + 1 :
           new[j] = IF j < k THEN list[j] ELSE IF j = k THEN c ELSE list[j - 1]
  <2>1. new = InsertAt(list, k, c)
    BY DEF InsertCall, k
  <2> HIDE DEF new
  <2> QED BY SMTT(60), <1>2, <2>1, InsertAtProperties
<1> HIDE DEF new
<1>4. new[k] = c
  BY <1>1, <1>2, <1>3
<1>5. ASSUME NEW i \in 1 .. Len(list)
      PROVE  \E j \in 1 .. Len(new) : new[j] = list[i]
  <2>1. CASE i < k
    BY <1>1, <1>2, <1>3, <2>1
  <2>2. CASE i >= k
    <3>1. i + 1 \in 1 .. Len(list) + 1 /\ ~(i + 1 < k) /\ i + 1 # k
          /\ (i + 1) - 1 = i
      BY <1>1, <1>2, <2>2
    <3> QED BY <1>3, <3>1
  <2> QED BY <1>1, <1>2, <2>1, <2>2
<1>6. ASSUME NEW j \in 1 .. Len(new), j # k
      PROVE  /\ (IF j < k THEN j ELSE j - 1) \in 1 .. Len(list)
             /\ new[j] = list[IF j < k THEN j ELSE j - 1]
  BY <1>1, <1>2, <1>3, <1>6
<1>7. CallsOf(new) = CallsOf(list) \cup {c}
  <2>1. \A x \in CallsOf(new) : x \in CallsOf(list) \cup {c}
    BY <1>4, <1>6 DEF CallsOf
  <2>2. \A x \in CallsOf(list) : x \in CallsOf(new)
    BY <1>5 DEF CallsOf
  <2>3. k \in 1 .. Len(new)
    BY <1>2, <1>3
  <2>4. c \in CallsOf(new)
    BY <1>4, <2>3 DEF CallsOf
  <2> QED BY <2>1, <2>2, <2>4
<1>8. ASSUME Unique(list), \A d \in CallsOf(list) : d.id # c.id
      PROVE  Unique(new)
  <2> SUFFICES ASSUME NEW i \in 1 .. Len(new), NEW j \in 1 .. Len(new),
                      new[i].id = new[j].id
               PROVE  i = j
    BY DEF Unique
  <2>0. \A a \in 1 .. Len(list) : list[a].id # c.id
    BY <1>8 DEF CallsOf
  <2>1. CASE i = k
    BY <1>4, <1>6, <2>0, <2>1
  <2>2. CASE j = k
    BY <1>4, <1>6, <2>0, <2>2
  <2>3. CASE i # k /\ j # k
    <3> DEFINE a == IF i < k THEN i ELSE i - 1
               b == IF j < k THEN j ELSE j - 1
    <3>1. /\ a \in 1 .. Len(list) /\ b \in 1 .. Len(list)
          /\ new[i] = list[a] /\ new[j] = list[b]
      BY <1>6, <2>3
    <3> HIDE DEF a, b
    <3>2. a = b
      BY <1>8, <3>1 DEF Unique
    <3> QED BY <1>1, <1>2, <1>3, <2>3, <3>2 DEF a, b
  <2> QED BY <2>1, <2>2, <2>3
<1> QED BY <1>3, <1>7, <1>8 DEF new

\* What RemoveAt takes from a list.
LEMMA RemoveCallTakes ==
  ASSUME NEW list \in Seq(Call), Unique(list), NEW k \in 1 .. Len(list)
  PROVE  /\ CallsOf(RemoveAt(list, k)) = CallsOf(list) \ {list[k]}
         /\ Len(RemoveAt(list, k)) = Len(list) - 1
         /\ Unique(RemoveAt(list, k))
<1> DEFINE new == RemoveAt(list, k)
<1>1. /\ new \in Seq(Call)
      /\ Len(new) = Len(list) - 1
      /\ \A j \in 1 .. Len(list) - 1 :
           new[j] = IF j < k THEN list[j] ELSE list[j + 1]
  BY RemoveAtProperties
<1>2. Len(list) \in Nat
  OBVIOUS
<1> HIDE DEF new
<1>3. ASSUME NEW j \in 1 .. Len(new)
      PROVE  /\ (IF j < k THEN j ELSE j + 1) \in 1 .. Len(list) \ {k}
             /\ new[j] = list[IF j < k THEN j ELSE j + 1]
  BY <1>1, <1>2
<1>4. ASSUME NEW i \in 1 .. Len(list), i # k
      PROVE  \E j \in 1 .. Len(new) : new[j] = list[i]
  <2>1. CASE i < k
    BY <1>1, <1>2, <2>1
  <2>2. CASE i > k
    <3>1. /\ i - 1 \in 1 .. Len(list) - 1 /\ ~(i - 1 < k)
          /\ (i - 1) + 1 = i
      BY <1>2, <2>2
    <3> QED BY <1>1, <3>1
  <2> QED BY <1>2, <1>4, <2>1, <2>2
<1>5. \A i \in 1 .. Len(list) : list[i] = list[k] => i = k
  BY DEF Unique
<1>6. CallsOf(new) = CallsOf(list) \ {list[k]}
  <2>1. \A x \in CallsOf(new) : x \in CallsOf(list) \ {list[k]}
    BY <1>3, <1>5 DEF CallsOf
  <2>2. \A x \in CallsOf(list) \ {list[k]} : x \in CallsOf(new)
    BY <1>4 DEF CallsOf
  <2> QED BY <2>1, <2>2
<1>7. Unique(new)
  <2> SUFFICES ASSUME NEW i \in 1 .. Len(new), NEW j \in 1 .. Len(new),
                      new[i].id = new[j].id
               PROVE  i = j
    BY DEF Unique
  <2> DEFINE a == IF i < k THEN i ELSE i + 1
             b == IF j < k THEN j ELSE j + 1
  <2>1. /\ a \in 1 .. Len(list) /\ b \in 1 .. Len(list)
        /\ new[i] = list[a] /\ new[j] = list[b]
    BY <1>3
  <2> HIDE DEF a, b
  <2>2. a = b
    BY <2>1 DEF Unique
  <2> QED BY <1>1, <1>2, <2>2 DEF a, b
<1> QED BY <1>1, <1>6, <1>7 DEF new

\* Taking the first call off is RemoveAt(list, 1).
LEMMA TailTakes ==
  ASSUME NEW list \in Seq(Call), Unique(list), list # <<>>
  PROVE  /\ CallsOf(Tail(list)) = CallsOf(list) \ {list[1]}
         /\ Len(Tail(list)) = Len(list) - 1
         /\ Unique(Tail(list))
<1>1. /\ Tail(list) \in Seq(Call)
      /\ Len(Tail(list)) = Len(list) - 1
      /\ \A j \in 1 .. Len(Tail(list)) : Tail(list)[j] = list[j + 1]
  BY HeadTailProperties
<1>2. Len(list) \in Nat /\ 1 \in 1 .. Len(list)
  OBVIOUS
<1>3. /\ RemoveAt(list, 1) \in Seq(Call)
      /\ Len(RemoveAt(list, 1)) = Len(list) - 1
      /\ \A j \in 1 .. Len(list) - 1 :
           RemoveAt(list, 1)[j] = IF j < 1 THEN list[j] ELSE list[j + 1]
  BY <1>2, RemoveAtProperties
<1>4. \A j \in 1 .. Len(Tail(list)) : Tail(list)[j] = RemoveAt(list, 1)[j]
  BY <1>1, <1>2, <1>3
<1>5. Tail(list) = RemoveAt(list, 1)
  BY <1>1, <1>3, <1>4, SeqEqual
<1> QED BY <1>2, <1>5, RemoveCallTakes

\* Where in the loop a step is taken that has one of the effects below.  A
\* step of LPC code leaves LPC code running ...
LpcCause == InLpc /\ pc' = pc /\ Dead' = Dead

\* ... a call is fired by the walk of the wheel, and executed ...
FiredCause == pc = "scan" /\ pc' \in {"lpc", "failed"} /\ Dead' = Dead

\* ... the function of a fired call fails ...
ErrorCause ==
  /\ pc \in {"lpc", "failed"}
  /\ pc' = "scan"
  /\ current' = NoCurrent
  /\ Dead' = Dead

\* ... which removes the call with the id it has; LPC code removes any ...
RemovedCause(o, k) ==
  \/ LpcCause /\ current' = current
  \/ /\ ErrorCause
     /\ current.id # 0
     /\ o = current.ob
     /\ calls[o][k].id = current.id

\* ... an object loses its calls when it is freed, or by LPC code ...
EmptiedCause(o) ==
  \/ pc = "clean" /\ pc' = pc /\ o \in Dead /\ Dead' = Dead
  \/ InLpc /\ pc' = pc /\ Dead' \in {Dead, Dead \cup {o}}

\* ... and where no call changes, the clock moves, or LPC code begins, ends,
\* goes on, or fails without a repeating call to turn off.
QuietCause ==
  /\ Dead' = Dead
  /\ \/ pc = "top" /\ pc' = "clean" /\ current' = current
     \/ /\ UNCHANGED <<alarm_time, current>>
        /\ pc' = pc \/ {pc, pc'} \cap {"lpc", "failed"} = {}
     \/ pc = "lpc" /\ pc' = "scan" /\ current' = NoCurrent
        /\ UNCHANGED alarm_time
     \/ /\ ErrorCause
        /\ current.id = 0 \/ CallsWithId(current.ob, current.id) = {}
        /\ UNCHANGED alarm_time

\* A step changes the lists in one of six ways.  Nothing changes ...
Quiet ==
  /\ UNCHANGED <<calls, num_call, call_id>>
  /\ current' \in {current, NoCurrent}
  /\ alarm_time' \in Nat
  /\ alarm_time' >= alarm_time
  /\ QuietCause

\* ... or one object loses all of its calls ...
Emptied(o) ==
  /\ calls' = [calls EXCEPT ![o] = <<>>]
  /\ num_call' = num_call - Len(calls[o])
  /\ UNCHANGED <<call_id, current, alarm_time>>
  /\ EmptiedCause(o)

\* ... or one of them ...
OneRemoved(o, k) ==
  /\ k \in 1 .. Len(calls[o])
  /\ calls' = [calls EXCEPT ![o] = RemoveAt(calls[o], k)]
  /\ num_call' = num_call - 1
  /\ current' \in {current, NoCurrent}
  /\ UNCHANGED <<call_id, alarm_time>>
  /\ RemovedCause(o, k)

\* ... or gets a new one, due in the future ...
OneSet(o, c) ==
  /\ c.id = call_id
  /\ c.when > alarm_time
  /\ calls' = [calls EXCEPT ![o] = InsertCall(calls[o], c)]
  /\ num_call' = num_call + 1
  /\ call_id' = call_id + 1
  /\ UNCHANGED <<current, alarm_time>>
  /\ LpcCause

\* ... or the first of its calls is fired ...
OneFired(o) ==
  LET c == calls[o][1]
      again == Rescheduled(c)
      rest == Tail(calls[o])
  IN  /\ calls[o] # <<>>
      /\ c.when <= alarm_time
      /\ \A p \in Objects : NoneBefore(calls[p], c.when)
      /\ calls' = [calls EXCEPT ![o] = IF c.reload > 0 THEN InsertCall(rest, again)
                                       ELSE rest]
      /\ num_call' = IF c.reload > 0 THEN num_call ELSE num_call - 1
      /\ current' = [ob |-> o, id |-> IF c.reload > 0 THEN c.id ELSE 0]
      /\ UNCHANGED <<call_id, alarm_time>>
      /\ FiredCause

\* ... or all its calls move to the object that is to replace it.
Moved(o, n) ==
  /\ o # n
  /\ o \in Resident
  /\ calls[n] = <<>>
  /\ calls' = [calls EXCEPT ![o] = calls[n], ![n] = calls[o]]
  /\ UNCHANGED <<num_call, call_id, current, alarm_time>>
  /\ LpcCause

\* There is no seventh way.
LEMMA StepEffect ==
  ASSUME IInv, FreedInv, [Next]_vars
  PROVE  \/ Quiet
         \/ \E o \in Objects : Emptied(o) \/ OneFired(o)
         \/ \E o \in Objects : \E k \in 1 .. Len(calls[o]) : OneRemoved(o, k)
         \/ \E o \in Objects, c \in Call : OneSet(o, c)
         \/ \E o, n \in Objects : Moved(o, n)
<1> USE DEF queue
<1>0. alarm_time \in Nat /\ last \in Nat
  BY DEF IInv, TypeOK
<1>a. pc' # "fatal"
  BY NextIInv DEF IInv, NoFatal
<1>b. life' = life => Dead' = Dead
  BY DEF Dead, Destructed
<1>1. CASE BackendTop
  <2>1. /\ pc = "top" /\ pc' = "clean" /\ current' = current /\ life' = life
        /\ UNCHANGED <<calls, num_call, call_id>>
        /\ alarm_time' \in Nat /\ alarm_time' >= alarm_time
    BY <1>0, <1>1, BoundAssumption DEF BackendTop
  <2> QED BY <1>b, <2>1 DEF Quiet, QuietCause
<1>2. CASE DeliverSignals \/ CallOutEnter \/ ScanNext \/ ScanDone
           \/ CallOutReturn \/ SelectDone \/ Handler \/ LpcError
           \/ InhibitCallOuts \/ UNCHANGED vars
  <2>1. /\ UNCHANGED <<calls, num_call, call_id, alarm_time, life>>
        /\ current' \in {current, NoCurrent}
    BY <1>2 DEF DeliverSignals, CallOutEnter, ScanNext, ScanDone,
       CallOutReturn, SelectDone, Handler, LpcError, InhibitCallOuts, vars
  <2>2. \/ /\ current' = current
           /\ pc' = pc \/ {pc, pc'} \cap {"lpc", "failed"} = {}
        \/ pc = "lpc" /\ pc' = "scan" /\ current' = NoCurrent
    BY <1>2 DEF DeliverSignals, CallOutEnter, ScanNext, ScanDone,
       CallOutReturn, SelectDone, Handler, LpcError, InhibitCallOuts, vars
  <2>3. QuietCause
    BY <1>b, <2>1, <2>2 DEF QuietCause
  <2> QED BY <1>0, <2>1, <2>3 DEF Quiet
<1>4. CASE FireCall
  <2> DEFINE o == wheel[Slot(last)][1]
             c == calls[o][1]
  <2>1. /\ o \in Objects /\ calls[o] # <<>> /\ c.when <= alarm_time
        /\ \A p \in Objects : NoneBefore(calls[p], c.when)
    BY <1>4, FirstIsDue
  <2>2. /\ calls' = [calls EXCEPT ![o] =
                       IF c.reload > 0 THEN InsertCall(Tail(calls[o]), Rescheduled(c))
                       ELSE Tail(calls[o])]
        /\ num_call' = IF c.reload > 0 THEN num_call ELSE num_call - 1
        /\ current' = [ob |-> o, id |-> IF c.reload > 0 THEN c.id ELSE 0]
        /\ UNCHANGED <<call_id, alarm_time>>
    BY <1>4 DEF FireCall, SetCalls
  <2>a. pc = "scan" /\ pc' \in {"fatal", "lpc", "failed"} /\ life' = life
    BY <1>4 DEF FireCall
  <2>b. FiredCause
    BY <1>a, <1>b, <2>a DEF FiredCause
  <2> HIDE DEF o
  <2>3. OneFired(o)
    BY <2>1, <2>2, <2>b DEF OneFired
  <2> QED BY <2>1, <2>3
<1>8. CASE CallOutError
  <2>1. CASE current.id # 0 /\ CallsWithId(current.ob, current.id) # {}
    <3> DEFINE o == current.ob
               k == Min(CallsWithId(o, current.id))
    <3>1. o \in Objects
      <4>1. current \in Current \cup {NoCurrent} /\ current # NoCurrent
        BY <2>1 DEF IInv, TypeOK, NoCurrent
      <4> QED BY <4>1 DEF Current
    <3>2. k \in 1 .. Len(calls[o]) /\ calls[o][k].id = current.id
      <4>1. CallsWithId(o, current.id) \in SUBSET Nat
        BY <3>1 DEF CallsWithId
      <4>2. k \in CallsWithId(o, current.id)
        BY <2>1, <4>1, MinIsLeast
      <4> QED BY <2>1, <3>1, <4>2, CallsWithIdType DEF CallsWithId
    <3>3. /\ delete_call(o, k, "scan") /\ current' = NoCurrent
          /\ UNCHANGED <<call_id, alarm_time, life>>
          /\ pc \in {"lpc", "failed"}
      BY <1>8, <2>1 DEF CallOutError
    <3> HIDE DEF k
    <3>c. pc' = "scan"
      BY <1>a, <3>3 DEF delete_call, After
    <3>d. RemovedCause(o, k)
      BY <1>b, <2>1, <3>2, <3>3, <3>c DEF RemovedCause, ErrorCause
    <3> HIDE DEF o
    <3>4. OneRemoved(o, k)
      BY <3>2, <3>3, <3>d DEF OneRemoved, delete_call, SetCalls
    <3> QED BY <3>1, <3>2, <3>4
  <2>2. CASE ~(current.id # 0 /\ CallsWithId(current.ob, current.id) # {})
    <3>1. /\ pc \in {"lpc", "failed"} /\ pc' = "scan" /\ current' = NoCurrent
          /\ UNCHANGED <<calls, num_call, call_id, alarm_time, life>>
      BY <1>8, <2>2 DEF CallOutError
    <3>2. ErrorCause
      BY <1>b, <3>1 DEF ErrorCause
    <3>3. QuietCause
      BY <1>b, <2>2, <3>1, <3>2 DEF QuietCause
    <3> QED BY <1>0, <3>1, <3>3 DEF Quiet
  <2> QED BY <2>1, <2>2
<1>10. ASSUME NEW o \in Objects,
              Destruct2(o) \/ TooManyAlarms(o) \/ Destruct(o)
       PROVE  Emptied(o)
  <2>1. /\ calls' = [calls EXCEPT ![o] = <<>>]
        /\ num_call' = num_call - Len(calls[o])
        /\ UNCHANGED <<call_id, current, alarm_time>>
        /\ pc' = pc
    BY <1>a, <1>10 DEF Destruct2, TooManyAlarms, Destruct, delete_all_calls,
       SetCalls, After
  <2>2. life \in [Objects -> Lives]
    BY DEF IInv, TypeOK
  <2>3. CASE Destruct2(o)
    <3>1. pc = "clean" /\ life[o] = "destructed"
          /\ life' = [life EXCEPT ![o] = "gone"]
      BY <2>3 DEF Destruct2
    <3>2. o \in Dead /\ Dead' = Dead
      BY <2>2, <3>1 DEF Dead, Destructed
    <3> QED BY <2>1, <3>1, <3>2 DEF Emptied, EmptiedCause
  <2>4. CASE TooManyAlarms(o)
    <3>1. InLpc /\ life' = life
      BY <2>4 DEF TooManyAlarms, Running
    <3> QED BY <1>b, <2>1, <3>1 DEF Emptied, EmptiedCause
  <2>5. CASE Destruct(o)
    <3>1. InLpc /\ life' = [life EXCEPT ![o] = "destructed"]
      BY <2>5 DEF Destruct
    <3>2. Dead' = Dead \cup {o}
      BY <2>2, <3>1 DEF Dead, Destructed
    <3> QED BY <2>1, <3>1, <3>2 DEF Emptied, EmptiedCause
  <2> QED BY <1>10, <2>3, <2>4, <2>5
<1>16. ASSUME NEW o \in Objects, Create(o) PROVE Quiet
  <2>1. /\ life \in [Objects -> Lives] /\ life[o] = "none"
        /\ life' = [life EXCEPT ![o] = "live"]
        /\ UNCHANGED <<calls, num_call, call_id, alarm_time, current, pc>>
    BY <1>16 DEF Create, IInv, TypeOK
  <2>2. Dead' = Dead
    BY <2>1 DEF Dead, Destructed
  <2>3. QuietCause
    BY <2>1, <2>2 DEF QuietCause
  <2> QED BY <1>0, <2>1, <2>3 DEF Quiet
<1>18. ASSUME NEW o \in Objects, NEW id \in 1 .. MaxId, RemoveAlarm(o, id)
       PROVE  \E k \in 1 .. Len(calls[o]) : OneRemoved(o, k)
  <2> DEFINE k == Min(CallsWithId(o, id))
  <2>1. /\ CallsWithId(o, id) # {} /\ delete_call(o, k, pc)
        /\ UNCHANGED <<call_id, alarm_time, current, life>> /\ InLpc
    BY <1>18 DEF RemoveAlarm, Running
  <2>2. k \in 1 .. Len(calls[o])
    BY <2>1, CallsWithIdType
  <2> HIDE DEF k
  <2>3. RemovedCause(o, k)
    BY <1>a, <1>b, <2>1 DEF delete_call, After, RemovedCause, LpcCause
  <2> QED BY <2>1, <2>2, <2>3 DEF delete_call, SetCalls, OneRemoved
<1>19. ASSUME NEW o \in Objects, NEW n \in Objects, Reload(o, n)
       PROVE  Moved(o, n)
  <2>1. /\ life \in [Objects -> Lives] /\ life[n] = "none" /\ InLpc
        /\ life' = [life EXCEPT ![n] = "live"]
    BY <1>19 DEF Reload, IInv, TypeOK
  <2>2. Dead' = Dead
    BY <2>1 DEF Dead, Destructed
  <2>3. pc' = pc
    BY <1>a, <1>19 DEF Reload, call_out_swap_objects
  <2>4. LpcCause
    BY <2>1, <2>2, <2>3 DEF LpcCause
  <2> QED BY <1>19, <2>4 DEF Reload, call_out_swap_objects, Moved, FreedInv
<1>20. ASSUME NEW o \in Objects, NEW f \in Closures, NEW delay \in Delays,
              NEW reload \in Reloads, SetAlarm(o, f, delay, reload)
       PROVE  \E c \in Call : OneSet(o, c)
  <2> DEFINE c == NewCall(delay, reload, f)
  <2>1. delay \in Int /\ reload \in Int /\ call_id \in Nat
    BY BoundAssumption DEF IInv, TypeOK
  <2>2. c \in Call /\ c.when > alarm_time /\ c.id = call_id
    BY <1>0, <2>1 DEF NewCall, Call
  <2>3. /\ calls' = [calls EXCEPT ![o] = InsertCall(calls[o], c)]
        /\ num_call' = num_call + 1 /\ call_id' = call_id + 1
        /\ UNCHANGED <<current, alarm_time>>
    BY <1>20 DEF SetAlarm, new_call_out, SetCalls
  <2>4. InLpc /\ life' = life
    BY <1>20 DEF SetAlarm, Running
  <2>5. pc' = pc
    BY <1>a, <1>20 DEF SetAlarm, new_call_out
  <2>6. LpcCause
    BY <1>b, <2>4, <2>5 DEF LpcCause
  <2> HIDE DEF c
  <2> QED BY <2>2, <2>3, <2>6 DEF OneSet
<1>22. CASE Loop
  BY <1>1, <1>2, <1>4, <1>8, <1>10, <1>22 DEF Loop
<1>23. CASE Lpc
  BY <1>2, <1>10, <1>16, <1>18, <1>19, <1>20, <1>23 DEF Lpc
<1> QED BY <1>2, <1>22, <1>23 DEF Next

-----------------------------------------------------------------------------
(* Alarm ids *)

\* No two pending calls have the same id, in whatever lists they are, and no
\* id, not even that of the call being executed, is handed out again.
IdInv ==
  /\ \A o \in Objects : Unique(calls[o])
  /\ \A o \in Objects : \A c \in CallsOf(calls[o]) : c.id < call_id
  /\ \A o, p \in Objects : \A c \in CallsOf(calls[o]), d \in CallsOf(calls[p]) :
       c.id = d.id => o = p
  /\ current.id \in Nat
  /\ current.id < call_id

\* A fired call keeps its id.
LEMMA RescheduledType ==
  ASSUME NEW c \in Call, alarm_time \in Nat
  PROVE  /\ Rescheduled(c) \in Call
         /\ Rescheduled(c).id = c.id
         /\ Rescheduled(c).reload = c.reload
         /\ Rescheduled(c).when = alarm_time + c.reload
BY DEF Rescheduled, Call

\* The elements of a list of calls are calls.
LEMMA CallsOfType ==
  ASSUME NEW list \in Seq(Call)
  PROVE  /\ \A c \in CallsOf(list) : c \in Call /\ c.id \in Nat
         /\ \A i \in 1 .. Len(list) : list[i] \in CallsOf(list)
<1>1. \A i \in 1 .. Len(list) : list[i] \in Call
  BY ElementOfSeq
<1>2. \A c \in Call : c.id \in Nat
  BY DEF Call
<1> QED BY <1>1, <1>2 DEF CallsOf

\* The empty list has no calls.
LEMMA CallsOfEmpty == CallsOf(<<>>) = {} /\ Unique(<<>>)
BY DEF CallsOf, Unique

\* What the list of the object that is fired is afterwards.
LEMMA FiredList ==
  ASSUME IInv, IdInv, NEW o \in Objects, OneFired(o), NEW c, c = calls[o][1]
  PROVE  /\ c \in Call /\ c \in CallsOf(calls[o])
         /\ c.reload > 0 => CallsOf(calls'[o])
                              = (CallsOf(calls[o]) \ {c}) \cup {Rescheduled(c)}
         /\ ~(c.reload > 0) => CallsOf(calls'[o]) = CallsOf(calls[o]) \ {c}
         /\ Unique(calls'[o])
         /\ Len(calls'[o]) = IF c.reload > 0 THEN Len(calls[o])
                             ELSE Len(calls[o]) - 1
         /\ \A p \in Objects : p # o => calls'[p] = calls[p]
<1> DEFINE rest == Tail(calls[o])
           again == Rescheduled(c)
<1>0. calls \in [Objects -> Seq(Call)] /\ alarm_time \in Nat
  BY DEF IInv, TypeOK
<1>1. calls[o] \in Seq(Call) /\ Sorted(calls[o]) /\ Unique(calls[o])
  BY ListOf DEF IdInv
<1>2. calls[o] # <<>>
  BY DEF OneFired
<1>3. 1 \in 1 .. Len(calls[o]) /\ Len(calls[o]) \in Nat
  BY <1>1, <1>2
<1>4. c \in Call /\ c \in CallsOf(calls[o]) /\ c.reload \in Nat
  <2>1. c \in Call /\ c \in CallsOf(calls[o])
    BY <1>1, <1>3, CallsOfType
  <2> QED BY <2>1 DEF Call
<1>5. /\ rest \in Seq(Call) /\ Sorted(rest)
      /\ CallsOf(rest) = CallsOf(calls[o]) \ {c}
      /\ Len(rest) = Len(calls[o]) - 1 /\ Unique(rest)
  BY <1>1, <1>2, TailSorted, TailTakes
<1>6. /\ again \in Call /\ again.id = c.id
  BY <1>0, <1>4, RescheduledType
<1>7. \A d \in CallsOf(rest) : d.id # again.id
  <2> SUFFICES ASSUME NEW d \in CallsOf(calls[o]), d # c PROVE d.id # c.id
    BY <1>5, <1>6
  <2>1. PICK i \in 1 .. Len(calls[o]) : d = calls[o][i]
    BY DEF CallsOf
  <2> QED BY <1>1, <1>3, <2>1 DEF Unique
<1>8. /\ calls'[o] = IF c.reload > 0 THEN InsertCall(rest, again) ELSE rest
      /\ \A p \in Objects : p # o => calls'[p] = calls[p]
  BY <1>0 DEF OneFired
<1> HIDE DEF rest, again
<1>9. CASE c.reload > 0
  <2>1. /\ CallsOf(InsertCall(rest, again)) = CallsOf(rest) \cup {again}
        /\ Len(InsertCall(rest, again)) = Len(rest) + 1
        /\ Unique(InsertCall(rest, again))
    BY <1>5, <1>6, <1>7, InsertCallAdds
  <2>2. Len(calls'[o]) = Len(calls[o])
    BY <1>3, <1>5, <1>8, <1>9, <2>1
  <2> QED BY <1>4, <1>5, <1>8, <1>9, <2>1, <2>2 DEF again
<1>10. CASE ~(c.reload > 0)
  BY <1>4, <1>5, <1>8, <1>10
<1> QED BY <1>9, <1>10

\* What the list of an object is after a call was set.
LEMMA SetList ==
  ASSUME IInv, IdInv, NEW o \in Objects, NEW c \in Call, OneSet(o, c)
  PROVE  /\ CallsOf(calls'[o]) = CallsOf(calls[o]) \cup {c}
         /\ \A d \in CallsOf(calls[o]) : d.id # c.id
         /\ Unique(calls'[o])
         /\ Len(calls'[o]) = Len(calls[o]) + 1
         /\ \A p \in Objects : p # o => calls'[p] = calls[p]
<1>0. calls \in [Objects -> Seq(Call)] /\ call_id \in Nat
  BY DEF IInv, TypeOK
<1>1. calls[o] \in Seq(Call) /\ Sorted(calls[o]) /\ Unique(calls[o])
  BY ListOf DEF IdInv
<1>2. ASSUME NEW d \in CallsOf(calls[o]) PROVE d.id # c.id
  <2>1. d.id < call_id /\ c.id = call_id /\ d.id \in Nat
    BY <1>1, CallsOfType DEF IdInv, OneSet
  <2> QED BY <1>0, <2>1
<1>3. /\ calls'[o] = InsertCall(calls[o], c)
      /\ \A p \in Objects : p # o => calls'[p] = calls[p]
  BY <1>0 DEF OneSet
<1> QED BY <1>1, <1>2, <1>3, InsertCallAdds

\* What the list of an object is after one of its calls was removed.
LEMMA RemovedList ==
  ASSUME IInv, IdInv, NEW o \in Objects, NEW k, OneRemoved(o, k)
  PROVE  /\ calls[o][k] \in CallsOf(calls[o])
         /\ CallsOf(calls'[o]) = CallsOf(calls[o]) \ {calls[o][k]}
         /\ Unique(calls'[o])
         /\ Len(calls'[o]) = Len(calls[o]) - 1
         /\ \A p \in Objects : p # o => calls'[p] = calls[p]
<1>0. calls \in [Objects -> Seq(Call)]
  BY DEF IInv, TypeOK
<1>1. calls[o] \in Seq(Call) /\ Unique(calls[o]) /\ k \in 1 .. Len(calls[o])
  BY ListOf DEF IdInv, OneRemoved
<1>2. /\ calls'[o] = RemoveAt(calls[o], k)
      /\ \A p \in Objects : p # o => calls'[p] = calls[p]
  BY <1>0 DEF OneRemoved
<1> QED BY <1>1, <1>2, RemoveCallTakes, CallsOfType

\* A list whose ids are old ones of the same object, or the new one, keeps
\* the ids apart.
LEMMA IdsKept ==
  ASSUME IInv, IdInv, NEW o \in Objects,
         \A p \in Objects : p # o => calls'[p] = calls[p],
         Unique(calls'[o]),
         call_id' \in Nat, call_id' >= call_id,
         current'.id \in Nat, current'.id < call_id',
         \A c \in CallsOf(calls'[o]) :
           \/ \E d \in CallsOf(calls[o]) : c.id = d.id
           \/ c.id = call_id /\ call_id' = call_id + 1
  PROVE  IdInv'
<1>0. call_id \in Nat /\ calls \in [Objects -> Seq(Call)]
  BY DEF IInv, TypeOK
<1>1. \A p \in Objects : \A c \in CallsOf(calls[p]) :
        c.id < call_id /\ c.id \in Nat
  BY <1>0, CallsOfType DEF IdInv
<1>2. ASSUME NEW p \in Objects PROVE Unique(calls'[p])
  BY DEF IdInv
<1>3. ASSUME NEW p \in Objects, NEW c \in CallsOf(calls'[p])
      PROVE  c.id < call_id'
  <2>1. CASE p # o
    BY <1>0, <1>1, <2>1
  <2>2. CASE p = o
    <3>1. CASE \E d \in CallsOf(calls[o]) : c.id = d.id
      BY <1>0, <1>1, <3>1
    <3>2. CASE c.id = call_id /\ call_id' = call_id + 1
      BY <1>0, <3>2
    <3> QED BY <2>2, <3>1, <3>2
  <2> QED BY <2>1, <2>2
<1>4. ASSUME NEW p \in Objects, p # o, NEW c \in CallsOf(calls'[o]),
             NEW d \in CallsOf(calls'[p]), c.id = d.id
      PROVE  FALSE
  <2>1. d \in CallsOf(calls[p]) /\ d.id < call_id /\ d.id \in Nat
    BY <1>1, <1>4
  <2>2. CASE \E e \in CallsOf(calls[o]) : c.id = e.id
    BY <1>4, <2>1, <2>2 DEF IdInv
  <2>3. CASE c.id = call_id
    BY <1>0, <1>4, <2>1, <2>3
  <2> QED BY <2>2, <2>3
<1>5. ASSUME NEW p \in Objects, NEW r \in Objects,
             NEW c \in CallsOf(calls'[p]), NEW d \in CallsOf(calls'[r]),
             c.id = d.id
      PROVE  p = r
  <2>1. CASE p = o
    BY <1>4, <1>5, <2>1
  <2>2. CASE r = o
    BY <1>4, <1>5, <2>2
  <2>3. CASE p # o /\ r # o
    BY <1>5, <2>3 DEF IdInv
  <2> QED BY <2>1, <2>2, <2>3
<1> QED BY <1>2, <1>3, <1>5 DEF IdInv

\* Every step keeps the ids apart.
LEMMA NextIds == IInv /\ FreedInv /\ IdInv /\ [Next]_vars => IdInv'
<1> SUFFICES ASSUME IInv, FreedInv, IdInv, [Next]_vars PROVE IdInv'
  OBVIOUS
<1>0. /\ call_id \in Nat /\ call_id > 0 /\ calls \in [Objects -> Seq(Call)]
      /\ current.id \in Nat /\ current.id < call_id /\ NoCurrent.id = 0
  BY DEF IInv, TypeOK, IdInv, NoCurrent
<1>1. CASE Quiet
  <2>1. /\ UNCHANGED <<calls, call_id>>
        /\ current'.id \in Nat /\ current'.id < call_id'
    BY <1>0, <1>1 DEF Quiet
  <2> QED BY <2>1 DEF IdInv
<1>2. ASSUME NEW o \in Objects, Emptied(o) PROVE IdInv'
  <2>1. /\ calls'[o] = <<>> /\ \A p \in Objects : p # o => calls'[p] = calls[p]
        /\ call_id' = call_id /\ current' = current
    BY <1>0, <1>2 DEF Emptied
  <2>2. CallsOf(calls'[o]) = {} /\ Unique(calls'[o])
    BY <2>1, CallsOfEmpty
  <2> QED BY <1>0, <2>1, <2>2, IdsKept
<1>3. ASSUME NEW o \in Objects, OneFired(o) PROVE IdInv'
  <2> DEFINE c == calls[o][1]
  <2>1. /\ c \in Call /\ c \in CallsOf(calls[o])
        /\ c.reload > 0 => CallsOf(calls'[o])
                             = (CallsOf(calls[o]) \ {c}) \cup {Rescheduled(c)}
        /\ ~(c.reload > 0) => CallsOf(calls'[o]) = CallsOf(calls[o]) \ {c}
        /\ Unique(calls'[o])
        /\ \A p \in Objects : p # o => calls'[p] = calls[p]
    BY <1>3, FiredList
  <2>2. /\ current'.id = IF c.reload > 0 THEN c.id ELSE 0
        /\ call_id' = call_id
    BY <1>3 DEF OneFired
  <2> HIDE DEF c
  <2>3. Rescheduled(c).id = c.id
    BY <2>1, RescheduledType DEF IInv, TypeOK
  <2>4. c.id \in Nat /\ c.id < call_id
    BY <2>1 DEF Call, IdInv
  <2>5. current'.id \in Nat /\ current'.id < call_id'
    BY <1>0, <2>2, <2>4
  <2>6. \A d \in CallsOf(calls'[o]) : \E e \in CallsOf(calls[o]) : d.id = e.id
    BY <2>1, <2>3
  <2> QED BY <1>0, <2>1, <2>2, <2>5, <2>6, IdsKept
<1>4. ASSUME NEW o \in Objects, NEW k \in 1 .. Len(calls[o]), OneRemoved(o, k)
      PROVE  IdInv'
  <2>1. /\ CallsOf(calls'[o]) = CallsOf(calls[o]) \ {calls[o][k]}
        /\ Unique(calls'[o])
        /\ \A p \in Objects : p # o => calls'[p] = calls[p]
    BY <1>4, RemovedList
  <2>2. call_id' = call_id /\ current' \in {current, NoCurrent}
    BY <1>4 DEF OneRemoved
  <2>3. current'.id \in Nat /\ current'.id < call_id'
    BY <1>0, <2>2
  <2> QED BY <1>0, <2>1, <2>2, <2>3, IdsKept
<1>5. ASSUME NEW o \in Objects, NEW c \in Call, OneSet(o, c) PROVE IdInv'
  <2>1. /\ CallsOf(calls'[o]) = CallsOf(calls[o]) \cup {c}
        /\ Unique(calls'[o])
        /\ \A p \in Objects : p # o => calls'[p] = calls[p]
    BY <1>5, SetList
  <2>2. call_id' = call_id + 1 /\ current' = current /\ c.id = call_id
    BY <1>5 DEF OneSet
  <2>3. /\ current'.id \in Nat /\ current'.id < call_id' /\ call_id' \in Nat
        /\ call_id' >= call_id
    BY <1>0, <2>2
  <2>4. \A d \in CallsOf(calls'[o]) :
          \/ \E e \in CallsOf(calls[o]) : d.id = e.id
          \/ d.id = call_id /\ call_id' = call_id + 1
    BY <2>1, <2>2
  <2> QED BY <2>1, <2>3, <2>4, IdsKept
<1>6. ASSUME NEW o \in Objects, NEW n \in Objects, Moved(o, n) PROVE IdInv'
  <2>1. /\ o # n /\ calls[n] = <<>> /\ calls'[o] = calls[n]
        /\ calls'[n] = calls[o]
        /\ \A p \in Objects \ {o, n} : calls'[p] = calls[p]
        /\ call_id' = call_id /\ current' = current
    BY <1>0, <1>6 DEF Moved
  <2>2. CallsOf(calls'[o]) = {} /\ Unique(calls'[o])
    BY <2>1, CallsOfEmpty
  <2>3. ASSUME NEW p \in Objects
        PROVE  /\ Unique(calls'[p])
               /\ \A c \in CallsOf(calls'[p]) : c.id < call_id
    BY <2>1, <2>2 DEF IdInv
  <2>4. ASSUME NEW p \in Objects, NEW r \in Objects,
               NEW c \in CallsOf(calls'[p]), NEW d \in CallsOf(calls'[r]),
               c.id = d.id
        PROVE  p = r
    <3> DEFINE old(x) == IF x = n THEN o ELSE x
    <3>1. p # o /\ r # o
      BY <2>2
    <3>2. c \in CallsOf(calls[old(p)]) /\ d \in CallsOf(calls[old(r)])
      BY <2>1, <3>1
    <3>3. old(p) = old(r)
      BY <2>4, <3>2 DEF IdInv
    <3> QED BY <2>1, <3>1, <3>3
  <2> QED BY <2>1, <2>3, <2>4 DEF IdInv
<1> QED BY <1>1, <1>2, <1>3, <1>4, <1>5, <1>6, StepEffect

\* Ids of pending calls are unique, in every reachable state.
THEOREM IdsUnique == Spec => []IdInv
<1>1. Init => IdInv
  <2> SUFFICES ASSUME Init PROVE IdInv
    OBVIOUS
  <2>1. \A o \in Objects : calls[o] = <<>>
    BY DEF Init
  <2>2. current.id = 0 /\ call_id = 1
    BY DEF Init, NoCurrent
  <2>3. \A o \in Objects : CallsOf(calls[o]) = {} /\ Unique(calls[o])
    BY <2>1, CallsOfEmpty
  <2> QED BY <2>2, <2>3 DEF IdInv
<1>2. IInv /\ FreedInv /\ IdInv /\ [Next]_vars => IdInv'
  BY NextIds
<1> QED
  BY <1>1, <1>2, Invariance, FreedInvariance, PTL DEF Spec

-----------------------------------------------------------------------------
(* The call being executed *)

\* current_call_out_object is set exactly while the function of a call runs,
\* or could not be run.
RunInv == current # NoCurrent <=> pc \in {"lpc", "failed"}

\* Every step keeps it.
LEMMA NextRuns == IInv /\ FreedInv /\ RunInv /\ [Next]_vars => RunInv'
<1> SUFFICES ASSUME IInv, FreedInv, RunInv, [Next]_vars PROVE RunInv'
  OBVIOUS
<1>1. CASE Quiet
  <2>1. QuietCause
    BY <1>1 DEF Quiet
  <2> QED BY <2>1 DEF QuietCause, ErrorCause, RunInv
<1>2. ASSUME NEW o \in Objects, Emptied(o) PROVE RunInv'
  BY <1>2 DEF Emptied, EmptiedCause, RunInv
<1>3. ASSUME NEW o \in Objects, OneFired(o) PROVE RunInv'
  <2>1. current'.ob = o /\ pc' \in {"lpc", "failed"}
    BY <1>3 DEF OneFired, FiredCause
  <2> QED BY <2>1, ObjectAssumption DEF NoCurrent, RunInv
<1>4. ASSUME NEW o \in Objects, NEW k \in 1 .. Len(calls[o]), OneRemoved(o, k)
      PROVE  RunInv'
  BY <1>4 DEF OneRemoved, RemovedCause, ErrorCause, LpcCause, RunInv
<1>5. ASSUME NEW o \in Objects, NEW c \in Call, OneSet(o, c) PROVE RunInv'
  BY <1>5 DEF OneSet, LpcCause, RunInv
<1>6. ASSUME NEW o \in Objects, NEW n \in Objects, Moved(o, n) PROVE RunInv'
  BY <1>6 DEF Moved, LpcCause, RunInv
<1> QED BY <1>1, <1>2, <1>3, <1>4, <1>5, <1>6, StepEffect

LEMMA Runs == Spec => []RunInv
<1>1. Init => RunInv
  BY DEF Init, RunInv
<1>2. IInv /\ FreedInv /\ RunInv /\ [Next]_vars => RunInv'
  BY NextRuns
<1> QED
  BY <1>1, <1>2, Invariance, FreedInvariance, PTL DEF Spec

-----------------------------------------------------------------------------
(* The wheel implements Alarms *)

\* A pending call as LPC code knows it, and all of them.
Rec(o, c) == [ob |-> o, id |-> c.id, when |-> c.when, reload |-> c.reload]
PendOf(cs) == UNION {{Rec(o, c) : c \in CallsOf(cs[o])} : o \in Objects}

\* Those of one object, and those of the others.
Part(o, list) == {Rec(o, c) : c \in CallsOf(list)}
Others(cs, o) == {p \in PendOf(cs) : p.ob # o}

\* What the refinement mapping puts for the set of pending calls.
LEMMA PendingIsPendOf ==
  PendingCalls = PendOf(calls) /\ PendingCalls' = PendOf(calls')
<1>1. PendingCalls = PendOf(calls)
  <2>1. \A o \in Objects :
          {[ob |-> o, id |-> calls[o][i].id, when |-> calls[o][i].when,
            reload |-> calls[o][i].reload] : i \in 1 .. Len(calls[o])}
          = {Rec(o, c) : c \in CallsOf(calls[o])}
    BY DEF Rec, CallsOf
  <2> QED BY <2>1 DEF PendingCalls, PendOf
<1>2. PendingCalls' = PendOf(calls')
  <2>1. \A o \in Objects :
          {[ob |-> o, id |-> calls'[o][i].id, when |-> calls'[o][i].when,
            reload |-> calls'[o][i].reload] : i \in 1 .. Len(calls'[o])}
          = {Rec(o, c) : c \in CallsOf(calls'[o])}
    BY DEF Rec, CallsOf
  <2> QED BY <2>1 DEF PendingCalls, PendOf
<1> QED BY <1>1, <1>2

\* Membership in the set of pending calls.
LEMMA PendMember ==
  ASSUME NEW cs, NEW p
  PROVE  p \in PendOf(cs) <=>
           \E o \in Objects : \E c \in CallsOf(cs[o]) : p = Rec(o, c)
BY DEF PendOf

\* The fields of a pending call.
LEMMA RecFields ==
  ASSUME NEW o, NEW c
  PROVE  /\ Rec(o, c).ob = o
         /\ Rec(o, c).id = c.id
         /\ Rec(o, c).when = c.when
         /\ Rec(o, c).reload = c.reload
         /\ \A w : [Rec(o, c) EXCEPT !.when = w]
                     = [ob |-> o, id |-> c.id, when |-> w, reload |-> c.reload]
         /\ \A x : [Rec(o, c) EXCEPT !.ob = x] = Rec(x, c)
BY DEF Rec

\* The calls of the other objects stay pending.
LEMMA PendChanged ==
  ASSUME NEW cs, NEW ds, NEW o \in Objects,
         \A p \in Objects : p # o => ds[p] = cs[p]
  PROVE  PendOf(ds) = Others(cs, o) \cup Part(o, ds[o])
<1> DEFINE R == {p \in PendOf(cs) : p.ob # o}
                  \cup {Rec(o, c) : c \in CallsOf(ds[o])}
<1>1. ASSUME NEW p \in PendOf(ds) PROVE p \in R
  <2>1. PICK q \in Objects : \E c \in CallsOf(ds[q]) : p = Rec(q, c)
    BY PendMember
  <2>2. PICK c \in CallsOf(ds[q]) : p = Rec(q, c)
    BY <2>1
  <2>3. CASE q = o
    BY <2>2, <2>3
  <2>4. CASE q # o
    <3>1. p.ob # o
      BY <2>2, <2>4, RecFields
    <3>2. c \in CallsOf(cs[q])
      BY <2>2, <2>4
    <3>3. p \in PendOf(cs)
      BY <2>2, <3>2, PendMember
    <3> QED BY <3>1, <3>3
  <2> QED BY <2>3, <2>4
<1>2. ASSUME NEW p \in R PROVE p \in PendOf(ds)
  <2>1. CASE p \in PendOf(cs) /\ p.ob # o
    <3>1. PICK q \in Objects : \E c \in CallsOf(cs[q]) : p = Rec(q, c)
      BY <2>1, PendMember
    <3>2. PICK c \in CallsOf(cs[q]) : p = Rec(q, c)
      BY <3>1
    <3>3. q # o
      BY <2>1, <3>2, RecFields
    <3>4. c \in CallsOf(ds[q])
      BY <3>2, <3>3
    <3> QED BY <3>2, <3>4, PendMember
  <2>2. CASE \E c \in CallsOf(ds[o]) : p = Rec(o, c)
    BY <2>2, PendMember
  <2> QED BY <2>1, <2>2
<1> QED BY <1>1, <1>2 DEF Others, Part

\* One object's part of the set of pending calls.
LEMMA PendPart ==
  ASSUME NEW cs, NEW o \in Objects
  PROVE  PendOf(cs) = Others(cs, o) \cup Part(o, cs[o])
BY PendChanged

\* Every step of the driver is a step of Alarms, or leaves all that Alarms
\* sees alone.
LEMMA StepKeepsPromise ==
  IInv /\ FreedInv /\ IdInv /\ RunInv /\ [Next]_vars
    => [Promise!ANext]_(<<alarm_time, PendingCalls, call_id, current, InLpc,
                          Dead>>)
<1> SUFFICES ASSUME IInv, FreedInv, IdInv, RunInv, [Next]_vars
             PROVE  \/ Promise!ANext
                    \/ UNCHANGED <<alarm_time, PendingCalls, call_id, current,
                                   InLpc, Dead>>
  OBVIOUS
<1>0. /\ call_id \in Nat /\ alarm_time \in Nat
      /\ calls \in [Objects -> Seq(Call)]
  BY DEF IInv, TypeOK
<1> DEFINE P == PendOf(calls)
           Q == PendOf(calls')
<1>p. PendingCalls = P /\ PendingCalls' = Q
  BY PendingIsPendOf
<1>1. CASE Quiet
  <2>1. /\ UNCHANGED <<calls, call_id>> /\ alarm_time' \in Nat
        /\ alarm_time' >= alarm_time /\ QuietCause
    BY <1>1 DEF Quiet
  <2>2. PendingCalls' = PendingCalls /\ Dead' = Dead
    BY <1>p, <2>1 DEF QuietCause
  <2>3. CASE pc = "top" /\ pc' = "clean" /\ current' = current
    <3>1. ~InLpc /\ InLpc' = InLpc /\ current = NoCurrent
      BY <2>3 DEF InLpc, RunInv
    <3>2. CASE alarm_time' = alarm_time
      BY <2>1, <2>2, <2>3, <3>1, <3>2
    <3>3. CASE alarm_time' # alarm_time
      <4>1. alarm_time' \in Int /\ alarm_time' > alarm_time
        BY <1>0, <2>1, <3>3
      <4>2. Promise!Tick
        BY <2>1, <2>2, <2>3, <3>1, <4>1 DEF Promise!Tick, Promise!Idle
      <4> QED BY <4>2 DEF Promise!ANext
    <3> QED BY <3>2, <3>3
  <2>4. CASE /\ UNCHANGED <<alarm_time, current>>
             /\ pc' = pc \/ {pc, pc'} \cap {"lpc", "failed"} = {}
    <3>1. CASE InLpc' <=> InLpc
      <4>1. InLpc' = InLpc
        BY <3>1 DEF InLpc
      <4> QED BY <2>1, <2>2, <2>4, <4>1
    <3>2. CASE ~(InLpc' <=> InLpc)
      <4>1. pc \notin {"lpc", "failed"}
        BY <2>4, <3>2 DEF InLpc
      <4>2. current = NoCurrent /\ current' = NoCurrent
        BY <2>4, <4>1 DEF RunInv
      <4>3. CASE InLpc
        <5>1. InLpc' = FALSE
          BY <3>2, <4>3 DEF InLpc
        <5>2. Promise!End
          BY <2>1, <2>2, <2>4, <4>2, <4>3, <5>1 DEF Promise!End
        <5> QED BY <5>2 DEF Promise!ANext
      <4>4. CASE ~InLpc
        <5>1. InLpc' = TRUE
          BY <3>2, <4>4 DEF InLpc
        <5>2. Promise!Begin
          BY <2>1, <2>2, <2>4, <4>2, <4>4, <5>1 DEF Promise!Begin, Promise!Idle
        <5> QED BY <5>2 DEF Promise!ANext
      <4> QED BY <4>3, <4>4
    <3> QED BY <3>1, <3>2
  <2>5. CASE pc = "lpc" /\ pc' = "scan" /\ current' = NoCurrent
             /\ UNCHANGED alarm_time
    <3>1. InLpc /\ InLpc' = FALSE
      BY <2>5 DEF InLpc
    <3>2. Promise!End
      BY <2>1, <2>2, <2>5, <3>1 DEF Promise!End
    <3> QED BY <3>2 DEF Promise!ANext
  <2>6. CASE /\ ErrorCause
             /\ current.id = 0 \/ CallsWithId(current.ob, current.id) = {}
             /\ UNCHANGED alarm_time
    <3>1. /\ current # NoCurrent /\ current' = NoCurrent /\ InLpc' = FALSE
          /\ Dead' = Dead
      BY <2>6 DEF ErrorCause, RunInv, InLpc
    <3>2. current.id # 0 =>
            \A p \in P : p.ob # current.ob \/ p.id # current.id
      <4> SUFFICES ASSUME current.id # 0, NEW p \in P, p.ob = current.ob,
                          p.id = current.id
                   PROVE  FALSE
        OBVIOUS
      <4>1. PICK x \in Objects : \E c \in CallsOf(calls[x]) : p = Rec(x, c)
        BY PendMember
      <4>2. PICK c \in CallsOf(calls[x]) : p = Rec(x, c)
        BY <4>1
      <4>3. PICK i \in 1 .. Len(calls[x]) : c = calls[x][i]
        BY <4>2 DEF CallsOf
      <4>4. x = current.ob /\ calls[x][i].id = current.id
        BY <4>2, <4>3, RecFields
      <4> QED BY <2>6, <4>4 DEF CallsWithId
    <3> HIDE DEF P, Q
    <3>3. PendingCalls = {p \in PendingCalls : p.ob # current.ob
                                               \/ p.id # current.id}
          \/ current.id = 0
      BY <1>p, <3>2
    <3>4. Promise!Failed
      BY <2>1, <2>2, <2>6, <3>1, <3>3 DEF Promise!Failed
    <3> QED BY <3>4 DEF Promise!ANext
  <2> QED BY <2>1, <2>3, <2>4, <2>5, <2>6 DEF QuietCause
<1>2. ASSUME NEW o \in Objects, Emptied(o) PROVE Promise!ANext
  <2>1. /\ calls'[o] = <<>> /\ \A p \in Objects : p # o => calls'[p] = calls[p]
        /\ call_id' = call_id /\ alarm_time' = alarm_time
        /\ current' = current /\ EmptiedCause(o)
    BY <1>0, <1>2 DEF Emptied
  <2>2. CallsOf(calls'[o]) = {}
    BY <2>1, CallsOfEmpty
  <2>3. Q = {p \in P : p.ob # o}
    BY <2>1, <2>2, PendChanged DEF Others, Part
  <2> HIDE DEF P, Q
  <2>4. PendingCalls' = PendingCalls \ Promise!CallsOfObject(o)
    BY <1>p, <2>3 DEF Promise!CallsOfObject
  <2>5. InLpc' = InLpc
    BY <2>1 DEF EmptiedCause, InLpc
  <2>6. CASE pc = "clean" /\ pc' = pc /\ o \in Dead /\ Dead' = Dead
    <3>1. ~InLpc /\ current = NoCurrent
      BY <2>6 DEF InLpc, RunInv
    <3>2. Promise!Free(o)
      BY <2>1, <2>4, <2>5, <2>6, <3>1 DEF Promise!Free, Promise!Idle
    <3> QED BY <3>2 DEF Promise!ANext
  <2>7. CASE InLpc /\ Dead' = Dead
    <3>1. Promise!Overflow(o)
      BY <2>1, <2>4, <2>5, <2>7 DEF Promise!Overflow
    <3> QED BY <3>1 DEF Promise!ANext
  <2>8. CASE InLpc /\ Dead' = Dead \cup {o}
    <3>1. Promise!Destroy(o)
      BY <2>1, <2>4, <2>5, <2>8 DEF Promise!Destroy
    <3> QED BY <3>1 DEF Promise!ANext
  <2> QED BY <2>1, <2>6, <2>7, <2>8 DEF EmptiedCause
<1>3. ASSUME NEW o \in Objects, OneFired(o) PROVE Promise!ANext
  <2> DEFINE c == calls[o][1]
             again == Rescheduled(c)
             r == Rec(o, c)
             s == Rec(o, again)
  <2>1. /\ c \in Call /\ c \in CallsOf(calls[o])
        /\ c.reload > 0 => CallsOf(calls'[o])
                             = (CallsOf(calls[o]) \ {c}) \cup {again}
        /\ ~(c.reload > 0) => CallsOf(calls'[o]) = CallsOf(calls[o]) \ {c}
        /\ \A p \in Objects : p # o => calls'[p] = calls[p]
    BY <1>3, FiredList
  <2>2. /\ c.when <= alarm_time
        /\ \A p \in Objects : NoneBefore(calls[p], c.when)
        /\ call_id' = call_id /\ alarm_time' = alarm_time
        /\ current' = [ob |-> o, id |-> IF c.reload > 0 THEN c.id ELSE 0]
        /\ FiredCause
    BY <1>3 DEF OneFired
  <2> HIDE DEF c
  <2>3. /\ again.id = c.id /\ again.reload = c.reload
        /\ again.when = alarm_time + c.reload
    BY <1>0, <2>1, RescheduledType
  <2> HIDE DEF again
  <2>4. s = [r EXCEPT !.when = alarm_time + r.reload] /\ r.reload = c.reload
    BY <2>3, RecFields DEF Rec
  <2>5. \A d \in CallsOf(calls[o]) : Rec(o, d) = r => d = c
    <3> SUFFICES ASSUME NEW d \in CallsOf(calls[o]), Rec(o, d) = r PROVE d = c
      OBVIOUS
    <3>1. d.id = c.id
      BY RecFields
    <3>2. PICK i, j \in 1 .. Len(calls[o]) : d = calls[o][i] /\ c = calls[o][j]
      BY <2>1 DEF CallsOf
    <3> QED BY <3>1, <3>2 DEF IdInv, Unique
  <2>a. P = Others(calls, o) \cup Part(o, calls[o])
    BY PendPart
  <2>b. Q = Others(calls, o) \cup Part(o, calls'[o])
    BY <2>1, PendChanged
  <2>6. P = {p \in P : p.ob # o} \cup {Rec(o, d) : d \in CallsOf(calls[o])}
    BY <2>a DEF Others, Part
  <2>7. Q = {p \in P : p.ob # o} \cup {Rec(o, d) : d \in CallsOf(calls'[o])}
    BY <2>b DEF Others, Part
  <2>8. r.ob = o /\ r \in P /\ r.when = c.when /\ r.id = c.id
    BY <2>1, <2>6, RecFields
  <2> HIDE DEF P, Q, r, s
  <2>9. Q = (P \ {r}) \cup (IF c.reload > 0 THEN {s} ELSE {})
    <3>1. {Rec(o, d) : d \in CallsOf(calls[o]) \ {c}}
            = {Rec(o, d) : d \in CallsOf(calls[o])} \ {r}
      BY <2>5 DEF r
    <3>2. CASE c.reload > 0
      <4>1. {Rec(o, d) : d \in CallsOf(calls'[o])}
              = ({Rec(o, d) : d \in CallsOf(calls[o])} \ {r}) \cup {s}
        BY <2>1, <3>1, <3>2 DEF s
      <4> HIDE DEF s
      <4> QED BY <2>6, <2>7, <2>8, <3>2, <4>1
    <3>3. CASE ~(c.reload > 0)
      BY <2>1, <2>6, <2>7, <2>8, <3>1, <3>3
    <3> QED BY <3>2, <3>3
  <2>10. ASSUME NEW q \in P PROVE r.when <= q.when
    <3>1. PICK p \in Objects : \E d \in CallsOf(calls[p]) : q = Rec(p, d)
      BY PendMember DEF P
    <3>2. PICK d \in CallsOf(calls[p]) : q = Rec(p, d)
      BY <3>1
    <3>3. PICK i \in 1 .. Len(calls[p]) : d = calls[p][i]
      BY <3>2 DEF CallsOf
    <3>4. d.when >= c.when
      BY <2>2, <3>3 DEF NoneBefore
    <3>5. d.when \in Nat /\ c.when \in Nat
      <4>1. calls[p] \in Seq(Call)
        BY <1>0
      <4>2. d \in Call
        BY <3>2, <4>1, CallsOfType
      <4> QED BY <2>1, <4>2 DEF Call
    <3>6. q.when = d.when
      BY <3>2, RecFields
    <3> QED BY <2>8, <3>4, <3>5, <3>6
  <2>11. Promise!FirstDue(r)
    BY <1>p, <2>2, <2>8, <2>10 DEF Promise!FirstDue
  <2>c. /\ ~InLpc /\ InLpc' \in BOOLEAN /\ current = NoCurrent
        /\ Dead' = Dead
    BY <2>2 DEF FiredCause, InLpc, RunInv
  <2>d. current' = [ob |-> r.ob, id |-> IF r.reload > 0 THEN r.id ELSE 0]
    BY <2>2, <2>4, <2>8
  <2>12. Promise!Fire(r)
    BY <1>p, <2>2, <2>4, <2>9, <2>11, <2>c, <2>d
    DEF Promise!Fire, Promise!Idle
  <2> QED BY <1>p, <2>8, <2>12 DEF Promise!ANext
<1>4. ASSUME NEW o \in Objects, NEW k \in 1 .. Len(calls[o]), OneRemoved(o, k)
      PROVE  Promise!ANext
  <2> DEFINE c == calls[o][k]
             r == Rec(o, c)
  <2>1. /\ c \in CallsOf(calls[o])
        /\ CallsOf(calls'[o]) = CallsOf(calls[o]) \ {c}
        /\ \A p \in Objects : p # o => calls'[p] = calls[p]
    BY <1>4, RemovedList
  <2>2. call_id' = call_id /\ alarm_time' = alarm_time /\ RemovedCause(o, k)
    BY <1>4 DEF OneRemoved
  <2>5. \A d \in CallsOf(calls[o]) : Rec(o, d) = r => d = c
    <3> SUFFICES ASSUME NEW d \in CallsOf(calls[o]), Rec(o, d) = r PROVE d = c
      OBVIOUS
    <3>1. d.id = c.id
      BY RecFields
    <3>2. PICK i \in 1 .. Len(calls[o]) : d = calls[o][i]
      BY DEF CallsOf
    <3> QED BY <3>1, <3>2 DEF IdInv, Unique
  <2> HIDE DEF c
  <2>a. P = Others(calls, o) \cup Part(o, calls[o])
    BY PendPart
  <2>b. Q = Others(calls, o) \cup Part(o, calls'[o])
    BY <2>1, PendChanged
  <2>6. P = {p \in P : p.ob # o} \cup {Rec(o, d) : d \in CallsOf(calls[o])}
    BY <2>a DEF Others, Part
  <2>7. Q = {p \in P : p.ob # o} \cup {Rec(o, d) : d \in CallsOf(calls'[o])}
    BY <2>b DEF Others, Part
  <2>8. r.ob = o /\ r \in P /\ r.id = c.id
    BY <2>1, <2>6, RecFields
  <2>e. \A p \in P : p.ob = o /\ p.id = c.id => p = r
    <3> SUFFICES ASSUME NEW p \in P, p.ob = o, p.id = c.id PROVE p = r
      OBVIOUS
    <3>1. PICK d \in CallsOf(calls[o]) : p = Rec(o, d)
      BY <2>6
    <3>2. d.id = c.id
      BY <3>1, RecFields
    <3>3. PICK i, j \in 1 .. Len(calls[o]) : d = calls[o][i] /\ c = calls[o][j]
      BY <2>1, <3>1 DEF CallsOf
    <3> QED BY <3>1, <3>2, <3>3 DEF IdInv, Unique
  <2> HIDE DEF P, Q, r
  <2>9. {Rec(o, d) : d \in CallsOf(calls[o]) \ {c}}
          = {Rec(o, d) : d \in CallsOf(calls[o])} \ {r}
    BY <2>5 DEF r
  <2>10. Q = P \ {r}
    BY <2>1, <2>6, <2>7, <2>8, <2>9
  <2>11. CASE LpcCause /\ current' = current
    <3>1. InLpc /\ InLpc' = InLpc /\ Dead' = Dead
      BY <2>11 DEF LpcCause, InLpc
    <3>2. Promise!Remove(r)
      BY <1>p, <2>2, <2>8, <2>10, <2>11, <3>1 DEF Promise!Remove
    <3> QED BY <1>p, <2>8, <3>2 DEF Promise!ANext
  <2>12. CASE /\ ErrorCause
              /\ current.id # 0
              /\ o = current.ob
              /\ calls[o][k].id = current.id
    <3>1. /\ current # NoCurrent /\ current' = NoCurrent /\ InLpc' = FALSE
          /\ Dead' = Dead
      BY <2>12 DEF ErrorCause, RunInv, InLpc
    <3>2. c.id = current.id
      BY <2>12 DEF c
    <3>3. Q = {p \in P : p.ob # current.ob \/ p.id # current.id}
      BY <2>8, <2>10, <2>12, <2>e, <3>2
    <3>4. Promise!Failed
      BY <1>p, <2>2, <2>12, <3>1, <3>3 DEF Promise!Failed
    <3> QED BY <3>4 DEF Promise!ANext
  <2> QED BY <2>2, <2>11, <2>12 DEF RemovedCause
<1>5. ASSUME NEW o \in Objects, NEW c \in Call, OneSet(o, c)
      PROVE  Promise!ANext
  <2> DEFINE r == Rec(o, c)
  <2>1. /\ CallsOf(calls'[o]) = CallsOf(calls[o]) \cup {c}
        /\ \A d \in CallsOf(calls[o]) : d.id # c.id
        /\ \A p \in Objects : p # o => calls'[p] = calls[p]
    BY <1>5, SetList
  <2>2. /\ call_id' = call_id + 1 /\ alarm_time' = alarm_time
        /\ c.id = call_id /\ c.when > alarm_time
        /\ current' = current /\ LpcCause
    BY <1>5 DEF OneSet
  <2>a. P = Others(calls, o) \cup Part(o, calls[o])
    BY PendPart
  <2>b. Q = Others(calls, o) \cup Part(o, calls'[o])
    BY <2>1, PendChanged
  <2>6. P = {p \in P : p.ob # o} \cup {Rec(o, d) : d \in CallsOf(calls[o])}
    BY <2>a DEF Others, Part
  <2>7. Q = {p \in P : p.ob # o} \cup {Rec(o, d) : d \in CallsOf(calls'[o])}
    BY <2>b DEF Others, Part
  <2>8. Q = P \cup {r}
    <3>1. {Rec(o, d) : d \in CallsOf(calls'[o])}
            = {Rec(o, d) : d \in CallsOf(calls[o])} \cup {r}
      BY <2>1
    <3> HIDE DEF P, Q, r
    <3> QED BY <2>6, <2>7, <3>1
  <2>9. r \notin P
    <3> SUFFICES ASSUME r \in P PROVE FALSE
      OBVIOUS
    <3>1. PICK d \in CallsOf(calls[o]) : r = Rec(o, d)
      BY <2>6, RecFields
    <3>2. d.id = c.id
      BY <3>1, RecFields
    <3> QED BY <2>1, <3>2
  <2>10. Q \in SUBSET Promise!PendingCall
    <3> SUFFICES ASSUME NEW q \in Q PROVE q \in Promise!PendingCall
      OBVIOUS
    <3>0. calls' \in [Objects -> Seq(Call)]
      BY NextIInv DEF IInv, TypeOK
    <3>1. PICK p \in Objects : \E d \in CallsOf(calls'[p]) : q = Rec(p, d)
      BY PendMember
    <3>2. PICK d \in CallsOf(calls'[p]) : q = Rec(p, d)
      BY <3>1
    <3>3. d \in Call
      BY <3>0, <3>2, CallsOfType
    <3>4. d.id \in Nat /\ d.when \in Nat /\ d.reload \in Nat
      BY <3>3 DEF Call
    <3> QED BY <3>2, <3>4 DEF Rec, Promise!PendingCall
  <2>11. r.ob = o /\ r.id = call_id /\ r.when > alarm_time
    BY <2>2, RecFields
  <2> HIDE DEF P, Q, r
  <2>c. InLpc /\ InLpc' = InLpc /\ Dead' = Dead
    BY <2>2 DEF LpcCause, InLpc
  <2>12. Promise!Set(o)
    BY <1>p, <2>2, <2>8, <2>9, <2>10, <2>11, <2>c DEF Promise!Set
  <2> QED BY <2>12 DEF Promise!ANext
<1>6. ASSUME NEW o \in Objects, NEW n \in Objects, Moved(o, n)
      PROVE  Promise!ANext
  <2> DEFINE to(x) == IF x = o THEN n ELSE IF x = n THEN o ELSE x
  <2>1. /\ o # n /\ calls'[o] = calls[n] /\ calls'[n] = calls[o]
        /\ \A p \in Objects \ {o, n} : calls'[p] = calls[p]
        /\ call_id' = call_id /\ alarm_time' = alarm_time
        /\ current' = current /\ LpcCause
    BY <1>0, <1>6 DEF Moved
  <2>2. \A x \in Objects : to(x) \in Objects /\ to(to(x)) = x
                           /\ calls'[to(x)] = calls[x]
    BY <2>1
  <2> HIDE DEF to
  <2>3. \A x \in Objects : \A c :
          [Rec(x, c) EXCEPT !.ob = to(Rec(x, c).ob)] = Rec(to(x), c)
    BY RecFields
  <2>4. Q = {[p EXCEPT !.ob = to(p.ob)] : p \in P}
    <3>1. ASSUME NEW q \in Q
          PROVE  \E p \in P : q = [p EXCEPT !.ob = to(p.ob)]
      <4>1. PICK y \in Objects : \E c \in CallsOf(calls'[y]) : q = Rec(y, c)
        BY PendMember
      <4>2. PICK c \in CallsOf(calls'[y]) : q = Rec(y, c)
        BY <4>1
      <4>3. to(y) \in Objects /\ calls[to(y)] = calls'[y] /\ to(to(y)) = y
        BY <2>2
      <4>4. Rec(to(y), c) \in P
        BY <4>2, <4>3, PendMember
      <4> QED BY <2>3, <4>2, <4>3, <4>4
    <3>2. ASSUME NEW p \in P
          PROVE  [p EXCEPT !.ob = to(p.ob)] \in Q
      <4>1. PICK x \in Objects : \E c \in CallsOf(calls[x]) : p = Rec(x, c)
        BY PendMember
      <4>2. PICK c \in CallsOf(calls[x]) : p = Rec(x, c)
        BY <4>1
      <4>3. Rec(to(x), c) \in Q
        BY <2>2, <4>2, PendMember
      <4> QED BY <2>3, <4>2, <4>3
    <3> HIDE DEF P, Q
    <3> QED BY <3>1, <3>2
  <2>c. InLpc /\ InLpc' = InLpc /\ Dead' = Dead
    BY <2>1 DEF LpcCause, InLpc
  <2>5. Promise!Exchange(o, n)
    BY <1>p, <2>1, <2>4, <2>c DEF Promise!Exchange, to
  <2> QED BY <2>5 DEF Promise!ANext
<1> QED BY <1>1, <1>2, <1>3, <1>4, <1>5, <1>6, StepEffect

\* The timing wheel implements Alarms, for any number of objects, slots and
\* alarms: between two stretches of LPC code a pending call disappears or
\* changes only by being fired, when due, in order and once, or with the
\* memory of its object; and LPC code changes only the calls it asks for.
THEOREM WheelKeepsPromise == Spec => KeepsPromise
<1>1. Init => Promise!AInit
  <2> SUFFICES ASSUME Init PROVE Promise!AInit
    OBVIOUS
  <2>1. \A o \in Objects : CallsOf(calls[o]) = {}
    BY CallsOfEmpty DEF Init
  <2>2. PendOf(calls) = {}
    BY <2>1 DEF PendOf
  <2>3. PendingCalls = {} /\ alarm_time = 0 /\ call_id = 1
        /\ current = NoCurrent
    BY <2>2, PendingIsPendOf DEF Init
  <2>4. InLpc = TRUE
    BY DEF Init, InLpc
  <2>5. Dead = {}
    BY DEF Init, Dead, Destructed
  <2> QED BY <2>3, <2>4, <2>5 DEF Promise!AInit
<1>2. IInv /\ FreedInv /\ IdInv /\ RunInv /\ [Next]_vars
        => [Promise!ANext]_(<<alarm_time, PendingCalls, call_id, current,
                              InLpc, Dead>>)
  BY StepKeepsPromise
<1>3. Promise!avars = <<alarm_time, PendingCalls, call_id, current, InLpc, Dead>>
  BY DEF Promise!avars
<1> QED
  BY <1>1, <1>2, <1>3, Invariance, FreedInvariance, IdsUnique, Runs, PTL
  DEF Spec, KeepsPromise, Promise!ASpec, Promise!avars

-----------------------------------------------------------------------------
(* The count of calls *)

\* The places of the calls of one object, and of all.
Column(o, n) == {o} \X (1 .. n)
PlacesOf(cs) == UNION {Column(o, Len(cs[o])) : o \in Objects}
PlacesBut(cs, o) == UNION {Column(p, Len(cs[p])) : p \in Objects \ {o}}

\* There are as many places as there are calls.
LEMMA ColumnSize ==
  ASSUME NEW o, NEW n \in Nat
  PROVE  IsFiniteSet(Column(o, n)) /\ Cardinality(Column(o, n)) = n
<1>1. IsFiniteSet(1 .. n) /\ Cardinality(1 .. n) = n
  BY FS_Interval
<1>2. IsFiniteSet({o}) /\ Cardinality({o}) = 1
  BY FS_Singleton
<1>3. /\ IsFiniteSet({o} \X (1 .. n))
      /\ Cardinality({o} \X (1 .. n)) = Cardinality({o}) * Cardinality(1 .. n)
  BY <1>1, <1>2, FS_Product
<1> QED BY <1>1, <1>2, <1>3 DEF Column

\* The places of one object are apart from those of the others.
LEMMA PlacesSplit ==
  ASSUME NEW cs, NEW o \in Objects
  PROVE  /\ PlacesOf(cs) = PlacesBut(cs, o) \cup Column(o, Len(cs[o]))
         /\ PlacesBut(cs, o) \cap Column(o, Len(cs[o])) = {}
BY DEF PlacesOf, PlacesBut, Column

\* Giving one object m calls instead of n changes the number of places by
\* the difference.
LEMMA PlacesChanged ==
  ASSUME NEW cs, NEW ds, NEW o \in Objects,
         \A p \in Objects : p # o => Len(ds[p]) = Len(cs[p]),
         Len(cs[o]) \in Nat, Len(ds[o]) \in Nat,
         IsFiniteSet(PlacesOf(cs))
  PROVE  /\ IsFiniteSet(PlacesOf(ds))
         /\ Cardinality(PlacesOf(ds))
              = Cardinality(PlacesOf(cs)) - Len(cs[o]) + Len(ds[o])
<1> DEFINE R == PlacesBut(cs, o)
           n == Len(cs[o])
           m == Len(ds[o])
<1>1. /\ PlacesOf(cs) = R \cup Column(o, n)
      /\ R \cap Column(o, n) = {}
  BY PlacesSplit
<1>2. PlacesBut(ds, o) = R
  BY DEF PlacesBut
<1>3. /\ PlacesOf(ds) = R \cup Column(o, m)
      /\ R \cap Column(o, m) = {}
  BY <1>2, PlacesSplit
<1>4. IsFiniteSet(R)
  BY <1>1, FS_Subset
<1>5. /\ IsFiniteSet(Column(o, n)) /\ Cardinality(Column(o, n)) = n
      /\ IsFiniteSet(Column(o, m)) /\ Cardinality(Column(o, m)) = m
  BY ColumnSize
<1> HIDE DEF R, n, m
<1>6. Cardinality({}) = 0 /\ Cardinality(R) \in Nat
  BY <1>4, FS_EmptySet, FS_CardinalityType
<1>7. Cardinality(R \cup Column(o, n)) = Cardinality(R) + n - 0
  BY <1>1, <1>4, <1>5, <1>6, FS_Union
<1>8. /\ IsFiniteSet(R \cup Column(o, m))
      /\ Cardinality(R \cup Column(o, m)) = Cardinality(R) + m - 0
  BY <1>3, <1>4, <1>5, <1>6, FS_Union
<1>9. n \in Nat /\ m \in Nat
  BY DEF n, m
<1>10. Cardinality(PlacesOf(ds)) = Cardinality(PlacesOf(cs)) - n + m
  BY <1>1, <1>3, <1>6, <1>7, <1>8, <1>9
<1> QED BY <1>3, <1>8, <1>10 DEF n, m

\* The count is exact, and there are finitely many calls to count.
NumInv == IsFiniteSet(PlacesOf(calls)) /\ num_call = Cardinality(PlacesOf(calls))

\* Every step keeps the count exact.
LEMMA NextNum ==
  IInv /\ FreedInv /\ IdInv /\ NumInv /\ [Next]_vars => NumInv'
<1> SUFFICES ASSUME IInv, FreedInv, IdInv, NumInv, [Next]_vars PROVE NumInv'
  OBVIOUS
<1> DEFINE N == Cardinality(PlacesOf(calls))
<1>0. /\ calls \in [Objects -> Seq(Call)] /\ num_call \in Int
      /\ IsFiniteSet(PlacesOf(calls)) /\ num_call = N /\ N \in Nat
  BY FS_CardinalityType DEF IInv, TypeOK, NumInv
<1>a. calls' \in [Objects -> Seq(Call)]
  BY NextIInv DEF IInv, TypeOK
<1>b. \A o \in Objects : Len(calls[o]) \in Nat /\ Len(calls'[o]) \in Nat
  BY <1>0, <1>a
<1> HIDE DEF N
\* A step that changes one list and the count by the same number.
<1>c. ASSUME NEW o \in Objects,
             \A p \in Objects : p # o => calls'[p] = calls[p],
             num_call' = num_call - Len(calls[o]) + Len(calls'[o])
      PROVE  NumInv'
  <2>1. /\ IsFiniteSet(PlacesOf(calls'))
        /\ Cardinality(PlacesOf(calls')) = N - Len(calls[o]) + Len(calls'[o])
    BY <1>0, <1>b, <1>c, PlacesChanged DEF N
  <2> QED BY <1>0, <1>c, <2>1 DEF NumInv
<1>1. CASE Quiet
  BY <1>1 DEF Quiet, NumInv
<1>2. ASSUME NEW o \in Objects, Emptied(o) PROVE NumInv'
  <2>1. /\ calls'[o] = <<>> /\ \A p \in Objects : p # o => calls'[p] = calls[p]
        /\ num_call' = num_call - Len(calls[o])
    BY <1>0, <1>2 DEF Emptied
  <2>2. Len(calls'[o]) = 0
    BY <2>1
  <2>3. num_call' = num_call - Len(calls[o]) + Len(calls'[o])
    BY <1>0, <1>b, <2>1, <2>2
  <2> QED BY <1>c, <2>1, <2>3
<1>3. ASSUME NEW o \in Objects, OneFired(o) PROVE NumInv'
  <2> DEFINE c == calls[o][1]
  <2>1. /\ Len(calls'[o]) = IF c.reload > 0 THEN Len(calls[o])
                            ELSE Len(calls[o]) - 1
        /\ \A p \in Objects : p # o => calls'[p] = calls[p]
    BY <1>3, FiredList
  <2>2. num_call' = IF c.reload > 0 THEN num_call ELSE num_call - 1
    BY <1>3 DEF OneFired
  <2> HIDE DEF c
  <2>3. num_call' = num_call - Len(calls[o]) + Len(calls'[o])
    BY <1>0, <1>b, <2>1, <2>2
  <2> QED BY <1>c, <2>1, <2>3
<1>4. ASSUME NEW o \in Objects, NEW k \in 1 .. Len(calls[o]), OneRemoved(o, k)
      PROVE  NumInv'
  <2>1. /\ Len(calls'[o]) = Len(calls[o]) - 1
        /\ \A p \in Objects : p # o => calls'[p] = calls[p]
    BY <1>4, RemovedList
  <2>2. num_call' = num_call - 1
    BY <1>4 DEF OneRemoved
  <2>3. num_call' = num_call - Len(calls[o]) + Len(calls'[o])
    BY <1>0, <1>b, <2>1, <2>2
  <2> QED BY <1>c, <2>1, <2>3
<1>5. ASSUME NEW o \in Objects, NEW c \in Call, OneSet(o, c) PROVE NumInv'
  <2>1. /\ Len(calls'[o]) = Len(calls[o]) + 1
        /\ \A p \in Objects : p # o => calls'[p] = calls[p]
    BY <1>5, SetList
  <2>2. num_call' = num_call + 1
    BY <1>5 DEF OneSet
  <2>3. num_call' = num_call - Len(calls[o]) + Len(calls'[o])
    BY <1>0, <1>b, <2>1, <2>2
  <2> QED BY <1>c, <2>1, <2>3
<1>6. ASSUME NEW o \in Objects, NEW n \in Objects, Moved(o, n) PROVE NumInv'
  \* o loses its calls, then n gets as many.
  <2> DEFINE mid == [calls EXCEPT ![o] = <<>>]
  <2>1. /\ o # n /\ calls[n] = <<>> /\ calls'[o] = <<>> /\ calls'[n] = calls[o]
        /\ \A p \in Objects \ {o, n} : calls'[p] = calls[p]
        /\ num_call' = num_call
    BY <1>0, <1>6 DEF Moved
  <2>2. /\ mid[o] = <<>> /\ mid[n] = <<>>
        /\ \A p \in Objects : p # o => mid[p] = calls[p]
        /\ \A p \in Objects : p # n => calls'[p] = mid[p]
    BY <1>0, <2>1
  <2> HIDE DEF mid
  <2>3. Len(mid[o]) = 0 /\ Len(mid[n]) = 0
    BY <2>2
  <2>4. /\ IsFiniteSet(PlacesOf(mid))
        /\ Cardinality(PlacesOf(mid)) = N - Len(calls[o]) + Len(mid[o])
    <3>1. Len(calls[o]) \in Nat /\ Len(mid[o]) \in Nat
      BY <1>b, <2>3
    <3>2. \A p \in Objects : p # o => Len(mid[p]) = Len(calls[p])
      BY <2>2
    <3> QED BY <1>0, <3>1, <3>2, PlacesChanged DEF N
  <2>5. /\ IsFiniteSet(PlacesOf(calls'))
        /\ Cardinality(PlacesOf(calls'))
             = Cardinality(PlacesOf(mid)) - Len(mid[n]) + Len(calls'[n])
    <3>1. Len(mid[n]) \in Nat /\ Len(calls'[n]) \in Nat
      BY <1>b, <2>3
    <3>2. \A p \in Objects : p # n => Len(calls'[p]) = Len(mid[p])
      BY <2>2
    <3> QED BY <2>4, <3>1, <3>2, PlacesChanged
  <2>6. Cardinality(PlacesOf(calls')) = N
    BY <1>0, <1>b, <2>1, <2>3, <2>4, <2>5
  <2> QED BY <1>0, <2>1, <2>5, <2>6 DEF NumInv
<1> QED BY <1>1, <1>2, <1>3, <1>4, <1>5, <1>6, StepEffect

\* The driver's count of calls is the number of calls in the lists, however
\* many there are.
THEOREM CountExact == Spec => []NumCallExact
<1>1. Init => NumInv
  <2> SUFFICES ASSUME Init PROVE NumInv
    OBVIOUS
  <2>1. \A o \in Objects : Column(o, Len(calls[o])) = {}
    BY DEF Init, Column
  <2>2. PlacesOf(calls) = {}
    BY <2>1 DEF PlacesOf
  <2> QED BY <2>2, FS_EmptySet DEF Init, NumInv
<1>2. IInv /\ FreedInv /\ IdInv /\ NumInv /\ [Next]_vars => NumInv'
  BY NextNum
<1>3. NumInv => NumCallExact
  BY DEF NumInv, NumCallExact, CallPlaces, PlacesOf, Column
<1> QED
  BY <1>1, <1>2, <1>3, Invariance, FreedInvariance, IdsUnique, PTL DEF Spec

-----------------------------------------------------------------------------
(* Failing calls *)

\* Nothing but the object being executed has a call with the id of the
\* repeating call that is executed, as long as no object is reloaded.
OwnsCurrent ==
  current.id # 0 =>
    \A o \in Objects : \A c \in CallsOf(calls[o]) :
      c.id = current.id => o = current.ob

\* Every step keeps it when no object is resident.
LEMMA NextOwns ==
  ASSUME Resident = {}
  PROVE  IInv /\ FreedInv /\ IdInv /\ OwnsCurrent /\ [Next]_vars => OwnsCurrent'
<1> SUFFICES ASSUME IInv, FreedInv, IdInv, OwnsCurrent, [Next]_vars,
                    current'.id # 0, NEW p \in Objects,
                    NEW d \in CallsOf(calls'[p]), d.id = current'.id
             PROVE  p = current'.ob
  BY DEF OwnsCurrent
<1>0. /\ call_id \in Nat /\ calls \in [Objects -> Seq(Call)]
      /\ current.id \in Nat /\ current.id < call_id /\ NoCurrent.id = 0
  BY DEF IInv, TypeOK, IdInv, NoCurrent
<1>1. CASE Quiet
  <2>1. calls' = calls /\ current' = current
    BY <1>0, <1>1 DEF Quiet
  <2> QED BY <2>1 DEF OwnsCurrent
<1>2. ASSUME NEW o \in Objects, Emptied(o) PROVE p = current'.ob
  <2>1. /\ calls'[o] = <<>> /\ \A r \in Objects : r # o => calls'[r] = calls[r]
        /\ current' = current
    BY <1>0, <1>2 DEF Emptied
  <2>2. p # o
    BY <2>1, CallsOfEmpty
  <2> QED BY <2>1, <2>2 DEF OwnsCurrent
<1>3. ASSUME NEW o \in Objects, OneFired(o) PROVE p = current'.ob
  <2> DEFINE c == calls[o][1]
  <2>1. /\ c \in CallsOf(calls[o])
        /\ \A r \in Objects : r # o => calls'[r] = calls[r]
    BY <1>3, FiredList
  <2>2. current' = [ob |-> o, id |-> IF c.reload > 0 THEN c.id ELSE 0]
    BY <1>3 DEF OneFired
  <2>3. d.id = c.id /\ current'.ob = o
    BY <2>2
  <2> HIDE DEF c
  <2>4. p # o => d \in CallsOf(calls[p])
    BY <2>1
  <2> QED BY <2>1, <2>3, <2>4 DEF IdInv
<1>4. ASSUME NEW o \in Objects, NEW k \in 1 .. Len(calls[o]), OneRemoved(o, k)
      PROVE  p = current'.ob
  <2>1. /\ CallsOf(calls'[o]) = CallsOf(calls[o]) \ {calls[o][k]}
        /\ \A r \in Objects : r # o => calls'[r] = calls[r]
    BY <1>4, RemovedList
  <2>2. current' = current
    BY <1>0, <1>4 DEF OneRemoved
  <2>3. d \in CallsOf(calls[p])
    BY <2>1
  <2> QED BY <2>2, <2>3 DEF OwnsCurrent
<1>5. ASSUME NEW o \in Objects, NEW c \in Call, OneSet(o, c)
      PROVE  p = current'.ob
  <2>1. /\ CallsOf(calls'[o]) = CallsOf(calls[o]) \cup {c}
        /\ \A r \in Objects : r # o => calls'[r] = calls[r]
    BY <1>5, SetList
  <2>2. current' = current /\ c.id = call_id
    BY <1>5 DEF OneSet
  <2>3. d # c
    BY <1>0, <2>2
  <2>4. d \in CallsOf(calls[p])
    BY <2>1, <2>3
  <2> QED BY <2>2, <2>4 DEF OwnsCurrent
<1>6. ASSUME NEW o \in Objects, NEW n \in Objects, Moved(o, n)
      PROVE  p = current'.ob
  BY <1>6 DEF Moved
<1> QED BY <1>1, <1>2, <1>3, <1>4, <1>5, <1>6, StepEffect

\* The function of a repeating call fails: no call with its id is left.
LEMMA ErrorTurnsOff ==
  ASSUME IInv, FreedInv, IdInv, OwnsCurrent, [Next]_vars, CallOutError,
         current.id # 0
  PROVE  \A o \in Objects : \A i \in 1 .. Len(calls'[o]) :
           calls'[o][i].id # current.id
<1> DEFINE ob == current.ob
           id == current.id
           k == Min(CallsWithId(ob, id))
<1>0. ob \in Objects /\ calls \in [Objects -> Seq(Call)]
  <2>1. current \in Current \cup {NoCurrent} /\ current # NoCurrent
    BY DEF IInv, TypeOK, NoCurrent
  <2> QED BY <2>1 DEF Current, IInv, TypeOK
<1>1. CASE CallsWithId(ob, id) # {}
  <2>1. k \in 1 .. Len(calls[ob]) /\ k \in CallsWithId(ob, id)
    <3>1. CallsWithId(ob, id) \in SUBSET Nat
      BY <1>0 DEF CallsWithId
    <3> QED BY <1>0, <1>1, <3>1, CallsWithIdType, MinIsLeast
  <2>2. /\ delete_call(ob, k, "scan") /\ current' = NoCurrent
        /\ UNCHANGED <<call_id, alarm_time>>
    BY SMTT(60), <1>1 DEF CallOutError
  <2>3. calls[ob][k].id = id
    BY <2>1 DEF CallsWithId
  <2>a. pc \in {"lpc", "failed"} /\ life' = life /\ pc' # "fatal"
    BY NextIInv DEF CallOutError, IInv, NoFatal
  <2> HIDE DEF k
  <2>b. pc' = "scan"
    BY <2>2, <2>a DEF delete_call, After
  <2>c. RemovedCause(ob, k)
    BY <2>2, <2>3, <2>a, <2>b DEF RemovedCause, ErrorCause, Dead, Destructed
  <2>4. OneRemoved(ob, k)
    BY <2>1, <2>2, <2>c DEF OneRemoved, delete_call, SetCalls
  <2>5. /\ CallsOf(calls'[ob]) = CallsOf(calls[ob]) \ {calls[ob][k]}
        /\ \A p \in Objects : p # ob => calls'[p] = calls[p]
    BY <1>0, <2>4, RemovedList
  <2> SUFFICES ASSUME NEW o \in Objects, NEW i \in 1 .. Len(calls'[o]),
                      calls'[o][i].id = id
               PROVE  FALSE
    OBVIOUS
  <2>6. calls'[o][i] \in CallsOf(calls'[o])
    BY DEF CallsOf
  <2>7. calls'[o][i] \in CallsOf(calls[o])
    BY <2>5, <2>6
  <2>8. o = ob
    BY <2>7 DEF OwnsCurrent
  <2>9. PICK j \in 1 .. Len(calls[ob]) : calls'[o][i] = calls[ob][j]
    BY <2>7, <2>8 DEF CallsOf
  <2>10. j = k
    BY <1>0, <2>1, <2>3, <2>9 DEF IdInv, Unique
  <2> QED BY <2>5, <2>6, <2>8, <2>9, <2>10
<1>2. CASE CallsWithId(ob, id) = {}
  <2>1. calls' = calls
    BY <1>2 DEF CallOutError
  <2> SUFFICES ASSUME NEW o \in Objects, NEW i \in 1 .. Len(calls[o]),
                      calls[o][i].id = id
               PROVE  FALSE
    BY <2>1
  <2>2. calls[o][i] \in CallsOf(calls[o])
    BY DEF CallsOf
  <2>3. o = ob
    BY <2>2 DEF OwnsCurrent
  <2> QED BY <1>2, <2>3 DEF CallsWithId
<1> QED BY <1>1, <1>2

\* A repeating call whose function fails is turned off, whatever the function
\* did before it failed, when no object is resident.  (With resident objects
\* it is not: the run CallOut_failed shows how the call survives.)
THEOREM FailedCallIsOff ==
  ASSUME Resident = {}
  PROVE  Spec => FailedIsOff
<1>1. Init => OwnsCurrent
  BY DEF Init, NoCurrent, OwnsCurrent
<1>2. IInv /\ FreedInv /\ IdInv /\ OwnsCurrent /\ [Next]_vars => OwnsCurrent'
  BY NextOwns
<1>3. IInv /\ FreedInv /\ IdInv /\ OwnsCurrent /\ [Next]_vars =>
        [CallOutError /\ current.id # 0 =>
           \A o \in Objects : \A i \in 1 .. Len(calls'[o]) :
             calls'[o][i].id # current.id]_vars
  BY ErrorTurnsOff
<1> QED
  BY <1>1, <1>2, <1>3, Invariance, FreedInvariance, IdsUnique, PTL
  DEF Spec, FailedIsOff

=============================================================================
