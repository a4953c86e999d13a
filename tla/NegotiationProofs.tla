------------------------- MODULE NegotiationProofs -------------------------
(***************************************************************************)
(* Proofs about option negotiation, for any option, any client and any     *)
(* number of requests of both parties: when nothing is on the way they     *)
(* agree (Agreement), the echo follows noecho (EchoHonoured), and every    *)
(* message handled leaves less to be said (Converges).                     *)
(*                                                                         *)
(* Each direction of the option is a conversation of its own: one party    *)
(* performs, the other lets it, and the channels mix the messages of both  *)
(* conversations.  What a channel holds of one of them is a word of yes    *)
(* and no (Carries); the states of the parties and the two words determine *)
(* each other, in twelve ways (Facing).                                    *)
(***************************************************************************)
EXTENDS Negotiation, SequenceTheorems, TLAPS

Words == Seq({"yes", "no"})
Empty == <<>>
Yes == <<"yes">>
No == <<"no">>
YesNo == <<"yes", "no">>
NoYes == <<"no", "yes">>
Word(s) == CASE s = "yes" -> <<"yes">> [] s = "no" -> <<"no">>
             [] s = "nothing" -> <<>>

\* How a party says yes and no, y and n, in one of the conversations.
Verb(y, n, a) == IF a = "yes" THEN y ELSE n
Said(s, y, n) == CASE s = "yes" -> <<y>> [] s = "no" -> <<n>>
                   [] s = "nothing" -> <<>>

\* Of the messages y and n, channel ch holds those of the word w, in order.
Carries(ch, y, n, w) ==
  \E f \in [1 .. Len(w) -> 1 .. Len(ch)] :
    /\ \A j, k \in 1 .. Len(w) : j < k => f[j] < f[k]
    /\ \A k \in 1 .. Len(w) : ch[f[k]] = Verb(y, n, w[k])
    /\ \A i \in 1 .. Len(ch) :
         ch[i] \in {y, n} => \E k \in 1 .. Len(w) : f[k] = i

\* A party in state s has said w, the other, in state t, has said v, and
\* neither has heard it yet.
Facing(s, w, t, v) ==
  \/ s = "NO" /\ t = "NO" /\ w = Empty /\ v = Empty              \* settled
  \/ s = "YES" /\ t = "YES" /\ w = Empty /\ v = Empty
  \/ s = "YES" /\ t = "WANTNO" /\ w = Empty /\ v = No     \* asked
  \/ s = "NO" /\ t = "WANTYES" /\ w = Empty /\ v = Yes
  \/ s = "NO" /\ t = "WANTNO" /\ w = No /\ v = Empty      \* answered
  \/ s = "YES" /\ t = "WANTYES" /\ w = Yes /\ v = Empty
  \/ s = "NO" /\ t = "WANTYES" /\ w = No /\ v = Empty
  \/ s = "WANTNO" /\ t = "WANTYES" /\ w = YesNo /\ v = Empty
  \/ s = "WANTYES" /\ t = "WANTNO" /\ w = NoYes /\ v = Empty
  \/ s = "WANTYES" /\ t = "WANTYES" /\ w = NoYes /\ v = Empty
  \/ s = "WANTNO" /\ t = "WANTNO" /\ w = No /\ v = No  \* crossed
  \/ s = "WANTYES" /\ t = "WANTYES" /\ w = Yes /\ v = Yes

Joint(p, w, q, v) == Facing(p.st, w, q.st, v) \/ Facing(q.st, v, p.st, w)

\* The same with a client that agrees to everything and asks for nothing.
Served(s, w, t, v) ==
  \/ s = "NO" /\ t = "NO" /\ w = Empty /\ v = Empty
  \/ s = "YES" /\ t = "YES" /\ w = Empty /\ v = Empty
  \/ s = "WANTYES" /\ t = "NO" /\ w = Yes /\ v = Empty
  \/ s = "WANTNO" /\ t = "YES" /\ w = No /\ v = Empty
  \/ s = "WANTYES" /\ t = "YES" /\ w = Empty /\ v = Yes
  \/ s = "WANTNO" /\ t = "NO" /\ w = Empty /\ v = No

\* Whether a party wants the option on, once its requests are answered.
Wants(d) == \/ d.st = "YES"
            \/ d.st = "WANTYES" /\ d.q = "EMPTY"
            \/ d.st = "WANTNO" /\ d.q = "OPPOSITE"

-----------------------------------------------------------------------------
(* Words on a channel.                                                     *)

\* The words of what is said, and what they are made of.
LEMMA WordFacts ==
  ASSUME NEW s \in Sent
  PROVE  /\ Word(s) \in Words
         /\ s = "nothing" => Word(s) = <<>>
         /\ s # "nothing" => Word(s) = <<s>> /\ s \in {"yes", "no"}
<1>1. CASE s = "yes"
  <2>1. Word(s) = <<"yes">> /\ <<"yes">> \in Seq({"yes", "no"})
    BY <1>1 DEF Word
  <2> QED BY <1>1, <2>1 DEF Words
<1>2. CASE s = "no"
  <2>1. Word(s) = <<"no">> /\ <<"no">> \in Seq({"yes", "no"})
    BY <1>2 DEF Word
  <2> QED BY <1>2, <2>1 DEF Words
<1>3. CASE s = "nothing"
  <2>1. Word(s) = <<>> /\ <<>> \in Seq({"yes", "no"})
    BY <1>3 DEF Word
  <2> QED BY <1>3, <2>1 DEF Words
<1> QED BY <1>1, <1>2, <1>3 DEF Sent

\* An empty channel carries nothing.
LEMMA CarriesNothing ==
  ASSUME NEW y, NEW n, NEW w \in Words
  PROVE  Carries(<<>>, y, n, w) <=> w = <<>>
<1>1. Len(w) \in Nat /\ (Len(w) = 0 <=> w = <<>>)
  BY EmptySeq, LenProperties DEF Words
<1>2. ASSUME Carries(<<>>, y, n, w) PROVE w = <<>>
  <2>1. PICK f \in [1 .. Len(w) -> 1 .. 0] : TRUE
    BY <1>2 DEF Carries
  <2>2. CASE Len(w) > 0
    <3>1. 1 \in 1 .. Len(w)
      BY <1>1, <2>2
    <3>2. f[1] \in 1 .. 0
      BY <3>1
    <3> QED BY <3>2
  <2> QED BY <1>1, <2>2
<1>3. ASSUME w = <<>> PROVE Carries(<<>>, y, n, w)
  <2>1. Len(w) = 0 /\ Len(<<>>) = 0
    BY <1>3
  <2> DEFINE f == [k \in 1 .. 0 |-> 1]
  <2>2. \A k \in 1 .. 0 : FALSE
    OBVIOUS
  <2>3. f \in [1 .. Len(w) -> 1 .. Len(<<>>)]
    BY <2>1, <2>2
  <2> HIDE DEF f
  <2> SUFFICES /\ \A j, k \in 1 .. Len(w) : j < k => f[j] < f[k]
               /\ \A k \in 1 .. Len(w) : <<>>[f[k]] = Verb(y, n, w[k])
               /\ \A i \in 1 .. Len(<<>>) :
                    <<>>[i] \in {y, n} => \E k \in 1 .. Len(w) : f[k] = i
    BY <2>3 DEF Carries
  <2> QED BY <2>1, <2>2
<1> QED BY <1>2, <1>3

\* A message of this conversation is the last of its word.
LEMMA CarriesOne ==
  ASSUME NEW y, NEW n, NEW T, y \in T, n \in T, NEW ch \in Seq(T),
         NEW w \in Words, NEW a \in {"yes", "no"}, Carries(ch, y, n, w)
  PROVE  Carries(Append(ch, Verb(y, n, a)), y, n, Append(w, a))
<1> DEFINE c == Append(ch, Verb(y, n, a))
           u == Append(w, a)
<1>1. /\ Len(ch) \in Nat /\ Len(c) = Len(ch) + 1
      /\ \A i \in 1 .. Len(ch) : c[i] = ch[i]
      /\ c[Len(ch) + 1] = Verb(y, n, a)
  BY AppendProperties, LenProperties DEF Verb
<1>2. /\ Len(w) \in Nat /\ Len(u) = Len(w) + 1
      /\ \A i \in 1 .. Len(w) : u[i] = w[i]
      /\ u[Len(w) + 1] = a
  BY AppendProperties, LenProperties DEF Words
<1> HIDE DEF c, u
<1>3. PICK f \in [1 .. Len(w) -> 1 .. Len(ch)] :
        /\ \A j, k \in 1 .. Len(w) : j < k => f[j] < f[k]
        /\ \A k \in 1 .. Len(w) : ch[f[k]] = Verb(y, n, w[k])
        /\ \A i \in 1 .. Len(ch) :
             ch[i] \in {y, n} => \E k \in 1 .. Len(w) : f[k] = i
  BY DEF Carries
<1> DEFINE g == [k \in 1 .. Len(u) |->
                   IF k = Len(w) + 1 THEN Len(ch) + 1 ELSE f[k]]
<1>4. /\ \A k \in 1 .. Len(w) : g[k] = f[k] /\ f[k] \in 1 .. Len(ch)
      /\ g[Len(w) + 1] = Len(ch) + 1
      /\ g \in [1 .. Len(u) -> 1 .. Len(c)]
  <2>1. \A k \in 1 .. Len(u) : k # Len(w) + 1 => k \in 1 .. Len(w)
    BY <1>2
  <2>2. \A k \in 1 .. Len(w) : k \in 1 .. Len(u) /\ k # Len(w) + 1
    BY <1>2
  <2>3. Len(w) + 1 \in 1 .. Len(u) /\ Len(ch) + 1 \in 1 .. Len(c)
    BY <1>1, <1>2
  <2>4. \A i \in 1 .. Len(ch) : i \in 1 .. Len(c)
    BY <1>1
  <2> QED BY <2>1, <2>2, <2>3, <2>4
<1> HIDE DEF g
<1>5. \A j, k \in 1 .. Len(u) : j < k => g[j] < g[k]
  <2> SUFFICES ASSUME NEW j \in 1 .. Len(u), NEW k \in 1 .. Len(u), j < k
               PROVE  g[j] < g[k]
    OBVIOUS
  <2>1. j \in 1 .. Len(w) /\ (k \in 1 .. Len(w) \/ k = Len(w) + 1)
    BY <1>2
  <2>2. g[j] = f[j] /\ f[j] \in 1 .. Len(ch)
    BY <1>4, <2>1
  <2>3. CASE k = Len(w) + 1
    BY <1>1, <1>4, <2>2, <2>3
  <2>4. CASE k \in 1 .. Len(w)
    BY <1>3, <1>4, <2>1, <2>2, <2>4
  <2> QED BY <2>1, <2>3, <2>4
<1>6. \A k \in 1 .. Len(u) : c[g[k]] = Verb(y, n, u[k])
  <2> SUFFICES ASSUME NEW k \in 1 .. Len(u) PROVE c[g[k]] = Verb(y, n, u[k])
    OBVIOUS
  <2>1. CASE k = Len(w) + 1
    BY <1>1, <1>2, <1>4, <2>1
  <2>2. CASE k \in 1 .. Len(w)
    BY SMTT(60), <1>1, <1>2, <1>3, <1>4, <2>2
  <2> QED BY <1>2, <2>1, <2>2
<1>7. \A i \in 1 .. Len(c) : c[i] \in {y, n} => \E k \in 1 .. Len(u) : g[k] = i
  <2> SUFFICES ASSUME NEW i \in 1 .. Len(c), c[i] \in {y, n}
               PROVE  \E k \in 1 .. Len(u) : g[k] = i
    OBVIOUS
  <2>1. CASE i = Len(ch) + 1
    BY <1>2, <1>4, <2>1
  <2>2. CASE i \in 1 .. Len(ch)
    <3>1. PICK k \in 1 .. Len(w) : f[k] = i
      BY <1>1, <1>3, <2>2
    <3> QED BY <1>2, <1>4, <3>1
  <2> QED BY <1>1, <2>1, <2>2
<1>8. Carries(c, y, n, u)
  BY <1>4, <1>5, <1>6, <1>7 DEF Carries
<1> QED BY <1>8 DEF c, u

\* A message of the other conversation changes no word of this one.
LEMMA CarriesOther ==
  ASSUME NEW y, NEW n, NEW T, NEW ch \in Seq(T),
         NEW w \in Words, NEW e \in T, e \notin {y, n}, Carries(ch, y, n, w)
  PROVE  Carries(Append(ch, e), y, n, w)
<1> DEFINE c == Append(ch, e)
<1>1. /\ Len(ch) \in Nat /\ Len(c) = Len(ch) + 1
      /\ \A i \in 1 .. Len(ch) : c[i] = ch[i]
      /\ c[Len(ch) + 1] = e
  BY AppendProperties, LenProperties
<1> HIDE DEF c
<1>2. PICK f \in [1 .. Len(w) -> 1 .. Len(ch)] :
        /\ \A j, k \in 1 .. Len(w) : j < k => f[j] < f[k]
        /\ \A k \in 1 .. Len(w) : ch[f[k]] = Verb(y, n, w[k])
        /\ \A i \in 1 .. Len(ch) :
             ch[i] \in {y, n} => \E k \in 1 .. Len(w) : f[k] = i
  BY DEF Carries
<1>3. f \in [1 .. Len(w) -> 1 .. Len(c)]
  BY <1>1
<1>4. \A k \in 1 .. Len(w) : c[f[k]] = Verb(y, n, w[k])
  BY <1>1, <1>2
<1>5. \A i \in 1 .. Len(c) : c[i] \in {y, n} => \E k \in 1 .. Len(w) : f[k] = i
  <2> SUFFICES ASSUME NEW i \in 1 .. Len(c), c[i] \in {y, n}
               PROVE  \E k \in 1 .. Len(w) : f[k] = i
    OBVIOUS
  <2>1. i \in 1 .. Len(ch)
    BY <1>1
  <2> QED BY <1>1, <1>2, <2>1
<1>6. Carries(c, y, n, w)
  BY <1>2, <1>3, <1>4, <1>5 DEF Carries
<1> QED BY <1>6 DEF c

\* The first message on the channel is the first of its word.
LEMMA CarriesHeard ==
  ASSUME NEW y, NEW n, NEW T, NEW ch \in Seq(T), ch # <<>>,
         NEW w \in Words, Head(ch) \in {y, n}, Carries(ch, y, n, w)
  PROVE  /\ w # <<>>
         /\ Head(ch) = Verb(y, n, Head(w))
         /\ Carries(Tail(ch), y, n, Tail(w))
<1> DEFINE c == Tail(ch)
           u == Tail(w)
<1>1. /\ Len(ch) \in Nat /\ Len(ch) > 0 /\ Len(c) = Len(ch) - 1
      /\ \A i \in 1 .. Len(c) : c[i] = ch[i + 1]
      /\ Head(ch) = ch[1]
  BY EmptySeq, LenProperties, HeadTailProperties
<1>2. PICK f \in [1 .. Len(w) -> 1 .. Len(ch)] :
        /\ \A j, k \in 1 .. Len(w) : j < k => f[j] < f[k]
        /\ \A k \in 1 .. Len(w) : ch[f[k]] = Verb(y, n, w[k])
        /\ \A i \in 1 .. Len(ch) :
             ch[i] \in {y, n} => \E k \in 1 .. Len(w) : f[k] = i
  BY DEF Carries
<1>3. Len(w) \in Nat
  BY LenProperties DEF Words
<1>4. PICK k1 \in 1 .. Len(w) : f[k1] = 1
  BY <1>1, <1>2
<1>5. Len(w) >= 1 /\ f[1] = 1
  <2>1. Len(w) >= 1 /\ 1 \in 1 .. Len(w) /\ f[1] \in 1 .. Len(ch)
    BY <1>3, <1>4
  <2>2. 1 < k1 => f[1] < 1
    BY <1>2, <1>4, <2>1
  <2> QED BY <1>1, <1>3, <1>4, <2>1, <2>2
<1>6. /\ w # <<>> /\ Len(u) = Len(w) - 1
      /\ \A i \in 1 .. Len(u) : u[i] = w[i + 1]
      /\ Head(w) = w[1]
  BY <1>3, <1>5, EmptySeq, HeadTailProperties DEF Words
<1> HIDE DEF c, u
<1>7. Head(ch) = Verb(y, n, Head(w))
  BY <1>1, <1>2, <1>3, <1>5, <1>6
<1> DEFINE g == [k \in 1 .. Len(u) |-> f[k + 1] - 1]
<1>8. \A k \in 1 .. Len(u) :
        /\ k + 1 \in 1 .. Len(w) /\ f[k + 1] \in 1 .. Len(ch)
        /\ f[k + 1] > 1
        /\ g[k] = f[k + 1] - 1
        /\ g[k] \in 1 .. Len(c)
  <2> SUFFICES ASSUME NEW k \in 1 .. Len(u)
               PROVE  /\ k + 1 \in 1 .. Len(w) /\ f[k + 1] \in 1 .. Len(ch)
                      /\ f[k + 1] > 1 /\ f[k + 1] - 1 \in 1 .. Len(c)
    OBVIOUS
  <2>1. k + 1 \in 1 .. Len(w) /\ 1 < k + 1 /\ 1 \in 1 .. Len(w)
    BY <1>3, <1>5, <1>6
  <2>2. f[k + 1] \in 1 .. Len(ch) /\ f[1] < f[k + 1]
    BY <1>2, <2>1
  <2> QED BY <1>1, <1>5, <2>1, <2>2
<1>9. g \in [1 .. Len(u) -> 1 .. Len(c)]
  BY <1>8
<1> HIDE DEF g
<1>10. \A j, k \in 1 .. Len(u) : j < k => g[j] < g[k]
  <2> SUFFICES ASSUME NEW j \in 1 .. Len(u), NEW k \in 1 .. Len(u), j < k
               PROVE  g[j] < g[k]
    OBVIOUS
  <2>1. f[j + 1] < f[k + 1]
    BY <1>2, <1>8
  <2> QED BY <1>1, <1>8, <2>1
<1>11. \A k \in 1 .. Len(u) : c[g[k]] = Verb(y, n, u[k])
  <2> SUFFICES ASSUME NEW k \in 1 .. Len(u) PROVE c[g[k]] = Verb(y, n, u[k])
    OBVIOUS
  <2>0. f[k + 1] \in 1 .. Len(ch) /\ g[k] = f[k + 1] - 1
    BY <1>8
  <2>a. f[k + 1] \in Int
    BY <2>0
  <2>1. g[k] + 1 = f[k + 1]
    BY <2>0, <2>a
  <2>2. c[g[k]] = ch[f[k + 1]]
    BY <1>1, <1>8, <2>1
  <2>3. k + 1 \in 1 .. Len(w) /\ u[k] = w[k + 1]
    BY <1>6, <1>8
  <2>4. ch[f[k + 1]] = Verb(y, n, w[k + 1])
    BY <1>2, <2>3
  <2> QED BY <2>2, <2>3, <2>4
<1>12. \A i \in 1 .. Len(c) : c[i] \in {y, n} => \E k \in 1 .. Len(u) : g[k] = i
  <2> SUFFICES ASSUME NEW i \in 1 .. Len(c), c[i] \in {y, n}
               PROVE  \E k \in 1 .. Len(u) : g[k] = i
    OBVIOUS
  <2>1. i + 1 \in 1 .. Len(ch) /\ ch[i + 1] \in {y, n}
    BY <1>1
  <2>2. PICK k \in 1 .. Len(w) : f[k] = i + 1
    BY <1>2, <2>1
  <2>3. k # 1
    BY <1>1, <1>5, <2>2
  <2>4. k - 1 \in 1 .. Len(u) /\ (k - 1) + 1 = k
    BY <1>3, <1>6, <2>3
  <2>5. g[k - 1] = f[k] - 1
    <3>1. PICK l \in 1 .. Len(u) : l = k - 1 /\ l + 1 = k
      BY <2>4
    <3>2. g[l] = f[l + 1] - 1
      BY <1>8
    <3> QED BY <3>1, <3>2
  <2>6. (i + 1) - 1 = i
    BY <1>1
  <2> QED BY <2>2, <2>4, <2>5, <2>6
<1>13. Carries(c, y, n, u)
  BY <1>9, <1>10, <1>11, <1>12 DEF Carries
<1> QED BY <1>6, <1>7, <1>13 DEF c, u

\* A message of the other conversation is no part of the word.
LEMMA CarriesSkips ==
  ASSUME NEW y, NEW n, NEW T, y \in T, n \in T, NEW ch \in Seq(T), ch # <<>>,
         NEW w \in Words, Head(ch) \notin {y, n}, Carries(ch, y, n, w)
  PROVE  Carries(Tail(ch), y, n, w)
<1> DEFINE c == Tail(ch)
<1>1. /\ Len(ch) \in Nat /\ Len(ch) > 0 /\ Len(c) = Len(ch) - 1
      /\ \A i \in 1 .. Len(c) : c[i] = ch[i + 1]
      /\ Head(ch) = ch[1]
  BY EmptySeq, LenProperties, HeadTailProperties
<1> HIDE DEF c
<1>2. PICK f \in [1 .. Len(w) -> 1 .. Len(ch)] :
        /\ \A j, k \in 1 .. Len(w) : j < k => f[j] < f[k]
        /\ \A k \in 1 .. Len(w) : ch[f[k]] = Verb(y, n, w[k])
        /\ \A i \in 1 .. Len(ch) :
             ch[i] \in {y, n} => \E k \in 1 .. Len(w) : f[k] = i
  BY DEF Carries
<1>3. \A k \in 1 .. Len(w) : f[k] \in 1 .. Len(ch) /\ f[k] # 1
  BY <1>1, <1>2 DEF Verb
<1> DEFINE g == [k \in 1 .. Len(w) |-> f[k] - 1]
<1>4. \A k \in 1 .. Len(w) : g[k] = f[k] - 1 /\ f[k] - 1 \in 1 .. Len(c)
  BY <1>1, <1>3
<1>5. g \in [1 .. Len(w) -> 1 .. Len(c)]
  BY <1>4
<1> HIDE DEF g
<1>6. \A j, k \in 1 .. Len(w) : j < k => g[j] < g[k]
  BY <1>1, <1>2, <1>3, <1>4
<1>7. \A k \in 1 .. Len(w) : c[g[k]] = Verb(y, n, w[k])
  <2> SUFFICES ASSUME NEW k \in 1 .. Len(w) PROVE c[g[k]] = Verb(y, n, w[k])
    OBVIOUS
  <2>0. f[k] \in Int
    BY <1>3
  <2>1. g[k] \in 1 .. Len(c) /\ g[k] + 1 = f[k]
    BY <1>4, <2>0
  <2> QED BY <1>1, <1>2, <2>1
<1>8. \A i \in 1 .. Len(c) : c[i] \in {y, n} => \E k \in 1 .. Len(w) : g[k] = i
  <2> SUFFICES ASSUME NEW i \in 1 .. Len(c), c[i] \in {y, n}
               PROVE  \E k \in 1 .. Len(w) : g[k] = i
    OBVIOUS
  <2>1. i + 1 \in 1 .. Len(ch) /\ ch[i + 1] \in {y, n}
    BY <1>1
  <2>2. PICK k \in 1 .. Len(w) : f[k] = i + 1
    BY <1>2, <2>1
  <2> QED BY <1>1, <1>4, <2>2
<1>9. Carries(c, y, n, w)
  BY <1>5, <1>6, <1>7, <1>8 DEF Carries
<1> QED BY <1>9 DEF c

-----------------------------------------------------------------------------
(* The two parties of a conversation.                                      *)

\* Short words, taken apart and put together.
LEMMA ShortWords ==
  /\ Tail(Yes) = Empty /\ Tail(No) = Empty
  /\ Tail(YesNo) = No /\ Tail(NoYes) = Yes
  /\ Head(Yes) = "yes" /\ Head(No) = "no"
  /\ Head(YesNo) = "yes" /\ Head(NoYes) = "no"
  /\ Empty \o Yes = Yes /\ Empty \o No = No
  /\ Yes \o No = YesNo
  /\ No \o Yes = NoYes
  /\ Yes # Empty /\ No # Empty
  /\ YesNo # Empty /\ NoYes # Empty
<1>1. ASSUME NEW a \in {"yes", "no"} PROVE Tail(<<a>>) = <<>>
  OBVIOUS
<1>2. ASSUME NEW a \in {"yes", "no"}, NEW b \in {"yes", "no"}
      PROVE  Tail(<<a, b>>) = <<b>>
  OBVIOUS
<1>3. /\ Head(<<"yes">>) = "yes" /\ Head(<<"no">>) = "no"
      /\ Head(<<"yes", "no">>) = "yes" /\ Head(<<"no", "yes">>) = "no"
  OBVIOUS
<1>4. <<>> \o <<"yes">> = <<"yes">> /\ <<>> \o <<"no">> = <<"no">>
  OBVIOUS
<1>5. ASSUME NEW a \in {"yes", "no"}, NEW b \in {"yes", "no"}
      PROVE  <<a>> \o <<b>> = <<a, b>>
  <2> DEFINE s == <<a>>
             t == <<b>>
             u == s \o t
             x == <<a, b>>
  <2>1. /\ s \in Seq({"yes", "no"}) /\ Len(s) = 1 /\ s[1] = a
        /\ t \in Seq({"yes", "no"}) /\ Len(t) = 1 /\ t[1] = b
        /\ x \in Seq({"yes", "no"}) /\ Len(x) = 2 /\ x[1] = a /\ x[2] = b
    OBVIOUS
  <2> HIDE DEF s, t, x
  <2>2. /\ u \in Seq({"yes", "no"}) /\ Len(u) = Len(s) + Len(t)
        /\ \A i \in 1 .. Len(s) + Len(t) :
             u[i] = IF i <= Len(s) THEN s[i] ELSE t[i - Len(s)]
    BY <2>1, ConcatProperties
  <2> HIDE DEF u
  <2>3. Len(u) = 2 /\ u[1] = a /\ u[2] = b
    BY <2>1, <2>2
  <2>4. u = x
    BY <2>1, <2>2, <2>3, SeqEqual
  <2> QED BY <2>4 DEF u, s, t, x
<1>7. /\ <<"yes">> # <<>> /\ <<"no">> # <<>>
      /\ <<"yes", "no">> # <<>> /\ <<"no", "yes">> # <<>>
  OBVIOUS
<1> QED BY <1>1, <1>2, <1>3, <1>4, <1>5, <1>7 DEF Empty, Yes, No, YesNo, NoYes

\* What is said is added to a word.
LEMMA WordAdds ==
  /\ Word("nothing") = Empty /\ Word("yes") = Yes /\ Word("no") = No
  /\ \A w \in Words : w \o Empty = w
<1>1. \A w \in Words : w \o Empty = w
  BY ConcatEmptySeq DEF Words, Empty
<1> QED BY <1>1 DEF Word, Empty, Yes, No

\* Words on the way are words.
LEMMA FacingWords ==
  ASSUME NEW s, NEW w, NEW t, NEW v, Facing(s, w, t, v)
  PROVE  w \in Words /\ v \in Words
<1>1. /\ Empty \in Words /\ Yes \in Words /\ No \in Words
      /\ YesNo \in Words /\ NoYes \in Words
  BY DEF Words, Empty, Yes, No, YesNo, NoYes
<1> QED BY <1>1 DEF Facing

\* A request of a party: it has nothing open, or queues the request.
LEMMA AskKeepsJoint ==
  ASSUME NEW p \in Direction, NEW q \in Direction, NEW w, NEW v,
         Joint(p, w, q, v), NEW e \in {Enable(p), Disable(p)}
  PROVE  Joint(e.dir, w \o Word(e.sent), q, v) /\ e.sent \in Sent
<1>1. w \in Words /\ v \in Words
  BY FacingWords DEF Joint
<1>2. /\ p.st \in States
      /\ p.st = "NO" => e = Same(p) \/ e = Result("WANTYES", p.q, "yes")
      /\ p.st = "YES" => e = Same(p) \/ e = Result("WANTNO", p.q, "no")
      /\ p.st = "WANTNO" => \E x : e = Result("WANTNO", x, "nothing")
      /\ p.st = "WANTYES" => \E x : e = Result("WANTYES", x, "nothing")
  BY DEF Direction, States, Enable, Disable
<1>3. CASE e.dir.st = p.st /\ e.sent = "nothing"
  BY <1>1, <1>3, WordAdds DEF Joint, Sent
<1>4. CASE p.st = "NO" /\ e = Result("WANTYES", p.q, "yes")
  BY <1>4, WordAdds, ShortWords DEF Joint, Facing, Result, Sent
<1>5. CASE p.st = "YES" /\ e = Result("WANTNO", p.q, "no")
  BY <1>5, WordAdds, ShortWords DEF Joint, Facing, Result, Sent
<1> QED BY <1>2, <1>3, <1>4, <1>5 DEF States, Same, Result

\* The first message a party hears, whatever it is allowed to answer.
Heard(p, a, enabp) == IF a = "yes" THEN Agree(p, enabp) ELSE Refuse(p)

LEMMA HearKeepsJoint ==
  ASSUME NEW p \in Direction, NEW q \in Direction, NEW w, NEW v,
         Joint(p, w, q, v), v # Empty, NEW enabp \in BOOLEAN
  PROVE  /\ Joint(Heard(p, Head(v), enabp).dir,
                  w \o Word(Heard(p, Head(v), enabp).sent), q, Tail(v))
         /\ Heard(p, Head(v), enabp).sent \in Sent
<1> DEFINE e == Heard(p, Head(v), enabp)
<1>1. w \in Words /\ v \in Words
  BY FacingWords DEF Joint
<1>2. /\ p.st \in States /\ p.q \in Queues
  BY DEF Direction
<1>3. \/ p.st = "NO" /\ q.st = "WANTYES" /\ w = Empty /\ v = Yes
      \/ p.st = "YES" /\ q.st = "WANTNO" /\ w = Empty /\ v = No
      \/ p.st = "WANTNO" /\ q.st = "NO" /\ w = Empty /\ v = No
      \/ p.st = "WANTYES" /\ q.st = "YES" /\ w = Empty /\ v = Yes
      \/ p.st = "WANTYES" /\ q.st = "NO" /\ w = Empty /\ v = No
      \/ p.st = "WANTYES" /\ q.st = "WANTNO" /\ w = Empty /\ v = YesNo
      \/ p.st = "WANTNO" /\ q.st = "WANTYES" /\ w = Empty /\ v = NoYes
      \/ p.st = "WANTYES" /\ q.st = "WANTYES" /\ w = Empty /\ v = NoYes
      \/ p.st = "WANTNO" /\ q.st = "WANTNO" /\ w = No /\ v = No
      \/ p.st = "WANTYES" /\ q.st = "WANTYES" /\ w = Yes /\ v = Yes
  BY DEF Joint, Facing
<1>4. /\ p.st = "NO" /\ Head(v) = "yes" =>
           e = Result("YES", p.q, "yes") \/ e = Result("NO", p.q, "no")
      /\ p.st = "YES" /\ Head(v) = "no" => e = Result("NO", p.q, "no")
      /\ p.st = "WANTNO" /\ Head(v) = "no" =>
           e = Result("NO", "EMPTY", "nothing") \/ e = Result("WANTYES", "EMPTY", "yes")
      /\ p.st = "WANTYES" /\ Head(v) = "yes" =>
           e = Result("YES", "EMPTY", "nothing") \/ e = Result("WANTNO", "EMPTY", "no")
      /\ p.st = "WANTYES" /\ Head(v) = "no" => e = Result("NO", "EMPTY", "nothing")
  BY <1>2 DEF Heard, Agree, Refuse, Queues
<1> SUFFICES Joint(e.dir, w \o Word(e.sent), q, Tail(v)) /\ e.sent \in Sent
  OBVIOUS
<1> HIDE DEF e
<1>5. CASE p.st = "NO"
  BY SMTT(60), <1>3, <1>4, <1>5, ShortWords, WordAdds DEF Joint, Facing, Result, Sent
<1>6. CASE p.st = "YES"
  BY <1>3, <1>4, <1>6, ShortWords, WordAdds DEF Joint, Facing, Result, Sent
<1>7. CASE p.st = "WANTNO"
  <2>1. Head(v) = "no"
    BY <1>3, <1>7, ShortWords
  <2>2. CASE e = Result("NO", "EMPTY", "nothing")
    <3>1. w \o Word(e.sent) = w
      BY <1>1, <2>2, WordAdds DEF Result
    <3> QED BY <1>3, <1>7, <2>2, <3>1, ShortWords DEF Joint, Facing, Result, Sent
  <2>3. CASE e = Result("WANTYES", "EMPTY", "yes")
    <3>1. w \o Word(e.sent) = w \o Yes
      BY <2>3, WordAdds DEF Result
    <3> QED BY <1>3, <1>7, <2>3, <3>1, ShortWords DEF Joint, Facing, Result, Sent
  <2> QED BY <1>4, <1>7, <2>1, <2>2, <2>3
<1>8. CASE p.st = "WANTYES"
  <2>1. CASE e = Result("YES", "EMPTY", "nothing") /\ Head(v) = "yes"
    <3>1. w \o Word(e.sent) = w
      BY <1>1, <2>1, WordAdds DEF Result
    <3> QED BY <1>3, <1>8, <2>1, <3>1, ShortWords DEF Joint, Facing, Result, Sent
  <2>2. CASE e = Result("WANTNO", "EMPTY", "no") /\ Head(v) = "yes"
    <3>1. w \o Word(e.sent) = w \o No
      BY <2>2, WordAdds DEF Result
    <3> QED BY <1>3, <1>8, <2>2, <3>1, ShortWords DEF Joint, Facing, Result, Sent
  <2>3. CASE e = Result("NO", "EMPTY", "nothing") /\ Head(v) = "no"
    <3>1. w \o Word(e.sent) = w
      BY <1>1, <2>3, WordAdds DEF Result
    <3> QED BY <1>3, <1>8, <2>3, <3>1, ShortWords DEF Joint, Facing, Result, Sent
  <2> QED BY <1>3, <1>4, <1>8, <2>1, <2>2, <2>3, ShortWords
<1> QED BY <1>2, <1>5, <1>6, <1>7, <1>8 DEF States

\* The states of a direction stay what they are supposed to be.
LEMMA AskTypes ==
  ASSUME NEW p \in Direction, NEW e \in {Enable(p), Disable(p)}
  PROVE  e.dir \in Direction
<1>1. /\ p.st \in States /\ p.q \in Queues
      /\ p.q = "OPPOSITE" => p.st \in {"WANTNO", "WANTYES"}
      /\ p = [st |-> p.st, q |-> p.q]
  BY DEF Direction
<1>2. \/ e.dir = p
      \/ /\ p.st \in {"NO", "YES"}
         /\ \E s \in {"WANTNO", "WANTYES"} : e.dir = [st |-> s, q |-> p.q]
      \/ \E s \in {"WANTNO", "WANTYES"}, x \in Queues : e.dir = [st |-> s, q |-> x]
  BY <1>1 DEF Enable, Disable, Result, Same, States, Queues
<1> QED BY <1>1, <1>2 DEF Direction, States, Queues

LEMMA HearTypes ==
  ASSUME NEW p \in Direction, NEW a, NEW enabp \in BOOLEAN
  PROVE  /\ Heard(p, a, enabp).dir \in Direction
         /\ Heard(p, a, enabp).sent \in Sent
<1> DEFINE e == Heard(p, a, enabp)
<1>1. /\ p.st \in States /\ p.q \in Queues
      /\ p.q = "OPPOSITE" => p.st \in {"WANTNO", "WANTYES"}
      /\ p = [st |-> p.st, q |-> p.q]
  BY DEF Direction
<1>2. /\ e.sent \in Sent
      /\ \/ e.dir = p
         \/ /\ p.q = "EMPTY"
            /\ \E s \in {"NO", "YES"} : e.dir = [st |-> s, q |-> p.q]
         \/ \E s \in States : e.dir = [st |-> s, q |-> "EMPTY"]
  BY <1>1 DEF Heard, Agree, Refuse, Result, Same, States, Queues, Sent
<1> QED BY <1>1, <1>2 DEF Direction, States, Queues

-----------------------------------------------------------------------------
(* A conversation on the channels.                                         *)

\* The parties p and q, of whom p says y and n on channel out, and q says z
\* and m on channel in.
Talk(p, q, out, in, y, n, z, m) ==
  \E w, v \in Words : /\ Carries(out, y, n, w) /\ Carries(in, z, m, v)
                      /\ Joint(p, w, q, v)

\* The same, with a party q that agrees and does not ask.
Serving(p, q, out, in, y, n, z, m) ==
  \E w, v \in Words : /\ Carries(out, y, n, w) /\ Carries(in, z, m, v)
                      /\ Served(p.st, w, q.st, v)

Signs(y, n) == y \in Verbs /\ n \in Verbs /\ y # n

\* What saying something does to a channel and its words.
LEMMA Saying ==
  ASSUME NEW ch \in Seq(Verbs), NEW s \in Sent, NEW y, NEW n, Signs(y, n)
  PROVE  /\ ch \o Said(s, y, n) \in Seq(Verbs)
         /\ \A w \in Words : Carries(ch, y, n, w) =>
              Carries(ch \o Said(s, y, n), y, n, w \o Word(s))
         /\ \A x, z : {x, z} \cap {y, n} = {} =>
              \A w \in Words : Carries(ch, x, z, w) =>
                Carries(ch \o Said(s, y, n), x, z, w)
<1>1. CASE s = "nothing"
  <2>1. Said(s, y, n) = <<>> /\ Word(s) = <<>>
    BY <1>1 DEF Said, Word
  <2>2. ch \o <<>> = ch /\ \A w \in Words : w \o <<>> = w
    BY ConcatEmptySeq DEF Words
  <2> QED BY <2>1, <2>2
<1>2. CASE s \in {"yes", "no"}
  <2> DEFINE e == Verb(y, n, s)
  <2>1. e \in Verbs /\ Said(s, y, n) = <<e>> /\ Word(s) = <<s>>
    BY <1>2 DEF Said, Word, Verb, Signs
  <2>2. ch \o <<e>> = Append(ch, e) /\ \A w \in Words : w \o <<s>> = Append(w, s)
    <3>1. ch \o <<e>> = Append(ch, e)
      BY <2>1, AppendIsConcat
    <3>2. \A w \in Words : w \o <<s>> = Append(w, s)
      BY <1>2, AppendIsConcat DEF Words
    <3> QED BY <3>1, <3>2
  <2>3. e \in {y, n}
    BY DEF Verb
  <2>4. Append(ch, e) \in Seq(Verbs)
    BY <2>1, AppendProperties
  <2>5. ASSUME NEW w \in Words, Carries(ch, y, n, w)
        PROVE  Carries(Append(ch, e), y, n, Append(w, s))
    BY <1>2, <2>5, CarriesOne DEF Signs
  <2>6. ASSUME NEW x, NEW z, {x, z} \cap {y, n} = {},
               NEW w \in Words, Carries(ch, x, z, w)
        PROVE  Carries(Append(ch, e), x, z, w)
    <3>1. e \notin {x, z}
      BY <2>3, <2>6
    <3> QED BY <2>1, <2>6, <3>1, CarriesOther
  <2> HIDE DEF e
  <2> QED BY <2>1, <2>2, <2>4, <2>5, <2>6
<1> QED BY <1>1, <1>2 DEF Sent

\* What hearing something does to a channel and its words.
LEMMA Hearing ==
  ASSUME NEW ch \in Seq(Verbs), ch # <<>>, NEW y, NEW n, Signs(y, n)
  PROVE  /\ Tail(ch) \in Seq(Verbs) /\ Head(ch) \in Verbs
         /\ Head(ch) \in {y, n} =>
              \A w \in Words : Carries(ch, y, n, w) =>
                /\ w # <<>> /\ Head(ch) = Verb(y, n, Head(w))
                /\ Carries(Tail(ch), y, n, Tail(w))
         /\ Head(ch) \notin {y, n} =>
              \A w \in Words : Carries(ch, y, n, w) => Carries(Tail(ch), y, n, w)
<1>1. Tail(ch) \in Seq(Verbs) /\ Head(ch) \in Verbs
  BY HeadTailProperties
<1>2. y \in Verbs /\ n \in Verbs
  BY DEF Signs
<1>3. ASSUME Head(ch) \in {y, n}, NEW w \in Words, Carries(ch, y, n, w)
      PROVE  /\ w # <<>> /\ Head(ch) = Verb(y, n, Head(w))
             /\ Carries(Tail(ch), y, n, Tail(w))
  BY <1>3, CarriesHeard
<1>4. ASSUME Head(ch) \notin {y, n}, NEW w \in Words, Carries(ch, y, n, w)
      PROVE  Carries(Tail(ch), y, n, w)
  BY <1>2, <1>4, CarriesSkips
<1> QED BY <1>1, <1>3, <1>4

\* Both parties are treated alike.
LEMMA TalkTurns ==
  ASSUME NEW p, NEW q, NEW out, NEW in, NEW y, NEW n, NEW z, NEW m
  PROVE  Talk(p, q, out, in, y, n, z, m) <=> Talk(q, p, in, out, z, m, y, n)
BY DEF Talk, Joint

\* A request, queued or sent, keeps up the conversation.
LEMMA TalkAsks ==
  ASSUME NEW p \in Direction, NEW q \in Direction, NEW out \in Seq(Verbs), NEW in,
         NEW y, NEW n, NEW z, NEW m, Signs(y, n),
         Talk(p, q, out, in, y, n, z, m), NEW e \in {Enable(p), Disable(p)}
  PROVE  Talk(e.dir, q, out \o Said(e.sent, y, n), in, y, n, z, m)
<1>1. PICK w \in Words, v \in Words :
        Carries(out, y, n, w) /\ Carries(in, z, m, v) /\ Joint(p, w, q, v)
  BY DEF Talk
<1>2. Joint(e.dir, w \o Word(e.sent), q, v) /\ e.sent \in Sent
  BY <1>1, AskKeepsJoint
<1>3. Carries(out \o Said(e.sent, y, n), y, n, w \o Word(e.sent))
  BY <1>1, <1>2, Saying
<1>4. w \o Word(e.sent) \in Words
  BY <1>2, FacingWords DEF Joint
<1> QED BY <1>1, <1>2, <1>3, <1>4 DEF Talk

\* So does what a party hears, and its answer.
LEMMA TalkHears ==
  ASSUME NEW p \in Direction, NEW q \in Direction,
         NEW out \in Seq(Verbs), NEW in \in Seq(Verbs), in # <<>>,
         NEW y, NEW n, NEW z, NEW m, Signs(y, n), Signs(z, m),
         Talk(p, q, out, in, y, n, z, m), Head(in) \in {z, m},
         NEW enabp \in BOOLEAN,
         NEW e, e = IF Head(in) = z THEN Agree(p, enabp) ELSE Refuse(p)
  PROVE  Talk(e.dir, q, out \o Said(e.sent, y, n), Tail(in), y, n, z, m)
<1>1. PICK w \in Words, v \in Words :
        Carries(out, y, n, w) /\ Carries(in, z, m, v) /\ Joint(p, w, q, v)
  BY DEF Talk
<1>2. v # <<>> /\ Head(in) = Verb(z, m, Head(v)) /\ Carries(Tail(in), z, m, Tail(v))
  BY <1>1, Hearing
<1>3. e = Heard(p, Head(v), enabp)
  <2>1. Head(in) = z <=> Head(v) = "yes"
    BY <1>2 DEF Verb, Signs
  <2> QED BY <2>1 DEF Heard
<1>4. Joint(e.dir, w \o Word(e.sent), q, Tail(v)) /\ e.sent \in Sent
  <2>1. /\ Joint(Heard(p, Head(v), enabp).dir,
                 w \o Word(Heard(p, Head(v), enabp).sent), q, Tail(v))
        /\ Heard(p, Head(v), enabp).sent \in Sent
    BY <1>1, <1>2, HearKeepsJoint DEF Empty
  <2> QED BY <1>3, <2>1
<1>5. Carries(out \o Said(e.sent, y, n), y, n, w \o Word(e.sent))
  BY <1>1, <1>4, Saying
<1>6. w \o Word(e.sent) \in Words /\ Tail(v) \in Words
  BY <1>4, FacingWords DEF Joint
<1> QED BY <1>2, <1>4, <1>5, <1>6 DEF Talk

\* The other conversation does not disturb this one.
LEMMA TalkUndisturbed ==
  ASSUME NEW p, NEW q, NEW out \in Seq(Verbs), NEW in \in Seq(Verbs),
         NEW y, NEW n, NEW z, NEW m, Signs(y, n), Signs(z, m),
         NEW a, NEW b, Signs(a, b), {y, n} \cap {a, b} = {}, NEW s \in Sent
  PROVE  /\ Talk(p, q, out, in, y, n, z, m) =>
              Talk(p, q, out \o Said(s, a, b), in, y, n, z, m)
         /\ Serving(p, q, out, in, y, n, z, m) =>
              Serving(p, q, out \o Said(s, a, b), in, y, n, z, m)
         /\ in # <<>> /\ Head(in) \notin {z, m} =>
              /\ Talk(p, q, out, in, y, n, z, m) =>
                   Talk(p, q, out, Tail(in), y, n, z, m)
              /\ Serving(p, q, out, in, y, n, z, m) =>
                   Serving(p, q, out, Tail(in), y, n, z, m)
<1>1. \A w \in Words : Carries(out, y, n, w) =>
        Carries(out \o Said(s, a, b), y, n, w)
  BY Saying
<1>2. in # <<>> /\ Head(in) \notin {z, m} =>
        \A v \in Words : Carries(in, z, m, v) => Carries(Tail(in), z, m, v)
  BY Hearing
<1> QED BY <1>1, <1>2 DEF Talk, Serving

-----------------------------------------------------------------------------
(* A client that agrees.                                                   *)

\* Words of a conversation with a client that agrees are words.
LEMMA ServedWords ==
  ASSUME NEW s, NEW w, NEW t, NEW v, Served(s, w, t, v)
  PROVE  w \in Words /\ v \in Words
<1>1. /\ Empty \in Words /\ Yes \in Words /\ No \in Words
  BY DEF Words, Empty, Yes, No
<1> QED BY <1>1 DEF Served

\* The driver asks: what it wants is what it asks for.
LEMMA AskKeepsServed ==
  ASSUME NEW p \in Direction, NEW t, NEW w, NEW v, Served(p.st, w, t, v),
         NEW e \in {Enable(p), Disable(p)}
  PROVE  Served(e.dir.st, w \o Word(e.sent), t, v) /\ e.sent \in Sent
<1>1. w \in Words /\ v \in Words
  BY ServedWords
<1>2. /\ p.st \in States
      /\ p.st = "NO" => e = Same(p) \/ e = Result("WANTYES", p.q, "yes")
      /\ p.st = "YES" => e = Same(p) \/ e = Result("WANTNO", p.q, "no")
      /\ p.st = "WANTNO" => \E x : e = Result("WANTNO", x, "nothing")
      /\ p.st = "WANTYES" => \E x : e = Result("WANTYES", x, "nothing")
  BY DEF Direction, States, Enable, Disable
<1>3. CASE e.dir.st = p.st /\ e.sent = "nothing"
  BY <1>1, <1>3, WordAdds DEF Sent
<1>4. CASE p.st = "NO" /\ e = Result("WANTYES", p.q, "yes")
  BY <1>4, WordAdds, ShortWords DEF Served, Result, Sent
<1>5. CASE p.st = "YES" /\ e = Result("WANTNO", p.q, "no")
  BY <1>5, WordAdds, ShortWords DEF Served, Result, Sent
<1> QED BY <1>2, <1>3, <1>4, <1>5 DEF States, Same, Result

\* What is wanted after a request.
LEMMA AskWants ==
  ASSUME NEW p \in Direction
  PROVE  Wants(Enable(p).dir) /\ ~Wants(Disable(p).dir)
<1>1. p.st \in States /\ p.q \in Queues
      /\ (p.q = "OPPOSITE" => p.st \in {"WANTNO", "WANTYES"})
  BY DEF Direction
<1>2. Wants(Enable(p).dir)
  BY <1>1 DEF Enable, Result, Same, Wants, States, Queues
<1>3. ~Wants(Disable(p).dir)
  BY <1>1 DEF Disable, Result, Same, Wants, States, Queues
<1> QED BY <1>2, <1>3

\* The driver hears an answer, which does not change what it wants.
LEMMA DriverKeepsServed ==
  ASSUME NEW p \in Direction, NEW t, NEW w, NEW v, Served(p.st, w, t, v),
         v # <<>>, NEW enabp \in BOOLEAN
  PROVE  /\ Served(Heard(p, Head(v), enabp).dir.st,
                   w \o Word(Heard(p, Head(v), enabp).sent), t, Tail(v))
         /\ Wants(Heard(p, Head(v), enabp).dir) <=> Wants(p)
         /\ Heard(p, Head(v), enabp).sent \in Sent
<1> DEFINE e == Heard(p, Head(v), enabp)
<1>1. p.st \in States /\ p.q \in Queues
  BY DEF Direction
<1>2. v # Empty
  BY DEF Empty
<1>3. \/ p.st = "WANTYES" /\ t = "YES" /\ w = Empty /\ v = Yes
      \/ p.st = "WANTNO" /\ t = "NO" /\ w = Empty /\ v = No
  BY <1>2 DEF Served
<1>4. CASE p.st = "WANTYES"
  <2>1. Head(v) = "yes" /\ Tail(v) = Empty /\ w = Empty /\ t = "YES"
    BY <1>3, <1>4, ShortWords
  <2>2. \/ p.q = "EMPTY" /\ e = Result("YES", "EMPTY", "nothing")
        \/ p.q = "OPPOSITE" /\ e = Result("WANTNO", "EMPTY", "no")
    BY <1>1, <1>4, <2>1 DEF Heard, Agree, Queues
  <2> HIDE DEF e
  <2>3. /\ Served(e.dir.st, w \o Word(e.sent), t, Tail(v))
        /\ Wants(e.dir) <=> Wants(p)
        /\ e.sent \in Sent
    <3>1. Empty \in Words
      BY DEF Words, Empty
    <3> QED
      BY <1>4, <2>1, <2>2, <3>1, ShortWords, WordAdds
      DEF Served, Wants, Result, Sent
  <2> QED BY <2>3 DEF e
<1>5. CASE p.st = "WANTNO"
  <2>1. Head(v) = "no" /\ Tail(v) = Empty /\ w = Empty /\ t = "NO"
    BY <1>3, <1>5, ShortWords
  <2>2. \/ p.q = "EMPTY" /\ e = Result("NO", "EMPTY", "nothing")
        \/ p.q = "OPPOSITE" /\ e = Result("WANTYES", "EMPTY", "yes")
    BY <1>1, <1>5, <2>1 DEF Heard, Refuse, Queues
  <2> HIDE DEF e
  <2>3. /\ Served(e.dir.st, w \o Word(e.sent), t, Tail(v))
        /\ Wants(e.dir) <=> Wants(p)
        /\ e.sent \in Sent
    <3>1. Empty \in Words
      BY DEF Words, Empty
    <3> QED
      BY SMTT(60), <1>5, <2>1, <2>2, <3>1, ShortWords, WordAdds
      DEF Served, Wants, Result, Sent
  <2> QED BY <2>3 DEF e
<1> QED BY <1>3, <1>4, <1>5

\* The client hears a request and agrees.
LEMMA ClientKeepsServed ==
  ASSUME NEW s, NEW q \in Direction, NEW w, NEW v, Served(s, w, q.st, v),
         w # <<>>
  PROVE  /\ Served(s, Tail(w), Heard(q, Head(w), TRUE).dir.st,
                   v \o Word(Heard(q, Head(w), TRUE).sent))
         /\ Heard(q, Head(w), TRUE).sent \in Sent
<1> DEFINE e == Heard(q, Head(w), TRUE)
<1>1. q.st \in States /\ q.q \in Queues
  BY DEF Direction
<1>2. w # Empty
  BY DEF Empty
<1>3. \/ s = "WANTYES" /\ q.st = "NO" /\ w = Yes /\ v = Empty
      \/ s = "WANTNO" /\ q.st = "YES" /\ w = No /\ v = Empty
  BY <1>2 DEF Served
<1>4. \/ Head(w) = "yes" /\ e = Result("YES", q.q, "yes")
      \/ Head(w) = "no" /\ e = Result("NO", q.q, "no")
  BY <1>3, ShortWords DEF Heard, Agree, Refuse
<1> HIDE DEF e
<1>5. /\ Served(s, Tail(w), e.dir.st, v \o Word(e.sent))
      /\ e.sent \in Sent
  BY SMTT(60), <1>3, <1>4, ShortWords, WordAdds DEF Served, Result, Sent
<1> QED BY <1>5 DEF e

-----------------------------------------------------------------------------
(* The invariant.                                                          *)

OnUs == Talk(us, hisHim, toClient, toDriver, "WILL", "WONT", "DO", "DONT")
OnHim == Talk(him, hisUs, toClient, toDriver, "DO", "DONT", "WILL", "WONT")

Inv == TypeOK /\ OnUs /\ OnHim

\* The verbs are the signs of the conversations, and what the parties say
\* in them.
LEMMA Signed ==
  /\ Signs("WILL", "WONT") /\ Signs("DO", "DONT")
  /\ \A v \in Verbs : v \notin {"DO", "DONT"} <=> v \in {"WILL", "WONT"}
  /\ {"WILL", "WONT"} \cap {"DO", "DONT"} = {}
  /\ \A s \in Sent : Own(s) = Said(s, "WILL", "WONT") /\ Peer(s) = Said(s, "DO", "DONT")
<1>1. ASSUME NEW s \in Sent
      PROVE  Own(s) = Said(s, "WILL", "WONT") /\ Peer(s) = Said(s, "DO", "DONT")
  BY DEF Own, Peer, Said
<1> QED BY <1>1 DEF Signs, Verbs

\* A party of one conversation, p, hears the head of in and answers on out.
\* (The party q, and the other conversation of p1 and q1, stay as they are.)
LEMMA Turn ==
  ASSUME NEW p \in Direction, NEW q \in Direction, NEW p1, NEW q1,
         NEW out \in Seq(Verbs), NEW in \in Seq(Verbs), in # <<>>,
         NEW y, NEW n, NEW z, NEW m, Signs(y, n), Signs(z, m),
         {y, n} \cap {z, m} = {},
         Talk(p, q, out, in, y, n, z, m), Talk(p1, q1, out, in, z, m, y, n),
         Head(in) \in {z, m},
         NEW enabp \in BOOLEAN,
         NEW e, e = IF Head(in) = z THEN Agree(p, enabp) ELSE Refuse(p)
  PROVE  /\ Talk(e.dir, q, out \o Said(e.sent, y, n), Tail(in), y, n, z, m)
         /\ Talk(p1, q1, out \o Said(e.sent, y, n), Tail(in), z, m, y, n)
         /\ e.dir \in Direction /\ e.sent \in Sent
         /\ out \o Said(e.sent, y, n) \in Seq(Verbs) /\ Tail(in) \in Seq(Verbs)
<1>1. Talk(e.dir, q, out \o Said(e.sent, y, n), Tail(in), y, n, z, m)
  BY TalkHears
<1>2. e.dir \in Direction /\ e.sent \in Sent
  <2>1. PICK a : e = Heard(p, a, enabp)
    <3>1. e = Heard(p, IF Head(in) = z THEN "yes" ELSE "no", enabp)
      BY DEF Heard
    <3> QED BY <3>1
  <2> QED BY <2>1, HearTypes
<1>3. out \o Said(e.sent, y, n) \in Seq(Verbs) /\ Tail(in) \in Seq(Verbs)
  BY <1>2, Saying, Hearing
<1>4. Talk(p1, q1, out, Tail(in), z, m, y, n)
  <2>1. Head(in) \notin {y, n}
    OBVIOUS
  <2> QED BY <1>2, <2>1, TalkUndisturbed
<1>5. Talk(p1, q1, out \o Said(e.sent, y, n), Tail(in), z, m, y, n)
  BY <1>2, <1>3, <1>4, TalkUndisturbed
<1> QED BY <1>1, <1>2, <1>3, <1>5

\* A party of one conversation asks.
LEMMA Asking ==
  ASSUME NEW p \in Direction, NEW q \in Direction, NEW p1, NEW q1,
         NEW out \in Seq(Verbs), NEW in \in Seq(Verbs),
         NEW y, NEW n, NEW z, NEW m, Signs(y, n), Signs(z, m),
         {y, n} \cap {z, m} = {},
         Talk(p, q, out, in, y, n, z, m), Talk(p1, q1, out, in, z, m, y, n),
         NEW e \in {Enable(p), Disable(p)}
  PROVE  /\ Talk(e.dir, q, out \o Said(e.sent, y, n), in, y, n, z, m)
         /\ Talk(p1, q1, out \o Said(e.sent, y, n), in, z, m, y, n)
         /\ e.dir \in Direction /\ e.sent \in Sent
         /\ out \o Said(e.sent, y, n) \in Seq(Verbs)
<1>1. Talk(e.dir, q, out \o Said(e.sent, y, n), in, y, n, z, m)
  BY TalkAsks
<1>2. e.dir \in Direction /\ e.sent \in Sent
  <2>1. e.dir \in Direction
    BY AskTypes
  <2>2. PICK w \in Words, v \in Words : Joint(p, w, q, v)
    BY DEF Talk
  <2> QED BY <2>1, <2>2, AskKeepsJoint
<1>3. out \o Said(e.sent, y, n) \in Seq(Verbs)
  BY <1>2, Saying
<1>4. Talk(p1, q1, out \o Said(e.sent, y, n), in, z, m, y, n)
  BY <1>2, TalkUndisturbed
<1> QED BY <1>1, <1>2, <1>3, <1>4

\* The driver and the client receive.
LEMMA DriverReceivesKeeps ==
  ASSUME Inv, DriverReceives
  PROVE  Inv'
<1>1. /\ us \in Direction /\ him \in Direction /\ hisUs \in Direction
      /\ hisHim \in Direction
      /\ toClient \in Seq(Verbs) /\ toDriver \in Seq(Verbs) /\ toDriver # <<>>
      /\ OnUs /\ OnHim
  BY DEF Inv, TypeOK, DriverReceives
<1>2. UNCHANGED <<hisUs, hisHim, input_to, noecho, asked, kind>>
  BY DEF DriverReceives, client
<1>3. lenabp(Option) \in BOOLEAN /\ renabp(Option) \in BOOLEAN
  BY DEF lenabp, renabp
<1>4. Head(toDriver) \in Verbs
  BY <1>1, HeadTailProperties
<1>5. CASE Head(toDriver) \in {"DO", "DONT"}
  <2> DEFINE e == IF Head(toDriver) = "DO" THEN Agree(us, lenabp(Option))
                                           ELSE Refuse(us)
  <2>1. /\ us' = e.dir /\ toClient' = toClient \o Own(e.sent)
        /\ him' = him /\ toDriver' = Tail(toDriver)
    BY <1>5 DEF DriverReceives
  <2>2. PICK d : d = e
    OBVIOUS
  <2> HIDE DEF e
  <2>3. /\ Talk(d.dir, hisHim, toClient \o Said(d.sent, "WILL", "WONT"),
                Tail(toDriver), "WILL", "WONT", "DO", "DONT")
        /\ Talk(him, hisUs, toClient \o Said(d.sent, "WILL", "WONT"),
                Tail(toDriver), "DO", "DONT", "WILL", "WONT")
        /\ d.dir \in Direction /\ d.sent \in Sent
        /\ toClient \o Said(d.sent, "WILL", "WONT") \in Seq(Verbs)
        /\ Tail(toDriver) \in Seq(Verbs)
    BY <1>1, <1>3, <1>5, <2>2, Signed, Turn DEF e, OnUs, OnHim
  <2>4. toClient' = toClient \o Said(d.sent, "WILL", "WONT")
    BY <2>1, <2>2, <2>3, Signed
  <2> QED BY <1>2, <2>1, <2>2, <2>3, <2>4 DEF Inv, OnUs, OnHim, TypeOK
<1>6. CASE Head(toDriver) \in {"WILL", "WONT"}
  <2> DEFINE e == IF Head(toDriver) = "WILL" THEN Agree(him, renabp(Option))
                                             ELSE Refuse(him)
  <2>1. /\ him' = e.dir /\ toClient' = toClient \o Peer(e.sent)
        /\ us' = us /\ toDriver' = Tail(toDriver)
    BY <1>6 DEF DriverReceives
  <2>2. PICK d : d = e
    OBVIOUS
  <2> HIDE DEF e
  <2>3. /\ Talk(d.dir, hisUs, toClient \o Said(d.sent, "DO", "DONT"),
                Tail(toDriver), "DO", "DONT", "WILL", "WONT")
        /\ Talk(us, hisHim, toClient \o Said(d.sent, "DO", "DONT"),
                Tail(toDriver), "WILL", "WONT", "DO", "DONT")
        /\ d.dir \in Direction /\ d.sent \in Sent
        /\ toClient \o Said(d.sent, "DO", "DONT") \in Seq(Verbs)
        /\ Tail(toDriver) \in Seq(Verbs)
    BY <1>1, <1>3, <1>6, <2>2, Signed, Turn DEF e, OnUs, OnHim
  <2>4. toClient' = toClient \o Said(d.sent, "DO", "DONT")
    BY <2>1, <2>2, <2>3, Signed
  <2> QED BY <1>2, <2>1, <2>2, <2>3, <2>4 DEF Inv, OnUs, OnHim, TypeOK
<1> QED BY <1>4, <1>5, <1>6, Signed

LEMMA ClientReceivesKeeps ==
  ASSUME Inv, ClientReceives
  PROVE  Inv'
<1>1. /\ us \in Direction /\ him \in Direction /\ hisUs \in Direction
      /\ hisHim \in Direction
      /\ toClient \in Seq(Verbs) /\ toDriver \in Seq(Verbs) /\ toClient # <<>>
      /\ Talk(hisHim, us, toDriver, toClient, "DO", "DONT", "WILL", "WONT")
      /\ Talk(hisUs, him, toDriver, toClient, "WILL", "WONT", "DO", "DONT")
  BY TalkTurns DEF Inv, TypeOK, ClientReceives, OnUs, OnHim
<1>2. UNCHANGED <<us, him, input_to, noecho, asked, kind>>
  BY DEF ClientReceives, server
<1>3. Head(toClient) \in Verbs
  BY <1>1, HeadTailProperties
<1>4. CASE Head(toClient) \in {"WILL", "WONT"}
  <2>1. PICK enabp \in BOOLEAN :
          /\ hisHim' = (IF Head(toClient) = "WILL" THEN Agree(hisHim, enabp)
                                                   ELSE Refuse(hisHim)).dir
          /\ toDriver' = toDriver \o
               Peer((IF Head(toClient) = "WILL" THEN Agree(hisHim, enabp)
                                                ELSE Refuse(hisHim)).sent)
          /\ hisUs' = hisUs /\ toClient' = Tail(toClient)
    BY <1>4 DEF ClientReceives, Answers
  <2> DEFINE e == IF Head(toClient) = "WILL" THEN Agree(hisHim, enabp)
                                             ELSE Refuse(hisHim)
  <2>2. PICK d : d = e
    OBVIOUS
  <2>3. /\ hisHim' = d.dir /\ toDriver' = toDriver \o Peer(d.sent)
        /\ hisUs' = hisUs /\ toClient' = Tail(toClient)
    BY <2>1, <2>2
  <2> HIDE DEF e
  <2>4. /\ Talk(d.dir, us, toDriver \o Said(d.sent, "DO", "DONT"),
                Tail(toClient), "DO", "DONT", "WILL", "WONT")
        /\ Talk(hisUs, him, toDriver \o Said(d.sent, "DO", "DONT"),
                Tail(toClient), "WILL", "WONT", "DO", "DONT")
        /\ d.dir \in Direction /\ d.sent \in Sent
        /\ toDriver \o Said(d.sent, "DO", "DONT") \in Seq(Verbs)
        /\ Tail(toClient) \in Seq(Verbs)
    BY <1>1, <1>4, <2>2, Signed, Turn DEF e
  <2>5. toDriver' = toDriver \o Said(d.sent, "DO", "DONT")
    BY <2>3, <2>4, Signed
  <2> QED BY <1>2, <2>3, <2>4, <2>5, TalkTurns DEF Inv, OnUs, OnHim, TypeOK
<1>5. CASE Head(toClient) \in {"DO", "DONT"}
  <2>1. PICK enabp \in BOOLEAN :
          /\ hisUs' = (IF Head(toClient) = "DO" THEN Agree(hisUs, enabp)
                                                ELSE Refuse(hisUs)).dir
          /\ toDriver' = toDriver \o
               Own((IF Head(toClient) = "DO" THEN Agree(hisUs, enabp)
                                             ELSE Refuse(hisUs)).sent)
          /\ hisHim' = hisHim /\ toClient' = Tail(toClient)
    BY <1>5 DEF ClientReceives, Answers
  <2> DEFINE e == IF Head(toClient) = "DO" THEN Agree(hisUs, enabp)
                                           ELSE Refuse(hisUs)
  <2>2. PICK d : d = e
    OBVIOUS
  <2>3. /\ hisUs' = d.dir /\ toDriver' = toDriver \o Own(d.sent)
        /\ hisHim' = hisHim /\ toClient' = Tail(toClient)
    BY <2>1, <2>2
  <2> HIDE DEF e
  <2>4. /\ Talk(d.dir, him, toDriver \o Said(d.sent, "WILL", "WONT"),
                Tail(toClient), "WILL", "WONT", "DO", "DONT")
        /\ Talk(hisHim, us, toDriver \o Said(d.sent, "WILL", "WONT"),
                Tail(toClient), "DO", "DONT", "WILL", "WONT")
        /\ d.dir \in Direction /\ d.sent \in Sent
        /\ toDriver \o Said(d.sent, "WILL", "WONT") \in Seq(Verbs)
        /\ Tail(toClient) \in Seq(Verbs)
    BY <1>1, <1>5, <2>2, Signed, Turn DEF e
  <2>5. toDriver' = toDriver \o Said(d.sent, "WILL", "WONT")
    BY <2>3, <2>4, Signed
  <2> QED BY <1>2, <2>3, <2>4, <2>5, TalkTurns DEF Inv, OnUs, OnHim, TypeOK
<1> QED BY <1>3, <1>4, <1>5, Signed

\* What DriverActs does to the option: nothing or one request.
LEMMA ActEffect ==
  ASSUME DriverActs
  PROVE  \/ UNCHANGED <<us, toClient>>
         \/ \E e \in {Enable(us), Disable(us)} :
              us' = e.dir /\ toClient' = toClient \o Own(e.sent)
BY DEF DriverActs, Line, InputTo

LEMMA DriverActsKeeps ==
  ASSUME Inv, DriverActs
  PROVE  Inv'
<1>1. /\ us \in Direction /\ hisHim \in Direction
      /\ toClient \in Seq(Verbs) /\ toDriver \in Seq(Verbs)
      /\ OnUs /\ OnHim
  BY DEF Inv, TypeOK
<1>2. /\ UNCHANGED <<him, hisUs, hisHim, toDriver, kind>>
      /\ asked' \in 0 .. MaxAsked /\ noecho' \in BOOLEAN /\ input_to' \in BOOLEAN
  <2>1. MaxAsked \in Nat
    BY NegotiationAssumption
  <2>2. asked' \in 0 .. MaxAsked
    BY <2>1 DEF Inv, TypeOK, DriverActs
  <2>3. noecho' \in BOOLEAN /\ input_to' \in BOOLEAN
    BY DEF Inv, TypeOK, DriverActs, Line, InputTo
  <2> QED BY <2>2, <2>3 DEF DriverActs, client
<1>3. CASE UNCHANGED <<us, toClient>>
  BY <1>1, <1>2, <1>3 DEF Inv, TypeOK, OnUs, OnHim
<1>4. ASSUME NEW e \in {Enable(us), Disable(us)},
             us' = e.dir /\ toClient' = toClient \o Own(e.sent)
      PROVE  Inv'
  <2>1. /\ Talk(e.dir, hisHim, toClient \o Said(e.sent, "WILL", "WONT"),
                toDriver, "WILL", "WONT", "DO", "DONT")
        /\ Talk(him, hisUs, toClient \o Said(e.sent, "WILL", "WONT"),
                toDriver, "DO", "DONT", "WILL", "WONT")
        /\ e.dir \in Direction /\ e.sent \in Sent
        /\ toClient \o Said(e.sent, "WILL", "WONT") \in Seq(Verbs)
    BY <1>1, Signed, Asking DEF OnUs, OnHim
  <2>2. toClient' = toClient \o Said(e.sent, "WILL", "WONT")
    BY <1>4, <2>1, Signed
  <2> QED BY <1>2, <1>4, <2>1, <2>2 DEF Inv, OnUs, OnHim, TypeOK
<1> QED BY <1>3, <1>4, ActEffect

LEMMA ClientActsKeeps ==
  ASSUME Inv, ClientActs
  PROVE  Inv'
<1>1. /\ us \in Direction /\ him \in Direction /\ hisUs \in Direction
      /\ hisHim \in Direction
      /\ toClient \in Seq(Verbs) /\ toDriver \in Seq(Verbs)
      /\ Talk(hisHim, us, toDriver, toClient, "DO", "DONT", "WILL", "WONT")
      /\ Talk(hisUs, him, toDriver, toClient, "WILL", "WONT", "DO", "DONT")
  BY TalkTurns DEF Inv, TypeOK, OnUs, OnHim
<1>2. /\ UNCHANGED <<us, him, toClient, input_to, noecho, kind>>
      /\ asked' \in 0 .. MaxAsked
  <2>1. MaxAsked \in Nat
    BY NegotiationAssumption
  <2> QED BY <2>1 DEF ClientActs, server, Inv, TypeOK
<1>3. ASSUME NEW e \in {Enable(hisUs), Disable(hisUs)},
             hisUs' = e.dir, toDriver' = toDriver \o Own(e.sent), UNCHANGED hisHim
      PROVE  Inv'
  <2>1. /\ Talk(e.dir, him, toDriver \o Said(e.sent, "WILL", "WONT"),
                toClient, "WILL", "WONT", "DO", "DONT")
        /\ Talk(hisHim, us, toDriver \o Said(e.sent, "WILL", "WONT"),
                toClient, "DO", "DONT", "WILL", "WONT")
        /\ e.dir \in Direction /\ e.sent \in Sent
        /\ toDriver \o Said(e.sent, "WILL", "WONT") \in Seq(Verbs)
    BY <1>1, Signed, Asking
  <2>2. toDriver' = toDriver \o Said(e.sent, "WILL", "WONT")
    BY <1>3, <2>1, Signed
  <2> QED BY <1>2, <1>3, <2>1, <2>2, TalkTurns DEF Inv, OnUs, OnHim, TypeOK
<1>4. ASSUME NEW e \in {Enable(hisHim), Disable(hisHim)},
             hisHim' = e.dir, toDriver' = toDriver \o Peer(e.sent), UNCHANGED hisUs
      PROVE  Inv'
  <2>1. /\ Talk(e.dir, us, toDriver \o Said(e.sent, "DO", "DONT"),
                toClient, "DO", "DONT", "WILL", "WONT")
        /\ Talk(hisUs, him, toDriver \o Said(e.sent, "DO", "DONT"),
                toClient, "WILL", "WONT", "DO", "DONT")
        /\ e.dir \in Direction /\ e.sent \in Sent
        /\ toDriver \o Said(e.sent, "DO", "DONT") \in Seq(Verbs)
    BY <1>1, Signed, Asking
  <2>2. toDriver' = toDriver \o Said(e.sent, "DO", "DONT")
    BY <1>4, <2>1, Signed
  <2> QED BY <1>2, <1>4, <2>1, <2>2, TalkTurns DEF Inv, OnUs, OnHim, TypeOK
<1> QED BY <1>3, <1>4 DEF ClientActs

\* The conversations go on as they should, in every behaviour.
THEOREM Invariance == Spec => []Inv
<1>1. Init => Inv
  <2> SUFFICES ASSUME Init PROVE Inv
    OBVIOUS
  <2>1. Off \in Direction
    BY DEF Off, Direction, States, Queues
  <2>2. TypeOK
    <3>1. <<>> \in Seq(Verbs) /\ 0 \in 0 .. MaxAsked
      BY NegotiationAssumption
    <3> QED BY <2>1, <3>1 DEF Init, TypeOK
  <2>3. Joint(Off, <<>>, Off, <<>>)
    BY DEF Joint, Facing, Off, Empty
  <2>4. /\ <<>> \in Words
        /\ \A y, n : Carries(<<>>, y, n, <<>>)
    <3>1. <<>> \in Words
      BY DEF Words
    <3> QED BY <3>1, CarriesNothing
  <2>5. OnUs /\ OnHim
    BY <2>3, <2>4 DEF Init, OnUs, OnHim, Talk
  <2> QED BY <2>2, <2>5 DEF Inv
<1>2. Inv /\ [Next]_vars => Inv'
  <2> SUFFICES ASSUME Inv, [Next]_vars PROVE Inv'
    OBVIOUS
  <2>1. CASE UNCHANGED vars
    BY <2>1 DEF vars, Inv, TypeOK, OnUs, OnHim
  <2> QED
    BY <2>1, DriverReceivesKeeps, ClientReceivesKeeps, DriverActsKeeps,
       ClientActsKeeps DEF Next
<1> QED BY <1>1, <1>2, PTL DEF Spec

\* The option states stay what TypeOK says.
THEOREM OptionTypes == Spec => []TypeOK
<1>1. Inv => TypeOK
  BY DEF Inv
<1> QED BY <1>1, Invariance, PTL

\* telnet_do(), telnet_dont(), telnet_will() and telnet_wont(): when nothing
\* is on the way, no request is open and both parties agree, for any option,
\* any client and however many requests of both parties have crossed.
THEOREM PartiesAgree == Spec => []Agreement
<1>1. ASSUME NEW p, NEW q, NEW y, NEW n, NEW z, NEW m,
             Talk(p, q, <<>>, <<>>, y, n, z, m)
      PROVE  p.st \in {"YES", "NO"} /\ p.st = q.st
  <2>1. PICK w \in Words, v \in Words :
          /\ Carries(<<>>, y, n, w) /\ Carries(<<>>, z, m, v)
          /\ Joint(p, w, q, v)
    BY <1>1 DEF Talk
  <2>2. w = Empty /\ v = Empty
    BY <2>1, CarriesNothing DEF Empty
  <2> QED BY <2>1, <2>2, ShortWords DEF Joint, Facing
<1>2. Inv => Agreement
  <2> SUFFICES ASSUME Inv, Quiet
               PROVE  /\ us.st \in {"YES", "NO"} /\ him.st \in {"YES", "NO"}
                      /\ us.st = hisHim.st /\ him.st = hisUs.st
    BY DEF Agreement
  <2>1. /\ Talk(us, hisHim, <<>>, <<>>, "WILL", "WONT", "DO", "DONT")
        /\ Talk(him, hisUs, <<>>, <<>>, "DO", "DONT", "WILL", "WONT")
    BY DEF Inv, OnUs, OnHim, Quiet
  <2> QED BY <1>1, <2>1
<1> QED BY <1>2, Invariance, PTL

-----------------------------------------------------------------------------
(* The echo.                                                               *)

\* What EchoHonoured rests on: the driver wants ECHO on exactly while noecho
\* is set, noecho is set only while a function waits for the line, and the
\* client has agreed to everything so far.
EchoInv ==
  /\ noecho => input_to
  /\ kind = "agrees" =>
       /\ noecho <=> Wants(us)
       /\ Serving(us, hisHim, toClient, toDriver, "WILL", "WONT", "DO", "DONT")

\* The driver asks a client that agrees.
LEMMA ServingAsks ==
  ASSUME NEW p \in Direction, NEW q, NEW out \in Seq(Verbs), NEW in,
         NEW y, NEW n, NEW z, NEW m, Signs(y, n),
         Serving(p, q, out, in, y, n, z, m), NEW e \in {Enable(p), Disable(p)}
  PROVE  /\ Serving(e.dir, q, out \o Said(e.sent, y, n), in, y, n, z, m)
         /\ e.sent \in Sent
<1>1. PICK w \in Words, v \in Words :
        /\ Carries(out, y, n, w) /\ Carries(in, z, m, v)
        /\ Served(p.st, w, q.st, v)
  BY DEF Serving
<1>2. Served(e.dir.st, w \o Word(e.sent), q.st, v) /\ e.sent \in Sent
  BY <1>1, AskKeepsServed
<1>3. Carries(out \o Said(e.sent, y, n), y, n, w \o Word(e.sent))
  BY <1>1, <1>2, Saying
<1>4. w \o Word(e.sent) \in Words
  BY <1>2, ServedWords
<1> QED BY <1>1, <1>2, <1>3, <1>4 DEF Serving

\* The driver hears the answer of a client that agrees.
LEMMA ServingHears ==
  ASSUME NEW p \in Direction, NEW q,
         NEW out \in Seq(Verbs), NEW in \in Seq(Verbs), in # <<>>,
         NEW y, NEW n, NEW z, NEW m, Signs(y, n), Signs(z, m),
         Serving(p, q, out, in, y, n, z, m), Head(in) \in {z, m},
         NEW enabp \in BOOLEAN,
         NEW e, e = IF Head(in) = z THEN Agree(p, enabp) ELSE Refuse(p)
  PROVE  /\ Serving(e.dir, q, out \o Said(e.sent, y, n), Tail(in), y, n, z, m)
         /\ Wants(e.dir) <=> Wants(p)
         /\ e.sent \in Sent
<1>1. PICK w \in Words, v \in Words :
        /\ Carries(out, y, n, w) /\ Carries(in, z, m, v)
        /\ Served(p.st, w, q.st, v)
  BY DEF Serving
<1>2. v # <<>> /\ Head(in) = Verb(z, m, Head(v)) /\ Carries(Tail(in), z, m, Tail(v))
  BY <1>1, Hearing
<1>3. e = Heard(p, Head(v), enabp)
  <2>1. Head(in) = z <=> Head(v) = "yes"
    BY <1>2 DEF Verb, Signs
  <2> QED BY <2>1 DEF Heard
<1>4. /\ Served(e.dir.st, w \o Word(e.sent), q.st, Tail(v))
      /\ Wants(e.dir) <=> Wants(p)
      /\ e.sent \in Sent
  <2>1. /\ Served(Heard(p, Head(v), enabp).dir.st,
                  w \o Word(Heard(p, Head(v), enabp).sent), q.st, Tail(v))
        /\ Wants(Heard(p, Head(v), enabp).dir) <=> Wants(p)
        /\ Heard(p, Head(v), enabp).sent \in Sent
    BY <1>1, <1>2, DriverKeepsServed
  <2> QED BY <1>3, <2>1
<1>5. Carries(out \o Said(e.sent, y, n), y, n, w \o Word(e.sent))
  BY <1>1, <1>4, Saying
<1>6. w \o Word(e.sent) \in Words /\ Tail(v) \in Words
  BY <1>4, ServedWords
<1> QED BY <1>2, <1>4, <1>5, <1>6 DEF Serving

\* A client that agrees hears a request.
LEMMA ServingAgrees ==
  ASSUME NEW p, NEW q \in Direction,
         NEW out \in Seq(Verbs), NEW in \in Seq(Verbs), out # <<>>,
         NEW y, NEW n, NEW z, NEW m, Signs(y, n), Signs(z, m),
         Serving(p, q, out, in, y, n, z, m), Head(out) \in {y, n},
         NEW e, e = IF Head(out) = y THEN Agree(q, TRUE) ELSE Refuse(q)
  PROVE  /\ Serving(p, e.dir, Tail(out), in \o Said(e.sent, z, m), y, n, z, m)
         /\ e.sent \in Sent
<1>1. PICK w \in Words, v \in Words :
        /\ Carries(out, y, n, w) /\ Carries(in, z, m, v)
        /\ Served(p.st, w, q.st, v)
  BY DEF Serving
<1>2. w # <<>> /\ Head(out) = Verb(y, n, Head(w)) /\ Carries(Tail(out), y, n, Tail(w))
  BY <1>1, Hearing
<1>3. e = Heard(q, Head(w), TRUE)
  <2>1. Head(out) = y <=> Head(w) = "yes"
    BY <1>2 DEF Verb, Signs
  <2> QED BY <2>1 DEF Heard
<1>4. /\ Served(p.st, Tail(w), e.dir.st, v \o Word(e.sent))
      /\ e.sent \in Sent
  BY <1>1, <1>2, <1>3, ClientKeepsServed
<1>5. Carries(in \o Said(e.sent, z, m), z, m, v \o Word(e.sent))
  BY <1>1, <1>4, Saying
<1>6. Tail(w) \in Words /\ v \o Word(e.sent) \in Words
  BY <1>4, ServedWords
<1> QED BY <1>2, <1>4, <1>5, <1>6 DEF Serving

\* The client hears and says something about its own performance.
LEMMA ServingPasses ==
  ASSUME NEW p, NEW q, NEW out \in Seq(Verbs), NEW in \in Seq(Verbs), out # <<>>,
         NEW y, NEW n, NEW z, NEW m, Signs(y, n), Signs(z, m),
         NEW a, NEW b, Signs(a, b), {z, m} \cap {a, b} = {}, NEW s \in Sent,
         Serving(p, q, out, in, y, n, z, m), Head(out) \notin {y, n}
  PROVE  Serving(p, q, Tail(out), in \o Said(s, a, b), y, n, z, m)
<1>1. \A w \in Words : Carries(out, y, n, w) => Carries(Tail(out), y, n, w)
  BY Hearing
<1>2. \A v \in Words : Carries(in, z, m, v) => Carries(in \o Said(s, a, b), z, m, v)
  BY Saying
<1> QED BY <1>1, <1>2 DEF Serving

\* Every step keeps it up, if there is always room for the request.
LEMMA DriverReceivesEcho ==
  ASSUME Inv, EchoInv, DriverReceives
  PROVE  EchoInv'
<1>1. /\ us \in Direction /\ hisHim \in Direction
      /\ toClient \in Seq(Verbs) /\ toDriver \in Seq(Verbs) /\ toDriver # <<>>
  BY DEF Inv, TypeOK, DriverReceives
<1>2. UNCHANGED <<hisHim, input_to, noecho, kind>>
  BY DEF DriverReceives, client
<1> SUFFICES ASSUME kind = "agrees"
             PROVE  /\ Wants(us') <=> Wants(us)
                    /\ Serving(us', hisHim, toClient', toDriver',
                               "WILL", "WONT", "DO", "DONT")
  BY <1>2 DEF EchoInv
<1>3. Serving(us, hisHim, toClient, toDriver, "WILL", "WONT", "DO", "DONT")
  BY DEF EchoInv
<1>4. lenabp(Option) \in BOOLEAN /\ renabp(Option) \in BOOLEAN
  BY DEF lenabp, renabp
<1>5. Head(toDriver) \in Verbs
  BY <1>1, HeadTailProperties
<1>6. CASE Head(toDriver) \in {"DO", "DONT"}
  <2> DEFINE e == IF Head(toDriver) = "DO" THEN Agree(us, lenabp(Option))
                                           ELSE Refuse(us)
  <2>1. /\ us' = e.dir /\ toClient' = toClient \o Own(e.sent)
        /\ toDriver' = Tail(toDriver)
    BY <1>6 DEF DriverReceives
  <2>2. PICK d : d = e
    OBVIOUS
  <2> HIDE DEF e
  <2>3. /\ Serving(d.dir, hisHim, toClient \o Said(d.sent, "WILL", "WONT"),
                   Tail(toDriver), "WILL", "WONT", "DO", "DONT")
        /\ Wants(d.dir) <=> Wants(us)
        /\ d.sent \in Sent
    BY <1>1, <1>3, <1>4, <1>6, <2>2, Signed, ServingHears DEF e
  <2>4. toClient' = toClient \o Said(d.sent, "WILL", "WONT")
    BY <2>1, <2>2, <2>3, Signed
  <2> QED BY <2>1, <2>2, <2>3, <2>4
<1>7. CASE Head(toDriver) \in {"WILL", "WONT"}
  <2>1. PICK s \in Sent : /\ us' = us /\ toDriver' = Tail(toDriver)
                          /\ toClient' = toClient \o Said(s, "DO", "DONT")
    <3> DEFINE a == IF Head(toDriver) = "WILL" THEN "yes" ELSE "no"
               e == IF Head(toDriver) = "WILL" THEN Agree(him, renabp(Option))
                                               ELSE Refuse(him)
    <3>1. /\ toClient' = toClient \o Peer(e.sent)
          /\ us' = us /\ toDriver' = Tail(toDriver)
      BY <1>7 DEF DriverReceives
    <3>2. e = Heard(him, a, renabp(Option)) /\ him \in Direction
      BY DEF Heard, Inv, TypeOK
    <3> HIDE DEF e, a
    <3>3. e.sent \in Sent
      BY <1>4, <3>2, HearTypes
    <3> QED BY <3>1, <3>3, Signed
  <2>2. /\ {"WILL", "WONT"} \cap {"DO", "DONT"} = {}
        /\ Head(toDriver) \notin {"DO", "DONT"}
        /\ Tail(toDriver) \in Seq(Verbs)
    BY <1>1, <1>7, HeadTailProperties
  <2>3. Serving(us, hisHim, toClient, Tail(toDriver), "WILL", "WONT", "DO", "DONT")
    BY <1>1, <1>3, <2>1, <2>2, Signed, TalkUndisturbed
  <2>4. Serving(us, hisHim, toClient \o Said(s, "DO", "DONT"), Tail(toDriver),
                "WILL", "WONT", "DO", "DONT")
    BY <1>1, <2>2, <2>3, Signed, TalkUndisturbed
  <2> QED BY <2>1, <2>4
<1> QED BY <1>5, <1>6, <1>7, Signed

LEMMA ClientReceivesEcho ==
  ASSUME Inv, EchoInv, ClientReceives
  PROVE  EchoInv'
<1>1. /\ us \in Direction /\ hisHim \in Direction /\ hisUs \in Direction
      /\ toClient \in Seq(Verbs) /\ toDriver \in Seq(Verbs) /\ toClient # <<>>
  BY DEF Inv, TypeOK, ClientReceives
<1>2. UNCHANGED <<us, input_to, noecho, kind>>
  BY DEF ClientReceives, server
<1> SUFFICES ASSUME kind = "agrees"
             PROVE  Serving(us, hisHim', toClient', toDriver',
                            "WILL", "WONT", "DO", "DONT")
  BY <1>2 DEF EchoInv
<1>3. Serving(us, hisHim, toClient, toDriver, "WILL", "WONT", "DO", "DONT")
  BY DEF EchoInv
<1>4. Head(toClient) \in Verbs
  BY <1>1, HeadTailProperties
<1>5. CASE Head(toClient) \in {"WILL", "WONT"}
  <2> DEFINE e == IF Head(toClient) = "WILL" THEN Agree(hisHim, TRUE)
                                             ELSE Refuse(hisHim)
  <2>1. /\ hisHim' = e.dir /\ toDriver' = toDriver \o Peer(e.sent)
        /\ toClient' = Tail(toClient)
    BY <1>5 DEF ClientReceives, Answers
  <2>2. PICK d : d = e
    OBVIOUS
  <2> HIDE DEF e
  <2>3. /\ Serving(us, d.dir, Tail(toClient), toDriver \o Said(d.sent, "DO", "DONT"),
                   "WILL", "WONT", "DO", "DONT")
        /\ d.sent \in Sent
    BY <1>1, <1>3, <1>5, <2>2, Signed, ServingAgrees DEF e
  <2>4. toDriver' = toDriver \o Said(d.sent, "DO", "DONT")
    BY <2>1, <2>2, <2>3, Signed
  <2> QED BY <2>1, <2>2, <2>3, <2>4
<1>6. CASE Head(toClient) \in {"DO", "DONT"}
  <2>1. PICK s \in Sent : /\ hisHim' = hisHim /\ toClient' = Tail(toClient)
                          /\ toDriver' = toDriver \o Said(s, "WILL", "WONT")
    <3> DEFINE a == IF Head(toClient) = "DO" THEN "yes" ELSE "no"
               e == IF Head(toClient) = "DO" THEN Agree(hisUs, TRUE)
                                             ELSE Refuse(hisUs)
    <3>1. /\ toDriver' = toDriver \o Own(e.sent)
          /\ hisHim' = hisHim /\ toClient' = Tail(toClient)
      BY <1>6 DEF ClientReceives, Answers
    <3>2. e = Heard(hisUs, a, TRUE)
      BY DEF Heard
    <3> HIDE DEF e, a
    <3>3. e.sent \in Sent
      BY <1>1, <3>2, HearTypes
    <3> QED BY <3>1, <3>3, Signed
  <2>2. /\ {"DO", "DONT"} \cap {"WILL", "WONT"} = {}
        /\ Head(toClient) \notin {"WILL", "WONT"}
    BY <1>6
  <2> QED BY <1>1, <1>3, <2>1, <2>2, Signed, ServingPasses
<1> QED BY <1>4, <1>5, <1>6, Signed

LEMMA DriverActsEcho ==
  ASSUME ~Congested, Inv, EchoInv, DriverActs
  PROVE  EchoInv'
<1>1. /\ us \in Direction /\ toClient \in Seq(Verbs)
      /\ input_to \in BOOLEAN /\ noecho \in BOOLEAN
  BY DEF Inv, TypeOK
<1>2. UNCHANGED <<hisHim, toDriver, kind>>
  BY DEF DriverActs, client
<1>3. ASSUME NEW e \in {Enable(us), Disable(us)}, kind = "agrees",
             us' = e.dir, toClient' = toClient \o Own(e.sent)
      PROVE  Serving(us', hisHim, toClient', toDriver, "WILL", "WONT", "DO", "DONT")
  <2>1. Serving(us, hisHim, toClient, toDriver, "WILL", "WONT", "DO", "DONT")
    BY <1>3 DEF EchoInv
  <2>2. /\ Serving(e.dir, hisHim, toClient \o Said(e.sent, "WILL", "WONT"), toDriver,
                   "WILL", "WONT", "DO", "DONT")
        /\ e.sent \in Sent
    BY <1>1, <2>1, Signed, ServingAsks
  <2> QED BY <1>3, <2>2, Signed
<1>4. Line(TRUE) \/ \E hide \in BOOLEAN : InputTo(hide, TRUE)
  BY DEF DriverActs, Room
<1>5. CASE Line(TRUE)
  <2>1. CASE noecho
    BY <1>1, <1>2, <1>3, <1>5, <2>1, AskWants DEF EchoInv, Line
  <2>2. CASE ~noecho
    BY <1>2, <1>5, <2>2 DEF EchoInv, Line
  <2> QED BY <2>1, <2>2
<1>6. ASSUME NEW hide \in BOOLEAN, InputTo(hide, TRUE) PROVE EchoInv'
  <2>1. ~noecho
    BY <1>6 DEF EchoInv, InputTo
  <2>2. CASE hide
    BY <1>1, <1>2, <1>3, <1>6, <2>2, AskWants DEF EchoInv, InputTo
  <2>3. CASE ~hide
    BY <1>2, <1>6, <2>1, <2>3 DEF EchoInv, InputTo
  <2> QED BY <2>2, <2>3
<1> QED BY <1>4, <1>5, <1>6

\* input_to() with noecho and interactive_input(): once the request has been
\* answered, a client that agrees to such requests has its own echo off
\* exactly while noecho is set, however many lines and calls of input_to()
\* came before the answers.  The output queue has room: a request that is
\* dropped for lack of it is never made again.
THEOREM EchoFollows ==
  ASSUME ~Congested
  PROVE  Spec => []EchoHonoured
<1>1. Init => EchoInv
  <2> SUFFICES ASSUME Init PROVE EchoInv
    OBVIOUS
  <2>1. Served(Off.st, <<>>, Off.st, <<>>) /\ ~Wants(Off)
    BY DEF Served, Wants, Off, Empty
  <2>2. <<>> \in Words /\ \A y, n : Carries(<<>>, y, n, <<>>)
    <3>1. <<>> \in Words
      BY DEF Words
    <3> QED BY <3>1, CarriesNothing
  <2> QED BY <2>1, <2>2 DEF Init, EchoInv, Serving
<1>2. Inv /\ EchoInv /\ [Next]_vars => EchoInv'
  <2> SUFFICES ASSUME Inv, EchoInv, [Next]_vars PROVE EchoInv'
    OBVIOUS
  <2>1. CASE UNCHANGED vars
    BY <2>1 DEF vars, EchoInv
  <2>2. CASE ClientActs
    BY <2>2 DEF ClientActs, EchoInv
  <2> QED BY <2>1, <2>2, DriverReceivesEcho, ClientReceivesEcho, DriverActsEcho DEF Next
<1>3. Inv /\ EchoInv => EchoHonoured
  <2> SUFFICES ASSUME Inv, EchoInv, Quiet, kind = "agrees"
               PROVE  noecho <=> hisHim.st = "YES"
    BY DEF EchoHonoured
  <2>1. PICK w \in Words, v \in Words :
          /\ Carries(<<>>, "WILL", "WONT", w) /\ Carries(<<>>, "DO", "DONT", v)
          /\ Served(us.st, w, hisHim.st, v)
    BY DEF EchoInv, Quiet, Serving
  <2>2. w = Empty /\ v = Empty
    BY <2>1, CarriesNothing DEF Empty
  <2>3. us.st = hisHim.st /\ us.st \in {"NO", "YES"}
    BY <2>1, <2>2, ShortWords DEF Served
  <2> QED BY <2>3 DEF EchoInv, Wants
<1> QED BY <1>1, <1>2, <1>3, Invariance, PTL DEF Spec

-----------------------------------------------------------------------------
(* Nobody acknowledges acknowledgements.                                   *)

\* Whether a word is on the way to a party that waits for an answer.
Awaited(w, d) == IF d.st \in {"WANTYES", "WANTNO"} /\ w # Empty THEN 1 ELSE 0
Messages(s) == IF s = "nothing" THEN 0 ELSE 1

\* The answer on the way, and the word on the channel.
LEMMA AnswerAwaited ==
  ASSUME NEW ch \in Seq(Verbs), NEW y, NEW n, NEW w \in Words,
         Carries(ch, y, n, w), NEW d
  PROVE  Answer(ch, {y, n}, d) = Awaited(w, d)
<1>1. PICK f \in [1 .. Len(w) -> 1 .. Len(ch)] :
        /\ \A k \in 1 .. Len(w) : ch[f[k]] = Verb(y, n, w[k])
        /\ \A i \in 1 .. Len(ch) :
             ch[i] \in {y, n} => \E k \in 1 .. Len(w) : f[k] = i
  BY DEF Carries
<1>2. /\ Len(w) \in Nat /\ (Len(w) = 0 <=> w = Empty)
      /\ DOMAIN ch = 1 .. Len(ch)
  BY EmptySeq, LenProperties DEF Words, Empty
<1>3. ASSUME NEW i \in DOMAIN ch, ch[i] \in {y, n} PROVE w # Empty
  BY <1>1, <1>2, <1>3
<1>4. ASSUME w # Empty PROVE \E i \in DOMAIN ch : ch[i] \in {y, n}
  <2>1. 1 \in 1 .. Len(w)
    BY <1>2, <1>4
  <2>2. f[1] \in DOMAIN ch /\ ch[f[1]] \in {y, n}
    BY <1>1, <1>2, <2>1 DEF Verb
  <2> QED BY <2>2
<1> QED BY <1>3, <1>4 DEF Answer, Awaited

\* What a party hears is one message less, and its answer is awaited.
LEMMA HearSettles ==
  ASSUME NEW p \in Direction, NEW q \in Direction, NEW w, NEW v,
         Joint(p, w, q, v), v # <<>>, NEW enabp \in BOOLEAN,
         NEW e, e = Heard(p, Head(v), enabp)
  PROVE  2 * Messages(e.sent) + PutOff(e.dir)
           - Awaited(w \o Word(e.sent), q) - Awaited(Tail(v), e.dir)
         < 2 + PutOff(p) - Awaited(w, q) - Awaited(v, p)
<1>1. w \in Words /\ v \in Words
  BY FacingWords DEF Joint
<1>2. /\ p.st \in States /\ p.q \in Queues
      /\ p.q = "OPPOSITE" => p.st \in {"WANTNO", "WANTYES"}
  BY DEF Direction
<1>3. \/ p.st = "NO" /\ q.st = "WANTYES" /\ w = Empty /\ v = Yes
      \/ p.st = "YES" /\ q.st = "WANTNO" /\ w = Empty /\ v = No
      \/ p.st = "WANTNO" /\ q.st = "NO" /\ w = Empty /\ v = No
      \/ p.st = "WANTYES" /\ q.st = "YES" /\ w = Empty /\ v = Yes
      \/ p.st = "WANTYES" /\ q.st = "NO" /\ w = Empty /\ v = No
      \/ p.st = "WANTYES" /\ q.st = "WANTNO" /\ w = Empty /\ v = YesNo
      \/ p.st = "WANTNO" /\ q.st = "WANTYES" /\ w = Empty /\ v = NoYes
      \/ p.st = "WANTYES" /\ q.st = "WANTYES" /\ w = Empty /\ v = NoYes
      \/ p.st = "WANTNO" /\ q.st = "WANTNO" /\ w = No /\ v = No
      \/ p.st = "WANTYES" /\ q.st = "WANTYES" /\ w = Yes /\ v = Yes
  BY DEF Joint, Facing, Empty
<1>4. /\ p.st = "NO" /\ Head(v) = "yes" =>
           e = Result("YES", p.q, "yes") \/ e = Result("NO", p.q, "no")
      /\ p.st = "YES" /\ Head(v) = "no" => e = Result("NO", p.q, "no")
      /\ p.st = "WANTNO" /\ Head(v) = "no" =>
           \/ e = Result("NO", "EMPTY", "nothing") /\ p.q = "EMPTY"
           \/ e = Result("WANTYES", "EMPTY", "yes") /\ p.q = "OPPOSITE"
      /\ p.st = "WANTYES" /\ Head(v) = "yes" =>
           \/ e = Result("YES", "EMPTY", "nothing") /\ p.q = "EMPTY"
           \/ e = Result("WANTNO", "EMPTY", "no") /\ p.q = "OPPOSITE"
      /\ p.st = "WANTYES" /\ Head(v) = "no" => e = Result("NO", "EMPTY", "nothing")
  BY <1>2 DEF Heard, Agree, Refuse, Queues
<1>5. CASE p.st \in {"NO", "YES"}
  <2>1. /\ w = Empty /\ q.st \in {"WANTYES", "WANTNO"}
        /\ e.sent # "nothing" /\ w \o Word(e.sent) # Empty
        /\ e.dir.q = p.q /\ e.dir.st \notin {"WANTYES", "WANTNO"}
    BY <1>3, <1>4, <1>5, ShortWords, WordAdds DEF Result
  <2>2. /\ Awaited(w, q) = 0 /\ Awaited(w \o Word(e.sent), q) = 1
        /\ Awaited(v, p) = 0 /\ Awaited(Tail(v), e.dir) = 0
        /\ Messages(e.sent) = 1 /\ PutOff(e.dir) = PutOff(p)
    BY <1>5, <2>1 DEF Awaited, Messages, PutOff
  <2>3. PutOff(p) \in Int
    BY DEF PutOff
  <2> QED BY <2>2, <2>3
<1>6. CASE p.st \in {"WANTNO", "WANTYES"}
  <2>0. v # Empty
    BY DEF Empty
  <2>1. Awaited(v, p) = 1
    BY <1>6, <2>0 DEF Awaited
  <2>2. /\ Awaited(w, q) \in {0, 1} /\ Awaited(w \o Word(e.sent), q) \in {0, 1}
        /\ Awaited(Tail(v), e.dir) \in {0, 1} /\ PutOff(p) \in {0, 2}
    BY DEF Awaited, PutOff
  <2>3. CASE e.sent = "nothing" /\ e.dir.q = "EMPTY"
    <3>1. w \o Word(e.sent) = w
      BY <1>1, <2>3, WordAdds
    <3>2. Messages(e.sent) = 0 /\ PutOff(e.dir) = 0
      BY <2>3 DEF Messages, PutOff
    <3>3. \A a, b \in {0, 1}, k \in {0, 2} : 2 * 0 + 0 - a - b < 2 + k - a - 1
      OBVIOUS
    <3>4. 2 * 0 + 0 - Awaited(w, q) - Awaited(Tail(v), e.dir)
            < 2 + PutOff(p) - Awaited(w, q) - 1
      BY <2>2, <3>3
    <3> QED BY <2>1, <3>1, <3>2, <3>4
  <2>4. CASE e.sent # "nothing" /\ e.dir.q = "EMPTY" /\ p.q = "OPPOSITE"
    <3>1. Messages(e.sent) = 1 /\ PutOff(e.dir) = 0 /\ PutOff(p) = 2
      BY <2>4 DEF Messages, PutOff
    <3>2. Awaited(w, q) = 0 \/ Awaited(w \o Word(e.sent), q) = 1
      <4>1. CASE w = Empty
        BY <4>1 DEF Awaited
      <4>2. CASE w # Empty
        <5>1. q.st \in {"WANTYES", "WANTNO"}
          BY <1>3, <4>2
        <5>2. w \o Word(e.sent) # Empty
          BY <1>3, <1>4, <1>6, <2>4, <4>2, ShortWords, WordAdds DEF Result
        <5> QED BY <5>1, <5>2 DEF Awaited
      <4> QED BY <4>1, <4>2
    <3> QED BY <2>1, <2>2, <3>1, <3>2
  <2> QED BY <1>3, <1>4, <1>6, <2>3, <2>4, ShortWords DEF Result
<1> QED BY <1>2, <1>5, <1>6 DEF States

\* What the four parties of both conversations have left to say, when p and p1
\* speak on out, and q and q1 on in.
Rest(p, q, p1, q1, out, in, y, n, z, m) ==
  2 * (Len(out) + Len(in))
    + PutOff(p) + PutOff(p1) + PutOff(q1) + PutOff(q)
    - Answer(in, {z, m}, p) - Answer(in, {y, n}, p1)
    - Answer(out, {z, m}, q1) - Answer(out, {y, n}, q)

\* There is no more to be heard than is on the way.
LEMMA RestNat ==
  ASSUME NEW p, NEW q, NEW p1, NEW q1, NEW out \in Seq(Verbs), NEW in \in Seq(Verbs),
         NEW y, NEW n, NEW z, NEW m
  PROVE  Rest(p, q, p1, q1, out, in, y, n, z, m) \in Nat
<1>1. ASSUME NEW ch \in Seq(Verbs), NEW V, NEW W, NEW d, NEW d1
      PROVE  2 * Len(ch) - Answer(ch, V, d) - Answer(ch, W, d1) \in Nat
  <2>1. Len(ch) \in Nat /\ DOMAIN ch = 1 .. Len(ch)
    BY LenProperties
  <2>2. Answer(ch, V, d) \in {0, 1} /\ Answer(ch, W, d1) \in {0, 1}
    BY DEF Answer
  <2>3. Len(ch) = 0 => Answer(ch, V, d) = 0 /\ Answer(ch, W, d1) = 0
    <3>1. Len(ch) = 0 => DOMAIN ch = {}
      BY <2>1
    <3> QED BY <3>1 DEF Answer
  <2>4. \A l \in Nat, a, b \in {0, 1} :
          (l = 0 => a = 0 /\ b = 0) => 2 * l - a - b \in Nat
    OBVIOUS
  <2> QED BY <2>1, <2>2, <2>3, <2>4
<1>2. /\ 2 * Len(out) - Answer(out, {y, n}, q) - Answer(out, {z, m}, q1) \in Nat
      /\ 2 * Len(in) - Answer(in, {z, m}, p) - Answer(in, {y, n}, p1) \in Nat
  BY <1>1
<1> DEFINE a == Answer(in, {z, m}, p)
           b == Answer(out, {y, n}, q)
           c == Answer(in, {y, n}, p1)
           d == Answer(out, {z, m}, q1)
           k == PutOff(p)
           l == PutOff(q)
           r == PutOff(p1)
           t == PutOff(q1)
           i == Len(out)
           j == Len(in)
<1>3. k \in Nat /\ l \in Nat /\ r \in Nat /\ t \in Nat
  BY DEF PutOff
<1>4. i \in Nat /\ j \in Nat /\ a \in Int /\ b \in Int /\ c \in Int /\ d \in Int
  BY LenProperties DEF Answer
<1>5. 2 * i - b - d \in Nat /\ 2 * j - a - c \in Nat
  BY <1>2
<1>6. Rest(p, q, p1, q1, out, in, y, n, z, m) =
        2 * (i + j) + k + r + t + l - a - c - d - b
  BY DEF Rest
<1> HIDE DEF a, b, c, d, i, j, k, l, r, t
<1>7. 2 * (i + j) + k + r + t + l - a - c - d - b \in Nat
  BY <1>3, <1>4, <1>5
<1> QED BY <1>6, <1>7

\* A party that hears the head of in, and answers, leaves less to be said.
LEMMA TurnSettles ==
  ASSUME NEW p \in Direction, NEW q \in Direction, NEW p1, NEW q1,
         NEW out \in Seq(Verbs), NEW in \in Seq(Verbs), in # <<>>,
         NEW y, NEW n, NEW z, NEW m, Signs(y, n), Signs(z, m),
         {y, n} \cap {z, m} = {},
         Talk(p, q, out, in, y, n, z, m), Talk(p1, q1, out, in, z, m, y, n),
         Head(in) \in {z, m},
         NEW enabp \in BOOLEAN,
         NEW e, e = IF Head(in) = z THEN Agree(p, enabp) ELSE Refuse(p)
  PROVE  Rest(e.dir, q, p1, q1, out \o Said(e.sent, y, n), Tail(in), y, n, z, m)
           < Rest(p, q, p1, q1, out, in, y, n, z, m)
<1> DEFINE o == out \o Said(e.sent, y, n)
<1>1. PICK w \in Words, v \in Words :
        Carries(out, y, n, w) /\ Carries(in, z, m, v) /\ Joint(p, w, q, v)
  BY DEF Talk
<1>2. PICK w1 \in Words, v1 \in Words :
        Carries(out, z, m, w1) /\ Carries(in, y, n, v1)
  BY DEF Talk
<1>3. e.dir \in Direction /\ e.sent \in Sent /\ o \in Seq(Verbs) /\ Tail(in) \in Seq(Verbs)
  BY Turn
<1>4. v # <<>> /\ Head(in) = Verb(z, m, Head(v)) /\ Carries(Tail(in), z, m, Tail(v))
  BY <1>1, Hearing
<1>5. e = Heard(p, Head(v), enabp)
  <2>1. Head(in) = z <=> Head(v) = "yes"
    BY <1>4 DEF Verb, Signs
  <2> QED BY <2>1 DEF Heard
<1>6. Carries(o, y, n, w \o Word(e.sent))
  BY <1>1, <1>3, Saying
<1>7. Carries(o, z, m, w1)
  BY <1>2, <1>3, Saying
<1>8. Carries(Tail(in), y, n, v1)
  <2>1. Head(in) \notin {y, n}
    OBVIOUS
  <2> QED BY <1>2, <2>1, Hearing
<1>9. w \o Word(e.sent) \in Words /\ Tail(v) \in Words
  <2>1. Word(e.sent) \in Words
    <3>1. Empty \in Words /\ Yes \in Words /\ No \in Words
      BY DEF Words, Empty, Yes, No
    <3>2. Word(e.sent) \in {Empty, Yes, No}
      BY <1>3, WordAdds DEF Sent
    <3> QED BY <3>1, <3>2
  <2> QED BY <1>4, <2>1, ConcatProperties, HeadTailProperties DEF Words
<1>10. /\ Answer(in, {z, m}, p) = Awaited(v, p)
       /\ Answer(Tail(in), {z, m}, e.dir) = Awaited(Tail(v), e.dir)
       /\ Answer(out, {y, n}, q) = Awaited(w, q)
       /\ Answer(o, {y, n}, q) = Awaited(w \o Word(e.sent), q)
       /\ Answer(Tail(in), {y, n}, p1) = Answer(in, {y, n}, p1)
       /\ Answer(o, {z, m}, q1) = Answer(out, {z, m}, q1)
  <2> HIDE DEF o
  <2>1. Answer(in, {z, m}, p) = Awaited(v, p)
    BY <1>1, AnswerAwaited
  <2>2. Answer(Tail(in), {z, m}, e.dir) = Awaited(Tail(v), e.dir)
    <3>1. PICK ch \in Seq(Verbs), u \in Words, g \in Direction :
            ch = Tail(in) /\ u = Tail(v) /\ g = e.dir
      BY <1>3, <1>9
    <3>2. Carries(ch, z, m, u)
      BY <1>4, <3>1
    <3>3. Answer(ch, {z, m}, g) = Awaited(u, g)
      BY <3>2, AnswerAwaited
    <3> QED BY <3>1, <3>3
  <2>3. Answer(out, {y, n}, q) = Awaited(w, q)
    BY <1>1, AnswerAwaited
  <2>4. Answer(o, {y, n}, q) = Awaited(w \o Word(e.sent), q)
    <3>1. PICK u \in Words : u = w \o Word(e.sent)
      BY <1>9
    <3>2. o \in Seq(Verbs) /\ Carries(o, y, n, u)
      BY <1>3, <1>6, <3>1
    <3>3. Answer(o, {y, n}, q) = Awaited(u, q)
      BY <3>2, AnswerAwaited
    <3> QED BY <3>1, <3>3
  <2>5. Answer(Tail(in), {y, n}, p1) = Awaited(v1, p1)
    <3>1. PICK ch \in Seq(Verbs) : ch = Tail(in)
      BY <1>3
    <3>2. Carries(ch, y, n, v1)
      BY <1>8, <3>1
    <3>3. Answer(ch, {y, n}, p1) = Awaited(v1, p1)
      BY <3>2, AnswerAwaited
    <3> QED BY <3>1, <3>3
  <2>6. Answer(in, {y, n}, p1) = Awaited(v1, p1)
    BY <1>2, AnswerAwaited
  <2>7. Answer(o, {z, m}, q1) = Awaited(w1, q1)
    BY <1>3, <1>7, AnswerAwaited
  <2>8. Answer(out, {z, m}, q1) = Awaited(w1, q1)
    BY <1>2, AnswerAwaited
  <2> QED BY <2>1, <2>2, <2>3, <2>4, <2>5, <2>6, <2>7, <2>8
<1>11. Len(in) \in Nat /\ Len(out) \in Nat /\ Len(Tail(in)) = Len(in) - 1
  BY LenProperties, HeadTailProperties
<1>12. Len(o) = Len(out) + Messages(e.sent)
  <2>1. CASE e.sent = "nothing"
    BY <1>11, <2>1, ConcatEmptySeq DEF Said, Messages
  <2>2. CASE e.sent \in {"yes", "no"}
    <3>1. PICK a \in Verbs : Said(e.sent, y, n) = <<a>>
      BY <2>2 DEF Said, Signs
    <3>2. <<a>> \in Seq(Verbs) /\ Len(<<a>>) = 1
      OBVIOUS
    <3>3. Len(out \o <<a>>) = Len(out) + 1
      BY <3>2, ConcatProperties
    <3> QED BY <2>2, <3>1, <3>3 DEF Messages
  <2> QED BY <1>3, <2>1, <2>2 DEF Sent
<1>13. 2 * Messages(e.sent) + PutOff(e.dir)
         - Awaited(w \o Word(e.sent), q) - Awaited(Tail(v), e.dir)
       < 2 + PutOff(p) - Awaited(w, q) - Awaited(v, p)
  BY <1>1, <1>4, <1>5, HearSettles
<1> DEFINE a == Awaited(v, p)
           a1 == Awaited(Tail(v), e.dir)
           b == Awaited(w, q)
           b1 == Awaited(w \o Word(e.sent), q)
           c == Answer(in, {y, n}, p1)
           d == Answer(out, {z, m}, q1)
           k == PutOff(p)
           k1 == PutOff(e.dir)
           l == PutOff(q)
           r == PutOff(p1)
           t == PutOff(q1)
           i == Len(out)
           j == Len(in)
           x == Messages(e.sent)
<1>14. /\ i \in Int /\ j \in Int /\ k \in Int /\ l \in Int /\ r \in Int /\ t \in Int
       /\ a \in Int /\ b \in Int /\ c \in Int /\ d \in Int
       /\ a1 \in Int /\ b1 \in Int /\ k1 \in Int /\ x \in Int
  BY <1>11 DEF PutOff, Awaited, Answer, Messages
<1>15. Rest(p, q, p1, q1, out, in, y, n, z, m)
         = 2 * (i + j) + k + r + t + l - a - c - d - b
  BY <1>10 DEF Rest
<1>16. Rest(e.dir, q, p1, q1, o, Tail(in), y, n, z, m)
         = 2 * ((i + x) + (j - 1)) + k1 + r + t + l - a1 - c - d - b1
  <2> HIDE DEF o
  <2> QED BY <1>10, <1>11, <1>12 DEF Rest
<1>17. 2 * x + k1 - b1 - a1 < 2 + k - b - a
  BY <1>13
<1> HIDE DEF o, a, b, c, d, i, j, k, l, r, t, a1, b1, k1, x
<1>18. 2 * ((i + x) + (j - 1)) + k1 + r + t + l - a1 - c - d - b1
         < 2 * (i + j) + k + r + t + l - a - c - d - b
  BY <1>14, <1>17
<1>19. Rest(e.dir, q, p1, q1, o, Tail(in), y, n, z, m)
         < Rest(p, q, p1, q1, out, in, y, n, z, m)
  BY <1>15, <1>16, <1>18
<1> QED BY <1>19 DEF o

\* The measure does not depend on who is called p.
LEMMA RestAlike ==
  ASSUME NEW p, NEW q, NEW p1, NEW q1, NEW out \in Seq(Verbs), NEW in \in Seq(Verbs),
         NEW y, NEW n, NEW z, NEW m
  PROVE  /\ Rest(p1, q1, p, q, out, in, z, m, y, n)
              = Rest(p, q, p1, q1, out, in, y, n, z, m)
         /\ Rest(q, p, q1, p1, in, out, z, m, y, n)
              = Rest(p, q, p1, q1, out, in, y, n, z, m)
<1> DEFINE a == Answer(in, {z, m}, p)
           b == Answer(out, {y, n}, q)
           c == Answer(in, {y, n}, p1)
           d == Answer(out, {z, m}, q1)
           k == PutOff(p)
           l == PutOff(q)
           r == PutOff(p1)
           t == PutOff(q1)
           i == Len(out)
           j == Len(in)
<1>1. /\ i \in Int /\ j \in Int /\ k \in Int /\ l \in Int /\ r \in Int /\ t \in Int
      /\ a \in Int /\ b \in Int /\ c \in Int /\ d \in Int
  BY LenProperties DEF PutOff, Answer
<1>2. /\ Rest(p, q, p1, q1, out, in, y, n, z, m)
           = 2 * (i + j) + k + r + t + l - a - c - d - b
      /\ Rest(p1, q1, p, q, out, in, z, m, y, n)
           = 2 * (i + j) + r + k + l + t - c - a - b - d
      /\ Rest(q, p, q1, p1, in, out, z, m, y, n)
           = 2 * (j + i) + l + t + r + k - b - d - c - a
  BY DEF Rest
<1> HIDE DEF a, b, c, d, i, j, k, l, r, t
<1>3. /\ 2 * (i + j) + r + k + l + t - c - a - b - d
           = 2 * (i + j) + k + r + t + l - a - c - d - b
      /\ 2 * (j + i) + l + t + r + k - b - d - c - a
           = 2 * (i + j) + k + r + t + l - a - c - d - b
  BY <1>1
<1> QED BY <1>2, <1>3

\* Left is that measure, before a step and after it.
LEMMA LeftIsRest ==
  /\ Left = Rest(us, hisHim, him, hisUs, toClient, toDriver,
                 "WILL", "WONT", "DO", "DONT")
  /\ Left' = Rest(us', hisHim', him', hisUs', toClient', toDriver',
                  "WILL", "WONT", "DO", "DONT")
BY DEF Left, Rest

\* The driver and the client receive.
LEMMA DriverReceivesSettles ==
  ASSUME Inv, DriverReceives
  PROVE  Left' < Left
<1>1. /\ us \in Direction /\ him \in Direction /\ hisUs \in Direction
      /\ hisHim \in Direction
      /\ toClient \in Seq(Verbs) /\ toDriver \in Seq(Verbs) /\ toDriver # <<>>
      /\ Talk(us, hisHim, toClient, toDriver, "WILL", "WONT", "DO", "DONT")
      /\ Talk(him, hisUs, toClient, toDriver, "DO", "DONT", "WILL", "WONT")
  BY DEF Inv, TypeOK, DriverReceives, OnUs, OnHim
<1>2. hisUs' = hisUs /\ hisHim' = hisHim
  BY DEF DriverReceives, client
<1>3. lenabp(Option) \in BOOLEAN /\ renabp(Option) \in BOOLEAN
  BY DEF lenabp, renabp
<1>4. Head(toDriver) \in Verbs
  BY <1>1, HeadTailProperties
<1>5. CASE Head(toDriver) \in {"DO", "DONT"}
  <2>1. PICK d : d = IF Head(toDriver) = "DO" THEN Agree(us, lenabp(Option))
                                              ELSE Refuse(us)
    OBVIOUS
  <2>2. /\ us' = d.dir /\ toClient' = toClient \o Own(d.sent)
        /\ him' = him /\ toDriver' = Tail(toDriver)
    BY <1>5, <2>1 DEF DriverReceives
  <2>3. d.sent \in Sent
    BY <1>1, <1>3, <1>5, <2>1, Signed, Turn
  <2>4. Rest(d.dir, hisHim, him, hisUs, toClient \o Said(d.sent, "WILL", "WONT"),
             Tail(toDriver), "WILL", "WONT", "DO", "DONT")
          < Rest(us, hisHim, him, hisUs, toClient, toDriver,
                 "WILL", "WONT", "DO", "DONT")
    BY <1>1, <1>3, <1>5, <2>1, Signed, TurnSettles
  <2>5. Rest(us', hisHim', him', hisUs', toClient', toDriver',
             "WILL", "WONT", "DO", "DONT")
          < Rest(us, hisHim, him, hisUs, toClient, toDriver,
                 "WILL", "WONT", "DO", "DONT")
    BY <1>2, <2>2, <2>3, <2>4, Signed
  <2> QED BY <2>5, LeftIsRest
<1>6. CASE Head(toDriver) \in {"WILL", "WONT"}
  <2>1. PICK d : d = IF Head(toDriver) = "WILL" THEN Agree(him, renabp(Option))
                                                ELSE Refuse(him)
    OBVIOUS
  <2>2. /\ him' = d.dir /\ toClient' = toClient \o Peer(d.sent)
        /\ us' = us /\ toDriver' = Tail(toDriver)
    BY <1>6, <2>1 DEF DriverReceives
  <2>3. d.sent \in Sent
    BY <1>1, <1>3, <1>6, <2>1, Signed, Turn
  <2>4. Rest(d.dir, hisUs, us, hisHim, toClient \o Said(d.sent, "DO", "DONT"),
             Tail(toDriver), "DO", "DONT", "WILL", "WONT")
          < Rest(him, hisUs, us, hisHim, toClient, toDriver,
                 "DO", "DONT", "WILL", "WONT")
    BY <1>1, <1>3, <1>6, <2>1, Signed, TurnSettles
  <2>5. Rest(him', hisUs', us', hisHim', toClient', toDriver',
             "DO", "DONT", "WILL", "WONT")
          < Rest(him, hisUs, us, hisHim, toClient, toDriver,
                 "DO", "DONT", "WILL", "WONT")
    BY <1>2, <2>2, <2>3, <2>4, Signed
  <2>6. toClient' \in Seq(Verbs) /\ toDriver' \in Seq(Verbs)
    BY DriverReceivesKeeps DEF Inv, TypeOK
  <2> QED BY <1>1, <2>5, <2>6, RestAlike, LeftIsRest
<1> QED BY <1>4, <1>5, <1>6, Signed

LEMMA ClientReceivesSettles ==
  ASSUME Inv, ClientReceives
  PROVE  Left' < Left
<1>1. /\ us \in Direction /\ him \in Direction /\ hisUs \in Direction
      /\ hisHim \in Direction
      /\ toClient \in Seq(Verbs) /\ toDriver \in Seq(Verbs) /\ toClient # <<>>
      /\ Talk(hisHim, us, toDriver, toClient, "DO", "DONT", "WILL", "WONT")
      /\ Talk(hisUs, him, toDriver, toClient, "WILL", "WONT", "DO", "DONT")
  BY TalkTurns DEF Inv, TypeOK, ClientReceives, OnUs, OnHim
<1>2. us' = us /\ him' = him
  BY DEF ClientReceives, server
<1>3. Head(toClient) \in Verbs
  BY <1>1, HeadTailProperties
<1>4. CASE Head(toClient) \in {"WILL", "WONT"}
  <2>1. PICK enabp \in BOOLEAN :
          /\ hisHim' = (IF Head(toClient) = "WILL" THEN Agree(hisHim, enabp)
                                                   ELSE Refuse(hisHim)).dir
          /\ toDriver' = toDriver \o
               Peer((IF Head(toClient) = "WILL" THEN Agree(hisHim, enabp)
                                                ELSE Refuse(hisHim)).sent)
          /\ hisUs' = hisUs /\ toClient' = Tail(toClient)
    BY <1>4 DEF ClientReceives, Answers
  <2>2. PICK d : d = IF Head(toClient) = "WILL" THEN Agree(hisHim, enabp)
                                                ELSE Refuse(hisHim)
    OBVIOUS
  <2>3. /\ hisHim' = d.dir /\ toDriver' = toDriver \o Peer(d.sent)
        /\ hisUs' = hisUs /\ toClient' = Tail(toClient)
    BY <2>1, <2>2
  <2>4. d.sent \in Sent
    BY <1>1, <1>4, <2>2, Signed, Turn
  <2>5. Rest(d.dir, us, hisUs, him, toDriver \o Said(d.sent, "DO", "DONT"),
             Tail(toClient), "DO", "DONT", "WILL", "WONT")
          < Rest(hisHim, us, hisUs, him, toDriver, toClient,
                 "DO", "DONT", "WILL", "WONT")
    BY <1>1, <1>4, <2>2, Signed, TurnSettles
  <2>6. Rest(hisHim', us', hisUs', him', toDriver', toClient',
             "DO", "DONT", "WILL", "WONT")
          < Rest(hisHim, us, hisUs, him, toDriver, toClient,
                 "DO", "DONT", "WILL", "WONT")
    BY <1>2, <2>3, <2>4, <2>5, Signed
  <2>7. toClient' \in Seq(Verbs) /\ toDriver' \in Seq(Verbs)
    BY ClientReceivesKeeps DEF Inv, TypeOK
  <2> QED BY <1>1, <2>6, <2>7, RestAlike, LeftIsRest
<1>5. CASE Head(toClient) \in {"DO", "DONT"}
  <2>1. PICK enabp \in BOOLEAN :
          /\ hisUs' = (IF Head(toClient) = "DO" THEN Agree(hisUs, enabp)
                                                ELSE Refuse(hisUs)).dir
          /\ toDriver' = toDriver \o
               Own((IF Head(toClient) = "DO" THEN Agree(hisUs, enabp)
                                             ELSE Refuse(hisUs)).sent)
          /\ hisHim' = hisHim /\ toClient' = Tail(toClient)
    BY <1>5 DEF ClientReceives, Answers
  <2>2. PICK d : d = IF Head(toClient) = "DO" THEN Agree(hisUs, enabp)
                                              ELSE Refuse(hisUs)
    OBVIOUS
  <2>3. /\ hisUs' = d.dir /\ toDriver' = toDriver \o Own(d.sent)
        /\ hisHim' = hisHim /\ toClient' = Tail(toClient)
    BY <2>1, <2>2
  <2>4. d.sent \in Sent
    BY <1>1, <1>5, <2>2, Signed, Turn
  <2>5. Rest(d.dir, him, hisHim, us, toDriver \o Said(d.sent, "WILL", "WONT"),
             Tail(toClient), "WILL", "WONT", "DO", "DONT")
          < Rest(hisUs, him, hisHim, us, toDriver, toClient,
                 "WILL", "WONT", "DO", "DONT")
    BY <1>1, <1>5, <2>2, Signed, TurnSettles
  <2>6. Rest(hisUs', him', hisHim', us', toDriver', toClient',
             "WILL", "WONT", "DO", "DONT")
          < Rest(hisUs, him, hisHim, us, toDriver, toClient,
                 "WILL", "WONT", "DO", "DONT")
    BY <1>2, <2>3, <2>4, <2>5, Signed
  <2>7. toClient' \in Seq(Verbs) /\ toDriver' \in Seq(Verbs)
    BY ClientReceivesKeeps DEF Inv, TypeOK
  <2> QED BY <1>1, <2>6, <2>7, RestAlike, LeftIsRest
<1> QED BY <1>3, <1>4, <1>5, Signed

\* The exchanges of telnet_do(), telnet_dont(), telnet_will() and
\* telnet_wont() with the client come to an end: each message handled leaves
\* less to be said, and what is left is a natural number.
THEOREM ExchangesEnd == Spec => Converges
<1>1. ASSUME Inv, Inv', DriverReceives \/ ClientReceives
      PROVE  Left' \in Nat /\ Left' < Left
  <2>1. Left' \in Nat
    BY <1>1, LeftIsRest, RestNat DEF Inv, TypeOK
  <2> QED BY <1>1, <2>1, DriverReceivesSettles, ClientReceivesSettles
<1>2. Inv /\ Inv' /\ [Next]_vars =>
        [DriverReceives \/ ClientReceives => Left' \in Nat /\ Left' < Left]_vars
  BY <1>1
<1> QED BY <1>2, Invariance, PTL DEF Spec, Converges

=============================================================================
