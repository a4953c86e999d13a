---------------------------- MODULE WorldProofs ----------------------------
(***************************************************************************)
(* Proofs about the world of objects (World): Containment and              *)
(* CommandsLocal are invariants for every set of objects, every initial    *)
(* arrangement of them without a loop, and every depth of operations that  *)
(* LPC code starts while others are under way, if that code leaves an      *)
(* object whose destructors run where it was (Meddle = FALSE).             *)
(*                                                                         *)
(* The inductive invariant Inv speaks of the objects that are gone: those  *)
(* that are destructed and those whose destructors run.  What is not gone  *)
(* is in the list of its environment, and has only commands that are       *)
(* accounted for, whether it is living or not (it may become living).  The *)
(* types of the stack say that destruct_object() reaches its destructors   *)
(* with an object that is gone.  That no object gets inside itself rests   *)
(* on the walk at the start of move_object(); that nothing is left in an   *)
(* object that is gone on the loop that empties it.                        *)
(***************************************************************************)
EXTENDS World, SequenceTheorems, FiniteSetTheorems, TLAPS

\* What RemoveAt returns, position by position.
LEMMA RemoveAtProperties ==
  ASSUME NEW T, NEW s \in Seq(T), NEW i \in 1 .. Len(s)
  PROVE  /\ RemoveAt(s, i) \in Seq(T)
         /\ Len(RemoveAt(s, i)) = Len(s) - 1
         /\ \A j \in 1 .. Len(s) - 1 :
              RemoveAt(s, i)[j] = IF j < i THEN s[j] ELSE s[j + 1]
<1> DEFINE a == SubSeq(s, 1, i - 1)
           b == SubSeq(s, i + 1, Len(s))
<1>0. Len(s) \in Nat /\ \A j \in 1 .. Len(s) : s[j] \in T
  BY ElementOfSeq
<1>1. /\ a \in Seq(T)
      /\ Len(a) = i - 1
      /\ \A j \in 1 .. i - 1 : a[j] = s[j]
  BY <1>0, SubSeqProperties
<1>2. /\ b \in Seq(T)
      /\ Len(b) = Len(s) - i
      /\ \A j \in 1 .. Len(s) - i : b[j] = s[i + j]
  BY <1>0, SubSeqProperties
<1>3. RemoveAt(s, i) = a \o b
  BY DEF RemoveAt, a, b
<1> HIDE DEF a, b
<1>4. /\ a \o b \in Seq(T)
      /\ Len(a \o b) = Len(a) + Len(b)
      /\ \A j \in 1 .. Len(a) + Len(b) :
           (a \o b)[j] = IF j <= Len(a) THEN a[j] ELSE b[j - Len(a)]
  BY <1>1, <1>2, ConcatProperties
<1> QED BY <1>0, <1>1, <1>2, <1>3, <1>4

-----------------------------------------------------------------------------

Pointer == Obj \cup {None}

\* The objects that are in no place any more.
Gone == destructed \cup dying

\* What an operation waits for.
Dtor == {"dtors", "dtor"}
Waiting == {"", "dest", "at", "other", "second", "self", "last",
            "shadows", "contents", "asked"} \cup Dtor

\* What is under way when the objects G are gone; destruct_object() is never
\* called for NULL, and calls destructors of objects that are gone.
Frame(G) ==
  {f \in [op : {"lpc", "move", "destruct", "fatal", "crash"},
          item : Pointer, dest : Pointer,
          ob : Pointer, next : Pointer, pc : Waiting] :
     /\ f.op \in {"move", "destruct"} => f.item \in Obj
     /\ f.op = "move" => f.dest \in Obj
     /\ f.pc \in Dtor => f.item \in G}

Types ==
  /\ destructed \subseteq Obj /\ dying \subseteq Obj
  /\ living \subseteq Obj \ destructed
  /\ env \in [Obj -> Pointer]
  /\ inv \in [Obj -> Seq(Obj)]
  /\ sent \in [Obj -> SUBSET Obj]
  /\ shadowed \in [Obj -> Pointer]
  /\ stack \in Seq(Frame(Gone))

\* The parts of Containment.
Listed(v, e, G) ==
  /\ v \in [Obj -> Seq(Obj)]
  /\ \A p \in Obj : IsInjective(v[p])
  /\ \A o, p \in Obj : o \in ToSet(v[p]) <=> e[o] = p /\ o \notin G
Housed(e, G) == \A o \in Obj \ G : e[o] # None => e[o] \in Obj \ G
Bare(e, d) == \A o \in d : e[o] = None
Grounded(e) == \A S \in (SUBSET Obj) \ {{}} : \E o \in S : e[o] \notin S

\* The commands of what is not gone, living or not.
Local ==
  \A p \in Obj \ Gone : \A o \in sent[p] :
    (Near(o, p) /\ o \notin Gone) \/ <<o, p>> \in kept

Placed ==
  /\ Listed(inv, env, Gone) /\ Housed(env, Gone)
  /\ Bare(env, destructed) /\ Grounded(env)

Inv == Types /\ Placed /\ Local

-----------------------------------------------------------------------------
(* Inventories.                                                            *)

\* The inventory of a room at first lists what is in it, once.
LEMMA SetListed ==
  ASSUME NEW S, IsFiniteSet(S)
  PROVE  /\ SetToSeq(S) \in Seq(S)
         /\ IsInjective(SetToSeq(S))
         /\ ToSet(SetToSeq(S)) = S
<1> DEFINE n == Cardinality(S)
           f == SetToSeq(S)
<1>1. n \in Nat /\ Bijection(1 .. n, S) # {}
  BY FS_CardinalityType DEF ExistsBijection
<1>2. PICK b : b \in Bijection(1 .. n, S)
  BY <1>1
<1>3. b \in [1 .. n -> S] /\ IsInjective(b)
  BY <1>2 DEF Bijection, Injection
<1>4. f \in [1 .. n -> S] /\ IsInjective(f)
  BY <1>3 DEF SetToSeq
<1>5. f \in Injection(1 .. n, S)
  BY <1>4 DEF Injection
<1>6. IsFiniteSet(1 .. n) /\ Cardinality(1 .. n) = n
  BY <1>1, FS_Interval
<1>7. f \in Surjection(1 .. n, S)
  <2> HIDE DEF f
  <2> QED BY <1>5, <1>6, FS_Injection
<1>8. f \in Seq(S)
  BY <1>1, <1>4
<1>9. ToSet(f) = S
  <2> HIDE DEF f
  <2> QED BY <1>4, <1>7 DEF ToSet, Surjection
<1> QED BY <1>4, <1>8, <1>9

\* An object taken out of a list that has it once is not in it afterwards,
\* and all others are.
LEMMA TakenOut ==
  ASSUME NEW T, NEW s \in Seq(T), IsInjective(s), NEW o \in ToSet(s)
  PROVE  /\ RemoveAt(s, Place(s, o)) \in Seq(T)
         /\ IsInjective(RemoveAt(s, Place(s, o)))
         /\ ToSet(RemoveAt(s, Place(s, o))) = ToSet(s) \ {o}
<1> DEFINE i == Place(s, o)
           r == RemoveAt(s, i)
<1>1. DOMAIN s = 1 .. Len(s) /\ Len(s) \in Nat
  OBVIOUS
<1>2. i \in 1 .. Len(s) /\ s[i] = o
  BY <1>1 DEF Place, ToSet
<1> HIDE DEF i
<1>3. /\ r \in Seq(T)
      /\ Len(r) = Len(s) - 1
      /\ \A j \in 1 .. Len(s) - 1 : r[j] = IF j < i THEN s[j] ELSE s[j + 1]
  BY <1>2, RemoveAtProperties
<1> HIDE DEF r
<1>4. DOMAIN r = 1 .. Len(s) - 1
  BY <1>3
<1>5. IsInjective(r)
  <2> SUFFICES ASSUME NEW a \in 1 .. Len(s) - 1, NEW b \in 1 .. Len(s) - 1,
                      r[a] = r[b]
               PROVE  a = b
    BY <1>4 DEF IsInjective
  <2> DEFINE k(j) == IF j < i THEN j ELSE j + 1
  <2>1. k(a) \in DOMAIN s /\ k(b) \in DOMAIN s /\ s[k(a)] = s[k(b)]
    BY <1>1, <1>2, <1>3
  <2>2. k(a) = k(b)
    BY <2>1 DEF IsInjective
  <2> QED BY <1>2, <2>2
<1>6. ToSet(r) = ToSet(s) \ {o}
  <2>1. ASSUME NEW x \in ToSet(r) PROVE x \in ToSet(s) \ {o}
    <3>1. PICK j \in 1 .. Len(s) - 1 : x = r[j]
      BY <1>4, <2>1 DEF ToSet
    <3> DEFINE k == IF j < i THEN j ELSE j + 1
    <3>2. k \in DOMAIN s /\ k # i /\ x = s[k]
      BY <1>1, <1>2, <1>3, <3>1
    <3>3. x # o
      BY <1>1, <1>2, <3>2 DEF IsInjective
    <3> QED BY <3>2, <3>3 DEF ToSet
  <2>2. ASSUME NEW x \in ToSet(s) \ {o} PROVE x \in ToSet(r)
    <3>1. PICK k \in 1 .. Len(s) : x = s[k]
      BY <1>1, <2>2 DEF ToSet
    <3>2. k # i
      BY <1>2, <3>1, <2>2
    <3> DEFINE j == IF k < i THEN k ELSE k - 1
    <3>3. j \in 1 .. Len(s) - 1 /\ r[j] = x
      BY <1>1, <1>2, <1>3, <3>1, <3>2
    <3> QED BY <1>4, <3>3 DEF ToSet
  <2> QED BY <2>1, <2>2
<1> QED BY <1>3, <1>5, <1>6 DEF r, i

\* An object put in front of a list that does not have it.
LEMMA PutInFront ==
  ASSUME NEW T, NEW s \in Seq(T), IsInjective(s), NEW o \in T, o \notin ToSet(s)
  PROVE  /\ <<o>> \o s \in Seq(T)
         /\ IsInjective(<<o>> \o s)
         /\ ToSet(<<o>> \o s) = ToSet(s) \cup {o}
<1> DEFINE r == <<o>> \o s
<1>1. DOMAIN s = 1 .. Len(s) /\ Len(s) \in Nat
  OBVIOUS
<1>2. <<o>> \in Seq(T) /\ Len(<<o>>) = 1 /\ <<o>>[1] = o
  OBVIOUS
<1>3. /\ r \in Seq(T)
      /\ Len(r) = Len(s) + 1
      /\ \A j \in 1 .. Len(s) + 1 : r[j] = IF j = 1 THEN o ELSE s[j - 1]
  <2>1. /\ r \in Seq(T)
        /\ Len(r) = 1 + Len(s)
        /\ \A j \in 1 .. 1 + Len(s) :
             r[j] = IF j <= 1 THEN <<o>>[j] ELSE s[j - 1]
    BY <1>2, ConcatProperties
  <2> HIDE DEF r
  <2> QED BY <1>1, <1>2, <2>1
<1> HIDE DEF r
<1>4. DOMAIN r = 1 .. Len(s) + 1
  BY <1>1, <1>3
<1>5. IsInjective(r)
  <2> SUFFICES ASSUME NEW a \in 1 .. Len(s) + 1, NEW b \in 1 .. Len(s) + 1,
                      r[a] = r[b], a # b
               PROVE  FALSE
    BY <1>4 DEF IsInjective
  <2>1. CASE a = 1 \/ b = 1
    <3>1. PICK c \in 1 .. Len(s) : s[c] = o
      BY <1>1, <1>3, <2>1
    <3> QED BY <1>1, <3>1 DEF ToSet
  <2>2. CASE a # 1 /\ b # 1
    <3>1. a - 1 \in DOMAIN s /\ b - 1 \in DOMAIN s /\ s[a - 1] = s[b - 1]
      BY <1>1, <1>3, <2>2
    <3> QED BY <3>1 DEF IsInjective
  <2> QED BY <2>1, <2>2
<1>6. ToSet(r) = ToSet(s) \cup {o}
  <2>1. ASSUME NEW x \in ToSet(r) PROVE x \in ToSet(s) \cup {o}
    <3>1. PICK j \in 1 .. Len(s) + 1 : x = r[j]
      BY <1>4, <2>1 DEF ToSet
    <3>2. CASE j = 1
      BY <1>3, <3>1, <3>2
    <3>3. CASE j # 1
      <4>1. j - 1 \in DOMAIN s /\ x = s[j - 1]
        BY <1>1, <1>3, <3>1, <3>3
      <4> QED BY <4>1 DEF ToSet
    <3> QED BY <3>2, <3>3
  <2>2. ASSUME NEW x \in ToSet(s) PROVE x \in ToSet(r)
    <3>1. PICK k \in 1 .. Len(s) : x = s[k]
      BY <1>1, <2>2 DEF ToSet
    <3>2. k + 1 \in 1 .. Len(s) + 1 /\ r[k + 1] = x
      BY <1>1, <1>3, <3>1
    <3> QED BY <1>4, <3>2 DEF ToSet
  <2>3. o \in ToSet(r)
    BY <1>1, <1>3, <1>4 DEF ToSet
  <2> QED BY <2>1, <2>2, <2>3
<1> QED BY <1>3, <1>5, <1>6 DEF r

\* Unlinking takes the object out of the inventory it is in, if it is in
\* one, and changes no other membership.
LEMMA UnlinkedLists ==
  ASSUME WorldAssumption, Listed(inv, env, Gone), NEW o \in Obj
  PROVE  Listed(Unlinked(o), env, Gone \cup {o})
<1> SUFFICES ASSUME NEW p \in Obj
             PROVE  /\ Unlinked(o)[p] \in Seq(Obj)
                    /\ IsInjective(Unlinked(o)[p])
                    /\ \A x \in Obj : x \in ToSet(Unlinked(o)[p]) <=>
                                        env[x] = p /\ x \notin Gone \cup {o}
  <2>1. DOMAIN Unlinked(o) = Obj /\ Unlinked(o) = [p \in Obj |-> Unlinked(o)[p]]
    BY DEF Unlinked
  <2> QED BY <2>1 DEF Listed
<1>1. inv[p] \in Seq(Obj) /\ IsInjective(inv[p])
  BY DEF Listed
<1>2. \A x \in Obj : x \in ToSet(inv[p]) <=> env[x] = p /\ x \notin Gone
  BY DEF Listed
<1>3. CASE p = env[o] /\ o \in ToSet(inv[p])
  <2>1. Unlinked(o)[p] = RemoveAt(inv[p], Place(inv[p], o))
    BY <1>3 DEF Unlinked
  <2>2. /\ Unlinked(o)[p] \in Seq(Obj)
        /\ IsInjective(Unlinked(o)[p])
        /\ ToSet(Unlinked(o)[p]) = ToSet(inv[p]) \ {o}
    BY <1>1, <1>3, <2>1, TakenOut
  <2> QED BY <1>2, <2>2
<1>4. CASE ~(p = env[o] /\ o \in ToSet(inv[p]))
  <2>1. Unlinked(o)[p] = inv[p]
    BY <1>4 DEF Unlinked
  <2>2. o \notin ToSet(inv[p])
    BY <1>2, <1>4
  <2> QED BY <1>1, <1>2, <2>1, <2>2
<1> QED BY <1>3, <1>4

\* The inventories after a move.
LEMMA MovedLists ==
  ASSUME WorldAssumption, Types, Listed(inv, env, Gone),
         NEW o \in Obj, NEW dest \in Obj, o \notin Gone
  PROVE  Listed([Unlinked(o) EXCEPT ![dest] = <<o>> \o @],
                [env EXCEPT ![o] = dest], Gone)
<1> DEFINE u == Unlinked(o)
           v == [u EXCEPT ![dest] = <<o>> \o @]
           e == [env EXCEPT ![o] = dest]
<1>1. /\ u \in [Obj -> Seq(Obj)]
      /\ \A p \in Obj : IsInjective(u[p])
      /\ \A x, p \in Obj :
           x \in ToSet(u[p]) <=> env[x] = p /\ x \notin Gone \cup {o}
  BY UnlinkedLists DEF Listed
<1> HIDE DEF u
<1>2. \A x \in Obj : e[x] = IF x = o THEN dest ELSE env[x]
  BY DEF Types
<1>3. /\ v[dest] \in Seq(Obj) /\ IsInjective(v[dest])
      /\ ToSet(v[dest]) = ToSet(u[dest]) \cup {o}
  <2>1. v[dest] = <<o>> \o u[dest]
    BY <1>1
  <2>2. u[dest] \in Seq(Obj) /\ IsInjective(u[dest]) /\ o \notin ToSet(u[dest])
    BY <1>1
  <2> QED BY <2>1, <2>2, PutInFront
<1>4. \A p \in Obj : p # dest => v[p] = u[p]
  BY <1>1
<1>5. DOMAIN v = Obj /\ v = [p \in Obj |-> v[p]]
  BY <1>1
<1> HIDE DEF v, e
<1>6. v \in [Obj -> Seq(Obj)]
  <2>1. ASSUME NEW p \in Obj PROVE v[p] \in Seq(Obj)
    <3>1. u[p] \in Seq(Obj)
      BY <1>1
    <3> QED BY <1>3, <1>4, <3>1
  <2> QED BY <1>5, <2>1
<1>7. \A p \in Obj : IsInjective(v[p])
  BY <1>1, <1>3, <1>4
<1>8. ASSUME NEW x \in Obj, NEW p \in Obj
      PROVE  x \in ToSet(v[p]) <=> e[x] = p /\ x \notin Gone
  <2>1. CASE p = dest
    BY ZenonT(60), <1>1, <1>2, <1>3, <2>1
  <2>2. CASE p # dest
    BY <1>1, <1>2, <1>4, <2>2
  <2> QED BY <2>1, <2>2
<1>9. Listed(v, e, Gone)
  BY <1>6, <1>7, <1>8 DEF Listed
<1> QED BY <1>9 DEF v, e, u

\* Nothing is in an object that is gone, and it is in no list, when its
\* pointers are cleared.
LEMMA ClearedLists ==
  ASSUME WorldAssumption, Types, Listed(inv, env, Gone), Housed(env, Gone),
         NEW o \in Gone
  PROVE  Cleared(o) = inv
<1>1. o \in Obj /\ inv \in [Obj -> Seq(Obj)]
  BY DEF Types, Gone
<1>2. ASSUME NEW p \in Obj
      PROVE  inv[p] = IF p = o THEN <<>>
                      ELSE IF o \in ToSet(inv[p])
                      THEN SubSeq(inv[p], 1, Place(inv[p], o)) ELSE inv[p]
  <2>1. o \notin ToSet(inv[p])
    BY <1>1 DEF Listed
  <2>2. CASE p = o
    <3>1. \A x \in Obj : x \notin ToSet(inv[p])
      BY <1>1, <2>2 DEF Listed, Housed, WorldAssumption
    <3>2. inv[p] \in Seq(Obj)
      BY <1>1
    <3>3. inv[p] = <<>>
      <4>1. inv[p] # <<>> => Head(inv[p]) \in Obj /\ Head(inv[p]) \in ToSet(inv[p])
        BY <3>2 DEF ToSet
      <4> QED BY <3>1, <4>1
    <3> QED BY <2>2, <3>3
  <2> QED BY <2>1, <2>2
<1> QED BY <1>1, <1>2 DEF Cleared

\* Recursive moves are not allowed: an object that is not among the
\* environments of the destination can be moved there and nothing gets
\* inside itself.
LEMMA MovedGrounded ==
  ASSUME WorldAssumption, Types, Grounded(env),
         NEW o \in Obj, NEW dest \in Obj, o \notin Inside(dest)
  PROVE  Grounded([env EXCEPT ![o] = dest])
<1> DEFINE e == [env EXCEPT ![o] = dest]
<1>1. \A x \in Obj : e[x] = IF x = o THEN dest ELSE env[x]
  BY DEF Types
<1> HIDE DEF e
<1>2. PICK C \in SUBSET Obj : /\ dest \in C /\ o \notin C
                              /\ \A x \in C : env[x] \in C \cup {None}
  BY DEF Inside
<1>3. ASSUME NEW S \in (SUBSET Obj) \ {{}}, \A x \in S : e[x] \in S
      PROVE  FALSE
  <2>0. None \notin S
    BY DEF WorldAssumption
  <2>1. CASE o \notin S
    <3>1. \A x \in S : env[x] \in S
      BY <1>1, <1>3, <2>1
    <3> QED BY <3>1 DEF Grounded
  <2>2. CASE o \in S
    <3>1. dest \in S
      BY <1>1, <1>3, <2>2
    <3>2. \A x \in S \cap C : env[x] \in S \cap C
      BY <1>1, <1>2, <1>3, <2>0
    <3>3. S \cap C \in (SUBSET Obj) \ {{}}
      BY <1>2, <3>1
    <3> QED BY <3>2, <3>3 DEF Grounded
  <2> QED BY <2>1, <2>2
<1>4. Grounded(e)
  BY <1>3 DEF Grounded
<1> QED BY <1>4 DEF e

\* Nothing gets inside itself when an object leaves its place for good.
LEMMA GoneGrounded ==
  ASSUME WorldAssumption, Types, Grounded(env), NEW o \in Obj
  PROVE  Grounded([env EXCEPT ![o] = None])
<1> DEFINE e == [env EXCEPT ![o] = None]
<1>1. \A x \in Obj : e[x] = IF x = o THEN None ELSE env[x]
  BY DEF Types
<1> HIDE DEF e
<1>2. ASSUME NEW S \in (SUBSET Obj) \ {{}}
      PROVE  \E x \in S : e[x] \notin S
  <2>0. None \notin S
    BY DEF WorldAssumption
  <2>1. PICK x \in S : env[x] \notin S
    BY DEF Grounded
  <2> QED BY <1>1, <2>0, <2>1
<1>3. Grounded(e)
  BY <1>2 DEF Grounded
<1> QED BY <1>3 DEF e

-----------------------------------------------------------------------------
(* The stack.                                                              *)

\* The innermost operation and those it interrupts.
LEMMA StackTop ==
  ASSUME NEW G, stack \in Seq(Frame(G)), stack # <<>>
  PROVE  Top \in Frame(G) /\ Below \in Seq(Frame(G))
<1>1. /\ Len(stack) \in Nat \ {0}
      /\ \A i \in 1 .. Len(stack) : stack[i] \in Frame(G)
  BY ElementOfSeq, EmptySeq
<1>2. Top \in Frame(G)
  BY <1>1 DEF Top
<1>3. \A i \in 1 .. Len(stack) - 1 : stack[i] \in Frame(G)
  BY <1>1
<1>4. SubSeq(stack, 1, Len(stack) - 1) \in Seq(Frame(G))
  BY <1>1, <1>3, SubSeqProperties
<1> QED BY <1>2, <1>4 DEF Below

\* What is under way stays so when more objects are gone.
LEMMA MoreGone ==
  ASSUME NEW G, NEW H, G \subseteq H, NEW s \in Seq(Frame(G))
  PROVE  s \in Seq(Frame(H))
<1>1. Frame(G) \subseteq Frame(H)
  BY DEF Frame
<1> QED BY <1>1

\* LPC code that the driver calls, and the end of the driver.
LEMMA CodeFrame ==
  ASSUME WorldAssumption, NEW G
  PROVE  /\ Code \in Frame(G)
         /\ \A why \in {"fatal", "crash"} :
              Op(why, None, None, None, "") \in Frame(G)
BY DEF Code, Op, Frame, Pointer, Waiting, Dtor

\* The driver ends.
LEMMA HaltStack ==
  ASSUME WorldAssumption, NEW G, stack \in Seq(Frame(G)),
         NEW why \in {"fatal", "crash"}, Halts(why)
  PROVE  stack' \in Seq(Frame(G))
<1> DEFINE f == Op(why, None, None, None, "")
<1>1. f \in Frame(G)
  BY CodeFrame
<1>2. stack' = Append(stack, f)
  BY DEF Halts
<1> HIDE DEF f
<1> QED BY <1>1, <1>2, AppendProperties

\* A change of its local variables leaves an operation what it is.
LEMMA FrameLocals ==
  ASSUME NEW G, NEW f \in Frame(G), NEW b \in Pointer, NEW c \in Waiting,
         c \in Dtor => f.item \in G
  PROVE  /\ [f EXCEPT !.pc = c] \in Frame(G)
         /\ [f EXCEPT !.ob = b] \in Frame(G)
         /\ [f EXCEPT !.next = b, !.pc = c] \in Frame(G)
         /\ [f EXCEPT !.pc = c, !.ob = b] \in Frame(G)
         /\ [f EXCEPT !.ob = b, !.pc = c] \in Frame(G)
BY DEF Frame

\* An error leaves the operations below the LPC code that catches it, or the
\* destructor.
LEMMA ErrorStack ==
  ASSUME WorldAssumption, NEW G, stack \in Seq(Frame(G)), Error
  PROVE  stack' \in Seq(Frame(G))
<1>0. PICK n \in 0 .. Len(stack) - 1 :
        \/ stack' = SubSeq(stack, 1, n)
        \/ /\ n # 0 /\ stack[n].pc = "dtor"
           /\ stack' = Append(SubSeq(stack, 1, n - 1),
                              [stack[n] EXCEPT !.pc = "dtors"])
  BY DEF Error
<1>1. Len(stack) \in Nat /\ \A i \in 1 .. Len(stack) : stack[i] \in Frame(G)
  BY ElementOfSeq
<1>2. ASSUME NEW k \in 0 .. Len(stack) PROVE SubSeq(stack, 1, k) \in Seq(Frame(G))
  <2>1. k \in Int /\ \A i \in 1 .. k : stack[i] \in Frame(G)
    BY <1>1
  <2> QED BY <2>1, SubSeqProperties
<1>3. CASE stack' = SubSeq(stack, 1, n)
  <2>1. n \in 0 .. Len(stack)
    BY <1>1
  <2> QED BY <1>2, <1>3, <2>1
<1>4. CASE /\ n # 0 /\ stack[n].pc = "dtor"
           /\ stack' = Append(SubSeq(stack, 1, n - 1),
                              [stack[n] EXCEPT !.pc = "dtors"])
  <2> DEFINE f == stack[n]
             g == [f EXCEPT !.pc = "dtors"]
             st == SubSeq(stack, 1, n - 1)
  <2>1. f \in Frame(G) /\ n - 1 \in 0 .. Len(stack)
    BY <1>1, <1>4
  <2>2. st \in Seq(Frame(G))
    BY <1>2, <2>1
  <2>3. f.pc = "dtor" /\ stack' = Append(st, g)
    BY <1>4
  <2> HIDE DEF f, st
  <2>4. f.item \in G /\ "dtors" \in Waiting /\ None \in Pointer
    BY ZenonT(60), <2>1, <2>3 DEF Frame, Dtor, Waiting, Pointer
  <2>5. g \in Frame(G)
    BY <2>1, <2>4, FrameLocals
  <2> HIDE DEF g
  <2> QED BY <2>2, <2>3, <2>5, AppendProperties
<1> QED BY <1>0, <1>3, <1>4

\* destruct_object() of an object, or of NULL.
LEMMA DestroyStack ==
  ASSUME WorldAssumption, NEW G, shadowed \in [Obj -> Pointer],
         NEW o \in Pointer, NEW st \in Seq(Frame(G)), Destroy(o, st)
  PROVE  stack' \in Seq(Frame(G))
<1> DEFINE b == IF shadowing[o] = None THEN shadowed[o] ELSE None
           f == Op("destruct", o, None, b, "shadows")
<1>1. CASE o = None \/ o \in destructed
  BY <1>1 DEF Destroy
<1>2. CASE ~(o = None \/ o \in destructed)
  <2>1. o \in Obj /\ b \in Pointer
    BY <1>2 DEF Pointer
  <2> HIDE DEF b
  <2>2. f \in Frame(G)
    BY <2>1 DEF Op, Frame, Pointer, Waiting, Dtor
  <2>3. stack' = Append(st, f)
    BY <1>2 DEF Destroy, b
  <2> HIDE DEF f
  <2> QED BY <2>2, <2>3, AppendProperties
<1> QED BY <1>1, <1>2

-----------------------------------------------------------------------------
(* Commands.                                                               *)

\* Who is in the same place, or is the place.
LEMMA AroundMeans ==
  ASSUME WorldAssumption, Types, Listed(inv, env, Gone),
         NEW o \in Obj, NEW x \in Obj
  PROVE  x \in Siblings(o) \cup ({env[o]} \ {None}) <=>
           \/ env[o] = x
           \/ env[o] # None /\ env[x] = env[o] /\ x \notin Gone /\ x # o
<1>0. None \notin Obj
  BY DEF WorldAssumption
<1>1. CASE env[o] = None
  BY <1>0, <1>1 DEF Siblings
<1>2. CASE env[o] # None
  <2>1. env[o] \in Obj
    BY <1>2 DEF Types, Pointer
  <2>2. x \in ToSet(inv[env[o]]) <=> env[x] = env[o] /\ x \notin Gone
    BY <2>1 DEF Listed
  <2> QED BY <1>0, <1>2, <2>1, <2>2 DEF Siblings
<1> QED BY <1>1, <1>2

\* What remains after a parting was there before, and is kept or is not
\* among what parts.
LEMMA LeftOver ==
  ASSUME Types, NEW pairs, Part(pairs), NEW p \in Obj, NEW o \in sent'[p]
  PROVE  /\ o \in sent[p] /\ o \in Obj
         /\ \/ <<o, p>> \in kept'
            \/ <<o, p>> \notin pairs /\ <<o, p>> \notin kept
<1>1. o \in {x \in sent[p] : ~(p \in living /\ <<x, p>> \in pairs)}
  BY DEF Part, remove_sent
<1>2. o \in sent[p] /\ o \in Obj /\ ~(p \in living /\ <<o, p>> \in pairs)
  BY <1>1 DEF Types
<1> DEFINE q == <<o, p>>
<1>3. q[1] = o /\ q[2] = p
  OBVIOUS
<1>4. q \in kept \/ (q \in pairs /\ q[2] \notin living) => q \in kept'
  <2> HIDE DEF q
  <2> QED BY <1>3 DEF Part
<1> QED BY <1>2, <1>3, <1>4

\* Removing commands keeps the types.
LEMMA PartType ==
  ASSUME Types, NEW pairs, Part(pairs)
  PROVE  sent' \in [Obj -> SUBSET Obj]
BY DEF Part, remove_sent, Types

\* The commands after a move.
LEMMA MovedLocal ==
  ASSUME WorldAssumption, Inv, NEW item \in Obj, NEW dest \in Obj,
         Gone' = Gone,
         env' = [env EXCEPT ![item] = dest],
         Part(Parting(item))
  PROVE  Local'
<1> SUFFICES ASSUME NEW p \in Obj \ Gone, NEW o \in sent'[p],
                    <<o, p>> \notin kept'
             PROVE  Near(o, p)' /\ o \notin Gone
  BY DEF Local
<1>0. Types /\ Listed(inv, env, Gone)
  BY DEF Inv, Placed
<1>1. /\ o \in sent[p] /\ o \in Obj /\ <<o, p>> \notin Parting(item)
      /\ <<o, p>> \notin kept
  BY <1>0, LeftOver
<1>2. Near(o, p) /\ o \notin Gone
  BY <1>1 DEF Inv, Local
<1>3. \A x \in Obj : env'[x] = IF x = item THEN dest ELSE env[x]
  BY <1>0 DEF Types
<1>4. o = item => p \notin Siblings(item) \cup ({env[item]} \ {None})
  BY <1>1 DEF Parting
<1>5. p = item => o \notin Siblings(item) \cup ({env[item]} \ {None})
  BY <1>1 DEF Parting
<1>6. o = item => /\ env[item] # p
                  /\ env[item] # None /\ env[p] = env[item] => p = item
  BY <1>0, <1>1, <1>4, AroundMeans
<1>7. p = item => /\ env[item] # o
                  /\ env[item] # None /\ env[o] = env[item] => o = item
  BY <1>0, <1>1, <1>2, <1>5, AroundMeans
<1>8. CASE o = p
  BY <1>2, <1>8 DEF Near
<1>9. CASE o # p /\ o = item
  <2>1. o = env[p] /\ env'[p] = env[p]
    BY <1>1, <1>2, <1>3, <1>6, <1>9 DEF Near
  <2> QED BY <1>2, <2>1 DEF Near
<1>10. CASE o # p /\ p = item
  <2>1. env[o] = p /\ env'[o] = env[o]
    BY <1>1, <1>2, <1>3, <1>7, <1>10 DEF Near
  <2> QED BY <1>2, <2>1 DEF Near
<1>11. CASE o # item /\ p # item
  <2>1. env'[o] = env[o] /\ env'[p] = env[p]
    BY <1>1, <1>3, <1>11
  <2> QED BY <1>2, <2>1 DEF Near
<1> QED BY <1>8, <1>9, <1>10, <1>11

\* The commands after an empty object has left its place for good.
LEMMA GoneLocal ==
  ASSUME WorldAssumption, Inv, NEW ob \in Obj,
         \A x \in Obj \ Gone : env[x] # ob,
         Gone' = Gone \cup {ob}, env' = env,
         Part({<<ob, p>> : p \in
                Siblings(ob) \cup {ob} \cup ({env[ob]} \ {None})})
  PROVE  Local'
<1> DEFINE pairs == {<<ob, p>> : p \in
                      Siblings(ob) \cup {ob} \cup ({env[ob]} \ {None})}
<1> SUFFICES ASSUME NEW p \in Obj \ Gone, p # ob, NEW o \in sent'[p],
                    <<o, p>> \notin kept'
             PROVE  Near(o, p)' /\ o \notin Gone /\ o # ob
  BY DEF Local
<1>0. Types /\ Listed(inv, env, Gone)
  BY DEF Inv, Placed
<1>1. /\ o \in sent[p] /\ o \in Obj /\ <<o, p>> \notin pairs
      /\ <<o, p>> \notin kept
  <2>1. Part(pairs)
    OBVIOUS
  <2> HIDE DEF pairs
  <2> QED BY <1>0, <2>1, LeftOver
<1>2. Near(o, p) /\ o \notin Gone
  BY <1>1 DEF Inv, Local
<1>3. o = ob => p \notin Siblings(ob) \cup ({env[ob]} \ {None})
  BY <1>1
<1>4. o = ob => /\ env[ob] # p
                /\ env[ob] # None /\ env[p] = env[ob] => p = ob
  BY <1>0, <1>3, AroundMeans
<1>5. o # ob
  BY <1>2, <1>4 DEF Near
<1> QED BY <1>2, <1>5 DEF Near

-----------------------------------------------------------------------------
(* Operations under way.                                                   *)

\* The first object of an inventory and the one after an object are objects
\* or NULL.
LEMMA Following ==
  ASSUME WorldAssumption, Types, NEW o \in Obj
  PROVE  contains(o) \in Pointer /\ next_inv(o) \subseteq Pointer
<1>1. contains(o) \in Pointer
  <2>1. inv[o] \in Seq(Obj)
    BY DEF Types
  <2> QED BY <2>1, HeadTailProperties DEF contains, Pointer
<1>2. next_inv(o) \subseteq Pointer
  <2>1. CASE env[o] = None
    BY <2>1 DEF next_inv, Pointer
  <2>2. CASE env[o] # None
    <3> DEFINE l == inv[env[o]]
               i == Place(l, o)
    <3>1. env[o] \in Obj
      BY <2>2 DEF Types, Pointer
    <3>2. l \in Seq(Obj)
      BY <3>1 DEF Types
    <3>3. o \in ToSet(l) => i \in DOMAIN l
      BY DEF Place, ToSet
    <3>4. next_inv(o) = IF o \notin ToSet(l) THEN Obj \cup {None}
                        ELSE IF i = Len(l) THEN {None} ELSE {l[i + 1]}
      BY <2>2 DEF next_inv
    <3> HIDE DEF l, i
    <3>5. i \in DOMAIN l /\ i # Len(l) => l[i + 1] \in Obj
      BY <3>2
    <3> QED BY <3>3, <3>4, <3>5 DEF Pointer
  <2> QED BY <2>1, <2>2
<1> QED BY <1>1, <1>2

\* The stack after LPC code is called, or after an operation goes on.
LEMMA StackGoesOn ==
  ASSUME WorldAssumption, NEW G, stack \in Seq(Frame(G)), stack # <<>>,
         NEW f \in Frame(G)
  PROVE  /\ Done => stack' \in Seq(Frame(G))
         /\ Becomes(f) => stack' \in Seq(Frame(G))
         /\ Calls(f) => stack' \in Seq(Frame(G))
<1>1. Below \in Seq(Frame(G))
  BY StackTop
<1>2. Append(Below, f) \in Seq(Frame(G))
  BY <1>1, AppendProperties
<1>3. Below \o <<f, Code>> \in Seq(Frame(G))
  <2>1. Code \in Frame(G)
    BY CodeFrame
  <2>2. <<f, Code>> \in Seq(Frame(G))
    BY <2>1
  <2> QED BY <1>1, <2>2, ConcatProperties
<1> QED BY <1>1, <1>2, <1>3 DEF Done, Becomes, Calls

\* A step that leaves the places alone.
LEMMA PlacesKept ==
  ASSUME Inv, UNCHANGED places, shadowed' \in [Obj -> Pointer],
         stack' \in Seq(Frame(Gone))
  PROVE  Inv'
<1>1. UNCHANGED <<destructed, dying, living, env, inv, sent, kept>>
  BY DEF places
<1>2. Gone' = Gone
  BY <1>1 DEF Gone
<1>3. Types'
  BY <1>1, <1>2 DEF Inv, Types
<1>4. Placed'
  BY <1>1, <1>2 DEF Inv, Placed
<1>5. Local'
  BY <1>1, <1>2 DEF Inv, Local, Near
<1> QED BY <1>3, <1>4, <1>5 DEF Inv

\* move_object() goes on after LPC code, or along the inventory.
LEMMA MovingStack ==
  ASSUME WorldAssumption, Inv, Moving
  PROVE  stack' \in Seq(Frame(Gone))
<1>0. /\ stack \in Seq(Frame(Gone)) /\ stack # <<>> /\ Top.op = "move"
      /\ Types
  BY DEF Inv, Types, Moving
<1> DEFINE G == Gone
<1>1. /\ Top \in Frame(G) /\ Top.item \in Obj /\ Top.dest \in Obj
      /\ Top.ob \in Pointer /\ Top.next \in Pointer
      /\ stack \in Seq(Frame(G))
  BY <1>0, StackTop DEF Frame
<1> HIDE DEF G
<1>2. {"dest", "at", "other", "second", "self", "last"} \subseteq Waiting \ Dtor
  BY DEF Waiting, Dtor
<1>3. CASE Done
  BY <1>0, <1>1, <1>3, StackGoesOn DEF G
<1>4. CASE Error
  BY <1>0, <1>4, ErrorStack
<1>5. CASE MetDest
  <2> DEFINE g == [Top EXCEPT !.pc = "at", !.ob = contains(Top.dest)]
  <2>1. contains(Top.dest) \in Pointer
    BY SMTT(60), <1>0, <1>1, Following
  <2>2. g \in Frame(G)
    BY <1>1, <1>2, <2>1, FrameLocals
  <2>3. Done \/ Becomes(g)
    BY <1>5 DEF MetDest
  <2> HIDE DEF g
  <2> QED BY <1>0, <1>1, <1>3, <2>2, <2>3, StackGoesOn DEF G
<1>6. CASE At
  <2>1. Top.ob \in Obj
    BY <1>1, <1>6 DEF At, Pointer
  <2>2. CASE Error
    BY <1>4, <2>2
  <2>3. ASSUME ~Error
        PROVE \E n \in next_inv(Top.ob) :
                \/ Becomes([Top EXCEPT !.ob = n])
                \/ Calls([Top EXCEPT !.next = n, !.pc = "other"])
                \/ Becomes([Top EXCEPT !.next = n, !.pc = "second"])
    BY ZenonT(60), <1>6, <2>3 DEF At
  <2>4. CASE ~Error
    <3>1. PICK n \in next_inv(Top.ob) :
            \/ Becomes([Top EXCEPT !.ob = n])
            \/ Calls([Top EXCEPT !.next = n, !.pc = "other"])
            \/ Becomes([Top EXCEPT !.next = n, !.pc = "second"])
      BY <2>3, <2>4
    <3>2. n \in Pointer
      BY SMTT(60), <1>0, <2>1, Following
    <3> DEFINE f == [Top EXCEPT !.ob = n]
               g == [Top EXCEPT !.next = n, !.pc = "other"]
               h == [Top EXCEPT !.next = n, !.pc = "second"]
    <3>3. f \in Frame(G) /\ g \in Frame(G) /\ h \in Frame(G)
      BY <1>1, <1>2, <3>2, FrameLocals
    <3>4. Becomes(f) \/ Calls(g) \/ Becomes(h)
      BY <3>1
    <3> HIDE DEF f, g, h
    <3> QED BY SMTT(60), <1>0, <1>1, <3>3, <3>4, StackGoesOn DEF G
  <2> QED BY Zenon, <2>2, <2>4
<1>7. CASE MetOther \/ MetSelf
  <2> DEFINE g == [Top EXCEPT !.pc = "self"]
             h == [Top EXCEPT !.pc = "at", !.ob = Top.next]
  <2>1. Done \/ Error \/ Calls(g) \/ Becomes(h)
    BY SMTT(60), <1>7 DEF MetOther, MetSelf
  <2>2. g \in Frame(G) /\ h \in Frame(G)
    BY <1>1, <1>2, FrameLocals
  <2> HIDE DEF g, h
  <2> QED BY <1>0, <1>1, <1>3, <1>4, <2>1, <2>2, StackGoesOn DEF G
<1>8. CASE Arrived
  <2> DEFINE g == [Top EXCEPT !.pc = "last"]
  <2>1. Done \/ Error \/ Calls(g)
    BY SMTT(60), <1>8 DEF Arrived
  <2>2. g \in Frame(G)
    BY <1>1, <1>2, FrameLocals
  <2> HIDE DEF g
  <2> QED BY <1>0, <1>1, <1>3, <1>4, <2>1, <2>2, StackGoesOn DEF G
<1> QED BY <1>5, <1>6, <1>7, <1>8 DEF Moving

-----------------------------------------------------------------------------
(* One lemma for each operation that changes places or links.              *)

\* add_action() adds a command of an object that is near, or of one that is
\* nowhere to an object that is nowhere.
LEMMA AddActionKeeps ==
  ASSUME WorldAssumption, ~Meddle, Inv, NEW o \in Obj, NEW giver \in Obj,
         add_action(o, giver)
  PROVE  Inv'
<1> USE DEF add_action
<1>0. Types
  BY DEF Inv
<1>1. UNCHANGED <<destructed, dying, living, env, inv, shadowed, stack>>
  BY DEF links
<1>2. Gone' = Gone /\ o \notin Gone
  BY <1>1 DEF Gone, Live
<1>3. sent' \in [Obj -> SUBSET Obj]
  BY <1>0 DEF Types
<1>4. Types'
  BY <1>0, <1>1, <1>2, <1>3 DEF Types
<1>5. Placed'
  BY <1>1, <1>2 DEF Inv, Placed
<1>6. ASSUME NEW p \in Obj \ Gone, NEW x \in sent'[p]
      PROVE  (Near(x, p) /\ x \notin Gone) \/ <<x, p>> \in kept'
  <2>1. x \in sent[p] \/ (x = o /\ p = giver)
    BY <1>0, <1>6 DEF Types
  <2>2. CASE x \in sent[p]
    BY <2>2 DEF Inv, Local
  <2>3. CASE x = o /\ p = giver
    BY <1>2, <2>3 DEF Present, Near
  <2> QED BY <2>1, <2>2, <2>3
<1>7. Local'
  BY <1>1, <1>2, <1>6 DEF Local, Near
<1> QED BY <1>4, <1>5, <1>7 DEF Inv

\* enable_commands(): what an object has is accounted for, living or not.
LEMMA EnableKeeps ==
  ASSUME WorldAssumption, Inv, NEW o \in Obj, NEW num \in BOOLEAN,
         enable_commands(o, num)
  PROVE  Inv'
<1>0. Types
  BY DEF Inv
<1>1. UNCHANGED <<destructed, dying, env, inv, sent, kept, shadowed, stack>>
  BY DEF enable_commands, links
<1>2. living' \subseteq Obj \ destructed
  BY <1>0 DEF Types, enable_commands, Live
<1>3. Gone' = Gone
  BY <1>1 DEF Gone
<1>4. Types'
  BY <1>0, <1>1, <1>2, <1>3 DEF Types
<1>5. Placed'
  BY <1>1, <1>3 DEF Inv, Placed
<1>6. Local'
  BY <1>1, <1>3 DEF Inv, Local, Near
<1> QED BY <1>4, <1>5, <1>6 DEF Inv

\* move_object()
LEMMA MoveKeeps ==
  ASSUME WorldAssumption, ~Meddle, Inv, NEW item \in Obj, NEW dest \in Obj,
         move_object(item, dest)
  PROVE  Inv'
<1>0. Types /\ Placed /\ stack \in Seq(Frame(Gone))
  BY DEF Inv, Types
<1>1. /\ item \in Live /\ dest \in Live /\ {item, dest} \cap dying = {}
      /\ item \notin Inside(dest) /\ UNCHANGED links
  BY DEF move_object
<1>2. item \notin Gone /\ dest \notin Gone /\ shadowed' = shadowed
  BY <1>1 DEF Gone, Live, links
<1>3. CASE Lost(item)
  <2>1. Halts("fatal") /\ UNCHANGED places
    BY <1>3 DEF move_object
  <2>2. stack' \in Seq(Frame(Gone))
    BY <1>0, <2>1, HaltStack
  <2>3. shadowed' \in [Obj -> Pointer]
    BY <1>0, <1>2 DEF Types
  <2> QED BY <2>1, <2>2, <2>3, PlacesKept
<1>4. CASE ~Lost(item)
  <2>1. /\ Part(Parting(item))
        /\ inv' = [Unlinked(item) EXCEPT ![dest] = <<item>> \o @]
        /\ env' = [env EXCEPT ![item] = dest]
        /\ UNCHANGED <<destructed, dying, living>>
    BY <1>4 DEF move_object
  <2>2. Gone' = Gone
    BY <2>1 DEF Gone
  <2>3. Listed(inv, env, Gone)'
    BY <1>0, <1>2, <2>1, <2>2, MovedLists DEF Placed
  <2>4. Grounded(env)'
    BY <1>0, <1>1, <2>1, MovedGrounded DEF Placed
  <2>5. Local'
    BY <2>1, <2>2, MovedLocal
  <2>6. env' \in [Obj -> Pointer]
    BY <1>0, <2>1 DEF Types, Pointer
  <2>7. \A x \in Obj : env'[x] = IF x = item THEN dest ELSE env[x]
    BY <1>0, <2>1 DEF Types
  <2>8. Housed(env, Gone)'
    BY <1>0, <1>2, <2>2, <2>7 DEF Placed, Housed
  <2>9. Bare(env, destructed)'
    BY <1>0, <1>1, <2>1, <2>7 DEF Placed, Bare, Types, Live
  <2>10. sent' \in [Obj -> SUBSET Obj]
    BY <1>0, <2>1, PartType
  <2>11. stack' \in Seq(Frame(Gone))
    <3> DEFINE f == Op("move", item, dest, item, "at")
               g == [f EXCEPT !.pc = "dest"]
    <3>1. stack' = stack \o <<g, Code>> \/ stack' = Append(stack, f)
      BY <1>4 DEF move_object
    <3>2. f \in Frame(Gone)
      BY DEF Op, Frame, Pointer, Waiting, Dtor
    <3> HIDE DEF f
    <3>3. "dest" \in Waiting \ Dtor /\ None \in Pointer
      BY SMTT(60) DEF Waiting, Pointer, Dtor
    <3>4. g \in Frame(Gone)
      BY <3>2, <3>3, FrameLocals
    <3> HIDE DEF g
    <3>5. <<g, Code>> \in Seq(Frame(Gone))
      <4>1. Code \in Frame(Gone)
        BY CodeFrame
      <4> QED BY <3>4, <4>1
    <3>6. stack \o <<g, Code>> \in Seq(Frame(Gone))
      BY <1>0, <3>5, ConcatProperties
    <3>7. Append(stack, f) \in Seq(Frame(Gone))
      BY <1>0, <3>2, AppendProperties
    <3> QED BY <3>1, <3>6, <3>7
  <2>12. Types'
    <3>1. inv' \in [Obj -> Seq(Obj)]
      BY <2>3 DEF Listed
    <3> QED BY <1>0, <1>2, <2>1, <2>2, <2>6, <2>10, <2>11, <3>1 DEF Types
  <2> QED BY <2>3, <2>4, <2>5, <2>8, <2>9, <2>12 DEF Inv, Placed
<1> QED BY <1>3, <1>4

\* destruct_object() takes the empty object out of its place.
LEMMA UnlinkKeeps ==
  ASSUME WorldAssumption, Inv, Destructing, Unlink
  PROVE  Inv'
<1> DEFINE o == Top.item
<1>0. Types /\ Placed /\ stack \in Seq(Frame(Gone))
  BY DEF Inv, Types
<1>1. /\ stack # <<>> /\ Top.op = "destruct" /\ shadowed' = shadowed
      /\ shadowed \in [Obj -> Pointer]
  BY <1>0 DEF Types, Destructing, Unlink, links
<1>2. Top \in Frame(Gone) /\ o \in Obj
  BY <1>0, <1>1, StackTop DEF Frame
<1>3. CASE o \in destructed
  <2>1. UNCHANGED places /\ Done
    BY <1>3 DEF Unlink
  <2>2. stack' \in Seq(Frame(Gone))
    BY <1>0, <1>1, <1>2, <2>1, StackGoesOn
  <2> QED BY <1>1, <2>1, <2>2, PlacesKept
<1>4. CASE o \notin destructed
  <2> DEFINE pairs == {<<o, p>> : p \in
                        Siblings(o) \cup {o} \cup ({env[o]} \ {None})}
             g == [Top EXCEPT !.pc = "dtors"]
  <2>1. /\ contains(o) = None
        /\ Part(pairs)
        /\ inv' = Unlinked(o)
        /\ dying' = dying \cup {o}
        /\ Becomes(g)
        /\ UNCHANGED <<destructed, living, env>>
    BY <1>4 DEF Unlink
  <2>2. inv[o] = <<>>
    <3>1. inv[o] \in Seq(Obj) /\ None \notin Obj
      BY <1>0, <1>2 DEF Types, WorldAssumption
    <3>2. inv[o] # <<>> => Head(inv[o]) \in Obj
      BY <3>1, HeadTailProperties
    <3> QED BY <2>1, <3>1, <3>2 DEF contains
  <2>3. \A x \in Obj \ Gone : env[x] # o
    <3>1. ToSet(inv[o]) = {}
      BY <2>2 DEF ToSet
    <3> QED BY <1>0, <1>2, <3>1 DEF Placed, Listed
  <2>4. Gone' = Gone \cup {o}
    BY <2>1 DEF Gone
  <2>5. stack' \in Seq(Frame(Gone'))
    <3> DEFINE H == Gone \cup {o}
    <3>1. stack \in Seq(Frame(H))
      BY <1>0, MoreGone
    <3>2. "dtors" \in Waiting /\ None \in Pointer /\ o \in H
      BY DEF Waiting, Dtor, Pointer
    <3> HIDE DEF H
    <3>3. Top \in Frame(H)
      BY <1>1, <3>1, StackTop
    <3>4. g \in Frame(H)
      BY <3>2, <3>3, FrameLocals
    <3>5. Becomes(g)
      BY <2>1
    <3> HIDE DEF g
    <3>6. stack' \in Seq(Frame(H))
      BY <1>1, <3>1, <3>4, <3>5, StackGoesOn
    <3> QED BY <2>4, <3>6 DEF H
  <2>6. sent' \in [Obj -> SUBSET Obj]
    <3> HIDE DEF pairs
    <3> QED BY <1>0, <2>1, PartType
  <2> HIDE DEF o
  <2>7. Listed(inv, env, Gone)'
    BY <1>0, <1>2, <2>1, <2>4, UnlinkedLists DEF Placed
  <2>8. Housed(env, Gone)'
    BY <1>0, <2>1, <2>3, <2>4 DEF Placed, Housed
  <2>9. Bare(env, destructed)' /\ Grounded(env)'
    BY <1>0, <2>1 DEF Placed
  <2>10. Local'
    BY <1>2, <2>1, <2>3, <2>4, GoneLocal
  <2>11. Types'
    <3>1. inv' \in [Obj -> Seq(Obj)]
      BY <2>7 DEF Listed
    <3>2. stack' \in Seq(Frame(Gone))'
      BY <2>5
    <3>3. dying' \subseteq Obj
      BY <1>0, <1>2, <2>1 DEF Types
    <3> QED BY <1>0, <1>1, <2>1, <2>6, <3>1, <3>2, <3>3 DEF Types
  <2> QED BY <2>7, <2>8, <2>9, <2>10, <2>11 DEF Inv, Placed
<1> QED BY <1>3, <1>4

\* The end of destruct_object().
LEMMA VanishKeeps ==
  ASSUME WorldAssumption, Inv, Destructing, Vanish
  PROVE  Inv'
<1> DEFINE o == Top.item
<1>0. Types /\ Placed /\ stack \in Seq(Frame(Gone))
  BY DEF Inv, Types
<1>1. /\ stack # <<>> /\ Top.pc = "dtors" /\ shadowed' = shadowed
      /\ shadowed \in [Obj -> Pointer]
  BY <1>0 DEF Types, Destructing, Vanish, links
<1>2. Top \in Frame(Gone) /\ o \in Gone
  BY <1>0, <1>1, StackTop DEF Frame, Dtor
<1>3. CASE o \in destructed
  <2>1. UNCHANGED places /\ Halts("crash")
    BY <1>3 DEF Vanish
  <2>2. stack' \in Seq(Frame(Gone))
    BY <1>0, <2>1, HaltStack
  <2> QED BY <1>1, <2>1, <2>2, PlacesKept
<1>4. CASE o \notin destructed
  <2>1. /\ env' = [env EXCEPT ![o] = None]
        /\ inv' = Cleared(o)
        /\ living' = living \ {o}
        /\ destructed' = destructed \cup {o}
        /\ dying' = dying \ {o}
        /\ Done
        /\ UNCHANGED <<sent, kept>>
    BY <1>4 DEF Vanish
  <2>2. o \in dying /\ o \in Obj
    BY <1>0, <1>2, <1>4 DEF Gone, Types
  <2>3. stack' \in Seq(Frame(Gone))
    BY <1>0, <1>1, <1>2, <2>1, StackGoesOn
  <2> HIDE DEF o
  <2>4. Gone' = Gone
    BY <2>1, <2>2 DEF Gone
  <2>5. inv' = inv
    BY <1>0, <1>2, <2>1, ClearedLists DEF Placed
  <2>6. \A x \in Obj : env'[x] = IF x = o THEN None ELSE env[x]
    BY <1>0, <2>1 DEF Types
  <2>7. env' \in [Obj -> Pointer]
    BY <1>0, <2>1 DEF Types, Pointer
  <2>8. Listed(inv, env, Gone)'
    <3>1. ASSUME NEW x \in Obj, NEW p \in Obj
          PROVE  x \in ToSet(inv[p]) <=> env'[x] = p /\ x \notin Gone
      <4>1. x \in ToSet(inv[p]) <=> env[x] = p /\ x \notin Gone
        BY <1>0 DEF Placed, Listed
      <4> QED BY <1>2, <2>6, <4>1
    <3>2. Listed(inv, env', Gone)
      BY <1>0, <3>1 DEF Placed, Listed
    <3> QED BY <2>4, <2>5, <3>2
  <2>9. Housed(env, Gone)'
    BY <1>0, <1>2, <2>4, <2>6 DEF Placed, Housed
  <2>10. Bare(env, destructed)'
    BY <1>0, <2>1, <2>2, <2>6 DEF Placed, Bare, Types
  <2>11. Grounded(env)'
    BY <1>0, <2>1, <2>2, GoneGrounded DEF Placed
  <2>12. Local'
    <3> SUFFICES ASSUME NEW p \in Obj \ Gone, NEW x \in sent[p],
                        <<x, p>> \notin kept
                 PROVE  Near(x, p)' /\ x \notin Gone
      BY <2>1, <2>4 DEF Local
    <3>1. Near(x, p) /\ x \notin Gone /\ x \in Obj
      BY <1>0 DEF Inv, Local, Types
    <3>2. env'[x] = env[x] /\ env'[p] = env[p]
      BY <1>2, <2>6, <3>1
    <3> QED BY <3>1, <3>2 DEF Near
  <2>13. Types'
    <3>1. stack' \in Seq(Frame(Gone))'
      BY <2>3, <2>4
    <3>2. living' \subseteq Obj \ destructed'
      BY <1>0, <2>1 DEF Types
    <3>3. destructed' \subseteq Obj /\ dying' \subseteq Obj
      BY <1>0, <2>1, <2>2 DEF Types
    <3> QED BY <1>0, <1>1, <2>1, <2>5, <2>7, <3>1, <3>2, <3>3 DEF Types
  <2> QED BY <2>8, <2>9, <2>10, <2>11, <2>12, <2>13 DEF Inv, Placed
<1> QED BY <1>3, <1>4

\* A round of the loop over the shadows of an object, and the rounds over
\* its contents.
LEMMA DestructingKeeps ==
  ASSUME WorldAssumption, Inv, Destructing
  PROVE  Inv'
<1>0. Types
  BY DEF Inv
<1>1. /\ stack \in Seq(Frame(Gone)) /\ stack # <<>> /\ Top.op = "destruct"
      /\ shadowed \in [Obj -> Pointer]
  BY <1>0 DEF Types, Destructing
<1>2. /\ Top \in Frame(Gone) /\ Top.item \in Obj /\ Top.ob \in Pointer
      /\ Below \in Seq(Frame(Gone))
  BY <1>1, StackTop DEF Frame
<1>3. {"contents", "asked"} \subseteq Waiting \ Dtor /\ None \in Pointer
  BY DEF Waiting, Dtor, Pointer
<1>4. contains(Top.item) \in Pointer
  BY <1>0, <1>2, Following
<1>5. CASE DestructShadows
  <2>1. UNCHANGED places
    BY <1>5 DEF DestructShadows
  <2>2. CASE Top.item \in destructed
    <3>1. Done /\ shadowed' = shadowed
      BY <1>5, <2>2 DEF DestructShadows, links
    <3>2. stack' \in Seq(Frame(Gone))
      BY SMTT(60), <1>1, <1>2, <3>1, StackGoesOn
    <3> QED BY <1>1, <2>1, <3>1, <3>2, PlacesKept
  <2>3. CASE Top.item \notin destructed /\ Top.ob = None
    <3> DEFINE g == [Top EXCEPT !.pc = "contents"]
    <3>1. Becomes(g) /\ Bypassed(Top.item)
      BY SMTT(60), <1>5, <2>3 DEF DestructShadows
    <3>2. g \in Frame(Gone)
      BY <1>2, <1>3, FrameLocals
    <3>3. stack' \in Seq(Frame(Gone))
      <4> HIDE DEF g
      <4> QED BY <1>1, <3>1, <3>2, StackGoesOn
    <3>4. shadowed' \in [Obj -> Pointer]
      BY <1>1, <1>2, <1>3, <3>1 DEF Bypassed
    <3> QED BY <2>1, <3>3, <3>4, PlacesKept
  <2>4. CASE Top.item \notin destructed /\ Top.ob # None
    <3> DEFINE s == Top.ob
               t == shadowed[s]
               g == [Top EXCEPT !.ob = t]
               st == Append(Below, g)
    <3>1. s \in Obj
      BY <1>2, <2>4 DEF Pointer
    <3>2. /\ shadowed' = [shadowed EXCEPT ![s] = None]
          /\ Destroy(t, st)
      BY <1>5, <2>4 DEF DestructShadows
    <3>3. t \in Pointer
      BY SMTT(60), <1>1, <3>1
    <3> HIDE DEF t
    <3>4. g \in Frame(Gone)
      BY <1>2, <1>3, <3>3, FrameLocals
    <3> HIDE DEF g
    <3>5. st \in Seq(Frame(Gone))
      BY <1>2, <3>4, AppendProperties
    <3> HIDE DEF st
    <3>6. stack' \in Seq(Frame(Gone))
      BY <1>1, <3>2, <3>3, <3>5, DestroyStack
    <3>7. shadowed' \in [Obj -> Pointer]
      BY <1>1, <1>3, <3>2
    <3> QED BY <2>1, <3>6, <3>7, PlacesKept
  <2> QED BY <2>2, <2>3, <2>4
<1>6. CASE Empty
  <2> DEFINE c == contains(Top.item)
             g == [Top EXCEPT !.ob = c, !.pc = "asked"]
  <2>1. Calls(g) /\ UNCHANGED places /\ shadowed' = shadowed
    BY SMTT(60), <1>6 DEF Empty, links
  <2> HIDE DEF c
  <2>2. g \in Frame(Gone)
    BY <1>2, <1>3, <1>4, FrameLocals DEF c
  <2> HIDE DEF g
  <2>3. stack' \in Seq(Frame(Gone))
    BY <1>1, <2>1, <2>2, StackGoesOn
  <2> QED BY <1>1, <2>1, <2>3, PlacesKept
<1>7. CASE Asked
  <2> DEFINE g == [Top EXCEPT !.pc = "contents"]
             st == Append(Below, g)
  <2>1. UNCHANGED places /\ shadowed' = shadowed
    BY <1>7 DEF Asked, links
  <2>2. Destroy(Top.ob, st) \/ Becomes(g)
    BY <1>7 DEF Asked
  <2>3. g \in Frame(Gone)
    BY <1>2, <1>3, FrameLocals
  <2> HIDE DEF g
  <2>4. st \in Seq(Frame(Gone))
    BY <1>2, <2>3, AppendProperties
  <2> HIDE DEF st
  <2>5. stack' \in Seq(Frame(Gone))
    BY <1>1, <1>2, <2>2, <2>3, <2>4, DestroyStack, StackGoesOn
  <2> QED BY <1>1, <2>1, <2>5, PlacesKept
<1>8. CASE Unlink
  BY <1>8, UnlinkKeeps
<1>9. CASE CallDtor \/ DtorOver
  <2> DEFINE f == [Top EXCEPT !.pc = "dtor"]
             g == [Top EXCEPT !.pc = "dtors"]
  <2>1. UNCHANGED places /\ shadowed' = shadowed
    BY <1>9 DEF CallDtor, DtorOver, links
  <2>2. Calls(f) \/ Done \/ Becomes(g)
    BY <1>9 DEF CallDtor, DtorOver
  <2>3. Top.item \in Gone
    BY <1>2, <1>9 DEF CallDtor, DtorOver, Frame, Dtor
  <2>4. {"dtor", "dtors"} \subseteq Waiting
    BY SMTT(60) DEF Waiting, Dtor
  <2>5. f \in Frame(Gone) /\ g \in Frame(Gone)
    BY <1>2, <1>3, <2>3, <2>4, FrameLocals
  <2> HIDE DEF f, g
  <2>6. stack' \in Seq(Frame(Gone))
    BY <1>1, <2>2, <2>5, StackGoesOn
  <2> QED BY <1>1, <2>1, <2>6, PlacesKept
<1>10. CASE Vanish
  BY <1>10, VanishKeeps
<1> QED BY <1>5, <1>6, <1>7, <1>8, <1>9, <1>10 DEF Destructing

\* At first the objects are where they are put.
LEMMA InitHolds == ASSUME WorldAssumption, Init PROVE Inv
<1>1. /\ IsFiniteSet(Obj) /\ None \notin Obj
      /\ Home \in [Obj -> Pointer]
      /\ Grounded(Home)
  BY DEF WorldAssumption, Pointer, Grounded
<1>2. /\ destructed = {} /\ dying = {} /\ living = Living
      /\ env = Home /\ stack = <<>>
      /\ sent = [o \in Obj |-> {}]
      /\ shadowed = [o \in Obj |-> None]
  BY DEF Init
<1>3. ASSUME NEW p \in Obj
      PROVE  /\ inv[p] \in Seq(Obj) /\ IsInjective(inv[p])
             /\ \A o \in Obj : o \in ToSet(inv[p]) <=> env[o] = p
  <2> DEFINE S == {o \in Obj : Home[o] = p}
  <2>1. inv[p] = SetToSeq(S)
    BY DEF Init
  <2>2. S \subseteq Obj /\ IsFiniteSet(S)
    BY <1>1, FS_Subset
  <2>3. \A o \in Obj : o \in S <=> env[o] = p
    BY <1>2
  <2> HIDE DEF S
  <2>4. inv[p] \in Seq(S) /\ IsInjective(inv[p]) /\ ToSet(inv[p]) = S
    BY <2>1, <2>2, SetListed
  <2>5. inv[p] \in Seq(Obj)
    BY <2>2, <2>4
  <2> QED BY <2>3, <2>4, <2>5
<1>4. DOMAIN inv = Obj /\ inv = [p \in Obj |-> inv[p]]
  BY DEF Init
<1>5. inv \in [Obj -> Seq(Obj)]
  BY <1>3, <1>4
<1>6. Gone = {} /\ Listed(inv, env, Gone)
  BY <1>2, <1>3, <1>5 DEF Listed, Gone
<1>7. Types
  <2>1. living \subseteq Obj
    BY <1>2 DEF WorldAssumption
  <2> QED BY <1>1, <1>2, <1>5, <2>1 DEF Types, Pointer
<1>8. Placed
  <2>1. \A o \in Obj : env[o] # None => env[o] \in Obj
    BY <1>7 DEF Types, Pointer
  <2>2. Housed(env, Gone) /\ Bare(env, destructed)
    BY <1>2, <1>6, <2>1 DEF Housed, Bare
  <2> QED BY <1>1, <1>2, <1>6, <2>2 DEF Placed
<1>9. Local
  BY <1>2 DEF Local
<1> QED BY <1>7, <1>8, <1>9 DEF Inv

\* Every step of the driver and of the LPC code it calls keeps the
\* inductive invariant.
LEMMA NextKeeps ==
  ASSUME WorldAssumption, ~Meddle, Inv, [Next]_vars PROVE Inv'
<1>0. Types
  BY DEF Inv
<1>1. stack \in Seq(Frame(Gone)) /\ shadowed \in [Obj -> Pointer]
  BY <1>0 DEF Types
<1>2. ASSUME NEW o \in Obj, NEW x \in Obj, add_action(o, x) PROVE Inv'
  BY <1>2, AddActionKeeps
<1>3. ASSUME NEW o \in Obj, NEW x \in Obj, move_object(o, x) PROVE Inv'
  BY <1>3, MoveKeeps
<1>4. ASSUME NEW s \in Obj, NEW o \in Obj, shadow(s, o) PROVE Inv'
  <2> DEFINE last == Outermost(o)
  <2>1. /\ UNCHANGED <<places, stack>>
        /\ shadowed' = [shadowed EXCEPT ![last] = s]
    BY <1>4 DEF shadow
  <2> HIDE DEF last
  <2>2. shadowed' \in [Obj -> Pointer]
    BY <1>1, <2>1 DEF Pointer
  <2> QED BY <1>1, <2>1, <2>2, PlacesKept
<1>5. ASSUME NEW o \in Obj, destruct_object(o) PROVE Inv'
  <2>1. Destroy(o, stack) /\ UNCHANGED places /\ shadowed' = shadowed
    BY <1>5 DEF destruct_object, links
  <2>2. o \in Pointer
    BY DEF Pointer
  <2>3. stack' \in Seq(Frame(Gone))
    BY <1>1, <2>1, <2>2, DestroyStack
  <2> QED BY <1>1, <2>1, <2>3, PlacesKept
<1>6. CASE Moving
  <2>1. UNCHANGED places /\ shadowed' = shadowed
    BY <1>6 DEF Moving, links
  <2>2. stack' \in Seq(Frame(Gone))
    BY <1>6, MovingStack
  <2> QED BY <1>1, <2>1, <2>2, PlacesKept
<1>7. CASE Destructing
  BY <1>7, DestructingKeeps
<1>8. CASE Run \/ Return \/ Fail
  <2>1. UNCHANGED places /\ shadowed' = shadowed
    BY <1>8 DEF Run, Return, Fail, links
  <2>2. stack' \in Seq(Frame(Gone))
    <3>1. CASE Run
      <4>1. stack' = <<Code>> /\ Code \in Frame(Gone)
        BY <3>1, CodeFrame DEF Run
      <4> QED BY <4>1
    <3>2. CASE Return
      <4>1. Done /\ stack # <<>>
        BY <3>2 DEF Return, LPC
      <4>2. Top \in Frame(Gone)
        BY <1>1, <4>1, StackTop
      <4> QED BY <1>1, <4>1, <4>2, StackGoesOn
    <3>3. CASE Fail
      BY <1>1, <3>3, ErrorStack DEF Fail
    <3> QED BY <1>8, <3>1, <3>2, <3>3
  <2> QED BY <1>1, <2>1, <2>2, PlacesKept
<1>9. CASE UNCHANGED vars
  <2>1. UNCHANGED places /\ shadowed' = shadowed /\ stack' = stack
    BY <1>9 DEF vars, links
  <2> QED BY <1>1, <2>1, PlacesKept
<1>10. ASSUME NEW o \in Obj, NEW num \in BOOLEAN, enable_commands(o, num)
       PROVE  Inv'
  BY <1>10, EnableKeeps
<1> QED BY <1>2, <1>3, <1>4, <1>5, <1>6, <1>7, <1>8, <1>9, <1>10 DEF Next

-----------------------------------------------------------------------------

\* The inductive invariant holds in every state that the driver reaches.
THEOREM Invariance == ASSUME ~Meddle PROVE Spec => []Inv
<1>1. Init => Inv
  BY WorldAssumption, InitHolds
<1>2. Inv /\ [Next]_vars => Inv'
  BY WorldAssumption, NextKeeps
<1> QED BY <1>1, <1>2, PTL DEF Spec

\* Containment, for every world whose LPC code leaves an object alone while
\* its destructors run: move_object() and destruct_object() keep every
\* object in the one list of the place it is in, never in a destructed
\* object and never inside itself, whatever else LPC code does in the middle
\* of them.
THEOREM ObjectsContained == ASSUME ~Meddle PROVE Spec => []Containment
<1>1. Inv => Containment
  <2> SUFFICES ASSUME Inv PROVE Containment
    OBVIOUS
  <2>1. /\ Listed(inv, env, Gone) /\ Housed(env, Gone)
        /\ Bare(env, destructed) /\ Grounded(env) /\ Types
    BY DEF Inv, Placed
  <2>2. \A o \in Obj : o \in Gone <=> o \in destructed \/ o \in dying
    BY DEF Gone
  <2>3. None \notin Obj
    BY WorldAssumption DEF WorldAssumption
  <2>4. \A o \in Obj : inv[o] \in Seq(Obj) /\ IsInjective(inv[o])
    BY <2>1 DEF Listed
  <2>5. \A o, p \in Obj : o \in ToSet(inv[p]) <=> env[o] = p /\ o \notin dying
    BY <2>1, <2>2, <2>3 DEF Listed, Bare
  <2>6. \A o \in Obj \ dying :
          env[o] # None => {o, env[o]} \subseteq Live \ dying
    BY <2>1, <2>2 DEF Housed, Bare, Live
  <2> QED BY <2>1, <2>4, <2>5, <2>6 DEF Containment, Grounded
<1> QED BY <1>1, Invariance, PTL

\* CommandsLocal, for every world whose LPC code leaves an object alone
\* while its destructors run: enable_commands(), add_action(), move_object()
\* and destruct_object() leave a living object with commands of what is near
\* it, of what was nowhere when it was, and of what it parted from while it
\* was not living.
THEOREM CommandsStayLocal == ASSUME ~Meddle PROVE Spec => []CommandsLocal
<1>1. Inv => CommandsLocal
  BY DEF Inv, Local, CommandsLocal, Types, Gone
<1> QED BY <1>1, Invariance, PTL

=============================================================================
