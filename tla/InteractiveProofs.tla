------------------------- MODULE InteractiveProofs -------------------------
(***************************************************************************)
(* Proofs about the interactive objects (Interactive): TypeOK, TableExact, *)
(* SessionsOwned and SnoopPaired are invariants of every number of         *)
(* objects, records, sessions, slots and nested operations.                *)
(*                                                                         *)
(* None of the four is inductive.  The inductive invariant Inv adds what   *)
(* the operations under way rely on: the shape of the stack (Shape), what  *)
(* each frame of it will do when it goes on (FrameOK), and facts about the *)
(* tables that the four only imply in part, such as that no two slots hold *)
(* the same record.  Its parts are stated as operators on the values of    *)
(* the variables, so that a lemma is about the part of the state that an   *)
(* action changes and not about the action.                                *)
(***************************************************************************)
EXTENDS Interactive, SequenceTheorems, FiniteSetTheorems,
        WellFoundedInduction, TLAPS

\* A non-empty set of naturals has a least element, and Min returns it: the
\* search along a list stops at the first place that fits.
LEMMA MinIsLeast ==
  ASSUME NEW S \in SUBSET Nat, S # {}
  PROVE  Min(S) \in S /\ \A y \in S : Min(S) <= y
<1>1. \E x \in S : \A y \in S : <<y, x>> \notin OpToRel(<, Nat)
  BY NatLessThanWellFounded, WFMin
<1>2. PICK x \in S : \A y \in S : <<y, x>> \notin OpToRel(<, Nat)
  BY <1>1
<1>3. \A y \in S : x <= y
  <2> SUFFICES ASSUME NEW y \in S PROVE x <= y
    OBVIOUS
  <2>1. ~(y < x)
    BY <1>2 DEF OpToRel
  <2> QED BY <2>1
<1> QED BY <1>3 DEF Min

-----------------------------------------------------------------------------

ObjectFields == [is : {"fresh", "live", "destructed"},
                 interactive : Rec \cup {None}, refs : Int]
Record == [ob : Objects \cup {None}, tp : Sess \cup {None},
           snoop_on : Rec \cup {None}, snoop_by : Rec \cup {None},
           input_to : BOOLEAN, ed : BOOLEAN]
Control == [open : BOOLEAN, ip : Rec \cup {None}, enabled : SUBSET {"R", "C"}]
Operation == [op : {"logon", "refused", "command", "alarm",
                    "removed", "destruct"},
              ob : Objects \cup {None}, s : Sess \cup {None},
              i : 0 .. MAX_PLAYERS]

Records == [Rec -> Record]
ObjectTable == [Objects -> ObjectFields]
Table == [Slots -> Rec \cup {None}]
Sessions == [Sess -> Control]

\* The records in use, the records of an object, the slots in use.
Used(p) == {r \in Rec : p[r].ob # None}
Owned(p, o) == {r \in Rec : p[r].ob = o}
Taken(a) == {i \in Slots : a[i] # None}

\* TypeOK but for the bounds of the counters, which follow from what they
\* count.
Types ==
  /\ object \in ObjectTable
  /\ ip \in Records
  /\ all_players \in Table
  /\ num_player \in Int
  /\ session \in Sessions
  /\ failed \subseteq Sess
  /\ stack \in Seq(Operation)

FreeInv(p) == \A r \in Rec : p[r].ob = None => p[r] = Free

\* all_players and num_player
TableInv(p, a, n) ==
  /\ IsFiniteSet(Used(p))
  /\ n = Cardinality(Used(p))
  /\ n = Cardinality(Taken(a))
  /\ \A i \in Slots : a[i] # None => a[i] \in Used(p)
  /\ \A r \in Used(p) : \E i \in Slots : a[i] = r
  /\ \A i, j \in Slots : a[i] = a[j] /\ a[i] # None => i = j

\* Records and their objects
OwnerInv(ob, p, f) ==
  /\ ob[Master].is = "live"
  /\ \A r \in Used(p) :
       \/ /\ p[r].ob \in Obj /\ ob[p[r].ob].is = "live"
          /\ ob[p[r].ob].interactive = r
       \/ p[r].ob = Master /\ p[r].tp \in f
  /\ \A o \in Obj : ob[o].interactive # None => p[ob[o].interactive].ob = o

\* The references of objects
CountInv(ob, p) == \A o \in Objects : ob[o].refs = Cardinality(Owned(p, o))

\* Records and their sessions
SessionInv(p, ses) ==
  /\ \A r \in Used(p) :
       /\ p[r].tp \in Sess
       /\ ses[p[r].tp].open
       /\ ses[p[r].tp].ip \in {r, None}
       /\ ses[p[r].tp].ip = None => ses[p[r].tp].enabled = {}
       /\ p[r].ob = Master => ses[p[r].tp].ip = None
  /\ \A r, q \in Used(p) : p[r].tp = p[q].tp => r = q
  /\ \A s \in Sess : ses[s].ip # None => p[ses[s].ip].tp = s
  /\ \A s \in Sess : ~ses[s].open => ses[s] = Closed

\* SnoopPaired
PairedOn(p) == \A r \in Rec : p[r].snoop_on # None =>
  p[r].snoop_on \in Used(p) /\ p[p[r].snoop_on].snoop_by = r
PairedBy(p) == \A r \in Rec : p[r].snoop_by # None =>
  p[r].snoop_by \in Used(p) /\ p[p[r].snoop_by].snoop_on = r
NoLoop(p) == \A S \in (SUBSET Rec) \ {{}} : \E r \in S : p[r].snoop_on \notin S
SnoopInv(p) == PairedOn(p) /\ PairedBy(p) /\ NoLoop(p)

\* A login, a command or an alarm is the outermost operation; above it are
\* objects that are being destructed and the master object's
\* remove_interactive().
AcceptOps == {"logon", "refused"}
Shape(st) ==
  \A n \in 1 .. Len(st) :
    /\ n = 1 => st[n].op # "destruct"
    /\ n > 1 => st[n].op \in {"removed", "destruct"}

\* The session that is being accepted
Accepts(st, s) == Len(st) > 0 /\ st[1].op \in AcceptOps /\ st[1].s = s

HeldInv(p, ses, f, st) ==
  /\ \A s \in Sess : ses[s].open /\ ses[s].ip = None =>
       "C" \in ses[s].enabled \/ Accepts(st, s) \/ s \in f
  /\ \A r \in Used(p) : ses[p[r].tp].ip = None =>
       Accepts(st, p[r].tp) \/ p[r].tp \in f

\* What an operation under way finds when it goes on: the session that is
\* being accepted is untouched and only the record in the slot is its, and
\* an object that is being destructed has no connection any more.
FrameOK(g, ob, p, a, ses) ==
  /\ g.op \in AcceptOps =>
       /\ g.s \in Sess
       /\ ses[g.s].open /\ ses[g.s].ip = None /\ ses[g.s].enabled = {}
       /\ \A r \in Used(p) : p[r].tp = g.s =>
            g.op = "logon" /\ p[r].ob # Master /\ a[g.i] = r
  /\ g.op = "logon" =>
       g.i \in Slots /\ (a[g.i] # None => p[a[g.i]].tp = g.s)
  /\ g.op = "refused" => g.i = 0
  /\ g.op = "destruct" => g.ob \in Obj /\ ob[g.ob].interactive = None

FramesInv(ob, p, a, ses, st) ==
  \A n \in 1 .. Len(st) : FrameOK(st[n], ob, p, a, ses)

Inv ==
  /\ Types
  /\ FreeInv(ip)
  /\ TableInv(ip, all_players, num_player)
  /\ OwnerInv(object, ip, failed)
  /\ CountInv(object, ip)
  /\ SessionInv(ip, session)
  /\ SnoopInv(ip)
  /\ HeldInv(ip, session, failed, stack)
  /\ Shape(stack)
  /\ FramesInv(object, ip, all_players, session, stack)

-----------------------------------------------------------------------------
(***************************************************************************)
(* Sets and counters.                                                      *)
(***************************************************************************)

\* The record in a slot, one more: new_player() counts it.
LEMMA TableAdds ==
  ASSUME NEW p \in Records, NEW q \in Records, NEW a \in Table, NEW n \in Int,
         TableInv(p, a, n),
         NEW r \in Rec, r \notin Used(p), Used(q) = Used(p) \cup {r},
         NEW i \in Slots, a[i] = None
  PROVE  TableInv(q, [a EXCEPT ![i] = r], n + 1)
<1> DEFINE b == [a EXCEPT ![i] = r]
<1>0. r # None /\ MAX_PLAYERS \in Nat
  BY InteractiveAssumption
<1>1. \A j \in Slots : b[j] = IF j = i THEN r ELSE a[j]
  BY DEF Table
<1> HIDE DEF b
<1>2. Taken(b) = Taken(a) \cup {i} /\ i \notin Taken(a)
  BY <1>0, <1>1 DEF Taken
<1>3. IsFiniteSet(Taken(a))
  <2>1. IsFiniteSet(Slots)
    BY <1>0, FS_Interval DEF Slots
  <2>2. Taken(a) \in SUBSET Slots
    BY DEF Taken
  <2> QED BY <2>1, <2>2, FS_Subset
<1>4. Cardinality(Taken(b)) = Cardinality(Taken(a)) + 1
  BY <1>2, <1>3, FS_AddElement
<1>5. IsFiniteSet(Used(p)) /\ n = Cardinality(Used(p)) /\ n = Cardinality(Taken(a))
  BY DEF TableInv
<1>6. IsFiniteSet(Used(q)) /\ Cardinality(Used(q)) = Cardinality(Used(p)) + 1
  <2>1. /\ IsFiniteSet(Used(p) \cup {r})
        /\ Cardinality(Used(p) \cup {r}) = Cardinality(Used(p)) + 1
    BY <1>5, FS_AddElement
  <2> QED BY <2>1
<1>7. \A j \in Slots : b[j] # None => b[j] \in Used(q)
  BY <1>1 DEF TableInv
<1>8. \A x \in Used(q) : \E j \in Slots : b[j] = x
  <2> SUFFICES ASSUME NEW x \in Used(q) PROVE \E j \in Slots : b[j] = x
    OBVIOUS
  <2>1. CASE x = r
    BY <2>1, <1>1
  <2>2. CASE x # r
    <3>1. x \in Used(p) /\ x # None
      BY <2>2, InteractiveAssumption DEF Used
    <3>2. PICK j \in Slots : a[j] = x
      BY <3>1 DEF TableInv
    <3> QED BY <1>1, <3>1, <3>2
  <2> QED BY <2>1, <2>2
<1>9. \A j, k \in Slots : b[j] = b[k] /\ b[j] # None => j = k
  <2> SUFFICES ASSUME NEW j \in Slots, NEW k \in Slots, b[j] = b[k], b[j] # None
               PROVE  j = k
    OBVIOUS
  <2>1. \A m \in Slots : a[m] # r
    BY <1>0 DEF TableInv
  <2> QED BY <1>1, <2>1 DEF TableInv
<1> QED BY <1>4, <1>5, <1>6, <1>7, <1>8, <1>9 DEF TableInv, b

\* The slots without a record that is freed, one less: remove_interactive()
\* takes every place of it.
LEMMA TableDrops ==
  ASSUME NEW p \in Records, NEW q \in Records, NEW a \in Table, NEW n \in Int,
         TableInv(p, a, n), NEW r \in Used(p), Used(q) = Used(p) \ {r}
  PROVE  TableInv(q, [i \in Slots |-> IF a[i] = r THEN None ELSE a[i]], n - 1)
<1> DEFINE b == [i \in Slots |-> IF a[i] = r THEN None ELSE a[i]]
<1>0. r # None /\ MAX_PLAYERS \in Nat
  BY InteractiveAssumption DEF Used
<1>1. \A j \in Slots : b[j] = IF a[j] = r THEN None ELSE a[j]
  OBVIOUS
<1> HIDE DEF b
<1>2. PICK i \in Slots : a[i] = r
  BY DEF TableInv
<1>3. \A j \in Slots : a[j] = r => j = i
  BY <1>0, <1>2 DEF TableInv
<1>4. Taken(b) = Taken(a) \ {i} /\ i \in Taken(a)
  BY <1>0, <1>1, <1>2, <1>3 DEF Taken
<1>5. IsFiniteSet(Taken(a))
  <2>1. IsFiniteSet(Slots)
    BY <1>0, FS_Interval DEF Slots
  <2>2. Taken(a) \in SUBSET Slots
    BY DEF Taken
  <2> QED BY <2>1, <2>2, FS_Subset
<1>6. Cardinality(Taken(b)) = Cardinality(Taken(a)) - 1
  BY <1>4, <1>5, FS_RemoveElement
<1>7. IsFiniteSet(Used(p)) /\ n = Cardinality(Used(p)) /\ n = Cardinality(Taken(a))
  BY DEF TableInv
<1>8. IsFiniteSet(Used(q)) /\ Cardinality(Used(q)) = Cardinality(Used(p)) - 1
  <2>1. PICK S : S = Used(p)
    OBVIOUS
  <2>2. IsFiniteSet(S) /\ r \in S
    BY <1>7, <2>1
  <2>3. IsFiniteSet(S \ {r}) /\ Cardinality(S \ {r}) = Cardinality(S) - 1
    BY <2>2, FS_RemoveElement
  <2> QED BY <2>1, <2>3
<1>9. \A j \in Slots : b[j] # None => b[j] \in Used(q)
  BY <1>1 DEF TableInv
<1>10. \A x \in Used(q) : \E j \in Slots : b[j] = x
  <2> SUFFICES ASSUME NEW x \in Used(q) PROVE \E j \in Slots : b[j] = x
    OBVIOUS
  <2>1. x \in Used(p) /\ x # r
    OBVIOUS
  <2>2. PICK j \in Slots : a[j] = x
    BY <2>1 DEF TableInv
  <2> QED BY <1>1, <2>1, <2>2
<1>11. \A j, k \in Slots : b[j] = b[k] /\ b[j] # None => j = k
  BY <1>1 DEF TableInv
<1> QED BY <1>6, <1>7, <1>8, <1>9, <1>10, <1>11 DEF TableInv, b

\* The table depends on which records are in use only.
LEMMA TableStays ==
  ASSUME NEW p, NEW q, NEW a, NEW n, TableInv(p, a, n), Used(q) = Used(p)
  PROVE  TableInv(q, a, n)
BY DEF TableInv

\* A table with room for MAX_PLAYERS has at most that many players, and no
\* object more references than there are players.
LEMMA Bounds ==
  ASSUME NEW p \in Records, NEW a \in Table, NEW n \in Int, TableInv(p, a, n)
  PROVE  /\ n \in 0 .. MAX_PLAYERS
         /\ \A o \in Objects : Cardinality(Owned(p, o)) \in 0 .. MAX_PLAYERS
<1>0. MAX_PLAYERS \in Nat
  BY InteractiveAssumption
<1>1. IsFiniteSet(Slots) /\ Cardinality(Slots) = MAX_PLAYERS
  BY <1>0, FS_Interval DEF Slots
<1>2. Taken(a) \in SUBSET Slots
  BY DEF Taken
<1>3. IsFiniteSet(Taken(a)) /\ Cardinality(Taken(a)) <= MAX_PLAYERS
  BY <1>1, <1>2, FS_Subset
<1>4. Cardinality(Taken(a)) \in Nat
  BY <1>3, FS_CardinalityType
<1>5. n = Cardinality(Taken(a)) /\ n = Cardinality(Used(p)) /\ IsFiniteSet(Used(p))
  BY DEF TableInv
<1>6. ASSUME NEW o \in Objects
      PROVE  Cardinality(Owned(p, o)) \in 0 .. MAX_PLAYERS
  <2>1. Owned(p, o) \in SUBSET Used(p)
    BY <1>6, InteractiveAssumption DEF Owned, Used, Objects
  <2>2. IsFiniteSet(Owned(p, o)) /\ Cardinality(Owned(p, o)) <= Cardinality(Used(p))
    BY <1>5, <2>1, FS_Subset
  <2>3. Cardinality(Owned(p, o)) \in Nat
    BY <2>2, FS_CardinalityType
  <2> QED BY <1>0, <1>3, <1>4, <1>5, <2>2, <2>3
<1> QED BY <1>0, <1>3, <1>4, <1>5, <1>6

\* The records of an object are finitely many.
LEMMA OwnedFinite ==
  ASSUME NEW p, IsFiniteSet(Used(p)), NEW o \in Objects
  PROVE  IsFiniteSet(Owned(p, o))
<1>1. Owned(p, o) \in SUBSET Used(p)
  BY InteractiveAssumption DEF Owned, Used, Objects
<1> QED BY <1>1, FS_Subset

-----------------------------------------------------------------------------
(***************************************************************************)
(* Snooping.                                                               *)
(***************************************************************************)

\* The fields of a record have their types.
LEMMA RecordTypes ==
  ASSUME NEW p \in Records, NEW r \in Rec
  PROVE  /\ p[r] \in Record
         /\ p[r].ob \in Objects \cup {None} /\ p[r].tp \in Sess \cup {None}
         /\ p[r].snoop_on \in Rec \cup {None}
         /\ p[r].snoop_by \in Rec \cup {None}
BY DEF Records, Record

\* Two record tables that differ in who snoops on whom at most.
SameOwners(p, q) == \A x \in Rec : q[x].ob = p[x].ob /\ q[x].tp = p[x].tp

\* What Unsnooped() returns, field by field.
LEMMA UnsnoopedFields ==
  ASSUME NEW p \in Records, NEW r \in Rec
  PROVE  /\ Unsnooped(p, r) \in Records
         /\ SameOwners(p, Unsnooped(p, r))
         /\ \A x \in Rec :
              /\ Unsnooped(p, r)[x].snoop_on =
                   IF x = p[r].snoop_by THEN None ELSE p[x].snoop_on
              /\ Unsnooped(p, r)[x].snoop_by =
                   IF x = r THEN None ELSE p[x].snoop_by
              /\ Unsnooped(p, r)[x].input_to = p[x].input_to
              /\ Unsnooped(p, r)[x].ed = p[x].ed
<1>0. None \notin Rec /\ p[r].snoop_by \in Rec \cup {None}
  BY InteractiveAssumption, RecordTypes
<1>1. CASE p[r].snoop_by = None
  BY <1>0, <1>1 DEF Unsnooped, SameOwners
<1>2. CASE p[r].snoop_by # None
  <2> DEFINE by == p[r].snoop_by
             q == [p EXCEPT ![by].snoop_on = None, ![r].snoop_by = None]
  <2>1. by \in Rec /\ Unsnooped(p, r) = q
    BY <1>0, <1>2 DEF Unsnooped
  <2> HIDE DEF by
  <2>2. q \in Records
    BY <2>1 DEF Records, Record
  <2>3. \A x \in Rec :
          /\ q[x].ob = p[x].ob /\ q[x].tp = p[x].tp
          /\ q[x].snoop_on = IF x = by THEN None ELSE p[x].snoop_on
          /\ q[x].snoop_by = IF x = r THEN None ELSE p[x].snoop_by
          /\ q[x].input_to = p[x].input_to
          /\ q[x].ed = p[x].ed
    BY <2>1 DEF Records, Record
  <2> HIDE DEF q
  <2> QED BY <2>1, <2>2, <2>3 DEF by, SameOwners
<1> QED BY <1>1, <1>2

\* What Unsnooping() returns, field by field.
LEMMA UnsnoopingFields ==
  ASSUME NEW p \in Records, NEW r \in Rec
  PROVE  /\ Unsnooping(p, r) \in Records
         /\ SameOwners(p, Unsnooping(p, r))
         /\ \A x \in Rec :
              /\ Unsnooping(p, r)[x].snoop_on =
                   IF x = r THEN None ELSE p[x].snoop_on
              /\ Unsnooping(p, r)[x].snoop_by =
                   IF x = p[r].snoop_on THEN None ELSE p[x].snoop_by
              /\ Unsnooping(p, r)[x].input_to = p[x].input_to
              /\ Unsnooping(p, r)[x].ed = p[x].ed
<1>0. None \notin Rec /\ p[r].snoop_on \in Rec \cup {None}
  BY InteractiveAssumption, RecordTypes
<1>1. CASE p[r].snoop_on = None
  BY <1>0, <1>1 DEF Unsnooping, SameOwners
<1>2. CASE p[r].snoop_on # None
  <2> DEFINE on == p[r].snoop_on
             q == [p EXCEPT ![on].snoop_by = None, ![r].snoop_on = None]
  <2>1. on \in Rec /\ Unsnooping(p, r) = q
    BY <1>0, <1>2 DEF Unsnooping
  <2> HIDE DEF on
  <2>2. q \in Records
    BY <2>1 DEF Records, Record
  <2>3. \A x \in Rec :
          /\ q[x].ob = p[x].ob /\ q[x].tp = p[x].tp
          /\ q[x].snoop_on = IF x = r THEN None ELSE p[x].snoop_on
          /\ q[x].snoop_by = IF x = on THEN None ELSE p[x].snoop_by
          /\ q[x].input_to = p[x].input_to
          /\ q[x].ed = p[x].ed
    BY <2>1 DEF Records, Record
  <2> HIDE DEF q
  <2> QED BY <2>1, <2>2, <2>3 DEF on, SameOwners
<1> QED BY <1>1, <1>2

\* Records are in use or not whatever becomes of snooping.
LEMMA SameUsed ==
  ASSUME NEW p, NEW q, SameOwners(p, q)
  PROVE  Used(q) = Used(p) /\ \A o : Owned(q, o) = Owned(p, o)
BY DEF SameOwners, Used, Owned

\* FreeInv, field by field
Blank(p) ==
  \A r \in Rec : p[r].ob = None =>
    /\ p[r].tp = None /\ p[r].snoop_on = None /\ p[r].snoop_by = None
    /\ p[r].input_to = FALSE /\ p[r].ed = FALSE

\* A record is free when all its fields are those of Free.
LEMMA FreeFields ==
  ASSUME NEW p \in Records
  PROVE  FreeInv(p) <=> Blank(p)
BY DEF FreeInv, Blank, Free, Records, Record

\* Snooping that ends makes no loop.
LEMMA LessLoops ==
  ASSUME NEW p, NEW q, NoLoop(p),
         \A x \in Rec : q[x].snoop_on \in {p[x].snoop_on, None}
  PROVE  NoLoop(q)
<1> SUFFICES ASSUME NEW S \in (SUBSET Rec) \ {{}}
             PROVE  \E r \in S : q[r].snoop_on \notin S
  BY DEF NoLoop
<1>1. PICK r \in S : p[r].snoop_on \notin S
  BY DEF NoLoop
<1>2. r \in Rec /\ None \notin S
  BY InteractiveAssumption
<1> QED BY <1>1, <1>2

\* Unsnooped() takes a pair of pointers away together.
LEMMA UnsnoopedKeeps ==
  ASSUME NEW p \in Records, NEW r \in Rec, SnoopInv(p), FreeInv(p)
  PROVE  SnoopInv(Unsnooped(p, r)) /\ FreeInv(Unsnooped(p, r))
<1> DEFINE q == Unsnooped(p, r)
<1>0. /\ q \in Records
      /\ SameOwners(p, q)
      /\ \A x \in Rec :
           /\ q[x].snoop_on = IF x = p[r].snoop_by THEN None ELSE p[x].snoop_on
           /\ q[x].snoop_by = IF x = r THEN None ELSE p[x].snoop_by
           /\ q[x].input_to = p[x].input_to
           /\ q[x].ed = p[x].ed
  BY UnsnoopedFields
<1> HIDE DEF q
<1>1. Used(q) = Used(p)
  BY <1>0, SameUsed
<1>2. PairedOn(p) /\ PairedBy(p) /\ NoLoop(p)
  BY DEF SnoopInv
<1>3. \A x \in Rec : /\ p[x].snoop_on \in Rec \cup {None}
                     /\ p[x].snoop_by \in Rec \cup {None}
  BY RecordTypes
<1>4. PairedOn(q)
  BY <1>0, <1>1, <1>2, <1>3 DEF PairedOn, PairedBy
<1>5. PairedBy(q)
  BY <1>0, <1>1, <1>2, <1>3 DEF PairedOn, PairedBy
<1>6. NoLoop(q)
  BY <1>0, <1>2, LessLoops
<1>7. FreeInv(q)
  <2>1. Blank(p)
    BY FreeFields
  <2>2. Blank(q)
    BY <1>0, <2>1 DEF Blank, SameOwners
  <2> QED BY <1>0, <2>2, FreeFields
<1> QED BY <1>4, <1>5, <1>6, <1>7 DEF SnoopInv, q

\* So does Unsnooping().
LEMMA UnsnoopingKeeps ==
  ASSUME NEW p \in Records, NEW r \in Rec, SnoopInv(p), FreeInv(p)
  PROVE  SnoopInv(Unsnooping(p, r)) /\ FreeInv(Unsnooping(p, r))
<1> DEFINE q == Unsnooping(p, r)
<1>0. /\ q \in Records
      /\ SameOwners(p, q)
      /\ \A x \in Rec :
           /\ q[x].snoop_on = IF x = r THEN None ELSE p[x].snoop_on
           /\ q[x].snoop_by = IF x = p[r].snoop_on THEN None ELSE p[x].snoop_by
           /\ q[x].input_to = p[x].input_to
           /\ q[x].ed = p[x].ed
  BY UnsnoopingFields
<1> HIDE DEF q
<1>1. Used(q) = Used(p)
  BY <1>0, SameUsed
<1>2. PairedOn(p) /\ PairedBy(p) /\ NoLoop(p)
  BY DEF SnoopInv
<1>3. \A x \in Rec : /\ p[x].snoop_on \in Rec \cup {None}
                     /\ p[x].snoop_by \in Rec \cup {None}
  BY RecordTypes
<1>4. PairedOn(q)
  BY <1>0, <1>1, <1>2, <1>3 DEF PairedOn, PairedBy
<1>5. PairedBy(q)
  BY <1>0, <1>1, <1>2, <1>3 DEF PairedOn, PairedBy
<1>6. NoLoop(q)
  BY <1>0, <1>2, LessLoops
<1>7. FreeInv(q)
  <2>1. Blank(p)
    BY FreeFields
  <2>2. Blank(q)
    BY <1>0, <2>1 DEF Blank, SameOwners
  <2> QED BY <1>0, <2>2, FreeFields
<1> QED BY <1>4, <1>5, <1>6, <1>7 DEF SnoopInv, q

\* The records without the one that remove_interactive() frees.
Dismissed(p, r) == [Unsnooping(Unsnooped(p, r), r) EXCEPT ![r] = Free]

\* Freeing a record leaves no pointer to it behind.
LEMMA DismissedKeeps ==
  ASSUME NEW p \in Records, NEW r \in Used(p), SnoopInv(p), FreeInv(p)
  PROVE  LET q == Dismissed(p, r)
         IN  /\ q \in Records
             /\ q[r] = Free
             /\ \A x \in Rec \ {r} : q[x].ob = p[x].ob /\ q[x].tp = p[x].tp
             /\ Used(q) = Used(p) \ {r}
             /\ SnoopInv(q) /\ FreeInv(q)
<1> DEFINE a == Unsnooped(p, r)
           b == Unsnooping(a, r)
           q == [b EXCEPT ![r] = Free]
<1>0. r \in Rec
  BY DEF Used
<1>1. /\ a \in Records /\ SameOwners(p, a) /\ SnoopInv(a) /\ FreeInv(a)
      /\ a[r].snoop_by = None
  BY <1>0, UnsnoopedFields, UnsnoopedKeeps
<1> HIDE DEF a
<1>2. /\ b \in Records /\ SameOwners(a, b) /\ SnoopInv(b) /\ FreeInv(b)
      /\ b[r].snoop_by = None /\ b[r].snoop_on = None
  BY <1>0, <1>1, UnsnoopingFields, UnsnoopingKeeps
<1> HIDE DEF b
<1>3. Free \in Record
  BY DEF Free, Record
<1>4. q \in Records /\ q[r] = Free /\ \A x \in Rec \ {r} : q[x] = b[x]
  BY <1>0, <1>2, <1>3 DEF Records
<1> HIDE DEF q
<1>5. \A x \in Rec \ {r} : q[x].ob = p[x].ob /\ q[x].tp = p[x].tp
  BY <1>1, <1>2, <1>4 DEF SameOwners
<1>6. Used(q) = Used(p) \ {r}
  BY <1>0, <1>4, <1>5 DEF Used, Free
<1>7. Used(b) = Used(p)
  BY <1>1, <1>2, SameUsed
<1>8. q[r].snoop_on = None /\ q[r].snoop_by = None /\ q[r].ob = None
  BY <1>4 DEF Free
<1>9. PairedOn(b) /\ PairedBy(b) /\ NoLoop(b)
  BY <1>2 DEF SnoopInv
<1>10. \A x \in Rec : /\ b[x].snoop_on \in Rec \cup {None}
                      /\ b[x].snoop_by \in Rec \cup {None}
  BY <1>2, RecordTypes
<1>11. PairedOn(q)
  BY <1>0, <1>2, <1>4, <1>6, <1>7, <1>8, <1>9, <1>10,
     InteractiveAssumption DEF PairedOn
<1>12. PairedBy(q)
  BY <1>0, <1>2, <1>4, <1>6, <1>7, <1>8, <1>9, <1>10,
     InteractiveAssumption DEF PairedBy
<1>13. NoLoop(q)
  BY <1>4, <1>8, <1>9, LessLoops
<1>14. FreeInv(q)
  BY <1>2, <1>4 DEF FreeInv
<1>15. Dismissed(p, r) = q
  BY DEF Dismissed, q, b, a
<1> QED BY <1>4, <1>5, <1>6, <1>11, <1>12, <1>13, <1>14, <1>15 DEF SnoopInv

\* SnoopsOn() of a table of records: closed under snoop_on.
Chain(p, r) ==
  {x \in Rec : \A S \in SUBSET Rec :
     r \in S /\ (\A y \in S : p[y].snoop_on \in S \cup {None}) => x \in S}

\* A new pair of pointers closes no loop, because the snooper is not found
\* along snoop_on from the snoopee.
LEMMA SnoopedKeeps ==
  ASSUME NEW p \in Records, SnoopInv(p), FreeInv(p),
         NEW by \in Used(p), NEW on \in Used(p), by \notin Chain(p, on)
  PROVE  LET q == [Unsnooped(Unsnooping(p, by), on) EXCEPT
                     ![on].snoop_by = by, ![by].snoop_on = on]
         IN  /\ q \in Records
             /\ SameOwners(p, q)
             /\ SnoopInv(q) /\ FreeInv(q)
<1> DEFINE a == Unsnooping(p, by)
           b == Unsnooped(a, on)
           q == [b EXCEPT ![on].snoop_by = by, ![by].snoop_on = on]
<1>0. by \in Rec /\ on \in Rec /\ None \notin Rec
  BY InteractiveAssumption DEF Used
<1>1. /\ a \in Records /\ SameOwners(p, a) /\ SnoopInv(a) /\ FreeInv(a)
      /\ \A x \in Rec :
           a[x].snoop_on = IF x = by THEN None ELSE p[x].snoop_on
  BY <1>0, UnsnoopingFields, UnsnoopingKeeps
<1> HIDE DEF a
<1>2. /\ b \in Records /\ SameOwners(a, b) /\ SnoopInv(b) /\ FreeInv(b)
      /\ b[on].snoop_by = None
      /\ \A x \in Rec :
           b[x].snoop_on = IF x = a[on].snoop_by THEN None ELSE a[x].snoop_on
  BY <1>0, <1>1, UnsnoopedFields, UnsnoopedKeeps
<1> HIDE DEF b
<1>3. q \in Records
  BY SMTT(60), <1>0, <1>2 DEF Records, Record
<1>4. \A x \in Rec :
        /\ q[x].ob = b[x].ob /\ q[x].tp = b[x].tp
        /\ q[x].snoop_on = IF x = by THEN on ELSE b[x].snoop_on
        /\ q[x].snoop_by = IF x = on THEN by ELSE b[x].snoop_by
        /\ q[x].input_to = b[x].input_to /\ q[x].ed = b[x].ed
  BY <1>0, <1>2 DEF Records, Record
<1> HIDE DEF q
<1>5. SameOwners(p, q)
  BY <1>1, <1>2, <1>4 DEF SameOwners
<1>6. Used(q) = Used(p) /\ Used(b) = Used(p)
  BY <1>1, <1>2, <1>5, SameUsed
<1>7. PairedOn(b) /\ PairedBy(b)
  BY <1>2 DEF SnoopInv
<1>8. b[by].snoop_on = None
  BY <1>0, <1>1, <1>2
<1>9. \A x \in Rec : /\ b[x].snoop_on \in Rec \cup {None}
                     /\ b[x].snoop_by \in Rec \cup {None}
  BY <1>2, RecordTypes
<1>10. PairedOn(q)
  BY <1>0, <1>2, <1>4, <1>6, <1>7, <1>8, <1>9 DEF PairedOn, PairedBy
<1>11. PairedBy(q)
  BY <1>0, <1>2, <1>4, <1>6, <1>7, <1>8, <1>9 DEF PairedOn, PairedBy
<1>12. NoLoop(q)
  <2> SUFFICES ASSUME NEW S \in (SUBSET Rec) \ {{}},
                      \A x \in S : q[x].snoop_on \in S
               PROVE  FALSE
    BY DEF NoLoop
  <2>0. None \notin S
    BY <1>0
  <2>1. \A x \in S \ {by} : p[x].snoop_on \in S
    BY <1>1, <1>2, <1>4, <2>0
  <2>2. NoLoop(p)
    BY DEF SnoopInv
  <2>3. by \in S
    BY <2>1, <2>2 DEF NoLoop
  <2>4. on \in S
    BY <1>4, <2>3
  <2> DEFINE T == S \cap Chain(p, on)
  <2>5. on \in Chain(p, on)
    BY <1>0 DEF Chain
  <2>6. T \in (SUBSET Rec) \ {{}}
    BY <2>4, <2>5
  <2>7. \A x \in Chain(p, on) :
          p[x].snoop_on \in Rec => p[x].snoop_on \in Chain(p, on)
    <3> SUFFICES ASSUME NEW x \in Chain(p, on), p[x].snoop_on \in Rec,
                        NEW U \in SUBSET Rec, on \in U,
                        \A y \in U : p[y].snoop_on \in U \cup {None}
                 PROVE  p[x].snoop_on \in U
      BY DEF Chain
    <3>1. x \in U
      BY DEF Chain
    <3> QED BY <1>0, <3>1
  <2>8. \A x \in T : p[x].snoop_on \in T
    BY <2>1, <2>7
  <2> QED BY <2>2, <2>6, <2>8 DEF NoLoop
<1>13. FreeInv(q)
  <2>1. \A x \in Rec : b[x].ob = None => x # by /\ x # on
    BY <1>6 DEF Used
  <2>2. Blank(b)
    BY <1>2, FreeFields
  <2>3. Blank(q)
    BY <1>4, <2>1, <2>2 DEF Blank
  <2> QED BY <1>3, <2>3, FreeFields
<1> QED BY <1>3, <1>5, <1>10, <1>11, <1>12, <1>13 DEF SnoopInv, q, b, a

-----------------------------------------------------------------------------
(***************************************************************************)
(* The operations under way.                                               *)
(***************************************************************************)

\* An operation that starts on top of others, and accepts no session.
LEMMA StackGrows ==
  ASSUME NEW st \in Seq(Operation), NEW g \in Operation, Shape(st),
         g.op \notin AcceptOps,
         Len(st) = 0 => g.op # "destruct",
         Len(st) > 0 => g.op \in {"removed", "destruct"}
  PROVE  /\ Append(st, g) \in Seq(Operation)
         /\ Shape(Append(st, g))
         /\ \A s : Accepts(Append(st, g), s) <=> Accepts(st, s)
         /\ \A n \in 1 .. Len(Append(st, g)) :
              Append(st, g)[n] = g \/ \E m \in 1 .. Len(st) :
                                        Append(st, g)[n] = st[m]
         /\ Len(Append(st, g)) > 0
<1> DEFINE t == Append(st, g)
<1>1. /\ t \in Seq(Operation) /\ Len(t) = Len(st) + 1
      /\ \A n \in 1 .. Len(st) : t[n] = st[n]
      /\ t[Len(st) + 1] = g /\ Len(st) \in Nat
  BY AppendProperties
<1> HIDE DEF t
<1>2. Shape(t)
  BY <1>1 DEF Shape
<1>3. \A s : Accepts(t, s) <=> Accepts(st, s)
  <2>1. CASE Len(st) = 0
    BY <1>1, <2>1 DEF Accepts
  <2>2. CASE Len(st) > 0
    BY <1>1, <2>2 DEF Accepts
  <2> QED BY <1>1, <2>1, <2>2
<1>4. \A n \in 1 .. Len(t) :
        t[n] = g \/ \E m \in 1 .. Len(st) : t[n] = st[m]
  BY <1>1
<1> QED BY <1>1, <1>2, <1>3, <1>4 DEF t

\* The operations that are left when the innermost ones end.
LEMMA StackShrinks ==
  ASSUME NEW st \in Seq(Operation), Shape(st), NEW n \in 0 .. Len(st)
  PROVE  /\ SubSeq(st, 1, n) \in Seq(Operation)
         /\ Len(SubSeq(st, 1, n)) = n
         /\ \A m \in 1 .. n : SubSeq(st, 1, n)[m] = st[m]
         /\ Shape(SubSeq(st, 1, n))
         /\ n > 0 => \A s : Accepts(SubSeq(st, 1, n), s) <=> Accepts(st, s)
<1>0. Len(st) \in Nat /\ \A m \in 1 .. Len(st) : st[m] \in Operation
  BY ElementOfSeq
<1> DEFINE t == SubSeq(st, 1, n)
<1>1. t \in Seq(Operation) /\ Len(t) = n /\ \A m \in 1 .. n : t[m] = st[m]
  BY <1>0, SubSeqProperties
<1> HIDE DEF t
<1>2. Shape(t)
  BY <1>0, <1>1 DEF Shape
<1>3. n > 0 => \A s : Accepts(t, s) <=> Accepts(st, s)
  BY <1>0, <1>1 DEF Accepts
<1> QED BY <1>1, <1>2, <1>3 DEF t

\* Sessions stay accounted for when other operations are under way, as long
\* as the session that was being accepted is, or is known to have failed.
LEMMA HeldStays ==
  ASSUME NEW p \in Records, NEW ses, NEW f, NEW h, NEW st, NEW tt,
         HeldInv(p, ses, f, st), f \subseteq h,
         \A r \in Used(p) : p[r].tp \in Sess,
         \A s \in Sess : Accepts(st, s) => Accepts(tt, s) \/ s \in h
  PROVE  HeldInv(p, ses, h, tt)
BY DEF HeldInv

\* The innermost operation and the ones below it
LEMMA TopAndPop ==
  ASSUME stack \in Seq(Operation), stack # <<>>, Shape(stack)
  PROVE  /\ Len(stack) \in Nat /\ Len(stack) > 0
         /\ Top \in Operation
         /\ Top.op \notin {"removed", "destruct"} => Len(stack) = 1
         /\ Top = stack[Len(stack)] /\ Pop = SubSeq(stack, 1, Len(stack) - 1)
<1>1. Len(stack) \in Nat /\ Len(stack) > 0
  BY EmptySeq
<1>2. Top \in Operation
  BY <1>1, ElementOfSeq DEF Top
<1>3. Top.op \notin {"removed", "destruct"} => Len(stack) = 1
  <2> DEFINE n == Len(stack)
  <2>1. n \in 1 .. Len(stack) /\ n \in Nat
    BY <1>1
  <2>2. n > 1 => stack[n].op \in {"removed", "destruct"}
    BY <2>1 DEF Shape
  <2>3. Top = stack[n]
    BY DEF Top
  <2> HIDE DEF n
  <2>4. Top.op \notin {"removed", "destruct"} => n = 1
    BY <2>1, <2>2, <2>3
  <2> QED BY <2>4 DEF n
<1>4. Top = stack[Len(stack)] /\ Pop = SubSeq(stack, 1, Len(stack) - 1)
  BY DEF Top, Pop
<1> QED BY <1>1, <1>2, <1>3, <1>4

\* The error contexts are outermost, so that an error leaves a part of the
\* operations under way.
LEMMA CaughtIsBelow ==
  ASSUME stack \in Seq(Operation), Shape(stack), NEW n \in CaughtAt
  PROVE  n \in 0 .. Len(stack)
<1>0. Len(stack) \in Nat /\ DOMAIN stack = 1 .. Len(stack)
  OBVIOUS
<1>1. CASE Contexts = {}
  BY <1>0, <1>1 DEF CaughtAt
<1>2. CASE Contexts # {}
  <2>1. Contexts = {1} /\ 1 \in 1 .. Len(stack)
    BY <1>0, <1>2 DEF Contexts, Shape
  <2>2. Innermost = 1
    BY <2>1 DEF Innermost
  <2> QED BY <1>0, <1>2, <2>1, <2>2 DEF CaughtAt
<1> QED BY <1>1, <1>2

\* An error leaves everything but the operations it drops and the sessions
\* that were being accepted, which are known as failed from then on.
LEMMA ErrorKeeps ==
  ASSUME Inv, Error, UNCHANGED <<object, ip, all_players, num_player, session>>
  PROVE  Inv'
<1> USE DEF Inv, Types
<1>1. PICK n \in CaughtAt :
        LET dropped == {stack[m] : m \in n + 1 .. Len(stack)}
        IN  /\ stack' = SubSeq(stack, 1, n)
            /\ failed' = failed \cup
                 {f.s : f \in {g \in dropped : g.op \in {"logon", "refused"}}}
  BY DEF Error
<1>2. n \in 0 .. Len(stack) /\ Len(stack) \in Nat
  BY CaughtIsBelow
<1>3. /\ stack' \in Seq(Operation) /\ Len(stack') = n /\ Shape(stack')
      /\ \A m \in 1 .. n : stack'[m] = stack[m]
      /\ n > 0 => \A s : Accepts(stack', s) <=> Accepts(stack, s)
  BY <1>1, <1>2, StackShrinks
<1>4. \A m \in 1 .. Len(stack) : stack[m] \in Operation
  BY ElementOfSeq
<1>5. FramesInv(object, ip, all_players, session, stack')
  BY <1>2, <1>3 DEF FramesInv
<1>6. failed' \subseteq Sess
  <2> SUFFICES ASSUME NEW m \in n + 1 .. Len(stack), stack[m].op \in AcceptOps
               PROVE  stack[m].s \in Sess
    BY <1>1 DEF AcceptOps
  <2>1. m \in 1 .. Len(stack)
    BY <1>2
  <2> QED BY <2>1 DEF FramesInv, FrameOK
<1>7. failed \subseteq failed'
  BY <1>1
<1>8. \A s \in Sess : Accepts(stack, s) => Accepts(stack', s) \/ s \in failed'
  <2> SUFFICES ASSUME NEW s \in Sess, Accepts(stack, s)
               PROVE  Accepts(stack', s) \/ s \in failed'
    OBVIOUS
  <2>1. CASE n > 0
    BY <1>3, <2>1
  <2>2. CASE n = 0
    <3>1. 1 \in n + 1 .. Len(stack)
      BY <1>2, <2>2 DEF Accepts
    <3>2. stack[1].op \in {"logon", "refused"} /\ stack[1].s = s
      BY DEF Accepts, AcceptOps
    <3> QED BY <1>1, <3>1, <3>2
  <2> QED BY <1>2, <2>1, <2>2
<1>9. \A r \in Used(ip) : ip[r].tp \in Sess
  BY DEF SessionInv
<1>10. HeldInv(ip, session, failed', stack')
  BY <1>7, <1>8, <1>9, HeldStays
<1>11. OwnerInv(object, ip, failed')
  BY <1>7 DEF OwnerInv
<1> QED BY <1>3, <1>5, <1>6, <1>10, <1>11

-----------------------------------------------------------------------------
(***************************************************************************)
(* Changes to records that keep their objects and sessions.                *)
(***************************************************************************)

\* The fields of objects and sessions have their types.
LEMMA FieldTypes ==
  ASSUME Types
  PROVE  /\ \A o \in Objects : /\ object[o] \in ObjectFields
                               /\ interactive(o) \in Rec \cup {None}
                               /\ object[o].refs \in Int
         /\ \A s \in Sess : session[s] \in Control
                            /\ session[s].ip \in Rec \cup {None}
         /\ \A i \in Slots : all_players[i] \in Rec \cup {None}
BY DEF Types, ObjectTable, ObjectFields, Sessions, Control, Table, interactive

\* Nothing but snooping itself depends on who snoops on whom, or on editors
\* and functions that wait for input.
LEMMA OwnersKeep ==
  ASSUME Inv, NEW q \in Records, SameOwners(ip, q)
  PROVE  /\ TableInv(q, all_players, num_player)
         /\ OwnerInv(object, q, failed)
         /\ CountInv(object, q)
         /\ SessionInv(q, session)
         /\ HeldInv(q, session, failed, stack)
         /\ FramesInv(object, q, all_players, session, stack)
<1> USE DEF Inv
<1>0. /\ \A o \in Objects : interactive(o) \in Rec \cup {None}
      /\ \A s \in Sess : session[s].ip \in Rec \cup {None}
      /\ \A i \in Slots : all_players[i] \in Rec \cup {None}
  BY FieldTypes
<1>1. Used(q) = Used(ip) /\ \A o : Owned(q, o) = Owned(ip, o)
  BY SameUsed
<1>2. \A x \in Rec : q[x].ob = ip[x].ob /\ q[x].tp = ip[x].tp
  BY DEF SameOwners
<1>3. \A x \in Used(ip) : x \in Rec
  BY DEF Used
<1>4. TableInv(q, all_players, num_player)
  BY <1>1, TableStays
<1>5. OwnerInv(object, q, failed)
  BY <1>0, <1>1, <1>2, <1>3 DEF OwnerInv, interactive, Objects
<1>6. CountInv(object, q)
  BY <1>1 DEF CountInv
<1>7. SessionInv(q, session)
  BY <1>0, <1>1, <1>2, <1>3 DEF SessionInv
<1>8. HeldInv(q, session, failed, stack)
  BY <1>1, <1>2, <1>3 DEF HeldInv
<1>9. FramesInv(object, q, all_players, session, stack)
  <2> SUFFICES ASSUME NEW n \in 1 .. Len(stack)
               PROVE  FrameOK(stack[n], object, q, all_players, session)
    BY DEF FramesInv
  <2>1. FrameOK(stack[n], object, ip, all_players, session)
    BY DEF FramesInv
  <2> QED BY <1>0, <1>1, <1>2, <1>3, <2>1 DEF FrameOK
<1> QED BY <1>4, <1>5, <1>6, <1>7, <1>8, <1>9

-----------------------------------------------------------------------------
(***************************************************************************)
(* remove_interactive().                                                   *)
(***************************************************************************)

\* What telnet_detach() returns, session by session.
LEMMA DetachFields ==
  ASSUME session \in Sessions, NEW s \in Sess
  PROVE  /\ telnet_detach(s) \in Sessions
         /\ \A x \in Sess \ {s} : telnet_detach(s)[x] = session[x]
         /\ telnet_detach(s)[s].open = session[s].open
         /\ telnet_detach(s)[s].ip = None
         /\ session[s].ip = None => telnet_detach(s)[s] = session[s]
         /\ session[s].ip # None => "C" \in telnet_detach(s)[s].enabled
<1>1. CASE session[s].ip = None
  BY <1>1 DEF telnet_detach
<1>2. CASE session[s].ip # None
  <2> DEFINE t == [session EXCEPT ![s].ip = None, ![s].enabled = @ \cup {"C"}]
  <2>1. telnet_detach(s) = t
    BY <1>2 DEF telnet_detach
  <2>2. session[s] \in Control /\ session[s].enabled \in SUBSET {"R", "C"}
    BY DEF Sessions, Control
  <2>3. t[s] = [open |-> session[s].open, ip |-> None,
                enabled |-> session[s].enabled \cup {"C"}]
    BY <2>2 DEF Sessions, Control
  <2>4. \A x \in Sess \ {s} : t[x] = session[x]
    BY DEF Sessions
  <2>5. t = [x \in Sess |-> t[x]]
    BY DEF Sessions
  <2> HIDE DEF t
  <2>6. t \in Sessions
    <3>1. session[s].open \in BOOLEAN
      BY <2>2 DEF Control
    <3>2. session[s].enabled \cup {"C"} \in SUBSET {"R", "C"}
      BY <2>2
    <3>3. t[s] \in Control
      BY <2>3, <3>1, <3>2 DEF Control
    <3> QED BY <2>4, <2>5, <3>3 DEF Sessions
  <2> QED BY <1>2, <2>1, <2>3, <2>4, <2>6
<1> QED BY <1>1, <1>2

\* The record of a live object is that object's.
LEMMA RecordOf ==
  ASSUME Inv, NEW o \in Obj, interactive(o) # None
  PROVE  /\ interactive(o) \in Used(ip) /\ ip[interactive(o)].ob = o
         /\ interactive(o) \in Rec
         /\ \A x \in Used(ip) : ip[x].ob = o => x = interactive(o)
<1> USE DEF Inv
<1>1. interactive(o) \in Rec
  BY FieldTypes DEF Objects
<1>2. ip[interactive(o)].ob = o
  BY DEF OwnerInv, interactive
<1>3. interactive(o) \in Used(ip)
  BY <1>1, <1>2, InteractiveAssumption DEF Used
<1>4. \A x \in Used(ip) : ip[x].ob = o => x = interactive(o)
  BY InteractiveAssumption DEF OwnerInv, interactive
<1> QED BY <1>1, <1>2, <1>3, <1>4

\* A record is dismissed whatever operations are under way: the stack gets
\* the operation that goes on afterwards, if any, and remove_interactive()
\* of the master object.
LEMMA DismissKeeps ==
  ASSUME Inv, NEW o \in Obj, interactive(o) # None, NEW st,
         \/ st = stack
         \/ stack # <<>> /\ st = Append(stack, Frame("destruct", o, None, 0)),
         Dismiss(o, st), UNCHANGED failed
  PROVE  Inv'
<1> USE DEF Inv, Types
<1> DEFINE r == interactive(o)
           s == ip[r].tp
<1>0. /\ ip' = Dismissed(ip, r)
      /\ session' = telnet_detach(s)
      /\ num_player' = num_player - 1
      /\ object' = [object EXCEPT ![o].interactive = None, ![o].refs = @ - 1]
      /\ all_players' = [i \in Slots |-> IF all_players[i] = r THEN None
                                         ELSE all_players[i]]
      /\ stack' = Append(st, Frame("removed", o, None, 0))
      /\ failed' = failed
  BY DEF Dismiss, Dismissed, SlotsWithout
<1>1. /\ r \in Used(ip) /\ r \in Rec /\ ip[r].ob = o
      /\ \A x \in Used(ip) : ip[x].ob = o => x = r
  BY RecordOf
<1>2. s \in Sess /\ session[s].open
  BY <1>1 DEF SessionInv
<1> HIDE DEF r, s
<1>3. /\ ip' \in Records /\ ip'[r] = Free
      /\ \A x \in Rec \ {r} : ip'[x].ob = ip[x].ob /\ ip'[x].tp = ip[x].tp
      /\ Used(ip') = Used(ip) \ {r}
      /\ SnoopInv(ip') /\ FreeInv(ip')
  BY <1>0, <1>1, DismissedKeeps
<1>4. /\ session' \in Sessions
      /\ \A x \in Sess \ {s} : session'[x] = session[x]
      /\ session'[s].open
      /\ session'[s].ip = None
      /\ session[s].ip = None => session'[s] = session[s]
      /\ session[s].ip # None => "C" \in session'[s].enabled
  BY <1>0, <1>2, DetachFields
<1>5. \A x \in Used(ip') : x \in Used(ip) /\ x # r /\ x \in Rec
  BY <1>3 DEF Used
<1>6. \A x \in Used(ip') : ip[x].tp \in Sess \ {s}
  BY <1>1, <1>5 DEF SessionInv, s
<1>7. object' \in ObjectTable
  BY <1>0, FieldTypes DEF ObjectTable, ObjectFields, Objects
<1>8. /\ object'[o].interactive = None /\ object'[o].is = object[o].is
      /\ object'[o].refs = object[o].refs - 1
      /\ \A x \in Objects \ {o} : object'[x] = object[x]
  BY <1>0 DEF ObjectTable, ObjectFields, Objects
<1>9. all_players' \in Table
  BY <1>0 DEF Table
<1>10. \A i \in Slots : all_players'[i] = IF all_players[i] = r THEN None
                                          ELSE all_players[i]
  BY <1>0
<1>11. TableInv(ip', all_players', num_player')
  BY <1>0, <1>1, <1>3, TableDrops
<1>12. OwnerInv(object', ip', failed')
  <2>1. ASSUME NEW x \in Used(ip')
        PROVE  \/ /\ ip'[x].ob \in Obj /\ object'[ip'[x].ob].is = "live"
                  /\ object'[ip'[x].ob].interactive = x
               \/ ip'[x].ob = Master /\ ip'[x].tp \in failed'
    <3>1. ip[x].ob # o /\ ip'[x].ob = ip[x].ob /\ ip'[x].tp = ip[x].tp
      BY <1>1, <1>3, <1>5, <2>1
    <3>2. \/ /\ ip[x].ob \in Obj /\ object[ip[x].ob].is = "live"
             /\ object[ip[x].ob].interactive = x
          \/ ip[x].ob = Master /\ ip[x].tp \in failed
      BY <1>5, <2>1 DEF OwnerInv
    <3> QED BY <1>0, <1>8, <3>1, <3>2 DEF Objects
  <2>2. ASSUME NEW y \in Obj, object'[y].interactive # None
        PROVE  ip'[object'[y].interactive].ob = y
    <3>1. y # o
      BY <1>8, <2>2
    <3>2. object'[y] = object[y]
      BY <1>8, <3>1 DEF Objects
    <3>3. ip[object[y].interactive].ob = y
      BY <2>2, <3>2 DEF OwnerInv
    <3>4. object[y].interactive \in Rec \ {r}
      BY <1>1, <2>2, <3>1, <3>2, <3>3, FieldTypes DEF Objects, interactive
    <3> QED BY <1>3, <3>2, <3>3, <3>4
  <2>3. object'[Master].is = "live"
    BY <1>8, InteractiveAssumption DEF OwnerInv, Objects
  <2> QED BY <2>1, <2>2, <2>3 DEF OwnerInv
<1>13. CountInv(object', ip')
  <2> SUFFICES ASSUME NEW x \in Objects
               PROVE  object'[x].refs = Cardinality(Owned(ip', x))
    BY DEF CountInv
  <2>1. object[x].refs = Cardinality(Owned(ip, x))
    BY DEF CountInv
  <2>2. x # None /\ Free.ob = None
    BY InteractiveAssumption DEF Objects, Free
  <2>3. CASE x = o
    <3>1. Owned(ip', x) = Owned(ip, x) \ {r} /\ r \in Owned(ip, x)
      BY <1>1, <1>3, <2>2, <2>3 DEF Owned
    <3>2. IsFiniteSet(Owned(ip, x))
      BY OwnedFinite DEF TableInv
    <3>3. Cardinality(Owned(ip, x) \ {r}) = Cardinality(Owned(ip, x)) - 1
      BY <3>1, <3>2, FS_RemoveElement
    <3> QED BY <1>8, <2>1, <2>3, <3>1, <3>3
  <2>4. CASE x # o
    <3>1. Owned(ip', x) = Owned(ip, x)
      BY <1>1, <1>3, <2>2, <2>4 DEF Owned
    <3> QED BY <1>8, <2>1, <2>4, <3>1
  <2> QED BY <2>3, <2>4
<1>14. SessionInv(ip', session')
  <2>1. ASSUME NEW x \in Used(ip')
        PROVE  /\ ip'[x].tp \in Sess
               /\ session'[ip'[x].tp].open
               /\ session'[ip'[x].tp].ip \in {x, None}
               /\ session'[ip'[x].tp].ip = None
                    => session'[ip'[x].tp].enabled = {}
               /\ ip'[x].ob = Master => session'[ip'[x].tp].ip = None
    <3>1. /\ x \in Used(ip) /\ ip'[x].tp = ip[x].tp /\ ip'[x].ob = ip[x].ob
          /\ session'[ip[x].tp] = session[ip[x].tp]
      BY <1>3, <1>4, <1>5, <1>6, <2>1
    <3> QED BY <3>1 DEF SessionInv
  <2>2. ASSUME NEW x \in Used(ip'), NEW y \in Used(ip'), ip'[x].tp = ip'[y].tp
        PROVE  x = y
    BY <1>3, <1>5, <2>2 DEF SessionInv
  <2>3. ASSUME NEW t \in Sess, session'[t].ip # None
        PROVE  ip'[session'[t].ip].tp = t
    <3>1. t # s
      BY <1>4, <2>3
    <3>2. session'[t] = session[t]
      BY <1>4, <3>1
    <3>3. ip[session[t].ip].tp = t
      BY <2>3, <3>2 DEF SessionInv
    <3>4. session[t].ip \in Rec \ {r}
      BY <2>3, <3>1, <3>2, <3>3, FieldTypes DEF s
    <3> QED BY <1>3, <3>2, <3>3, <3>4
  <2>4. ASSUME NEW t \in Sess, ~session'[t].open
        PROVE  session'[t] = Closed
    BY <1>4, <2>4 DEF SessionInv
  <2> QED BY <2>1, <2>2, <2>3, <2>4 DEF SessionInv
<1>15. HeldInv(ip', session', failed, stack)
  <2>1. ASSUME NEW t \in Sess, session'[t].open, session'[t].ip = None
        PROVE  "C" \in session'[t].enabled \/ Accepts(stack, t) \/ t \in failed
    BY <1>2, <1>4, <2>1 DEF HeldInv
  <2>2. ASSUME NEW x \in Used(ip'), session'[ip'[x].tp].ip = None
        PROVE  Accepts(stack, ip'[x].tp) \/ ip'[x].tp \in failed
    <3>1. /\ x \in Used(ip) /\ ip'[x].tp = ip[x].tp
          /\ session'[ip[x].tp] = session[ip[x].tp]
      BY <1>3, <1>4, <1>5, <1>6, <2>2
    <3> QED BY <2>2, <3>1 DEF HeldInv
  <2> QED BY <2>1, <2>2 DEF HeldInv
<1>16. FramesInv(object', ip', all_players', session', stack)
  <2> SUFFICES ASSUME NEW n \in 1 .. Len(stack)
               PROVE  FrameOK(stack[n], object', ip', all_players', session')
    BY DEF FramesInv
  <2> DEFINE g == stack[n]
  <2>1. FrameOK(g, object, ip, all_players, session)
    BY DEF FramesInv
  <2> HIDE DEF g
  <2>2. ASSUME g.op \in AcceptOps
        PROVE  /\ g.s \in Sess
               /\ session'[g.s].open /\ session'[g.s].ip = None
               /\ session'[g.s].enabled = {}
    <3>1. /\ g.s \in Sess /\ session[g.s].open
          /\ session[g.s].ip = None /\ session[g.s].enabled = {}
      BY <2>1, <2>2 DEF FrameOK
    <3>2. session'[g.s] = session[g.s]
      BY <1>4, <3>1
    <3> QED BY <3>1, <3>2
  <2>3. ASSUME g.op \in AcceptOps, NEW x \in Used(ip'), ip'[x].tp = g.s
        PROVE  g.op = "logon" /\ ip'[x].ob # Master /\ all_players'[g.i] = x
    <3>1. /\ x \in Used(ip) /\ ip'[x].tp = ip[x].tp /\ ip'[x].ob = ip[x].ob
          /\ x # r
      BY <1>3, <1>5, <2>3
    <3>2. g.op = "logon" /\ ip[x].ob # Master /\ all_players[g.i] = x
      BY <2>1, <2>3, <3>1 DEF FrameOK
    <3>3. g.i \in Slots
      BY <2>1, <3>2 DEF FrameOK
    <3> QED BY <1>10, <3>1, <3>2, <3>3
  <2>4. ASSUME g.op = "logon"
        PROVE  /\ g.i \in Slots
               /\ all_players'[g.i] # None => ip'[all_players'[g.i]].tp = g.s
    <3>1. /\ g.i \in Slots
          /\ all_players[g.i] # None => ip[all_players[g.i]].tp = g.s
      BY <2>1, <2>4 DEF FrameOK
    <3>2. all_players[g.i] \in Rec \cup {None}
      BY <3>1, FieldTypes
    <3> QED BY <1>3, <1>10, <3>1, <3>2
  <2>5. g.op = "refused" => g.i = 0
    BY <2>1 DEF FrameOK
  <2>6. g.op = "destruct" => g.ob \in Obj /\ object'[g.ob].interactive = None
    BY <1>8, <2>1 DEF FrameOK, Objects
  <2>7. FrameOK(g, object', ip', all_players', session')
    BY <2>2, <2>3, <2>4, <2>5, <2>6 DEF FrameOK
  <2> QED BY <2>7 DEF g
<1>17. /\ st \in Seq(Operation) /\ Shape(st)
       /\ HeldInv(ip', session', failed, st)
       /\ FramesInv(object', ip', all_players', session', st)
  <2>1. CASE st = stack
    BY <2>1, <1>15, <1>16
  <2>2. CASE stack # <<>> /\ st = Append(stack, Frame("destruct", o, None, 0))
    <3> DEFINE g == Frame("destruct", o, None, 0)
    <3>1. g \in Operation /\ g.op = "destruct" /\ g.ob = o
      BY InteractiveAssumption DEF Frame, Operation, Objects
    <3> HIDE DEF g
    <3>2. Len(stack) \in Nat /\ Len(stack) > 0
      BY <2>2, EmptySeq
    <3>3. /\ st \in Seq(Operation) /\ Shape(st)
          /\ \A t : Accepts(st, t) <=> Accepts(stack, t)
          /\ \A n \in 1 .. Len(st) : st[n] = g \/ \E m \in 1 .. Len(stack) :
                                                    st[n] = stack[m]
      BY <2>2, <3>1, <3>2, StackGrows DEF AcceptOps, g
    <3>4. FrameOK(g, object', ip', all_players', session')
      BY <1>8, <3>1 DEF FrameOK, AcceptOps
    <3>5. FramesInv(object', ip', all_players', session', st)
      BY <1>16, <3>3, <3>4 DEF FramesInv
    <3>6. HeldInv(ip', session', failed, st)
      BY <1>15, <3>3 DEF HeldInv
    <3> QED BY <3>3, <3>5, <3>6
  <2> QED BY <2>1, <2>2
<1>18. /\ stack' \in Seq(Operation) /\ Shape(stack')
       /\ HeldInv(ip', session', failed, stack')
       /\ FramesInv(object', ip', all_players', session', stack')
  <2> DEFINE g == Frame("removed", o, None, 0)
  <2>1. g \in Operation /\ g.op = "removed"
    BY InteractiveAssumption DEF Frame, Operation, Objects
  <2>2. stack' = Append(st, g)
    BY <1>0
  <2> HIDE DEF g
  <2>3. /\ stack' \in Seq(Operation) /\ Shape(stack')
        /\ \A t : Accepts(stack', t) <=> Accepts(st, t)
        /\ \A n \in 1 .. Len(stack') :
             stack'[n] = g \/ \E m \in 1 .. Len(st) : stack'[n] = st[m]
    BY <1>17, <2>1, <2>2, StackGrows DEF AcceptOps
  <2>4. FrameOK(g, object', ip', all_players', session')
    BY <2>1 DEF FrameOK, AcceptOps
  <2>5. FramesInv(object', ip', all_players', session', stack')
    BY <1>17, <2>3, <2>4 DEF FramesInv
  <2>6. HeldInv(ip', session', failed, stack')
    BY <1>17, <2>3 DEF HeldInv
  <2> QED BY <2>3, <2>5, <2>6
<1> QED BY <1>0, <1>3, <1>4, <1>7, <1>9, <1>11, <1>12, <1>13, <1>14, <1>18

-----------------------------------------------------------------------------
(***************************************************************************)
(* exec().                                                                 *)
(***************************************************************************)

\* exec() gives a record to another object, with its reference; nothing is
\* being destructed at that time.
LEMMA HandedKeeps ==
  ASSUME Inv, NEW o \in Live, NEW from \in Live, interactive(o) = None,
         interactive(from) # None, Len(stack) = 1, Handed(o, from),
         UNCHANGED <<all_players, num_player, session, failed, stack>>
  PROVE  Inv'
<1> USE DEF Inv, Types
<1> DEFINE r == interactive(from)
<1>0. /\ object' = [object EXCEPT ![o].interactive = r, ![o].refs = @ + 1,
                      ![from].interactive = None, ![from].refs = @ - 1]
      /\ ip' = [ip EXCEPT ![r].ob = o]
  BY DEF Handed
<1>1. /\ o \in Obj /\ from \in Obj /\ o # from /\ o # Master /\ o # None
      /\ object[o].is = "live" /\ o \in Objects /\ from \in Objects
  BY InteractiveAssumption DEF Live, Objects
<1>2. /\ r \in Used(ip) /\ r \in Rec /\ ip[r].ob = from
      /\ \A x \in Used(ip) : ip[x].ob = from => x = r
  BY <1>1, RecordOf
<1> HIDE DEF r
<1>3. \A x \in Used(ip) : ip[x].ob # o
  BY <1>1, InteractiveAssumption DEF OwnerInv, interactive, Used
<1>4. object' \in ObjectTable
  BY <1>0, <1>1, <1>2, FieldTypes DEF ObjectTable, ObjectFields
<1>5. /\ object'[o].interactive = r /\ object'[o].is = "live"
      /\ object'[o].refs = object[o].refs + 1
      /\ object'[from].interactive = None
      /\ object'[from].refs = object[from].refs - 1
      /\ \A x \in Objects \ {o, from} : object'[x] = object[x]
  BY <1>0, <1>1, FieldTypes DEF ObjectTable, ObjectFields
<1>6. ip' \in Records
  BY SMTT(60), <1>0, <1>1, <1>2 DEF Records, Record
<1>7. \A x \in Rec :
        /\ ip'[x].ob = IF x = r THEN o ELSE ip[x].ob
        /\ ip'[x].tp = ip[x].tp
        /\ ip'[x].snoop_on = ip[x].snoop_on /\ ip'[x].snoop_by = ip[x].snoop_by
        /\ x # r => ip'[x] = ip[x]
  BY <1>0, <1>1, <1>2 DEF Records, Record
<1>8. Used(ip') = Used(ip)
  BY <1>1, <1>2, <1>7 DEF Used
<1>9. \A x \in Used(ip) : x \in Rec
  BY DEF Used
<1>10. FreeInv(ip')
  BY <1>1, <1>2, <1>7 DEF FreeInv
<1>11. TableInv(ip', all_players, num_player)
  BY <1>8, TableStays
<1>12. SnoopInv(ip')
  <2>1. \A x \in Rec : /\ ip[x].snoop_on \in Rec \cup {None}
                       /\ ip[x].snoop_by \in Rec \cup {None}
    BY RecordTypes
  <2>2. PairedOn(ip')
    BY <1>7, <1>8, <2>1 DEF SnoopInv, PairedOn
  <2>3. PairedBy(ip')
    BY <1>7, <1>8, <2>1 DEF SnoopInv, PairedBy
  <2>4. NoLoop(ip')
    BY <1>7, LessLoops DEF SnoopInv
  <2> QED BY <2>2, <2>3, <2>4 DEF SnoopInv
<1>13. OwnerInv(object', ip', failed)
  <2>1. ASSUME NEW x \in Used(ip')
        PROVE  \/ /\ ip'[x].ob \in Obj /\ object'[ip'[x].ob].is = "live"
                  /\ object'[ip'[x].ob].interactive = x
               \/ ip'[x].ob = Master /\ ip'[x].tp \in failed
    <3>1. CASE x = r
      BY <1>1, <1>2, <1>5, <1>7, <3>1
    <3>2. CASE x # r
      <4>1. x \in Used(ip) /\ x \in Rec /\ ip[x].ob # o /\ ip[x].ob # from
        BY <1>2, <1>3, <1>8, <1>9, <3>2
      <4>2. \/ /\ ip[x].ob \in Obj /\ object[ip[x].ob].is = "live"
               /\ object[ip[x].ob].interactive = x
            \/ ip[x].ob = Master /\ ip[x].tp \in failed
        BY <4>1 DEF OwnerInv
      <4> QED BY <1>5, <1>7, <3>2, <4>1, <4>2 DEF Objects
    <3> QED BY <3>1, <3>2
  <2>2. ASSUME NEW y \in Obj, object'[y].interactive # None
        PROVE  ip'[object'[y].interactive].ob = y
    <3>1. CASE y = o
      BY <1>2, <1>5, <1>7, <3>1
    <3>2. CASE y # o
      <4>1. y # from /\ object'[y] = object[y]
        BY <1>5, <2>2, <3>2 DEF Objects
      <4>2. ip[object[y].interactive].ob = y
        BY <2>2, <4>1 DEF OwnerInv
      <4>3. object[y].interactive \in Rec \ {r}
        BY <1>2, <2>2, <4>1, <4>2, FieldTypes DEF Objects, interactive
      <4> QED BY <1>7, <4>1, <4>2, <4>3
    <3> QED BY <3>1, <3>2
  <2>3. object'[Master].is = "live"
    BY <1>1, <1>5, InteractiveAssumption DEF OwnerInv, Objects
  <2> QED BY <2>1, <2>2, <2>3 DEF OwnerInv
<1>14. CountInv(object', ip')
  <2> SUFFICES ASSUME NEW x \in Objects
               PROVE  object'[x].refs = Cardinality(Owned(ip', x))
    BY DEF CountInv
  <2>1. object[x].refs = Cardinality(Owned(ip, x))
    BY DEF CountInv
  <2>2. x # None /\ IsFiniteSet(Owned(ip, x))
    BY InteractiveAssumption, OwnedFinite DEF Objects, TableInv
  <2>3. CASE x = o
    <3>1. Owned(ip', x) = Owned(ip, x) \cup {r} /\ r \notin Owned(ip, x)
      BY <1>1, <1>2, <1>7, <2>3 DEF Owned
    <3>2. Cardinality(Owned(ip, x) \cup {r}) = Cardinality(Owned(ip, x)) + 1
      BY <2>2, <3>1, FS_AddElement
    <3> QED BY <1>5, <2>1, <2>3, <3>1, <3>2
  <2>4. CASE x = from
    <3>1. Owned(ip', x) = Owned(ip, x) \ {r} /\ r \in Owned(ip, x)
      BY <1>1, <1>2, <1>7, <2>4 DEF Owned
    <3>2. Cardinality(Owned(ip, x) \ {r}) = Cardinality(Owned(ip, x)) - 1
      BY <2>2, <3>1, FS_RemoveElement
    <3> QED BY <1>5, <2>1, <2>4, <3>1, <3>2
  <2>5. CASE x \notin {o, from}
    <3>1. Owned(ip', x) = Owned(ip, x)
      BY <1>2, <1>7, <2>5 DEF Owned
    <3> QED BY <1>5, <2>1, <2>5, <3>1
  <2> QED BY <2>3, <2>4, <2>5
<1>15. SessionInv(ip', session)
  <2>1. \A t \in Sess : session[t].ip \in Rec \cup {None}
    BY FieldTypes
  <2> QED BY <1>1, <1>7, <1>8, <1>9, <2>1 DEF SessionInv
<1>16. HeldInv(ip', session, failed, stack)
  BY <1>7, <1>8, <1>9 DEF HeldInv
<1>17. FramesInv(object', ip', all_players, session, stack)
  <2> SUFFICES ASSUME NEW n \in 1 .. Len(stack)
               PROVE  FrameOK(stack[n], object', ip', all_players, session)
    BY DEF FramesInv
  <2>1. n = 1 /\ stack[n].op # "destruct"
    BY DEF Shape
  <2>2. FrameOK(stack[n], object, ip, all_players, session)
    BY DEF FramesInv
  <2>3. \A i \in Slots : all_players[i] \in Rec \cup {None}
    BY FieldTypes
  <2> HIDE DEF Inv, Types
  <2> QED BY <1>1, <1>7, <1>8, <1>9, <2>1, <2>2, <2>3 DEF FrameOK
<1> QED BY <1>4, <1>6, <1>10, <1>11, <1>12, <1>13, <1>14, <1>15, <1>16, <1>17

-----------------------------------------------------------------------------
(***************************************************************************)
(* Sessions.                                                               *)
(***************************************************************************)

\* Raw input only changes what an attached session waits for.
LEMMA SessionsKeep ==
  ASSUME Inv, NEW ses \in Sessions, NEW s \in Sess, session[s].ip # None,
         \A x \in Sess \ {s} : ses[x] = session[x],
         ses[s].open = session[s].open, ses[s].ip = session[s].ip
  PROVE  /\ SessionInv(ip, ses)
         /\ HeldInv(ip, ses, failed, stack)
         /\ FramesInv(object, ip, all_players, ses, stack)
<1> USE DEF Inv, Types
<1>1. session[s].open
  BY DEF SessionInv, Closed
<1>2. \A x \in Sess : ses[x].open = session[x].open /\ ses[x].ip = session[x].ip
  OBVIOUS
<1>3. SessionInv(ip, ses)
  BY SMTT(60), <1>1, <1>2 DEF SessionInv
<1>4. HeldInv(ip, ses, failed, stack)
  BY <1>2 DEF HeldInv, SessionInv
<1>5. FramesInv(object, ip, all_players, ses, stack)
  <2> SUFFICES ASSUME NEW n \in 1 .. Len(stack)
               PROVE  FrameOK(stack[n], object, ip, all_players, ses)
    BY DEF FramesInv
  <2>1. FrameOK(stack[n], object, ip, all_players, session)
    BY DEF FramesInv
  <2>2. stack[n].op \in AcceptOps =>
          stack[n].s \in Sess /\ session[stack[n].s].ip = None
    BY <2>1 DEF FrameOK
  <2> QED BY <2>1, <2>2 DEF FrameOK
<1> QED BY <1>3, <1>4, <1>5

\* A session that belongs to no record is closed or attached to the record
\* that is its own; nothing is under way afterwards.
LEMMA SessionEnds ==
  ASSUME Inv, NEW ses \in Sessions, NEW s \in Sess,
         \A x \in Sess \ {s} : ses[x] = session[x],
         session[s].ip = None,
         \/ ses[s] = Closed /\ \A r \in Used(ip) : ip[r].tp # s
         \/ /\ ses[s].open /\ ses[s].ip \in Used(ip)
            /\ ip[ses[s].ip].tp = s /\ ip[ses[s].ip].ob # Master,
         \A t \in Sess \ {s} : ~Accepts(stack, t)
  PROVE  SessionInv(ip, ses) /\ HeldInv(ip, ses, failed, <<>>)
<1> USE DEF Inv, Types
<1>0. None \notin Used(ip) /\ \A x \in Used(ip) : x \in Rec
  BY InteractiveAssumption DEF Used
<1>1. CASE ses[s] = Closed /\ \A r \in Used(ip) : ip[r].tp # s
  <2>1. ~ses[s].open /\ ses[s].ip = None
    BY <1>1 DEF Closed
  <2>2. SessionInv(ip, ses)
    <3>1. ASSUME NEW r \in Used(ip)
          PROVE  /\ ip[r].tp \in Sess /\ ses[ip[r].tp].open
                 /\ ses[ip[r].tp].ip \in {r, None}
                 /\ ses[ip[r].tp].ip = None => ses[ip[r].tp].enabled = {}
                 /\ ip[r].ob = Master => ses[ip[r].tp].ip = None
      <4>1. ip[r].tp \in Sess /\ ses[ip[r].tp] = session[ip[r].tp]
        BY <1>1, <3>1 DEF SessionInv
      <4> QED BY <3>1, <4>1 DEF SessionInv
    <3>2. \A r, q \in Used(ip) : ip[r].tp = ip[q].tp => r = q
      BY DEF SessionInv
    <3>3. \A t \in Sess : ses[t].ip # None => ip[ses[t].ip].tp = t
      BY <2>1 DEF SessionInv
    <3>4. \A t \in Sess : ~ses[t].open => ses[t] = Closed
      BY <1>1 DEF SessionInv
    <3> QED BY <3>1, <3>2, <3>3, <3>4 DEF SessionInv
  <2>3. HeldInv(ip, ses, failed, <<>>)
    BY <1>1, <2>1 DEF HeldInv, SessionInv
  <2> QED BY <2>2, <2>3
<1>2. CASE /\ ses[s].open /\ ses[s].ip \in Used(ip)
           /\ ip[ses[s].ip].tp = s /\ ip[ses[s].ip].ob # Master
  <2>1. ses[s].ip # None
    BY <1>0, <1>2
  <2>2. SessionInv(ip, ses)
    <3>1. ASSUME NEW r \in Used(ip)
          PROVE  /\ ip[r].tp \in Sess /\ ses[ip[r].tp].open
                 /\ ses[ip[r].tp].ip \in {r, None}
                 /\ ses[ip[r].tp].ip = None => ses[ip[r].tp].enabled = {}
                 /\ ip[r].ob = Master => ses[ip[r].tp].ip = None
      <4>1. CASE ip[r].tp = s
        <5>1. r = ses[s].ip
          BY <1>2, <3>1, <4>1 DEF SessionInv
        <5> QED BY <1>2, <2>1, <4>1, <5>1
      <4>2. CASE ip[r].tp # s
        BY SMTT(60), <3>1, <4>2 DEF SessionInv
      <4> QED BY <4>1, <4>2
    <3>2. \A r, q \in Used(ip) : ip[r].tp = ip[q].tp => r = q
      BY DEF SessionInv
    <3>3. \A t \in Sess : ses[t].ip # None => ip[ses[t].ip].tp = t
      BY <1>2 DEF SessionInv
    <3>4. \A t \in Sess : ~ses[t].open => ses[t] = Closed
      BY <1>2 DEF SessionInv
    <3> QED BY <3>1, <3>2, <3>3, <3>4 DEF SessionInv
  <2>3. HeldInv(ip, ses, failed, <<>>)
    BY <1>2, <2>1 DEF HeldInv, SessionInv
  <2> QED BY <2>2, <2>3
<1> QED BY <1>1, <1>2

-----------------------------------------------------------------------------
(***************************************************************************)
(* telnet_accept() and new_player().                                       *)
(***************************************************************************)

\* Before a session is accepted no record belongs to it.
LEMMA ClosedIsFree ==
  ASSUME Inv, NEW s \in Sess, ~session[s].open
  PROVE  session[s] = Closed /\ \A r \in Used(ip) : ip[r].tp # s
BY DEF Inv, SessionInv

\* Record r is a new one of object o and session s.
Added(p, q, r, o, s) ==
  /\ q \in Records
  /\ q[r].ob = o /\ q[r].tp = s
  /\ q[r].snoop_on = None /\ q[r].snoop_by = None
  /\ \A x \in Rec \ {r} : q[x] = p[x]

\* What new_player() puts into a record.
LEMMA NewRecordFields ==
  ASSUME NEW o \in Objects, NEW s \in Sess
  PROVE  /\ NewRecord(o, s) \in Record
         /\ NewRecord(o, s).ob = o /\ NewRecord(o, s).tp = s
         /\ NewRecord(o, s).snoop_on = None /\ NewRecord(o, s).snoop_by = None
BY DEF NewRecord, Free, Record

\* So it adds a record.
LEMMA NewRecordAdds ==
  ASSUME NEW p \in Records, NEW r \in Rec, NEW o \in Objects, NEW s \in Sess
  PROVE  Added(p, [p EXCEPT ![r] = NewRecord(o, s)], r, o, s)
BY NewRecordFields DEF Added, Records

\* Session s has been opened, and waits for nothing.
Opened(ses, t, s) ==
  /\ t \in Sessions
  /\ t[s].open /\ t[s].ip = None /\ t[s].enabled = {}
  /\ \A x \in Sess \ {s} : t[x] = ses[x]

\* telnet_accept() opens a session that was closed.
LEMMA OpenedFields ==
  ASSUME NEW ses \in Sessions, NEW s \in Sess, ses[s] = Closed
  PROVE  Opened(ses, [ses EXCEPT ![s].open = TRUE], s)
<1> DEFINE t == [ses EXCEPT ![s].open = TRUE]
<1>1. t \in Sessions
  BY DEF Sessions, Control
<1>2. \A x \in Sess \ {s} : t[x] = ses[x]
  BY DEF Sessions
<1>3. t[s].open /\ t[s].ip = ses[s].ip /\ t[s].enabled = ses[s].enabled
  BY DEF Sessions, Control
<1>4. ses[s].ip = None /\ ses[s].enabled = {}
  BY DEF Closed
<1> HIDE DEF t
<1>5. Opened(ses, t, s)
  BY <1>1, <1>2, <1>3, <1>4 DEF Opened
<1> QED BY <1>5 DEF t

\* A record that connect() is about to give to object o.
LEMMA NewKeeps ==
  ASSUME Inv, NEW s \in Sess, ~session[s].open, NEW r \in Rec \ Used(ip),
         NEW o \in Objects, NEW i \in Slots, all_players[i] = None,
         NEW q, Added(ip, q, r, o, s), NEW ses, Opened(session, ses, s)
  PROVE  /\ Used(q) = Used(ip) \cup {r}
         /\ FreeInv(q)
         /\ TableInv(q, [all_players EXCEPT ![i] = r], num_player + 1)
         /\ SnoopInv(q) /\ SessionInv(q, ses)
<1>1. /\ ip \in Records /\ session \in Sessions /\ all_players \in Table
      /\ num_player \in Int /\ FreeInv(ip) /\ SnoopInv(ip)
      /\ TableInv(ip, all_players, num_player) /\ SessionInv(ip, session)
  BY DEF Inv, Types
<1>2. o # None /\ None \notin Rec /\ ip[r] = Free
  BY <1>1, InteractiveAssumption DEF Objects, Used, FreeInv
<1>3. session[s] = Closed /\ \A x \in Used(ip) : ip[x].tp # s
  BY ClosedIsFree
<1>4. /\ q \in Records /\ q[r].ob = o /\ q[r].tp = s
      /\ q[r].snoop_on = None /\ q[r].snoop_by = None
      /\ \A x \in Rec \ {r} : q[x] = ip[x]
  BY DEF Added
<1>5. /\ ses[s].open /\ ses[s].ip = None /\ ses[s].enabled = {}
      /\ \A x \in Sess \ {s} : ses[x] = session[x]
  BY DEF Opened
<1>6. Used(q) = Used(ip) \cup {r}
  BY <1>2, <1>4 DEF Used
<1>7. FreeInv(q)
  BY <1>1, <1>2, <1>4 DEF FreeInv
<1>8. TableInv(q, [all_players EXCEPT ![i] = r], num_player + 1)
  BY <1>1, <1>4, <1>6, TableAdds
<1>9. SnoopInv(q)
  <2>1. \A x \in Rec : /\ ip[x].snoop_on \in Rec \cup {None}
                       /\ ip[x].snoop_by \in Rec \cup {None}
    BY <1>1, RecordTypes
  <2>2. \A x \in Rec : /\ q[x].snoop_on = ip[x].snoop_on
                       /\ q[x].snoop_by = ip[x].snoop_by
    BY <1>2, <1>4 DEF Free
  <2>3. PairedOn(q)
    BY <1>1, <1>6, <2>1, <2>2 DEF SnoopInv, PairedOn
  <2>4. PairedBy(q)
    BY <1>1, <1>6, <2>1, <2>2 DEF SnoopInv, PairedBy
  <2>5. NoLoop(q)
    BY <1>1, <2>2, LessLoops DEF SnoopInv
  <2> QED BY <2>3, <2>4, <2>5 DEF SnoopInv
<1>10. SessionInv(q, ses)
  <2>0. \A x \in Used(ip) : x \in Rec \ {r}
    BY DEF Used
  <2>1. ASSUME NEW x \in Used(q)
        PROVE  /\ q[x].tp \in Sess /\ ses[q[x].tp].open
               /\ ses[q[x].tp].ip \in {x, None}
               /\ ses[q[x].tp].ip = None => ses[q[x].tp].enabled = {}
               /\ q[x].ob = Master => ses[q[x].tp].ip = None
    <3>1. CASE x = r
      BY <1>4, <1>5, <3>1
    <3>2. CASE x # r
      <4>1. /\ x \in Used(ip) /\ q[x] = ip[x] /\ ip[x].tp \in Sess
            /\ ses[ip[x].tp] = session[ip[x].tp]
        BY <1>1, <1>3, <1>4, <1>5, <1>6, <2>0, <2>1, <3>2 DEF SessionInv
      <4> QED BY <1>1, <4>1 DEF SessionInv
    <3> QED BY <3>1, <3>2
  <2>2. \A x, y \in Used(q) : q[x].tp = q[y].tp => x = y
    <3>1. \A x \in Used(ip) : q[x].tp = ip[x].tp /\ q[x].tp # s
      BY <1>3, <1>4, <2>0
    <3> QED BY <1>1, <1>4, <1>6, <3>1 DEF SessionInv
  <2>3. \A t \in Sess : ses[t].ip # None => q[ses[t].ip].tp = t
    <3> SUFFICES ASSUME NEW t \in Sess, ses[t].ip # None
                 PROVE  q[ses[t].ip].tp = t
      OBVIOUS
    <3>1. t # s
      BY <1>5
    <3>2. ses[t] = session[t] /\ session[t].ip \in Rec
      BY <1>5, <3>1, FieldTypes DEF Inv
    <3>3. ip[session[t].ip].tp = t
      BY <1>1, <3>2 DEF SessionInv
    <3>4. session[t].ip # r
      BY <1>2, <3>3, InteractiveAssumption DEF Free
    <3> QED BY <1>4, <3>2, <3>3, <3>4
  <2>4. \A t \in Sess : ~ses[t].open => ses[t] = Closed
    BY <1>1, <1>5 DEF SessionInv
  <2> QED BY <2>1, <2>2, <2>3, <2>4 DEF SessionInv
<1> QED BY <1>6, <1>7, <1>8, <1>9, <1>10

\* One more record of object o: its reference is counted.
LEMMA CountAdds ==
  ASSUME NEW p, NEW q, IsFiniteSet(Used(p)), NEW r \in Rec, r \notin Used(p),
         NEW o \in Objects, q[r].ob = o, \A x \in Rec \ {r} : q[x] = p[x]
  PROVE  /\ Cardinality(Owned(q, o)) = Cardinality(Owned(p, o)) + 1
         /\ \A x \in Objects \ {o} : Owned(q, x) = Owned(p, x)
<1>0. p[r].ob = None /\ None \notin Objects
  BY InteractiveAssumption DEF Used, Objects
<1>1. Owned(q, o) = Owned(p, o) \cup {r} /\ r \notin Owned(p, o)
  BY <1>0 DEF Owned
<1>2. IsFiniteSet(Owned(p, o))
  BY OwnedFinite
<1>3. Cardinality(Owned(p, o) \cup {r}) = Cardinality(Owned(p, o)) + 1
  BY <1>1, <1>2, FS_AddElement
<1>4. \A x \in Objects \ {o} : Owned(q, x) = Owned(p, x)
  BY <1>0 DEF Owned
<1> QED BY <1>1, <1>3, <1>4

\* The only operation under way
LEMMA OneFrame ==
  ASSUME NEW g \in Operation, g.op # "destruct"
  PROVE  /\ <<g>> \in Seq(Operation) /\ Len(<<g>>) = 1 /\ <<g>>[1] = g
         /\ Shape(<<g>>)
         /\ \A s : Accepts(<<g>>, s) <=> g.op \in AcceptOps /\ g.s = s
         /\ \A ob, p, a, ses :
              FramesInv(ob, p, a, ses, <<g>>) <=> FrameOK(g, ob, p, a, ses)
<1>1. <<g>> \in Seq(Operation) /\ Len(<<g>>) = 1 /\ <<g>>[1] = g
  OBVIOUS
<1>2. 1 .. 1 = {1}
  OBVIOUS
<1>3. Shape(<<g>>)
  BY <1>1 DEF Shape
<1>4. \A s : Accepts(<<g>>, s) <=> g.op \in AcceptOps /\ g.s = s
  BY <1>1 DEF Accepts
<1>5. \A ob, p, a, ses :
        FramesInv(ob, p, a, ses, <<g>>) <=> FrameOK(g, ob, p, a, ses)
  BY <1>1, <1>2 DEF FramesInv
<1> QED BY <1>1, <1>3, <1>4, <1>5

\* Nothing is under way
LEMMA NoFrame ==
  /\ <<>> \in Seq(Operation) /\ Shape(<<>>)
  /\ \A s : ~Accepts(<<>>, s)
  /\ \A ob, p, a, ses : FramesInv(ob, p, a, ses, <<>>)
<1>1. <<>> \in Seq(Operation) /\ Len(<<>>) = 0
  OBVIOUS
<1> QED BY <1>1 DEF Shape, Accepts, FramesInv

\* A session that has just been opened: its records, if any, are those that
\* belong to the operation under way or it is known as failed.
LEMMA HeldOpened ==
  ASSUME Inv, stack = <<>>, NEW s \in Sess, ~session[s].open,
         NEW q, NEW ses, Opened(session, ses, s), NEW f, failed \subseteq f,
         NEW st, Accepts(st, s) \/ s \in f,
         \A x \in Used(q) : q[x].tp # s => x \in Used(ip) /\ q[x] = ip[x]
  PROVE  HeldInv(q, ses, f, st)
<1>0. /\ \A x \in Sess \ {s} : ses[x] = session[x]
      /\ HeldInv(ip, session, failed, stack) /\ SessionInv(ip, session)
  BY DEF Inv, Opened
<1>1. \A t : ~Accepts(stack, t)
  BY NoFrame
<1>2. ASSUME NEW t \in Sess, ses[t].open, ses[t].ip = None
      PROVE  "C" \in ses[t].enabled \/ Accepts(st, t) \/ t \in f
  <2>1. CASE t = s
    BY <2>1
  <2>2. CASE t # s
    BY <1>0, <1>1, <1>2, <2>2 DEF HeldInv
  <2> QED BY <2>1, <2>2
<1>3. ASSUME NEW x \in Used(q), ses[q[x].tp].ip = None
      PROVE  Accepts(st, q[x].tp) \/ q[x].tp \in f
  <2>1. CASE q[x].tp = s
    BY <2>1
  <2>2. CASE q[x].tp # s
    <3>1. x \in Used(ip) /\ q[x] = ip[x]
      BY <1>3, <2>2
    <3>2. ip[x].tp \in Sess \ {s}
      BY <1>0, <2>2, <3>1 DEF SessionInv
    <3> QED BY <1>0, <1>1, <1>3, <3>1, <3>2 DEF HeldInv
  <2> QED BY <2>1, <2>2
<1> QED BY <1>2, <1>3 DEF HeldInv

\* An object that is fresh has no records.
LEMMA FreshIsUnowned ==
  ASSUME Inv, NEW o \in Obj, object[o].is # "live"
  PROVE  interactive(o) = None /\ Owned(ip, o) = {} /\ object[o].refs = 0
<1> USE DEF Inv, Types
<1>1. o \in Objects /\ o # None /\ o # Master
  BY InteractiveAssumption DEF Objects
<1>2. Owned(ip, o) = {}
  BY <1>1 DEF Owned, Used, OwnerInv
<1>3. interactive(o) = None
  BY <1>1, <1>2, FieldTypes DEF Owned, OwnerInv, interactive
<1>4. object[o].refs = 0
  BY <1>1, <1>2, FS_EmptySet DEF CountInv
<1> QED BY <1>2, <1>3, <1>4

\* connect() has given the record to a new object, and logon() is called.
LEMMA LogonKeeps ==
  ASSUME Inv, stack = <<>>, NEW s \in Sess, ~session[s].open,
         NEW r \in Rec \ Used(ip), NEW o \in Obj, object[o].is = "fresh",
         NEW i \in Slots, all_players[i] = None,
         object' = [object EXCEPT
           ![o] = [is |-> "live", interactive |-> r, refs |-> 1],
           ![Master].interactive = None],
         Added(ip, ip', r, o, s), Opened(session, session', s),
         stack' = <<Frame("logon", o, s, i)>>,
         all_players' = [all_players EXCEPT ![i] = r],
         num_player' = num_player + 1, failed' = failed
  PROVE  Inv'
<1>1. /\ object \in ObjectTable /\ ip \in Records /\ all_players \in Table
      /\ num_player \in Int /\ failed \subseteq Sess
      /\ OwnerInv(object, ip, failed) /\ CountInv(object, ip)
      /\ TableInv(ip, all_players, num_player)
  BY DEF Inv, Types
<1>2. /\ o \in Objects /\ Master \in Objects /\ o # Master /\ o # None
      /\ None \notin Rec
  BY InteractiveAssumption DEF Objects
<1>3. /\ Used(ip') = Used(ip) \cup {r} /\ FreeInv(ip')
      /\ TableInv(ip', all_players', num_player')
      /\ SnoopInv(ip') /\ SessionInv(ip', session')
  BY <1>2, NewKeeps
<1>4. /\ ip' \in Records /\ ip'[r].ob = o /\ ip'[r].tp = s
      /\ \A x \in Rec \ {r} : ip'[x] = ip[x]
      /\ session' \in Sessions /\ session'[s].open /\ session'[s].ip = None
      /\ session'[s].enabled = {}
  BY DEF Added, Opened
<1>5. object' \in ObjectTable
  BY <1>1, <1>2 DEF ObjectTable, ObjectFields
<1>6. /\ object'[o].is = "live" /\ object'[o].interactive = r
      /\ object'[o].refs = 1 /\ object'[Master].refs = object[Master].refs
      /\ object'[Master].is = object[Master].is
      /\ \A x \in Objects \ {o, Master} : object'[x] = object[x]
  BY <1>1, <1>2 DEF ObjectTable, ObjectFields
<1>7. all_players' \in Table /\ all_players'[i] = r /\ num_player' \in Int
  BY <1>1 DEF Table
<1>8. interactive(o) = None /\ Owned(ip, o) = {} /\ object[o].refs = 0
  BY FreshIsUnowned
<1>9. \A x \in Used(ip) : x \in Rec \ {r} /\ ip[x].ob # o /\ ip[x].tp # s
  BY <1>8, ClosedIsFree DEF Used, Owned
<1>10. OwnerInv(object', ip', failed)
  <2>1. ASSUME NEW x \in Used(ip')
        PROVE  \/ /\ ip'[x].ob \in Obj /\ object'[ip'[x].ob].is = "live"
                  /\ object'[ip'[x].ob].interactive = x
               \/ ip'[x].ob = Master /\ ip'[x].tp \in failed
    <3>1. CASE x = r
      BY <1>4, <1>6, <3>1
    <3>2. CASE x # r
      <4>1. x \in Used(ip) /\ ip'[x] = ip[x] /\ ip[x].ob # o
        BY <1>3, <1>4, <1>9, <2>1, <3>2
      <4>2. \/ /\ ip[x].ob \in Obj /\ object[ip[x].ob].is = "live"
               /\ object[ip[x].ob].interactive = x
            \/ ip[x].ob = Master /\ ip[x].tp \in failed
        BY <1>1, <4>1 DEF OwnerInv
      <4> QED BY <1>6, <4>1, <4>2, InteractiveAssumption DEF Objects
    <3> QED BY <3>1, <3>2
  <2>2. ASSUME NEW y \in Obj, object'[y].interactive # None
        PROVE  ip'[object'[y].interactive].ob = y
    <3>1. CASE y = o
      BY <1>4, <1>6, <3>1
    <3>2. CASE y # o
      <4>1. object'[y] = object[y]
        BY <1>6, <3>2, InteractiveAssumption DEF Objects
      <4>2. interactive(y) # None
        BY <2>2, <4>1 DEF interactive
      <4>3. interactive(y) \in Used(ip) /\ ip[interactive(y)].ob = y
        BY <4>2, RecordOf
      <4> QED BY <1>4, <1>9, <4>1, <4>3 DEF interactive
    <3> QED BY <3>1, <3>2
  <2>3. object'[Master].is = "live"
    BY <1>1, <1>6, InteractiveAssumption DEF OwnerInv, Objects
  <2> QED BY <2>1, <2>2, <2>3 DEF OwnerInv
<1>11. CountInv(object', ip')
  <2>1. /\ Cardinality(Owned(ip', o)) = Cardinality(Owned(ip, o)) + 1
        /\ \A x \in Objects \ {o} : Owned(ip', x) = Owned(ip, x)
    <3>1. IsFiniteSet(Used(ip))
      BY <1>1 DEF TableInv
    <3> QED BY SMTT(60), <1>2, <1>4, <3>1, CountAdds
  <2>2. Cardinality(Owned(ip, o)) = 0
    BY <1>8, FS_EmptySet
  <2> SUFFICES ASSUME NEW x \in Objects
               PROVE  object'[x].refs = Cardinality(Owned(ip', x))
    BY DEF CountInv
  <2>3. object[x].refs = Cardinality(Owned(ip, x))
    BY <1>1 DEF CountInv
  <2>4. CASE x = o
    <3>1. object'[o].refs = 1
      BY <1>6
    <3> QED BY <2>1, <2>2, <2>4, <3>1
  <2>5. CASE x # o
    <3>1. object'[x].refs = object[x].refs
      BY <1>6, <2>5
    <3> QED BY <2>1, <2>3, <2>5, <3>1
  <2> QED BY <2>4, <2>5
<1> DEFINE g == Frame("logon", o, s, i)
<1>12. g \in Operation /\ g.op = "logon" /\ g.s = s /\ g.i = i
  <2>1. i \in 0 .. MAX_PLAYERS
    BY InteractiveAssumption DEF Slots
  <2> QED BY <1>2, <2>1 DEF Frame, Operation
<1> HIDE DEF g
<1>13. FrameOK(g, object', ip', all_players', session')
  BY <1>2, <1>3, <1>4, <1>7, <1>9, <1>12 DEF FrameOK, AcceptOps
<1>14. /\ stack' \in Seq(Operation) /\ Shape(stack')
       /\ FramesInv(object', ip', all_players', session', stack')
       /\ Accepts(stack', s)
  BY <1>12, <1>13, OneFrame DEF g, AcceptOps
<1>15. HeldInv(ip', session', failed, stack')
  <2>1. \A x \in Used(ip') : ip'[x].tp # s => x \in Used(ip) /\ ip'[x] = ip[x]
    BY <1>3, <1>4, <1>9
  <2> HIDE DEF Inv
  <2> QED BY <1>14, <2>1, HeldOpened
<1> QED BY <1>1, <1>3, <1>4, <1>5, <1>7, <1>10, <1>11, <1>14, <1>15
        DEF Inv, Types

\* connect() has failed: the master object keeps the record.
LEMMA ConnectFailsKeeps ==
  ASSUME Inv, stack = <<>>, NEW s \in Sess, ~session[s].open,
         NEW r \in Rec \ Used(ip), NEW i \in Slots, all_players[i] = None,
         object' = [object EXCEPT ![Master].interactive = r,
                                  ![Master].refs = @ + 1],
         Added(ip, ip', r, Master, s), Opened(session, session', s),
         stack' = stack, all_players' = [all_players EXCEPT ![i] = r],
         num_player' = num_player + 1, failed' = failed \cup {s}
  PROVE  Inv'
<1>1. /\ object \in ObjectTable /\ ip \in Records /\ all_players \in Table
      /\ num_player \in Int /\ failed \subseteq Sess
      /\ OwnerInv(object, ip, failed) /\ CountInv(object, ip)
      /\ TableInv(ip, all_players, num_player)
  BY DEF Inv, Types
<1>2. Master \in Objects /\ None \notin Rec /\ Master \notin Obj
  BY InteractiveAssumption DEF Objects
<1>3. /\ Used(ip') = Used(ip) \cup {r} /\ FreeInv(ip')
      /\ TableInv(ip', all_players', num_player')
      /\ SnoopInv(ip') /\ SessionInv(ip', session')
  BY <1>2, NewKeeps
<1>4. /\ ip' \in Records /\ ip'[r].ob = Master /\ ip'[r].tp = s
      /\ \A x \in Rec \ {r} : ip'[x] = ip[x] /\ session' \in Sessions
  BY DEF Added, Opened
<1>5. object' \in ObjectTable
  BY <1>1, <1>2 DEF ObjectTable, ObjectFields
<1>6. /\ object'[Master].refs = object[Master].refs + 1
      /\ object'[Master].is = object[Master].is
      /\ \A x \in Objects \ {Master} : object'[x] = object[x]
  BY <1>1, <1>2 DEF ObjectTable, ObjectFields
<1>7. all_players' \in Table /\ num_player' \in Int /\ failed' \subseteq Sess
  BY <1>1 DEF Table
<1>8. \A x \in Used(ip) : x \in Rec \ {r} /\ ip[x].tp # s
  BY ClosedIsFree DEF Used
<1>9. OwnerInv(object', ip', failed')
  <2>1. ASSUME NEW x \in Used(ip')
        PROVE  \/ /\ ip'[x].ob \in Obj /\ object'[ip'[x].ob].is = "live"
                  /\ object'[ip'[x].ob].interactive = x
               \/ ip'[x].ob = Master /\ ip'[x].tp \in failed'
    <3>1. CASE x = r
      BY <1>4, <3>1
    <3>2. CASE x # r
      <4>1. x \in Used(ip) /\ ip'[x] = ip[x]
        BY <1>3, <1>4, <1>8, <2>1, <3>2
      <4>2. \/ /\ ip[x].ob \in Obj /\ object[ip[x].ob].is = "live"
               /\ object[ip[x].ob].interactive = x
            \/ ip[x].ob = Master /\ ip[x].tp \in failed
        BY <1>1, <4>1 DEF OwnerInv
      <4> QED BY <1>2, <1>6, <4>1, <4>2 DEF Objects
    <3> QED BY <3>1, <3>2
  <2>2. ASSUME NEW y \in Obj, object'[y].interactive # None
        PROVE  ip'[object'[y].interactive].ob = y
    <3>1. object'[y] = object[y]
      BY <1>2, <1>6 DEF Objects
    <3>2. interactive(y) # None
      BY <2>2, <3>1 DEF interactive
    <3>3. interactive(y) \in Used(ip) /\ ip[interactive(y)].ob = y
      BY <3>2, RecordOf
    <3> QED BY <1>4, <1>8, <3>1, <3>3 DEF interactive
  <2>3. object'[Master].is = "live"
    BY <1>1, <1>6, InteractiveAssumption DEF OwnerInv, Objects
  <2> QED BY <2>1, <2>2, <2>3 DEF OwnerInv
<1>10. CountInv(object', ip')
  <2>1. /\ Cardinality(Owned(ip', Master)) = Cardinality(Owned(ip, Master)) + 1
        /\ \A x \in Objects \ {Master} : Owned(ip', x) = Owned(ip, x)
    <3>1. IsFiniteSet(Used(ip))
      BY <1>1 DEF TableInv
    <3> QED BY <1>2, <1>4, <3>1, CountAdds
  <2> QED BY <1>1, <1>2, <1>6, <2>1 DEF CountInv
<1>11. HeldInv(ip', session', failed', stack')
  <2>1. \A x \in Used(ip') : ip'[x].tp # s => x \in Used(ip) /\ ip'[x] = ip[x]
    BY <1>3, <1>4, <1>8
  <2>2. failed \subseteq failed' /\ s \in failed'
    OBVIOUS
  <2> QED BY <2>1, <2>2, HeldOpened
<1>12. /\ stack' \in Seq(Operation) /\ Shape(stack')
       /\ FramesInv(object', ip', all_players', session', stack')
  BY NoFrame
<1>13. session' \in Sessions
  BY DEF Opened
<1> QED BY <1>3, <1>4, <1>5, <1>7, <1>9, <1>10, <1>11, <1>12, <1>13
        DEF Inv, Types

\* connect() has given no object: there is no record, and the session is
\* closed when the master object has been told.
LEMMA RefusedKeeps ==
  ASSUME Inv, stack = <<>>, NEW s \in Sess, ~session[s].open,
         object' = [object EXCEPT ![Master].interactive = None],
         Opened(session, session', s),
         stack' = <<Frame("refused", Master, s, 0)>>,
         UNCHANGED <<ip, all_players, num_player, failed>>
  PROVE  Inv'
<1>1. /\ object \in ObjectTable /\ ip \in Records /\ all_players \in Table
      /\ num_player \in Int /\ failed \subseteq Sess
      /\ OwnerInv(object, ip, failed) /\ CountInv(object, ip)
      /\ TableInv(ip, all_players, num_player) /\ FreeInv(ip)
      /\ SnoopInv(ip) /\ SessionInv(ip, session)
  BY DEF Inv, Types
<1>2. Master \in Objects /\ Master \notin Obj
  BY InteractiveAssumption DEF Objects
<1>3. object' \in ObjectTable
  BY <1>1, <1>2 DEF ObjectTable, ObjectFields
<1>4. /\ object'[Master].refs = object[Master].refs
      /\ object'[Master].is = object[Master].is
      /\ \A x \in Objects \ {Master} : object'[x] = object[x]
  BY <1>1, <1>2 DEF ObjectTable, ObjectFields
<1>5. \A x \in Obj : object'[x] = object[x]
  BY <1>2, <1>4 DEF Objects
<1>6. OwnerInv(object', ip, failed)
  BY <1>1, <1>4, <1>5 DEF OwnerInv
<1>7. CountInv(object', ip)
  BY <1>1, <1>4 DEF CountInv
<1>8. \A x \in Used(ip) : ip[x].tp # s
  BY ClosedIsFree
<1>9. /\ session' \in Sessions /\ session'[s].open /\ session'[s].ip = None
      /\ session'[s].enabled = {}
      /\ \A x \in Sess \ {s} : session'[x] = session[x]
  BY DEF Opened
<1>10. SessionInv(ip, session')
  <2>1. ASSUME NEW x \in Used(ip)
        PROVE  /\ ip[x].tp \in Sess /\ session'[ip[x].tp].open
               /\ session'[ip[x].tp].ip \in {x, None}
               /\ session'[ip[x].tp].ip = None
                    => session'[ip[x].tp].enabled = {}
               /\ ip[x].ob = Master => session'[ip[x].tp].ip = None
    <3>1. ip[x].tp \in Sess /\ session'[ip[x].tp] = session[ip[x].tp]
      BY <1>1, <1>8, <1>9, <2>1 DEF SessionInv
    <3> QED BY <1>1, <2>1, <3>1 DEF SessionInv
  <2>2. \A x, y \in Used(ip) : ip[x].tp = ip[y].tp => x = y
    BY <1>1 DEF SessionInv
  <2>3. \A t \in Sess : session'[t].ip # None => ip[session'[t].ip].tp = t
    BY <1>1, <1>9 DEF SessionInv
  <2>4. \A t \in Sess : ~session'[t].open => session'[t] = Closed
    BY <1>1, <1>9 DEF SessionInv
  <2> QED BY <2>1, <2>2, <2>3, <2>4 DEF SessionInv
<1> DEFINE g == Frame("refused", Master, s, 0)
<1>11. g \in Operation /\ g.op = "refused" /\ g.s = s /\ g.i = 0
  <2>1. 0 \in 0 .. MAX_PLAYERS
    BY InteractiveAssumption
  <2> QED BY <1>2, <2>1 DEF Frame, Operation
<1> HIDE DEF g
<1>12. FrameOK(g, object', ip, all_players, session')
  BY <1>8, <1>9, <1>11 DEF FrameOK, AcceptOps
<1>13. /\ stack' \in Seq(Operation) /\ Shape(stack')
       /\ FramesInv(object', ip, all_players, session', stack')
       /\ Accepts(stack', s)
  BY <1>11, <1>12, OneFrame DEF g, AcceptOps
<1>14. HeldInv(ip, session', failed, stack')
  BY <1>13, HeldOpened
<1> QED BY <1>1, <1>3, <1>6, <1>7, <1>9, <1>10, <1>13, <1>14 DEF Inv, Types

\* telnet_accept() keeps the invariant.
LEMMA AcceptKeeps ==
  ASSUME Inv, NEW s \in Sess, telnet_accept(s)
  PROVE  Inv'
<1> DEFINE i == Min(FreeSlots)
<1>0. ip \in Records /\ session \in Sessions /\ Allocated = Used(ip)
  BY DEF Inv, Types, Allocated, Used
<1>1. stack = <<>> /\ ~session[s].open /\ FreeSlots # {}
  BY DEF telnet_accept
<1>2. i \in Slots /\ all_players[i] = None
  <2>1. FreeSlots \in SUBSET Nat
    BY InteractiveAssumption DEF FreeSlots, Slots
  <2>2. Min(FreeSlots) \in FreeSlots
    BY <1>1, <2>1, MinIsLeast
  <2> QED BY <2>2 DEF FreeSlots
<1> HIDE DEF i
<1>3. Opened(session, [session EXCEPT ![s].open = TRUE], s)
  BY <1>0, <1>1, ClosedIsFree, OpenedFields
<1>4. PICK r \in Rec \ Used(ip) :
        \/ \E o \in {x \in Obj : object[x].is = "fresh"} :
             /\ object' = [object EXCEPT
                  ![o] = [is |-> "live", interactive |-> r, refs |-> 1],
                  ![Master].interactive = None]
             /\ ip' = [ip EXCEPT ![r] = NewRecord(o, s)]
             /\ stack' = <<Frame("logon", o, s, i)>>
             /\ session' = [session EXCEPT ![s].open = TRUE]
             /\ all_players' = [all_players EXCEPT ![i] = r]
             /\ num_player' = num_player + 1
             /\ UNCHANGED failed
        \/ /\ object' = [object EXCEPT ![Master].interactive = r,
                                       ![Master].refs = @ + 1]
           /\ ip' = [ip EXCEPT ![r] = NewRecord(Master, s)]
           /\ failed' = failed \cup {s}
           /\ session' = [session EXCEPT ![s].open = TRUE]
           /\ all_players' = [all_players EXCEPT ![i] = r]
           /\ num_player' = num_player + 1
           /\ UNCHANGED stack
        \/ /\ object' = [object EXCEPT ![Master].interactive = None]
           /\ stack' = <<Frame("refused", Master, s, 0)>>
           /\ session' = [session EXCEPT ![s].open = TRUE]
           /\ UNCHANGED <<ip, all_players, num_player, failed>>
  BY <1>0 DEF telnet_accept, i
<1>5. CASE \E o \in {x \in Obj : object[x].is = "fresh"} :
             /\ object' = [object EXCEPT
                  ![o] = [is |-> "live", interactive |-> r, refs |-> 1],
                  ![Master].interactive = None]
             /\ ip' = [ip EXCEPT ![r] = NewRecord(o, s)]
             /\ stack' = <<Frame("logon", o, s, i)>>
             /\ session' = [session EXCEPT ![s].open = TRUE]
             /\ all_players' = [all_players EXCEPT ![i] = r]
             /\ num_player' = num_player + 1
             /\ UNCHANGED failed
  <2>1. PICK o \in {x \in Obj : object[x].is = "fresh"} :
             /\ object' = [object EXCEPT
                  ![o] = [is |-> "live", interactive |-> r, refs |-> 1],
                  ![Master].interactive = None]
             /\ ip' = [ip EXCEPT ![r] = NewRecord(o, s)]
             /\ stack' = <<Frame("logon", o, s, i)>>
             /\ session' = [session EXCEPT ![s].open = TRUE]
             /\ all_players' = [all_players EXCEPT ![i] = r]
             /\ num_player' = num_player + 1
             /\ UNCHANGED failed
    BY <1>5
  <2>2. Added(ip, [ip EXCEPT ![r] = NewRecord(o, s)], r, o, s)
    BY <1>0, NewRecordAdds DEF Objects
  <2> QED BY <1>1, <1>2, <1>3, <2>1, <2>2, LogonKeeps
<1>6. CASE /\ object' = [object EXCEPT ![Master].interactive = r,
                                       ![Master].refs = @ + 1]
           /\ ip' = [ip EXCEPT ![r] = NewRecord(Master, s)]
           /\ failed' = failed \cup {s}
           /\ session' = [session EXCEPT ![s].open = TRUE]
           /\ all_players' = [all_players EXCEPT ![i] = r]
           /\ num_player' = num_player + 1
           /\ UNCHANGED stack
  <2>1. Added(ip, [ip EXCEPT ![r] = NewRecord(Master, s)], r, Master, s)
    BY <1>0, NewRecordAdds DEF Objects
  <2> QED BY <1>1, <1>2, <1>3, <1>6, <2>1, ConnectFailsKeeps
<1>7. CASE /\ object' = [object EXCEPT ![Master].interactive = None]
           /\ stack' = <<Frame("refused", Master, s, 0)>>
           /\ session' = [session EXCEPT ![s].open = TRUE]
           /\ UNCHANGED <<ip, all_players, num_player, failed>>
  BY <1>1, <1>3, <1>7, RefusedKeeps
<1> QED BY <1>4, <1>5, <1>6, <1>7

-----------------------------------------------------------------------------
(***************************************************************************)
(* The other actions.                                                      *)
(***************************************************************************)

\* remove_interactive() keeps the invariant, for the main loop, for exec()
\* and for destruct_object().
LEMMA RemoveKeeps ==
  ASSUME Inv, NEW o \in Obj, interactive(o) # None, NEW st,
         \/ st = stack
         \/ stack # <<>> /\ st = Append(stack, Frame("destruct", o, None, 0)),
         remove_interactive(o, st)
  PROVE  Inv'
<1>1. CASE Dismiss(o, st) /\ UNCHANGED failed
  BY <1>1, DismissKeeps
<1>2. CASE Error /\ UNCHANGED <<object, ip, all_players, num_player, session>>
  BY <1>2, ErrorKeeps
<1> QED BY <1>1, <1>2 DEF remove_interactive

\* Input of an attached session is only told apart by whether some is there.
LEMMA RawKeeps ==
  ASSUME Inv, NEW s \in Sess, Raw(s)
  PROVE  Inv'
<1> USE DEF Inv, Types
<1>1. /\ session[s].ip # None
      /\ session' = [session EXCEPT ![s].enabled =
                       IF "C" \in @ THEN @ \ {"C"} ELSE @ \cup {"C"}]
      /\ UNCHANGED <<object, ip, all_players, num_player, failed, stack>>
  BY DEF Raw
<1>2. session' \in Sessions
  <2> DEFINE e == IF "C" \in session[s].enabled
                  THEN session[s].enabled \ {"C"}
                  ELSE session[s].enabled \cup {"C"}
  <2>1. session[s].enabled \in SUBSET {"R", "C"}
    BY DEF Sessions, Control
  <2>2. e \in SUBSET {"R", "C"}
    BY <2>1
  <2>3. session' = [session EXCEPT ![s].enabled = e]
    BY <1>1
  <2> HIDE DEF e
  <2> QED BY <2>2, <2>3 DEF Sessions, Control
<1>3. /\ \A x \in Sess \ {s} : session'[x] = session[x]
      /\ session'[s].open = session[s].open /\ session'[s].ip = session[s].ip
  BY <1>1 DEF Sessions, Control
<1>4. /\ SessionInv(ip, session')
      /\ HeldInv(ip, session', failed, stack)
      /\ FramesInv(object, ip, all_players, session', stack)
  BY <1>1, <1>2, <1>3, SessionsKeep
<1> QED BY <1>1, <1>2, <1>4

\* An operation that is not about a session starts when none is under way.
LEMMA StartKeeps ==
  ASSUME Inv, stack = <<>>, NEW op \in {"command", "alarm"},
         stack' = <<Frame(op, None, None, 0)>>,
         ip' \in Records, SameOwners(ip, ip'), FreeInv(ip'), SnoopInv(ip'),
         UNCHANGED <<object, all_players, num_player, session, failed>>
  PROVE  Inv'
<1> DEFINE g == Frame(op, None, None, 0)
<1>1. g \in Operation /\ g.op = op
  <2>1. 0 \in 0 .. MAX_PLAYERS
    BY InteractiveAssumption
  <2> QED BY <2>1 DEF Frame, Operation
<1> HIDE DEF g
<1>2. /\ TableInv(ip', all_players, num_player)
      /\ OwnerInv(object, ip', failed)
      /\ CountInv(object, ip')
      /\ SessionInv(ip', session)
      /\ HeldInv(ip', session, failed, stack)
  BY OwnersKeep
<1>3. FrameOK(g, object, ip', all_players, session)
  BY <1>1 DEF FrameOK, AcceptOps
<1>4. /\ stack' \in Seq(Operation) /\ Shape(stack')
      /\ FramesInv(object, ip', all_players, session, stack')
  BY <1>1, <1>3, OneFrame DEF g
<1>5. HeldInv(ip', session, failed, stack')
  <2>1. \A t : ~Accepts(stack, t)
    BY NoFrame
  <2> QED BY <1>2, <2>1 DEF HeldInv
<1> QED BY <1>2, <1>4, <1>5 DEF Inv, Types

\* Changes to records that keep their objects and sessions keep the
\* invariant.
LEMMA RecordsKeep ==
  ASSUME Inv, ip' \in Records, SameOwners(ip, ip'), FreeInv(ip'), SnoopInv(ip'),
         UNCHANGED <<object, all_players, num_player, session, failed, stack>>
  PROVE  Inv'
<1>1. /\ TableInv(ip', all_players, num_player)
      /\ OwnerInv(object, ip', failed)
      /\ CountInv(object, ip')
      /\ SessionInv(ip', session)
      /\ HeldInv(ip', session, failed, stack)
      /\ FramesInv(object, ip', all_players, session, stack)
  BY OwnersKeep
<1> QED BY <1>1 DEF Inv, Types

\* Two record tables that differ in editors and functions that wait for
\* input only.
SameLinks(p, q) ==
  /\ SameOwners(p, q)
  /\ \A x \in Rec : /\ q[x].snoop_on = p[x].snoop_on
                    /\ q[x].snoop_by = p[x].snoop_by
                    /\ p[x].ob = None => q[x] = p[x]

\* Snooping does not depend on them.
LEMMA LinksKeep ==
  ASSUME NEW p \in Records, NEW q, SameLinks(p, q), FreeInv(p), SnoopInv(p)
  PROVE  SameOwners(p, q) /\ FreeInv(q) /\ SnoopInv(q)
<1>1. /\ SameOwners(p, q)
      /\ \A x \in Rec : /\ q[x].snoop_on = p[x].snoop_on
                        /\ q[x].snoop_by = p[x].snoop_by
                        /\ p[x].ob = None => q[x] = p[x]
  BY DEF SameLinks
<1>2. Used(q) = Used(p)
  BY <1>1, SameUsed
<1>3. \A x \in Rec : /\ p[x].snoop_on \in Rec \cup {None}
                     /\ p[x].snoop_by \in Rec \cup {None}
  BY RecordTypes
<1>4. PairedOn(q)
  BY <1>1, <1>2, <1>3 DEF SnoopInv, PairedOn
<1>5. PairedBy(q)
  BY <1>1, <1>2, <1>3 DEF SnoopInv, PairedBy
<1>6. NoLoop(q)
  BY <1>1, LessLoops DEF SnoopInv
<1>7. FreeInv(q)
  BY <1>1 DEF FreeInv, SameOwners
<1> QED BY <1>1, <1>4, <1>5, <1>6, <1>7 DEF SnoopInv

\* input_to(), ed() and a line of input change such a field of one record.
LEMMA FlagsKeep ==
  ASSUME NEW p \in Records, NEW r \in Used(p), NEW b \in BOOLEAN, NEW q,
         q \in {p, [p EXCEPT ![r].input_to = b], [p EXCEPT ![r].ed = b]}
  PROVE  q \in Records /\ SameLinks(p, q)
<1>0. r \in Rec /\ p[r].ob # None
  BY DEF Used
<1>1. CASE q = p
  BY <1>1 DEF SameLinks, SameOwners
<1>2. CASE q = [p EXCEPT ![r].input_to = b]
  <2>1. q \in Records
    BY <1>0, <1>2 DEF Records, Record
  <2>2. \A x \in Rec :
          /\ q[x].ob = p[x].ob /\ q[x].tp = p[x].tp
          /\ q[x].snoop_on = p[x].snoop_on /\ q[x].snoop_by = p[x].snoop_by
          /\ x # r => q[x] = p[x]
    BY <1>0, <1>2 DEF Records, Record
  <2> QED BY <1>0, <2>1, <2>2 DEF SameLinks, SameOwners
<1>3. CASE q = [p EXCEPT ![r].ed = b]
  <2>1. q \in Records
    BY <1>0, <1>3 DEF Records, Record
  <2>2. \A x \in Rec :
          /\ q[x].ob = p[x].ob /\ q[x].tp = p[x].tp
          /\ q[x].snoop_on = p[x].snoop_on /\ q[x].snoop_by = p[x].snoop_by
          /\ x # r => q[x] = p[x]
    BY <1>0, <1>3 DEF Records, Record
  <2> QED BY <1>0, <2>1, <2>2 DEF SameLinks, SameOwners
<1> QED BY <1>1, <1>2, <1>3

\* A session that is attached leads to a record of a live object.
LEMMA Attached ==
  ASSUME Inv, NEW s \in Sess, session[s].ip # None
  PROVE  /\ session[s].ip \in Used(ip) /\ ip[session[s].ip].ob \in Obj
         /\ interactive(ip[session[s].ip].ob) = session[s].ip
<1> USE DEF Inv
<1> DEFINE r == session[s].ip
<1>1. r \in Rec /\ ip[r].tp = s
  BY FieldTypes DEF SessionInv
<1> HIDE DEF r
<1>2. r \in Used(ip)
  <2>1. s # None
    BY InteractiveAssumption
  <2> QED BY <1>1, <2>1 DEF Used, FreeInv, Free
<1>3. ip[r].ob # Master
  BY <1>1, <1>2 DEF SessionInv, r
<1>4. ip[r].ob \in Obj /\ object[ip[r].ob].interactive = r
  BY <1>2, <1>3 DEF OwnerInv
<1> QED BY <1>2, <1>4 DEF r, interactive

\* A line of input
LEMMA InputKeeps ==
  ASSUME Inv, NEW s \in Sess, Input(s)
  PROVE  Inv'
<1> DEFINE r == session[s].ip
<1>1. /\ stack = <<>> /\ r # None
      /\ ip' \in {ip, [ip EXCEPT ![r].input_to = FALSE]}
      /\ stack' = <<Frame("command", None, None, 0)>>
      /\ UNCHANGED <<object, all_players, num_player, session, failed>>
  BY DEF Input
<1>2. r \in Used(ip)
  BY <1>1, Attached
<1> HIDE DEF r
<1>3. ip' \in Records /\ SameLinks(ip, ip')
  BY <1>1, <1>2, FlagsKeep DEF Inv, Types
<1>4. SameOwners(ip, ip') /\ FreeInv(ip') /\ SnoopInv(ip')
  BY <1>3, LinksKeep DEF Inv, Types
<1> QED BY <1>1, <1>3, <1>4, StartKeeps

\* An alarm
LEMMA AlarmKeeps ==
  ASSUME Inv, Alarm
  PROVE  Inv'
<1>1. SameOwners(ip, ip)
  BY DEF SameOwners
<1>2. ip' = ip /\ ip \in Records /\ FreeInv(ip) /\ SnoopInv(ip)
  BY DEF Alarm, Inv, Types
<1>3. /\ stack = <<>> /\ stack' = <<Frame("alarm", None, None, 0)>>
      /\ UNCHANGED <<object, all_players, num_player, session, failed>>
  BY DEF Alarm
<1> QED BY <1>1, <1>2, <1>3, StartKeeps

\* The main loop finds a connection broken.
LEMMA DisconnectKeeps ==
  ASSUME Inv, NEW s \in Sess, Disconnect(s)
  PROVE  Inv'
<1>1. session[s].ip # None /\ remove_interactive(ip[session[s].ip].ob, stack)
  BY DEF Disconnect
<1>2. /\ ip[session[s].ip].ob \in Obj
      /\ interactive(ip[session[s].ip].ob) # None
  BY <1>1, Attached
<1> QED BY <1>1, <1>2, RemoveKeeps

\* A session without a record is closed.
LEMMA ShutdownKeeps ==
  ASSUME Inv, NEW s \in Sess, Shutdown(s)
  PROVE  Inv'
<1>1. /\ stack = <<>> /\ session[s].ip = None /\ "C" \in session[s].enabled
      /\ session' = [session EXCEPT ![s] = Closed]
      /\ UNCHANGED <<object, ip, all_players, num_player, failed, stack>>
  BY DEF Shutdown
<1>2. Closed \in Control
  BY DEF Closed, Control
<1>3. session' \in Sessions /\ session'[s] = Closed
  BY <1>1, <1>2 DEF Inv, Types, Sessions
<1>4. \A x \in Sess \ {s} : session'[x] = session[x]
  BY <1>1 DEF Inv, Types, Sessions
<1>5. \A r \in Used(ip) : ip[r].tp # s
  BY <1>1 DEF Inv, SessionInv
<1>6. \A t : ~Accepts(stack, t)
  BY <1>1, NoFrame
<1>7. SessionInv(ip, session') /\ HeldInv(ip, session', failed, <<>>)
  BY <1>1, <1>3, <1>4, <1>5, <1>6, SessionEnds
<1>8. FramesInv(object, ip, all_players, session', <<>>)
  BY NoFrame
<1> QED BY <1>1, <1>3, <1>7, <1>8 DEF Inv, Types

\* Objects change their state but not their connections: only objects
\* without one are destructed or used again.
LEMMA ObjectsKeep ==
  ASSUME Inv, object' \in ObjectTable,
         \A o \in Obj : /\ object'[o].interactive = object[o].interactive
                        /\ object'[o].refs = object[o].refs
                        /\ object'[o] # object[o] => interactive(o) = None,
         object'[Master] = object[Master],
         stack' \in Seq(Operation), Shape(stack'),
         \A n \in 1 .. Len(stack') : \E m \in 1 .. Len(stack) :
           stack'[n] = stack[m],
         \A s : Accepts(stack', s) <=> Accepts(stack, s),
         UNCHANGED <<ip, all_players, num_player, session, failed>>
  PROVE  Inv'
<1>1. /\ ip \in Records /\ OwnerInv(object, ip, failed) /\ CountInv(object, ip)
      /\ HeldInv(ip, session, failed, stack)
      /\ FramesInv(object, ip, all_players, session, stack)
  BY DEF Inv, Types
<1>2. OwnerInv(object', ip, failed)
  <2>1. ASSUME NEW x \in Used(ip), ip[x].ob \in Obj,
               object[ip[x].ob].is = "live", object[ip[x].ob].interactive = x
        PROVE  /\ object'[ip[x].ob].is = "live"
               /\ object'[ip[x].ob].interactive = x
    <3>1. x # None
      BY <2>1, InteractiveAssumption DEF Used
    <3>2. object'[ip[x].ob] = object[ip[x].ob]
      BY <2>1, <3>1 DEF interactive
    <3> QED BY <2>1, <3>2
  <2> QED BY <1>1, <2>1 DEF OwnerInv
<1>3. CountInv(object', ip)
  BY <1>1 DEF CountInv, Objects
<1>4. HeldInv(ip, session, failed, stack')
  BY <1>1 DEF HeldInv
<1>5. FramesInv(object', ip, all_players, session, stack')
  <2> SUFFICES ASSUME NEW n \in 1 .. Len(stack')
               PROVE  FrameOK(stack'[n], object', ip, all_players, session)
    BY DEF FramesInv
  <2>1. PICK m \in 1 .. Len(stack) : stack'[n] = stack[m]
    OBVIOUS
  <2>2. FrameOK(stack[m], object, ip, all_players, session)
    BY <1>1 DEF FramesInv
  <2> QED BY <2>1, <2>2 DEF FrameOK
<1> QED BY <1>2, <1>3, <1>4, <1>5 DEF Inv, Types

\* The end of destruct_object(), for an object without a connection
LEMMA DestructedKeeps ==
  ASSUME Inv, NEW o \in Obj, interactive(o) = None,
         object' = [object EXCEPT ![o].is = "destructed"],
         stack' \in Seq(Operation), Shape(stack'),
         \A n \in 1 .. Len(stack') : \E m \in 1 .. Len(stack) :
           stack'[n] = stack[m],
         \A s : Accepts(stack', s) <=> Accepts(stack, s),
         UNCHANGED <<ip, all_players, num_player, session, failed>>
  PROVE  Inv'
<1>1. object \in ObjectTable /\ o \in Objects /\ o # Master
  BY InteractiveAssumption DEF Inv, Types, Objects
<1>2. object' \in ObjectTable
  BY <1>1 DEF ObjectTable, ObjectFields
<1>3. /\ \A x \in Objects \ {o} : object'[x] = object[x]
      /\ object'[o].interactive = object[o].interactive
      /\ object'[o].refs = object[o].refs
  BY <1>1 DEF ObjectTable, ObjectFields
<1>4. /\ \A x \in Obj : /\ object'[x].interactive = object[x].interactive
                        /\ object'[x].refs = object[x].refs
                        /\ object'[x] # object[x] => interactive(x) = None
      /\ object'[Master] = object[Master]
  BY <1>1, <1>3 DEF Objects
<1> QED BY <1>2, <1>4, ObjectsKeep

\* remove_destructed_objects() frees objects that have no records left.
LEMMA RemoveDestructedKeeps ==
  ASSUME Inv, remove_destructed_objects
  PROVE  Inv'
<1>1. /\ object' = [o \in Objects |->
           IF object[o].is # "destructed" THEN object[o]
           ELSE [is |-> "fresh", interactive |-> None, refs |-> 0]]
      /\ UNCHANGED <<ip, all_players, num_player, session, failed, stack>>
  BY DEF remove_destructed_objects
<1>2. object \in ObjectTable /\ stack \in Seq(Operation) /\ Shape(stack)
  BY DEF Inv, Types
<1>3. [is |-> "fresh", interactive |-> None, refs |-> 0] \in ObjectFields
  BY DEF ObjectFields
<1>4. object' \in ObjectTable
  BY <1>1, <1>2, <1>3 DEF ObjectTable
<1>5. ASSUME NEW o \in Obj
      PROVE  /\ object'[o].interactive = object[o].interactive
             /\ object'[o].refs = object[o].refs
             /\ object'[o] # object[o] => interactive(o) = None
  <2>1. CASE object[o].is # "destructed"
    BY <1>1, <2>1 DEF Objects
  <2>2. CASE object[o].is = "destructed"
    <3>1. interactive(o) = None /\ object[o].refs = 0
      BY <2>2, FreshIsUnowned
    <3>2. object'[o] = [is |-> "fresh", interactive |-> None, refs |-> 0]
      BY <1>1, <2>2 DEF Objects
    <3> QED BY <3>1, <3>2 DEF interactive
  <2> QED BY <2>1, <2>2
<1>6. object'[Master] = object[Master]
  BY <1>1 DEF Inv, OwnerInv, Objects
<1>7. stack' = stack /\ UNCHANGED <<ip, all_players, num_player, session, failed>>
  BY <1>1
<1> QED BY <1>2, <1>4, <1>5, <1>6, <1>7, ObjectsKeep

\* An operation ends that was not accepting a session.
LEMMA PopFacts ==
  ASSUME Inv, stack # <<>>, Top.op \notin AcceptOps
  PROVE  /\ Pop \in Seq(Operation) /\ Shape(Pop)
         /\ \A n \in 1 .. Len(Pop) : \E m \in 1 .. Len(stack) :
              Pop[n] = stack[m]
         /\ \A s : Accepts(Pop, s) <=> Accepts(stack, s)
<1>1. /\ Len(stack) \in Nat /\ Len(stack) > 0
      /\ Top = stack[Len(stack)] /\ Pop = SubSeq(stack, 1, Len(stack) - 1)
      /\ stack \in Seq(Operation) /\ Shape(stack)
  BY TopAndPop DEF Inv, Types
<1> DEFINE k == Len(stack) - 1
<1>2. k \in 0 .. Len(stack) /\ k \in Nat /\ k < Len(stack)
  BY <1>1
<1>3. /\ Pop \in Seq(Operation) /\ Len(Pop) = k /\ Shape(Pop)
      /\ \A m \in 1 .. k : Pop[m] = stack[m]
      /\ k > 0 => \A s : Accepts(Pop, s) <=> Accepts(stack, s)
  BY <1>1, <1>2, StackShrinks
<1>4. ASSUME k = 0
      PROVE  \A s : Accepts(Pop, s) <=> Accepts(stack, s)
  <2>1. Top = stack[1]
    BY <1>1, <1>4
  <2> QED BY <1>3, <1>4, <2>1 DEF Accepts
<1> HIDE DEF k
<1>5. \A n \in 1 .. Len(Pop) : \E m \in 1 .. Len(stack) : Pop[n] = stack[m]
  BY <1>1, <1>2, <1>3
<1> QED BY <1>2, <1>3, <1>4, <1>5

\* exec()
LEMMA ExecKeeps ==
  ASSUME Inv, exec
  PROVE  Inv'
<1>1. /\ stack # <<>> /\ Top.op \notin {"removed", "destruct"}
      /\ \E from \in Live :
           /\ interactive(from) # None
           /\ \/ \E o \in Live :
                   /\ interactive(o) = None
                   /\ Handed(o, from)
                   /\ UNCHANGED <<all_players, num_player, session, failed, stack>>
              \/ remove_interactive(from, stack)
  BY DEF exec, LPC
<1>2. Len(stack) = 1
  BY <1>1, TopAndPop DEF Inv, Types
<1>3. PICK from \in Live :
        /\ interactive(from) # None
        /\ \/ \E o \in Live :
                /\ interactive(o) = None
                /\ Handed(o, from)
                /\ UNCHANGED <<all_players, num_player, session, failed, stack>>
           \/ remove_interactive(from, stack)
  BY <1>1
<1>4. from \in Obj
  BY DEF Live
<1>5. CASE remove_interactive(from, stack)
  BY <1>3, <1>4, <1>5, RemoveKeeps
<1>6. CASE \E o \in Live :
             /\ interactive(o) = None
             /\ Handed(o, from)
             /\ UNCHANGED <<all_players, num_player, session, failed, stack>>
  <2>1. PICK o \in Live :
          /\ interactive(o) = None
          /\ Handed(o, from)
          /\ UNCHANGED <<all_players, num_player, session, failed, stack>>
    BY <1>6
  <2> QED BY <1>2, <1>3, <2>1, HandedKeeps
<1> QED BY <1>3, <1>5, <1>6

\* snoop()
LEMMA SnoopKeeps ==
  ASSUME Inv, set_snoop
  PROVE  Inv'
<1>0. ip \in Records /\ FreeInv(ip) /\ SnoopInv(ip)
  BY DEF Inv, Types
<1>1. UNCHANGED <<object, all_players, num_player, session, failed, stack>>
  BY DEF set_snoop
<1>2. PICK me \in Live :
        /\ interactive(me) # None
        /\ \/ ip' = Unsnooping(ip, interactive(me))
           \/ \E you \in Live \ {me} :
                /\ interactive(you) # None
                /\ interactive(me) \notin SnoopsOn(interactive(you))
                /\ ip' = [Unsnooped(Unsnooping(ip, interactive(me)),
                                    interactive(you)) EXCEPT
                            ![interactive(you)].snoop_by = interactive(me),
                            ![interactive(me)].snoop_on = interactive(you)]
  BY DEF set_snoop
<1> DEFINE by == interactive(me)
<1>3. by \in Used(ip) /\ by \in Rec
  BY <1>2, RecordOf DEF Live
<1>4. CASE ip' = Unsnooping(ip, interactive(me))
  <2>1. ip' \in Records /\ SameOwners(ip, ip') /\ SnoopInv(ip') /\ FreeInv(ip')
    BY <1>0, <1>3, <1>4, UnsnoopingFields, UnsnoopingKeeps
  <2> QED BY <1>1, <2>1, RecordsKeep
<1>5. CASE \E you \in Live \ {me} :
             /\ interactive(you) # None
             /\ interactive(me) \notin SnoopsOn(interactive(you))
             /\ ip' = [Unsnooped(Unsnooping(ip, interactive(me)),
                                 interactive(you)) EXCEPT
                         ![interactive(you)].snoop_by = interactive(me),
                         ![interactive(me)].snoop_on = interactive(you)]
  <2>1. PICK you \in Live \ {me} :
             /\ interactive(you) # None
             /\ interactive(me) \notin SnoopsOn(interactive(you))
             /\ ip' = [Unsnooped(Unsnooping(ip, interactive(me)),
                                 interactive(you)) EXCEPT
                         ![interactive(you)].snoop_by = interactive(me),
                         ![interactive(me)].snoop_on = interactive(you)]
    BY <1>5
  <2> DEFINE on == interactive(you)
  <2>2. on \in Used(ip)
    BY <2>1, RecordOf DEF Live
  <2>3. by \notin Chain(ip, on)
    BY <2>1 DEF SnoopsOn, Chain
  <2>4. ip' = [Unsnooped(Unsnooping(ip, by), on) EXCEPT
                 ![on].snoop_by = by, ![by].snoop_on = on]
    BY <2>1
  <2> HIDE DEF by, on
  <2>5. ip' \in Records /\ SameOwners(ip, ip') /\ SnoopInv(ip') /\ FreeInv(ip')
    BY <1>0, <1>3, <2>2, <2>3, <2>4, SnoopedKeeps
  <2> QED BY <1>1, <2>5, RecordsKeep
<1> QED BY <1>2, <1>4, <1>5

\* input_to() and ed()
LEMMA InputToKeeps ==
  ASSUME Inv, input_to
  PROVE  Inv'
<1>0. ip \in Records /\ FreeInv(ip) /\ SnoopInv(ip)
  BY DEF Inv, Types
<1>1. UNCHANGED <<object, all_players, num_player, session, failed, stack>>
  BY DEF input_to
<1>2. PICK o \in Live :
        /\ interactive(o) # None
        /\ \/ ip' = [ip EXCEPT ![interactive(o)].input_to = TRUE]
           \/ ip' = [ip EXCEPT ![interactive(o)].ed = TRUE]
  BY DEF input_to
<1>3. interactive(o) \in Used(ip)
  BY <1>2, RecordOf DEF Live
<1>4. ip' \in Records /\ SameLinks(ip, ip')
  BY <1>0, <1>2, <1>3, FlagsKeep
<1>5. SameOwners(ip, ip') /\ FreeInv(ip') /\ SnoopInv(ip')
  BY <1>0, <1>4, LinksKeep
<1> QED BY <1>1, <1>4, <1>5, RecordsKeep

\* destruct_object()
LEMMA DestructKeeps ==
  ASSUME Inv, destruct_object
  PROVE  Inv'
<1>0. stack # <<>> /\ stack \in Seq(Operation) /\ Shape(stack)
  BY DEF destruct_object, LPC, Inv, Types
<1>1. PICK o \in Live :
        IF interactive(o) = None THEN Destructed(o, stack)
        ELSE remove_interactive(o, Append(stack, Frame("destruct", o, None, 0)))
  BY DEF destruct_object
<1>2. o \in Obj
  BY DEF Live
<1>3. CASE interactive(o) = None
  <2>1. /\ object' = [object EXCEPT ![o].is = "destructed"] /\ stack' = stack
        /\ UNCHANGED <<ip, all_players, num_player, session, failed>>
    BY <1>1, <1>3 DEF Destructed
  <2> QED BY <1>0, <1>2, <1>3, <2>1, DestructedKeeps
<1>4. CASE interactive(o) # None
  BY <1>0, <1>1, <1>2, <1>4, RemoveKeeps
<1> QED BY <1>3, <1>4

\* destruct_object() goes on: the object got no new connection in between.
LEMMA ResumeKeeps ==
  ASSUME Inv, Resume
  PROVE  Inv'
<1>1. stack # <<>> /\ Top.op = "destruct"
  BY DEF Resume
<1>2. /\ Pop \in Seq(Operation) /\ Shape(Pop)
      /\ \A n \in 1 .. Len(Pop) : \E m \in 1 .. Len(stack) : Pop[n] = stack[m]
      /\ \A s : Accepts(Pop, s) <=> Accepts(stack, s)
  BY <1>1, PopFacts DEF AcceptOps
<1>3. Top.ob \in Obj /\ interactive(Top.ob) = None
  <2>1. Len(stack) \in Nat /\ Len(stack) > 0 /\ Top = stack[Len(stack)]
    BY <1>1, TopAndPop DEF Inv, Types
  <2>2. FrameOK(Top, object, ip, all_players, session)
    BY <2>1 DEF Inv, FramesInv
  <2> QED BY <1>1, <2>2 DEF FrameOK, interactive
<1>4. CASE Destructed(Top.ob, Pop)
  <2>1. /\ object' = [object EXCEPT ![Top.ob].is = "destructed"] /\ stack' = Pop
        /\ UNCHANGED <<ip, all_players, num_player, session, failed>>
    BY <1>4 DEF Destructed
  <2> QED BY <1>2, <1>3, <2>1, DestructedKeeps
<1>5. CASE /\ stack' = Pop
           /\ UNCHANGED <<object, ip, all_players, num_player, session, failed>>
  <2>1. object' = object /\ object \in ObjectTable
    BY <1>5 DEF Inv, Types
  <2> QED BY <1>2, <1>5, <2>1, ObjectsKeep
<1> QED BY <1>4, <1>5 DEF Resume

\* The sessions after s has been attached to record r
AttachedTo(ses, s, r) ==
  [ses EXCEPT ![s].ip = r, ![s].enabled = @ \cup {"R", "C"}]

\* What attaching a session to a record changes.
LEMMA AttachedFields ==
  ASSUME NEW ses \in Sessions, NEW s \in Sess, NEW r \in Rec
  PROVE  /\ AttachedTo(ses, s, r) \in Sessions
         /\ \A x \in Sess \ {s} : AttachedTo(ses, s, r)[x] = ses[x]
         /\ AttachedTo(ses, s, r)[s].open = ses[s].open
         /\ AttachedTo(ses, s, r)[s].ip = r
<1> DEFINE e == ses[s].enabled \cup {"R", "C"}
           t == [ses EXCEPT ![s].ip = r, ![s].enabled = e]
<1>1. e \in SUBSET {"R", "C"}
  <2>1. ses[s].enabled \in SUBSET {"R", "C"}
    BY DEF Sessions, Control
  <2> QED BY <2>1
<1> HIDE DEF e
<1>2. t \in Sessions
  BY <1>1 DEF Sessions, Control
<1>3. \A x \in Sess \ {s} : t[x] = ses[x]
  BY DEF Sessions
<1>4. t[s].open = ses[s].open /\ t[s].ip = r
  BY DEF Sessions, Control
<1>5. t = AttachedTo(ses, s, r)
  BY DEF AttachedTo, e
<1> HIDE DEF t
<1> QED BY <1>2, <1>3, <1>4, <1>5

\* LPC code returns: a session that was being accepted is attached to the
\* record in its slot, or closed if that has been dismissed.
LEMMA ReturnKeeps ==
  ASSUME Inv, Return
  PROVE  Inv'
<1>0. /\ stack # <<>> /\ stack' = Pop
      /\ UNCHANGED <<object, ip, all_players, num_player, failed>>
  BY DEF Return, LPC
<1>1. CASE Top.op \notin AcceptOps
  <2>1. session' = session
    BY <1>1 DEF Return, AcceptOps
  <2>2. /\ Pop \in Seq(Operation) /\ Shape(Pop)
        /\ \A n \in 1 .. Len(Pop) : \E m \in 1 .. Len(stack) : Pop[n] = stack[m]
        /\ \A s : Accepts(Pop, s) <=> Accepts(stack, s)
    BY <1>0, <1>1, PopFacts
  <2>3. object' = object /\ object \in ObjectTable
    BY <1>0 DEF Inv, Types
  <2> QED BY <1>0, <2>1, <2>2, <2>3, ObjectsKeep
<1>2. CASE Top.op \in AcceptOps
  <2> DEFINE s == Top.s
             i == Top.i
  <2>1. Accepted(s, i)
    BY <1>2 DEF Return, AcceptOps
  <2>2. Len(stack) = 1 /\ Top = stack[1] /\ Pop = SubSeq(stack, 1, 0)
    BY <1>0, <1>2, TopAndPop DEF Inv, Types, AcceptOps
  <2>3. stack' = <<>>
    BY <1>0, <2>2, SubSeqEmpty
  <2>4. FrameOK(Top, object, ip, all_players, session)
    BY <2>2 DEF Inv, FramesInv
  <2>5. /\ s \in Sess /\ session[s].open /\ session[s].ip = None
        /\ session[s].enabled = {}
        /\ \A r \in Used(ip) : ip[r].tp = s =>
             Top.op = "logon" /\ ip[r].ob # Master /\ all_players[i] = r
        /\ Top.op = "logon" =>
             i \in Slots /\ (all_players[i] # None => ip[all_players[i]].tp = s)
        /\ Top.op = "refused" => i = 0
    BY <1>2, <2>4 DEF FrameOK
  <2>6. \A t \in Sess \ {s} : ~Accepts(stack, t)
    BY <2>2 DEF Accepts
  <2> HIDE DEF s, i
  <2>7. session \in Sessions /\ TableInv(ip, all_players, num_player)
    BY DEF Inv, Types
  <2>8. SessionInv(ip, session') /\ HeldInv(ip, session', failed, <<>>)
        /\ session' \in Sessions
    <3>1. CASE i = 0 \/ all_players[i] = None
      <4>1. session' = [session EXCEPT ![s] = Closed]
        BY <2>1, <3>1 DEF Accepted
      <4>2. Closed \in Control
        BY DEF Closed, Control
      <4>3. /\ session' \in Sessions /\ session'[s] = Closed
            /\ \A x \in Sess \ {s} : session'[x] = session[x]
        BY <2>5, <2>7, <4>1, <4>2 DEF Sessions
      <4>4. \A r \in Used(ip) : ip[r].tp # s
        <5>1. 0 \notin Slots
          BY InteractiveAssumption DEF Slots
        <5> QED BY <2>5, <3>1, <5>1, InteractiveAssumption DEF Used
      <4> HIDE DEF Inv
      <4> QED BY <2>5, <2>6, <4>3, <4>4, SessionEnds
    <3>2. CASE i # 0 /\ all_players[i] # None
      <4>1. session' = AttachedTo(session, s, all_players[i])
        BY <2>1, <3>2 DEF Accepted, AttachedTo
      <4>2. i \in Slots /\ ip[all_players[i]].tp = s
        BY <1>2, <2>5, <3>2 DEF AcceptOps
      <4>3. all_players[i] \in Used(ip)
        BY <2>7, <3>2, <4>2 DEF TableInv
      <4>4. ip[all_players[i]].ob # Master
        BY <2>5, <4>2, <4>3
      <4>5. /\ session' \in Sessions
            /\ \A x \in Sess \ {s} : session'[x] = session[x]
            /\ session'[s].open = session[s].open
            /\ session'[s].ip = all_players[i]
        <5>1. all_players[i] \in Rec
          BY <4>3 DEF Used
        <5>2. s \in Sess /\ session \in Sessions
          BY <2>5, <2>7
        <5> DEFINE t == AttachedTo(session, s, all_players[i])
        <5>3. /\ t \in Sessions
              /\ \A x \in Sess \ {s} : t[x] = session[x]
              /\ t[s].open = session[s].open
              /\ t[s].ip = all_players[i]
          BY <5>1, <5>2, AttachedFields
        <5> HIDE DEF t
        <5>4. session' = t
          BY <4>1 DEF t
        <5> QED BY <5>3, <5>4
      <4> QED BY ZenonT(60), <2>5, <2>6, <4>2, <4>3, <4>4, <4>5, SessionEnds
    <3> QED BY <3>1, <3>2
  <2>9. FramesInv(object, ip, all_players, session', <<>>) /\ Shape(<<>>)
        /\ <<>> \in Seq(Operation)
    BY NoFrame
  <2> QED BY <1>0, <2>3, <2>8, <2>9 DEF Inv, Types
<1> QED BY <1>1, <1>2

-----------------------------------------------------------------------------
(***************************************************************************)
(* The invariant and what follows from it.                                 *)
(***************************************************************************)

\* The driver starts with no player.
LEMMA InitInv == Init => Inv
<1> SUFFICES ASSUME Init PROVE Inv
  OBVIOUS
<1>0. None \notin Objects /\ None \notin Rec /\ Master \notin Obj
      /\ MAX_PLAYERS \in Nat
  BY InteractiveAssumption DEF Objects
<1>1. /\ \A o \in Objects : /\ object[o].interactive = None
                            /\ object[o].refs = 0
      /\ object[Master].is = "live"
      /\ \A r \in Rec : ip[r] = Free /\ ip[r].ob = None
                        /\ ip[r].snoop_on = None /\ ip[r].snoop_by = None
      /\ \A i \in Slots : all_players[i] = None
      /\ \A s \in Sess : session[s] = Closed /\ ~session[s].open
                         /\ session[s].ip = None
      /\ num_player = 0 /\ failed = {} /\ stack = <<>>
  BY DEF Init, Objects, Free, Closed
<1>2. Types
  <2>1. object \in ObjectTable
    BY DEF Init, ObjectTable, ObjectFields
  <2>2. Free \in Record /\ Closed \in Control
    BY DEF Free, Record, Closed, Control
  <2>3. ip \in Records /\ session \in Sessions
    BY <2>2 DEF Init, Records, Sessions
  <2>4. all_players \in Table
    BY DEF Init, Table
  <2> QED BY <1>1, <2>1, <2>3, <2>4, NoFrame DEF Types
<1>3. Used(ip) = {} /\ Taken(all_players) = {}
  BY <1>1 DEF Used, Taken
<1>4. TableInv(ip, all_players, num_player)
  <2>1. IsFiniteSet({}) /\ Cardinality({}) = 0
    BY FS_EmptySet
  <2> QED BY <1>1, <1>3, <2>1 DEF TableInv
<1>5. CountInv(object, ip)
  <2> SUFFICES ASSUME NEW o \in Objects
               PROVE  object[o].refs = Cardinality(Owned(ip, o))
    BY DEF CountInv
  <2>1. Owned(ip, o) = {}
    BY <1>0, <1>1 DEF Owned
  <2> QED BY <1>1, <2>1, FS_EmptySet
<1>6. OwnerInv(object, ip, failed)
  BY <1>1, <1>3 DEF OwnerInv, Objects
<1>7. SessionInv(ip, session)
  BY <1>1, <1>3 DEF SessionInv
<1>8. SnoopInv(ip)
  <2>1. NoLoop(ip)
    <3> SUFFICES ASSUME NEW S \in (SUBSET Rec) \ {{}}
                 PROVE  \E r \in S : ip[r].snoop_on \notin S
      BY DEF NoLoop
    <3>0. S # {} /\ S \subseteq Rec
      OBVIOUS
    <3>1. PICK r \in S : r \in Rec
      BY <3>0
    <3>2. ip[r].snoop_on = None /\ None \notin S
      BY <1>0, <1>1, <3>1
    <3> QED BY <3>1, <3>2
  <2> QED BY <1>1, <2>1 DEF SnoopInv, PairedOn, PairedBy
<1>9. HeldInv(ip, session, failed, stack)
  BY <1>1, <1>3 DEF HeldInv
<1>10. FreeInv(ip)
  BY <1>1 DEF FreeInv
<1> QED BY <1>1, <1>2, <1>4, <1>5, <1>6, <1>7, <1>8, <1>9, <1>10, NoFrame
        DEF Inv

\* Every operation keeps the invariant.
LEMMA NextInv == Inv /\ [Next]_vars => Inv'
<1> SUFFICES ASSUME Inv, [Next]_vars PROVE Inv'
  OBVIOUS
<1>1. ASSUME NEW s \in Sess, telnet_accept(s) PROVE Inv'
  BY <1>1, AcceptKeeps
<1>2. ASSUME NEW s \in Sess, Raw(s) PROVE Inv'
  BY <1>2, RawKeeps
<1>3. ASSUME NEW s \in Sess, Input(s) PROVE Inv'
  BY <1>3, InputKeeps
<1>4. ASSUME NEW s \in Sess, Disconnect(s) PROVE Inv'
  BY <1>4, DisconnectKeeps
<1>5. ASSUME NEW s \in Sess, Shutdown(s) PROVE Inv'
  BY <1>5, ShutdownKeeps
<1>6. CASE Alarm
  BY <1>6, AlarmKeeps
<1>7. CASE remove_destructed_objects
  BY <1>7, RemoveDestructedKeeps
<1>8. CASE exec
  BY <1>8, ExecKeeps
<1>9. CASE set_snoop
  BY <1>9, SnoopKeeps
<1>10. CASE input_to
  BY <1>10, InputToKeeps
<1>11. CASE destruct_object
  BY <1>11, DestructKeeps
<1>12. CASE Resume
  BY <1>12, ResumeKeeps
<1>13. CASE Return
  BY <1>13, ReturnKeeps
<1>14. CASE Fail
  BY <1>14, ErrorKeeps DEF Fail
<1>15. CASE UNCHANGED vars
  BY <1>15 DEF vars, Inv, Types
<1> QED BY <1>1, <1>2, <1>3, <1>4, <1>5, <1>6, <1>7, <1>8, <1>9, <1>10, <1>11,
           <1>12, <1>13, <1>14, <1>15 DEF Next

\* The inductive invariant holds in every reachable state.
THEOREM Invariance == Spec => []Inv
<1>1. Init => Inv
  BY InitInv
<1>2. Inv /\ [Next]_vars => Inv'
  BY NextInv
<1> QED BY <1>1, <1>2, PTL DEF Spec

\* num_player and the references of objects stay within MAX_PLAYERS, and
\* all state has its type.
THEOREM TypesCorrect == Spec => []TypeOK
<1>1. Inv => TypeOK
  <2> SUFFICES ASSUME Inv PROVE TypeOK
    OBVIOUS
  <2>1. /\ ip \in Records /\ all_players \in Table /\ num_player \in Int
        /\ TableInv(ip, all_players, num_player) /\ CountInv(object, ip)
        /\ object \in ObjectTable
    BY DEF Inv, Types
  <2>2. /\ num_player \in 0 .. MAX_PLAYERS
        /\ \A o \in Objects : object[o].refs \in 0 .. MAX_PLAYERS
    BY <2>1, Bounds DEF CountInv
  <2>3. object \in [Objects -> [is : {"fresh", "live", "destructed"},
                                interactive : Rec \cup {None},
                                refs : 0 .. MAX_PLAYERS]]
    BY <2>1, <2>2 DEF ObjectTable, ObjectFields
  <2> QED BY <2>2, <2>3 DEF Inv, Types, TypeOK, Records, Record, Table,
                            Sessions, Control, Operation
<1> QED BY <1>1, Invariance, PTL

\* The table, the records, the objects and the sessions agree about who is
\* connected, for any number of players and any nesting of operations.
THEOREM TableAgrees == Spec => []TableExact
<1>1. Inv => TableExact
  <2> SUFFICES ASSUME Inv PROVE TableExact
    OBVIOUS
  <2>1. /\ TableInv(ip, all_players, num_player) /\ CountInv(object, ip)
        /\ OwnerInv(object, ip, failed) /\ SessionInv(ip, session)
    BY DEF Inv
  <2>2. Allocated = Used(ip) /\ None \notin Used(ip)
    BY InteractiveAssumption DEF Allocated, Used
  <2>3. num_player = Cardinality(Allocated)
    BY <2>1, <2>2 DEF TableInv
  <2>4. {all_players[i] : i \in Slots} \ {None} = Allocated
    <3>1. ASSUME NEW x \in {all_players[i] : i \in Slots}, x # None
          PROVE  x \in Used(ip)
      BY <2>1, <3>1 DEF TableInv
    <3>2. ASSUME NEW x \in Used(ip)
          PROVE  x \in {all_players[i] : i \in Slots}
      <4>1. PICK i \in Slots : all_players[i] = x
        BY <2>1, <3>2 DEF TableInv
      <4> QED BY <4>1
    <3> QED BY <2>2, <3>1, <3>2
  <2>5. Cardinality({i \in Slots : all_players[i] # None}) = num_player
    BY <2>1 DEF TableInv, Taken
  <2>6. \A r \in Allocated :
          \/ ip[r].ob \in Live /\ interactive(ip[r].ob) = r
          \/ ip[r].ob = Master /\ ip[r].tp \in failed
    BY <2>1, <2>2 DEF OwnerInv, Live, interactive
  <2>7. \A o \in Obj : interactive(o) # None => ip[interactive(o)].ob = o
    BY <2>1 DEF OwnerInv, interactive
  <2>8. \A o \in Objects :
          object[o].refs = Cardinality({r \in Allocated : ip[r].ob = o})
    <3> SUFFICES ASSUME NEW o \in Objects
                 PROVE  object[o].refs = Cardinality({r \in Allocated : ip[r].ob = o})
      OBVIOUS
    <3>1. {r \in Allocated : ip[r].ob = o} = Owned(ip, o)
      BY InteractiveAssumption DEF Owned, Allocated, Objects
    <3> QED BY <2>1, <3>1 DEF CountInv
  <2>9. /\ \A r \in Allocated : session[ip[r].tp].ip \in {r, None}
        /\ \A s \in Sess : session[s].ip # None => ip[session[s].ip].tp = s
    BY <2>1, <2>2 DEF SessionInv
  <2> QED BY <2>3, <2>4, <2>5, <2>6, <2>7, <2>8, <2>9 DEF TableExact
<1> QED BY <1>1, Invariance, PTL

\* Every open session belongs to a player, will be cleaned up, or is known
\* as one whose login goes on or ended with an error.
THEOREM NoSessionHangs == Spec => []SessionsOwned
<1>1. Inv => SessionsOwned
  <2> SUFFICES ASSUME Inv PROVE SessionsOwned
    OBVIOUS
  <2> DEFINE accepting == {stack[n].s : n \in {m \in DOMAIN stack :
                               stack[m].op \in {"logon", "refused"}}}
  <2>1. /\ HeldInv(ip, session, failed, stack) /\ SessionInv(ip, session)
        /\ stack \in Seq(Operation)
    BY DEF Inv, Types
  <2>2. Allocated = Used(ip)
    BY DEF Allocated, Used
  <2>3. ASSUME NEW s, Accepts(stack, s) PROVE s \in accepting
    <3>1. 1 \in DOMAIN stack /\ stack[1].op \in {"logon", "refused"}
          /\ stack[1].s = s
      BY <2>1, <2>3 DEF Accepts, AcceptOps
    <3> QED BY <3>1
  <2> HIDE DEF accepting
  <2>4. \A s \in Sess : session[s].open /\ session[s].ip = None
          => "C" \in session[s].enabled \/ s \in accepting \cup failed
    BY <2>1, <2>3 DEF HeldInv
  <2>5. \A r \in Allocated :
          /\ session[ip[r].tp].open
          /\ session[ip[r].tp].ip = None => ip[r].tp \in accepting \cup failed
    BY <2>1, <2>2, <2>3 DEF HeldInv, SessionInv
  <2> QED BY <2>4, <2>5 DEF SessionsOwned, accepting
<1> QED BY <1>1, Invariance, PTL

\* snoop_on and snoop_by are inverse to each other, lead to records in use
\* and form no loop.
THEOREM SnoopsArePaired == Spec => []SnoopPaired
<1>1. Inv => SnoopPaired
  <2>1. Allocated = Used(ip)
    BY DEF Allocated, Used
  <2> QED BY <2>1 DEF Inv, SnoopInv, PairedOn, PairedBy, NoLoop, SnoopPaired
<1> QED BY <1>1, Invariance, PTL

=============================================================================
