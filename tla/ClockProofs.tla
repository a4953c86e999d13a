---------------------------- MODULE ClockProofs ----------------------------
(***************************************************************************)
(* Proofs about the clock of the alarms, for every TIME_RES, every moment  *)
(* of the start and every way the wall clock is set.                       *)
(***************************************************************************)
EXTENDS Clock, TLAPS

\* What set_current_time() relies on from one call to the next: it returns
\* the time it remembers, and before the first jump back the base is still
\* the second the driver was started in.
IInv ==
  /\ TypeOK
  /\ alarm_last_time = alarm_time
  /\ back = 0 => /\ alarm_base_time = StartSecond
                 /\ wall = elapsed + forward + StartSecond * TIME_RES
                 /\ alarm_time = sampled
                 /\ sampled <= elapsed + forward

\* The base and the time computed by set_current_time() are integers, and
\* the time is at least the last one.
LEMMA FollowForward ==
  ASSUME NEW w \in Nat, NEW base \in Int, NEW last \in Nat
  PROVE  /\ Follow(w, base, last).base \in Int
         /\ Follow(w, base, last).time \in Nat
         /\ Follow(w, base, last).time >= last
<1> DEFINE b == IF base = 0 THEN w \div TIME_RES ELSE base
           raw == w - b * TIME_RES
<1>1. TIME_RES \in Nat /\ TIME_RES > 0
  BY ClockAssumption
<1>2. b \in Int
  BY <1>1
<1> HIDE DEF b
<1>3. raw \in Int
  BY <1>1, <1>2
<1> HIDE DEF raw
<1>4. CASE raw < last
  <2>1. (last - raw) \div TIME_RES \in Int
    BY <1>1, <1>3
  <2>2. Follow(w, base, last) = [base |-> b - (last - raw) \div TIME_RES,
                                 time |-> last + TIME_RES]
    BY <1>4 DEF Follow, raw, b
  <2> QED
    BY <2>1, <2>2, <1>1, <1>2
<1>5. CASE ~(raw < last)
  <2>1. Follow(w, base, last) = [base |-> b, time |-> raw]
    BY <1>5 DEF Follow, raw, b
  <2> QED
    BY <2>1, <1>2, <1>3, <1>5
<1> QED
  BY <1>4, <1>5

\* While the wall clock has only run and jumped forward, the time computed
\* is the wall clock less the start of StartSecond.
LEMMA FollowExact ==
  ASSUME NEW w \in Nat, NEW last \in Nat, NEW t \in Nat,
         w = t + StartSecond * TIME_RES,
         last <= t
  PROVE  Follow(w, StartSecond, last) = [base |-> StartSecond, time |-> t]
<1>1. StartSecond \in Nat /\ StartSecond # 0 /\ TIME_RES \in Nat
  BY ClockAssumption
<1>2. StartSecond * TIME_RES \in Nat
  BY <1>1
<1>3. w - StartSecond * TIME_RES = t
  BY <1>2
<1> QED
  BY <1>1, <1>3 DEF Follow

\* The second and the tick of a moment of StartSecond.
LEMMA StartOfSecond ==
  ASSUME NEW w \in StartSecond * TIME_RES
                     .. StartSecond * TIME_RES + TIME_RES - 1
  PROVE  /\ w \in Nat
         /\ w \div TIME_RES = StartSecond
         /\ w % TIME_RES \in Nat
         /\ w = (w % TIME_RES) + StartSecond * TIME_RES
<1>1. /\ TIME_RES \in Nat /\ TIME_RES > 0
      /\ StartSecond \in Nat
  BY ClockAssumption
<1>2. StartSecond * TIME_RES \in Nat
  BY <1>1
<1>3. w \in Nat
  BY <1>1, <1>2
<1>4. PICK r \in Nat : w = r + StartSecond * TIME_RES /\ r < TIME_RES
  <2>1. /\ w - StartSecond * TIME_RES \in Nat
        /\ w = (w - StartSecond * TIME_RES) + StartSecond * TIME_RES
        /\ w - StartSecond * TIME_RES < TIME_RES
    BY <1>1, <1>2, <1>3
  <2> QED
    BY <2>1
<1>5. w \div TIME_RES = StartSecond /\ w % TIME_RES = r
  BY <1>1, <1>3, <1>4
<1> QED
  BY <1>3, <1>4, <1>5

\* The inductive invariant holds of every behaviour of the clock.
THEOREM Invariance == Spec => []IInv
<1>1. Init => IInv
  <2> SUFFICES ASSUME Init PROVE IInv
    OBVIOUS
  <2>1. StartSecond \in Nat /\ TIME_RES \in Nat
    BY ClockAssumption
  <2>2. /\ wall \in Nat
        /\ wall \div TIME_RES = StartSecond
        /\ wall % TIME_RES \in Nat
        /\ wall = (wall % TIME_RES) + StartSecond * TIME_RES
    BY StartOfSecond DEF Init
  <2> QED
    BY <2>1, <2>2 DEF Init, IInv, TypeOK
<1>2. IInv /\ [Next]_vars => IInv'
  <2> SUFFICES ASSUME IInv, [Next]_vars PROVE IInv'
    OBVIOUS
  <2> USE DEF IInv, TypeOK
  <2>0. StartSecond \in Nat /\ TIME_RES \in Nat /\ StartSecond * TIME_RES \in Nat
    BY ClockAssumption
  <2>1. CASE set_current_time
    <3> DEFINE f == Follow(wall, alarm_base_time, alarm_last_time)
    <3>1. f.base \in Int /\ f.time \in Nat
      BY FollowForward
    <3>2. back = 0 => f = [base |-> StartSecond, time |-> elapsed + forward]
      BY FollowExact
    <3>3. /\ alarm_base_time' = f.base
          /\ alarm_time' = f.time
          /\ alarm_last_time' = f.time
          /\ sampled' = elapsed + forward
          /\ UNCHANGED <<wall, elapsed, forward, back, sets>>
      BY <2>1 DEF set_current_time
    <3> HIDE DEF f
    <3>4. TypeOK' /\ alarm_last_time' = alarm_time'
      BY <3>1, <3>3
    <3>5. ASSUME back = 0
          PROVE  alarm_base_time' = StartSecond /\ alarm_time' = sampled'
      <4>1. f.base = StartSecond /\ f.time = elapsed + forward
        BY <3>2, <3>5
      <4> QED
        BY <4>1, <3>3
    <3> QED
      BY <3>3, <3>4, <3>5
  <2>2. ASSUME NEW d \in Passes, Pass(d) PROVE IInv'
    <3>1. d \in Nat
      BY ClockAssumption
    <3> QED
      BY <2>0, <2>2, <3>1 DEF Pass
  <2>3. ASSUME NEW d \in Backs, SetBack(d) PROVE IInv'
    <3>1. d \in Nat
      BY ClockAssumption
    <3> QED
      BY <2>3, <3>1 DEF SetBack
  <2>4. ASSUME NEW d \in Forwards, SetForward(d) PROVE IInv'
    <3>1. d \in Nat
      BY ClockAssumption
    <3> QED
      BY <2>0, <2>4, <3>1 DEF SetForward
  <2>5. CASE UNCHANGED vars
    BY <2>5 DEF vars
  <2> QED
    BY <2>1, <2>2, <2>3, <2>4, <2>5 DEF Next
<1> QED
  BY <1>1, <1>2, PTL DEF Spec

\* Every variable of the clock keeps its type.
THEOREM ClockTypes == Spec => []TypeOK
<1>1. IInv => TypeOK
  BY DEF IInv
<1> QED
  BY <1>1, Invariance, PTL

\* As long as nobody sets the wall clock back, set_current_time() returns
\* the time that has passed.
THEOREM Exact == Spec => []FollowsWall
<1>1. IInv => FollowsWall
  BY DEF IInv, FollowsWall
<1> QED
  BY <1>1, Invariance, PTL

\* The comment on set_current_time() is right: however the wall clock is
\* set, alarm_time never moves backwards.
THEOREM Forward == Spec => NeverBackwards
<1>1. IInv /\ [Next]_vars => [alarm_time' >= alarm_time]_vars
  <2> SUFFICES ASSUME IInv, Next PROVE alarm_time' >= alarm_time
    OBVIOUS
  <2>1. CASE set_current_time
    <3>1. Follow(wall, alarm_base_time, alarm_last_time).time >= alarm_last_time
      BY FollowForward DEF IInv, TypeOK
    <3> QED
      BY <2>1, <3>1 DEF set_current_time, IInv
  <2>2. CASE UNCHANGED alarm_time
    BY <2>2 DEF IInv, TypeOK
  <2> QED
    BY <2>1, <2>2 DEF Next, Pass, SetBack, SetForward
<1> QED
  BY <1>1, Invariance, PTL DEF Spec, NeverBackwards

=============================================================================
