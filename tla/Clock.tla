------------------------------- MODULE Clock -------------------------------
(***************************************************************************)
(* set_current_time() of src/src/port.c: the clock of the alarms, derived  *)
(* from the wall clock of the host, which may be set back or forward while *)
(* the driver runs.  backend() calls it once per round of its loop.        *)
(*                                                                         *)
(* gettimeofday() is one number here, wall, in ticks of 1/TIME_RES second: *)
(* tv_sec is wall \div TIME_RES and tv_usec * TIME_RES / 1000000 is        *)
(* wall % TIME_RES.                                                        *)
(***************************************************************************)
EXTENDS Integers

CONSTANTS
  TIME_RES,       \* config.h: ticks per second
  StartSecond,    \* the second of the wall clock the driver is started in
  Passes,         \* how many ticks may pass between two events
  Backs,          \* by how many ticks the wall clock may be set back
  Forwards,       \* by how many ticks it may be set forward
  MaxSets,        \* bound on how often it is set
  MaxAlarm,       \* bound on alarm_time, which a clock set back makes run on
  MaxElapsed      \* bound on the ticks that really pass

ASSUME ClockAssumption ==
  /\ TIME_RES \in Nat \ {0}
  /\ StartSecond \in Nat \ {0}
  /\ Passes \subseteq Nat
  /\ Backs \subseteq Nat
  /\ Forwards \subseteq Nat
  /\ MaxAlarm \in Nat
  /\ MaxSets \in Nat
  /\ MaxElapsed \in Nat

VARIABLES
  wall,             \* gettimeofday()
  alarm_base_time,  \* the second of wall at which alarm_time is 0
  alarm_last_time,  \* alarm_time as of the previous call
  alarm_time,       \* the time of the alarms
  elapsed,          \* the ticks since the start of StartSecond, in truth
  forward,          \* by how many ticks the wall clock was set forward
  sampled,          \* elapsed + forward as of the previous call
  back,             \* how often the wall clock was set back
  sets              \* how often it was set

vars == <<wall, alarm_base_time, alarm_last_time, alarm_time, elapsed,
          forward, sampled, back, sets>>

TypeOK ==
  /\ wall \in Nat
  /\ alarm_base_time \in Int
  /\ alarm_last_time \in Nat
  /\ alarm_time \in Nat
  /\ elapsed \in Nat
  /\ forward \in Nat
  /\ sampled \in Nat
  /\ back \in Nat
  /\ sets \in Nat

-----------------------------------------------------------------------------

\* Mutant: a wall clock that was set back is followed as it is.
RawTimeOnly(w, base, last) == [base |-> base, time |-> w - base * TIME_RES]

\* Mutant: the correction of a clock set back is made at every call.
AlwaysCorrects(w, base, last) ==
  LET raw == w - base * TIME_RES
      gap == IF raw < last THEN last - raw ELSE raw - last
  IN  [base |-> base - gap \div TIME_RES, time |-> last + TIME_RES]

\* The new base and time.  A base of 0 stands for none yet.  When the wall
\* clock is behind the last time returned, the base is moved back by the
\* whole seconds of the gap and the time is one second more than the last.
Follow(w, base, last) ==
  LET b == IF base = 0 THEN w \div TIME_RES ELSE base
      raw == w - b * TIME_RES
  IN  IF raw < last
        THEN [base |-> b - (last - raw) \div TIME_RES, time |-> last + TIME_RES]
        ELSE [base |-> b, time |-> raw]

\* The driver is started at any tick of StartSecond; main() has called
\* set_current_time() once, which sets the base.
Init ==
  /\ wall \in StartSecond * TIME_RES .. StartSecond * TIME_RES + TIME_RES - 1
  /\ alarm_base_time = wall \div TIME_RES
  /\ alarm_time = wall % TIME_RES
  /\ alarm_last_time = alarm_time
  /\ elapsed = alarm_time
  /\ sampled = alarm_time
  /\ forward = 0
  /\ back = 0
  /\ sets = 0

set_current_time ==
  LET f == Follow(wall, alarm_base_time, alarm_last_time)
  IN  /\ alarm_base_time' = f.base
      /\ alarm_time' = f.time
      /\ alarm_last_time' = f.time
      /\ sampled' = elapsed + forward
      /\ UNCHANGED <<wall, elapsed, forward, back, sets>>

\* Time passes.
Pass(d) ==
  /\ elapsed + d <= MaxElapsed
  /\ wall' = wall + d
  /\ elapsed' = elapsed + d
  /\ UNCHANGED <<alarm_base_time, alarm_last_time, alarm_time, forward,
                 sampled, back, sets>>

\* The operator or a time service sets the wall clock back, or forward.
SetBack(d) ==
  /\ sets < MaxSets
  /\ d <= wall
  /\ sets' = sets + 1
  /\ wall' = wall - d
  /\ back' = back + 1
  /\ UNCHANGED <<alarm_base_time, alarm_last_time, alarm_time, elapsed,
                 forward, sampled>>

SetForward(d) ==
  /\ sets < MaxSets
  /\ sets' = sets + 1
  /\ wall' = wall + d
  /\ forward' = forward + d
  /\ UNCHANGED <<alarm_base_time, alarm_last_time, alarm_time, elapsed,
                 sampled, back>>

Next ==
  \/ alarm_time <= MaxAlarm /\ set_current_time
  \/ \E d \in Passes : Pass(d)
  \/ \E d \in Backs : SetBack(d)
  \/ \E d \in Forwards : SetForward(d)

Spec == Init /\ [][Next]_vars

-----------------------------------------------------------------------------
(* Properties *)

\* "alarm_time must never move backwards" (the comment on
\* set_current_time()), whatever the wall clock does: call_out() walks its
\* wheel forward only.
NeverBackwards == [][alarm_time' >= alarm_time]_vars

\* As long as the wall clock is not set back, alarm_time is the time that
\* has passed, jumps forward included, to the tick.
FollowsWall == back = 0 => alarm_time = sampled

=============================================================================
