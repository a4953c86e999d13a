------------------------------- MODULE Alarms -------------------------------
(***************************************************************************)
(* What set_alarm(), remove_alarm() and the driver's clock promise to LPC  *)
(* code, with no wheel, no lists and no main loop: a set of pending calls, *)
(* and the call that is being executed.  The driver alternates between LPC *)
(* code and its own work.  On its own it does two things to the pending    *)
(* calls: it fires one, and it drops those of an object whose memory it    *)
(* frees.  A call is fired when it is due and in order of due time; the    *)
(* firing is seen in `fired', one call at a time; a one-shot call is then  *)
(* over, and a repeating one is due again `reload' ticks after the moment  *)
(* it was fired, until its function fails.  Everything else that happens   *)
(* to a pending call is asked for by LPC code while it runs.               *)
(***************************************************************************)
EXTENDS Integers

CONSTANTS
  Objects,
  NoCall     \* the value of `fired' while no call is executed

VARIABLES
  now,       \* the clock
  pending,   \* the pending calls
  next_id,   \* ids handed out so far are smaller
  fired,     \* the call being executed: its object, and its id if it repeats
  code,      \* LPC code runs
  dead       \* the objects that have been destructed

avars == <<now, pending, next_id, fired, code, dead>>

PendingCall == [ob : Objects, id : Nat, when : Nat, reload : Nat]

CallsOfObject(o) == {p \in pending : p.ob = o}

\* The driver starts with LPC code that loads the first objects.
AInit ==
  /\ now = 0
  /\ pending = {}
  /\ next_id = 1
  /\ fired = NoCall
  /\ code = TRUE
  /\ dead = {}

-----------------------------------------------------------------------------
(* The driver *)

Idle == ~code /\ fired = NoCall

Tick ==
  /\ Idle
  /\ now' \in Int
  /\ now' > now
  /\ UNCHANGED <<pending, next_id, fired, code, dead>>

FirstDue(p) ==
  /\ p \in pending
  /\ p.when <= now
  /\ \A q \in pending : p.when <= q.when

\* The function runs, or cannot be called at all.
Fire(p) ==
  /\ Idle
  /\ FirstDue(p)
  /\ pending' = (pending \ {p}) \cup
       (IF p.reload > 0 THEN {[p EXCEPT !.when = now + p.reload]} ELSE {})
  /\ fired' = [ob |-> p.ob, id |-> IF p.reload > 0 THEN p.id ELSE 0]
  /\ code' \in BOOLEAN
  /\ UNCHANGED <<now, next_id, dead>>

\* The function failed: a repeating call of the object that fired is off.
Failed ==
  /\ fired # NoCall
  /\ pending' = IF fired.id = 0 THEN pending
                ELSE {p \in pending : p.ob # fired.ob \/ p.id # fired.id}
  /\ fired' = NoCall
  /\ code' = FALSE
  /\ UNCHANGED <<now, next_id, dead>>

\* The memory of a destructed object is freed.
Free(o) ==
  /\ Idle
  /\ o \in dead
  /\ pending' = pending \ CallsOfObject(o)
  /\ UNCHANGED <<now, next_id, fired, code, dead>>

\* LPC code is entered outside of an alarm, and LPC code ends.
Begin ==
  /\ Idle
  /\ code' = TRUE
  /\ UNCHANGED <<now, pending, next_id, fired, dead>>

End ==
  /\ code
  /\ code' = FALSE
  /\ fired' = NoCall
  /\ UNCHANGED <<now, pending, next_id, dead>>

-----------------------------------------------------------------------------
(* LPC code *)

\* A new call is due in the future and has a new id.
Set(o) ==
  /\ code
  /\ pending' \in SUBSET PendingCall
  /\ \E p \in pending' \ pending :
       /\ p.ob = o
       /\ p.id = next_id
       /\ p.when > now
       /\ pending' = pending \cup {p}
  /\ next_id' = next_id + 1
  /\ UNCHANGED <<now, fired, code, dead>>

Remove(p) ==
  /\ code
  /\ p \in pending
  /\ pending' = pending \ {p}
  /\ UNCHANGED <<now, next_id, fired, code, dead>>

\* One alarm too many.
Overflow(o) ==
  /\ code
  /\ pending' = pending \ CallsOfObject(o)
  /\ UNCHANGED <<now, next_id, fired, code, dead>>

Destroy(o) ==
  /\ code
  /\ pending' = pending \ CallsOfObject(o)
  /\ dead' = dead \cup {o}
  /\ UNCHANGED <<now, next_id, fired, code>>

\* The calls of two objects are exchanged when a program is reloaded.
Exchange(o, n) ==
  /\ code
  /\ pending' = {[p EXCEPT !.ob = IF @ = o THEN n ELSE IF @ = n THEN o ELSE @] :
                   p \in pending}
  /\ UNCHANGED <<now, next_id, fired, code, dead>>

ANext ==
  \/ Tick \/ Failed \/ Begin \/ End
  \/ \E o \in Objects : Free(o) \/ Set(o) \/ Overflow(o) \/ Destroy(o)
  \/ \E o, n \in Objects : Exchange(o, n)
  \/ \E p \in pending : Remove(p) \/ Fire(p)

ASpec == AInit /\ [][ANext]_avars

=============================================================================
