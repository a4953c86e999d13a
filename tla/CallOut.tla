------------------------------ MODULE CallOut ------------------------------
(***************************************************************************)
(* The alarm queue of the game driver (src/src/call_out.c) inside the loop *)
(* that drives it (backend() in src/src/backend.c).                        *)
(*                                                                         *)
(* An LPC object asks for a delayed or repeating call with set_alarm().    *)
(* The object keeps its calls in a list sorted by due time; every object   *)
(* that has calls hangs in one slot of a timing wheel, the slot of the due *)
(* time of its first call, and the slots are sorted by that time too.      *)
(* backend() advances alarm_time, walks the wheel from `last' up to        *)
(* alarm_time firing what is due, computes how long select() may sleep     *)
(* and serves the players.  LPC code runs in three places of that loop     *)
(* (signal hooks, fired calls, handlers of descriptors) and may set and    *)
(* remove alarms, create, reload and destruct objects, or fail.            *)
(*                                                                         *)
(* Times are in ticks of 1/TIME_RES second.                                *)
(***************************************************************************)
EXTENDS Integers, Sequences, FiniteSets, SequencesExt

CONSTANTS
  Objects,        \* the objects that may exist, each created at most once
  NoObject,       \* the null object pointer
  Loaded,         \* the objects loaded before backend() starts
  Resident,       \* the objects that are reloaded when destructed
  Closures,       \* the objects whose functions alarms call
  NUM_SLOTS,      \* config.h: slots of the wheel
  HORIZON,        \* 60 * TIME_RES: how far next_call_out() looks ahead
  MAX_CALL_OUT,   \* config.h: most calls of one object
  Delays,         \* the delays LPC code asks for, in ticks; may be <= 0
  Reloads,        \* the repeat intervals LPC code asks for; may be <= 0
  MaxTime,        \* bound on alarm_time
  MaxId           \* bound on the number of alarms ever set

ASSUME SlotsAssumption ==
  /\ NUM_SLOTS \in Nat
  /\ HORIZON \in Nat
  /\ 1 < HORIZON
  /\ HORIZON < NUM_SLOTS          \* the #error in init_call_out()

ASSUME ObjectAssumption ==
  /\ NoObject \notin Objects
  /\ Loaded \subseteq Objects
  /\ Resident \subseteq Objects
  /\ Closures \subseteq Objects

ASSUME BoundAssumption ==
  /\ MAX_CALL_OUT \in Nat
  /\ Delays \subseteq Int
  /\ Reloads \subseteq Int
  /\ MaxTime \in Nat
  /\ MaxId \in Nat

VARIABLES
  alarm_time,     \* the clock, set once per round of backend()
  last,           \* the wheel has been walked up to, not including, last
  calls,          \* ob->call_outs of every object
  wheel,          \* call_outs[]: the chain of objects in each slot
  call_id,        \* the id the next alarm gets
  num_call,       \* the driver's own count of pending calls
  inhibit,        \* inhibitcallouts
  life,           \* where every object is in its life
  zombies,        \* destructed during this LPC activation; may still run
  current,        \* the call being executed by call_out()
  tv,             \* how long nd_select() may block; 0 outside of its wait
  pc              \* where backend() is

queue == <<last, calls, wheel, call_id, num_call>>
vars == <<alarm_time, last, calls, wheel, call_id, num_call, inhibit, life,
          zombies, current, tv, pc>>

-----------------------------------------------------------------------------
(* Types *)

\* struct call: func is reduced to the object the closure belongs to, and
\* command_giver (the player a call acts for) is left out.
Call == [id : Nat, when : Nat, reload : Nat, fun : Closures]

\* current_call_out_object and current_call_out_id (0: not repeating).
Current == [ob : Objects, id : Nat]
NoCurrent == [ob |-> NoObject, id |-> 0]

\* none: not loaded yet; live; destructed: on obj_list_destruct; gone: freed.
Lives == {"none", "live", "destructed", "gone"}

Phases == {"top", "clean", "signals", "scan", "lpc", "failed", "select",
           "handlers", "fatal"}

Slots == 0 .. NUM_SLOTS - 1

-----------------------------------------------------------------------------
(* The two-level queue *)

Slot(w) == w % NUM_SLOTS

HeadWhen(cs, o) == cs[o][1].when

\* Mutants of the two searches below: put a call or an object last.
CallPlaceLast(list, w) == Len(list) + 1
ObjectPlaceLast(chain, cs, w) == Len(chain) + 1

\* Where insert_call_out() and call_out() put a call due at w: before the
\* first one that is not due earlier.
CallPlace(list, w) ==
  Min({i \in 1 .. Len(list) : list[i].when >= w} \cup {Len(list) + 1})

InsertCall(list, c) == InsertAt(list, CallPlace(list, c.when), c)

\* The same search along a chain of objects in a slot.
ObjectPlace(chain, cs, w) ==
  Min({i \in 1 .. Len(chain) : HeadWhen(cs, chain[i]) >= w}
        \cup {Len(chain) + 1})

\* The place of object o in a chain; Len(chain) + 1 when it is not there.
ChainPlace(chain, o) ==
  Min({i \in 1 .. Len(chain) : chain[i] = o} \cup {Len(chain) + 1})

\* Take object o out of its slot, if it has calls.
Unlink(wh, cs, o) ==
  IF cs[o] = <<>> THEN wh
  ELSE [wh EXCEPT ![Slot(HeadWhen(cs, o))] = RemoveAt(@, ChainPlace(@, o))]

\* Hang object o in the slot of its first call, if it has calls.
Link(wh, cs, o) ==
  IF cs[o] = <<>> THEN wh
  ELSE [wh EXCEPT ![Slot(HeadWhen(cs, o))] =
          InsertAt(@, ObjectPlace(@, cs, HeadWhen(cs, o)), o)]

\* The fatal() of every search for an object in its slot.
Lost(o) ==
  /\ calls[o] # <<>>
  /\ o \notin ToSet(wheel[Slot(HeadWhen(calls, o))])

SameHead(a, b) == a # <<>> /\ b # <<>> /\ a[1] = b[1]

\* Mutant of SetCalls: an object that has calls stays in its slot.
SetCallsStay(o, list) ==
  /\ calls' = [calls EXCEPT ![o] = list]
  /\ wheel' = IF calls[o] # <<>> /\ list # <<>> THEN wheel
              ELSE Link(Unlink(wheel, calls, o), calls', o)

\* Give object o the list `list'; the wheel is touched only when the first
\* call changes.
SetCalls(o, list) ==
  /\ calls' = [calls EXCEPT ![o] = list]
  /\ wheel' = IF SameHead(calls[o], list) THEN wheel
              ELSE Link(Unlink(wheel, calls, o), calls', o)

\* The phase after an operation that searches o's slot if `touched'.
After(o, touched, next) ==
  pc' = IF touched /\ Lost(o) THEN "fatal" ELSE next

-----------------------------------------------------------------------------
(* The operations of call_out.c *)

NewCall(delay, reload, f) ==
  [id     |-> call_id,
   when   |-> alarm_time + (IF delay <= 0 THEN 1 ELSE delay),
   reload |-> IF reload <= 0 THEN 0 ELSE reload,
   fun    |-> f]

new_call_out(o, delay, reload, f) ==
  LET c == NewCall(delay, reload, f)
      list == InsertCall(calls[o], c)
  IN  /\ SetCalls(o, list)
      /\ call_id' = call_id + 1
      /\ num_call' = num_call + 1
      /\ pc' = IF c.when < last \/ (list[1] = c /\ Lost(o))
               THEN "fatal" ELSE pc

delete_call(o, i, next) ==
  /\ SetCalls(o, RemoveAt(calls[o], i))
  /\ num_call' = num_call - 1
  /\ After(o, i = 1, next)

\* Mutant of delete_all_calls: counts one call.
DeleteAllCountsOne(o, next) ==
  /\ SetCalls(o, <<>>)
  /\ num_call' = num_call - 1
  /\ After(o, TRUE, next)

delete_all_calls(o, next) ==
  /\ SetCalls(o, <<>>)
  /\ num_call' = num_call - Len(calls[o])
  /\ After(o, TRUE, next)

call_out_swap_objects(o1, o2) ==
  LET out == Unlink(Unlink(wheel, calls, o1), calls, o2)
  IN  /\ calls' = [calls EXCEPT ![o1] = calls[o2], ![o2] = calls[o1]]
      /\ wheel' = Link(Link(out, calls', o1), calls', o2)
      /\ pc' = IF Lost(o1) \/ Lost(o2) THEN "fatal" ELSE pc

\* next_call_out(): the slots from last on, up to the slot HORIZON ahead.
ScanLength ==
  LET n == (alarm_time + HORIZON - last) % NUM_SLOTS
  IN  IF n = 0 THEN NUM_SLOTS ELSE n

\* Mutants of Hits: skip the slot at last; take a call of any later lap.
HitsAfterLast ==
  {k \in 1 .. ScanLength - 1 :
     LET chain == wheel[Slot(last + k)]
     IN  chain # <<>> /\ HeadWhen(calls, chain[1]) - alarm_time < HORIZON}
HitsAnyLap ==
  {k \in 0 .. ScanLength - 1 : wheel[Slot(last + k)] # <<>>}

\* The number of slots after last at which an alarm is found soon enough.
Hits ==
  {k \in 0 .. ScanLength - 1 :
     LET chain == wheel[Slot(last + k)]
     IN  chain # <<>> /\ HeadWhen(calls, chain[1]) - alarm_time < HORIZON}

next_call_out ==
  IF Hits = {} THEN HORIZON
  ELSE LET w == HeadWhen(calls, wheel[Slot(last + Min(Hits))][1])
       IN  IF w < alarm_time THEN 0 ELSE w - alarm_time

-----------------------------------------------------------------------------
(* The main loop *)

\* The O_DESTRUCTED flag.
Destructed(o) == life[o] \in {"destructed", "gone"}

\* The driver starts in preload_objects(), which runs LPC code before the
\* first round of backend().
Init ==
  /\ alarm_time = 0
  /\ last = 0
  /\ calls = [o \in Objects |-> <<>>]
  /\ wheel = [s \in Slots |-> <<>>]
  /\ call_id = 1
  /\ num_call = 0
  /\ inhibit = FALSE
  /\ life = [o \in Objects |-> IF o \in Loaded THEN "live" ELSE "none"]
  /\ zombies = {}
  /\ current = NoCurrent
  /\ tv = 0
  /\ pc = "handlers"

\* The start of a round: set_current_time().
BackendTop ==
  /\ pc = "top"
  /\ \E t \in alarm_time .. MaxTime : alarm_time' = t
  /\ pc' = "clean"
  /\ UNCHANGED <<queue, inhibit, life, zombies, current, tv>>

\* Mutant of Destruct2: the calls set after destruct_object() are kept.
Destruct2KeepsCalls(o) ==
  /\ pc = "clean"
  /\ life[o] = "destructed"
  /\ life' = [life EXCEPT ![o] = "gone"]
  /\ UNCHANGED <<alarm_time, queue, inhibit, zombies, current, tv, pc>>

\* One round of the loop in remove_destructed_objects().
Destruct2(o) ==
  /\ pc = "clean"
  /\ life[o] = "destructed"
  /\ delete_all_calls(o, pc)
  /\ life' = [life EXCEPT ![o] = "gone"]
  /\ UNCHANGED <<alarm_time, last, call_id, inhibit, zombies, current, tv>>

\* No destructed object is left: deliver_signals() may run LPC code.
DeliverSignals ==
  /\ pc = "clean"
  /\ \A o \in Objects : life[o] # "destructed"
  /\ pc' = "signals"
  /\ UNCHANGED <<alarm_time, queue, inhibit, life, zombies, current, tv>>

\* call_out() up to its loop, with its two early returns.
CallOutEnter ==
  /\ pc = "signals"
  /\ tv' = IF inhibit THEN HORIZON
           ELSE IF last >= alarm_time THEN next_call_out ELSE 0
  /\ pc' = IF inhibit \/ last >= alarm_time THEN "select" ELSE "scan"
  /\ zombies' = {}
  /\ UNCHANGED <<alarm_time, queue, inhibit, life, current>>

\* Mutant of Due: whatever hangs in the slot, of whatever lap.
DueAnyLap == wheel[Slot(last)] # <<>>

\* The test of the inner loop of call_out().
Due ==
  /\ wheel[Slot(last)] # <<>>
  /\ HeadWhen(calls, wheel[Slot(last)][1]) <= last

\* The call fired, as call_out() leaves it when it is repeating.
Rescheduled(c) ==
  [c EXCEPT !.when = alarm_time + c.reload]

FireCall ==
  /\ pc = "scan"
  /\ last <= alarm_time
  /\ Due
  /\ LET o == wheel[Slot(last)][1]
         c == calls[o][1]
         rest == Tail(calls[o])
         again == Rescheduled(c)
     IN  /\ SetCalls(o, IF c.reload > 0 THEN InsertCall(rest, again) ELSE rest)
         /\ num_call' = IF c.reload > 0 THEN num_call ELSE num_call - 1
         /\ current' = [ob |-> o, id |-> IF c.reload > 0 THEN c.id ELSE 0]
         /\ pc' = IF c.reload > 0 /\ again.when < last THEN "fatal"
                  ELSE IF Destructed(c.fun) THEN "failed"   \* call_var()
                  ELSE "lpc"
  /\ zombies' = {}
  /\ UNCHANGED <<alarm_time, last, call_id, inhibit, life, tv>>

\* Mutant of ScanNext: leap over the slots up to the clock.
ScanNextLeaps ==
  /\ pc = "scan"
  /\ last <= alarm_time
  /\ ~Due
  /\ last' = alarm_time + 1
  /\ UNCHANGED <<alarm_time, calls, wheel, call_id, num_call, inhibit, life,
                 zombies, current, tv, pc>>

\* Nothing more is due in the slot.
ScanNext ==
  /\ pc = "scan"
  /\ last <= alarm_time
  /\ ~Due
  /\ last' = last + 1
  /\ UNCHANGED <<alarm_time, calls, wheel, call_id, num_call, inhibit, life,
                 zombies, current, tv, pc>>

ScanDone ==
  /\ pc = "scan"
  /\ last > alarm_time
  /\ tv' = next_call_out
  /\ pc' = "select"
  /\ UNCHANGED <<alarm_time, queue, inhibit, life, zombies, current>>

\* The called function returns.
CallOutReturn ==
  /\ pc = "lpc"
  /\ current' = NoCurrent
  /\ zombies' = {}
  /\ pc' = "scan"
  /\ UNCHANGED <<alarm_time, queue, inhibit, life, tv>>

\* The positions of the calls with a given id in an object's list.
CallsWithId(o, id) == {i \in 1 .. Len(calls[o]) : calls[o][i].id = id}

\* Mutant of CallOutError: the call stays on.
CallOutErrorKeepsCall ==
  /\ pc \in {"lpc", "failed"}
  /\ pc' = "scan"
  /\ current' = NoCurrent
  /\ zombies' = {}
  /\ UNCHANGED <<alarm_time, queue, inhibit, life, tv>>

\* Mutant of CallOutError: all calls of the object are lost.
CallOutErrorDropsAll ==
  /\ pc \in {"lpc", "failed"}
  /\ IF current.id # 0 THEN delete_all_calls(current.ob, "scan")
     ELSE pc' = "scan" /\ UNCHANGED <<calls, wheel, num_call>>
  /\ current' = NoCurrent
  /\ zombies' = {}
  /\ UNCHANGED <<alarm_time, last, call_id, inhibit, life, tv>>

\* The function fails: a repeating call is turned off.
CallOutError ==
  /\ pc \in {"lpc", "failed"}
  /\ IF current.id # 0 /\ CallsWithId(current.ob, current.id) # {}
     THEN delete_call(current.ob, Min(CallsWithId(current.ob, current.id)),
                      "scan")
     ELSE pc' = "scan" /\ UNCHANGED <<calls, wheel, num_call>>
  /\ current' = NoCurrent
  /\ zombies' = {}
  /\ UNCHANGED <<alarm_time, last, call_id, inhibit, life, tv>>

\* nd_select() has waited, and serves one more descriptor.
Handler ==
  /\ pc \in {"select", "handlers"}
  /\ pc' = "handlers"
  /\ zombies' = {}
  /\ tv' = 0
  /\ UNCHANGED <<alarm_time, queue, inhibit, life, current>>

\* nd_select() is done.  try_to_swap() leaves the alarms alone.
SelectDone ==
  /\ pc \in {"select", "handlers"}
  /\ pc' = "top"
  /\ zombies' = {}
  /\ tv' = 0
  /\ UNCHANGED <<alarm_time, queue, inhibit, life, current>>

\* An error in LPC code outside of an alarm: longjmp() to the loop's top.
LpcError ==
  /\ pc \in {"signals", "handlers"}
  /\ pc' = "top"
  /\ zombies' = {}
  /\ UNCHANGED <<alarm_time, queue, inhibit, life, current, tv>>

-----------------------------------------------------------------------------
(* What LPC code may do *)

InLpc == pc \in {"signals", "lpc", "handlers"}

\* o may be current_object: it is live, or was destructed while it ran.
Running(o) == InLpc /\ (life[o] = "live" \/ o \in zombies)

\* f_set_alarm(): a closure of a destructed object is ignored.
SetAlarm(o, f, delay, reload) ==
  /\ Running(o)
  /\ life[f] = "live"
  /\ Len(calls[o]) < MAX_CALL_OUT
  /\ call_id <= MaxId
  /\ new_call_out(o, delay, reload, f)
  /\ UNCHANGED <<alarm_time, last, inhibit, life, zombies, current, tv>>

\* f_set_alarm() in an object that has MAX_CALL_OUT alarms.  The error may
\* be caught by the LPC code.
TooManyAlarms(o) ==
  /\ Running(o)
  /\ \E f \in Closures : life[f] = "live"
  /\ Len(calls[o]) >= MAX_CALL_OUT
  /\ delete_all_calls(o, pc)
  /\ UNCHANGED <<alarm_time, last, call_id, inhibit, life, zombies, current,
                 tv>>

\* f_remove_alarm()
RemoveAlarm(o, id) ==
  /\ Running(o)
  /\ CallsWithId(o, id) # {}
  /\ delete_call(o, Min(CallsWithId(o, id)), pc)
  /\ UNCHANGED <<alarm_time, last, call_id, inhibit, life, zombies, current,
                 tv>>

\* load_object() or clone_object()
Create(o) ==
  /\ InLpc
  /\ life[o] = "none"
  /\ life' = [life EXCEPT ![o] = "live"]
  /\ UNCHANGED <<alarm_time, queue, inhibit, zombies, current, tv, pc>>

\* destruct_object() up to the point where the object is really destructed.
Destruct(o) ==
  /\ InLpc
  /\ life[o] = "live"
  /\ o \notin Resident
  /\ delete_all_calls(o, pc)
  /\ life' = [life EXCEPT ![o] = "destructed"]
  /\ zombies' = zombies \cup {o}
  /\ UNCHANGED <<alarm_time, last, call_id, inhibit, current, tv>>

\* destruct_object() of a resident object: a copy n is loaded and takes over
\* the calls; it is then destructed in place of o, unless an error strikes in
\* the LPC hooks that run before.
Reload(o, n) ==
  /\ InLpc
  /\ o \in Resident
  /\ n \notin Resident
  /\ life[o] = "live"
  /\ life[n] = "none"
  /\ call_out_swap_objects(o, n)
  /\ life' = [life EXCEPT ![n] = "live"]
  /\ UNCHANGED <<alarm_time, last, call_id, num_call, inhibit, zombies,
                 current, tv>>

\* The inhibitcallouts command of debug().
InhibitCallOuts ==
  /\ InLpc
  /\ inhibit' \in BOOLEAN
  /\ UNCHANGED <<alarm_time, queue, life, zombies, current, tv, pc>>

Loop ==
  \/ BackendTop \/ DeliverSignals \/ CallOutEnter \/ FireCall \/ ScanNext
  \/ ScanDone \/ CallOutReturn \/ CallOutError \/ SelectDone
  \/ \E o \in Objects : Destruct2(o)

Lpc ==
  \/ Handler \/ LpcError \/ InhibitCallOuts
  \/ \E o \in Objects : TooManyAlarms(o) \/ Create(o) \/ Destruct(o)
  \/ \E o \in Objects, id \in 1 .. MaxId : RemoveAlarm(o, id)
  \/ \E o, n \in Objects : Reload(o, n)
  \/ \E o \in Objects, f \in Closures, delay \in Delays, reload \in Reloads :
       SetAlarm(o, f, delay, reload)

Next == Loop \/ Lpc

Spec == Init /\ [][Next]_vars

-----------------------------------------------------------------------------
(* Properties *)

TypeOK ==
  /\ alarm_time \in Nat
  /\ last \in Nat
  /\ calls \in [Objects -> Seq(Call)]
  /\ wheel \in [Slots -> Seq(Objects)]
  /\ call_id \in Nat \ {0}
  /\ num_call \in Int
  /\ inhibit \in BOOLEAN
  /\ life \in [Objects -> Lives]
  /\ zombies \in SUBSET Objects
  /\ current \in Current \cup {NoCurrent}
  /\ tv \in 0 .. HORIZON
  /\ pc \in Phases

\* A list of calls is sorted by due time.
Sorted(list) ==
  \A i, j \in 1 .. Len(list) : i < j => list[i].when <= list[j].when

\* No call of a list is due before w.
NoneBefore(list, w) == \A i \in 1 .. Len(list) : list[i].when >= w

\* The wheel holds exactly the objects of S that have calls, each of them
\* once, in the slot of its first call, and its chains are sorted.
Indexes(wh, cs, S) ==
  /\ \A s \in Slots : \A i \in 1 .. Len(wh[s]) :
       /\ wh[s][i] \in S
       /\ cs[wh[s][i]] # <<>>
       /\ Slot(HeadWhen(cs, wh[s][i])) = s
  /\ \A s \in Slots : \A i, j \in 1 .. Len(wh[s]) :
       i < j => /\ wh[s][i] # wh[s][j]
                /\ HeadWhen(cs, wh[s][i]) <= HeadWhen(cs, wh[s][j])
  /\ \A o \in S : cs[o] # <<>> =>
       \E i \in 1 .. Len(wh[Slot(HeadWhen(cs, o))]) :
         wh[Slot(HeadWhen(cs, o))][i] = o

\* The two-level queue is consistent after every operation: call_out.c never
\* finds an object missing from its slot, and first in a slot is due first.
WheelConsistent ==
  /\ \A o \in Objects : Sorted(calls[o])
  /\ Indexes(wheel, calls, Objects)

\* No pending call lies behind the point up to which call_out() has walked
\* the wheel, where it would wait for the wheel to come round again; and the
\* walk is never more than one tick ahead of the clock.
NoneBehind ==
  /\ \A o \in Objects : NoneBefore(calls[o], last)
  /\ last <= alarm_time + 1

\* No fatal() of call_out.c is ever reached.
NoFatal == pc # "fatal"

\* When backend() goes to sleep in nd_select() it wakes up no later than the
\* first pending call is due, and early only at the horizon.
NoOversleep ==
  pc = "select" /\ ~inhibit =>
    /\ \A o \in Objects : NoneBefore(calls[o], alarm_time + tv)
    /\ tv = HORIZON \/ \E o \in Objects : \E i \in 1 .. Len(calls[o]) :
                         alarm_time + tv = calls[o][i].when

\* Freed memory is out of reach: an object that is gone has no calls, and no
\* fired call belongs to an object that is destructed (a destructed object
\* that still runs can set new alarms; destruct2() deletes them).
NoCallsOfFreed ==
  /\ \A o \in Objects : life[o] \in {"none", "gone"} => calls[o] = <<>>
  /\ pc = "scan" /\ last <= alarm_time /\ Due => life[wheel[Slot(last)][1]] = "live"

\* Where the pending calls are: an object and a place in its list.
CallPlaces == UNION {{o} \X (1 .. Len(calls[o])) : o \in Objects}

\* The driver's count of calls, kept up by hand in every function that adds,
\* fires or deletes calls, is the number of calls in the lists.
NumCallExact == num_call = Cardinality(CallPlaces)

\* A call is fired when it is due and no other pending call was due before
\* it, whatever the clock has skipped and whatever the calls fired before it
\* have set, removed or destructed.
FiresInOrder ==
  [][current' # current /\ current' # NoCurrent =>
       LET c == calls[current'.ob][1]
       IN  /\ c.when <= alarm_time
           /\ \A o \in Objects : NoneBefore(calls[o], c.when)]_vars

\* A repeating call whose function fails is turned off: "Call out %s turned
\* off in %s." (call_out.c:591).
FailedIsOff ==
  [][CallOutError /\ current.id # 0 =>
       \A o \in Objects : \A i \in 1 .. Len(calls'[o]) :
         calls'[o][i].id # current.id]_vars

-----------------------------------------------------------------------------
(* Liveness *)

\* The loop takes its steps, LPC code returns (the eval cost limit ends any
\* that does not), and the clock moves on.
Fairness ==
  /\ WF_vars(Loop)
  /\ SF_vars(BackendTop /\ alarm_time' > alarm_time)
  /\ SF_vars(CallOutEnter)

FairSpec == Spec /\ Fairness

Pending(id) ==
  \E o \in Objects : \E i \in 1 .. Len(calls[o]) :
    calls[o][i].id = id /\ calls[o][i].when < MaxTime

\* A pending call is fired or removed unless alarms are inhibited.
EveryCallFires ==
  \A id \in 1 .. MaxId : Pending(id) ~> (~Pending(id) \/ inhibit)

-----------------------------------------------------------------------------
(* The promise the queue keeps *)

PendingCalls ==
  UNION {{[ob |-> o, id |-> calls[o][i].id, when |-> calls[o][i].when,
           reload |-> calls[o][i].reload] : i \in 1 .. Len(calls[o])}
         : o \in Objects}

\* The objects that are destructed, freed or not.
Dead == {o \in Objects : Destructed(o)}

Promise == INSTANCE Alarms WITH
  now <- alarm_time, pending <- PendingCalls, next_id <- call_id,
  fired <- current, NoCall <- NoCurrent, code <- InLpc, dead <- Dead

\* The timing wheel implements Alarms.  While the driver does its own work
\* (walking the wheel, sleeping, freeing objects) a pending call disappears or
\* changes only by being fired, when it is due, before any call due later and
\* once, or because its object's memory is freed; and LPC code changes no
\* other call than the one it sets or removes, or those of the one object it
\* destructs, overfills or reloads.
KeepsPromise == Promise!ASpec

=============================================================================
