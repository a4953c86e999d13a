# TLA+ models of the LPMud game driver

The repository holds an LPMud: the *game driver*, a C program under `src/src/`,
and the *mudlib*, the world written in LPC under `src/lib/`. The driver compiles
and runs LPC objects, serves players over telnet, calls LPC functions at set
times, and talks to a few helper services. It is a single process with one
loop, `backend()`, and no threads. What makes it hard is everything that happens
in the middle of something else: LPC code runs inside almost every operation of
the driver, may destruct the object the operation works on, and may leave the
operation through `longjmp()`; clients send, stop reading and disconnect at any
moment; signals and the wall clock come from outside.

This directory holds TLA+ modules for the parts of the driver that carry such
logic, configurations for TLC, and proofs checked by TLAPS. `PROJECT.json` maps
every definition to the lines it models and lists the runs, the mutants, the
findings, the hazards and the theorems.

    tlc -config CallOut_wheel.cfg MCCallOut      # one run
    tlapm CallOutProofs.tla                      # the proofs of one module

## 1. Inventory

Sources are under `src/src/`.

| Component | State it keeps | Operations | What is hard, and what makes it correct |
|---|---|---|---|
| **Alarm queue** `call_out.c` | per object a list of calls sorted by due time; a timing wheel of objects, `call_outs[NUM_SLOTS]`; `last`, `call_id`, `num_call`, the current call | `new_call_out`, `delete_call`, `delete_all_calls`, `call_out_swap_objects`, `next_call_out`, `call_out` | LPC code changes the queue in the middle of the walk, fails, destructs or reloads objects. Nothing is lost, fired early, twice or out of order; the loop never sleeps past an alarm |
| **Alarm clock** `port.c` | `alarm_time`, `alarm_base_time`, `alarm_last_time` | `set_current_time` | the wall clock is set back and forward. Never backwards, exact otherwise |
| **Main loop** `backend.c`, `signals.c` | where the loop is, its error context, pending signals | `backend`, `deliver_signals`, `remove_destructed_objects` | an error anywhere restarts the round. Everything not done yet is done in a later round |
| **Network queue** `nqueue.c` | a ring with a length and two pointers | `nq_putc`, `nq_getc`, `nq_puts`, `nq_recv`, `nq_send`, ... | partial socket operations at every position. A queue of bytes, no more and no less |
| **Descriptor manager** `ndesc.c` | the list of descriptors, their numbers and callback masks, the sets for `select()` | `nd_attach`, `nd_detach`, `nd_enable`, `nd_disable`, `nd_select`, `nd_gc` | callbacks detach and attach descriptors during a pass, numbers are reused and moved; the pass ends early. Nobody is called for another, everyone is served |
| **Telnet options** `telnet.c` | four states and a queue bit for each direction of an option | `telnet_do/dont/will/wont`, `telnet_neg_*` | requests cross. Both parties end up with the same idea |
| **Telnet session** `telnet.c` | four queues, eleven flags, the state of the interpreter of input | `telnet_accept`, the four callbacks, `telnet_output`, `telnet_detach`, the commands of the protocol | congestion, overflow, urgent data, disconnection and LPC code in between. No wake-up is lost, lines arrive as typed |
| **Interactive objects** `comm1.c` | `all_players[]`, `input_to`, snooping links, the prompt | `new_player`, `remove_interactive`, `replace_interactive`, `interactive_input`, `set_snoop`, `write_socket` | LPC hooks run between reading and using a record. Links are mutual, a line is executed once |
| **Service connections** `tcpsvc.c`, `udpsvc.c`, `net.c` | two queues and three flags per connection, the number of connections | the callbacks of a connection, the service call | request and answer share a queue. Every request gets its own answer |
| **Host name service** `hname.c` | requests to a resolver process, a ring of cached names | `hname_sendreq`, reply handling, restart | lost requests, late replies, death of the process. An answer goes to the one who asked |
| **Object lifecycle** `simulate.c`, `object.c` | environment and inventory, shadows, living names, the list of destructed objects | `load_object`, `clone_object`, `destruct_object`, `destruct2`, `move_object` | hooks in LPC run half-way through. Inventories are a forest, commands come from what is near, no freed object is reachable |
| **Object table** `otable.c`, `hash.c` | a hash table with move-to-front | `enter`, `remove`, `lookup` | It is the set of names of live objects |
| **Swapping** `swap.c` | the free list of the swap file | `swap_program`, `load_ob_from_swap`, ... | No two programs share a block |
| **Shared strings** `mstring.c` | a hash table with reference counts | `make_sstring`, `free_sstring` | Equal strings are one string while it is used |
| **Values** `mapping.c`, `array.c` | mappings that grow | insertion, iteration | iteration while the mapping changes |
| **Interpreter** `interpret.c`, `func_spec.c`, `simul_efun.c`, `interface.c` | value and control stack, error contexts | the instructions and efuns | errors unwind what was begun |
| Compiler, saved programs, parser, line editor, regular expressions, formatting, allocators, start-up | | | sequential text or memory processing; see section 8 |

How they interact: `backend()` repeats *set the clock; free destructed objects;
deliver signals; `call_out()`; `nd_select()`; swap*. `nd_select()` calls the
callbacks of the telnet sessions and the services; a telnet session calls
`interactive_input()`, which runs LPC commands; LPC code calls back into the
alarm queue (`set_alarm()`), the sessions (`write()`, `input_to()`), and the
object lifecycle. An LPC error is a `longjmp()` to the innermost error context:
that of `call_out()`, that of `interactive_input()`, or the one at the top of
`backend()`.

The full list of what is hard to test in this code is `hazards` in
`PROJECT.json`, each at its line.

## 2. Modules

    Alarms <-- refines -- CallOut <-- MCCallOut
                             ^
                       CallOutProofs

    ByteQueue <-- refines -- NQueue <-- NQueueProofs
    Clock <-- ClockProofs

    TelnetOptions <-- Negotiation <-- NegotiationProofs
          ^
        Telnet <-- MCTelnet
          ^
     TelnetProofs

    Ndesc <-- TcpSvc <-- Services <-- MCServices
                             ^
                       ServicesProofs

    Interactive <-- MCInteractive       World <-- MCWorld
         ^                                ^
    InteractiveProofs                 WorldProofs

* **CallOut**: the alarm queue inside the main loop. `calls[o]` is the list
  `ob->call_outs`, `wheel[s]` the chain `call_outs[s]`. `SetCalls` gives an
  object a new list and moves the object to another slot exactly when its first
  call has changed, which is what the four routines that insert and delete have
  in common. `call_out()` is broken into steps wherever LPC code may run:
  `CallOutEnter`, `FireCall` (unlink, reschedule, call), then any number of LPC
  operations, then `CallOutReturn` or `CallOutError`, then on with `ScanNext` to
  `ScanDone`. The wait of `nd_select()` is the phase `select`; the handlers of
  descriptors, the signal hooks and the preloading of objects are phases in
  which LPC code runs (`InLpc`). Every `fatal()` of the file is the phase
  `fatal`. `zombies` are objects destructed by the code that still runs in them:
  they can set alarms.
* **Alarms**: what `set_alarm()` promises, with a set of pending calls, the call
  that is being executed, and whether LPC code runs. When none does, a pending
  call disappears or changes only by being fired, when it is due and before any
  call due later, because its function failed, or because the memory of its
  object is freed. A lost call, an early one, one fired twice or out of order is
  no step of Alarms.
* **Clock**: `set_current_time()` and a wall clock anyone may set. CallOut
  does not rely on more than what is proved of Clock: `BackendTop` moves
  `alarm_time` to any later time.
* **NQueue**: the ring, cell by cell; the loops of `nq_puts()` and `nq_send()`
  take one run per step. **ByteQueue** is the queue it implements.
* **TelnetOptions**: the decision tables of option negotiation as operators on
  one direction. The two directions of `telnet.c` are copies of each other with
  the verbs exchanged, so one table serves both. Used by Negotiation and Telnet.
* **Negotiation**: driver and client negotiate one option over two channels, and
  `input_to()` with `noecho` uses ECHO.
* **Telnet**: one session under `nd_select()`: `Select` is the return of
  `select()`, `telnet_exception`, `telnet_write`, `telnet_read` and `Cleanup`
  the callbacks in the order in which they are called, `telnet_input()` one
  action per command of the protocol, `EolEnter` and `EolReturn` the call of
  `interactive_input()`. LPC code may write, quit and switch the echo between
  turns, between `select()` and the turn, and inside `interactive_input()`. The
  queues are sequences, which NQueue justifies; of the output and option queue
  only the length is kept. `typed` is a history variable: what the player has
  typed on this line.
* **Ndesc**: the descriptor manager. `dm` holds its variables, `files` is the
  descriptor table of the kernel, `pass` the local variables of `nd_select()`.
  A pass is a sequence of steps: `nd_select` (the return of `select()`),
  `NextDescriptor` (the head of the loop), one step for each callback that is
  due, and `nd_gc` (one round of the garbage collection). The owners of the
  descriptors extend the module; their callbacks change `dm` with `nd_attach`,
  `nd_detach`, `nd_enable` and `nd_disable`.
* **TcpSvc**: the connections of the service port, with one action for each of
  `tcpsvc_accept`, `tcpsvc_read`, `tcpsvc_write` and `tcpsvc_cleanup`, and the
  clients. `log` is a history variable: what a client sent, what the master
  object was asked, the answers, and what was written.
* **Services**: TcpSvc together with the UDP socket, whose LPC errors break off
  the pass, and the main loop that starts the next one.
* **Interactive**: the table of players, the records, and what is done to them.
  Each operation that runs LPC code pushes a frame on `stack`; while LPC code is
  on top, any operation may start again. An error drops the frames above one of
  those that can catch it. `session` is what Telnet models in detail: attached
  or not, and which callbacks are enabled.
* **World**: inventories, commands, shadows; `move_object()` and
  `destruct_object()` are frames on `stack` with their local variables, broken
  into steps wherever LPC code runs: `Unlink`, the destructors (`CallDtor`,
  `DtorOver`) and `Vanish` are the end of `destruct_object()`, and `dying` are
  the objects between the first and the last of them. An error in a destructor
  ends in `destruct_object()`. `living` is O_ENABLE_COMMANDS, which
  `enable_commands()` switches. `kept` is a history variable: the commands that
  were added while both objects were nowhere, or that the code did not remove
  when two objects parted because the one that has them was not living. With
  `Meddle = FALSE` LPC code lets an object alone while its destructors run.
* **CallOutProofs**, **ClockProofs**, **NQueueProofs**, **NegotiationProofs**,
  **TelnetProofs**, **ServicesProofs**, **InteractiveProofs**, **WorldProofs**:
  section 5. What inserting and removing does to a list, and that a minimum is
  least, is proved where it is used. The modules **MC**...: constants for TLC.

Definitions introduced by a comment *Mutant* are broken variants of the one that
follows; they are not used by any specification. Replacing the original by its
variant must make TLC report a violation of the property that `PROJECT.json`
names for it.

## 3. What is checked

| Run | Module | Distinct states | Properties |
|---|---|---|---|
| `wheel` | MCCallOut | 660,732 | TypeOK, WheelConsistent, NoneBehind, NoFatal, NoOversleep, NumCallExact, FiresInOrder, FailedIsOff, KeepsPromise |
| `objects` | MCCallOut | 201,390 | NoCallsOfFreed, KeepsPromise, EveryCallFires |
| `failed` | MCCallOut | violation | FailedIsOff |
| `clock` | Clock | 111,823 | TypeOK, FollowsWall, NeverBackwards |
| `ring` | NQueue | 3,904 | TypeOK, RingOK, KeepsBytes |
| `negotiation` | Negotiation | 3,335 | TypeOK, Agreement, EchoHonoured, Settles, Converges |
| `session` | MCTelnet | 1,716,914 | TypeOK, NoLostWakeup, LineIsTyped |
| `synch` | MCTelnet | 257,364 | NoLostWakeup, SynchEnds, InputResumed |
| `errors` | MCTelnet | violation | LineIsTyped |
| `services` | MCServices | 532,710 | TypeOK, DescriptorsOwned, Exchange, ToldBeforeClose, Answered |
| `players` | MCInteractive | 277,837 | TypeOK, TableExact, SnoopPaired, SessionsOwned |
| `world` | MCWorld | 2,043,058 | Containment, CommandsLocal |

*Alarms.* `WheelConsistent` is the invariant of the two-level queue; `NoneBehind`
says that the walk leaves no pending call behind, where it would wait for a whole
lap; `NoOversleep` that the sleep computed by `next_call_out()` ends exactly when
the first alarm is due or at the horizon; `NumCallExact` that the driver's
separate count of calls is right, `NoCallsOfFreed` that no freed object has calls
although destructed objects can set alarms while they still run. `FiresInOrder`
and `KeepsPromise` (the refinement of Alarms) say what LPC code sees.
`EveryCallFires` is the liveness of the whole: sleep, walk, error and resumption.

*Clock.* `NeverBackwards` is the comment of the source, `FollowsWall` the
accuracy as long as the wall clock is not set back.

*Queues and sessions.* `KeepsBytes` is the refinement of ByteQueue.
`Agreement`, `Settles` and `EchoHonoured` are the three things option
negotiation is for; `Converges` is why it settles: a measure of what is left to
be said, two for each message on the way and for each change of mind put off,
less one for each answer that somebody waits for, goes down with every message
handled. `NoLostWakeup` relates the callback mask to the queues;
`LineIsTyped` relates what LPC code gets to what was typed, through both input
queues; `SynchEnds` says that a session that discards input has the Data Mark
still before it; `InputResumed` that input that was read is not held up for ever
by the answers it causes: it is interpreted, or comes to wait for nothing but a
call of the clean-up callback. `InputHandled`, that all input is interpreted in the end,
is what the comment on `nd_select()` promises and the code does not do
(`ndesc.c:303` in section 6).

*Descriptors and services.* `DescriptorsOwned` says that a number always belongs
to the descriptor that uses it, through closing, reuse and `nd_gc()`, and that no
descriptor is called back for what `select()` found on another. `Exchange` says
that requests and answers are kept apart although they share a queue.
`ToldBeforeClose` is what the order of the callbacks is for: an error answer is
written before the connection is closed if the socket was ready. `Answered` is
the liveness of a connection: reading, collecting and writing each resume the
next, and a connection that is to be closed is closed.

*Players.* `TableExact` relates the table, `num_player`, the records, the
objects, their references and the sessions, in the middle of any nested
operation; `SnoopPaired` the links between records; `SessionsOwned` says which
sessions may be open without a player.

*World.* `Containment` is what the searches along inventories rely on;
`CommandsLocal` says which commands an object may have of others that are not
near it: those that `add_action()` accepted between two objects that are nowhere,
and those that were not removed because the object was not living. That there
are such commands is against the comment on `add_action()` (`simulate.c:1650` in
section 6). The run has `Meddle = FALSE`: a destructor that moves its own object
breaks `Containment`, and ends the driver (`simulate.c:988` in section 6).

### Bounds and why they are enough

* `wheel`: 4 slots, horizon 3, delays 0, 2 and 5: due at once, within the
  horizon, and more than a lap ahead; two calls per object, so that the limit is
  reached; two objects can share a slot, with either first. Time up to 6 is one
  and a half laps. No resident objects: the case in which `FailedIsOff` fails is
  the run `failed`.
* `objects`: a third object can be created, and is the copy through which a
  resident object is reloaded. Delay 1 and `MaxTime` 2 keep the liveness check
  small; the wheel does not turn here.
* `clock`: jumps smaller and larger than a second, in both directions, before
  and after each other (`MaxSets` 2).
* `ring`: 4 cells, so that a run can be cut by the end of the ring, by the read
  pointer and by both. Two bytes suffice: the operations never look at them.
* `negotiation`: 8 requests cover every crossing of two changes of mind of each
  party.
* `session`: queues of 2, 2, 1 and 8 bytes; the marks keep the order of the real
  ones (low-water 2, high-water 5, required 3). Two messages of a set that holds
  a line, an overlong one, one with an erased byte and CR NUL, one and a half
  lines and one command of each kind; they arrive in any pieces. LPC output of 3
  and 5 bytes: with what is queued, or alone, over the high-water mark.
* `synch`: four messages or Synch signals, so that a second Synch can move the
  mark before the first was reached, and output congested by answers.
* `errors`: two lines, and a canonical queue that holds both of them, so that the
  first one is seen to arrive again.
* `services`: two connections and `TCPSVC_MAX` 1, so that one can be too many;
  five numbers for four sockets, so that `nd_gc()` has somewhere to move them;
  queues of two characters that are filled by requests, answers that just fit
  and that do not, clients that send two characters ahead of what is read, and
  a socket that takes one character of an answer at a time. One datagram that
  may break off a pass.
* `players`: three of each of objects, records, sessions and slots: a snooper
  of a snooper, and a table that is full. Depth 5 is a destruct inside the hook
  of a destruct inside a command.
* `world`: a room, a thing outside of it that can enter it or become a shadow,
  and two living objects, one in the room and one outside, of which one can
  disable its commands; the thing has destructors. Three operations besides
  `add_action()`, nested as deeply as they can be: a move, and two more in the
  code it calls; or disabling, moving and enabling.

`MaxTime`, `MaxId`, `MaxAlarm`, `MaxElapsed`, `MaxSets`, `MaxAsked`, `MaxSent`,
`MaxTyped`, `MaxDatagrams`, `MaxDepth`, `MaxOps`, `SOCK_SIZE`, `RCVBUF_SIZE` and
`SNDBUF_SIZE` are bounds of the models, not of the code. Clock and Negotiation
stop when they are exhausted, so their runs do not check for deadlock; all
others do.

### Fairness

* CallOut: the main loop takes its steps (`WF(Loop)`): LPC code cannot stop it,
  since the interpreter ends code that exceeds its evaluation cost. The clock
  moves on when it is read again and again, and the loop gets back to
  `call_out()` even though LPC errors in signal hooks and handlers may start a
  round anew (both strong: an error in *every* round is excluded).
* Negotiation: what was sent arrives.
* Telnet: callbacks and LPC code end, and the loop calls `select()` again. A
  client that is sent something again and again takes some of it (strong: the
  socket becomes writable between LPC output). Nothing is assumed of other
  descriptors: that one further down the list is ready, which lets
  `nd_select()` get to the clean-up callback of this one, may never happen.
* Services: `WF(Driver)`: the loop calls `nd_select()` again and again and no
  callback blocks, since all sockets are non-blocking and LPC code ends. Clients
  read what has arrived; nothing else is asked of them.

## 4. Findings

Two runs report a violation of something the source says of itself.

* `failed` (`call_out.c:592`): a repeating alarm whose function reloads its own
  resident object and then fails is logged as "turned off", but is searched for
  in the wrong object and stays on.
* `errors` (`telnet.c:337`): an LPC error in `catch_tell()` of the prompt or of
  the snooper leaves `interactive_input()` outside of its error context and
  jumps over the `nq_init()` of `telnet_eol()`. The old line stays in the queue:
  the next line typed is lost and the old one executed again.

Section 6 has three more, with configurations that show them.

## 5. What is proved

The theorems hold for every value of the constants that satisfies the named
assumptions of the module, so in particular for the sizes the driver is built
with.

* **CallOutProofs** (assumptions: the horizon is less than a lap, which
  `init_call_out()` enforces with `#error`, and the types of the other
  constants). `TypeCorrect`, `QueueConsistent`, `NothingBehind`, `NeverFatal`
  and `FiringOrder`. The inductive invariant is `IInv == TypeOK /\
  WheelConsistent /\ NoneBehind /\ NoFatal`. None of the parts is inductive
  alone: the walk may pass a slot only because what is first in it is due first
  (sorted chains of sorted lists) and because an object with something due hangs
  in that slot and in no other; and the searches that end in `fatal()` succeed
  because of the same index. The lemmas follow the code: what `Unlink` and
  `Link` do to the index (`Indexes`, parameterised by the objects indexed, since
  between the two an object is in no slot), that inserting and removing keeps
  lists sorted, that `SetCalls` keeps the index, and then one lemma per
  operation. `FiringOrder` follows from the invariant in the state in which the
  call is taken: a call of another object that was due before would hang in an
  earlier slot, behind the walk, or before it in the same chain.

  The other results build on IInv, each with an invariant of its own.
  `NeverOversleeps`: `next_call_out()` looks at every slot up to the horizon, and
  by IInv what is due in that time is first in one of them. `FreedHasNoCalls`
  needs `FreedInv`: a destructed object that still runs can set alarms, but they
  lie after `alarm_time` until the clock is set again, and `destruct2()` deletes
  them before. `IdsUnique` (`IdInv`): no two pending calls have the same id. From
  it follows `WheelKeepsPromise`, the refinement of Alarms: lemma `StepEffect`
  says of every step which calls it adds to, takes from or moves between the
  lists, and for what cause; the causes (`FiredCause`, `LpcCause`, ...) are the
  guards of the actions of Alarms. `RunInv` relates the phases of the main loop
  to the two things Alarms sees of them, the call that is executed and whether
  LPC code runs. That a call is fired in order is `FiringOrder`.
  `CountExact` compares
  `num_call` with the number of places in the lists. `FailedCallIsOff` has the
  hypothesis that no object is resident: without it the property is false (run
  `failed`, section 4), because a call can pass to the reloaded object; with it
  only the executing object has a call with the id that is executed
  (`OwnsCurrent`).
* **ClockProofs** (assumption: a second has at least one tick). `ClockTypes`,
  `Exact` and `Forward`. The invariant adds that the time returned last is
  remembered and that the base is the second of the start until the first jump
  back. `Forward` needs no assumption about the wall clock at all.
* **NQueueProofs** (assumption: the ring has a cell). `QueueTypes` and
  `RingConsistent`: the pointers stay in the ring, so no operation touches
  memory outside of it. `RingKeepsBytes`: the ring implements ByteQueue. The
  abstract queue is what the cells from `nq_rptr` on hold, and the lemmas say
  what a cell written at `nq_wptr`, before `nq_rptr`, or a run of cells up to the
  end of the ring does to it.
* **NegotiationProofs** (no assumption but the types of the constants: any known
  option, any number of requests, clients that agree and clients that decline and
  ask themselves). `OptionTypes`, `PartiesAgree`, `EchoFollows` and
  `ExchangesEnd`. Each direction of the option is a conversation of its own: one
  party says WILL and WONT, the other DO and DONT, and the channels mix the two
  conversations. `Carries(ch, y, n, w)` says that channel `ch` holds, of the
  messages `y` and `n`, those of the word `w` in that order, by an increasing
  function from the places of `w` to those of `ch`; sending appends to the word,
  receiving takes its head or leaves it alone, and no filter has to be computed.
  `Agreement` is not inductive: it says nothing while something is on the way.
  The invariant says that the states of the two parties of a conversation and
  the two words on their way are one of twelve configurations (`Facing`), with
  the parties in either role (`Joint`): settled, asked, answered, answered and
  asked again, or crossed. There is one lemma for a request (`AskKeepsJoint`)
  and one for what is heard (`HearKeepsJoint`); the driver and the client, and
  both directions, are instances of them.

  `EchoFollows` has the hypothesis that the output queue has room for the
  request (`~Congested`); without it the property is false (the observation on
  `telnet.c:802` in section 6). `EchoInv` adds that the driver wants the option
  on once its requests are answered exactly while `noecho` is set (`Wants`), that
  `noecho` is set only while a function waits for a line, and that with a client
  that only agrees six configurations are left (`Served`).

  `ExchangesEnd` proves `Converges`, the part of `Settles` that is not about
  fairness: since what is left is a natural number and every message handled
  makes it smaller, only requests of LPC code or of the client keep an exchange
  going. That it gets smaller needs the invariant: an answer that a party waits
  for is not answered, and in the configurations in which two words are on their
  way the second is a request again (`HearSettles`).
* **TelnetProofs** (assumption `SizesAssumption`: the longest answer fits the
  room that is required; high-water mark and required room, and low-water mark
  and notice, fit the output queue; the constants of `telnet.c` satisfy it with
  9216, 8960, 256, 12, 12 and 20: the answer to Are You There is exactly as long
  as the room required, so that a longer GAME_VERSION or a PATCH_LEVEL above 99
  would break the assumption). `SessionTypes`: no queue is filled past its
  size. `WakeupKept`: no wake-up is lost. The inductive invariant is `TypeOK /\
  Wake`. `NoLostWakeup` alone is not inductive: it speaks of the moments between
  turns, and the code restores it from its flags. `Wake` says what the flags
  mean: TF_ENABW is set exactly when the write callback is off, reading is off
  only with TF_ENABR, flow control implies that something is being written, the
  exception callback is off only while the mark is still to come (`telnet_read`
  never reads past it), a detached session has its clean-up callback. The
  decisive step is `WrittenFacts`: when the last byte is written, flow control
  ends and no notice is owed, because the notice itself is output.

  `SynchAlwaysEnds` has the hypothesis `Compliant` about client and LPC code:
  CR is followed by another byte of the same message, commands are sent in one
  piece, no parameters of options (SB) are sent; and if LPC code fails, no CR is
  sent at all, since an error in `telnet_eol()` leaves the state CR, and the next
  byte, which may be the IAC of the Data Mark, is dropped. The constants of run
  `synch` satisfy it. `SynchInv` says that what is still to be interpreted, in
  the raw queue and in the kernel together, is complete from the state of the
  interpreter on, that the urgent byte is the second of IAC DM, and that
  discarding (TF_SYNCH) goes with a Data Mark among those bytes.

  `LinesAreTyped` has two hypotheses, both needed: no error in
  `interactive_input()` (run `errors` shows the violation) and no Synch (the
  observation on `telnet.c:1360` in section 6). `LineInv` says that the
  canonical queue holds what was typed, or that TF_OVFLCANQ is set and it is
  full of the beginning of a line that is too long.
* **ServicesProofs** (assumptions: the sockets are the connections, the
  listening socket and the UDP socket, and there are no more of them than
  descriptor numbers, so `accept()` never finds the table full:
  `tcpsvc_accept()` would end the driver with `fatal()` then).
  `ServicesDescriptorsOwned`. What DescriptorsOwned says of numbers
  (`NumbersOwned`) is kept by each function of `ndesc.c` alone, and there is a
  lemma for each. What it says of a pass is not: a descriptor attached in the
  middle of a pass could get the number of one that was closed in it, for which
  `select()` had found something. The inductive invariant `OwnedInv` adds
  `PassOrder`, the reason why it does not: the listening socket is first of the
  services in the list because `prepare_ipc()` attaches it before the others
  (the resolver is before all of them and not in the model, section 7); until it
  has had its callbacks nothing has been closed, so every number `select()`
  found is still in use and `accept()` returns another one (`AcceptKeeps`);
  after that nothing is attached. The pass goes on with a descriptor that is
  neither the one at hand nor the listening socket, so closing the one at hand
  leaves it attached (`CloseKeeps`). `nd_gc()` moves numbers only when no pass
  is under way (`GcMoves`).

  `ServicesTypes`, `ExchangesKept` and `ClosedAfterTelling` follow from `Inv ==
  OwnedInv /\ SvcInv`. `ConnOK` speaks of one connection: canonical queue holds
  the request that is being collected or the answer that is being written, and
  which of them follows from the enabled callbacks and TCPSVC_CLOSE; with what
  was asked before, the raw queue and the kernel it makes up all the client
  sent, or with what was written all the answers. One lemma for each thing that
  can happen to a connection shows that it keeps this. `Told` and `ToCome` are
  about the pass: an error answer is one character, a socket that `select()`
  found ready has room for it, the write callback comes before the clean-up
  callback, and the connections further on in the list still have the room that
  was found. Inv was also checked by TLC, on the instance of run `services` and
  on one with other queue sizes.
* **InteractiveProofs** (no assumption but the types of the constants: any number
  of objects, records, sessions, slots and nested operations). `TypesCorrect`,
  `TableAgrees`, `NoSessionHangs` and `SnoopsArePaired`. None of the four is
  inductive, because operations hold a slot, a session or an object in local
  variables while LPC code runs that may log out, destruct or exec anybody. The
  inductive invariant `Inv` adds `Shape`, which operation can be under which
  (a login, a command or an alarm is outermost), and `FrameOK`, what each
  operation finds when it goes on: the session being accepted has no callback
  enabled and no record but the one in the slot that was given to it, and an
  object whose destruction goes on has no connection any more. The tables are
  described by `FreeInv`, `TableInv` (no record in two slots, counted by
  cardinality), `OwnerInv`, `CountInv`, `SessionInv`, `SnoopInv` and `HeldInv`,
  all operators on the values of the variables, so that the lemmas are about
  what an action changes.
* **WorldProofs** (assumptions: finitely many objects, and nothing contains
  itself at first). `ObjectsContained` and `CommandsStayLocal`, at any depth of
  nested operations, with the hypothesis `~Meddle`: LPC code moves neither an
  object whose destructors run nor anything into it, and adds no command of it.
  It is needed (`simulate.c:988` in section 6). The inductive invariant speaks of the objects
  that are `Gone`, destructed or with their destructors running: what is not
  gone is in the list of its environment, which is not gone either, and the
  commands it has are near or `kept`, whether it is living or not, since it may
  become living. The types of the stack add that `destruct_object()` reaches the
  destructors with an object that is gone; the end of it then changes no list.
  That no object gets inside itself rests on the walk at the start of
  `move_object()`: no LPC code runs between the walk and the link. That nothing
  is in an object that is gone rests on the test of `destruct_object()`, made
  again after each call of LPC code, whether the object still exists and is
  empty. That an object has no other commands rests on `remove_sent()` in both
  directions when objects part, and on the test of `add_action()` when LPC code
  of a move that is out of date tries to add one.

Only model-checked: liveness (`EveryCallFires`, `Settles`, `InputResumed`,
`Answered`), which needs fairness and ENABLED. Every other property of a passing
run is stated by a theorem.

## 6. Observations

Each can be reproduced by the configuration or the change given.

* `ndesc.c:303` (`tlc -config Telnet_waiting.cfg MCTelnet` violates
  `InputHandled`): `nd_select()` leaves its loop when it has seen as many ready
  descriptors as `select()` counted, although its comment (line 283) says "If a
  clean-up callback has been enabled, call it last." Of two lines that arrive
  together the second waits until the player types again or a descriptor further
  down the list is ready; the newest session is the last of the list.
* `simulate.c:1650` (`tlc -config World_disabled.cfg MCWorld` violates
  `CommandsNear`): sentences are removed only from an object that has
  O_ENABLE_COMMANDS at that moment, and `enable_commands()` switches the flag
  without touching them. An object that is moved between `disable_commands()` and
  `enable_commands()` keeps the commands of the place it has left, until it comes
  back there and leaves again, although the comment on `add_action()` (line 2028)
  says "The object must be near the command giver, so that we ensure that the
  sentence is removed when the command giver leaves."
* `simulate.c:988` (`tlc -config World_destructor.cfg MCWorld` violates
  `FoundInSuper`): the destructors run when the object is out of the inventory it
  was in and its `super` still points there. A destructor that moves its object
  ends the driver in `move_object()`: "Failed to find object in super list". If
  the object had no `super` it is linked into the destination, stays there when
  it is destructed, and cuts off the rest of that inventory. A destructor that
  destructs its object and then fails returns past the test of O_DESTRUCTED, and
  `prev_all` is NULL when the object is taken out of the list of all objects.

* `port.c:136`: when the wall clock is set back by less than a second, the base
  is moved by zero seconds and each round of the loop adds a full second to
  `alarm_time` until it has caught up with the gap; alarms run early, against
  `src/lib/doc/man/efun/set_alarm`. (In Clock, bound `alarm_time` by `sampled +
  TIME_RES`.)
* `telnet.c:802`: the request to change the echo is dropped without a trace when
  the output queue has no room for three bytes; `noecho` is recorded all the
  same. (`Congested = TRUE` in `Negotiation.cfg` violates `EchoHonoured`.)
* `telnet.c:1360`: a Synch empties the canonical queue but leaves TF_OVFLCANQ,
  which only `telnet_eol()` on a full queue clears, and `telnet_canq_putc()` puts
  nothing in the queue while the flag is set: after an overlong line whose end
  was not reached and a Synch, every line of the connection arrives empty.
  (`Synchs = TRUE`, `MaxSent = 3`, `Lpc = {}` and `Outs = {3}` in
  `Telnet_session.cfg`, with `DM` among the bytes, violate `LineIsTyped`.)
* `telnet.c:1126`: any byte after CR is taken for the rest of the end of line,
  also an IAC; clients that follow the protocol send LF or NUL.
* `simulate.c:860`: the comment says that destructing an object destructs "the
  whole list of shadows". The loop advances `ob2` before it calls
  `destruct_object(ob2)`, so that it unlinks the first shadow and destructs the
  second and those after it; the first survives, shadowing nothing. (In World,
  with two objects in `Shadows`.) An error in the nested call leaves
  `ob->shadowed` set while the other side of the link is gone. The attempt to
  prove that no shadow is ever in a place, which `f_shadow()` demands and
  `move_object()` refuses, fails for the same reason, beyond the bounds of run
  `world`: while `destruct_object(ob)` destructs the second shadow and LPC code
  runs, the first one, released but still named by `ob->shadowed`, can shadow
  another object behind a third; the destruction of `ob` then clears its
  `shadowing`, it moves into a place, and the destruction of the third object
  links it again (6 objects, 7 operations). It can also shadow `ob` again, which
  closes a loop of `shadowed` on which the walk of `f_shadow()` never ends.
  `Containment` therefore says nothing of shadows.
* `comm1.c:440`: when `connect()` of the master object fails, the record stays in
  the table with the master object as its player, and `users()` returns the
  master object from then on. When `logon()` fails, the session stays open and no
  callback of it is ever enabled: only destructing the player frees the slot, and
  not even that the descriptor. (Leave out `failed` in `SessionsOwned`.)
* `simulate.c:2045`: two objects that are nowhere pass the test of
  `add_action()`, and when one of them enters a room the command stays. (Leave
  out `kept` in `add_action`.) A closure of a third object is not looked
  at by the test, but is by `remove_sent()`.
* `simulate.c:1712`: if the next object has been moved to another inventory when
  the loop of `move_object()` reaches it, the loop goes on in that inventory, and
  objects meet that are not together. `add_action()` refuses what would come of
  it.
* `simulate.c:1504`: `update_actions()` steps with `item->next_inv` instead of
  `pp->next_inv`, which never ends if the item has a successor; the loops after
  it look at the flags of `next_ob`, which is NULL at the end.
* `tcpsvc.c:164`: a client that sends several lines and then closes its side gets
  no answer to those that were not collected by then: the end of file closes the
  connection at the next clean-up.
* `tcpsvc.c:335`, `telnet.c:1414`: `accept()` failing for lack of descriptors
  ends the driver.
* `udpsvc.c:121`, marked XXX in the source: as long as every pass begins with a
  datagram that fails, no descriptor behind the UDP socket is served. (Without a
  bound on datagrams `Answered` fails.)
* `signals.c:65`: `deliver_signals()` clears a bit with a read and a write; a
  signal whose handler runs in between is lost.

## 7. Abstractions

* Alarms: a closure is the object it belongs to; `command_giver` and arguments
  are left out; ids do not wrap (an `int` in the code: 2^31 alarms). An object
  is created at most once, which makes reuse of memory visible as a use of a
  `gone` object.
* Time is unbounded: `alarm_time`, an `int` in tenths of a second, lasts 6.8
  years.
* The clean-up callback of a session and `telnet_shutdown()` are one step: no
  LPC code runs between them.
* `WriteFails`: the bytes the socket took before it failed are not counted; the
  queue is thrown away with the session.
* The client's side of TCP: bytes arrive in order; there is one urgent mark, and
  `recv()` does not read across it.
* The prefix `!` of a line, which passes the editor, `noecho` and `input_to()`,
  does not change which line arrives; in Negotiation such a line changes
  nothing. The texts of prompts, notices and bells are lengths.
* An LPC error during logon is not in Telnet, but in Interactive.
* Services: characters carry the number of their request, so that mixing them up
  shows; answers of the master object are any of a few lengths. TCP connections
  from other machines are turned away by any choice. What a client sends before
  `accept()` is taken to be sent after it. Of the list of descriptors only the
  services are there: the resolver of host names and the telnet port come before
  them, and sessions between the connections. The resolver could break what is
  proved of numbers: it is the first in the list, and if it is closed in its turn,
  a listening socket further on in the same pass may accept a connection with its
  number, for which `select()` had found something.
* Interactive: `valid_snoop()`, `valid_exec()`, `get_ed_buffer_save_file_name()`
  and `catch_tell()` do nothing to connections, and `remove_interactive()` of the
  master object gives none away, as in `src/lib/secure/master.c`. The code relies
  on it: `set_snoop()` and `interactive_input()` use records they found before
  the call, and `destruct_object()` assumes that the object is no player any more
  after it. `connect()` returns a new object or none. Memory of records is used
  again at once, which is the worst case for stale pointers. Destructors, which
  run between `remove_interactive()` and the mark O_DESTRUCTED, and the second
  `remove_interactive()` of `destruct2()`, which finds nothing to do under these
  assumptions, are left out.
* World: objects are clones that are not players. A command giver is an object
  that is living at some time. `valid_move()` of the master object changes
  nothing. An object with destructors runs them any number of times, by choice:
  there is one for each program it inherits. Where LPC code meddles with an object
  whose destructors run, a `next_inv` that is out of date may point anywhere;
  the violation of `World_destructor.cfg` ends before one is used. The sentences of an object are the set of
  the objects that gave them. `shadow()` asks the master object nothing that
  changes anything; where its walk along the shadows would never end (section 6),
  it is not enabled. `destructed_object()` is not defined by the master object
  of the repository.

## 8. Not modelled

* Compiler, natural language parser, regular expressions, `sprintf`, line
  editor: sequential functions of unbounded text; tests reach them better.
* The bytecode interpreter: its state space is that of LPC programs. What LPC
  code can do *to* the driver is the nondeterministic LPC code of the models.
* Allocators, portability replacements, statistics, start-up: no protocol
  between parts.
* The mudlib: thousands of LPC files that run inside the driver.

## 9. Plan

Modules that could still be written, the most important first:

1. **Hname** (`hname.c`): requests to the resolver, its death and restart, late
   replies; composes with Interactive through the record that waits for a name.
2. **Shadows**: the chain of shadows as a doubly linked list by itself, with the
   loop of `destruct_object()` against "the whole list of shadows".
3. **Swap**, **SharedStrings**, **ObjectTable**: data structures with an abstract
   specification each, in the manner of NQueue and ByteQueue.

Of the properties checked now only liveness has no theorem. In the manner of
`Converges`, measures for the walk of `call_out()` and for a pass of
`nd_select()` would be the next to state and to prove.
