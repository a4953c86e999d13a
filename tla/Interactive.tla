---------------------------- MODULE Interactive ----------------------------
(***************************************************************************)
(* The interactive objects of the driver (src/src/comm1.c): the table      *)
(* all_players, the records (struct interactive) that tie a telnet session *)
(* to the LPC object of a player, and what is done to them: new_player(),  *)
(* remove_interactive(), exec(), snoop(), input_to(), ed(), commands and   *)
(* destruct().                                                             *)
(*                                                                         *)
(* The driver is one thread, but each of these operations runs LPC code    *)
(* of the mudlib in the middle, and that code calls the same operations    *)
(* again.  The variable stack holds the operations that are under way, the *)
(* innermost one last.  An LPC error drops the operations above the        *)
(* innermost error context (setjmp()), or above LPC code that uses         *)
(* catch().                                                                *)
(*                                                                         *)
(* The functions valid_snoop(), valid_exec() and                           *)
(* get_ed_buffer_save_file_name() of the master object and catch_tell() of *)
(* players are taken from the mudlib (src/lib/secure/master.c): they do    *)
(* nothing to interactive objects.  Its remove_interactive() may destruct  *)
(* objects, but gives no connection away (exec()).                         *)
(***************************************************************************)
EXTENDS Integers, Sequences, FiniteSets, SequencesExt

CONSTANTS
  Obj,            \* the objects that may become interactive
  Master,         \* the master object
  Rec,            \* the memory for records
  Sess,           \* the telnet sessions
  None,           \* NULL
  MAX_PLAYERS,
  MaxDepth        \* bound on the operations under way

ASSUME InteractiveAssumption ==
  /\ Master \notin Obj /\ None \notin Obj \cup {Master} \cup Rec \cup Sess
  /\ {MAX_PLAYERS, MaxDepth} \subseteq Nat

VARIABLES
  object,         \* the objects: fresh, live or destructed, and their fields
  ip,             \* the records
  all_players,
  num_player,
  session,        \* the telnet control blocks
  failed,         \* sessions whose connect() or logon() failed (history)
  stack

vars == <<object, ip, all_players, num_player, session, failed, stack>>

Slots == 1 .. MAX_PLAYERS
Objects == Obj \cup {Master}

Free == [ob |-> None, tp |-> None, snoop_on |-> None, snoop_by |-> None,
         input_to |-> FALSE, ed |-> FALSE]
Closed == [open |-> FALSE, ip |-> None, enabled |-> {}]

Allocated == {r \in Rec : ip[r].ob # None}
Live == {o \in Obj : object[o].is = "live"}
interactive(o) == object[o].interactive

Frame(op, o, s, i) == [op |-> op, ob |-> o, s |-> s, i |-> i]
Top == stack[Len(stack)]
Pop == SubSeq(stack, 1, Len(stack) - 1)

Init ==
  /\ object = [o \in Objects |->
                 [is |-> IF o = Master THEN "live" ELSE "fresh",
                  interactive |-> None, refs |-> 0]]
  /\ ip = [r \in Rec |-> Free]
  /\ all_players = [i \in Slots |-> None]
  /\ num_player = 0
  /\ session = [s \in Sess |-> Closed]
  /\ failed = {}
  /\ stack = <<>>

-----------------------------------------------------------------------------

\* Mutant: clean-up is not enabled.
telnet_detach_only(s) ==
  IF session[s].ip = None THEN session ELSE [session EXCEPT ![s].ip = None]

\* telnet_detach(): a session that was never attached is left as it is.
telnet_detach(s) ==
  IF session[s].ip = None THEN session
  ELSE [session EXCEPT ![s].ip = None, ![s].enabled = @ \cup {"C"}]

\* Nobody snoops on r any more.
Unsnooped(p, r) ==
  LET by == p[r].snoop_by
  IN  IF by = None THEN p
      ELSE [p EXCEPT ![by].snoop_on = None, ![r].snoop_by = None]

\* r snoops on nobody any more.
Unsnooping(p, r) ==
  LET on == p[r].snoop_on
  IN  IF on = None THEN p
      ELSE [p EXCEPT ![on].snoop_by = None, ![r].snoop_on = None]

\* Mutant: the slot keeps the record that has been freed.
SlotsKept(r) == all_players

\* The table without record r.
SlotsWithout(r) ==
  [i \in Slots |-> IF all_players[i] = r THEN None ELSE all_players[i]]

\* The record r of object o is dismissed; the operations then under way are
\* st, and LPC code of the master object runs on top of them.  The session
\* that is left may be cleaned up.
Dismiss(o, st) ==
  LET r == interactive(o)
  IN  /\ ip' = [Unsnooping(Unsnooped(ip, r), r) EXCEPT ![r] = Free]
      /\ session' = telnet_detach(ip[r].tp)
      /\ num_player' = num_player - 1
      /\ object' = [object EXCEPT ![o].interactive = None, ![o].refs = @ - 1]
      /\ all_players' = SlotsWithout(r)
      /\ stack' = Append(st, Frame("removed", o, None, 0))

\* The operations an LPC error leaves: it is caught by the error context of
\* a command or of an alarm, which is then over, by LPC code that uses
\* catch(), or by the main loop.
Contexts == {n \in DOMAIN stack : stack[n].op \in {"command", "alarm"}}
Innermost == IF Contexts = {} THEN 0
             ELSE CHOOSE n \in Contexts : \A m \in Contexts : m <= n
CaughtAt ==
  {IF Contexts = {} THEN 0 ELSE Innermost - 1} \cup
  {n \in DOMAIN stack : n >= Innermost /\ n < Len(stack)
                        /\ stack[n].op # "destruct"}

\* An error drops the operations above one of those that may catch it.  The
\* sessions that were being accepted stay as they are.
Error ==
  \E n \in CaughtAt :
    LET dropped == {stack[m] : m \in n + 1 .. Len(stack)}
    IN  /\ stack' = SubSeq(stack, 1, n)
        /\ failed' = failed \cup
             {f.s : f \in {g \in dropped : g.op \in {"logon", "refused"}}}

\* remove_interactive(): the buffer of the editor is saved first, and LPC
\* errors of that leave the record alone.
remove_interactive(o, st) ==
  \/ Dismiss(o, st) /\ UNCHANGED failed
  \/ /\ ip[interactive(o)].ed
     /\ Error
     /\ UNCHANGED <<object, ip, all_players, num_player, session>>

(***************************************************************************)
(* Sessions.                                                               *)
(***************************************************************************)

\* The record of a new player in slot i, for object o.
NewRecord(o, s) == [Free EXCEPT !.ob = o, !.tp = s]

FreeSlots == {i \in Slots : all_players[i] = None}

\* telnet_accept() and new_player() as far as logon(): the record belongs to
\* the master object while connect() clones the object of the player.  When
\* connect() fails it stays there; when connect() gives no object it is
\* dismissed at once, which the master object is told.
telnet_accept(s) ==
  LET i == Min(FreeSlots)
  IN  /\ stack = <<>> /\ ~session[s].open
      /\ FreeSlots # {}           \* otherwise the session is closed again
      /\ \E r \in Rec \ Allocated :
           \/ \E o \in {x \in Obj : object[x].is = "fresh"} :
                /\ object' = [object EXCEPT
                     ![o] = [is |-> "live", interactive |-> r, refs |-> 1],
                     ![Master].interactive = None]
                /\ ip' = [ip EXCEPT ![r] = NewRecord(o, s)]
                /\ stack' = <<Frame("logon", o, s, i)>>
                /\ session' = [session EXCEPT ![s].open = TRUE]
                /\ all_players' = [all_players EXCEPT ![i] = r]
                /\ num_player' = num_player + 1
                /\ UNCHANGED failed
           \/ /\ object' = [object EXCEPT ![Master].interactive = r,
                                          ![Master].refs = @ + 1]
              /\ ip' = [ip EXCEPT ![r] = NewRecord(Master, s)]
              /\ failed' = failed \cup {s}
              /\ session' = [session EXCEPT ![s].open = TRUE]
              /\ all_players' = [all_players EXCEPT ![i] = r]
              /\ num_player' = num_player + 1
              /\ UNCHANGED stack
           \/ /\ object' = [object EXCEPT ![Master].interactive = None]
              /\ stack' = <<Frame("refused", Master, s, 0)>>
              /\ session' = [session EXCEPT ![s].open = TRUE]
              /\ UNCHANGED <<ip, all_players, num_player, failed>>

\* The end of telnet_accept(), when logon() has returned: the session is
\* attached to the record in the slot, or closed if there is none any more
\* (slot 0: there never was one).
Accepted(s, i) ==
  IF i = 0 \/ all_players[i] = None
  THEN session' = [session EXCEPT ![s] = Closed]
  ELSE session' = [session EXCEPT ![s].ip = all_players[i],
                                  ![s].enabled = @ \cup {"R", "C"}]

\* telnet_cleanup() with a line of input: interactive_input().  A function
\* that waits for input is forgotten before it is called.
Input(s) ==
  LET r == session[s].ip
  IN  /\ stack = <<>> /\ r # None /\ "C" \in session[s].enabled
      /\ ip' \in {ip, [ip EXCEPT ![r].input_to = FALSE]}
      /\ stack' = <<Frame("command", None, None, 0)>>
      /\ UNCHANGED <<object, all_players, num_player, session, failed>>

\* telnet_read() has input for telnet_cleanup(), or telnet_cleanup() has used
\* it up and waits for more.
Raw(s) ==
  /\ stack = <<>> /\ session[s].ip # None
  /\ session' = [session EXCEPT ![s].enabled =
                   IF "C" \in @ THEN @ \ {"C"} ELSE @ \cup {"C"}]
  /\ UNCHANGED <<object, ip, all_players, num_player, failed, stack>>

\* telnet_read() or telnet_write() finds the connection broken:
\* telnet_disconnect().
Disconnect(s) ==
  /\ stack = <<>> /\ session[s].ip # None /\ "R" \in session[s].enabled
  /\ remove_interactive(ip[session[s].ip].ob, stack)

\* telnet_cleanup() of a session that is not attached: telnet_shutdown().
Shutdown(s) ==
  /\ stack = <<>> /\ session[s].open
  /\ session[s].ip = None /\ "C" \in session[s].enabled
  /\ session' = [session EXCEPT ![s] = Closed]
  /\ UNCHANGED <<object, ip, all_players, num_player, failed, stack>>

\* An alarm of some object calls its function.
Alarm ==
  /\ stack = <<>>
  /\ stack' = <<Frame("alarm", None, None, 0)>>
  /\ UNCHANGED <<object, ip, all_players, num_player, session, failed>>

\* remove_destructed_objects() of the main loop
remove_destructed_objects ==
  /\ stack = <<>>
  /\ \E o \in Obj : object[o].is = "destructed"
  /\ object' = [o \in Objects |->
       IF object[o].is # "destructed" THEN object[o]
       ELSE [is |-> "fresh", interactive |-> None, refs |-> 0]]
  /\ UNCHANGED <<ip, all_players, num_player, session, failed, stack>>

(***************************************************************************)
(* What running LPC code does.                                             *)
(***************************************************************************)

LPC == stack # <<>> /\ Top.op # "destruct"

\* Mutant: add_ref() and free_object() are given each other's object.
HandedSwapped(o, from) ==
  LET r == interactive(from)
  IN  /\ object' = [object EXCEPT ![o].interactive = r, ![o].refs = @ - 1,
                      ![from].interactive = None, ![from].refs = @ + 1]
      /\ ip' = [ip EXCEPT ![r].ob = o]

\* The connection of from becomes the one of o.
Handed(o, from) ==
  LET r == interactive(from)
  IN  /\ object' = [object EXCEPT ![o].interactive = r, ![o].refs = @ + 1,
                      ![from].interactive = None, ![from].refs = @ - 1]
      /\ ip' = [ip EXCEPT ![r].ob = o]

\* replace_interactive(), the efun exec(), also with no new object.
exec ==
  /\ LPC /\ Top.op \notin {"removed", "refused"} /\ Len(stack) < MaxDepth
  /\ \E from \in Live :
       /\ interactive(from) # None
       /\ \/ \E o \in Live :
               /\ interactive(o) = None
               /\ Handed(o, from)
               /\ UNCHANGED <<all_players, num_player, session, failed, stack>>
          \/ remove_interactive(from, stack)

\* Mutant: only the snoopee itself is compared.
SnoopsOnDirectly(r) == {r}

\* The records from r along snoop_on, the protection against loops: what is
\* in every set that holds r and is closed under snoop_on.
SnoopsOn(r) ==
  {x \in Rec : \A S \in SUBSET Rec :
     r \in S /\ (\A y \in S : ip[y].snoop_on \in S \cup {None}) => x \in S}

\* set_snoop(); both players are in the table.
set_snoop ==
  /\ LPC
  /\ \E me \in Live :
       LET by == interactive(me) IN
       /\ by # None
       /\ \/ ip' = Unsnooping(ip, by)       \* stop
          \/ \E you \in Live \ {me} :
               LET on == interactive(you) IN
               /\ on # None
               /\ by \notin SnoopsOn(on)
               /\ ip' = [Unsnooped(Unsnooping(ip, by), on) EXCEPT
                           ![on].snoop_by = by, ![by].snoop_on = on]
  /\ UNCHANGED <<object, all_players, num_player, session, failed, stack>>

\* input_to() and ed() of a player
input_to ==
  /\ LPC
  /\ \E o \in Live :
       /\ interactive(o) # None
       /\ \/ ip' = [ip EXCEPT ![interactive(o)].input_to = TRUE]
          \/ ip' = [ip EXCEPT ![interactive(o)].ed = TRUE]
  /\ UNCHANGED <<object, all_players, num_player, session, failed, stack>>

\* The end of destruct_object(): the object is out of all lists.
Destructed(o, st) ==
  /\ object' = [object EXCEPT ![o].is = "destructed"]
  /\ stack' = st
  /\ UNCHANGED <<ip, all_players, num_player, session, failed>>

\* destruct_object(): an interactive object loses its connection first.
destruct_object ==
  /\ LPC /\ Len(stack) + 2 <= MaxDepth
  /\ \E o \in Live :
       IF interactive(o) = None THEN Destructed(o, stack)
       ELSE remove_interactive(o, Append(stack, Frame("destruct", o, None, 0)))

\* destruct_object() goes on after remove_interactive(), unless that has
\* destructed the object already.
Resume ==
  /\ stack # <<>> /\ Top.op = "destruct"
  /\ IF object[Top.ob].is = "live" THEN Destructed(Top.ob, Pop)
     ELSE /\ stack' = Pop
          /\ UNCHANGED <<object, ip, all_players, num_player, session, failed>>

\* LPC code returns to the driver.
Return ==
  /\ LPC
  /\ stack' = Pop
  /\ IF Top.op \in {"logon", "refused"} THEN Accepted(Top.s, Top.i)
     ELSE UNCHANGED session
  /\ UNCHANGED <<object, ip, all_players, num_player, failed>>

Fail ==
  /\ LPC
  /\ Error
  /\ UNCHANGED <<object, ip, all_players, num_player, session>>

Next ==
  \/ \E s \in Sess : telnet_accept(s) \/ Raw(s) \/ Input(s) \/ Disconnect(s)
                      \/ Shutdown(s)
  \/ Alarm \/ remove_destructed_objects
  \/ exec \/ set_snoop \/ input_to \/ destruct_object
  \/ Resume \/ Return \/ Fail

Spec == Init /\ [][Next]_vars

-----------------------------------------------------------------------------

TypeOK ==
  /\ object \in [Objects -> [is : {"fresh", "live", "destructed"},
                             interactive : Rec \cup {None},
                             refs : 0 .. MAX_PLAYERS]]
  /\ ip \in [Rec -> [ob : Objects \cup {None}, tp : Sess \cup {None},
                     snoop_on : Rec \cup {None}, snoop_by : Rec \cup {None},
                     input_to : BOOLEAN, ed : BOOLEAN]]
  /\ all_players \in [Slots -> Rec \cup {None}]
  /\ num_player \in 0 .. MAX_PLAYERS
  /\ session \in [Sess -> [open : BOOLEAN, ip : Rec \cup {None},
                           enabled : SUBSET {"R", "C"}]]
  /\ failed \subseteq Sess
  /\ stack \in Seq([op : {"logon", "refused", "command", "alarm",
                          "removed", "destruct"},
                    ob : Objects \cup {None}, s : Sess \cup {None},
                    i : 0 .. MAX_PLAYERS])

(***************************************************************************)
(* The table, the records, the objects and the sessions agree about who is *)
(* connected, whatever operations are under way, nested or broken off by   *)
(* errors: every record is in one slot and every slot holds a record, as   *)
(* get_interactive_object() relies on; the object of a record is not       *)
(* destructed and points back to it, except that connect() may leave one   *)
(* with the master object; objects have one reference for each record; and *)
(* a session leads to the record it belongs to, which leads back.          *)
(***************************************************************************)
TableExact ==
  /\ num_player = Cardinality(Allocated)
  /\ {all_players[i] : i \in Slots} \ {None} = Allocated
  /\ Cardinality({i \in Slots : all_players[i] # None}) = num_player
  /\ \A r \in Allocated :
       \/ ip[r].ob \in Live /\ interactive(ip[r].ob) = r
       \/ ip[r].ob = Master /\ ip[r].tp \in failed
  /\ \A o \in Obj : interactive(o) # None => ip[interactive(o)].ob = o
  /\ \A o \in Objects :
       object[o].refs = Cardinality({r \in Allocated : ip[r].ob = o})
  /\ \A r \in Allocated : session[ip[r].tp].ip \in {r, None}
  /\ \A s \in Sess : session[s].ip # None => ip[session[s].ip].tp = s

(***************************************************************************)
(* No connection is left hanging: a session that is open and belongs to no *)
(* player will be cleaned up, or is being accepted, or its connect() or    *)
(* logon() ended with an error; and a player whose connection is not       *)
(* attached is one whose login is going on or ended with an error.         *)
(***************************************************************************)
SessionsOwned ==
  LET accepting == {stack[n].s : n \in {m \in DOMAIN stack :
                          stack[m].op \in {"logon", "refused"}}}
  IN  /\ \A s \in Sess :
           session[s].open /\ session[s].ip = None
           => "C" \in session[s].enabled \/ s \in accepting \cup failed
      /\ \A r \in Allocated :
           /\ session[ip[r].tp].open
           /\ session[ip[r].tp].ip = None => ip[r].tp \in accepting \cup failed

(***************************************************************************)
(* snoop_on and snoop_by are inverse to each other and lead to records in  *)
(* use, also when the snooper or the snoopee leaves or changes its object, *)
(* and nobody snoops on himself over others, in which case a message would *)
(* be passed on forever.                                                   *)
(***************************************************************************)
SnoopPaired ==
  /\ \A r \in Rec : ip[r].snoop_on # None =>
       ip[r].snoop_on \in Allocated /\ ip[ip[r].snoop_on].snoop_by = r
  /\ \A r \in Rec : ip[r].snoop_by # None =>
       ip[r].snoop_by \in Allocated /\ ip[ip[r].snoop_by].snoop_on = r
  /\ \A S \in (SUBSET Rec) \ {{}} : \E r \in S : ip[r].snoop_on \notin S

=============================================================================
