------------------------------- MODULE World -------------------------------
(***************************************************************************)
(* The world of LPC objects (src/src/simulate.c): objects inside objects,  *)
(* the commands (sentences) an object has from the objects near it, and    *)
(* shadows; enable_commands(), move_object(), add_action(), shadow() and   *)
(* destruct_object().                                                      *)
(*                                                                         *)
(* Moving and destructing call LPC code in the middle: encounter() or      *)
(* init() of everything that meets, destruct_environment_of() of the       *)
(* master object, and the destructors.  That code may move and destruct    *)
(* anything again, the same objects included, while move_object() walks    *)
(* along an inventory.  The variable stack holds what is under way, the    *)
(* innermost last.  An LPC error drops the operations above LPC code that  *)
(* uses catch(), above a destructor, or all.                               *)
(*                                                                         *)
(* When the destructors of an object run it is out of the inventory it was *)
(* in, and its super still points there.  With Meddle = FALSE the LPC code *)
(* of the mudlib leaves such an object where it was: it moves neither the  *)
(* object nor anything into it, adds no command of it and does not         *)
(* destruct it again.  The driver has no such rule (Meddle = TRUE).        *)
(*                                                                         *)
(* The objects are ordinary clones, not interactive (module Interactive),  *)
(* that add commands with functions of their own; the master object has no *)
(* destructed_object() (as in src/lib/secure), and its valid_move() only   *)
(* answers.                                                                *)
(***************************************************************************)
EXTENDS Integers, Sequences, FiniteSets, SequencesExt

CONSTANTS
  Obj,
  Living,         \* the objects with O_ENABLE_COMMANDS at first
  Able,           \* the objects that call enable_commands()
  Dtors,          \* the objects with destructors
  Shadows,        \* the objects that call shadow()
  Home,           \* where the objects are at first
  None,           \* NULL
  Meddle,         \* LPC code moves an object whose destructors run, ...
  MaxDepth,       \* bound on the depth at which LPC code starts an operation
  MaxOps          \* bound on the operations started

ASSUME WorldAssumption ==
  /\ IsFiniteSet(Obj) /\ None \notin Obj
  /\ Living \cup Able \cup Dtors \cup Shadows \subseteq Obj
  /\ Meddle \in BOOLEAN
  /\ Home \in [Obj -> Obj \cup {None}]
  /\ \A S \in (SUBSET Obj) \ {{}} : \E o \in S : Home[o] \notin S
  /\ {MaxDepth, MaxOps} \subseteq Nat

VARIABLES
  destructed,     \* the objects with O_DESTRUCTED
  dying,          \* those taken out of their place, and not yet destructed
  living,         \* the objects with O_ENABLE_COMMANDS
  env,            \* super
  inv,            \* contains, along next_inv
  sent,           \* whose sentences an object has
  kept,           \* pairs <<o, p>> parted with p keeping those of o (history)
  shadowing, shadowed,
  ops,            \* the number of operations started
  stack

places == <<destructed, dying, living, env, inv, sent, kept>>
links == <<shadowing, shadowed>>
vars == <<places, links, ops, stack>>

Live == Obj \ destructed

\* An operation under way: move_object() of item to dest, or
\* destruct_object() of item; ob and next are its local variables and pc is
\* what it waits for.
Op(op, item, dest, ob, pc) ==
  [op |-> op, item |-> item, dest |-> dest, ob |-> ob, next |-> None, pc |-> pc]
Code == Op("lpc", None, None, None, "")

Top == stack[Len(stack)]
Below == SubSeq(stack, 1, Len(stack) - 1)
Done == stack' = Below
Becomes(f) == stack' = Append(Below, f)
Calls(f) == stack' = Below \o <<f, Code>>       \* LPC code runs, f waits
LPC == stack # <<>> /\ Top.op = "lpc"
Halts(why) == stack' = Append(stack, Op(why, None, None, None, ""))

\* LPC code starts one more operation.
Starts ==
  /\ LPC /\ Len(stack) <= MaxDepth
  /\ ops < MaxOps
  /\ ops' = ops + 1

Init ==
  /\ destructed = {} /\ dying = {}
  /\ living = Living
  /\ env = Home
  /\ inv = [p \in Obj |-> SetToSeq({o \in Obj : Home[o] = p})]
  /\ sent = [o \in Obj |-> {}]
  /\ kept = {}
  /\ shadowing = [o \in Obj |-> None]
  /\ shadowed = [o \in Obj |-> None]
  /\ ops = 0
  /\ stack = <<>>

\* An error: the main loop catches it, or LPC code that is waiting, or
\* destruct_object() when it is in a destructor.
Error ==
  \E n \in 0 .. Len(stack) - 1 :
    /\ \A m \in n + 1 .. Len(stack) : stack[m].pc # "dtor"
    /\ \/ /\ n # 0 => stack[n].op = "lpc"
          /\ stack' = SubSeq(stack, 1, n)
       \/ /\ n # 0 /\ stack[n].pc = "dtor"
          /\ stack' = Append(SubSeq(stack, 1, n - 1),
                             [stack[n] EXCEPT !.pc = "dtors"])

-----------------------------------------------------------------------------
(* Commands.                                                               *)

enable_commands(o, num) ==
  /\ Starts /\ o \in Live \cap Able
  /\ living' = IF num THEN living \cup {o} ELSE living \ {o}
  /\ UNCHANGED <<destructed, dying, env, inv, sent, kept, links, stack>>

\* The test of add_action(); two objects that are nowhere pass it, too.
Present(o, giver) ==
  \/ o = giver \/ env[o] = giver \/ env[o] = env[giver] \/ o = env[giver]

\* The command giver is living, or was when it became the command giver.
\* (What an object adds to its own commands stays near.)
add_action(o, giver) ==
  /\ LPC /\ o \in Live /\ giver \in (Living \cup Able) \ (destructed \cup {o})
  /\ Meddle \/ o \notin dying
  /\ Present(o, giver)
  /\ sent' = [sent EXCEPT ![giver] = @ \cup {o}]
  /\ kept' = IF env[o] = None /\ env[giver] = None
             THEN kept \cup {<<o, giver>>} ELSE kept
  /\ UNCHANGED <<destructed, dying, living, env, inv, links, ops, stack>>

\* The commands left when those that the pairs <<o, player>> name are
\* removed by remove_sent(o, player), which is called for a living player.
remove_sent(pairs) ==
  [p \in Obj |-> {o \in sent[p] : ~(p \in living /\ <<o, p>> \in pairs)}]

\* The pairs part; a player that is not living keeps the commands.
Part(pairs) ==
  /\ sent' = remove_sent(pairs)
  /\ kept' = {q \in kept \cup {q \in pairs : q[2] \notin living} :
                q[1] \in sent'[q[2]]}

\* The objects in the same place as item, and the place.
Siblings(item) == IF env[item] = None THEN {}
                  ELSE ToSet(inv[env[item]]) \ {item}

\* Mutant: what the item leaves behind is not removed from it.
PartingOneWay(item) ==
  {<<item, p>> : p \in Siblings(item) \cup ({env[item]} \ {None})}

\* What move_object() removes when item leaves its place.
Parting(item) ==
  LET others == Siblings(item) \cup ({env[item]} \ {None})
  IN  {<<item, p>> : p \in others} \cup {<<o, item>> : o \in others}

-----------------------------------------------------------------------------
(* Moving.                                                                 *)

\* Where o is in the inventory l.
Place(l, o) == CHOOSE n \in DOMAIN l : l[n] = o

\* The object after o in its inventory; o may have been moved since it was
\* reached.  (The pointer of an object that is in no list is an old one.)
next_inv(o) ==
  IF env[o] = None THEN {None}
  ELSE LET l == inv[env[o]]
       IN  IF o \notin ToSet(l) THEN Obj \cup {None}
           ELSE IF Place(l, o) = Len(l) THEN {None} ELSE {l[Place(l, o) + 1]}

contains(o) == IF inv[o] = <<>> THEN None ELSE Head(inv[o])

\* Mutant: only the destination itself is compared.
InsideDirectly(dest) == {dest}

\* dest and everything it is inside of: what is in every set that has dest
\* and the environments of its members.
Inside(dest) ==
  {o \in Obj : \A S \in SUBSET Obj :
     dest \in S /\ (\A x \in S : env[x] \in S \cup {None}) => o \in S}

\* The inventories when o is unlinked from the list it is in.
Unlinked(o) ==
  [p \in Obj |-> IF p = env[o] /\ o \in ToSet(inv[p])
                 THEN RemoveAt(inv[p], Place(inv[p], o))
                 ELSE inv[p]]

\* item is not in the list of its super.
Lost(item) == env[item] # None /\ item \notin ToSet(inv[env[item]])

\* move_object() up to the first LPC code.
move_object(item, dest) ==
  LET f == Op("move", item, dest, item, "at")
  IN  /\ Starts
      /\ item \in Live /\ dest \in Live
      /\ Meddle \/ {item, dest} \cap dying = {}
      /\ item \notin Inside(dest)
      /\ shadowing[item] = None
      /\ IF Lost(item) THEN Halts("fatal") /\ UNCHANGED places
         ELSE /\ Part(Parting(item))
              /\ inv' = [Unlinked(item) EXCEPT ![dest] = <<item>> \o @]
              /\ env' = [env EXCEPT ![item] = dest]
              /\ stack' = IF item \in living
                          THEN stack \o <<[f EXCEPT !.pc = "dest"], Code>>
                          ELSE Append(stack, f)
              /\ UNCHANGED <<destructed, dying, living>>
      /\ UNCHANGED links

\* encounter() of the item and the destination is over.
MetDest ==
  /\ Top.pc = "dest"
  /\ IF Top.dest \in destructed \/ env[Top.item] # Top.dest THEN Done
     ELSE Becomes([Top EXCEPT !.pc = "at", !.ob = contains(Top.dest)])

\* The head of the loop over the inventory of the destination.
At ==
  /\ Top.pc = "at" /\ Top.ob # None
  /\ IF Top.ob # Top.item /\ Top.ob \in destructed THEN Error
     ELSE \E n \in next_inv(Top.ob) :
            IF Top.ob = Top.item THEN Becomes([Top EXCEPT !.ob = n])
            ELSE IF Top.ob \in living
            THEN Calls([Top EXCEPT !.next = n, !.pc = "other"])
            ELSE Becomes([Top EXCEPT !.next = n, !.pc = "second"])

\* encounter() of the other object is over, if it is living.
MetOther ==
  /\ Top.pc \in {"other", "second"}
  /\ IF Top.pc = "other" /\ env[Top.item] # Top.dest THEN Done
     ELSE IF Top.item \in destructed THEN Error
     ELSE IF Top.item \in living THEN Calls([Top EXCEPT !.pc = "self"])
     ELSE Becomes([Top EXCEPT !.pc = "at", !.ob = Top.next])

\* encounter() of the item and the other object is over.
MetSelf ==
  /\ Top.pc = "self"
  /\ IF env[Top.item] # Top.dest THEN Done
     ELSE Becomes([Top EXCEPT !.pc = "at", !.ob = Top.next])

\* The end of the inventory: the destination may be living, too.
Arrived ==
  \/ /\ Top.pc = "at" /\ Top.ob = None
     /\ IF Top.dest \in destructed THEN Error
        ELSE IF Top.dest \in living THEN Calls([Top EXCEPT !.pc = "last"])
        ELSE Done
  \/ Top.pc = "last" /\ Done

Moving ==
  /\ stack # <<>> /\ Top.op = "move"
  /\ MetDest \/ At \/ MetOther \/ MetSelf \/ Arrived
  /\ UNCHANGED <<places, links, ops>>

-----------------------------------------------------------------------------
(* Shadows.                                                                *)

\* The last object of the chain of shadows of o.
Outermost(o) ==
  LET c[n \in 0 .. Cardinality(Obj)] ==
        IF n = 0 THEN o
        ELSE IF shadowed[c[n - 1]] = None THEN c[n - 1] ELSE shadowed[c[n - 1]]
  IN  c[Cardinality(Obj)]

\* validate_shadowing()
MayShadow(s, o) ==
  /\ shadowing[s] = None /\ shadowed[s] = None
  /\ env[s] = None
  /\ shadowing[o] = None /\ s # o

\* f_shadow(): s becomes the outermost shadow of o.
shadow(s, o) ==
  LET last == Outermost(o)
  IN  /\ Starts
      /\ {s, o} \subseteq Live /\ s \in Shadows
      /\ MayShadow(s, o) /\ shadowed[last] = None
      /\ shadowing' = [shadowing EXCEPT ![s] = last]
      /\ shadowed' = [shadowed EXCEPT ![last] = s]
      /\ UNCHANGED <<places, stack>>

-----------------------------------------------------------------------------
(* Destruction.                                                            *)

\* destruct_object() is called for o, if there is one and it is not
\* destructed, on top of the operations st.
Destroy(o, st) ==
  stack' = IF o = None \/ o \in destructed THEN st
           ELSE Append(st, Op("destruct", o, None,
                  IF shadowing[o] = None THEN shadowed[o] ELSE None, "shadows"))

destruct_object(o) ==
  /\ Starts /\ o \in Live
  /\ Meddle \/ o \notin dying
  /\ Destroy(o, stack)
  /\ UNCHANGED <<places, links>>

\* o is taken out of its chain of shadows.
Bypassed(o) ==
  /\ shadowed' = [x \in Obj |-> IF x = o THEN None
                                ELSE IF x = shadowing[o] THEN shadowed[o]
                                ELSE shadowed[x]]
  /\ shadowing' = [x \in Obj |-> IF x = o THEN None
                                 ELSE IF x = shadowed[o] THEN shadowing[o]
                                 ELSE shadowing[x]]

\* One round of the loop over the shadows of an object that is no shadow: a
\* shadow is taken out of the chain, and destruct_object() is called for the
\* one after it.  At the end the object itself leaves its chain.
DestructShadows ==
  LET s == Top.ob
  IN  /\ Top.pc = "shadows"
      /\ IF Top.item \in destructed
         THEN Done /\ UNCHANGED links
         ELSE IF s = None
         THEN Becomes([Top EXCEPT !.pc = "contents"]) /\ Bypassed(Top.item)
         ELSE /\ shadowed' = [shadowed EXCEPT ![s] = None]
              /\ shadowing' = [shadowing EXCEPT ![s] = None]
              /\ Destroy(shadowed[s],
                         Append(Below, [Top EXCEPT !.ob = shadowed[s]]))
      /\ UNCHANGED places

\* The master object is asked to move the first object of the inventory to
\* some other place.
Empty ==
  LET c == contains(Top.item)
  IN  /\ Top.pc = "contents" /\ Top.item \notin destructed /\ c # None
      /\ Calls([Top EXCEPT !.ob = c, !.pc = "asked"])
      /\ UNCHANGED <<places, links>>

\* If it is still there it is destructed.
Asked ==
  LET f == [Top EXCEPT !.pc = "contents"]
  IN  /\ Top.pc = "asked"
      /\ IF Top.ob = contains(Top.item) THEN Destroy(Top.ob, Append(Below, f))
         ELSE Becomes(f)
      /\ UNCHANGED <<places, links>>

\* The object leaves its place, unless LPC code has destructed it meanwhile.
Unlink ==
  LET o == Top.item
      others == Siblings(o) \cup {o} \cup ({env[o]} \ {None})
  IN  /\ Top.pc = "contents"
      /\ o \in destructed \/ contains(o) = None
      /\ IF o \in destructed THEN Done /\ UNCHANGED places
         ELSE /\ Part({<<o, p>> : p \in others})
              /\ inv' = Unlinked(o)
              /\ dying' = dying \cup {o}
              /\ Becomes([Top EXCEPT !.pc = "dtors"])
              /\ UNCHANGED <<destructed, living, env>>
      /\ UNCHANGED links

\* A destructor is called, and is over.
CallDtor ==
  /\ Top.pc = "dtors" /\ Top.item \in Dtors
  /\ Calls([Top EXCEPT !.pc = "dtor"])
  /\ UNCHANGED <<places, links>>

DtorOver ==
  /\ Top.pc = "dtor"
  /\ IF Top.item \in destructed THEN Done
     ELSE Becomes([Top EXCEPT !.pc = "dtors"])
  /\ UNCHANGED <<places, links>>

\* The inventories when the next_inv and contains of o are cleared.
Cleared(o) ==
  [p \in Obj |-> IF p = o THEN <<>>
                 ELSE IF o \in ToSet(inv[p])
                 THEN SubSeq(inv[p], 1, Place(inv[p], o)) ELSE inv[p]]

\* The object is out of all lists.  (prev_all is NULL if a destructor has
\* destructed the object and then failed.)
Vanish ==
  LET o == Top.item
  IN  /\ Top.pc = "dtors"
      /\ IF o \in destructed THEN Halts("crash") /\ UNCHANGED places
         ELSE /\ env' = [env EXCEPT ![o] = None]
              /\ inv' = Cleared(o)
              /\ living' = living \ {o}
              /\ destructed' = destructed \cup {o}
              /\ dying' = dying \ {o}
              /\ Done
              /\ UNCHANGED <<sent, kept>>
      /\ UNCHANGED links

Destructing ==
  /\ stack # <<>> /\ Top.op = "destruct"
  /\ DestructShadows \/ Empty \/ Asked \/ Unlink \/ CallDtor \/ DtorOver \/ Vanish
  /\ UNCHANGED ops

-----------------------------------------------------------------------------

\* LPC code is called: an alarm, a command.
Run ==
  /\ stack = <<>>
  /\ stack' = <<Code>>
  /\ UNCHANGED <<places, links, ops>>

Return ==
  /\ LPC
  /\ Done
  /\ UNCHANGED <<places, links, ops>>

Fail ==
  /\ LPC
  /\ Error
  /\ UNCHANGED <<places, links, ops>>

Next ==
  \/ \E o, x \in Obj : add_action(o, x) \/ move_object(o, x) \/ shadow(o, x)
  \/ \E o \in Obj : destruct_object(o)
  \/ \E o \in Obj, num \in BOOLEAN : enable_commands(o, num)
  \/ Moving \/ Destructing
  \/ Run \/ Return \/ Fail

Spec == Init /\ [][Next]_vars

-----------------------------------------------------------------------------

(***************************************************************************)
(* Where objects are: an object is in the inventory of its environment,    *)
(* once, and in no other; no object that exists is inside a destructed     *)
(* one, and none is inside itself, whatever LPC code moves and destructs   *)
(* while objects are moved and destructed.  An object whose destructors    *)
(* run is in no inventory and nothing is in it.  move_object() ends the    *)
(* driver ("Failed to find object in super list") or never ends if this    *)
(* fails.                                                                  *)
(***************************************************************************)
Containment ==
  /\ \A o \in Obj : inv[o] \in Seq(Obj) /\ IsInjective(inv[o])
  /\ \A o, p \in Obj : o \in ToSet(inv[p]) <=> env[o] = p /\ o \notin dying
  /\ \A o \in Obj \ dying :
       env[o] # None => {o, env[o]} \subseteq Live \ dying
  /\ \A S \in (SUBSET Obj) \ {{}} : \E o \in S : env[o] \notin S

Near(o, p) ==
  o = p \/ env[o] = p \/ o = env[p] \/ (env[o] # None /\ env[o] = env[p])

(***************************************************************************)
(* Commands are removed in time: a living object has a command of an       *)
(* object that is not near it only if the command was added while both     *)
(* were nowhere, or if the two parted while the object was not living      *)
(* (disable_commands()); however the objects have been moved and           *)
(* destructed while they met.                                              *)
(***************************************************************************)
CommandsLocal ==
  \A p \in living \ dying : \A o \in sent[p] :
    Near(o, p) \/ <<o, p>> \in kept

(***************************************************************************)
(* "The object must be near the command giver, so that we ensure that the  *)
(* sentence is removed when the command giver leaves" (add_action()): a    *)
(* living object that was somewhere from the start has commands only from  *)
(* objects near it.                                                        *)
(***************************************************************************)
CommandsNear ==
  \A p \in living \ dying : Home[p] # None => \A o \in sent[p] : Near(o, p)

(***************************************************************************)
(* The assertion of move_object(): an object that is moved is found in the *)
(* list of its super (else fatal("Failed to find object in super list")).  *)
(***************************************************************************)
FoundInSuper == stack # <<>> => Top.op # "fatal"

=============================================================================
