------------------------------- MODULE Ndesc -------------------------------
(***************************************************************************)
(* The network descriptor manager of src/src/ndesc.c: the list of attached *)
(* descriptors, the numbers they have in the descriptor table of the       *)
(* process, the sets given to select(), and the pass of nd_select() over   *)
(* the list, which calls back the owners of the descriptors.               *)
(*                                                                         *)
(* An attached descriptor (ndesc_t) is named by the socket it was attached *)
(* for.  The owner of the sockets extends this module and gives the        *)
(* callbacks; they change the manager's state dm with the operators        *)
(* nd_attach, nd_detach, nd_enable and nd_disable, as often as the code    *)
(* calls these functions.  Exceptional conditions ("X") belong to telnet   *)
(* sessions alone and are part of module Telnet.                           *)
(***************************************************************************)
EXTENDS Integers, Sequences, FiniteSets, SequencesExt

CONSTANTS
  Sock,           \* the sockets of the driver
  None,           \* NULL: no socket
  FD_SETSIZE      \* the number of file descriptors

ASSUME NdescAssumption == FD_SETSIZE \in Nat /\ None \notin Sock

VARIABLES
  files,          \* the descriptor table of the process, kept by the kernel
  dm,             \* the state of the manager
  pass            \* the local variables of nd_select(), and where it is

Fds == 0 .. FD_SETSIZE - 1
Kinds == {"R", "W"}             \* the sets select() is given
Masks == Kinds \cup {"C"}       \* ND_R, ND_W, ND_C

Manager ==
  [ list  : Seq(Sock),                      \* nd_head to nd_tail
    fd    : [Sock -> Fds \cup {-1}],        \* nd_fd; -1: not attached
    mask  : [Sock -> SUBSET Masks],         \* nd_mask
    ndesc : [Fds -> Sock \cup {None}],      \* nd_ndesc
    fds   : [Kinds -> SUBSET Fds],          \* nd_rfds, nd_wfds
    max   : Fds \cup {-1},                  \* nd_max_fd
    gc    : BOOLEAN ]                       \* nd_do_gc

Attached == {s \in Sock : dm.fd[s] # -1}

\* Where s is in the list.
Place(d, s) == CHOOSE i \in DOMAIN d.list : d.list[i] = s

\* The descriptor after s in the list, NULL at its end.
nd_next(d, s) ==
  IF Place(d, s) = Len(d.list) THEN None ELSE d.list[Place(d, s) + 1]

\* The lowest free number, which is what accept() and dup() return.
LowestFree(f) ==
  CHOOSE n \in Fds : f[n] = None /\ \A k \in 0 .. n - 1 : f[k] # None

\* nd_init()
nd_init ==
  [ list |-> <<>>, fd |-> [s \in Sock |-> -1], mask |-> [s \in Sock |-> {}],
    ndesc |-> [n \in Fds |-> None], fds |-> [k \in Kinds |-> {}],
    max |-> -1, gc |-> FALSE ]

\* nd_attach(), with nd_append()
nd_attach(d, s, n) ==
  [d EXCEPT !.list = Append(@, s), !.fd[s] = n, !.mask[s] = {},
            !.ndesc[n] = s, !.max = IF @ < n THEN n ELSE @]

\* Mutant: the number keeps its place in the sets for select().
nd_initfd_ndesc_only(d, n) == [d EXCEPT !.ndesc[n] = None]

\* nd_initfd(): the number n is forgotten.
nd_initfd(d, n) ==
  [d EXCEPT !.fds = [k \in Kinds |-> @[k] \ {n}], !.ndesc[n] = None]

\* nd_remove(): s is unlinked.
nd_remove(d, s) == [d EXCEPT !.list = RemoveAt(@, Place(d, s))]

nd_detach(d, s) ==
  [nd_initfd(nd_remove(d, s), d.fd[s]) EXCEPT
     !.fd[s] = -1, !.mask[s] = {}, !.gc = TRUE]

nd_enable(d, s, m) ==
  [d EXCEPT !.mask[s] = @ \cup m,
            !.fds = [k \in Kinds |-> IF k \in m THEN @[k] \cup {d.fd[s]}
                                                ELSE @[k]]]

nd_disable(d, s, m) ==
  [d EXCEPT !.mask[s] = @ \ m,
            !.fds = [k \in Kinds |-> IF k \in m THEN @[k] \ {d.fd[s]}
                                                ELSE @[k]]]

Passes ==
  [ at    : {"idle", "next", "W", "R", "C", "gc"},
    nd    : Sock \cup {None},
    next  : Sock \cup {None},
    ready : [Kinds -> SUBSET Fds],          \* rfds, wfds
    found : [Kinds -> SUBSET Sock],         \* whose numbers these were
    nfds  : Int,
    setp  : {0, 1} ]

Idle ==
  [ at |-> "idle", nd |-> None, next |-> None,
    ready |-> [k \in Kinds |-> {}], found |-> [k \in Kinds |-> {}],
    nfds |-> 0, setp |-> 0 ]

\* The end of nd_select().
PassOver == IF dm.gc THEN [Idle EXCEPT !.at = "gc"] ELSE Idle

\* select() finds which of the sockets it was asked for have condition k,
\* which those in is[k] have, and returns their number; a signal or the
\* timeout ends it with none, and the pass is over.
nd_select(is) ==
  LET ready == [k \in Kinds |-> {n \in dm.fds[k] : files[n] \in is[k]}]
      nfds == Cardinality(ready["R"]) + Cardinality(ready["W"])
  IN  /\ pass.at = "idle"
      /\ pass' = IF nfds = 0 THEN PassOver
                 ELSE [Idle EXCEPT !.at = "next", !.next = Head(dm.list),
                         !.ready = ready, !.nfds = nfds,
                         !.found = [k \in Kinds |-> {files[n] : n \in ready[k]}]]
      /\ UNCHANGED <<files, dm>>

\* Mutant: a descriptor is cleaned up before it is written.
CleanupFirst(p, d, k) ==
  IF k = "W" /\ "C" \in d.mask[p.nd] THEN [p EXCEPT !.at = "C"]
  ELSE IF k = "W" /\ d.fd[p.nd] \in p.ready["W"] THEN [p EXCEPT !.at = "W", !.setp = 1]
  ELSE IF k # "C" /\ d.fd[p.nd] \in p.ready["R"] THEN [p EXCEPT !.at = "R", !.setp = 1]
  ELSE [p EXCEPT !.nfds = @ - p.setp,
                 !.at = IF "C" \in d.mask[p.nd] THEN "C" ELSE "next"]

\* The first callback of a descriptor that is due, from callback k on: what
\* select() found, and last clean-up if it is enabled by then.  However many
\* callbacks a descriptor has had, it counts once against nfds.
Due(p, d, k) ==
  IF k = "W" /\ d.fd[p.nd] \in p.ready["W"] THEN [p EXCEPT !.at = "W", !.setp = 1]
  ELSE IF k # "C" /\ d.fd[p.nd] \in p.ready["R"] THEN [p EXCEPT !.at = "R", !.setp = 1]
  ELSE [p EXCEPT !.nfds = @ - p.setp,
                 !.at = IF "C" \in d.mask[p.nd] THEN "C" ELSE "next"]

\* The head of the loop of nd_select().
NextDescriptor ==
  LET s == pass.next
      p == [pass EXCEPT !.nd = s, !.next = nd_next(dm, s), !.setp = 0]
  IN  /\ pass.at = "next"
      /\ pass' = IF pass.nfds = 0 \/ s = None THEN PassOver
                 ELSE IF dm.mask[s] = {} THEN p
                 ELSE Due(p, dm, "W")
      /\ UNCHANGED <<files, dm>>

\* The numbers in use, and the highest of them.
Used(d) == {n \in Fds : n <= d.max /\ d.ndesc[n] # None}
HighestUsed(d) == CHOOSE n \in Used(d) : \A k \in Used(d) : k <= n

\* The descriptor with number top gets number n.
Moved(d, top, n) ==
  LET s == d.ndesc[top]
  IN  [nd_initfd(d, top) EXCEPT
         !.fds = [k \in Kinds |-> IF top \in d.fds[k] THEN @[k] \cup {n} ELSE @[k]],
         !.ndesc[n] = s, !.fd[s] = n, !.max = top]

\* One round of nd_gc(): nd_max_fd is lowered to the highest number in use,
\* and the descriptor there moves to the lowest free number, if that is
\* lower.  dup() fails when no number is free.
nd_gc ==
  LET used == Used(dm)
      top  == HighestUsed(dm)
      new  == LowestFree(files)
  IN  /\ pass.at = "gc"
      /\ IF dm.gc /\ used # {} /\ (\E n \in Fds : files[n] = None) /\ new < top
         THEN /\ dm' = Moved(dm, top, new)
              /\ files' = [files EXCEPT ![new] = dm.ndesc[top], ![top] = None]
              /\ pass' = pass
         ELSE /\ dm' = IF ~dm.gc THEN dm
                       ELSE [dm EXCEPT !.gc = FALSE,
                                       !.max = IF used = {} THEN -1 ELSE top]
              /\ files' = files
              /\ pass' = Idle

NdescTypeOK ==
  /\ files \in [Fds -> Sock \cup {None}]
  /\ dm \in Manager
  /\ pass \in Passes

\* The numbers of the descriptors of manager d, with table f of the kernel.
NumbersOwned(f, d) ==
  LET attached == {s \in Sock : d.fd[s] # -1}
  IN  /\ \A s \in attached :
           /\ f[d.fd[s]] = s
           /\ d.ndesc[d.fd[s]] = s
           /\ d.fd[s] <= d.max
           /\ \A k \in Kinds : (d.fd[s] \in d.fds[k]) = (k \in d.mask[s])
      /\ \A s \in Sock : s \in attached <=> \E i \in DOMAIN d.list : d.list[i] = s
      /\ IsInjective(d.list)
      /\ \A n \in Fds : f[n] # None => d.fd[f[n]] = n
      /\ \A n \in Fds : d.ndesc[n] # None => d.fd[d.ndesc[n]] = n
      /\ \A k \in Kinds : d.fds[k] \subseteq {d.fd[s] : s \in attached}

\* What is left of the pass p.
PassOwned(d, p) ==
  /\ \A s \in Sock, k \in Kinds :
       d.fd[s] # -1 /\ d.fd[s] \in p.ready[k] => s \in p.found[k]
  /\ p.at \in {"W", "R", "C"} => p.nd # None /\ d.fd[p.nd] # -1
  /\ p.next # None => d.fd[p.next] # -1

(***************************************************************************)
(* What nd_fd() relies on ("N.B. This can change over time!"): the number  *)
(* of a descriptor is, at all times, the number of its own socket, also    *)
(* after nd_gc() moved it and after a number was given out again.  The     *)
(* list, the index nd_ndesc, the masks and the sets for select() agree     *)
(* about it.  What is left of a pass refers to attached descriptors, and   *)
(* no descriptor is called back for what select() found on another one     *)
(* that had its number before.  nd_max_fd covers every number in use.      *)
(***************************************************************************)
DescriptorsOwned == NumbersOwned(files, dm) /\ PassOwned(dm, pass)

=============================================================================
