--------------------------- MODULE TelnetOptions ---------------------------
(***************************************************************************)
(* The option states of src/src/telnet.c.  A telnet option is on or off in *)
(* each of two directions: o_us (we perform it) and o_him (the client      *)
(* does).  Either party may ask for a change at any time, so a direction   *)
(* also knows the request that has not been answered yet (WANTYES, WANTNO) *)
(* and whether the opposite is wanted once the answer is here (OPPOSITE).  *)
(*                                                                         *)
(* The two directions are treated alike, with WILL and WONT in one and DO  *)
(* and DONT in the other, so that there is one operator for telnet_do()    *)
(* and telnet_will(), one for telnet_dont() and telnet_wont(), and one     *)
(* each for enabling and disabling.  An operator returns the new state of  *)
(* the direction and what is sent.                                         *)
(***************************************************************************)

States == {"NO", "YES", "WANTNO", "WANTYES"}
Queues == {"EMPTY", "OPPOSITE"}

\* One direction of an option: a change of mind is queued only behind an
\* open request.
Direction ==
  {d \in [st : States, q : Queues] :
     d.q = "OPPOSITE" => d.st \in {"WANTNO", "WANTYES"}}

\* What a party sends about a direction.
Sent == {"yes", "no", "nothing"}

Off == [st |-> "NO", q |-> "EMPTY"]

\* st, q: the new direction; s: what is sent.
Result(st, q, s) == [dir |-> [st |-> st, q |-> q], sent |-> s]
Same(d) == [dir |-> d, sent |-> "nothing"]

\* Mutant: the peer's yes is answered also when it is an answer itself.
AgreeAnswers(d, enabp) ==
  IF d.st \in {"YES", "WANTYES"} \/ (d.st = "NO" /\ enabp)
    THEN Result("YES", "EMPTY", "yes")
    ELSE Result("NO", "EMPTY", IF d.st = "NO" THEN "no" ELSE "nothing")

\* Mutant: the queued opposite of WANTYES is forgotten.
AgreeForgets(d, enabp) ==
  IF d.st = "NO" THEN IF enabp THEN Result("YES", d.q, "yes")
                               ELSE Result("NO", d.q, "no")
  ELSE IF d.st = "WANTYES" THEN Result("YES", "EMPTY", "nothing")
  ELSE IF d.st = "WANTNO" THEN Result("NO", "EMPTY", "nothing")
  ELSE Same(d)

\* The peer says yes: telnet_do() for o_us, telnet_will() for o_him; enabp
\* is the answer of telnet_lenabp() or telnet_renabp().
Agree(d, enabp) ==
  CASE d.st = "NO" /\ enabp                   -> Result("YES", d.q, "yes")
    [] d.st = "NO" /\ ~enabp                  -> Result("NO", d.q, "no")
    [] d.st = "YES"                           -> Same(d)
    [] d.st = "WANTNO" /\ d.q = "EMPTY"       -> Result("NO", "EMPTY", "nothing")
    [] d.st = "WANTNO" /\ d.q = "OPPOSITE"    -> Result("YES", "EMPTY", "nothing")
    [] d.st = "WANTYES" /\ d.q = "EMPTY"      -> Result("YES", "EMPTY", "nothing")
    [] d.st = "WANTYES" /\ d.q = "OPPOSITE"   -> Result("WANTNO", "EMPTY", "no")

\* Mutant: turning an option off on request is not acknowledged.
RefuseSilent(d) ==
  IF d.st = "WANTNO" /\ d.q = "OPPOSITE" THEN Result("WANTYES", "EMPTY", "yes")
  ELSE Result("NO", "EMPTY", "nothing")

\* Mutant: a refusal of WANTYES leaves its queue as it is.
RefuseKeepsQueue(d) ==
  IF d.st = "WANTYES" THEN Result("NO", d.q, "nothing")
  ELSE IF d.st = "YES" THEN Result("NO", d.q, "no")
  ELSE IF d.st = "WANTNO" /\ d.q = "OPPOSITE" THEN Result("WANTYES", "EMPTY", "yes")
  ELSE Result("NO", "EMPTY", "nothing")

\* The peer says no: telnet_dont() for o_us, telnet_wont() for o_him.
Refuse(d) ==
  CASE d.st = "NO"                            -> Same(d)
    [] d.st = "YES"                           -> Result("NO", d.q, "no")
    [] d.st = "WANTNO" /\ d.q = "EMPTY"       -> Result("NO", "EMPTY", "nothing")
    [] d.st = "WANTNO" /\ d.q = "OPPOSITE"    -> Result("WANTYES", "EMPTY", "yes")
    [] d.st = "WANTYES"                       -> Result("NO", "EMPTY", "nothing")

\* telnet_neg_lenab(), telnet_neg_renab()
Enable(d) ==
  CASE d.st = "NO"      -> Result("WANTYES", d.q, "yes")
    [] d.st = "YES"     -> Same(d)
    [] d.st = "WANTNO"  -> Result("WANTNO", "OPPOSITE", "nothing")
    [] d.st = "WANTYES" -> Result("WANTYES", "EMPTY", "nothing")

\* telnet_neg_ldisab()
Disable(d) ==
  CASE d.st = "NO"      -> Same(d)
    [] d.st = "YES"     -> Result("WANTNO", d.q, "no")
    [] d.st = "WANTNO"  -> Result("WANTNO", "EMPTY", "nothing")
    [] d.st = "WANTYES" -> Result("WANTYES", "OPPOSITE", "nothing")

\* The options the driver knows (telnet_get_optp()) and in which direction
\* it agrees to them (telnet_lenabp(), telnet_renabp()).
Known == {"ECHO", "SGA", "CDM"}
lenabp(opt) == opt \in {"ECHO", "SGA", "CDM"}
renabp(opt) == opt = "SGA"

=============================================================================
