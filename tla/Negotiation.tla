---------------------------- MODULE Negotiation ----------------------------
(***************************************************************************)
(* One telnet option negotiated between the driver (src/src/telnet.c) and  *)
(* a client, and the use the driver makes of ECHO: input_to() with noecho  *)
(* turns the echo of the player's terminal off for one line by announcing  *)
(* that the driver will echo (src/src/comm1.c).                            *)
(*                                                                         *)
(* Requests of both parties cross on the way.  The client is any telnet    *)
(* client that follows RFC 1143: it keeps the same two directions as the   *)
(* driver, mirrored.  Messages arrive in order (TCP).                      *)
(***************************************************************************)
EXTENDS Integers, Sequences, TelnetOptions

CONSTANTS
  Option,          \* the option negotiated
  Kinds,           \* the kinds of clients: "agrees" or "free"
  Congested,       \* whether the output queue may be full
  MaxAsked         \* bound on the number of requests that are not answers

ASSUME NegotiationAssumption ==
  /\ Option \in Known
  /\ Kinds \subseteq {"agrees", "free"}
  /\ Congested \in BOOLEAN
  /\ MaxAsked \in Nat

VARIABLES
  us, him,         \* o_us/o_usq and o_him/o_himq of the driver
  hisUs, hisHim,   \* the same of the client, who calls the driver `him'
  toClient,        \* messages on their way, first sent first
  toDriver,
  input_to,        \* a function waits for the player's next line
  noecho,          \* ip->noecho
  asked,           \* requests made so far
  kind             \* the client agrees to every request and makes none, or
                   \* is free to decline requests and to make its own

server == <<us, him>>
client == <<hisUs, hisHim>>
vars == <<us, him, hisUs, hisHim, toClient, toDriver, input_to, noecho, asked,
          kind>>

Verbs == {"WILL", "WONT", "DO", "DONT"}

TypeOK ==
  /\ {us, him, hisUs, hisHim} \subseteq Direction
  /\ toClient \in Seq(Verbs)
  /\ toDriver \in Seq(Verbs)
  /\ input_to \in BOOLEAN
  /\ noecho \in BOOLEAN
  /\ asked \in 0 .. MaxAsked
  /\ kind \in Kinds

-----------------------------------------------------------------------------

\* What is put on a channel: about the sender's own performance, or about
\* the receiver's.
Own(s) == CASE s = "yes" -> <<"WILL">> [] s = "no" -> <<"WONT">>
            [] s = "nothing" -> <<>>
Peer(s) == CASE s = "yes" -> <<"DO">> [] s = "no" -> <<"DONT">>
             [] s = "nothing" -> <<>>

Init ==
  /\ us = Off /\ him = Off /\ hisUs = Off /\ hisHim = Off
  /\ toClient = <<>> /\ toDriver = <<>>
  /\ input_to = FALSE /\ noecho = FALSE
  /\ asked = 0
  /\ kind \in Kinds

\* telnet_do(), telnet_dont(), telnet_will(), telnet_wont(): telnet_input()
\* makes sure that there is room for the answer.
DriverReceives ==
  /\ toDriver # <<>>
  /\ toDriver' = Tail(toDriver)
  /\ LET verb == Head(toDriver)
         onUs == IF verb = "DO" THEN Agree(us, lenabp(Option)) ELSE Refuse(us)
         onHim == IF verb = "WILL" THEN Agree(him, renabp(Option))
                                   ELSE Refuse(him)
     IN  IF verb \in {"DO", "DONT"}
           THEN /\ us' = onUs.dir
                /\ toClient' = toClient \o Own(onUs.sent)
                /\ UNCHANGED him
           ELSE /\ him' = onHim.dir
                /\ toClient' = toClient \o Peer(onHim.sent)
                /\ UNCHANGED us
  /\ UNCHANGED <<client, input_to, noecho, asked, kind>>

\* interactive_input(): a line ends noecho, if there is room for the
\* request to end it, and goes to the waiting function, if there is one,
\* unless the player has an editor open, which takes the line.  (A line that
\* begins with ! passes noecho and the function, and changes nothing here.)
Line(room) ==
  LET e == Disable(us)
  IN  /\ input_to' \in {FALSE, input_to}
      /\ noecho' = FALSE
      /\ IF noecho /\ room
           THEN us' = e.dir /\ toClient' = toClient \o Own(e.sent)
           ELSE UNCHANGED <<us, toClient>>

\* set_call(), for input_to() of LPC code.
InputTo(hide, room) ==
  LET e == Enable(us)
  IN  /\ ~input_to
      /\ input_to' = TRUE
      /\ noecho' = hide
      /\ IF hide /\ room
           THEN us' = e.dir /\ toClient' = toClient \o Own(e.sent)
           ELSE UNCHANGED <<us, toClient>>

\* telnet_enable_echo() and telnet_disable_echo() find room in the output
\* queue or do nothing.
Room == IF Congested THEN BOOLEAN ELSE {TRUE}

DriverActs ==
  /\ Option = "ECHO"
  /\ asked < MaxAsked
  /\ asked' = asked + 1
  /\ \E room \in Room : \/ Line(room)
                        \/ \E hide \in BOOLEAN : InputTo(hide, room)
  /\ UNCHANGED <<him, client, toDriver, kind>>

-----------------------------------------------------------------------------
(* The client *)

Answers == IF kind = "agrees" THEN {TRUE} ELSE BOOLEAN

ClientReceives ==
  /\ toClient # <<>>
  /\ toClient' = Tail(toClient)
  /\ \E enabp \in Answers :
       LET verb == Head(toClient)
           onUs == IF verb = "DO" THEN Agree(hisUs, enabp) ELSE Refuse(hisUs)
           onHim == IF verb = "WILL" THEN Agree(hisHim, enabp) ELSE Refuse(hisHim)
       IN  IF verb \in {"DO", "DONT"}
             THEN /\ hisUs' = onUs.dir
                  /\ toDriver' = toDriver \o Own(onUs.sent)
                  /\ UNCHANGED hisHim
             ELSE /\ hisHim' = onHim.dir
                  /\ toDriver' = toDriver \o Peer(onHim.sent)
                  /\ UNCHANGED hisUs
  /\ UNCHANGED <<server, input_to, noecho, asked, kind>>

ClientActs ==
  /\ kind = "free"
  /\ asked < MaxAsked
  /\ asked' = asked + 1
  /\ \/ \E e \in {Enable(hisUs), Disable(hisUs)} :
          /\ hisUs' = e.dir
          /\ toDriver' = toDriver \o Own(e.sent)
          /\ UNCHANGED hisHim
     \/ \E e \in {Enable(hisHim), Disable(hisHim)} :
          /\ hisHim' = e.dir
          /\ toDriver' = toDriver \o Peer(e.sent)
          /\ UNCHANGED hisUs
  /\ UNCHANGED <<server, toClient, input_to, noecho, kind>>

Next == DriverReceives \/ ClientReceives \/ DriverActs \/ ClientActs

Spec == Init /\ [][Next]_vars

\* What was sent arrives and is handled.
FairSpec == Spec /\ WF_vars(DriverReceives) /\ WF_vars(ClientReceives)

-----------------------------------------------------------------------------
(* Properties *)

Quiet == toClient = <<>> /\ toDriver = <<>>

\* When nothing is on the way, no request is open and both parties have the
\* same idea of both directions, however their requests crossed.
Agreement ==
  Quiet => /\ us.st \in {"YES", "NO"} /\ him.st \in {"YES", "NO"}
           /\ us.st = hisHim.st
           /\ him.st = hisUs.st

\* A line asked for with noecho is not echoed on the player's screen, and
\* later lines are: once the request has been answered, a client that
\* agrees to such requests has its own echo off exactly while noecho is set.
EchoHonoured ==
  Quiet /\ kind = "agrees" => (noecho <=> hisHim.st = "YES")

\* The answers to a finite number of requests end: the parties do not
\* acknowledge each other forever.
Settles == <>[]Quiet

\* Whether some message of the verbs V on channel ch is the answer that a
\* party waits for, and what a party has put off until it is there.
Answer(ch, V, d) ==
  IF d.st \in {"WANTYES", "WANTNO"} /\ \E i \in DOMAIN ch : ch[i] \in V
    THEN 1 ELSE 0
PutOff(d) == IF d.q = "OPPOSITE" THEN 2 ELSE 0

\* How much is left to be said: a message may be answered, an answer is not,
\* and what was put off leads to a request and its answer.
Left ==
  2 * (Len(toClient) + Len(toDriver))
    + PutOff(us) + PutOff(him) + PutOff(hisUs) + PutOff(hisHim)
    - Answer(toDriver, {"DO", "DONT"}, us)
    - Answer(toDriver, {"WILL", "WONT"}, him)
    - Answer(toClient, {"DO", "DONT"}, hisUs)
    - Answer(toClient, {"WILL", "WONT"}, hisHim)

\* Every message that telnet_do(), telnet_dont(), telnet_will() or
\* telnet_wont() handles brings the parties closer to silence, whatever it is
\* answered with: no exchange of acknowledgements goes on by itself.
Converges ==
  [][DriverReceives \/ ClientReceives => Left' \in Nat /\ Left' < Left]_vars

=============================================================================
