------------------------------ MODULE MCTelnet ------------------------------
(***************************************************************************)
(* Small instances of Telnet for TLC: what the client sends.               *)
(***************************************************************************)
EXTENDS Telnet

\* A line, one that is longer than the canonical queue, one with an erased
\* byte that ends in CR, a line and a half; and one command of each kind,
\* a subnegotiation longer than the option queue included.
SessionMessages ==
  { <<"a", "LF">>, <<"a", "a", "a", "LF">>, <<"b", "BS", "CR", "NUL">>,
    <<"LF", "b">>, <<"IAC", "AYT">>, <<"IAC", "EL">>, <<"IAC", "EC">>,
    <<"IAC", "SB", "b", "a", "IAC", "IAC", "IAC", "b", "IAC", "SE">>,
    <<"IAC", "DO", "SGA">>, <<"IAC", "WONT", "a">> }

\* Lines, and commands to be answered, between Synch signals.
SynchMessages == { <<"LF">>, <<"a">>, <<"IAC", "AYT">> }

\* Two lines.
LineMessages == { <<"a", "LF">>, <<"b", "LF">> }

=============================================================================
