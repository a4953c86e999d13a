----------------------------- MODULE MCServices -----------------------------
(***************************************************************************)
(* Constants of the model-checking run of Services.                        *)
(***************************************************************************)
EXTENDS Services

CONSTANTS c1, c2, lsn, udp

MCConn == {c1, c2}
MCSock == {c1, c2, lsn, udp}

=============================================================================
