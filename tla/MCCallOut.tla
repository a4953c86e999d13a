----------------------------- MODULE MCCallOut -----------------------------
(***************************************************************************)
(* Small instances of CallOut for TLC.                                     *)
(***************************************************************************)
EXTENDS CallOut

CONSTANTS o1, o2, o3

=============================================================================
