--------------------------- MODULE MCInteractive ---------------------------
(***************************************************************************)
(* Constants of the model-checking run of Interactive.  Objects, records   *)
(* and sessions are interchangeable.                                       *)
(***************************************************************************)
EXTENDS Interactive, TLC

CONSTANTS o1, o2, o3, r1, r2, r3, s1, s2, s3

MCObj == {o1, o2, o3}
MCRec == {r1, r2, r3}
MCSess == {s1, s2, s3}
Symmetry == Permutations(MCObj) \cup Permutations(MCRec) \cup Permutations(MCSess)

=============================================================================
