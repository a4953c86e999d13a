------------------------------ MODULE MCWorld ------------------------------
(***************************************************************************)
(* Constants of the model-checking runs of World.                          *)
(***************************************************************************)
EXTENDS World

CONSTANTS room, cave, lamp, elf, orc

\* The elf is in the room.
MCHome == [o \in Obj |-> IF o = elf THEN room ELSE None]

\* The elf and the lamp are in the room.
MCTogether == [o \in Obj |-> IF o \in {elf, lamp} THEN room ELSE None]

=============================================================================
