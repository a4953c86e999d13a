SPECIFICATION Spec
CONSTANTS
  room = room
  cave = cave
  lamp = lamp
  elf = elf
  orc = orc
  Obj = {room, cave, lamp, elf}
  Living = {elf}
  Able = {}
  Dtors = {lamp}
  Shadows = {}
  Meddle = TRUE
  None = None
  Home <- MCTogether
  MaxOps = 3
  MaxDepth = 5
INVARIANTS FoundInSuper
