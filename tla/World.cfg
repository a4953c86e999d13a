SPECIFICATION Spec
CONSTANTS
  room = room
  cave = cave
  lamp = lamp
  elf = elf
  orc = orc
  Obj = {room, lamp, elf, orc}
  Living = {elf, orc}
  Able = {elf}
  Dtors = {lamp}
  Shadows = {lamp}
  Meddle = FALSE
  None = None
  Home <- MCHome
  MaxOps = 3
  MaxDepth = 5
INVARIANTS Containment CommandsLocal
