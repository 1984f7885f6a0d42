SPECIFICATION Spec
CONSTANTS
  Goals = {g1}
  Rooms = {a, b}
  MaxActs = 3
  Window = 2
  MaxTrouble = 1
SYMMETRY RoomSymmetry
INVARIANTS
  InStep
  ScreenTrue
  NeverKeptOff
CHECK_DEADLOCK FALSE
