SPECIFICATION Spec
CONSTANTS
  RoomNames = {general, dev}
  Initial = {general}
  Messages = {1, 2}
  RoomOf <- InOneRoom
  Ts <- ByNumber
  PageSize = 1
  SeenCap = 1
  MaxActs = 4
  Pins = {1}
  Ids = {i1, i2}
  NoRoom = NoRoom
SYMMETRY IdSymmetry
INVARIANTS
  NoEarlyRepeat
  OfTheRoom
  NeverLeftUnpolled
CHECK_DEADLOCK FALSE
