SPECIFICATION Spec
CONSTANTS
  Things = {1, 2}
  More = {3, 4}
  MaxOut = 2
  MaxLoads = 1
  MaxRuns = 2
  MaxSteps = 6
  MaxVer = 2
  MaxTracks = 3
  MaxCount = 2
  MaxPiles = 4
  MaxSaved = 1
  MaxClicks = 3
  MaxWaits = 2
  GiveUp = 2
  LastSecond = 2
  PerSecond = 2
  Lives = 2
  RoomCount = 2
  Width = 3
  Height = 3
  MaxBlocked = 4
INVARIANTS
  Settled
  Truthful
  InStep
  Kept
  Sound
CHECK_DEADLOCK FALSE
