SPECIFICATION LockFairSpec
CONSTANTS
  Runs = {r1, r2, r3}
  Mortals = {r1}
  Leavers = {r2}
  Failing = {r2}
  Files = {i1, i2, i3}
  NoFile = NoFile
  NoRun = NoRun
INVARIANTS
  OneStarterWins
  HolderNamed
PROPERTIES
  Answered
CHECK_DEADLOCK FALSE
