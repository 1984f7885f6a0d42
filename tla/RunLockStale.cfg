SPECIFICATION LockSpec
CONSTANTS
  Runs = {r1, r2, r3}
  Mortals = {r1}
  Leavers = {}
  Failing = {}
  Files = {i1, i2, i3, i4}
  NoFile = NoFile
  NoRun = NoRun
INVARIANT
  OneRunIfAtomic
CHECK_DEADLOCK FALSE
