SPECIFICATION Spec
CONSTANTS
  Guests = {g1, g2}
  Natives = {n1}
  Sweepers = {w1}
  Janitors = {j1}
  Killable = {g1, g2, n1}
  Inodes = {i1, i2, i3}
  Attempts = 2
  NoInode = NoInode
  Nobody = Nobody
INVARIANTS
  ExclusiveUntilRemoval
  NoLostUpdate
  FailedMeansOthersWon
  HeldByTheLiving
PROPERTIES
  SweepsOnlyFree
CHECK_DEADLOCK FALSE
