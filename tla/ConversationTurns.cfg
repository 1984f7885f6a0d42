SPECIFICATION Spec
CONSTANTS
  sA = sA
  sB = sB
  n1 = n1
  n2 = n2
  Sessions = {sA, sB, n1, n2}
  History <- MCHistory
  Models = {x, y}
  ConfigModel = x
  i1 = i1
  i2 = i2
  Slots = {i1, i2}
  t1 = t1
  t2 = t2
  Texts = {t1, t2}
  Stored <- MCStored
  StoredOlder = {}
  MaxDrafts = 2
  MaxActs = 4
SYMMETRY MCSymmetry
INVARIANTS
  WordsKept
  ScreenAgrees
  PinHonoured
CHECK_DEADLOCK FALSE
