SPECIFICATION Spec
CONSTANTS
  ExecJobs = {}
  SubJobs = {b1, b2, b3, b4}
  Callers = {c1, c2}
  Background = {}
  Sessions = {s1}
  SessionOf <- OneSession
  MaxActive = 2
  MaxRetained = 1
  MaxLate = 4
  NoJob = NoJob
  Nobody = Nobody
  NoSession = NoSession
SYMMETRY Symmetry
INVARIANTS
  NoUseAfterFree
  GaugeExact
  NoGhostRow
  ReapNeverWaitsForLock
CHECK_DEADLOCK FALSE
