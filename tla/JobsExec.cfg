SPECIFICATION Spec
CONSTANTS
  ExecJobs = {e1, e2, e3}
  SubJobs = {}
  Callers = {c1, c2}
  Background = {}
  Sessions = {s1}
  SessionOf <- OneSession
  MaxActive = 1
  MaxRetained = 0
  MaxLate = 2
  NoJob = NoJob
  Nobody = Nobody
  NoSession = NoSession
SYMMETRY Symmetry
INVARIANTS
  OneJoiner
  Bounded
  GaugeExact
CHECK_DEADLOCK FALSE
