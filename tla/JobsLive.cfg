SPECIFICATION FairSpec
CONSTANTS
  ExecJobs = {e1}
  SubJobs = {b1}
  Callers = {c1, c2}
  Background = {}
  Sessions = {s1}
  SessionOf <- OneSession
  MaxActive = 1
  MaxRetained = 0
  MaxLate = 1
  NoJob = NoJob
  Nobody = Nobody
  NoSession = NoSession
PROPERTIES
  KillAlwaysReturns
  WaitAnswered
CHECK_DEADLOCK FALSE
