SPECIFICATION LiveSpec
CONSTANTS
  MaxRuns = 2
  Messages = {m1, m2}
  SteerCap = 1
  Asked = {q1}
  Options = {yes, no}
  Nobody = Nobody
INVARIANTS
  NothingForgotten
  EchoNamesIt
  ChosenIsHeard
PROPERTY
  KeepsPromise
CHECK_DEADLOCK FALSE
