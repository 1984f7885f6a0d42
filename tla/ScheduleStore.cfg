SPECIFICATION FairSpec
CONSTANTS
  Sweepers = {s1, s2}
  Runners = {r1}
  Editors = {e1}
  Killable = {s1}
  Failing = {r1}
  Ids = {1, 2}
  MaxNow = 2
  MaxTries = 2
  MaxFails = 1
  Crons = {{2}, {}}
  Given = {1}
  EditIds = {1}
  EditCrons = {{2}}
  NoEntry = NoEntry
  Nobody = Nobody
INVARIANTS
  ClaimedOnce
  DecisionSurvives
  RunningHasARun
  OutcomeHasARecord
PROPERTIES
  DueIsServed
CHECK_DEADLOCK FALSE
