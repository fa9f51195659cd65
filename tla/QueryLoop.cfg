\* A turn budget of four, one output-token recovery, a plain notice and a verdict.
CONSTANTS
  n1 = n1
  v1 = v1
  MaxTurns = 4
  RecoveryLimit = 1
  Notice = {n1, v1}
  Verdict = {v1}
  Setup <- Setups
SPECIFICATION FairSpec
INVARIANTS
  CallsBounded
  ReportGiven
  NoticesAnswered
PROPERTIES
  EveryRunEnds
CHECK_DEADLOCK FALSE
