CONSTANTS
  Headless = TRUE
  MaxStep = 1
  MaxWorker = 2
  Budget = 3
  LoopLimit = 2
  Approval = {}
  Verdicts = {"Accept", "Correct"}
  Parents = {1}
  Denials = TRUE
SPECIFICATION FairSpec
INVARIANTS
  WithinBudget
  AcceptedWasDone
PROPERTIES
  EveryRunEnds
CHECK_DEADLOCK FALSE
