CONSTANTS
  Headless = FALSE
  MaxStep = 3
  MaxWorker = 3
  Budget = 2
  LoopLimit = 2
  Approval = {2}
  Verdicts = {"Accept", "Correct", "Replan"}
  Parents = {}
  Denials = TRUE
SPECIFICATION FairSpec
INVARIANTS
  OneStepRuns
  CompletedWasAccepted
PROPERTIES
  LedgerSpec
  EveryReviewAnswered
CHECK_DEADLOCK FALSE
