\* Two batches of up to three calls, one cancelled turn, one surface.
CONSTANTS
  read1 = read1
  read2 = read2
  list = list
  remove = remove
  format = format
  terminal = terminal
  NoCall = NoCall
  NoRule = "none"
  Call <- MCCall
  ToolOf <- MCToolOf
  RuleOf <- MCRuleOf
  Safe <- MCSafe
  Policy <- MCPolicy
  Surface <- MCSurface
  MaxSize = 3
  MaxBatches = 2
  MaxCancels = 1
SPECIFICATION FairSpec
INVARIANTS
  UnsafeAlone
  InRequestOrder
  AskRunsOnce
PROPERTIES
  BatchEnds
CHECK_DEADLOCK FALSE
