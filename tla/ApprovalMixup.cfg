\* The call an approval would run need not be the one that asked.
CONSTANTS
  read1 = read1
  read2 = read2
  list = list
  remove = remove
  format = format
  terminal = terminal
  NoCall = NoCall
  NoRule = "none"
  Call <- MCCall
  ToolOf <- MCToolOf
  RuleOf <- MCRuleOf
  Safe <- MCSafe
  Policy <- MCPolicy
  Surface <- MCSurface
  MaxSize = 3
  MaxBatches = 2
  MaxCancels = 1
SPECIFICATION Spec
INVARIANTS
  AskedIsRun
CHECK_DEADLOCK FALSE
