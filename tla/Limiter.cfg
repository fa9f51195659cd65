\* Six subagents on at most four permits, the limit moving between three and four.
CONSTANTS
  e1 = e1
  c1 = c1
  a1 = a1
  a2 = a2
  e2 = e2
  c2 = c2
  Nobody = Nobody
  Agent <- SomeAgents
  Spawner <- TwoExecutors
  Max = 4
  Default = 3
  Limits = {3, 4}
SPECIFICATION FairSpec
INVARIANTS
  PermitsConserved
PROPERTIES
  PoolSpec
  EveryAcquireReturns
CHECK_DEADLOCK FALSE
