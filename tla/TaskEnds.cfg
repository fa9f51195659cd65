\* One launch against two killers, under the scheduling the runtime gives.
CONSTANTS
  MaxTask = 1
  Killer = {k1, k2}
  Session = {s1}
  Group = {g1}
  NoTask = NoTask
  NoGroup = NoGroup
  g1 = g1
  s1 = s1
  Requests <- PlainRequests
  MaxEvents = 1
SPECIFICATION FairSpec
INVARIANTS
  TypeOK
  OneOutcomePerLaunch
PROPERTIES
  LifeSpec
  EveryLaunchEnds
CHECK_DEADLOCK FALSE
