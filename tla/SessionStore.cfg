CONSTANTS
    s1 = s1  s2 = s2  main = main  guard = guard  agent = agent
    Session <- MCSession
    Main = main  Guard = guard
    Background <- MCNoBackground
    NoSession = NoSession  Nobody = Nobody
    MaxAttempts = 2
    MaxMessages = 2  MaxLists = 1  MaxFaults = 1  MaxMisreads = 1  MaxCrashes = 1  MaxGuards = 1  MaxSwitches = 1
SPECIFICATION Spec
INVARIANTS
  LatestReadable
  AckedKept
  ListStored
PROPERTIES
  UpdatesWhole
CHECK_DEADLOCK FALSE
