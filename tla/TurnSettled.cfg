\* A coordinator, a killer and a worker to be verified and its verifier, or two researchers.
CONSTANTS
  MaxTask = 2
  Killer = {k1}
  Session = {s1}
  Group = {g1}
  NoTask = NoTask
  NoGroup = NoGroup
  g1 = g1
  s1 = s1
  Requests <- TurnRequests
  MaxEvents = 1
SPECIFICATION TurnSpec
INVARIANTS
  SynthesisStaysSettled
  FanInSound
  FanInNotLost
  VerifiedHasWitness
  VerdictNotLost
CONSTRAINT OneKind
CHECK_DEADLOCK FALSE
