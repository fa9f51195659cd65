\* Two clients, two turns of two messages each, one failed append.
CONSTANTS
  c1 = c1
  c2 = c2
  Client <- MCClient
  Buffer = 1
  MaxTurns = 2
  MaxCommits = 2
  MaxFaults = 1
SPECIFICATION FairSpec
INVARIANTS
  OneActiveTurn
  StoredInOrder
  AnsweredIsFreed
PROPERTIES
  ConversationSpec
  SlotIsFreed
  StreamsEnd
CHECK_DEADLOCK FALSE
