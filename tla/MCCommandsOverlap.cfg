SPECIFICATION FairSpec
CONSTANTS
  w1 = w1
  w2 = w2
  Workers = {w1, w2}
  AutoTypes <- Inventory
  MaxDispatches = 2
  PerHeartbeat = 1
  MaxCommands = 1
INVARIANTS OutcomeExplained DispatchesBounded
PROPERTIES EventuallySettled
