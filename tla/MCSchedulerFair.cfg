SPECIFICATION FairSpec
CONSTANTS
  h1 = h1
  h2 = h2
  w1 = w1
  w2 = w2
  Handlers = {h1, h2}
  Workers = {w1}
  MaxVersions = 2
  MaxTries = 2
  MaxCrashes = 1
  Faults = {"handlerFails"}
INVARIANTS
  PendingHasJob
PROPERTIES
  Settles
  TakenUp
CHECK_DEADLOCK FALSE
