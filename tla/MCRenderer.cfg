SPECIFICATION FairSpec
CONSTANTS
  w1 = w1
  w2 = w2
  c1 = c1
  c2 = c2
  Workers = {w1, w2}
  Reconcilers = {c1}
  MaxTries = 2
  MaxMishaps = 2
INVARIANTS
  ReadyIffCompleted
PROPERTIES
  RendersOnce
  Fenced
  CancelHolds
  Settles
CHECK_DEADLOCK FALSE
