SPECIFICATION FairSpec
CONSTANTS
  i1 = i1
  i2 = i2
  w1 = w1
  w2 = w2
  c1 = c1
  r1 = r1
  Items = {i1, i2}
  Workers = {w1}
  Reconcilers = {c1}
  Requests = {r1}
INVARIANTS
  EndedExactly
  CancelledIfAsked
PROPERTIES
  CountsSettle
CHECK_DEADLOCK FALSE
