SPECIFICATION Spec
CONSTANTS
  none = none
  r1 = r1
  r2 = r2
  k1 = k1
  k2 = k2
  j1 = j1
  p1 = p1
  p2 = p2
  p3 = p3
  b1 = b1
  b2 = b2
  b3 = b3
  Requests = {r1, r2}
  BatchKeys = {k1, k2}
  JobKeys = {j1}
  Posts = {p1, p2}
  Rows = {b1, b2}
  Limit = 1
SYMMETRY Symmetry
INVARIANTS
  AnswersAgree
PROPERTIES
  RepeatIsAnswered
CHECK_DEADLOCK FALSE
