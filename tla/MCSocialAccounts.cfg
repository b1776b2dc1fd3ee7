SPECIFICATION Spec
CONSTANTS
  none = none
  u1 = u1
  u2 = u2
  c1 = c1
  c2 = c2
  a1 = a1
  a2 = a2
  s1 = s1
  s2 = s2
  d1 = d1
  d2 = d2
  b1 = b1
  b2 = b2
  r1 = r1
  r2 = r2
  Users = {u1}
  Clients = {c1, c2}
  Assets = {a1, a2}
  States = {s1}
  Discoveries = {d1, d2}
  Callbacks = {b1, b2}
  Connects = {r1, r2}
SYMMETRY Symmetry
INVARIANTS
  StateUsedOnce
  ConsumedOnce
  TokensBelong
  RetryIsReplayed
CHECK_DEADLOCK FALSE
