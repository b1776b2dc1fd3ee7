SPECIFICATION Spec
CONSTANTS
  fb = fb
  ig = ig
  r1 = r1
  r2 = r2
  j1 = j1
  k1 = k1
  k2 = k2
  Accounts = {fb}
  Instagram = {}
  Requests = {r1, r2}
  Jobs = {j1}
  Keys = {k1, k2}
  MaxAttempts = 3
  Faults = {}
INVARIANTS
  AtMostOnce
  KeyIsExclusive
PROPERTIES
  PublishedIsFinal
