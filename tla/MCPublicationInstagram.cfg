SPECIFICATION Spec
CONSTANTS
  fb = fb
  ig = ig
  r1 = r1
  r2 = r2
  j1 = j1
  k1 = k1
  k2 = k2
  Accounts = {ig}
  Instagram = {ig}
  Requests = {r1}
  Jobs = {j1}
  Keys = {k1}
  MaxAttempts = 3
  Faults = {}
INVARIANTS
  PostsAreRemembered
  NoOverlap
  PublishedIsTrue
PROPERTIES
  PublishesOnce
