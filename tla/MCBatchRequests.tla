--------------------------- MODULE MCBatchRequests ---------------------------
(* Instance of BatchRequests for TLC: the members of its sets. *)
EXTENDS BatchRequests, TLC

CONSTANTS
  r1, r2,       \* requests
  k1, k2,       \* keys of batches
  j1,           \* key of a single job
  p1, p2, p3,   \* posts
  b1, b2, b3    \* rows

Symmetry ==
  Permutations(Requests) \cup Permutations(BatchKeys) \cup Permutations(Posts)
    \cup Permutations(Rows)
=============================================================================
