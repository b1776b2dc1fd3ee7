--------------------------- MODULE MCPublication ---------------------------
(* Instances of Publication for TLC: the members of its sets. *)
EXTENDS Publication

CONSTANTS
  fb, ig,       \* a Facebook page and an Instagram account
  r1, r2, j1,   \* two publish requests, one schedule job
  k1, k2        \* idempotency keys
=============================================================================
