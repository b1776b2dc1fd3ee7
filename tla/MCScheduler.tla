---------------------------- MODULE MCScheduler ----------------------------
(* Instances of Scheduler for TLC: the members of its sets. *)
EXTENDS Scheduler, TLC

CONSTANTS
  h1, h2,   \* API requests
  w1, w2    \* worker processes

Symmetry == Permutations({h1, h2}) \cup Permutations({w1, w2})
=============================================================================
