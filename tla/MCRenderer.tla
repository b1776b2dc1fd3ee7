----------------------------- MODULE MCRenderer -----------------------------
(* Instances of Renderer for TLC: the members of its sets. *)
EXTENDS Renderer

CONSTANTS
  w1, w2,   \* renderer processes
  c1, c2    \* their reconcilers
=============================================================================
