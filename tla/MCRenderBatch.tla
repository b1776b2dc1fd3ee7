---------------------------- MODULE MCRenderBatch ----------------------------
(* Instances of RenderBatch for TLC: the members of its sets. *)
EXTENDS RenderBatch

CONSTANTS
  i1, i2,   \* render jobs
  w1, w2,   \* executions
  c1,       \* a reconciler
  r1        \* a cancel request
=============================================================================
