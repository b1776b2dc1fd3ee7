----------------------------- MODULE MCPolling -----------------------------
(* The polling pages on a small instance. *)
EXTENDS Polling

CONSTANTS j1, j2
=============================================================================
