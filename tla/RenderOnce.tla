----------------------------- MODULE RenderOnce -----------------------------
(***************************************************************************)
(* What the renderer promises to whoever asked for an artwork, with no     *)
(* executions, tokens, leases, queues or reconcilers: a job ends once; it  *)
(* is shown as completed from the moment the library offers the artwork,   *)
(* and as cancelled only if somebody asked for that.                       *)
(***************************************************************************)
VARIABLES
  shown,     \* "absent", "running", or how the job ended
  offered,   \* the artwork is in the library
  asked      \* its batch was cancelled

Init == shown = "absent" /\ offered = FALSE /\ asked = FALSE

Ask ==
  /\ shown = "absent" /\ shown' = "running"
  /\ UNCHANGED <<offered, asked>>

(* A job that waits may end at once. *)
AskCancel ==
  /\ shown # "absent" /\ ~asked
  /\ asked' = TRUE
  /\ shown' = shown \/ (shown = "running" /\ shown' = "cancelled")
  /\ UNCHANGED offered

Complete ==
  /\ shown = "running" /\ shown' = "completed"
  /\ offered' = TRUE
  /\ UNCHANGED asked

Fail ==
  /\ shown = "running" /\ shown' = "failed"
  /\ UNCHANGED <<offered, asked>>

Cancel ==
  /\ shown = "running" /\ asked /\ shown' = "cancelled"
  /\ UNCHANGED <<offered, asked>>

Next == Ask \/ AskCancel \/ Complete \/ Fail \/ Cancel

Spec == Init /\ [][Next]_<<shown, offered, asked>>
=============================================================================
