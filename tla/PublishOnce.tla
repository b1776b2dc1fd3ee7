---------------------------- MODULE PublishOnce ----------------------------
(***************************************************************************)
(* What the publication of a post promises to those who look at it, with   *)
(* no attempts, leases, containers or executors: on each account the post  *)
(* becomes public once at most, only while it is shown as being published, *)
(* and the account is shown as failed only if the post is not public, as   *)
(* published only if it is.                                                *)
(***************************************************************************)
CONSTANT Accounts   \* the social accounts of the client

VARIABLES
  posts,   \* [Accounts -> what Meta made public]
  shown    \* [Accounts -> "idle", "pending" or "published"]: what the rows say

Shown(S, value) == shown' = [a \in Accounts |-> IF a \in S THEN value ELSE shown[a]]

Init ==
  /\ posts = [a \in Accounts |-> {}]
  /\ shown = [a \in Accounts |-> "idle"]

(* Somebody sets out to publish on the accounts of S. *)
Attempt(S) ==
  /\ \A a \in S : shown[a] = "idle" /\ posts[a] = {}
  /\ Shown(S, "pending")
  /\ UNCHANGED posts

Publish(a, c) ==
  /\ shown[a] = "pending" /\ posts[a] = {}
  /\ posts' = [posts EXCEPT ![a] = {c}]
  /\ UNCHANGED shown

(* It is known to be public. *)
Confirm(a) ==
  /\ shown[a] = "pending" /\ posts[a] # {}
  /\ Shown({a}, "published")
  /\ UNCHANGED posts

(* It is known not to be. *)
GiveUp(S) ==
  /\ \A a \in S : shown[a] = "pending" /\ posts[a] = {}
  /\ Shown(S, "idle")
  /\ UNCHANGED posts

Next ==
  \/ \E S \in SUBSET Accounts : Attempt(S) \/ GiveUp(S)
  \/ \E a \in Accounts : Confirm(a) \/ \E c \in posts'[a] : Publish(a, c)

Spec == Init /\ [][Next]_<<posts, shown>>
=============================================================================
