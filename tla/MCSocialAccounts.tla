-------------------------- MODULE MCSocialAccounts --------------------------
(* Instance of SocialAccounts for TLC: the members of its sets. *)
EXTENDS SocialAccounts, TLC

CONSTANTS
  u1, u2,   \* users
  c1, c2,   \* clients
  a1, a2,   \* assets
  s1, s2,   \* states
  d1, d2,   \* discoveries
  b1, b2,   \* callbacks
  r1, r2    \* connects

Symmetry ==
  Permutations(Users) \cup Permutations(Clients) \cup Permutations(Assets) \cup Permutations({d1, d2})
    \cup Permutations({b1, b2}) \cup Permutations({r1, r2})
=============================================================================
