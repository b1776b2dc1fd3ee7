----------------------------- MODULE MCContent -----------------------------
(* Content for TLC. *)
EXTENDS Content, TLC

CONSTANTS p1, p2, x1, x2, b1, h1, h2, a1, u1, u2, u3, i1, i2

Symmetry == Permutations(Posts) \cup Permutations(Texts) \cup Permutations(Handlers) \cup Permutations(Uploads) \cup Permutations(Images)
=============================================================================
