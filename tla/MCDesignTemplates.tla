------------------------- MODULE MCDesignTemplates -------------------------
(* DesignTemplates for TLC. *)
EXTENDS DesignTemplates, TLC

CONSTANTS t1, t2, o1, o2, s1

Symmetry == Permutations(Templates) \cup Permutations(Others)
=============================================================================
