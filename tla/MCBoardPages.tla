----------------------------- MODULE MCBoardPages -----------------------------
(* Small instances of BoardPages.                                          *)
EXTENDS BoardPages, TLC

CONSTANTS a, b, m1, p1, p2

First == <<a, b>>
Symmetry == Permutations({p1, p2})
=============================================================================
