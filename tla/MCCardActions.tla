--------------------------- MODULE MCCardActions ---------------------------
(* Small instances of CardActions: two messages, numbered as they arrived. *)
EXTENDS CardActions, TLC

CONSTANTS m1, m2, h1, h2, b1

MCUidOf == m1 :> 1 @@ m2 :> 2

Interchangeable == Permutations(Handlers)
=============================================================================
