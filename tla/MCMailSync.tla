---------------------------- MODULE MCMailSync ----------------------------
(* Instances of MailSync for TLC. *)
EXTENDS MailSync, TLC

CONSTANTS m1, m2, i1, i2, r1

Interchangeable == Permutations(Ingesters)
=============================================================================
