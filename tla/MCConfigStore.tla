--------------------------- MODULE MCConfigStore ---------------------------
(* A small instance of ConfigStore: two requests that take turns or cross, *)
(* with two passwords to an account, two values of a setting, an edit, a   *)
(* restart and a kind of write that fails.                                 *)
EXTENDS ConfigStore, TLC

CONSTANTS a, b, w1, w2

\* In mail_data_root requests take turns and submit anything.  Elsewhere they
\* cross, and submit at most one account, with the first of its passwords; once
\* they have, one more thing may go wrong.
Plain == InTurn /\ restarts = 0 /\ failed \subseteq {"save"}

Simple(w) ==
    LET accounts == asked[w].accounts IN
    /\ op[w] = "put" =>
         asked[w].setting = None /\ (accounts = None \/ Len(accounts) = 1)
    /\ op[w] \in {"put", "add"} /\ accounts # None =>
         accounts[1].secret \in {Mask, <<accounts[1].id, 1>>}

Bounded ==
    IF cwd = Root THEN Plain
    ELSE /\ \A w \in Writers : Simple(w)
         /\ crossed => restarts + edits + Cardinality(failed) <= 1

Symmetry == Permutations({a, b}) \cup Permutations({w1, w2})
=============================================================================
