------------------------------ MODULE Columns ------------------------------
(***************************************************************************)
(* What the board promises about the column of a card: the operator may    *)
(* put it anywhere and may reset a whole column; the program places only   *)
(* cards the operator has not placed, and only in columns it may choose.   *)
(***************************************************************************)
CONSTANTS
    Mids,           \* cards
    Actions,        \* columns
    AgentActions,   \* columns the program may choose
    None

VARIABLE column     \* None: the card is in the inbox column, or not there

Init == column = [m \in Mids |-> None]

OperatorPlaces(m, a) ==
    column' = [column EXCEPT ![m] = [action |-> a, source |-> "user"]]

OperatorResets(a) ==
    column' = [m \in Mids |-> IF column[m] # None /\ column[m].action = a
                              THEN None ELSE column[m]]

ProgramPlaces(m, a) ==
    /\ column[m] = None \/ column[m].source = "agent"
    /\ column' = [column EXCEPT ![m] = [action |-> a, source |-> "agent"]]

Leaves(m) == column' = [column EXCEPT ![m] = None]

Next ==
    \/ \E m \in Mids, a \in Actions : OperatorPlaces(m, a)
    \/ \E a \in Actions : OperatorResets(a)
    \/ \E m \in Mids, a \in AgentActions : ProgramPlaces(m, a)
    \/ \E m \in Mids : Leaves(m)

Spec == Init /\ [][Next]_column
=============================================================================
