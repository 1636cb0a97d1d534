------------------------------ MODULE MCTriage ------------------------------
(* Small instances of one board, one per behaviour: Triage with two cards  *)
(* and three columns of which the agent may choose two; SingleFlight for   *)
(* the batch, which request threads start and restarts reset; and for      *)
(* ingest, which a loop starts as well and nothing resets.  The variables  *)
(* of the other two keep their initial values.                             *)
EXTENDS Triage, SingleFlight, TLC

CONSTANTS b1, i1, q1, c1, r1, r2, l1, l2, t1, t2, t3

VARIABLES
    part,           \* which instance this behaviour is of
    flagI, launchingI, threadI, cycleI, rebootsI, errorsI, crossedI

varsI == <<flagI, launchingI, threadI, cycleI, rebootsI, errorsI, crossedI>>

MCMids == 1..2
MCActions == {"HUMAN_TRIAGE", "TO_ARCHIVE", "PENDING_ACTION"}
MCAgentActions == {"HUMAN_TRIAGE", "TO_ARCHIVE"}

Ingest == INSTANCE SingleFlight WITH
    Job <- "ingest", Launchers <- {l1, l2}, Threads <- {t1, t2}, Loops <- {c1},
    MaxReboots <- 1, MaxErrors <- 2,
    flag <- flagI, launching <- launchingI, thread <- threadI,
    cycle <- cycleI, reboots <- rebootsI, errors <- errorsI,
    crossed <- crossedI

BoardInit ==
    /\ part \in {"triage", "batch", "ingest"}
    /\ Init /\ FlightInit /\ Ingest!FlightInit

BoardNext ==
    /\ UNCHANGED part
    /\ \/ part = "triage" /\ Next /\ UNCHANGED <<flightVars, varsI>>
       \/ part = "batch" /\ FlightNext /\ UNCHANGED <<vars, varsI>>
       \/ part = "ingest" /\ Ingest!FlightNext /\ UNCHANGED <<vars, flightVars>>

\* Triage and the batch ask nothing of their initial states; the loop of
\* ingest always has a step to take.
BoardFairness ==
    /\ Fairness
    /\ FlightFairness
    /\ WF_varsI(part = "ingest" /\ Ingest!Runs)

BoardSpec ==
    BoardInit /\ [][BoardNext]_<<vars, flightVars, varsI, part>> /\ BoardFairness

\* A flag that says a job is running is eventually cleared, and the board
\* offers the job again: the batch's because its worker and every restart
\* clear it, the ingest's because the loop writes it whatever it was.
FlagsRecover == BoardRecovers /\ Ingest!BoardRecovers
=============================================================================
