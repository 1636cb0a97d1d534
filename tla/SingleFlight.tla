---------------------------- MODULE SingleFlight ----------------------------
(***************************************************************************)
(* The watermark that keeps one account's background job to one run at a   *)
(* time (batch_op:state, triage_run:state, reconcile:state,                *)
(* ingest_run:state), and everyone who reads and writes it: the request    *)
(* threads and the reconcile loop that launch the job, the worker threads  *)
(* that do it, the ingest loop, and the clean-up at process start.  Each   *)
(* statement on the watermark row is an action.                            *)
(***************************************************************************)
EXTENDS Naturals

CONSTANTS
    Job,            \* which of the four this is
    Launchers,      \* request threads (and the reconcile loop)
    Threads,        \* worker threads
    Loops,          \* the ingest loop, for the ingest job
    MaxReboots,     \* bound on process restarts
    MaxErrors       \* bound on failed statements and thread starts

ASSUME SingleFlightAssumption ==
    /\ Job \in {"batch", "triage", "reconcile", "ingest"}
    /\ Job # "ingest" => Loops = {}
    /\ MaxReboots \in Nat /\ MaxErrors \in Nat

VARIABLES
    flag,           \* the watermark; "none" is no row
    launching,      \* per launcher: where it is in launch_background_worker
    thread,         \* per worker thread
    cycle,          \* per loop: where it is in _ingest_cycle
    reboots, errors,
    crossed         \* history: did the launches behind the current runs overlap?

flightVars == <<flag, launching, thread, cycle, reboots, errors, crossed>>

-----------------------------------------------------------------------------
\* Mutant: the default check, though the batch writes its progress.
RunningBare(f) == f = "running"

\* Is the job taken to be running?  (_batch_op_running, or the default.)
Running(f) == IF Job = "batch" THEN f \notin {"none", "idle"} ELSE f = "running"

FlightInit ==
    /\ flag = "none"
    /\ launching = [l \in Launchers |-> "idle"]
    /\ thread = [t \in Threads |-> "none"]
    /\ cycle = [c \in Loops |-> "asleep"]
    /\ reboots = 0 /\ errors = 0
    /\ crossed = FALSE

Error == errors < MaxErrors /\ errors' = errors + 1
NoError == UNCHANGED errors

-----------------------------------------------------------------------------
(* launch_background_worker, and the same steps in _reconcile_loop.        *)

Active == {t \in Threads : thread[t] # "none"}

\* A launcher that finds the job running redirects and is done.
Check(l) ==
    /\ launching[l] = "idle"
    /\ ~Running(flag)
    /\ launching' = [launching EXCEPT ![l] = "set"]
    /\ crossed' = \/ \E k \in Launchers \ {l} : launching[k] # "idle"
                  \/ crossed /\ Active # {}
    /\ UNCHANGED <<flag, thread, cycle, reboots, errors>>

SetRunning(l) ==
    /\ launching[l] = "set"
    /\ \/ /\ flag' = "running"
          /\ launching' = [launching EXCEPT ![l] = "spawn"]
          /\ NoError
       \/ /\ launching' = [launching EXCEPT ![l] = "idle"]
          /\ UNCHANGED flag
          /\ Error
    /\ UNCHANGED <<thread, cycle, reboots, crossed>>

Spawn(l) ==
    /\ launching[l] = "spawn"
    /\ launching' = [launching EXCEPT ![l] = "idle"]
    /\ \/ /\ \E t \in Threads :
                /\ thread[t] = "none"
                /\ thread' = [thread EXCEPT ![t] = "open"]
          /\ NoError
       \/ /\ UNCHANGED thread        \* the thread cannot be started
          /\ Error
    /\ UNCHANGED <<flag, cycle, reboots, crossed>>

-----------------------------------------------------------------------------
(* The worker: _run_batch_background, _run_triage_background,              *)
(* _run_reconcile_background or _run_ingest_background.                    *)

At(t, label) == thread' = [thread EXCEPT ![t] = label]

\* _with_db opens the database before the try; if that fails the thread dies.
Open(t) ==
    /\ thread[t] = "open"
    /\ \/ At(t, IF Job \in {"batch", "ingest"} THEN "mark" ELSE "work") /\ NoError
       \/ At(t, "none") /\ Error
    /\ UNCHANGED <<flag, launching, cycle, reboots, crossed>>

\* The batch announces 0 of n; _ingest_cycle says once more it is running.
\* A failure goes to the finally block.
Mark(t) ==
    /\ thread[t] = "mark"
    /\ \/ /\ flag' = IF Job = "batch" THEN "progress" ELSE "running"
          /\ At(t, "work")
          /\ NoError
       \/ /\ At(t, IF Job = "ingest" THEN "tail" ELSE "clear")
          /\ UNCHANGED flag
          /\ Error
    /\ UNCHANGED <<launching, cycle, reboots, crossed>>

\* The batch counts what it has done.
Progress(t) ==
    /\ Job = "batch"
    /\ thread[t] = "work"
    /\ flag' = "progress"
    /\ UNCHANGED <<launching, thread, cycle, reboots, errors, crossed>>

\* The job itself ends, one way or the other: exceptions are swallowed.
Work(t) ==
    /\ thread[t] = "work"
    /\ At(t, "clear")
    /\ UNCHANGED <<flag, launching, cycle, reboots, errors, crossed>>

\* Mutant: the worker of any job goes on after the finally block.
ClearToTail(t) ==
    /\ thread[t] = "clear"
    /\ At(t, "tail")
    /\ flag' = "idle"
    /\ UNCHANGED <<launching, cycle, reboots, errors, crossed>>

\* The finally block.  That of _ingest_cycle suppresses its own errors and
\* is followed by that of _run_ingest_background.
Clear(t) ==
    /\ thread[t] = "clear"
    /\ At(t, IF Job = "ingest" THEN "tail" ELSE "none")
    /\ \/ flag' = "idle" /\ NoError
       \/ UNCHANGED flag /\ Error
    /\ UNCHANGED <<launching, cycle, reboots, crossed>>

ClearAgain(t) ==
    /\ thread[t] = "tail"
    /\ At(t, "none")
    /\ \/ flag' = "idle" /\ NoError
       \/ UNCHANGED flag /\ Error
    /\ UNCHANGED <<launching, cycle, reboots, crossed>>

Worker(t) ==
    \/ Open(t)
    \/ Mark(t)
    \/ Work(t)
    \/ Clear(t)
    \/ ClearAgain(t)

-----------------------------------------------------------------------------
(* _ingest_loop runs _ingest_cycle without asking whether one is running.  *)

CycleStarts(c) ==
    /\ cycle[c] = "asleep"
    /\ \/ /\ flag' = "running"
          /\ cycle' = [cycle EXCEPT ![c] = "work"]
          /\ NoError
       \/ UNCHANGED <<flag, cycle>> /\ Error
    /\ UNCHANGED <<launching, thread, reboots, crossed>>

CycleWorks(c) ==
    /\ cycle[c] = "work"
    /\ cycle' = [cycle EXCEPT ![c] = "clear"]
    /\ UNCHANGED <<flag, launching, thread, reboots, errors, crossed>>

\* Mutant: only a successful cycle clears the flag.
CycleSkipsClear(c) ==
    /\ cycle[c] = "clear"
    /\ cycle' = [cycle EXCEPT ![c] = "asleep"]
    /\ UNCHANGED <<flag, launching, thread, reboots, errors, crossed>>

CycleEnds(c) ==
    /\ cycle[c] = "clear"
    /\ cycle' = [cycle EXCEPT ![c] = "asleep"]
    /\ \/ flag' = "idle" /\ NoError
       \/ UNCHANGED flag /\ Error
    /\ UNCHANGED <<launching, thread, reboots, crossed>>

Loop(c) == CycleStarts(c) \/ CycleWorks(c) \/ CycleEnds(c)

-----------------------------------------------------------------------------
\* Mutant: the flag is left as the dead process had it.
RebootAsIs ==
    /\ reboots < MaxReboots /\ reboots' = reboots + 1
    /\ launching' = [l \in Launchers |-> "idle"]
    /\ thread' = [t \in Threads |-> "none"]
    /\ cycle' = [c \in Loops |-> "asleep"]
    /\ crossed' = FALSE
    /\ UNCHANGED <<flag, errors>>

\* The process is killed and starts again: no thread survives, and
\* _clear_stale_triage_state resets every flag but ingest_run:state.
Reboot ==
    /\ reboots < MaxReboots /\ reboots' = reboots + 1
    /\ launching' = [l \in Launchers |-> "idle"]
    /\ thread' = [t \in Threads |-> "none"]
    /\ cycle' = [c \in Loops |-> "asleep"]
    /\ crossed' = FALSE
    /\ \/ /\ flag' = IF Job # "ingest" /\ Running(flag) THEN "idle" ELSE flag
          /\ NoError
       \/ UNCHANGED flag /\ Error

FlightNext ==
    \/ \E l \in Launchers : Check(l) \/ SetRunning(l) \/ Spawn(l)
    \/ \E t \in Threads : Worker(t) \/ Progress(t)
    \/ \E c \in Loops : Loop(c)
    \/ Reboot

\* Of the threads that have been started, some thread runs; nobody has to
\* click a button.
Runs ==
    \/ \E l \in Launchers : SetRunning(l) \/ Spawn(l)
    \/ \E t \in Threads : Worker(t)
    \/ \E c \in Loops : Loop(c)

FlightFairness == WF_flightVars(Runs)

FlightSpec == FlightInit /\ [][FlightNext]_flightVars /\ FlightFairness

-----------------------------------------------------------------------------
FlightTypeOK ==
    /\ flag \in {"none", "idle", "running", "progress"}
    /\ flag = "progress" => Job = "batch"
    /\ launching \in [Launchers -> {"idle", "set", "spawn"}]
    /\ thread \in [Threads -> {"none", "open", "mark", "work", "clear", "tail"}]
    /\ \A t \in Threads : thread[t] = "tail" => Job = "ingest"
    /\ cycle \in [Loops -> {"asleep", "work", "clear"}]
    /\ reboots \in 0..MaxReboots
    /\ errors \in 0..MaxErrors
    /\ crossed \in BOOLEAN

\* The job runs once at a time: delete and archive cannot run concurrently,
\* as the batch service says.
OneAtATime == \A t, u \in Active : t = u

\* Two runs at once are the runs of launches that overlapped, one checking
\* the flag while another had still to set it or to start its thread: no
\* failure, kill or restart starts a second run beside a first.  Of every job
\* but ingestion, whose loop asks nobody.
OverlapExplained == Job # "ingest" /\ ~crossed => OneAtATime

\* Someone is at work on the job, or about to start a worker.
Attended ==
    \/ Active # {}
    \/ \E l \in Launchers : launching[l] = "spawn"
    \/ \E c \in Loops : cycle[c] # "asleep"

\* What can leave the flag behind: a statement or a thread start that failed,
\* and a restart in the middle of ingestion, whose flag the clean-up skips.
Disturbed == errors > 0 \/ (Job = "ingest" /\ reboots > 0)

\* A flag that says running is the flag of someone who will clear it, unless
\* the job was disturbed: launches that overlap do not leave it behind.
FlagExplained == Running(flag) => Attended \/ Disturbed

\* A flag that says running is eventually cleared, and the board offers the
\* job again: that of ingestion whatever fails, because the loop writes it
\* whatever it was, and any other unless a statement or a thread start failed,
\* which leaves it to the next restart.
BoardRecovers ==
    Running(flag) ~> ~Running(flag) \/ (Job # "ingest" /\ errors > 0)

=============================================================================
