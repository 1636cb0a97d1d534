------------------------------ MODULE WatchLoop ------------------------------
(***************************************************************************)
(* The two processes that fetch mail in cycles: `ingest --watch` and the   *)
(* ingest loop of `serve`.  Both read the configuration again before every *)
(* cycle, while it is edited, broken by hand and overwritten by a deploy,  *)
(* and connect to each account with SignIn's connections; the board signs  *)
(* accounts in and probes them meanwhile.  Their containers are restarted  *)
(* whenever they stop.  What a cycle does with the mail is MailSync's.     *)
(***************************************************************************)
EXTENDS SignIn

CONSTANTS
    Order,          \* the accounts in the order of the configuration
    Only,           \* what `ingest --watch --account` may name; "all" is the
                    \* container's own command, without a subcommand
    Files,          \* the configurations there may be
    Invalid,        \* a file that cannot be loaded
    Stores,         \* what the settings stores may hold at first
    Deployments,    \* the sets of containers that may be deployed
    Exports         \* what central-deploy may export; "absent" is nothing

Watch == "watch"
Serve == "serve"
Probe == "probe"            \* GET /probe-health
Loops == {Watch, Serve}
Entry == {"absent", "bare", "full"}     \* bare: without a password
Configurations == [mode : {"watch", "once"}, has : [Accounts -> Entry]]

ASSUME WatchAssumption ==
    /\ Connectors = Loops \cup {Probe}
    /\ Order \in Seq(Accounts) /\ \A x \in Accounts : \E i \in DOMAIN Order : Order[i] = x
    /\ Files \subseteq Configurations /\ Invalid \notin Configurations
    /\ Stores \subseteq [Accounts -> Entry] /\ Exports \subseteq Entry
    /\ Deployments \subseteq SUBSET Loops
    /\ "all" \in Only /\ Only \subseteq Accounts \cup {"all"} /\ "all" \notin Accounts

VARIABLES
    deployed,       \* the containers that are: both, or one alone
    file,           \* config.json
    stored,         \* the settings store of each account
    only,           \* --account, as the command line of the container has it
    job,            \* per connector: where it is, and the accounts it has left
    snap,           \* the accounts it goes by
    picked          \* the one account the watch loop keeps to, or "all"

loopVars == <<deployed, file, stored, only, job, snap, picked>>
vars == <<signInVars, loopVars>>

-----------------------------------------------------------------------------
(* The configuration.                                                      *)

\* The file's accounts, and those that only a settings store still knows.
Merged(f) == [x \in Accounts |-> IF f.has[x] # "absent" THEN f.has[x] ELSE stored[x]]
InFile(f) == [x \in Accounts |-> f.has[x]]

\* The accounts of a, or the one picked, that have a password.
Active(a, pick) == {x \in Accounts : a[x] = "full" /\ pick \in {"all", x}}

Listed(f) == {x \in Accounts : f.has[x] # "absent"}

\* A reload that fails keeps what was known.
Reloaded(a) == IF file = Invalid THEN a ELSE Merged(file)

At(t, pc, todo) == job' = [job EXCEPT ![t] = [pc |-> pc, todo |-> todo]]

-----------------------------------------------------------------------------
(* `ingest --watch`, or the container's own command (no subcommand).       *)

\* With nothing to fetch the process waits in _idle_watch_loop, which is not
\* told which account was picked.
ToIdle == At(Watch, "idle", {}) /\ picked' = "all"

\* A file that cannot be loaded, or a picked account it does not have, ends
\* the process at once.  Without a subcommand and in another mode than watch
\* it waits, but only until the idle loop looks.
Start ==
    LET a == Merged(file)
        waits == IF Listed(file) = {} THEN TRUE
                 ELSE only = "all" /\ file.mode # "watch" IN
    /\ Watch \in deployed /\ job[Watch].pc = "down" /\ file # Invalid
    /\ only # "all" => waits \/ a[only] # "absent"
    /\ IF waits \/ Active(a, only) = {} THEN ToIdle
       ELSE At(Watch, "probe", Active(a, only)) /\ picked' = only
    /\ snap' = [snap EXCEPT ![Watch] = a]
    /\ UNCHANGED <<signInVars, deployed, file, stored, only>>

\* Mutant: the idle loop looks at the file alone.
IdleUnmerged ==
    /\ job[Watch].pc = "idle" /\ file # Invalid
    /\ LET a == InFile(file) IN
       /\ Active(a, "all") # {}
       /\ At(Watch, "probe", Active(a, "all"))
       /\ snap' = [snap EXCEPT ![Watch] = a]
    /\ UNCHANGED <<signInVars, deployed, file, stored, only, picked>>

\* An account with a password ends the wait.
Idle ==
    /\ job[Watch].pc = "idle" /\ file # Invalid
    /\ LET a == Merged(file) IN
       /\ Active(a, "all") # {}
       /\ At(Watch, "probe", Active(a, "all"))
       /\ snap' = [snap EXCEPT ![Watch] = a]
    /\ UNCHANGED <<signInVars, deployed, file, stored, only, picked>>

\* A picked account that is gone makes room for all, as long as it is gone.
Pick(a) == IF picked # "all" /\ a[picked] = "absent" THEN "all" ELSE picked

\* Before each cycle.
Reload ==
    /\ job[Watch].pc = "reload"
    /\ LET a == Reloaded(snap[Watch]) IN
       /\ IF Active(a, Pick(a)) = {} THEN ToIdle
          ELSE At(Watch, "cycle", Active(a, Pick(a))) /\ UNCHANGED picked
       /\ snap' = [snap EXCEPT ![Watch] = a]
    /\ UNCHANGED <<signInVars, deployed, file, stored, only>>

-----------------------------------------------------------------------------
(* `serve`.                                                                *)

\* import_from_central_deploy seeds the empty store of every account with the
\* one export, or nothing when the export cannot be had.
Imported(export) ==
    [x \in Accounts |->
        IF Merged(file)[x] # "absent" /\ stored[x] = "absent" THEN export
        ELSE stored[x]]

ServeStarts ==
    /\ Serve \in deployed /\ job[Serve].pc = "down" /\ file # Invalid
    /\ At(Serve, "reload", {})
    /\ snap' = [snap EXCEPT ![Serve] = Merged(file)]
    /\ \E e \in Exports : stored' = Imported(e)
    /\ UNCHANGED <<signInVars, deployed, file, only, picked>>

ServeReloads ==
    /\ job[Serve].pc = "reload"
    /\ LET a == Reloaded(snap[Serve]) IN
       /\ IF Active(a, "all") = {} THEN UNCHANGED job
          ELSE At(Serve, "cycle", Active(a, "all"))
       /\ snap' = [snap EXCEPT ![Serve] = a]
    /\ UNCHANGED <<signInVars, deployed, file, stored, only, picked>>

\* GET /probe-health goes over the accounts the handlers know: ConfigStore
\* says which, here they may be any.
ProbeHealth ==
    /\ job[Probe].pc = "off" /\ job[Serve].pc # "down"
    /\ \E known \in (SUBSET Accounts) \ {{}} : At(Probe, "probe", known)
    /\ Trouble
    /\ UNCHANGED <<tokenVars, conn, flowVars, health>>
    /\ UNCHANGED <<deployed, file, stored, only, snap, picked>>

-----------------------------------------------------------------------------
(* The accounts of a cycle or probe, one after the other.                  *)

\* In the order of the configuration.
NextUp(t, x) ==
    /\ x \in job[t].todo
    /\ \E i \in DOMAIN Order : Order[i] = x /\ \A j \in 1..(i - 1) : Order[j] \notin job[t].todo
Both(t) == IF job[t].pc = "probe" THEN 1 ELSE 0

Turn(t) ==
    /\ conn[t] = Off
    /\ \E x \in Accounts : NextUp(t, x) /\ conn' = [conn EXCEPT ![t] = Opening(x, Both(t))]
    /\ UNCHANGED <<tokenVars, flowVars, health, troubles, loopVars>>

AfterLast(t) == IF t = Probe THEN "off" ELSE "reload"

\* Mutant: the last account is crossed off, the loop goes nowhere.
AdvanceInPlace(t) == At(t, job[t].pc, job[t].todo \ {conn[t].acct})

Advance(t) ==
    LET rest == job[t].todo \ {conn[t].acct} IN
    At(t, IF rest = {} THEN AfterLast(t) ELSE job[t].pc, rest)

\* Mutant: a cycle records only what the servers say.
DoneUnlessRaised(t) ==
    /\ conn[t].pc \in {"ok", "failed", "raised"}
    /\ conn' = [conn EXCEPT ![t] = Off]
    /\ Advance(t)
    /\ IF conn[t].pc = "raised" THEN UNCHANGED health
       ELSE WriteHealth(conn[t].acct, conn[t].pc)
    /\ NoTrouble
    /\ UNCHANGED <<tokenVars, flowVars>>
    /\ UNCHANGED <<deployed, file, stored, only, snap, picked>>

\* The end of one account.  An exception or a database that does not open ends
\* the whole probe request and leaves the accounts behind this one unprobed; the
\* loops take an exception for a failure and pass over such a database.
Done(t) ==
    /\ conn[t].pc \in {"ok", "failed", "raised"}
    /\ conn' = [conn EXCEPT ![t] = Off]
    /\ \/ /\ ~(t = Probe /\ conn[t].pc = "raised")
          /\ Advance(t) /\ WriteHealth(conn[t].acct, Verdict(conn[t].pc)) /\ NoTrouble
       \/ /\ t = Probe
          /\ At(t, "off", {}) /\ UNCHANGED health
          /\ IF conn[t].pc = "raised" THEN NoTrouble ELSE Trouble
       \/ job[t].pc = "cycle" /\ Advance(t) /\ UNCHANGED health /\ Trouble
    /\ UNCHANGED <<tokenVars, flowVars>>
    /\ UNCHANGED <<deployed, file, stored, only, snap, picked>>

\* The process stops: killed, or its database does not open when it probes.
Dies(l) ==
    /\ l \in Loops /\ job[l].pc # "down"
    /\ IF l = Serve
       THEN /\ job' = [job EXCEPT ![l] = [pc |-> "down", todo |-> {}],
                                  ![Probe] = [pc |-> "off", todo |-> {}]]
            /\ conn' = [t \in Threads |->
                          IF t \in {l, Probe} \cup Board THEN Off ELSE conn[t]]
            /\ ForgetLogins
       ELSE At(l, "down", {}) /\ conn' = [conn EXCEPT ![l] = Off]
            /\ UNCHANGED <<login, flow>>
    /\ Trouble
    /\ UNCHANGED <<tokenVars, crossed, health>>
    /\ UNCHANGED <<deployed, file, stored, only, snap, picked>>

-----------------------------------------------------------------------------
(* Everybody else.                                                         *)

\* A deploy or an edit by hand replaces the file; the board also mirrors an
\* account it adds or changes into the account's store.
EditFile ==
    /\ file' \in Files \cup {Invalid} /\ file' # file
    /\ Trouble
    /\ UNCHANGED <<tokenVars, conn, flowVars, health>>
    /\ UNCHANGED <<deployed, stored, only, job, snap, picked>>

SaveAccount(x, entry) ==
    /\ job[Serve].pc # "down" /\ file # Invalid
    /\ file' = [file EXCEPT !.has[x] = entry] /\ file' # file
    /\ stored' = [stored EXCEPT ![x] = entry]
    /\ Trouble
    /\ UNCHANGED <<tokenVars, conn, flowVars, health>>
    /\ UNCHANGED <<deployed, only, job, snap, picked>>

Init ==
    /\ SignInInit
    /\ deployed \in Deployments
    /\ file \in Files
    /\ stored \in Stores
    /\ only \in IF Watch \in deployed THEN Only ELSE {"all"}
    /\ picked = "all"
    /\ job = [t \in Connectors |->
                [pc |-> IF t = Probe THEN "off" ELSE "down", todo |-> {}]]
    /\ snap = [l \in Loops |-> [x \in Accounts |-> "absent"]]

SignIns ==
    \/ \E t \in Board, m \in Microsoft : job[Serve].pc # "down" /\ AuthStart(t, m)
    \/ \E t \in Terminal, m \in Microsoft : AuthLogin(t, m)
    \/ \E t \in Logins : LoginStep(t)
    \/ \E m \in Microsoft : AuthStatus(m) \/ Revoke(m)

ConnectorStep(t) == Turn(t) \/ Done(t) \/ (Connect(t) /\ UNCHANGED loopVars)

Next ==
    \/ SignIns /\ UNCHANGED loopVars
    \/ Start \/ Idle \/ Reload
    \/ ServeStarts \/ ServeReloads \/ ProbeHealth
    \/ \E t \in Connectors : ConnectorStep(t)
    \/ \E l \in Loops : Dies(l)
    \/ EditFile
    \/ \E x \in Accounts, e \in {"bare", "full"} : SaveAccount(x, e)

Fairness ==
    /\ WF_vars(Start) /\ WF_vars(Idle) /\ WF_vars(Reload)
    /\ WF_vars(ServeStarts) /\ WF_vars(ServeReloads)
    /\ \A t \in Connectors : WF_vars(ConnectorStep(t))
    /\ \A t \in Logins : WF_vars(LoginStep(t) /\ UNCHANGED loopVars)

Spec == Init /\ [][Next]_vars /\ Fairness

-----------------------------------------------------------------------------
\* A connector has accounts left while it is at work, and connects to them.
JobStates == [pc : {"down", "idle", "probe", "reload", "cycle", "off"}, todo : SUBSET Accounts]
Working(t) ==
    /\ (job[t].todo # {}) <=> (job[t].pc \in {"probe", "cycle"})
    /\ conn[t].pc # "off" => conn[t].acct \in job[t].todo
JobTypes == job \in [Connectors -> JobStates] /\ \A t \in Connectors : Working(t)

FileTypes ==
    /\ deployed \in Deployments
    /\ file \in {Invalid} \cup Configurations
    /\ stored \in [Accounts -> Entry]
    /\ only \in Only /\ picked \in {"all", only}
    /\ snap \in [Loops -> [Accounts -> Entry]]

TypeOK == SignInTypeOK /\ FileTypes /\ JobTypes

Fetching(l, x) == job[l].pc = "cycle" /\ conn[l].pc # "off" /\ conn[l].acct = x

\* An account with a password in the configuration, from the file or from its
\* settings store, is fetched again and again by both loops, through restarts,
\* broken files and idle times (by a watch that does not keep to another).
Configured(l, x) ==
    /\ l \in deployed /\ (l = Watch => only \in {"all", x})
    /\ file # Invalid /\ Merged(file)[x] = "full"
AccountsFetched ==
    \A x \in Accounts : \A l \in Loops :
        <>[]Configured(l, x) => []<>Fetching(l, x)

\* What the board shows as the health of a fetched account comes right in the
\* end, whatever stale results logins, probes and crossing cycles have written.
SignedIn(x) == x \in Microsoft => Live(x, cache[x])
HealthConverges ==
    \A x \in Accounts : \A l \in Loops :
        /\ <>[](Configured(l, x) /\ SignedIn(x)) => <>[](health[x] = "ok")
        /\ <>[](Configured(l, x) /\ ~SignedIn(x)) => <>[](health[x] = "failed")
=============================================================================
