----------------------------- MODULE AutoUpdate -----------------------------
(***************************************************************************)
(* The deploy tree: cron starts the updater again and again; under a file  *)
(* lock it pins the tree to the branch, fetches, merges, builds images and *)
(* recreates the containers one by one, and only then records the commit   *)
(* as deployed.  Any command may fail, the updater may be killed, and the  *)
(* operator works in the same tree.  The containers are Migrations'        *)
(* processes: a recreated one is killed in the middle of what it does and  *)
(* comes back with the new version.                                        *)
(***************************************************************************)
EXTENDS Migrations

CONSTANT Updaters               \* runs that cron may have started at once

Nobody == "nobody"
ASSUME AutoUpdateAssumption == Nobody \notin Updaters

VARIABLES
    origin,         \* the last commit of the branch at origin
    tree,           \* the deploy tree: the branch checked out, the commit each
                    \* branch is at and origin's at the last fetch, uncommitted
                    \* changes, commits of its own
    image,          \* the commit the images were last built from
    marker,         \* the deployed-SHA file; 0 is none
    lock,           \* who holds the file lock
    upd,            \* each run: where it is, and the commit it means to deploy
    switched        \* history: a branch was checked out between merge and build

updaterVars == <<origin, tree, image, marker, lock, upd, switched>>
vars == <<migrationVars, updaterVars>>

Branches == {"main", "other"}
Idle == [pc |-> "idle", remote |-> 0]
Head == tree.at[tree.on]

-----------------------------------------------------------------------------
(* main, command by command.                                               *)

At(u, step) == upd[u].pc = step
Step(u, to) == upd' = [upd EXCEPT ![u].pc = to]

\* It returns, or dies: the lock goes with the process.
Ends(u) == upd' = [upd EXCEPT ![u] = Idle] /\ lock' = Nobody

Cron(u) ==
    /\ At(u, "idle") /\ lock = Nobody
    /\ lock' = u /\ Step(u, "pin")
    /\ UNCHANGED <<migrationVars, origin, tree, image, marker, switched>>

\* A tree on another branch is switched back, unless that would touch
\* uncommitted changes.
Pin(u) ==
    /\ At(u, "pin")
    /\ IF tree.on # "main" /\ tree.dirty
       THEN Ends(u) /\ UNCHANGED tree
       ELSE Step(u, "check") /\ UNCHANGED lock /\ tree' = [tree EXCEPT !.on = "main"]
    /\ UNCHANGED <<migrationVars, origin, image, marker, switched>>

CheckChanges(u) ==
    /\ At(u, "check")
    /\ IF tree.dirty THEN Ends(u) ELSE Step(u, "fetch") /\ UNCHANGED lock
    /\ UNCHANGED <<migrationVars, origin, tree, image, marker, switched>>

\* git fetch, then git rev-parse: nobody looks whether that one failed, and 0
\* is no commit then.
Fetch(u) ==
    /\ At(u, "fetch")
    /\ tree' = [tree EXCEPT !.ref = origin]
    /\ \E remote \in {origin, 0} :
         /\ upd' = [upd EXCEPT ![u] = [pc |-> "compare", remote |-> remote]]
         /\ IF remote = 0 THEN Trouble ELSE UNCHANGED troubles
    /\ UNCHANGED <<running, pc, dbVars, origin, image, marker, lock, switched>>

\* Mutant: the marker is written before the work is done.
CompareAndRecord(u) ==
    /\ At(u, "compare")
    /\ IF marker = upd[u].remote THEN Ends(u)
       ELSE Step(u, "merge") /\ UNCHANGED lock
    /\ marker' = upd[u].remote
    /\ UNCHANGED <<migrationVars, origin, tree, image, switched>>

Compare(u) ==
    /\ At(u, "compare")
    /\ IF marker = upd[u].remote THEN Ends(u)
       ELSE Step(u, "merge") /\ UNCHANGED lock
    /\ UNCHANGED <<migrationVars, origin, tree, image, marker, switched>>

\* git merge --ff-only origin/main: a branch with commits of its own cannot
\* follow, but it stays where it is if it has the commit already.
Merge(u) ==
    /\ At(u, "merge")
    /\ IF tree.own /\ Head < tree.ref THEN Ends(u) /\ UNCHANGED tree
       ELSE /\ Step(u, "build") /\ UNCHANGED lock
            /\ tree' = [tree EXCEPT !.at[tree.on] = IF @ < tree.ref THEN tree.ref ELSE @]
    /\ UNCHANGED <<migrationVars, origin, image, marker, switched>>

Build(u) ==
    /\ At(u, "build") /\ Step(u, "up")
    /\ image' = Head
    /\ UNCHANGED <<migrationVars, origin, tree, marker, lock, switched>>

\* docker compose up -d: a container with another image is killed and
\* recreated, one after the other.
Recreate(u, p) ==
    /\ At(u, "up") /\ running[p] # image
    /\ running' = [running EXCEPT ![p] = image]
    /\ Raises(p) /\ Stopped(p)
    /\ UNCHANGED <<ddl, spare, columns, decided, status, meant, troubles>>
    /\ UNCHANGED updaterVars

Record(u) ==
    /\ At(u, "up") /\ \A p \in Processes : running[p] = image
    /\ marker' = upd[u].remote
    /\ Ends(u)
    /\ UNCHANGED <<migrationVars, origin, tree, image, switched>>

Update(u) ==
    \/ Cron(u) \/ Pin(u) \/ CheckChanges(u) \/ Fetch(u) \/ Compare(u) \/ Merge(u)
    \/ Build(u) \/ Record(u)
    \/ \E p \in Processes : Recreate(u, p)

\* A command fails, with whatever it has done so far, or the run is killed.
Fails(u) ==
    /\ ~At(u, "idle") /\ Ends(u) /\ Trouble
    /\ UNCHANGED <<running, pc, dbVars, origin, tree, image, marker, switched>>

-----------------------------------------------------------------------------
(* Others.                                                                 *)

Push ==
    /\ origin < MaxCommits /\ origin' = origin + 1
    /\ UNCHANGED <<migrationVars, tree, image, marker, lock, upd, switched>>

\* The operator checks out a branch, changes files or commits in the tree.
Operate ==
    /\ \/ /\ tree' = [tree EXCEPT !.on = CHOOSE b \in Branches : b # tree.on]
          /\ switched' = (switched \/ \E u \in Updaters : At(u, "build"))
       \/ tree' = [tree EXCEPT !.dirty = ~tree.dirty] /\ UNCHANGED switched
       \/ tree' = [tree EXCEPT !.own = TRUE] /\ tree.on = "main" /\ UNCHANGED switched
    /\ Trouble
    /\ UNCHANGED <<running, pc, dbVars, origin, image, marker, lock, upd>>

Init ==
    /\ MigrationsInit
    /\ origin = Predecessor /\ image = Predecessor
    /\ marker = Predecessor
    /\ tree = [on |-> "main", at |-> [b \in Branches |-> Predecessor],
               ref |-> Predecessor, dirty |-> FALSE, own |-> FALSE]
    /\ lock = Nobody /\ upd = [u \in Updaters |-> Idle]
    /\ switched = FALSE

Next ==
    \/ \E p \in Processes : (InitDb(p) \/ Locked(p)) /\ UNCHANGED updaterVars
    \/ Decisions /\ UNCHANGED updaterVars
    \/ \E u \in Updaters : Update(u) \/ Fails(u)
    \/ Push \/ Operate

Fairness ==
    /\ \A p \in Processes : WF_vars(InitDb(p) /\ UNCHANGED updaterVars)
    /\ \A u \in Updaters : WF_vars(Update(u))

Spec == Init /\ [][Next]_vars /\ Fairness

-----------------------------------------------------------------------------
\* A run that finds the marker at origin's commit and does nothing is right:
\* every container runs that commit or a later one, whatever failed or was
\* killed before -- unless the operator checked out another branch between the
\* merge of a run and its build.
SkipMeansDeployed ==
    ~switched => \A p \in Processes : marker <= running[p]
=============================================================================
