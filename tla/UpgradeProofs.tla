---------------------------- MODULE UpgradeProofs ----------------------------
(* Decisions survive every upgrade, the marker never lies, rebuilds of a   *)
(* table keep apart and who has opened a database finds it migrated, for   *)
(* any number of containers, messages, versions and runs of the updater.   *)
EXTENDS AutoUpdate, TLAPS

-----------------------------------------------------------------------------
(* Decisions.                                                              *)

Actions == VALID_TRIAGE_ACTIONS \cup {"DRAFT_READY", "none"}
Rows == [action : Actions, source : {"agent", "user", "none"}]

InitDbSteps == {"closed", "open", "draft", "check", "create", "copy", "swap",
                "legacy", "mirror", "columns"}

DecisionTypes ==
    /\ pc \in [Processes -> InitDbSteps]
    /\ decided \in [Messages -> Rows]
    /\ meant \in [Messages -> Rows]
    /\ copied \in [Messages -> Rows]

\* One rebuild at a time is in its transaction, and what it has copied is what it
\* is about to drop.
CopyIsCurrent ==
    \A p \in Processes : pc[p] = "swap" =>
        copied = decided /\ \A q \in Processes \ {p} : pc[q] # "swap"

DecisionInv == DecisionTypes /\ CopyIsCurrent /\ DecisionsSurvive

\* What is mirrored of a status is a row the new table takes, or none; what
\* stands for a column keeps doing so when it is renamed.
LEMMA MirroredRow ==
    ASSUME NEW s
    PROVE  /\ Mirrored(s) \in Rows
           /\ Mirrored(s).action # "DRAFT_READY"
           /\ Mirrored(s) # NoRow => Remapped(s) = s
  BY DEF Mirrored, Remapped, Rows, Actions, VALID_TRIAGE_ACTIONS, Row, NoRow

\* A step that writes neither a decision nor a status, nor enters the swap.
LEMMA DecisionsUntouched ==
    ASSUME DecisionInv, UNCHANGED <<decided, meant, status, copied>>,
           pc' \in [Processes -> InitDbSteps],
           \A p \in Processes : pc'[p] = "swap" => pc[p] = "swap"
    PROVE  DecisionInv'
  BY DEF DecisionInv, DecisionTypes, CopyIsCurrent, DecisionsSurvive

LEMMA NoSwapIsCurrent ==
    ASSUME DecisionTypes, Writable, NEW p \in Processes, NEW to \in InitDbSteps,
           to # "swap", Goes(p, to)
    PROVE  CopyIsCurrent' /\ pc' \in [Processes -> InitDbSteps]
  BY DEF DecisionTypes, Writable, Goes, CopyIsCurrent

LEMMA InitDbKeepsDecisions ==
    ASSUME DecisionInv, NEW p \in Processes, InitDb(p)
    PROVE  DecisionInv'
<1> USE DEF DecisionInv
<1>1. CASE RetireDrafts(p)
  <2>1. \A m \in Messages :
          decided'[m] = IF decided[m].action # "DRAFT_READY" THEN decided[m]
                        ELSE [decided[m] EXCEPT !.action = "TO_ANSWER"]
    BY <1>1 DEF RetireDrafts
  <2>2. UNCHANGED <<status, meant, copied>>
    BY <1>1 DEF RetireDrafts
  <2> CopyIsCurrent' /\ pc' \in [Processes -> InitDbSteps]
    BY <1>1, NoSwapIsCurrent DEF RetireDrafts, InitDbSteps
  <2>3. DecisionTypes'
    <3>1. \A m \in Messages : decided'[m] \in Rows
      BY <2>1 DEF DecisionTypes, Rows, Actions, VALID_TRIAGE_ACTIONS
    <3> QED BY <1>1, <2>2, <3>1 DEF DecisionTypes, RetireDrafts
  <2>4. ASSUME NEW m \in Messages
        PROVE  \/ decided'[m] = meant[m]
               \/ /\ meant[m].action = "DRAFT_READY"
                  /\ decided'[m] = [meant[m] EXCEPT !.action = "TO_ANSWER"]
               \/ meant[m] = NoRow /\ decided'[m] = Mirrored(status[m])
    <3>1. CASE decided[m].action # "DRAFT_READY"
      BY <2>1, <3>1 DEF DecisionsSurvive
    <3>2. CASE decided[m].action = "DRAFT_READY"
      <4>1. decided[m] = meant[m]
        BY <3>2, MirroredRow DEF DecisionsSurvive, DecisionTypes, Rows
      <4> QED BY <2>1, <3>2, <4>1
    <3> QED BY <3>1, <3>2
  <2> QED BY <2>2, <2>3, <2>4 DEF DecisionsSurvive
<1>2. CASE RemapStatuses(p)
  <2>1. /\ \A m \in Messages : status'[m] = Remapped(status[m])
        /\ UNCHANGED <<decided, meant, copied>>
    BY <1>2 DEF RemapStatuses
  <2> CopyIsCurrent' /\ pc' \in [Processes -> InitDbSteps]
    BY <1>2, NoSwapIsCurrent DEF RemapStatuses, InitDbSteps
  <2>2. ASSUME NEW m \in Messages, meant[m] = NoRow, decided[m] = Mirrored(status[m])
        PROVE  decided[m] = meant[m] \/ decided[m] = Mirrored(status'[m])
    BY <2>1, <2>2, MirroredRow
  <2> QED BY <2>1, <2>2 DEF DecisionTypes, DecisionsSurvive
<1>3. CASE MirrorStatuses(p)
  <2>1. /\ \A m \in Messages :
             decided'[m] = IF decided[m] = NoRow THEN Mirrored(status[m]) ELSE decided[m]
        /\ decided' = [m \in Messages |-> decided'[m]]
        /\ UNCHANGED <<meant, status, copied>>
    BY <1>3 DEF MirrorStatuses
  <2> CopyIsCurrent' /\ pc' \in [Processes -> InitDbSteps]
    BY <1>3, NoSwapIsCurrent DEF MirrorStatuses, InitDbSteps
  <2>2. DecisionTypes'
    <3>1. \A m \in Messages : decided'[m] \in Rows
      BY <2>1, MirroredRow DEF DecisionTypes
    <3> QED BY <2>1, <3>1 DEF DecisionTypes
  <2>3. ASSUME NEW m \in Messages, decided[m] = NoRow
        PROVE  meant[m] = NoRow
    <3>1. decided[m].action = "none"
      BY <2>3 DEF NoRow, Row
    <3>2. [meant[m] EXCEPT !.action = "TO_ANSWER"].action = "TO_ANSWER"
      BY DEF DecisionTypes, Rows
    <3> QED BY <2>3, <3>1, <3>2 DEF DecisionsSurvive
  <2> QED BY <2>1, <2>2, <2>3 DEF DecisionsSurvive
<1>4. CASE Open(p) \/ CheckDdl(p) \/ CreateNew(p) \/ AddColumns(p) \/ Close(p)
  <2>1. UNCHANGED <<decided, meant, status, copied>>
    BY <1>4 DEF Open, CheckDdl, CreateNew, AddColumns, Close, dbVars
  <2>2. PICK to \in InitDbSteps \ {"swap"} : Goes(p, to)
    BY <1>4 DEF Open, CheckDdl, CreateNew, AddColumns, Close, Raises, InitDbSteps
  <2> QED BY <2>1, <2>2, DecisionsUntouched DEF Goes, DecisionTypes
<1>5. CASE Copy(p)
  <2>1. Writable /\ UNCHANGED <<decided, meant, status>>
    BY <1>5 DEF Copy
  <2>2. CASE Raises(p) /\ UNCHANGED copied
    <3>1. Goes(p, "closed") /\ "closed" \in InitDbSteps
      BY <2>2 DEF Raises, InitDbSteps
    <3> QED BY <2>1, <2>2, <3>1, NoSwapIsCurrent DEF DecisionTypes, DecisionsSurvive
  <2>3. CASE Goes(p, "swap") /\ copied' = decided
    BY <2>1, <2>3 DEF Goes, Writable, DecisionTypes, InitDbSteps, CopyIsCurrent,
          DecisionsSurvive
  <2> QED BY <1>5, <2>2, <2>3 DEF Copy
<1>6. CASE Swap(p)
  <2>1. /\ decided' = copied /\ copied = decided /\ copied' = Empty
        /\ UNCHANGED <<meant, status>>
        /\ pc[p] = "swap" /\ pc' = [pc EXCEPT ![p] = "legacy"]
        /\ \A q \in Processes \ {p} : pc[q] # "swap"
    BY <1>6 DEF Swap, CopyIsCurrent, Goes
  <2>2. Empty \in [Messages -> Rows]
    BY DEF Empty, NoRow, Row, Rows, Actions
  <2> QED BY <2>1, <2>2 DEF DecisionTypes, InitDbSteps, CopyIsCurrent, DecisionsSurvive
<1> QED BY <1>1, <1>2, <1>3, <1>4, <1>5, <1>6 DEF InitDb

\* A process that stops: a transaction it was in is rolled back.
LEMMA StoppingKeepsDecisions ==
    ASSUME DecisionInv, NEW p \in Processes, Raises(p), Stopped(p),
           UNCHANGED <<decided, meant, status>>
    PROVE  DecisionInv'
<1> USE DEF DecisionInv, DecisionTypes, CopyIsCurrent, DecisionsSurvive, Raises, Goes,
            InitDbSteps
<1>1. Empty \in [Messages -> Rows]
  BY DEF Empty, NoRow, Row, Rows, Actions
<1>2. CASE pc[p] = "swap"
  BY <1>1, <1>2 DEF Stopped
<1>3. CASE pc[p] # "swap"
  BY <1>3 DEF Stopped
<1> QED BY <1>2, <1>3

LEMMA LeaveKeepsDecisions ==
    ASSUME DecisionInv, NEW m \in Messages, NEW row \in Rows, Leave(m, row)
    PROVE  DecisionInv'
  BY DEF Leave, Writable, DecisionInv, DecisionTypes, CopyIsCurrent, DecisionsSurvive

LEMMA DecidingKeepsDecisions ==
    ASSUME DecisionInv, Decisions
    PROVE  DecisionInv'
<1>1. PICK m \in Messages :
        \/ \E action \in VALID_TRIAGE_ACTIONS, source \in {"agent", "user"} :
             Decide(m, action, source)
        \/ Reset(m) \/ DraftReady(m)
  BY DEF Decisions
<1>2. \E row \in Rows : Leave(m, row)
  <2>1. ASSUME NEW action \in VALID_TRIAGE_ACTIONS, NEW source \in {"agent", "user"},
               Decide(m, action, source)
        PROVE  \E row \in Rows : Leave(m, row)
    <3>1. Row(action, source) \in Rows
      BY DEF Row, Rows, Actions
    <3> QED BY <2>1, <3>1 DEF Decide
  <2>2. NoRow \in Rows /\ Row("DRAFT_READY", "agent") \in Rows
    BY DEF NoRow, Row, Rows, Actions
  <2>3. CASE Reset(m)
    BY <2>2, <2>3 DEF Reset
  <2>4. CASE DraftReady(m)
    BY <2>2, <2>4 DEF DraftReady
  <2> QED BY <1>1, <2>1, <2>3, <2>4
<1> QED BY <1>2, LeaveKeepsDecisions

LEMMA DecisionsKept == Spec => []DecisionInv
<1>1. Init => DecisionInv
  <2>1. NoRow \in Rows /\ Row("DRAFT_READY", "agent") \in Rows
    BY DEF NoRow, Row, Rows, Actions
  <2>2. Init => DecisionTypes /\ DecisionsSurvive
    BY <2>1 DEF Init, MigrationsInit, DecisionTypes, DecisionsSurvive, InitDbSteps, Empty
  <2>3. Init => CopyIsCurrent
    BY DEF Init, MigrationsInit, CopyIsCurrent
  <2> QED BY <2>2, <2>3 DEF DecisionInv
<1>2. DecisionInv /\ [Next]_vars => DecisionInv'
  <2> SUFFICES ASSUME DecisionInv, [Next]_vars PROVE DecisionInv'
    OBVIOUS
  <2>1. ASSUME NEW p \in Processes, InitDb(p) PROVE DecisionInv'
    BY <2>1, InitDbKeepsDecisions
  <2>2. CASE Decisions
    BY <2>2, DecidingKeepsDecisions
  <2>3. ASSUME NEW p \in Processes, Locked(p) PROVE DecisionInv'
    BY <2>3, StoppingKeepsDecisions DEF Locked
  <2>4. ASSUME NEW u \in Updaters, NEW p \in Processes, Recreate(u, p)
        PROVE  DecisionInv'
    BY <2>4, StoppingKeepsDecisions DEF Recreate
  <2>5. CASE UNCHANGED <<pc, dbVars>>
    BY <2>5, DecisionsUntouched DEF dbVars, DecisionInv, DecisionTypes
  <2>6. ASSUME NEW u \in Updaters, Update(u) \/ Fails(u) PROVE DecisionInv'
    BY <2>4, <2>5, <2>6 DEF Update, Fails, Cron, Pin, CheckChanges, Fetch, Compare,
          Merge, Build, Record, migrationVars
  <2>7. CASE Push \/ Operate \/ UNCHANGED vars
    BY <2>5, <2>7 DEF Push, Operate, vars, migrationVars
  <2> QED BY <2>1, <2>2, <2>3, <2>6, <2>7 DEF Next
<1> QED BY <1>1, <1>2, PTL DEF Spec

\* Opening a database loses and changes no decision (db/_migrate.py), beyond
\* what DecisionsSurvive allows.
THEOREM DecisionsAreKept == Spec => []DecisionsSurvive
<1>1. DecisionInv => DecisionsSurvive
  BY DEF DecisionInv
<1> QED BY <1>1, DecisionsKept, PTL

-----------------------------------------------------------------------------
(* The marker.                                                             *)

Trees == [on : Branches, at : [Branches -> Nat], ref : Nat, dirty : BOOLEAN, own : BOOLEAN]

UpdaterTypes ==
    /\ running \in [Processes -> Nat]
    /\ origin \in Nat /\ image \in Nat /\ marker \in Nat
    /\ tree \in Trees
    /\ upd \in [Updaters -> [pc : {"idle", "pin", "check", "fetch", "compare", "merge",
                                  "build", "up"},
                            remote : Nat]]
    /\ switched \in BOOLEAN

\* Whoever is at work holds the lock.
Locking == \A u \in Updaters : ~At(u, "idle") => lock = u

\* What was fetched last is not behind the marker, nor the commit a run means to
\* deploy.
Fetched ==
    /\ marker <= tree.ref /\ tree.ref <= origin
    /\ \A u \in Updaters :
          upd[u].pc \in {"compare", "merge", "build", "up"} => upd[u].remote <= tree.ref

\* Both have been merged when the images are built, and are in them when the
\* containers are recreated.
Merged ==
    \A u \in Updaters : At(u, "build") /\ ~switched =>
        upd[u].remote <= Head /\ marker <= Head
Built ==
    \A u \in Updaters : At(u, "up") /\ ~switched =>
        upd[u].remote <= image /\ marker <= image

MarkerInv == UpdaterTypes /\ Locking /\ Fetched /\ Merged /\ Built /\ SkipMeansDeployed

LEMMA MarkerInit == Init => MarkerInv
<1> SUFFICES ASSUME Init PROVE MarkerInv
  OBVIOUS
<1>1. UpdaterTypes
  <2>1. tree \in Trees
    BY DEF Init, Predecessor, Branches, Trees
  <2>2. upd \in [Updaters -> [pc : {"idle", "pin", "check", "fetch", "compare", "merge",
                                 "build", "up"},
                           remote : Nat]]
    BY DEF Init, Idle
  <2>3. switched \in BOOLEAN
    BY DEF Init
  <2>4. marker \in Nat /\ origin \in Nat /\ image \in Nat /\ running \in [Processes -> Nat]
    BY DEF Init, MigrationsInit, Predecessor
  <2> QED BY <2>1, <2>2, <2>3, <2>4 DEF UpdaterTypes
<1>2. \A u \in Updaters : upd[u].pc = "idle"
  BY DEF Init, Idle
<1>3. Fetched /\ SkipMeansDeployed
  BY <1>2 DEF Init, MigrationsInit, Fetched, SkipMeansDeployed, Predecessor
<1> QED BY <1>1, <1>2, <1>3 DEF MarkerInv, Locking, Merged, Built, At

\* One run at a time.
LEMMA Alone ==
    ASSUME Locking, NEW u \in Updaters, ~At(u, "idle"),
           NEW v \in Updaters, v # u
    PROVE  At(v, "idle")
  BY DEF Locking

\* A step that only moves the run in hand, keeping what it has fetched.
LEMMA StepKeepsMarker ==
    ASSUME MarkerInv, NEW u \in Updaters, ~At(u, "idle"),
           \/ Ends(u)
           \/ /\ UNCHANGED lock
              /\ \E to \in {"check", "fetch", "merge"} : Step(u, to)
              /\ upd'[u].pc = "merge" => At(u, "compare"),
           UNCHANGED <<running, origin, image, marker, switched>>,
           tree' \in Trees, tree'.ref = tree.ref
    PROVE  MarkerInv'
<1>1. \A v \in Updaters : v # u => upd'[v] = upd[v] /\ upd[v].pc = "idle"
  BY Alone DEF MarkerInv, UpdaterTypes, Ends, Step, At
<1>2. /\ upd'[u].pc \in {"idle", "check", "fetch", "merge"}
      /\ upd'[u].pc = "merge" => upd'[u].remote = upd[u].remote /\ upd[u].pc = "compare"
      /\ upd'[u].pc # "idle" => lock' = lock
  BY DEF MarkerInv, UpdaterTypes, Ends, Step, Idle, At
<1>3. UpdaterTypes'
  BY DEF MarkerInv, UpdaterTypes, Ends, Step, Idle
<1>4. Locking' /\ Fetched' /\ Merged' /\ Built' /\ SkipMeansDeployed'
  BY <1>1, <1>2 DEF MarkerInv, Locking, Fetched, Merged, Built, SkipMeansDeployed, At
<1> QED BY <1>3, <1>4 DEF MarkerInv

LEMMA UpdateKeepsMarker ==
    ASSUME MarkerInv, NEW u \in Updaters, Update(u)
    PROVE  MarkerInv'
<1> USE DEF MarkerInv
<1>1. CASE Cron(u)
  <2>1. /\ upd' = [upd EXCEPT ![u].pc = "pin"] /\ lock' = u
        /\ UNCHANGED <<running, origin, image, marker, tree, switched>>
    BY <1>1 DEF Cron, Step, migrationVars
  <2>2. \A v \in Updaters : upd[v].pc = "idle"
    BY <1>1, AutoUpdateAssumption DEF Cron, Locking, At
  <2> QED BY <2>1, <2>2 DEF UpdaterTypes, Locking, Fetched, Merged, Built,
            SkipMeansDeployed, At, Head
<1>2. CASE Pin(u) \/ CheckChanges(u) \/ Compare(u)
  <2>1. tree' \in Trees /\ tree'.ref = tree.ref
    BY <1>2 DEF Pin, CheckChanges, Compare, UpdaterTypes, Branches, Trees
  <2>2. /\ ~At(u, "idle")
        /\ UNCHANGED <<running, origin, image, marker, switched>>
        /\ \/ Ends(u)
           \/ /\ UNCHANGED lock
              /\ \E to \in {"check", "fetch", "merge"} : Step(u, to)
              /\ upd'[u].pc = "merge" => At(u, "compare")
    BY <1>2 DEF Pin, CheckChanges, Compare, Step, At, migrationVars, UpdaterTypes
  <2> QED BY <2>1, <2>2, StepKeepsMarker
<1>3. CASE Fetch(u)
  <2>1. PICK remote \in {origin, 0} :
          upd' = [upd EXCEPT ![u] = [pc |-> "compare", remote |-> remote]]
    BY <1>3 DEF Fetch
  <2>2. /\ tree' = [tree EXCEPT !.ref = origin]
        /\ UNCHANGED <<running, origin, image, marker, lock, switched>>
        /\ ~At(u, "idle")
    BY <1>3 DEF Fetch, At
  <2>3. \A v \in Updaters : v # u => upd[v].pc = "idle"
    BY <2>2, Alone DEF At
  <2>4. tree' \in Trees /\ tree'.ref = origin
    BY <2>2 DEF UpdaterTypes, Trees
  <2>5. remote \in Nat /\ remote <= origin /\ marker <= origin
    BY DEF UpdaterTypes, Fetched, Trees
  <2> QED BY <2>1, <2>2, <2>3, <2>4, <2>5 DEF UpdaterTypes, Locking, Fetched, Merged,
            Built, SkipMeansDeployed, At, Head
<1>4. CASE Merge(u)
  <2>1. CASE Ends(u) /\ UNCHANGED tree
    BY <1>4, <2>1, StepKeepsMarker DEF Merge, At, migrationVars, UpdaterTypes
  <2>2. CASE /\ Step(u, "build") /\ UNCHANGED lock
             /\ tree' = [tree EXCEPT !.at[tree.on] =
                           IF @ < tree.ref THEN tree.ref ELSE @]
    <3>1. /\ upd[u].pc = "merge"
          /\ UNCHANGED <<running, origin, image, marker, lock, switched>>
      BY <1>4, <2>2 DEF Merge, At, migrationVars
    <3>2. \A v \in Updaters : v # u => upd[v].pc = "idle" /\ upd'[v] = upd[v]
      BY <2>2, <3>1, Alone DEF At, Step, UpdaterTypes
    <3>3. /\ upd'[u].pc = "build" /\ upd'[u].remote = upd[u].remote
          /\ upd[u].remote \in Nat
      BY <2>2 DEF Step, UpdaterTypes
    <3>4. /\ tree' \in Trees /\ tree'.ref = tree.ref
          /\ tree.ref <= Head'
      BY <2>2, <3>3 DEF UpdaterTypes, Head, Trees
    <3>5. UpdaterTypes'
      BY <2>2, <3>1, <3>4 DEF UpdaterTypes, Step
    <3>6. upd[u].remote <= Head' /\ marker <= Head'
      <4>1. upd[u].remote <= tree.ref /\ marker <= tree.ref
        BY <3>1 DEF Fetched
      <4>2. Head' \in Nat /\ tree.ref \in Nat /\ marker \in Nat
        BY <3>5 DEF UpdaterTypes, Head, Trees
      <4> QED BY <3>3, <3>4, <4>1, <4>2
    <3> QED BY <3>1, <3>2, <3>3, <3>4, <3>5, <3>6 DEF Locking, Fetched, Merged, Built,
              SkipMeansDeployed, At
  <2> QED BY <1>4, <2>1, <2>2 DEF Merge
<1>5. CASE Build(u)
  <2>1. /\ upd[u].pc = "build" /\ upd' = [upd EXCEPT ![u].pc = "up"]
        /\ image' = Head
        /\ UNCHANGED <<running, origin, marker, tree, lock, switched>>
    BY <1>5 DEF Build, Step, At, migrationVars
  <2>2. \A v \in Updaters : v # u => upd[v].pc = "idle"
    BY <2>1, Alone DEF At
  <2>3. Head \in Nat
    BY DEF Head, UpdaterTypes, Trees
  <2> QED BY <2>1, <2>2, <2>3 DEF UpdaterTypes, Locking, Fetched, Merged, Built,
            SkipMeansDeployed, At, Head
<1>6. ASSUME NEW p \in Processes, Recreate(u, p) PROVE MarkerInv'
  <2>1. /\ upd[u].pc = "up" /\ running' = [running EXCEPT ![p] = image]
        /\ UNCHANGED <<origin, image, marker, tree, lock, upd, switched>>
    BY <1>6 DEF Recreate, At, updaterVars
  <2>2. ~switched => marker <= image
    BY <2>1 DEF Fetched, Built, At, UpdaterTypes
  <2> QED BY <2>1, <2>2 DEF UpdaterTypes, Locking, Fetched, Merged, Built,
            SkipMeansDeployed, At, Head
<1>7. CASE Record(u)
  <2>1. /\ upd[u].pc = "up" /\ marker' = upd[u].remote
        /\ \A p \in Processes : running[p] = image
        /\ upd' = [upd EXCEPT ![u] = Idle] /\ lock' = Nobody
        /\ UNCHANGED <<running, origin, image, tree, switched>>
    BY <1>7 DEF Record, Ends, At, migrationVars
  <2>2. \A v \in Updaters : v # u => upd[v].pc = "idle"
    BY <2>1, Alone DEF At
  <2>3. upd[u].remote <= tree.ref /\ (~switched => upd[u].remote <= image)
    BY <2>1 DEF Fetched, Built, At
  <2> QED BY <2>1, <2>2, <2>3 DEF UpdaterTypes, Locking, Fetched, Merged, Built,
            SkipMeansDeployed, At, Head, Idle
<1> QED BY <1>1, <1>2, <1>3, <1>4, <1>5, <1>6, <1>7 DEF Update

LEMMA MarkerKept == Spec => []MarkerInv
<1>1. MarkerInv /\ [Next]_vars => MarkerInv'
  <2> SUFFICES ASSUME MarkerInv, [Next]_vars PROVE MarkerInv'
    OBVIOUS
  <2>1. ASSUME NEW u \in Updaters, Update(u) PROVE MarkerInv'
    BY <2>1, UpdateKeepsMarker
  <2>2. ASSUME NEW u \in Updaters, Fails(u) PROVE MarkerInv'
    BY <2>2, StepKeepsMarker DEF Fails, MarkerInv, UpdaterTypes
  <2>3. CASE Push
    <3>1. /\ origin' = origin + 1
          /\ UNCHANGED <<running, tree, image, marker, lock, upd, switched>>
      BY <2>3 DEF Push, migrationVars
    <3> QED BY <3>1 DEF MarkerInv, UpdaterTypes, Locking, Fetched, Merged, Built,
              SkipMeansDeployed, At, Head, Trees
  <2>4. CASE Operate
    <3>1. UNCHANGED <<running, origin, image, marker, lock, upd>>
      BY <2>4 DEF Operate
    <3>2. (CHOOSE b \in Branches : b # tree.on) \in Branches
      BY DEF Branches
    <3>3. tree' \in Trees /\ tree'.ref = tree.ref
      BY <2>4, <3>2 DEF Operate, MarkerInv, UpdaterTypes, Trees
    <3>4. switched' \in BOOLEAN /\ (switched => switched')
      <4>1. switched \in BOOLEAN
        BY DEF MarkerInv, UpdaterTypes
      <4>2. CASE UNCHANGED switched
        BY <4>1, <4>2
      <4>3. CASE switched' = (switched \/ \E u \in Updaters : At(u, "build"))
        BY <4>3
      <4> QED BY <2>4, <4>2, <4>3, Zenon DEF Operate
    <3>5. \/ tree'.on = tree.on /\ tree'.at = tree.at
          \/ \A u \in Updaters : At(u, "build") => switched'
      <4>1. CASE switched' = (switched \/ \E u \in Updaters : At(u, "build"))
        BY <4>1, Zenon
      <4>2. CASE \/ tree' = [tree EXCEPT !.dirty = ~tree.dirty]
                 \/ tree' = [tree EXCEPT !.own = TRUE]
        BY <4>2 DEF MarkerInv, UpdaterTypes, Trees
      <4> QED BY <2>4, <4>1, <4>2, Zenon DEF Operate
    <3> QED BY <3>1, <3>3, <3>4, <3>5 DEF MarkerInv, UpdaterTypes, Locking, Fetched,
              Merged, Built, SkipMeansDeployed, At, Head
  <2>5. CASE \/ \E p \in Processes : (InitDb(p) \/ Locked(p)) /\ UNCHANGED updaterVars
             \/ Decisions /\ UNCHANGED updaterVars
             \/ UNCHANGED vars
    <3>1. UNCHANGED <<running, updaterVars>>
      BY <2>5 DEF InitDb, Open, RetireDrafts, CheckDdl, CreateNew, Copy, Swap, RemapStatuses,
            MirrorStatuses, AddColumns, Close, Locked, Same, Decisions, Decide, Reset,
            DraftReady, Leave, vars, migrationVars
    <3> QED BY <3>1 DEF updaterVars, MarkerInv, UpdaterTypes, Locking, Fetched, Merged,
              Built, SkipMeansDeployed, At, Head
  <2> QED BY <2>1, <2>2, <2>3, <2>4, <2>5 DEF Next
<1> QED BY <1>1, MarkerInit, PTL DEF Spec

\* A run that skips is right: every container runs the commit of the marker or
\* a later one (dev/autoupdate.py), unless the operator changed the branch
\* between a merge and its build.
THEOREM MarkerIsDeployed == Spec => []SkipMeansDeployed
<1>1. MarkerInv => SkipMeansDeployed
  BY DEF MarkerInv
<1> QED BY <1>1, MarkerKept, PTL

-----------------------------------------------------------------------------
(* The schema.                                                             *)

\* At most one process is between the CREATE and the COMMIT of the rebuild, and
\* the table triage_decisions_new exists then; at any other time it exists only
\* if somebody was cut there.
Rebuilding(p) == pc[p] \in {"copy", "swap"}
RebuildsApart ==
    /\ \A p, q \in Processes : Rebuilding(p) /\ Rebuilding(q) => p = q
    /\ \A p \in Processes : Rebuilding(p) => spare
    /\ spare => cut \/ \E p \in Processes : Rebuilding(p)

\* Every row passes the CHECK of the table it is in, whichever version wrote
\* it, and a process of the new version that has its database open finds the
\* table that takes every action and the columns it queries.
OpenedMigrated ==
    /\ \A m \in Messages : decided[m].action \in Accepted \cup {"none"}
    /\ \A p \in Processes :
          pc[p] = "open" /\ running[p] # Predecessor => ddl = "new" /\ columns

\* Who is past the rebuild has the new table.
SchemaInv ==
    /\ ddl \in {"old", "new"}
    /\ \A p \in Processes : pc[p] \in {"legacy", "mirror", "columns"} => ddl = "new"
    /\ \A p \in Processes : pc[p] = "swap" =>
          \A m \in Messages : decided[m].action # "DRAFT_READY"
    /\ RebuildsApart /\ OpenedMigrated

LEMMA InitDbKeepsSchema ==
    ASSUME DecisionInv, SchemaInv, NEW p \in Processes, InitDb(p)
    PROVE  SchemaInv'
<1> USE DEF DecisionInv, SchemaInv, RebuildsApart, Rebuilding, OpenedMigrated, InitDbSteps, Goes, Raises,
           Same, Writable, DecisionTypes
<1>1. CASE Open(p)
  BY <1>1 DEF Open, dbVars, Accepted
<1>2. CASE RetireDrafts(p)
  <2>1. \A m \in Messages : decided'[m].action \in Accepted \cup {"none"}
    <3> SUFFICES ASSUME NEW m \in Messages
                 PROVE  decided'[m].action \in Accepted \cup {"none"}
      OBVIOUS
    <3>1. decided'[m] = IF decided[m].action # "DRAFT_READY" THEN decided[m]
                        ELSE [decided[m] EXCEPT !.action = "TO_ANSWER"]
      BY <1>2 DEF RetireDrafts
    <3>2. decided[m] \in Rows
      BY DEF DecisionTypes
    <3> QED
      BY <3>1, <3>2 DEF Rows, Accepted, VALID_TRIAGE_ACTIONS
  <2> QED
    BY <1>2, <2>1 DEF RetireDrafts, Accepted
<1>3. CASE CheckDdl(p)
  BY <1>3 DEF CheckDdl, dbVars, Accepted
<1>4. CASE CreateNew(p)
  BY <1>4 DEF CreateNew, Accepted
<1>5. CASE Copy(p)
  BY <1>5 DEF Copy, Accepted
<1>10. CASE Swap(p)
  <2>1. /\ decided' = decided /\ ddl' = "new" /\ ~spare' /\ UNCHANGED <<columns, running>>
        /\ pc[p] = "swap" /\ pc' = [pc EXCEPT ![p] = "legacy"]
    BY <1>10 DEF Swap, CopyIsCurrent
  <2>2. \A m \in Messages : decided[m].action \in VALID_TRIAGE_ACTIONS \cup {"none"}
    BY <2>1 DEF Accepted
  <2> QED
    BY <2>1, <2>2 DEF Accepted
<1>6. CASE RemapStatuses(p)
  BY <1>6 DEF RemapStatuses, Accepted
<1>7. CASE MirrorStatuses(p)
  <2>1. \A s : Mirrored(s).action \in Accepted \cup {"none"}
    BY DEF Mirrored, Row, NoRow, Accepted, VALID_TRIAGE_ACTIONS
  <2>2. \A m \in Messages : decided'[m].action \in Accepted \cup {"none"}
    BY <1>7, <2>1 DEF MirrorStatuses
  <2> QED
    BY <1>7, <2>2 DEF MirrorStatuses, Accepted
<1>8. CASE AddColumns(p)
  BY <1>8 DEF AddColumns, Accepted
<1>9. CASE Close(p)
  BY <1>9 DEF Close, dbVars, Accepted
<1> QED
  BY <1>1, <1>2, <1>3, <1>4, <1>5, <1>6, <1>7, <1>8, <1>9, <1>10 DEF InitDb

\* A process that stops in its init_db, and whatever version it goes on with.
LEMMA StoppingKeepsSchema ==
    ASSUME DecisionTypes, SchemaInv, NEW p \in Processes, Raises(p), Stopped(p),
           \A q \in Processes \ {p} : running'[q] = running[q],
           UNCHANGED <<ddl, spare, columns, decided>>
    PROVE  SchemaInv'
BY DEF SchemaInv, RebuildsApart, Rebuilding, OpenedMigrated, InitDbSteps, Goes, Raises,
       Stopped, Accepted, DecisionTypes

LEMMA DecidingKeepsSchema ==
    ASSUME DecisionTypes, SchemaInv, Decisions PROVE SchemaInv'
<1>1. PICK m \in Messages :
        \/ \E action \in VALID_TRIAGE_ACTIONS, source \in {"agent", "user"} :
             Decide(m, action, source)
        \/ Reset(m) \/ DraftReady(m)
  BY DEF Decisions
<1>2. PICK row : Leave(m, row) /\ row.action \in Accepted \cup {"none"}
  <2>1. ASSUME NEW action, NEW source, Decide(m, action, source)
        PROVE  /\ Leave(m, Row(action, source))
               /\ Row(action, source).action \in Accepted
    BY <2>1 DEF Decide, Row
  <2>2. Reset(m) => Leave(m, NoRow) /\ NoRow.action = "none"
    BY DEF Reset, NoRow, Row
  <2>3. DraftReady(m) => /\ Leave(m, Row("DRAFT_READY", "agent"))
                         /\ Row("DRAFT_READY", "agent").action \in Accepted
    BY DEF DraftReady, Row, Accepted
  <2> QED
    BY <1>1, <2>1, <2>2, <2>3
<1>3. \A n \in Messages : decided'[n].action \in Accepted \cup {"none"}
  BY <1>2 DEF Leave, DecisionTypes, SchemaInv, OpenedMigrated
<1> QED
  BY <1>2, <1>3 DEF Leave, Writable, SchemaInv, RebuildsApart, Rebuilding, OpenedMigrated, Accepted

LEMMA SchemaIsKept == Spec => []SchemaInv
<1>1. Init => SchemaInv
  BY DEF Init, MigrationsInit, SchemaInv, RebuildsApart, Rebuilding, OpenedMigrated,
         InitDbSteps, Accepted, Row, NoRow
<1>2. DecisionInv /\ UpdaterTypes /\ SchemaInv /\ [Next]_vars => SchemaInv'
  <2> SUFFICES ASSUME DecisionInv, UpdaterTypes, SchemaInv, [Next]_vars
               PROVE  SchemaInv'
    OBVIOUS
  <2> USE DEF DecisionInv
  <2>1. ASSUME NEW p \in Processes, InitDb(p) PROVE SchemaInv'
    BY <2>1, InitDbKeepsSchema
  <2>2. ASSUME NEW p \in Processes, Locked(p) PROVE SchemaInv'
    BY <2>2, StoppingKeepsSchema DEF Locked
  <2>3. ASSUME NEW u \in Updaters, NEW p \in Processes, Recreate(u, p)
        PROVE  SchemaInv'
    BY <2>3, StoppingKeepsSchema DEF Recreate, UpdaterTypes
  <2>4. CASE Decisions
    BY <2>4, DecidingKeepsSchema
  <2>5. CASE UNCHANGED <<running, pc, dbVars>>
    BY <2>5 DEF dbVars, SchemaInv, RebuildsApart, Rebuilding, OpenedMigrated, Accepted
  <2>6. ASSUME NEW u \in Updaters, Update(u) \/ Fails(u)
        PROVE  SchemaInv'
    BY <2>3, <2>5, <2>6 DEF Update, Fails, Cron, Pin, CheckChanges, Fetch, Compare,
          Merge, Build, Record, migrationVars
  <2>7. CASE Push \/ Operate \/ UNCHANGED vars
    BY <2>5, <2>7 DEF Push, Operate, vars, migrationVars
  <2> QED
    BY <2>1, <2>2, <2>4, <2>6, <2>7 DEF Next
<1>3. MarkerInv => UpdaterTypes
  BY DEF MarkerInv
<1> QED
  BY <1>1, <1>2, <1>3, DecisionsKept, MarkerKept, PTL DEF Spec

\* Two processes never rebuild triage_decisions at once, whichever versions open
\* the database and wherever one is stopped; and the table that makes later
\* rebuilds fail is there only after one was cut in the middle.
THEOREM RebuildsKeepApart == Spec => []RebuildsApart
<1>1. SchemaInv => RebuildsApart
  BY DEF SchemaInv
<1> QED
  BY <1>1, SchemaIsKept, PTL

\* While containers of both versions open the database, and containers are
\* killed and recreated, no row is in a table that would refuse it, and no
\* process of the new version has a database open that was not migrated.
THEOREM OpenedIsMigrated == Spec => []OpenedMigrated
<1>1. SchemaInv => OpenedMigrated
  BY DEF SchemaInv
<1> QED
  BY <1>1, SchemaIsKept, PTL
=============================================================================
