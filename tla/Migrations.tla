----------------------------- MODULE Migrations -----------------------------
(***************************************************************************)
(* Opening a database: init_db runs five migrations, each a transaction of *)
(* its own, whenever an ingest cycle, a probe or a settings page opens it, *)
(* in processes of different versions at once, while the board stores      *)
(* decisions through connections that skip them.  One migration rebuilds   *)
(* the table triage_decisions, and outside its transaction creates the     *)
(* table it copies into.                                                   *)
(***************************************************************************)
EXTENDS Naturals

CONSTANTS
    Processes,      \* the containers
    Messages,
    MaxCommits,     \* bound on the versions of the program
    MaxTroubles     \* bound on all that is not a step of the program

\* The version before the code at hand: its table takes DRAFT_READY and lacks
\* the newest action.
Predecessor == 1
Commits == Predecessor..MaxCommits

ASSUME MigrationsAssumption == MaxCommits \in Nat \ {0} /\ MaxTroubles \in Nat

VARIABLES
    running,        \* the version each process runs
    pc,             \* where its current init_db is
    ddl,            \* the CHECK of triage_decisions: "old" or "new"
    spare,          \* the table triage_decisions_new exists
    copied,         \* its rows
    columns,        \* mail_records has its additive columns
    decided,        \* the row of each message in triage_decisions
    status,         \* the legacy column of each record
    troubles,
    \* History.
    meant,          \* the row the board or the agent has left for a message
    cut             \* a rebuild ended between its CREATE and its COMMIT

dbVars == <<ddl, spare, copied, columns, decided, status, meant, cut>>
migrationVars == <<running, pc, dbVars, troubles>>

Trouble == troubles < MaxTroubles /\ troubles' = troubles + 1

\* Three columns stand for the seven; TO_CALENDAR is the one added last.
VALID_TRIAGE_ACTIONS == {"TO_ANSWER", "TO_ARCHIVE", "TO_CALENDAR"}
Accepted == IF ddl = "new" THEN VALID_TRIAGE_ACTIONS
            ELSE (VALID_TRIAGE_ACTIONS \ {"TO_CALENDAR"}) \cup {"DRAFT_READY"}
Row(action, source) == [action |-> action, source |-> source]
NoRow == Row("none", "none")
Empty == [m \in Messages |-> NoRow]

\* _LEGACY_STATUS_MIGRATION and _STATUS_TO_TRIAGE_ACTION.
Remapped(s) == CASE s = "inbox" -> "to_read"
                 [] s = "triaging" -> "needs_reply"
                 [] s = "archive" -> "no_action"
                 [] OTHER -> s
Mirrored(s) == CASE s = "needs_reply" -> Row("TO_ANSWER", "user")
                 [] s = "no_action" -> Row("TO_ARCHIVE", "user")
                 [] OTHER -> NoRow

-----------------------------------------------------------------------------
(* init_db, migration by migration.                                        *)

Goes(p, to) == pc' = [pc EXCEPT ![p] = to]
Raises(p) == Goes(p, "closed")
Same(p) == UNCHANGED <<running, troubles>>

\* Mutant: the INSERT commits by itself, as the CREATE does.
WritableMeanwhile == TRUE

\* SQLite: who is in a transaction that has written keeps other writers out.
Writable == \A p \in Processes : pc[p] # "swap"

Open(p) ==
    /\ pc[p] = "closed"
    /\ Goes(p, IF running[p] = Predecessor THEN "open" ELSE "draft")
    /\ Same(p) /\ UNCHANGED dbVars

RetireDrafts(p) ==
    /\ pc[p] = "draft" /\ Writable /\ Goes(p, "check")
    /\ decided' = [m \in Messages |->
         IF decided[m].action # "DRAFT_READY" THEN decided[m]
         ELSE [decided[m] EXCEPT !.action = "TO_ANSWER"]]
    /\ Same(p) /\ UNCHANGED <<ddl, spare, copied, columns, status, meant, cut>>

CheckDdl(p) ==
    /\ pc[p] = "check"
    /\ Goes(p, IF ddl = "new" THEN "legacy" ELSE "create")
    /\ Same(p) /\ UNCHANGED dbVars

\* CREATE TABLE commits at once; it fails where the table is there already.
CreateNew(p) ==
    /\ pc[p] = "create" /\ Writable
    /\ spare' = TRUE
    /\ IF spare THEN Raises(p) ELSE Goes(p, "copy")
    /\ Same(p) /\ UNCHANGED <<ddl, copied, columns, decided, status, meant, cut>>

\* INSERT, DROP and RENAME are one transaction.  A row that the new CHECK does
\* not take rolls it back, but not the CREATE.
Copy(p) ==
    /\ pc[p] = "copy" /\ Writable
    /\ IF \E m \in Messages : decided[m].action = "DRAFT_READY"
       THEN Raises(p) /\ cut' = TRUE /\ UNCHANGED copied
       ELSE Goes(p, "swap") /\ copied' = decided /\ UNCHANGED cut
    /\ Same(p) /\ UNCHANGED <<ddl, spare, columns, decided, status, meant>>

Swap(p) ==
    /\ pc[p] = "swap" /\ Goes(p, "legacy")
    /\ decided' = copied /\ ddl' = "new"
    /\ spare' = FALSE /\ copied' = Empty
    /\ Same(p) /\ UNCHANGED <<columns, status, meant, cut>>

RemapStatuses(p) ==
    /\ pc[p] = "legacy" /\ Writable /\ Goes(p, "mirror")
    /\ status' = [m \in Messages |-> Remapped(status[m])]
    /\ Same(p) /\ UNCHANGED <<ddl, spare, copied, columns, decided, meant, cut>>

\* Every time, not once: a legacy card whose decision was reset is decided
\* again.
MirrorStatuses(p) ==
    /\ pc[p] = "mirror" /\ Writable /\ Goes(p, "columns")
    /\ decided' = [m \in Messages |->
         IF decided[m] = NoRow THEN Mirrored(status[m]) ELSE decided[m]]
    /\ Same(p) /\ UNCHANGED <<ddl, spare, copied, columns, status, meant, cut>>

\* Mutant: ALTER TABLE without looking for the column.
AddColumnsBlindly(p) ==
    /\ pc[p] = "columns"
    /\ IF columns THEN Raises(p) ELSE Goes(p, "open")
    /\ columns' = TRUE
    /\ Same(p) /\ UNCHANGED <<ddl, spare, copied, decided, status, meant, cut>>

AddColumns(p) ==
    /\ pc[p] = "columns" /\ Writable /\ Goes(p, "open")
    /\ columns' = TRUE
    /\ Same(p) /\ UNCHANGED <<ddl, spare, copied, decided, status, meant, cut>>

\* The cycle is over; the next opens the database again.
Close(p) ==
    /\ pc[p] = "open" /\ Raises(p)
    /\ Same(p) /\ UNCHANGED dbVars

InitDb(p) ==
    \/ Open(p) \/ RetireDrafts(p) \/ CheckDdl(p) \/ CreateNew(p) \/ Copy(p) \/ Swap(p)
    \/ RemapStatuses(p) \/ MirrorStatuses(p) \/ AddColumns(p) \/ Close(p)

\* What a process leaves behind that stops in its init_db: a transaction is
\* rolled back.
Stopped(p) ==
    /\ cut' = (cut \/ pc[p] \in {"copy", "swap"})
    /\ copied' = IF pc[p] = "swap" THEN Empty ELSE copied

\* A statement finds the database locked for too long and raises; the cycle
\* fails and the next tries again.
Locked(p) ==
    /\ pc[p] \notin {"closed", "open"}
    /\ Raises(p) /\ Stopped(p) /\ Trouble
    /\ UNCHANGED <<running, ddl, spare, columns, decided, status, meant>>

-----------------------------------------------------------------------------
(* Decisions, stored meanwhile through connections that skip all this.     *)

Leave(m, row) ==
    /\ Writable
    /\ decided' = [decided EXCEPT ![m] = row]
    /\ meant' = [meant EXCEPT ![m] = row]
    /\ Trouble
    /\ UNCHANGED <<running, pc, ddl, spare, copied, columns, status, cut>>

\* set_triage_decision: what the CHECK does not take is an error, and the
\* agent does not overrule the operator.
Decide(m, action, source) ==
    /\ action \in Accepted \cap VALID_TRIAGE_ACTIONS
    /\ ~(decided[m].source = "user" /\ source = "agent")
    /\ Leave(m, Row(action, source))

Reset(m) == decided[m] # NoRow /\ Leave(m, NoRow)

\* A process of the version before drafts a reply.
DraftReady(m) ==
    /\ \E p \in Processes : running[p] = Predecessor
    /\ ddl = "old"
    /\ Leave(m, Row("DRAFT_READY", "agent"))

Decisions ==
    \E m \in Messages :
        \/ \E action \in VALID_TRIAGE_ACTIONS, source \in {"agent", "user"} :
             Decide(m, action, source)
        \/ Reset(m) \/ DraftReady(m)

\* A database the version before has left: any mixture of statuses, and a
\* card it has drafted a reply for.
MigrationsInit ==
    /\ running = [p \in Processes |-> Predecessor]
    /\ pc = [p \in Processes |-> "open"]
    /\ ddl = "old" /\ spare = FALSE /\ copied = Empty /\ columns = FALSE
    /\ status \in [Messages -> {"inbox", "triaging", "archive"}]
    /\ decided \in [Messages -> {NoRow, Row("DRAFT_READY", "agent")}]
    /\ meant = decided /\ cut = FALSE
    /\ troubles = 0

-----------------------------------------------------------------------------
\* No decision is lost or changed by opening the database, whichever versions
\* and requests do so at once: a card is in the column where the board or the
\* agent left it, except that a drafted one is to be answered, and that one
\* nobody decided may get the column its legacy status stands for.
DecisionsSurvive ==
    \A m \in Messages :
        \/ decided[m] = meant[m]
        \/ /\ meant[m].action = "DRAFT_READY"
           /\ decided[m] = [meant[m] EXCEPT !.action = "TO_ANSWER"]
        \/ meant[m] = NoRow /\ decided[m] = Mirrored(status[m])

\* Every process gets its database open again and again, through the rebuilds
\* and failures of others -- unless one was cut between CREATE and COMMIT: the
\* table it leaves behind makes every later rebuild fail.
DatabasesOpen == []~cut => \A p \in Processes : []<>(pc[p] = "open")
=============================================================================
