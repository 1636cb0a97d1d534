------------------------------ MODULE MailSync ------------------------------
(***************************************************************************)
(* Ingestion and reconciliation of one account: pipeline.ingest_mail and   *)
(* pipeline.reconcile_records, run by the threads of `serve` (the ingest   *)
(* loop, a forced fetch, the reconcile loop) and by `ingest --watch`, all  *)
(* on the same SQLite file and the same IMAP folder.                       *)
(*                                                                         *)
(* A worker p is one such thread.  Every SQLite statement commits on its   *)
(* own, so each statement and each IMAP exchange is one action, and a      *)
(* worker may stop between any two of them (an exception that leaves       *)
(* ingest_mail, a killed process); what it knew is then lost, what it      *)
(* wrote stays.                                                            *)
(***************************************************************************)
EXTENDS Naturals, FiniteSets

CONSTANTS
    Ingesters,      \* threads that run _ingest_cycle
    Reconcilers,    \* threads that only run reconcile_records
    Mids,           \* Message-IDs
    Unparseable,    \* those whose message parse_message rejects
    MaxUid,         \* bound on the UIDs the server hands out
    MaxRenumbers,   \* bound on UIDVALIDITY changes
    MaxStops,       \* bound on workers stopped in mid-run
    MaxFaults,      \* bound on transient faults ...
    FaultKinds,     \* ... of the kinds considered
    Redelivery,     \* may a message come back, or come twice?
    None

AllFaultKinds == {"insert", "list", "search", "swallow", "novalidity"}

ASSUME MailSyncAssumption ==
    /\ Unparseable \subseteq Mids
    /\ MaxUid \in Nat /\ MaxRenumbers \in Nat
    /\ MaxStops \in Nat /\ MaxFaults \in Nat
    /\ FaultKinds \subseteq AllFaultKinds
    /\ Redelivery \in BOOLEAN
    /\ None \notin Nat /\ None \notin Mids

Workers == Ingesters \cup Reconcilers
Uids == 1..MaxUid
Folders == {"monitored", "other"}
Entries == [uid : Uids, mid : Mids]
Rows == [mid : Mids, folder : Folders, uid : Uids]
Namespaces == 0..MaxRenumbers

\* The marker is no row of the snapshot or the table either.
ASSUME RowAssumption == None \notin [folder : Folders, uid : Uids]

VARIABLES
    \* The server's monitored folder, outside the program.
    inbox,          \* the messages in it, each with its UID
    uidNext,        \* the UID the next arrival gets
    validity,       \* its UIDVALIDITY
    \* The account's database.
    records,        \* mail_records: one row at most per Message-ID
    watermark,      \* the "imap_uid" key
    storedValidity, \* the "imap_uidvalidity" key
    \* Each worker's locals.
    pc,
    current,        \* current_uidvalidity
    since,          \* watermark_raw, kept until the cycle writes its own
    batch,          \* fetched messages not yet processed
    top,            \* max_uid of the batch
    rows,           \* rows reconcile_records still has to deal with
    verdict,        \* what it is about to do to one of them
    \* How often the environment interfered.
    renumbers, stops, faults,
    \* History, read by the properties only.
    delivered,      \* Message-IDs that ever arrived
    handled,        \* <<namespace, uid>> that some worker dealt with
    lost,           \* Message-IDs whose insertion failed
    scope,          \* namespace the watermark speaks for (None: no one)
    sinceScope,     \* the same for a worker's watermark_raw
    batchScope,     \* the same for the batch a worker fetched
    away            \* Message-IDs gone from the folder at some moment of
                    \* the worker's current reconciliation

server == <<inbox, uidNext, validity, delivered>>
database == <<records, watermark, storedValidity, scope>>
ingestLocals == <<current, since, batch, top, sinceScope, batchScope>>
reconcileLocals == <<rows, verdict>>
history == <<handled, lost>>
bounds == <<renumbers, stops, faults>>
vars == <<server, database, pc, ingestLocals, reconcileLocals, history,
          away, bounds>>

-----------------------------------------------------------------------------
(* What ImapClient asks of the server.                                     *)

Present(box) == {e.mid : e \in box}

\* search_uids("UID n"): the UID, if it names a message of the folder.
HoldsUid(box, u) == \E e \in box : e.uid = u

\* search_uids('HEADER Message-ID ...'): every UID of that message.
UidsOf(box, m) == {e.uid : e \in {d \in box : d.mid = m}}

IsLowest(u, us) == u \in us /\ \A v \in us : u <= v
IsHighest(u, us) == u \in us /\ \A v \in us : v <= u

\* Two rows of one folder with one UID are one entry of the dictionary
\* {folder: {uid: message_id}} that reconcile_records builds.
Collide(r, s) == r.folder = s.folder /\ r.uid = s.uid

\* All rows, less those a colliding row displaces.
Snapshots(table) ==
    LET tracked == {[mid |-> m, folder |-> table[m].folder,
                     uid |-> table[m].uid] :
                        m \in {n \in Mids : table[n] # None}}
    IN {S \in SUBSET tracked :
           /\ \A r, s \in S : Collide(r, s) => r = s
           /\ \A r \in tracked : \E s \in S : Collide(r, s)}

\* Where a worker has read its snapshot of the rows.
Reconciling == {"verify", "resolve", "heal", "prune"}

Fault(kind) == kind \in FaultKinds /\ faults < MaxFaults /\ faults' = faults + 1

-----------------------------------------------------------------------------
NoVerdict == [mid |-> None, uid |-> 0]

Init ==
    /\ inbox = {} /\ uidNext = 1 /\ validity = 0
    /\ records = [m \in Mids |-> None]
    /\ watermark = None /\ storedValidity = None
    /\ pc = [p \in Workers |-> "idle"]
    /\ current = [p \in Workers |-> None]
    /\ since = [p \in Workers |-> None]
    /\ batch = [p \in Workers |-> {}]
    /\ top = [p \in Workers |-> 0]
    /\ rows = [p \in Workers |-> {}]
    /\ verdict = [p \in Workers |-> NoVerdict]
    /\ renumbers = 0 /\ stops = 0 /\ faults = 0
    /\ delivered = {} /\ handled = {} /\ lost = {}
    /\ scope = None
    /\ sinceScope = [p \in Workers |-> None]
    /\ batchScope = [p \in Workers |-> None]
    /\ away = [p \in Workers |-> {}]

-----------------------------------------------------------------------------
(* The environment: senders, the user's own mail client, server upkeep,    *)
(* the board's card actions.                                               *)

\* A message arrives, or the user moves it (back) into the folder.
Deliver(m) ==
    /\ uidNext <= MaxUid
    /\ Redelivery \/ m \notin delivered
    /\ inbox' = inbox \cup {[uid |-> uidNext, mid |-> m]}
    /\ uidNext' = uidNext + 1
    /\ delivered' = delivered \cup {m}
    /\ UNCHANGED <<validity, database, pc, ingestLocals, reconcileLocals,
                   history, away, bounds>>

\* A message is moved out or expunged, by the user or by the board.
Leave(e) ==
    /\ inbox' = inbox \ {e}
    /\ away' = [p \in Workers |->
                   IF pc[p] \in Reconciling
                   THEN away[p] \cup ({e.mid} \ Present(inbox \ {e}))
                   ELSE away[p]]
    /\ UNCHANGED <<uidNext, validity, delivered, database, pc, ingestLocals,
                   reconcileLocals, history, bounds>>

\* The server renumbers the folder under a new UIDVALIDITY.
Renumber(f, n) ==
    /\ renumbers < MaxRenumbers
    /\ \A d, e \in inbox : f[d] = f[e] => d = e
    /\ \A e \in inbox : f[e] < n
    /\ inbox' = {[uid |-> f[e], mid |-> e.mid] : e \in inbox}
    /\ uidNext' = n
    /\ validity' = validity + 1
    /\ renumbers' = renumbers + 1
    /\ UNCHANGED <<delivered, database, pc, ingestLocals, reconcileLocals,
                   history, away, stops, faults>>

\* The board has moved or deleted the message and drops its card.
BoardRemove(m) ==
    /\ records[m] # None
    /\ m \notin Present(inbox)
    /\ records' = [records EXCEPT ![m] = None]
    /\ UNCHANGED <<server, watermark, storedValidity, scope, pc, ingestLocals,
                   reconcileLocals, history, away, bounds>>

\* The board found the message in another folder and noted it; the delete
\* or move that should follow failed, so the row stays.
BoardRelocate(m, u) ==
    /\ records[m] # None
    /\ m \notin Present(inbox)
    /\ records' = [records EXCEPT ![m] = [folder |-> "other", uid |-> u]]
    /\ UNCHANGED <<server, watermark, storedValidity, scope, pc, ingestLocals,
                   reconcileLocals, history, away, bounds>>

Environment ==
    \/ \E m \in Mids : Deliver(m) \/ BoardRemove(m)
    \/ \E m \in Mids, u \in Uids : BoardRelocate(m, u)
    \/ \E e \in inbox : Leave(e)
    \/ \E f \in [inbox -> Uids], n \in 1..MaxUid + 1 : Renumber(f, n)

-----------------------------------------------------------------------------
(* ingest_mail                                                             *)

\* A cycle begins: connect, and ask for the folder's UIDVALIDITY, which
\* the server may fail to give.
ReadValidity(p) ==
    /\ p \in Ingesters
    /\ pc[p] = "idle"
    /\ \/ /\ current' = [current EXCEPT ![p] = validity]
          /\ pc' = [pc EXCEPT ![p] = "guard"]
          /\ UNCHANGED faults
       \/ /\ Fault("novalidity")
          /\ current' = [current EXCEPT ![p] = None]
          /\ pc' = [pc EXCEPT ![p] = "read"]
    /\ UNCHANGED <<server, database, since, batch, top, sinceScope,
                   batchScope, reconcileLocals, history, away, renumbers,
                   stops>>

\* Mutant: the stored value is never compared.
ValidityNeverChanged(p) == FALSE

ValidityChanged(p) == storedValidity \notin {None, current[p]}

\* _reconcile_uidvalidity compares it with the stored one ...
GuardValidity(p) ==
    /\ pc[p] = "guard"
    /\ pc' = [pc EXCEPT ![p] = IF ValidityChanged(p) THEN "reset"
                                                     ELSE "read"]
    /\ UNCHANGED <<server, database, ingestLocals, reconcileLocals, history,
                   away, bounds>>

\* ... and forgets the watermark of another namespace.
ResetWatermark(p) ==
    /\ pc[p] = "reset"
    /\ watermark' = None
    /\ scope' = None
    /\ pc' = [pc EXCEPT ![p] = "read"]
    /\ UNCHANGED <<server, records, storedValidity, ingestLocals,
                   reconcileLocals, history, away, bounds>>

\* fetch_new_messages reads the watermark ...
ReadWatermark(p) ==
    /\ pc[p] = "read"
    /\ since' = [since EXCEPT ![p] = watermark]
    /\ sinceScope' = [sinceScope EXCEPT ![p] = scope]
    /\ pc' = [pc EXCEPT ![p] = "fetch"]
    /\ UNCHANGED <<server, database, current, batch, top, batchScope,
                   reconcileLocals, history, away, bounds>>

\* Mutant: the answer to `UID <u+1>:*` taken as it comes; it holds the last
\* message also when that one is older.
NewerOrLast(box, u) ==
    {e \in box : u = None \/ e.uid > u
                    \/ IsHighest(e.uid, {d.uid : d \in box})}

Newer(box, u) == IF u = None THEN box ELSE {e \in box : e.uid > u}

\* ... and selects, searches and fetches in one IMAP session.  A batch
\* speaks for the namespace it was fetched in when it starts from nothing
\* or from a watermark of that same namespace.
FetchNewMessages(p) ==
    /\ pc[p] = "fetch"
    /\ LET new == Newer(inbox, since[p])
       IN  /\ batch' = [batch EXCEPT ![p] = new]
           /\ \/ /\ new = {}
                 /\ current' = [current EXCEPT ![p] = None]
                 /\ since' = [since EXCEPT ![p] = None]
                 /\ pc' = [pc EXCEPT ![p] = "reconcile"]
                 /\ UNCHANGED <<top, batchScope>>
              \/ \E e \in new :
                    /\ IsHighest(e.uid, {d.uid : d \in new})
                    /\ top' = [top EXCEPT ![p] = e.uid]
                    /\ batchScope' = [batchScope EXCEPT ![p] =
                           IF since[p] = None \/ sinceScope[p] = validity
                           THEN validity ELSE None]
                    /\ pc' = [pc EXCEPT ![p] = "process"]
                    /\ UNCHANGED <<current, since>>
    /\ sinceScope' = [sinceScope EXCEPT ![p] = None]
    /\ UNCHANGED <<server, database, reconcileLocals, history, away, bounds>>

IsNext(p, e) == e \in batch[p] /\ IsLowest(e.uid, {d.uid : d \in batch[p]})

Handle(p, e) ==
    /\ batch' = [batch EXCEPT ![p] = @ \ {e}]
    /\ handled' = IF batchScope[p] = None THEN handled
                  ELSE handled \cup {<<batchScope[p], e.uid>>}

\* _process_messages takes the next message: a parse error is counted,
\* otherwise record_exists decides between refresh and insert.
ParseMessage(p) ==
    /\ pc[p] = "process"
    /\ \E e \in batch[p] :
          /\ IsNext(p, e)
          /\ \/ /\ e.mid \in Unparseable
                /\ Handle(p, e)
                /\ UNCHANGED pc
             \/ /\ e.mid \notin Unparseable
                /\ pc' = [pc EXCEPT ![p] = IF records[e.mid] # None
                                           THEN "refresh" ELSE "insert"]
                /\ UNCHANGED <<batch, handled>>
    /\ UNCHANGED <<server, database, current, since, top, sinceScope,
                   batchScope, reconcileLocals, lost, away, bounds>>

\* Mutant: the row gets the UID of the batch, not of its own message.
StoredAtTop(p, e) ==
    [records EXCEPT ![e.mid] = [folder |-> "monitored", uid |-> top[p]]]

\* The row of message e: where it was fetched, under which UID.
Stored(p, e) ==
    [records EXCEPT ![e.mid] = [folder |-> "monitored", uid |-> e.uid]]

\* Mutant: a duplicate is a pure no-op.
NotRefreshed(p, e) == records

\* update_record_source: no row, nothing to update.
Refreshed(p, e) == IF records[e.mid] = None THEN records ELSE Stored(p, e)

RefreshRecord(p) ==
    /\ pc[p] = "refresh"
    /\ \E e \in batch[p] :
          /\ IsNext(p, e)
          /\ records' = Refreshed(p, e)
          /\ Handle(p, e)
    /\ pc' = [pc EXCEPT ![p] = "process"]
    /\ UNCHANGED <<server, watermark, storedValidity, scope, current, since,
                   top, sinceScope, batchScope, reconcileLocals, lost, away,
                   bounds>>

\* insert_record: a row that appeared meanwhile is left as it is, and a
\* database error is recorded and passed over.
InsertRecord(p) ==
    /\ pc[p] = "insert"
    /\ \E e \in batch[p] :
          /\ IsNext(p, e)
          /\ Handle(p, e)
          /\ \/ /\ records' = IF records[e.mid] # None THEN records
                                                     ELSE Stored(p, e)
                /\ UNCHANGED <<lost, faults>>
             \/ /\ Fault("insert")
                /\ lost' = lost \cup {e.mid}
                /\ UNCHANGED records
    /\ pc' = [pc EXCEPT ![p] = "process"]
    /\ UNCHANGED <<server, watermark, storedValidity, scope, current, since,
                   top, sinceScope, batchScope, reconcileLocals, away,
                   renumbers, stops>>

SetWatermark(p, u) ==
    /\ watermark' = u
    /\ scope' = batchScope[p]
    /\ since' = [since EXCEPT ![p] = None]
    /\ top' = [top EXCEPT ![p] = 0]
    /\ batchScope' = [batchScope EXCEPT ![p] = None]
    /\ pc' = [pc EXCEPT ![p] = "persist"]
    /\ UNCHANGED <<server, records, storedValidity, current, batch,
                   sinceScope, reconcileLocals, history, away, bounds>>

\* Mutants: the folder's highest UID at the time of the update; an off-by-one.
UpdateToServer(p) ==
    pc[p] = "process" /\ batch[p] = {} /\ SetWatermark(p, uidNext - 1)
UpdateToNext(p) ==
    pc[p] = "process" /\ batch[p] = {} /\ SetWatermark(p, top[p] + 1)

\* update_watermark, once the whole batch has been processed.
UpdateWatermark(p) ==
    /\ pc[p] = "process"
    /\ batch[p] = {}
    /\ SetWatermark(p, top[p])

\* The UIDVALIDITY seen at the start goes beside it, in its own commit.
PersistValidity(p) ==
    /\ pc[p] = "persist"
    /\ storedValidity' = IF current[p] = None THEN storedValidity
                         ELSE current[p]
    /\ current' = [current EXCEPT ![p] = None]
    /\ pc' = [pc EXCEPT ![p] = "reconcile"]
    /\ UNCHANGED <<server, records, watermark, scope, since, batch, top,
                   sinceScope, batchScope, reconcileLocals, history, away,
                   bounds>>

Ingest(p) ==
    \/ ReadValidity(p) \/ GuardValidity(p) \/ ResetWatermark(p)
    \/ ReadWatermark(p) \/ FetchNewMessages(p) \/ ParseMessage(p)
    \/ RefreshRecord(p) \/ InsertRecord(p) \/ UpdateWatermark(p)
    \/ PersistValidity(p)

-----------------------------------------------------------------------------
(* reconcile_records                                                       *)

\* The rows, read once; no row, nothing to do.
TakeSnapshot(p) ==
    /\ pc[p] = "reconcile" \/ (p \in Reconcilers /\ pc[p] = "idle")
    /\ \E S \in Snapshots(records) :
          /\ rows' = [rows EXCEPT ![p] = S]
          /\ pc' = [pc EXCEPT ![p] = IF S = {} THEN "idle" ELSE "verify"]
          /\ away' = [away EXCEPT ![p] = IF S = {} THEN {}
                                         ELSE Mids \ Present(inbox)]
    /\ UNCHANGED <<server, database, ingestLocals, verdict, history, bounds>>

\* Mutant: the deletion is never committed.
NothingPruned(m) == records

\* delete_record_by_message_id
Pruned(m) == [records EXCEPT ![m] = None]

\* A row of another folder has drifted away and is pruned unasked.
PruneDrifted(p) ==
    /\ pc[p] = "verify"
    /\ \E r \in rows[p] :
          /\ r.folder # "monitored"
          /\ records' = Pruned(r.mid)
          /\ rows' = [rows EXCEPT ![p] = @ \ {r}]
    /\ UNCHANGED <<server, watermark, storedValidity, scope, pc, ingestLocals,
                   verdict, history, away, bounds>>

\* SELECT and the UID search of the monitored rows: those found are done
\* with; an error leaves the whole folder for another run.
VerifyUids(p) ==
    /\ pc[p] = "verify"
    /\ \E r \in rows[p] : r.folder = "monitored"
    /\ \/ /\ rows' = [rows EXCEPT ![p] =
                         {r \in @ : r.folder = "monitored" =>
                                       ~HoldsUid(inbox, r.uid)}]
          /\ pc' = [pc EXCEPT ![p] = "resolve"]
          /\ UNCHANGED faults
       \/ /\ Fault("search")
          /\ rows' = [rows EXCEPT ![p] = {r \in @ : r.folder # "monitored"}]
          /\ UNCHANGED pc
    /\ UNCHANGED <<server, database, ingestLocals, verdict, history, away,
                   renumbers, stops>>

\* Mutant: the source folder is not looked at first.
SourceFolderSkipped(m) == {}

\* Where cross_folder_resolve looks first.
SourceFolderHits(m) == UidsOf(inbox, m)

\* cross_folder_resolve of one missing row: found in the folder, it is to
\* be healed; not found there, or the search there failed and was passed
\* over, it is to be pruned (found elsewhere or nowhere: no difference);
\* an error on the other folders leaves it for another run.
ResolveMissing(p) ==
    /\ pc[p] = "resolve"
    /\ \E r \in rows[p] :
          /\ r.folder = "monitored"
          /\ rows' = [rows EXCEPT ![p] = @ \ {r}]
          /\ \/ \E u \in SourceFolderHits(r.mid) :
                   /\ IsLowest(u, SourceFolderHits(r.mid))
                   /\ verdict' = [verdict EXCEPT ![p] =
                                     [mid |-> r.mid, uid |-> u]]
                   /\ pc' = [pc EXCEPT ![p] = "heal"]
                   /\ UNCHANGED faults
             \/ /\ \/ SourceFolderHits(r.mid) = {} /\ UNCHANGED faults
                   \/ Fault("swallow")
                /\ verdict' = [verdict EXCEPT ![p] =
                                  [mid |-> r.mid, uid |-> 0]]
                /\ pc' = [pc EXCEPT ![p] = "prune"]
             \/ /\ Fault("list")
                /\ UNCHANGED <<verdict, pc>>
    /\ UNCHANGED <<server, database, ingestLocals, history, away, renumbers,
                   stops>>

\* update_record_source with the new UID.
HealRecord(p) ==
    /\ pc[p] = "heal"
    /\ LET m == verdict[p].mid IN
          records' = IF records[m] = None THEN records
                     ELSE [records EXCEPT ![m] = [folder |-> "monitored",
                                                  uid |-> verdict[p].uid]]
    /\ pc' = [pc EXCEPT ![p] = "resolve"]
    /\ verdict' = [verdict EXCEPT ![p] = NoVerdict]
    /\ UNCHANGED <<server, watermark, storedValidity, scope, ingestLocals,
                   rows, history, away, bounds>>

PruneRecord(p) ==
    /\ pc[p] = "prune"
    /\ records' = Pruned(verdict[p].mid)
    /\ pc' = [pc EXCEPT ![p] = "resolve"]
    /\ verdict' = [verdict EXCEPT ![p] = NoVerdict]
    /\ UNCHANGED <<server, watermark, storedValidity, scope, ingestLocals,
                   rows, history, away, bounds>>

\* The next folder of the loop, or the end of the run.
NextFolder(p) ==
    /\ \/ /\ pc[p] = "resolve"
          /\ \A r \in rows[p] : r.folder # "monitored"
          /\ pc' = [pc EXCEPT ![p] = "verify"]
          /\ UNCHANGED away
       \/ /\ pc[p] = "verify"
          /\ rows[p] = {}
          /\ pc' = [pc EXCEPT ![p] = "idle"]
          /\ away' = [away EXCEPT ![p] = {}]
    /\ UNCHANGED <<server, database, ingestLocals, reconcileLocals, history,
                   bounds>>

Reconcile(p) ==
    \/ TakeSnapshot(p) \/ PruneDrifted(p) \/ VerifyUids(p)
    \/ ResolveMissing(p) \/ HealRecord(p) \/ PruneRecord(p) \/ NextFolder(p)

-----------------------------------------------------------------------------
\* A worker dies, or an exception ends its run: the next one starts afresh.
Stop(p) ==
    /\ pc[p] # "idle"
    /\ stops < MaxStops
    /\ stops' = stops + 1
    /\ pc' = [pc EXCEPT ![p] = "idle"]
    /\ current' = [current EXCEPT ![p] = None]
    /\ since' = [since EXCEPT ![p] = None]
    /\ sinceScope' = [sinceScope EXCEPT ![p] = None]
    /\ batch' = [batch EXCEPT ![p] = {}]
    /\ batchScope' = [batchScope EXCEPT ![p] = None]
    /\ top' = [top EXCEPT ![p] = 0]
    /\ rows' = [rows EXCEPT ![p] = {}]
    /\ verdict' = [verdict EXCEPT ![p] = NoVerdict]
    /\ away' = [away EXCEPT ![p] = {}]
    /\ UNCHANGED <<server, database, history, renumbers, faults>>

Work(p) == Ingest(p) \/ Reconcile(p)

Next ==
    \/ Environment
    \/ \E p \in Workers : Work(p) \/ Stop(p)

\* Threads are scheduled and both loops run for ever (`while True`).
Fairness == \A p \in Workers : WF_vars(Work(p))

Spec == Init /\ [][Next]_vars
FairSpec == Spec /\ Fairness

-----------------------------------------------------------------------------
(* Properties                                                              *)

\* Every variable has its type.
TypeOK ==
    /\ inbox \subseteq Entries
    /\ uidNext \in 1..MaxUid + 1
    /\ validity \in Namespaces
    /\ records \in [Mids -> [folder : Folders, uid : Uids] \cup {None}]
    /\ watermark \in Uids \cup {None}
    /\ storedValidity \in Namespaces \cup {None}
    /\ pc \in [Workers -> {"idle", "guard", "reset", "read", "fetch",
                           "process", "refresh", "insert", "persist",
                           "reconcile", "verify", "resolve", "heal", "prune"}]
    /\ current \in [Workers -> Namespaces \cup {None}]
    /\ since \in [Workers -> Uids \cup {None}]
    /\ batch \in [Workers -> SUBSET Entries]
    /\ top \in [Workers -> 0..MaxUid]
    /\ rows \in [Workers -> SUBSET Rows]
    /\ verdict \in [Workers -> [mid : Mids \cup {None}, uid : 0..MaxUid]]
    /\ renumbers \in 0..MaxRenumbers /\ validity = renumbers
    /\ stops \in 0..MaxStops
    /\ faults \in 0..MaxFaults
    /\ delivered \subseteq Mids
    /\ handled \subseteq Namespaces \X Uids
    /\ lost \subseteq Mids
    /\ scope \in Namespaces \cup {None}
    /\ sinceScope \in [Workers -> Namespaces \cup {None}]
    /\ batchScope \in [Workers -> Namespaces \cup {None}]
    /\ away \in [Workers -> SUBSET Mids]

\* The watermark never passes a message of its own namespace that no worker
\* has stored, refreshed or counted as an error: whatever arrives between
\* the search and the update, however runs overlap and wherever one stops,
\* `UID <wm>:*` cannot hide an unseen message.
NothingBelowWatermark ==
    \A e \in inbox :
        (watermark # None /\ scope = validity /\ e.uid <= watermark)
            => <<validity, e.uid>> \in handled

\* A run of reconcile_records prunes a card only when the message really was
\* gone from the monitored folder at some moment of that run.
PruneJustified ==
    \A p \in Workers : pc[p] = "prune" => verdict[p].mid \in away[p]

\* As long as the server keeps its UIDVALIDITY, the UID a card stores never
\* names another message of the folder: acting on that UID acts on the card's
\* own message or on nothing.
PointerNamesOwnMessage ==
    validity = 0 =>
        \A m \in Mids :
            (records[m] # None /\ records[m].folder = "monitored") =>
                \A e \in inbox : e.uid = records[m].uid => e.mid = m

\* A message that can be parsed and stays in the monitored folder ends up on
\* the board and stays there, unless its insertion failed.
MailReachesBoard ==
    \A m \in Mids \ Unparseable :
        <>[](m \in Present(inbox)) => <>[](records[m] # None \/ m \in lost)

\* A message that leaves the monitored folder for good leaves the board for
\* good, also when a run in flight inserts it again, unless its stored UID has
\* become that of another message.
GoneMailLeavesBoard ==
    \A m \in Mids :
        <>[](m \notin Present(inbox)) =>
            <>[](records[m] = None \/ records[m].uid \in {e.uid : e \in inbox})

\* Once a message stays in the folder, its card ends up with a UID that is
\* the message's own, across a renumbering too.
PointersConverge ==
    \A m \in Mids :
        <>[](m \in Present(inbox)) =>
            <>[](records[m] = None \/ records[m].uid \in UidsOf(inbox, m))

\* The stored UID watermark steps back under one hand only: that of a slower
\* cycle, when it is no longer the watermark this cycle had read.  However
\* cycles overlap, stop or meet a renumbering, one that nobody overtook moves
\* it forward, so that no completed batch is fetched again.
WatermarkAdvances ==
    [][(watermark # None /\ watermark' # None /\ watermark' < watermark)
          => \E p \in Workers : /\ pc[p] = "process" /\ pc'[p] = "persist"
                              /\ since[p] # watermark]_vars
=============================================================================
