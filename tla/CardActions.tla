---------------------------- MODULE CardActions ----------------------------
(***************************************************************************)
(* Deleting and archiving mail from the board: the request threads of      *)
(* POST /delete and POST /archive, one card each, and the background       *)
(* worker of /batch-delete and /batch-archive, a whole column, on one      *)
(* account.  Each IMAP command and each committed statement is an action;  *)
(* between any two of them other threads, the user's mail client and the   *)
(* server act, an exchange may fail, and a thread may be killed.           *)
(*                                                                         *)
(* A waste folder (Trash, Junk) counts as nowhere: no search looks there.  *)
(***************************************************************************)
EXTENDS Naturals, FiniteSets

CONSTANTS
    Handlers,       \* request threads
    Batches,        \* batch workers
    Mids,           \* Message-IDs
    UidOf,          \* the UID each message starts with in the source folder
    MaxUid,         \* bound on the UIDs of a folder
    ChunkSize,      \* _BATCH_UID_CHUNK
    MaxRequests,    \* bound on requests
    MaxFaults,      \* bound on failed IMAP exchanges and killed threads
    MaxMoves,       \* bound on what the user's mail client does
    MaxRenumbers,   \* bound on UIDVALIDITY changes
    None

Folders == {"inbox", "archive", "other"}
Uids == 1..MaxUid
Entries == [uid : Uids, mid : Mids]
Places == [folder : Folders, uid : Uids]
Rows == [mid : Mids, folder : Folders, uid : Uids]   \* MailRecord snapshots
Ops == {"delete", "archive"}
Workers == Handlers \cup Batches

\* The UIDs of the source folder are those it handed out so far.
ASSUME CardActionsAssumption ==
    /\ IsFiniteSet(Mids) /\ Cardinality(Mids) <= MaxUid
    /\ MaxUid \in Nat /\ ChunkSize \in Nat \ {0}
    /\ UidOf \in [Mids -> 1..Cardinality(Mids)]
    /\ \A m, n \in Mids : UidOf[m] = UidOf[n] => m = n
    /\ MaxRequests \in Nat /\ MaxFaults \in Nat /\ MaxMoves \in Nat
    /\ MaxRenumbers \in Nat
    /\ None \notin Mids /\ None \notin Ops /\ None \notin Folders
    /\ Handlers \cap Batches = {}

VARIABLES
    \* The server.
    box,            \* the messages of each folder
    uidNext,        \* the UID each folder hands out next
    flagged,        \* <<folder, uid>> marked \Deleted, not yet expunged
    \* The database.
    cards,          \* mail_records: where each message was last seen
    decision,       \* triage_decisions: the column of each card
    \* Each worker's locals.
    pc, op,
    mid,            \* the message in hand
    place,          \* the folder and UID to act on
    scanned,        \* folders the cross-folder search has been through
    retry,          \* is this the attempt after that search?
    source,         \* batch: the folder of the group in work
    rows,           \* batch: collected records not yet resolved
    resolved,       \* batch: [mid, uid] of the group, uid 0 for messages
                    \* already dealt with or found nowhere
    chunk,          \* batch: the part of resolved in work
    uids,           \* batch: the UIDs of it the last search found
    dropping,       \* batch: messages whose rows are to be deleted
    \* How often the environment interfered.
    requests, faults, moves, renumbers,
    \* History.
    asked,          \* messages someone asked to have deleted
    gone            \* per worker: <<folder, message>> apart, or taken apart,
                    \* at some moment of its run

server == <<box, uidNext, flagged>>
database == <<cards, decision>>
batch == <<source, rows, resolved, chunk, uids, dropping>>
locals == <<op, mid, place, scanned, retry, batch>>
bounds == <<requests, faults, moves, renumbers>>
vars == <<server, database, pc, locals, bounds, asked, gone>>

-----------------------------------------------------------------------------
(* What ImapClient asks of the server.                                     *)

Hits(f, m) == {e.uid : e \in {d \in box[f] : d.mid = m}}
Holds(f, u) == \E e \in box[f] : e.uid = u
First(u, us) == u \in us /\ \A v \in us : u <= v
Apart(b) == {x \in Folders \X Mids : \A e \in b[x[1]] : e.mid # x[2]}

Taken(b, c) == UNION {{<<f, e.mid>> : e \in b[f] \ c[f]} : f \in Folders}

\* What a change of the folders takes away is noted for the busy workers.
Note(newBox) ==
    gone' = [w \in Workers |-> IF pc[w] = "idle" THEN {}
                               ELSE gone[w] \cup Apart(newBox) \cup Taken(box, newBox)]

\* UID STORE +FLAGS (\Deleted); a UID that has vanished is passed over.
Flag(f, us) == flagged' = flagged \cup {<<f, u>> : u \in {v \in us : Holds(f, v)}}

\* EXPUNGE removes every flagged message of the selected folder.
Expunge(f) ==
    LET newBox == [box EXCEPT ![f] = {e \in @ : <<f, e.uid>> \notin flagged}]
    IN  /\ box' = newBox
        /\ flagged' = {x \in flagged : x[1] # f}
        /\ Note(newBox)

\* Mutant: a COPY that copies nothing is taken for success.
CopyNothing(f, us) == UNCHANGED <<box, uidNext, gone>>

\* UID COPY to the archive folder: fresh UIDs, in order.
Copy(f, us) ==
    LET copied == {e \in box[f] : e.uid \in us}
        rank(e) == Cardinality({d \in copied : d.uid < e.uid})
        newBox == [box EXCEPT !["archive"] = @ \cup
                      {[uid |-> uidNext["archive"] + rank(e), mid |-> e.mid] :
                          e \in copied}]
    IN  /\ uidNext["archive"] + Cardinality(copied) <= MaxUid + 1
        /\ box' = newBox /\ Note(newBox)
        /\ uidNext' = [uidNext EXCEPT !["archive"] = @ + Cardinality(copied)]

-----------------------------------------------------------------------------
Init ==
    /\ box = [f \in Folders |-> IF f = "inbox"
                 THEN {[uid |-> UidOf[m], mid |-> m] : m \in Mids} ELSE {}]
    /\ uidNext = [f \in Folders |-> IF f = "inbox" THEN Cardinality(Mids) + 1
                                                   ELSE 1]
    /\ flagged = {}
    /\ cards = [m \in Mids |-> [folder |-> "inbox", uid |-> UidOf[m]]]
    /\ decision \in [Mids -> {"TO_DELETE", "TO_ARCHIVE"}]
    /\ pc = [w \in Workers |-> "idle"]
    /\ op = [w \in Workers |-> None]
    /\ mid = [w \in Workers |-> None]
    /\ place = [w \in Workers |-> None]
    /\ scanned = [w \in Workers |-> {}]
    /\ retry = [w \in Workers |-> FALSE]
    /\ source = [w \in Workers |-> None]
    /\ rows = [w \in Workers |-> {}]
    /\ resolved = [w \in Workers |-> {}]
    /\ chunk = [w \in Workers |-> {}]
    /\ uids = [w \in Workers |-> {}]
    /\ dropping = [w \in Workers |-> {}]
    /\ requests = 0 /\ faults = 0 /\ moves = 0 /\ renumbers = 0
    /\ asked = {}
    /\ gone = [w \in Workers |-> {}]

\* The worker is done: answered, redirected, or its thread has ended.
Finish(w) ==
    /\ pc' = [pc EXCEPT ![w] = "idle"]
    /\ op' = [op EXCEPT ![w] = None]
    /\ mid' = [mid EXCEPT ![w] = None]
    /\ place' = [place EXCEPT ![w] = None]
    /\ scanned' = [scanned EXCEPT ![w] = {}]
    /\ retry' = [retry EXCEPT ![w] = FALSE]
    /\ source' = [source EXCEPT ![w] = None]
    /\ rows' = [rows EXCEPT ![w] = {}]
    /\ resolved' = [resolved EXCEPT ![w] = {}]
    /\ chunk' = [chunk EXCEPT ![w] = {}]
    /\ uids' = [uids EXCEPT ![w] = {}]
    /\ dropping' = [dropping EXCEPT ![w] = {}]

Goto(w, label) == pc' = [pc EXCEPT ![w] = label]

\* The thread starts: history begins with what is already elsewhere.
Begin(w, o) ==
    /\ pc[w] = "idle"
    /\ requests < MaxRequests /\ requests' = requests + 1
    /\ op' = [op EXCEPT ![w] = o]
    /\ gone' = [gone EXCEPT ![w] = Apart(box)]

-----------------------------------------------------------------------------
(* The environment.                                                        *)

\* POST /move, or the triage agent: the card changes column.
Decide(m, d) ==
    /\ cards[m] # None /\ decision[m] # d
    /\ moves < MaxMoves /\ moves' = moves + 1
    /\ decision' = [decision EXCEPT ![m] = d]
    /\ UNCHANGED <<server, cards, pc, locals, requests, faults, renumbers,
                   asked, gone>>

\* The user's mail client moves a message to another folder ...
UserMove(e, f, g) ==
    /\ f # g /\ <<f, e.uid>> \notin flagged
    /\ moves < MaxMoves /\ moves' = moves + 1
    /\ uidNext[g] <= MaxUid
    /\ LET newBox == [box EXCEPT ![f] = @ \ {e},
                                 ![g] = @ \cup {[uid |-> uidNext[g],
                                                 mid |-> e.mid]}]
       IN  box' = newBox /\ Note(newBox)
    /\ uidNext' = [uidNext EXCEPT ![g] = @ + 1]
    /\ UNCHANGED <<flagged, database, pc, locals, requests, faults,
                   renumbers, asked>>

\* ... or removes it.
UserDelete(e, f) ==
    /\ moves < MaxMoves /\ moves' = moves + 1
    /\ LET newBox == [box EXCEPT ![f] = @ \ {e}]
       IN  box' = newBox /\ Note(newBox)
    /\ flagged' = flagged \ {<<f, e.uid>>}
    /\ asked' = asked \cup {e.mid}
    /\ UNCHANGED <<uidNext, database, pc, locals, requests, faults, renumbers>>

\* The server renumbers the source folder (flags stay with the messages).
Renumber(new) ==
    /\ renumbers < MaxRenumbers /\ renumbers' = renumbers + 1
    /\ \A d, e \in box["inbox"] : new[d] = new[e] => d = e
    /\ box' = [box EXCEPT !["inbox"] =
                  {[uid |-> new[e], mid |-> e.mid] : e \in @}]
    /\ flagged' = {x \in flagged : x[1] # "inbox"} \cup
                  {<<"inbox", new[e]>> :
                      e \in {d \in box["inbox"] : <<"inbox", d.uid>> \in flagged}}
    /\ UNCHANGED <<uidNext, database, pc, locals, requests, faults, moves,
                   asked, gone>>

Environment ==
    \/ \E m \in Mids, d \in {"TO_DELETE", "TO_ARCHIVE"} : Decide(m, d)
    \/ \E f, g \in Folders : \E e \in box[f] : UserMove(e, f, g)
    \/ \E f \in Folders : \E e \in box[f] : UserDelete(e, f)

-----------------------------------------------------------------------------
(* One card: handle_delete and handle_archive; and, for a batch worker, a  *)
(* card whose message has left its folder.                                 *)

\* handle_post_action looks the record up (404 when there is none).
Request(h, o, m) ==
    /\ cards[m] # None
    /\ Begin(h, o)
    /\ mid' = [mid EXCEPT ![h] = m]
    /\ place' = [place EXCEPT ![h] = cards[m]]
    /\ asked' = IF o = "delete" THEN asked \cup {m} ELSE asked
    /\ Goto(h, "resolve")
    /\ UNCHANGED <<server, database, scanned, retry, batch, faults, moves,
                   renumbers>>

\* ImapMessageNotFoundError: the first attempt goes on to the cross-folder
\* search; the second gives up, and the card stays.
NotFound(w) ==
    IF retry[w]
    THEN Finish(w)
    ELSE Goto(w, "scan") /\ UNCHANGED locals

\* resolve_uid_with_fallback returns the stored UID if any message has it,
\* else the first UID of the Message-ID, if there is one.
Resolves(f, u, m, v) ==
    IF Holds(f, u) THEN v = u ELSE First(v, Hits(f, m))

\* The batch keeps the UID for the batched command, the others act on it.
Resolve(w) ==
    /\ pc[w] = "resolve"
    /\ LET f == place[w].folder
           u == place[w].uid
       IN \/ \E v \in Uids :
                /\ Resolves(f, u, mid[w], v)
                /\ IF w \in Batches
                   THEN /\ resolved' = [resolved EXCEPT ![w] =
                                           @ \cup {[mid |-> mid[w], uid |-> v]}]
                        /\ Goto(w, "rows")
                        /\ UNCHANGED <<op, mid, place, scanned, retry, source,
                                       rows, chunk, uids, dropping>>
                   ELSE /\ place' = [place EXCEPT ![w].uid = v]
                        /\ Goto(w, "verify")
                        /\ UNCHANGED <<op, mid, scanned, retry, batch>>
          \/ /\ ~Holds(f, u) /\ Hits(f, mid[w]) = {}
             /\ NotFound(w)
    /\ UNCHANGED <<server, database, bounds, asked, gone>>

\* _imap_cross_folder_fallback goes through the folders in the server's
\* order and stops at the first that has the message.
ScanFolder(w, f) ==
    /\ pc[w] = "scan"
    /\ f \in Folders \ scanned[w]
    /\ IF Hits(f, mid[w]) # {}
       THEN /\ \E u \in Hits(f, mid[w]) :
                  /\ First(u, Hits(f, mid[w]))
                  /\ place' = [place EXCEPT ![w] = [folder |-> f, uid |-> u]]
            /\ scanned' = [scanned EXCEPT ![w] = {}]
            /\ retry' = [retry EXCEPT ![w] = TRUE]
            /\ Goto(w, "note")
       ELSE /\ scanned' = [scanned EXCEPT ![w] = @ \cup {f}]
            /\ UNCHANGED <<place, retry, pc>>
    /\ UNCHANGED <<server, database, op, mid, batch, bounds, asked, gone>>

\* No folder has it: the caller goes on to delete the row.
ScanEnds(w) ==
    /\ pc[w] = "scan"
    /\ scanned[w] = Folders
    /\ scanned' = [scanned EXCEPT ![w] = {}]
    /\ Goto(w, "drop")
    /\ UNCHANGED <<server, database, op, mid, place, retry, batch, bounds,
                   asked, gone>>

\* Mutant: the folder is noted, the UID is left to default to NULL.
NoteFolderOnly(w) ==
    /\ pc[w] = "note"
    /\ cards' = IF cards[mid[w]] = None THEN cards
                ELSE [cards EXCEPT ![mid[w]] =
                         [folder |-> place[w].folder, uid |-> None]]
    /\ Goto(w, IF op[w] = "archive" /\ w \in Handlers THEN "resolve"
                                                      ELSE "verify")
    /\ UNCHANGED <<server, decision, locals, bounds, asked, gone>>

\* update_record_source, on the row if there still is one.  A second
\* archive request resolves once more; the others use the UID as it is.
NoteSource(w) ==
    /\ pc[w] = "note"
    /\ cards' = IF cards[mid[w]] = None THEN cards
                ELSE [cards EXCEPT ![mid[w]] = place[w]]
    /\ Goto(w, IF op[w] = "archive" /\ w \in Handlers THEN "resolve"
                                                      ELSE "verify")
    /\ UNCHANGED <<server, decision, locals, bounds, asked, gone>>

\* The UID search at the head of delete_message and move_message.
Verify(w) ==
    /\ pc[w] = "verify"
    /\ IF Holds(place[w].folder, place[w].uid)
       THEN /\ Goto(w, IF op[w] = "archive" THEN "copy" ELSE "store")
            /\ UNCHANGED locals
       ELSE NotFound(w)
    /\ UNCHANGED <<server, database, bounds, asked, gone>>

\* move_message copies, then calls delete_message, which verifies again.  A
\* server with UIDPLUS has an empty COPY reported as not found.
CopyMessage(w) ==
    /\ pc[w] = "copy"
    /\ \/ /\ Copy(place[w].folder, {place[w].uid})
          /\ Goto(w, "reverify")
          /\ UNCHANGED locals
       \/ /\ ~Holds(place[w].folder, place[w].uid)
          /\ NotFound(w)
          /\ UNCHANGED <<box, uidNext, gone>>
    /\ UNCHANGED <<flagged, database, bounds, asked>>

Reverify(w) ==
    /\ pc[w] = "reverify"
    /\ IF Holds(place[w].folder, place[w].uid)
       THEN Goto(w, "store") /\ UNCHANGED locals
       ELSE NotFound(w)
    /\ UNCHANGED <<server, database, bounds, asked, gone>>

StoreDeleted(w) ==
    /\ pc[w] = "store"
    /\ Flag(place[w].folder, {place[w].uid})
    /\ Goto(w, "expunge")
    /\ UNCHANGED <<box, uidNext, database, locals, bounds, asked, gone>>

ExpungeFolder(w) ==
    /\ pc[w] = "expunge"
    /\ Expunge(place[w].folder)
    /\ Goto(w, "drop")
    /\ UNCHANGED <<uidNext, database, locals, bounds, asked>>

\* delete_record_by_message_id, after the audit entry of an archive.
DropCard(h) ==
    /\ h \in Handlers
    /\ pc[h] = "drop"
    /\ cards' = [cards EXCEPT ![mid[h]] = None]
    /\ Finish(h)
    /\ UNCHANGED <<server, decision, bounds, asked, gone>>

-----------------------------------------------------------------------------
(* A whole column: _run_batch_background.                                  *)

\* _collect_records_for_action: the rows as they are now, used to the end.
Collect(b, o) ==
    /\ Begin(b, o)
    /\ LET column == IF o = "delete" THEN "TO_DELETE" ELSE "TO_ARCHIVE"
           collected == {m \in Mids : cards[m] # None /\ decision[m] = column}
       IN  /\ rows' = [rows EXCEPT ![b] =
                          {[mid |-> m, folder |-> cards[m].folder,
                            uid |-> cards[m].uid] : m \in collected}]
           /\ asked' = IF o = "delete" THEN asked \cup collected ELSE asked
    /\ Goto(b, "rows")
    /\ UNCHANGED <<server, database, mid, place, scanned, retry, source,
                   resolved, chunk, uids, dropping, faults, moves, renumbers>>

Group(b) == {r \in rows[b] : r.folder = source[b]}

\* The next row of the group (of the first group, or the next) ...
TakeRow(b, r) ==
    /\ pc[b] = "rows"
    /\ r \in Group(b) \/ (Group(b) = {} /\ resolved[b] = {} /\ r \in rows[b])
    /\ source' = [source EXCEPT ![b] = r.folder]
    /\ rows' = [rows EXCEPT ![b] = @ \ {r}]
    /\ mid' = [mid EXCEPT ![b] = r.mid]
    /\ place' = [place EXCEPT ![b] = [folder |-> r.folder, uid |-> r.uid]]
    /\ retry' = [retry EXCEPT ![b] = FALSE]
    /\ Goto(b, "resolve")
    /\ UNCHANGED <<server, database, op, scanned, resolved, chunk, uids,
                   dropping, bounds, asked, gone>>

\* ... that was dealt with in the folder it had moved to, or found nowhere.
RowSettled(b) ==
    /\ b \in Batches
    /\ pc[b] = "drop"
    /\ resolved' = [resolved EXCEPT ![b] = @ \cup {[mid |-> mid[b], uid |-> 0]}]
    /\ Goto(b, "rows")
    /\ UNCHANGED <<server, database, op, mid, place, scanned, retry, source,
                   rows, chunk, uids, dropping, bounds, asked, gone>>

\* The whole group is resolved: on to its next chunk.
TakeChunk(b, c) ==
    /\ pc[b] = "rows" /\ Group(b) = {}
    /\ c \in SUBSET resolved[b]
    /\ Cardinality(c) = IF Cardinality(resolved[b]) < ChunkSize
                        THEN Cardinality(resolved[b]) ELSE ChunkSize
    /\ c # {}
    /\ chunk' = [chunk EXCEPT ![b] = c]
    /\ resolved' = [resolved EXCEPT ![b] = @ \ c]
    /\ Goto(b, "filter")
    /\ UNCHANGED <<server, database, op, mid, place, scanned, retry, source,
                   rows, uids, dropping, bounds, asked, gone>>

\* What comes after a chunk's commands: its rows, or, for an archive, the
\* group's next chunk first.
ChunkDone(b) ==
    /\ dropping' = [dropping EXCEPT ![b] = @ \cup {r.mid : r \in chunk[b]}]
    /\ chunk' = [chunk EXCEPT ![b] = {}]
    /\ uids' = [uids EXCEPT ![b] = {}]
    /\ Goto(b, IF op[b] = "archive" /\ resolved[b] # {} THEN "rows" ELSE "settle")
    /\ UNCHANGED <<op, mid, place, scanned, retry, source, rows, resolved>>

\* _filter_valid_uids, in delete_messages or move_messages.
FilterChunk(b) ==
    /\ pc[b] = "filter"
    /\ LET valid == {u \in {r.uid : r \in chunk[b]} : Holds(source[b], u)}
       IN  IF valid = {} THEN ChunkDone(b)
           ELSE /\ uids' = [uids EXCEPT ![b] = valid]
                /\ Goto(b, IF op[b] = "archive" THEN "batchcopy" ELSE "batchstore")
                /\ UNCHANGED <<op, mid, place, scanned, retry, source, rows,
                               resolved, chunk, dropping>>
    /\ UNCHANGED <<server, database, bounds, asked, gone>>

\* move_messages copies, then calls delete_messages, which filters again.
CopyChunk(b) ==
    /\ pc[b] = "batchcopy"
    /\ \/ /\ Copy(source[b], uids[b])
          /\ Goto(b, "refilter")
          /\ UNCHANGED locals
       \/ /\ \A u \in uids[b] : ~Holds(source[b], u)
          /\ ChunkDone(b)
          /\ UNCHANGED <<box, uidNext, gone>>
    /\ UNCHANGED <<flagged, database, bounds, asked>>

RefilterChunk(b) ==
    /\ pc[b] = "refilter"
    /\ LET valid == {u \in uids[b] : Holds(source[b], u)}
       IN  IF valid = {} THEN ChunkDone(b)
           ELSE /\ uids' = [uids EXCEPT ![b] = valid]
                /\ Goto(b, "batchstore")
                /\ UNCHANGED <<op, mid, place, scanned, retry, source, rows,
                               resolved, chunk, dropping>>
    /\ UNCHANGED <<server, database, bounds, asked, gone>>

StoreChunk(b) ==
    /\ pc[b] = "batchstore"
    /\ Flag(source[b], uids[b])
    /\ Goto(b, "batchexpunge")
    /\ UNCHANGED <<box, uidNext, database, locals, bounds, asked, gone>>

\* Mutant: the connection still has the folder of a fallback selected.
ExpungeWhereLeft(b) ==
    /\ pc[b] = "batchexpunge"
    /\ Expunge(place[b].folder)
    /\ ChunkDone(b)
    /\ UNCHANGED <<uidNext, database, bounds, asked>>

ExpungeChunk(b) ==
    /\ pc[b] = "batchexpunge"
    /\ Expunge(source[b])
    /\ ChunkDone(b)
    /\ UNCHANGED <<uidNext, database, bounds, asked>>

\* One row after the other, each deletion committed.
DropRow(b, m) ==
    /\ pc[b] = "settle"
    /\ m \in dropping[b]
    /\ cards' = [cards EXCEPT ![m] = None]
    /\ dropping' = [dropping EXCEPT ![b] = @ \ {m}]
    /\ UNCHANGED <<server, decision, pc, op, mid, place, scanned, retry,
                   source, rows, resolved, chunk, uids, bounds, asked, gone>>

ChunkSettled(b) ==
    /\ pc[b] = "settle" /\ dropping[b] = {}
    /\ Goto(b, "rows")
    /\ UNCHANGED <<server, database, locals, bounds, asked, gone>>

BatchEnds(b) ==
    /\ pc[b] = "rows" /\ rows[b] = {} /\ resolved[b] = {}
    /\ Finish(b)
    /\ UNCHANGED <<server, database, bounds, asked, gone>>

-----------------------------------------------------------------------------
\* ImapError or OSError anywhere: a 502, or the end of the batch, and the
\* cards stay.  A killed thread leaves the same behind.
Fail(w) ==
    /\ pc[w] # "idle"
    /\ faults < MaxFaults /\ faults' = faults + 1
    /\ Finish(w)
    /\ UNCHANGED <<server, database, requests, moves, renumbers, asked, gone>>

OneCard(w) ==
    \/ Resolve(w)
    \/ \E f \in Folders : ScanFolder(w, f)
    \/ ScanEnds(w)
    \/ NoteSource(w)
    \/ Verify(w)
    \/ CopyMessage(w)
    \/ Reverify(w)
    \/ StoreDeleted(w)
    \/ ExpungeFolder(w)

Handler(h) ==
    \/ \E o \in Ops, m \in Mids : Request(h, o, m)
    \/ OneCard(h)
    \/ DropCard(h)
    \/ Fail(h)

Batch(b) ==
    \/ \E o \in Ops : Collect(b, o)
    \/ \E r \in rows[b] : TakeRow(b, r)
    \/ OneCard(b)
    \/ RowSettled(b)
    \/ \E c \in SUBSET resolved[b] : TakeChunk(b, c)
    \/ FilterChunk(b)
    \/ CopyChunk(b)
    \/ RefilterChunk(b)
    \/ StoreChunk(b)
    \/ ExpungeChunk(b)
    \/ \E m \in dropping[b] : DropRow(b, m)
    \/ ChunkSettled(b)
    \/ BatchEnds(b)
    \/ Fail(b)

Next ==
    \/ \E h \in Handlers : Handler(h)
    \/ \E b \in Batches : Batch(b)
    \/ Environment

Spec == Init /\ [][Next]_vars

\* The same on a server that may renumber its source folder.
NextRenumbering ==
    \/ Next
    \/ \E new \in [box["inbox"] -> Uids] : Renumber(new)

SpecRenumbering == Init /\ [][NextRenumbering]_vars

-----------------------------------------------------------------------------
Labels == {"idle", "resolve", "scan", "note", "verify", "copy", "reverify",
           "store", "expunge", "drop", "rows", "filter", "batchcopy",
           "refilter", "batchstore", "batchexpunge", "settle"}

\* Types; a card that is there has both a folder and a UID.
TypeOK ==
    /\ box \in [Folders -> SUBSET Entries]
    /\ uidNext \in [Folders -> 1..MaxUid + 1]
    /\ flagged \subseteq Folders \X Uids
    /\ cards \in [Mids -> Places \cup {None}]
    /\ decision \in [Mids -> {"TO_DELETE", "TO_ARCHIVE"}]
    /\ pc \in [Workers -> Labels]
    /\ op \in [Workers -> Ops \cup {None}]
    /\ mid \in [Workers -> Mids \cup {None}]
    /\ place \in [Workers -> Places \cup {None}]
    /\ scanned \in [Workers -> SUBSET Folders]
    /\ retry \in [Workers -> BOOLEAN]
    /\ source \in [Workers -> Folders \cup {None}]
    /\ rows \in [Workers -> SUBSET Rows]
    /\ resolved \in [Workers -> SUBSET [mid : Mids, uid : Uids \cup {0}]]
    /\ chunk \in [Workers -> SUBSET [mid : Mids, uid : Uids \cup {0}]]
    /\ uids \in [Workers -> SUBSET Uids]
    /\ dropping \in [Workers -> SUBSET Mids]
    /\ requests \in 0..MaxRequests /\ faults \in 0..MaxFaults
    /\ moves \in 0..MaxMoves /\ renumbers \in 0..MaxRenumbers
    /\ asked \subseteq Mids
    /\ gone \in [Workers -> SUBSET (Folders \X Mids)]

\* Mail nobody asked to have deleted is in some folder: an archive
\* interrupted anywhere, the overlapping clean-up of another worker and a
\* batch working from a stale snapshot lose nothing.  A server that renumbers
\* between a card's ingest and the action breaks it (resolve_uid_with_fallback).
NothingLostUnasked ==
    \A m \in Mids \ asked : \E f \in Folders : Hits(f, m) # {}

\* A row is deleted only once its message has left the folder the worker
\* acted on: a failed exchange, a stale UID or a partial batch never costs
\* the card of a message that is still where it was.
DropJustified ==
    /\ \A h \in Handlers : pc[h] = "drop" => <<place[h].folder, mid[h]>> \in gone[h]
    /\ \A b \in Batches : \A m \in dropping[b] : <<source[b], m>> \in gone[b]

=============================================================================
