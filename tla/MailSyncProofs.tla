-------------------------- MODULE MailSyncProofs --------------------------
(***************************************************************************)
(* What TLAPS proves of MailSync, for every set of workers and messages    *)
(* and every bound.                                                        *)
(***************************************************************************)
EXTENDS MailSync, TLAPS

USE MailSyncAssumption DEF Workers, Uids, Folders, Namespaces

-----------------------------------------------------------------------------
(* Type correctness                                                        *)

\* What the types alone do not say: a batch in work has a highest UID, only
\* a batch in work speaks for a namespace, and a message to be healed has a
\* new UID.
LocalsOK ==
    \A p \in Workers :
        /\ IF pc[p] \in {"process", "refresh", "insert"}
           THEN top[p] \in Uids ELSE batchScope[p] = None
        /\ pc[p] = "heal" => verdict[p].mid \in Mids /\ verdict[p].uid \in Uids

TypeInv == TypeOK /\ LocalsOK

LEMMA InitTypeInv == Init => TypeInv
BY DEF Init, TypeInv, TypeOK, LocalsOK, NoVerdict

LEMMA EnvironmentTypeInv == TypeInv /\ Environment => TypeInv'
<1> SUFFICES ASSUME TypeInv, Environment PROVE TypeInv'
  OBVIOUS
<1> USE DEF TypeInv, TypeOK, LocalsOK, Entries, Rows, server, database,
        ingestLocals, reconcileLocals, history, bounds
<1>1. ASSUME NEW m \in Mids, Deliver(m) PROVE TypeInv'
  BY <1>1 DEF Deliver
<1>2. ASSUME NEW m \in Mids, BoardRemove(m) PROVE TypeInv'
  BY <1>2 DEF BoardRemove
<1>3. ASSUME NEW m \in Mids, NEW u \in Uids, BoardRelocate(m, u) PROVE TypeInv'
  BY <1>3 DEF BoardRelocate
<1>4. ASSUME NEW e \in inbox, Leave(e) PROVE TypeInv'
  BY <1>4 DEF Leave, Present
<1>5. ASSUME NEW f \in [inbox -> Uids], NEW n \in 1..MaxUid + 1, Renumber(f, n)
      PROVE TypeInv'
  BY <1>5 DEF Renumber
<1> QED
  BY <1>1, <1>2, <1>3, <1>4, <1>5 DEF Environment

LEMMA IngestTypeInv ==
    ASSUME TypeInv, NEW p \in Workers, Ingest(p) PROVE TypeInv'
<1> USE DEF TypeInv, TypeOK, LocalsOK, Entries, Rows, server, database,
        ingestLocals, reconcileLocals, history, bounds
<1>1. CASE ReadValidity(p)
  BY <1>1 DEF ReadValidity, Fault
<1>2. CASE GuardValidity(p)
  BY <1>2 DEF GuardValidity
<1>3. CASE ResetWatermark(p)
  BY <1>3 DEF ResetWatermark
<1>4. CASE ReadWatermark(p)
  BY <1>4 DEF ReadWatermark
<1>5. CASE FetchNewMessages(p)
  <2> DEFINE new == Newer(inbox, since[p])
  <2>1. new \subseteq Entries
    BY DEF Newer
  <2>2. batch' \in [Workers -> SUBSET Entries]
    BY <1>5, <2>1 DEF FetchNewMessages
  <2>3. CASE new = {} /\ pc' = [pc EXCEPT ![p] = "reconcile"]
             /\ current' = [current EXCEPT ![p] = None]
             /\ since' = [since EXCEPT ![p] = None]
             /\ UNCHANGED <<top, batchScope>>
    BY <1>5, <2>2, <2>3 DEF FetchNewMessages
  <2>4. ASSUME NEW e \in new,
               top' = [top EXCEPT ![p] = e.uid],
               batchScope' = [batchScope EXCEPT ![p] =
                   IF since[p] = None \/ sinceScope[p] = validity
                   THEN validity ELSE None],
               pc' = [pc EXCEPT ![p] = "process"], UNCHANGED <<current, since>>
        PROVE TypeInv'
    <3> HIDE DEF new
    <3>1. e.uid \in Uids
      BY <2>1
    <3> QED
      BY <1>5, <2>2, <2>4, <3>1 DEF FetchNewMessages
  <2> QED
    BY <1>5, <2>3, <2>4 DEF FetchNewMessages
<1>6. CASE ParseMessage(p)
  <2>1. PICK e \in batch[p] :
            \/ Handle(p, e) /\ UNCHANGED pc
            \/ /\ pc' = [pc EXCEPT ![p] = IF records[e.mid] # None
                                          THEN "refresh" ELSE "insert"]
               /\ UNCHANGED <<batch, handled>>
    BY <1>6 DEF ParseMessage
  <2>2. CASE Handle(p, e) /\ UNCHANGED pc
    BY <1>6, <2>2 DEF ParseMessage, Handle
  <2>3. CASE /\ pc' = [pc EXCEPT ![p] = IF records[e.mid] # None
                                        THEN "refresh" ELSE "insert"]
             /\ UNCHANGED <<batch, handled>>
    BY <1>6, <2>3 DEF ParseMessage
  <2> QED
    BY <2>1, <2>2, <2>3
<1>7. CASE RefreshRecord(p)
  BY <1>7 DEF RefreshRecord, Refreshed, Stored, Handle
<1>8. CASE InsertRecord(p)
  BY <1>8 DEF InsertRecord, Stored, Handle, Fault
<1>9. CASE UpdateWatermark(p)
  BY <1>9 DEF UpdateWatermark, SetWatermark
<1>10. CASE PersistValidity(p)
  BY <1>10 DEF PersistValidity
<1> QED
  BY <1>1, <1>2, <1>3, <1>4, <1>5, <1>6, <1>7, <1>8, <1>9, <1>10 DEF Ingest

LEMMA ReconcileTypeInv ==
    ASSUME TypeInv, NEW p \in Workers, Reconcile(p) PROVE TypeInv'
<1> USE DEF TypeInv, TypeOK, LocalsOK, Entries, Rows, server, database,
        ingestLocals, reconcileLocals, history, bounds
<1>1. CASE TakeSnapshot(p)
  <2>1. ASSUME NEW S \in Snapshots(records) PROVE S \subseteq Rows
    BY <2>1 DEF Snapshots
  <2>2. rows' \in [Workers -> SUBSET Rows] /\ away' \in [Workers -> SUBSET Mids]
    BY <1>1, <2>1 DEF TakeSnapshot
  <2> QED
    BY <1>1, <2>2 DEF TakeSnapshot
<1>2. CASE PruneDrifted(p)
  BY <1>2 DEF PruneDrifted, Pruned
<1>3. CASE VerifyUids(p)
  <2>1. rows' \in [Workers -> SUBSET Rows]
    BY <1>3 DEF VerifyUids
  <2>2. faults' \in 0..MaxFaults
    BY <1>3 DEF VerifyUids, Fault
  <2> QED
    BY <1>3, <2>1, <2>2 DEF VerifyUids
<1>4. CASE ResolveMissing(p)
  <2>1. PICK r \in rows[p] :
            /\ rows' = [rows EXCEPT ![p] = @ \ {r}]
            /\ \/ \E u \in SourceFolderHits(r.mid) :
                     /\ verdict' = [verdict EXCEPT ![p] =
                                       [mid |-> r.mid, uid |-> u]]
                     /\ pc' = [pc EXCEPT ![p] = "heal"]
               \/ /\ verdict' = [verdict EXCEPT ![p] =
                                    [mid |-> r.mid, uid |-> 0]]
                  /\ pc' = [pc EXCEPT ![p] = "prune"]
               \/ UNCHANGED <<verdict, pc>>
    BY <1>4 DEF ResolveMissing
  <2>2. r.mid \in Mids
    OBVIOUS
  <2>3. SourceFolderHits(r.mid) \subseteq Uids
    BY DEF SourceFolderHits, UidsOf
  <2>4. faults' \in 0..MaxFaults
    BY <1>4 DEF ResolveMissing, Fault
  <2>5. /\ verdict' \in [Workers -> [mid : Mids \cup {None}, uid : 0..MaxUid]]
        /\ rows' \in [Workers -> SUBSET Rows]
    BY <2>1, <2>2, <2>3
  <2>6. LocalsOK'
    BY <1>4, <2>1, <2>2, <2>3 DEF ResolveMissing
  <2>7. pc' \in [Workers -> {"idle", "guard", "reset", "read", "fetch",
                     "process", "refresh", "insert", "persist", "reconcile",
                     "verify", "resolve", "heal", "prune"}]
    BY <2>1
  <2> QED
    BY <1>4, <2>4, <2>5, <2>6, <2>7 DEF ResolveMissing
<1>5. CASE HealRecord(p)
  BY <1>5 DEF HealRecord, NoVerdict
<1>6. CASE PruneRecord(p)
  <2>1. verdict' \in [Workers -> [mid : Mids \cup {None}, uid : 0..MaxUid]]
    BY <1>6 DEF PruneRecord, NoVerdict
  <2>2. records' \in [Mids -> [folder : Folders, uid : Uids] \cup {None}]
    BY <1>6 DEF PruneRecord, Pruned
  <2> QED
    BY <1>6, <2>1, <2>2 DEF PruneRecord
<1>7. CASE NextFolder(p)
  BY <1>7 DEF NextFolder
<1> QED
  BY <1>1, <1>2, <1>3, <1>4, <1>5, <1>6, <1>7 DEF Reconcile

LEMMA StopTypeInv ==
    ASSUME TypeInv, NEW p \in Workers, Stop(p) PROVE TypeInv'
BY DEF TypeInv, TypeOK, LocalsOK, Stop, Entries, Rows, NoVerdict, server,
       database, history

LEMMA NextTypeInv == TypeInv /\ [Next]_vars => TypeInv'
<1> SUFFICES ASSUME TypeInv, [Next]_vars PROVE TypeInv'
  OBVIOUS
<1>1. CASE UNCHANGED vars
  BY <1>1 DEF TypeInv, TypeOK, LocalsOK, vars, server, database, ingestLocals,
              reconcileLocals, history, bounds
<1> QED
  BY <1>1, EnvironmentTypeInv, IngestTypeInv, ReconcileTypeInv, StopTypeInv
  DEF Next, Work

\* Every variable keeps its type in every behaviour of the two pipelines.
THEOREM TypeCorrect == Spec => []TypeOK
<1>1. TypeInv => TypeOK
  BY DEF TypeInv
<1> QED
  BY InitTypeInv, NextTypeInv, <1>1, PTL DEF Spec

-----------------------------------------------------------------------------
(* No message slips below the watermark                                    *)

Scopes == 0..validity \cup {None}

\* UIDs are handed out upwards and no one speaks for a future namespace.
Numbering ==
    /\ \A e \in inbox : e.uid < uidNext
    /\ scope \in Scopes
    /\ \A p \in Workers : sinceScope[p] \in Scopes /\ batchScope[p] \in Scopes

\* u is a UID of the current namespace, and everything up to u has been
\* handled, or is about to be.
CoveredUpTo(u, pending) ==
    /\ u < uidNext
    /\ \A e \in inbox : e.uid <= u =>
           <<validity, e.uid>> \in handled \/ e \in pending

WatermarkCovers ==
    watermark # None /\ scope = validity => CoveredUpTo(watermark, {})

SinceCovers(p) ==
    since[p] # None /\ sinceScope[p] = validity => CoveredUpTo(since[p], {})

BatchCovers(p) == batchScope[p] = validity => CoveredUpTo(top[p], batch[p])

Coverage ==
    /\ Numbering
    /\ WatermarkCovers
    /\ \A p \in Workers : SinceCovers(p) /\ BatchCovers(p)

LEMMA InitCoverage == Init => Coverage
BY DEF Init, Coverage, Numbering, Scopes, WatermarkCovers, SinceCovers,
       BatchCovers

LEMMA EnvironmentCoverage == TypeInv /\ Coverage /\ Environment => Coverage'
<1> SUFFICES ASSUME TypeInv, Coverage, Environment PROVE Coverage'
  OBVIOUS
<1> USE DEF TypeInv, TypeOK, Coverage, Numbering, Scopes, WatermarkCovers,
        SinceCovers, BatchCovers, CoveredUpTo, Entries, server, database,
        ingestLocals, history
<1>1. ASSUME NEW m \in Mids, Deliver(m) PROVE Coverage'
  BY <1>1 DEF Deliver
<1>2. ASSUME NEW m \in Mids, BoardRemove(m) PROVE Coverage'
  BY <1>2 DEF BoardRemove
<1>3. ASSUME NEW m \in Mids, NEW u \in Uids, BoardRelocate(m, u)
      PROVE Coverage'
  BY <1>3 DEF BoardRelocate
<1>4. ASSUME NEW e \in inbox, Leave(e) PROVE Coverage'
  BY <1>4 DEF Leave
<1>5. ASSUME NEW f \in [inbox -> Uids], NEW n \in 1..MaxUid + 1, Renumber(f, n)
      PROVE Coverage'
  <2>1. validity' \notin Scopes /\ Scopes \subseteq Scopes'
    BY <1>5 DEF Renumber
  <2>2. Numbering'
    BY <1>5, <2>1 DEF Renumber
  <2> QED
    BY <1>5, <2>1, <2>2 DEF Renumber
<1> QED
  BY <1>1, <1>2, <1>3, <1>4, <1>5 DEF Environment

\* Dealing with one message of the batch leaves everything covered.
LEMMA HandleCoverage ==
    ASSUME TypeInv, Coverage, NEW p \in Workers, NEW e \in batch[p],
           Handle(p, e),
           UNCHANGED <<server, watermark, scope, since, top, sinceScope,
                       batchScope>>
    PROVE  Coverage'
BY DEF TypeInv, TypeOK, Coverage, Numbering, Scopes, WatermarkCovers,
       SinceCovers, BatchCovers, CoveredUpTo, Entries, server, Handle

LEMMA IngestCoverage ==
    ASSUME TypeInv, Coverage, NEW p \in Workers, Ingest(p) PROVE Coverage'
<1> USE DEF TypeInv, TypeOK, Coverage, Numbering, Scopes, WatermarkCovers,
        SinceCovers, BatchCovers, CoveredUpTo, server, database,
        ingestLocals, history
<1>1. CASE ReadValidity(p)
  BY <1>1 DEF ReadValidity
<1>2. CASE GuardValidity(p)
  BY <1>2 DEF GuardValidity
<1>3. CASE ResetWatermark(p)
  BY <1>3 DEF ResetWatermark
<1>4. CASE ReadWatermark(p)
  BY <1>4 DEF ReadWatermark
<1>5. CASE FetchNewMessages(p)
  <2>1. CASE Newer(inbox, since[p]) = {} /\ UNCHANGED <<top, batchScope>>
    <3>1. batchScope[p] = None
      BY <1>5 DEF FetchNewMessages, LocalsOK
    <3>2. BatchCovers(p)'
      BY <1>5, <2>1, <3>1 DEF FetchNewMessages
    <3> QED
      BY <1>5, <2>1, <3>2 DEF FetchNewMessages
  <2>2. ASSUME NEW e \in Newer(inbox, since[p]),
               IsHighest(e.uid, {d.uid : d \in Newer(inbox, since[p])}),
               top' = [top EXCEPT ![p] = e.uid],
               batchScope' = [batchScope EXCEPT ![p] =
                   IF since[p] = None \/ sinceScope[p] = validity
                   THEN validity ELSE None],
               UNCHANGED since
        PROVE Coverage'
    <3>1. e \in inbox
      BY DEF Newer
    <3>2. BatchCovers(p)'
      BY <1>5, <2>2, <3>1 DEF FetchNewMessages, Newer, Entries
    <3> QED
      BY <1>5, <2>2, <3>1, <3>2 DEF FetchNewMessages
  <2> QED
    BY <1>5, <2>1, <2>2 DEF FetchNewMessages
<1>6. CASE ParseMessage(p)
  BY <1>6, HandleCoverage DEF ParseMessage
<1>7. CASE RefreshRecord(p)
  BY <1>7, HandleCoverage DEF RefreshRecord
<1>8. CASE InsertRecord(p)
  BY <1>8, HandleCoverage DEF InsertRecord
<1>9. CASE UpdateWatermark(p)
  BY <1>9 DEF UpdateWatermark, SetWatermark
<1>10. CASE PersistValidity(p)
  BY <1>10 DEF PersistValidity
<1> QED
  BY <1>1, <1>2, <1>3, <1>4, <1>5, <1>6, <1>7, <1>8, <1>9, <1>10 DEF Ingest

LEMMA ReconcileCoverage ==
    ASSUME TypeInv, Coverage, NEW p \in Workers, Reconcile(p) PROVE Coverage'
<1>1. UNCHANGED <<server, watermark, scope, since, sinceScope, batch,
                  batchScope, top, handled>>
  BY DEF Reconcile, TakeSnapshot, PruneDrifted, VerifyUids, ResolveMissing,
         HealRecord, PruneRecord, NextFolder, database, ingestLocals, history
<1> QED
  BY <1>1 DEF Coverage, Numbering, Scopes, WatermarkCovers, SinceCovers,
              BatchCovers, CoveredUpTo, server

LEMMA StopCoverage ==
    ASSUME TypeInv, Coverage, NEW p \in Workers, Stop(p) PROVE Coverage'
BY DEF TypeInv, TypeOK, Coverage, Numbering, Scopes, WatermarkCovers,
       SinceCovers, BatchCovers, CoveredUpTo, server, database, history, Stop

LEMMA NextCoverage == TypeInv /\ Coverage /\ [Next]_vars => Coverage'
<1> SUFFICES ASSUME TypeInv, Coverage, [Next]_vars PROVE Coverage'
  OBVIOUS
<1>1. CASE UNCHANGED vars
  BY <1>1 DEF Coverage, Numbering, Scopes, WatermarkCovers, SinceCovers,
              BatchCovers, CoveredUpTo, vars, server, database, ingestLocals,
              history
<1> QED
  BY <1>1, EnvironmentCoverage, IngestCoverage, ReconcileCoverage,
     StopCoverage DEF Next, Work

\* However many runs overlap, wherever they stop and however often the
\* server renumbers: a message at or below the watermark of its namespace
\* has been stored, refreshed or counted as an error.
THEOREM NoMessageBelowWatermark == Spec => []NothingBelowWatermark
<1>1. TypeInv /\ Coverage => NothingBelowWatermark
  BY DEF Coverage, WatermarkCovers, CoveredUpTo, NothingBelowWatermark
<1> QED
  BY InitTypeInv, NextTypeInv, InitCoverage, NextCoverage, <1>1, PTL DEF Spec

-----------------------------------------------------------------------------
(* A card is pruned only when its message was gone                         *)

\* A run in progress has noted every message that is gone by now, and what
\* it is about to prune is among those.
AwayOK ==
    \A p \in Workers :
        /\ pc[p] \in Reconciling => Mids \ Present(inbox) \subseteq away[p]
        /\ pc[p] = "prune" => verdict[p].mid \in away[p]

LEMMA EnvironmentAway == TypeInv /\ AwayOK /\ Environment => AwayOK'
<1> SUFFICES ASSUME TypeInv, AwayOK, Environment PROVE AwayOK'
  OBVIOUS
<1> USE DEF TypeInv, TypeOK, AwayOK, Reconciling, Present, server,
        reconcileLocals
<1>1. ASSUME NEW m \in Mids, Deliver(m) PROVE AwayOK'
  BY <1>1 DEF Deliver
<1>2. ASSUME NEW m \in Mids, BoardRemove(m) PROVE AwayOK'
  BY <1>2 DEF BoardRemove
<1>3. ASSUME NEW m \in Mids, NEW u \in Uids, BoardRelocate(m, u) PROVE AwayOK'
  BY <1>3 DEF BoardRelocate
<1>4. ASSUME NEW e \in inbox, Leave(e) PROVE AwayOK'
  BY <1>4 DEF Leave
<1>5. ASSUME NEW f \in [inbox -> Uids], NEW n \in 1..MaxUid + 1, Renumber(f, n)
      PROVE AwayOK'
  <2>1. Present(inbox)' = Present(inbox)
    <3>1. inbox' = {[uid |-> f[e], mid |-> e.mid] : e \in inbox}
      BY <1>5 DEF Renumber
    <3>2. ASSUME NEW e \in inbox PROVE e.mid \in Present(inbox)'
      <4>1. [uid |-> f[e], mid |-> e.mid] \in inbox'
        BY <3>1
      <4> QED
        BY <4>1
    <3>3. ASSUME NEW d \in inbox' PROVE d.mid \in Present(inbox)
      BY <3>1
    <3> QED
      BY <3>2, <3>3
  <2> HIDE DEF Present
  <2> QED
    BY <1>5, <2>1 DEF Renumber
<1> QED
  BY <1>1, <1>2, <1>3, <1>4, <1>5 DEF Environment

LEMMA IngestAway ==
    ASSUME TypeInv, AwayOK, NEW p \in Workers, Ingest(p) PROVE AwayOK'
<1>1. /\ UNCHANGED <<inbox, away, verdict>>
      /\ \A q \in Workers \ {p} : pc'[q] = pc[q]
      /\ pc'[p] \notin Reconciling
  BY DEF TypeInv, TypeOK, Ingest, ReadValidity, GuardValidity, ResetWatermark,
         ReadWatermark, FetchNewMessages, ParseMessage, RefreshRecord,
         InsertRecord, UpdateWatermark, SetWatermark, PersistValidity,
         Reconciling, server, reconcileLocals
<1> QED
  BY <1>1 DEF AwayOK, Reconciling, Present

LEMMA ReconcileAway ==
    ASSUME "swallow" \notin FaultKinds, TypeInv, AwayOK, NEW p \in Workers,
           Reconcile(p)
    PROVE  AwayOK'
<1> USE DEF TypeInv, TypeOK, AwayOK, Reconciling, Present, server
<1>1. CASE TakeSnapshot(p)
  BY <1>1 DEF TakeSnapshot
<1>2. CASE PruneDrifted(p)
  BY <1>2 DEF PruneDrifted
<1>3. CASE VerifyUids(p)
  BY <1>3 DEF VerifyUids
<1>4. CASE ResolveMissing(p)
  <2>1. PICK r \in rows[p] :
            \/ pc' = [pc EXCEPT ![p] = "heal"]
            \/ /\ SourceFolderHits(r.mid) = {}
               /\ verdict' = [verdict EXCEPT ![p] =
                                 [mid |-> r.mid, uid |-> 0]]
               /\ pc' = [pc EXCEPT ![p] = "prune"]
            \/ UNCHANGED <<verdict, pc>>
    BY <1>4 DEF ResolveMissing, Fault
  <2>2. /\ UNCHANGED <<inbox, away>> /\ pc[p] = "resolve"
        /\ \A q \in Workers \ {p} : verdict'[q] = verdict[q]
    BY <1>4 DEF ResolveMissing
  <2>3. r.mid \in Mids
    BY DEF Rows
  <2>4. CASE /\ SourceFolderHits(r.mid) = {}
             /\ verdict' = [verdict EXCEPT ![p] = [mid |-> r.mid, uid |-> 0]]
             /\ pc' = [pc EXCEPT ![p] = "prune"]
    <3>1. r.mid \notin Present(inbox)
      BY <2>4, \A e \in inbox : e.mid = r.mid =>
                  e.uid \in SourceFolderHits(r.mid)
      DEF SourceFolderHits, UidsOf
    <3>2. r.mid \in away[p]
      BY <2>2, <2>3, <3>1
    <3> QED
      BY <2>2, <2>4, <3>2
  <2> QED
    BY <2>1, <2>2, <2>4
<1>5. CASE HealRecord(p)
  BY <1>5 DEF HealRecord
<1>6. CASE PruneRecord(p)
  BY <1>6 DEF PruneRecord
<1>7. CASE NextFolder(p)
  BY <1>7 DEF NextFolder, reconcileLocals
<1> QED
  BY <1>1, <1>2, <1>3, <1>4, <1>5, <1>6, <1>7 DEF Reconcile

LEMMA StopAway ==
    ASSUME TypeInv, AwayOK, NEW p \in Workers, Stop(p) PROVE AwayOK'
BY DEF TypeInv, TypeOK, AwayOK, Reconciling, Present, server, Stop

\* Provided a failed search of the source folder is not passed over (the one
\* hazard of cross_folder_resolve), reconciliation prunes a card only when
\* its message was gone from the monitored folder during that very run.
THEOREM PruningIsJustified ==
    ASSUME "swallow" \notin FaultKinds
    PROVE  Spec => []PruneJustified
<1>1. Init => AwayOK
  BY DEF Init, AwayOK, Reconciling
<1>2. TypeInv /\ AwayOK /\ [Next]_vars => AwayOK'
  <2> SUFFICES ASSUME TypeInv, AwayOK, [Next]_vars PROVE AwayOK'
    OBVIOUS
  <2>1. CASE UNCHANGED vars
    BY <2>1 DEF AwayOK, Present, vars, server, reconcileLocals
  <2> QED
    BY <2>1, EnvironmentAway, IngestAway, ReconcileAway, StopAway
    DEF Next, Work
<1>3. AwayOK => PruneJustified
  BY DEF AwayOK, PruneJustified
<1> QED
  BY InitTypeInv, NextTypeInv, <1>1, <1>2, <1>3, PTL DEF Spec

-----------------------------------------------------------------------------
(* A stored UID names the card's own message                               *)

\* No other message has, or will get, UID u in the current namespace.
Owns(m, u) == u < uidNext /\ \A e \in inbox : e.uid = u => e.mid = m

UniqueUids == \A d, e \in inbox : d.uid = e.uid => d = e

\* Wherever a worker or the database keeps a message and a UID together,
\* they belong together until the first renumbering.
PointersOK ==
    /\ UniqueUids
    /\ validity = 0 =>
           /\ \A m \in Mids :
                  (records[m] # None /\ records[m].folder = "monitored")
                      => Owns(m, records[m].uid)
           /\ \A p \in Workers : \A e \in batch[p] : Owns(e.mid, e.uid)
           /\ \A p \in Workers :
                  pc[p] = "heal" => Owns(verdict[p].mid, verdict[p].uid)

LEMMA EnvironmentPointers ==
    TypeInv /\ Numbering /\ PointersOK /\ Environment => PointersOK'
<1> SUFFICES ASSUME TypeInv, Numbering, PointersOK, Environment
             PROVE PointersOK'
  OBVIOUS
<1> USE DEF TypeInv, TypeOK, Numbering, PointersOK, UniqueUids, Owns, Entries,
        server, database, ingestLocals, reconcileLocals
<1>1. ASSUME NEW m \in Mids, Deliver(m) PROVE PointersOK'
  BY <1>1 DEF Deliver
<1>2. ASSUME NEW m \in Mids, BoardRemove(m) PROVE PointersOK'
  BY <1>2 DEF BoardRemove
<1>3. ASSUME NEW m \in Mids, NEW u \in Uids, BoardRelocate(m, u)
      PROVE PointersOK'
  BY <1>3 DEF BoardRelocate
<1>4. ASSUME NEW e \in inbox, Leave(e) PROVE PointersOK'
  BY <1>4 DEF Leave
<1>5. ASSUME NEW f \in [inbox -> Uids], NEW n \in 1..MaxUid + 1, Renumber(f, n)
      PROVE PointersOK'
  <2>1. validity' # 0
    BY <1>5 DEF Renumber
  <2>2. UniqueUids'
    BY <1>5 DEF Renumber
  <2> QED
    BY <2>1, <2>2
<1> QED
  BY <1>1, <1>2, <1>3, <1>4, <1>5 DEF Environment

LEMMA IngestPointers ==
    ASSUME TypeInv, Numbering, PointersOK, NEW p \in Workers, Ingest(p)
    PROVE  PointersOK'
<1> USE DEF TypeInv, TypeOK, PointersOK, UniqueUids, Owns, server, database,
        ingestLocals, reconcileLocals
<1>1. CASE ReadValidity(p)
  BY <1>1 DEF ReadValidity
<1>2. CASE GuardValidity(p)
  BY <1>2 DEF GuardValidity
<1>3. CASE ResetWatermark(p)
  BY <1>3 DEF ResetWatermark
<1>4. CASE ReadWatermark(p)
  BY <1>4 DEF ReadWatermark
<1>5. CASE FetchNewMessages(p)
  <2>1. /\ UNCHANGED <<inbox, uidNext, validity, records, verdict>>
        /\ batch' = [batch EXCEPT ![p] = Newer(inbox, since[p])]
        /\ \A q \in Workers : pc'[q] = "heal" => pc[q] = "heal"
    BY <1>5 DEF FetchNewMessages
  <2>2. \A e \in Newer(inbox, since[p]) : Owns(e.mid, e.uid)
    BY DEF Newer, Numbering
  <2> QED
    BY <2>1, <2>2
<1>6. CASE ParseMessage(p)
  BY <1>6 DEF ParseMessage, Handle
<1>7. CASE RefreshRecord(p)
  BY <1>7 DEF RefreshRecord, Refreshed, Stored, Handle, Entries
<1>8. CASE InsertRecord(p)
  BY <1>8 DEF InsertRecord, Stored, Handle, Entries
<1>9. CASE UpdateWatermark(p)
  BY <1>9 DEF UpdateWatermark, SetWatermark
<1>10. CASE PersistValidity(p)
  BY <1>10 DEF PersistValidity
<1> QED
  BY <1>1, <1>2, <1>3, <1>4, <1>5, <1>6, <1>7, <1>8, <1>9, <1>10 DEF Ingest

LEMMA ReconcilePointers ==
    ASSUME TypeInv, Numbering, PointersOK, NEW p \in Workers, Reconcile(p)
    PROVE  PointersOK'
<1> USE DEF TypeInv, TypeOK, LocalsOK, PointersOK, UniqueUids, Owns, server,
        database, ingestLocals
<1>1. CASE TakeSnapshot(p)
  BY <1>1 DEF TakeSnapshot
<1>2. CASE PruneDrifted(p)
  BY <1>2 DEF PruneDrifted, Pruned
<1>3. CASE VerifyUids(p)
  BY <1>3 DEF VerifyUids
<1>4. CASE ResolveMissing(p)
  <2>1. PICK r \in rows[p] :
            \/ \E u \in SourceFolderHits(r.mid) :
                  /\ verdict' = [verdict EXCEPT ![p] =
                                    [mid |-> r.mid, uid |-> u]]
                  /\ pc' = [pc EXCEPT ![p] = "heal"]
            \/ pc' = [pc EXCEPT ![p] = "prune"]
            \/ UNCHANGED <<verdict, pc>>
    BY <1>4 DEF ResolveMissing
  <2>2. /\ UNCHANGED <<inbox, uidNext, validity, records, batch>>
        /\ \A q \in Workers \ {p} : verdict'[q] = verdict[q]
    BY <1>4 DEF ResolveMissing
  <2>3. \A u \in SourceFolderHits(r.mid) : Owns(r.mid, u)
    BY DEF SourceFolderHits, UidsOf, Numbering
  <2>4. \A q \in Workers \ {p} : pc'[q] = pc[q]
    BY <2>1
  <2>5. ASSUME pc'[p] = "heal" PROVE Owns(verdict'[p].mid, verdict'[p].uid)
    <3>1. pc[p] = "resolve"
      BY <1>4 DEF ResolveMissing
    <3>2. PICK u \in SourceFolderHits(r.mid) :
              verdict' = [verdict EXCEPT ![p] = [mid |-> r.mid, uid |-> u]]
      BY <2>1, <2>5, <3>1
    <3>3. verdict'[p] = [mid |-> r.mid, uid |-> u]
      BY <3>2
    <3> QED
      BY <2>3, <3>3
  <2> QED
    BY <2>2, <2>3, <2>4, <2>5
<1>5. CASE HealRecord(p)
  BY <1>5 DEF HealRecord
<1>6. CASE PruneRecord(p)
  BY <1>6 DEF PruneRecord, Pruned
<1>7. CASE NextFolder(p)
  BY <1>7 DEF NextFolder, reconcileLocals
<1> QED
  BY <1>1, <1>2, <1>3, <1>4, <1>5, <1>6, <1>7 DEF Reconcile

LEMMA StopPointers ==
    ASSUME TypeInv, PointersOK, NEW p \in Workers, Stop(p) PROVE PointersOK'
BY DEF TypeInv, TypeOK, PointersOK, UniqueUids, Owns, server, database, Stop

LEMMA InitPointers == Init => PointersOK
BY DEF Init, PointersOK, UniqueUids

LEMMA NextPointers ==
    TypeInv /\ Coverage /\ PointersOK /\ [Next]_vars => PointersOK'
<1> SUFFICES ASSUME TypeInv, Numbering, PointersOK, [Next]_vars
             PROVE  PointersOK'
  BY DEF Coverage
<1>1. CASE UNCHANGED vars
  BY <1>1 DEF PointersOK, UniqueUids, Owns, vars, server, database,
              ingestLocals, reconcileLocals
<1> QED
  BY <1>1, EnvironmentPointers, IngestPointers, ReconcilePointers,
     StopPointers DEF Next, Work

\* Until the server's first renumbering, acting on the UID a card stores acts
\* on that card's message or on nothing, whatever runs were in flight.
THEOREM PointersAreOwn == Spec => []PointerNamesOwnMessage
<1>1. PointersOK => PointerNamesOwnMessage
  BY DEF PointersOK, Owns, PointerNamesOwnMessage
<1> QED
  BY InitTypeInv, NextTypeInv, InitCoverage, NextCoverage, InitPointers,
     NextPointers, <1>1, PTL DEF Spec

-----------------------------------------------------------------------------
(* The watermark steps back only under a cycle that was overtaken          *)

Selecting == {"process", "refresh", "insert"}

\* What a cycle has fetched lies beyond the watermark it has read.
Ahead ==
    \A p \in Workers :
        pc[p] \in Selecting /\ since[p] # None => top[p] > since[p]

LEMMA EnvironmentAhead == Ahead /\ Environment => Ahead'
BY DEF Ahead, Environment, Deliver, Leave, Renumber, BoardRemove,
       BoardRelocate, database, ingestLocals

LEMMA IngestAhead ==
    ASSUME TypeInv, Ahead, NEW p \in Workers, Ingest(p)
    PROVE  Ahead'
<1> USE DEF TypeInv, TypeOK, Ahead, Selecting, database, ingestLocals
<1>1. CASE ReadValidity(p)
  BY <1>1 DEF ReadValidity
<1>2. CASE GuardValidity(p)
  BY <1>2 DEF GuardValidity
<1>3. CASE ResetWatermark(p)
  BY <1>3 DEF ResetWatermark
<1>4. CASE ReadWatermark(p)
  BY <1>4 DEF ReadWatermark
<1>5. CASE FetchNewMessages(p)
  <2>1. \A q \in Workers \ {p} :
            pc'[q] = pc[q] /\ since'[q] = since[q] /\ top'[q] = top[q]
    BY <1>5 DEF FetchNewMessages
  <2>2. CASE pc' = [pc EXCEPT ![p] = "reconcile"]
    BY <2>1, <2>2
  <2>3. ASSUME NEW e \in Newer(inbox, since[p]),
               top' = [top EXCEPT ![p] = e.uid],
               pc' = [pc EXCEPT ![p] = "process"], UNCHANGED since
        PROVE  Ahead'
    <3>1. since[p] # None => e.uid > since[p]
      BY DEF Newer
    <3>2. top'[p] = e.uid /\ pc'[p] = "process"
      BY <2>3
    <3> QED
      BY <2>1, <2>3, <3>1, <3>2
  <2> QED
    BY <1>5, <2>2, <2>3 DEF FetchNewMessages
<1>6. CASE ParseMessage(p)
  <2>1. /\ UNCHANGED <<since, top>> /\ pc[p] = "process"
        /\ \A q \in Workers \ {p} : pc'[q] = pc[q]
        /\ pc'[p] \in Selecting
    BY <1>6 DEF ParseMessage
  <2> QED
    BY <2>1
<1>7. CASE RefreshRecord(p)
  BY <1>7 DEF RefreshRecord
<1>8. CASE InsertRecord(p)
  BY <1>8 DEF InsertRecord
<1>9. CASE UpdateWatermark(p)
  BY <1>9 DEF UpdateWatermark, SetWatermark
<1>10. CASE PersistValidity(p)
  BY <1>10 DEF PersistValidity
<1> QED
  BY <1>1, <1>2, <1>3, <1>4, <1>5, <1>6, <1>7, <1>8, <1>9, <1>10 DEF Ingest

LEMMA ReconcileAhead ==
    ASSUME TypeInv, Ahead, NEW p \in Workers, Reconcile(p) PROVE Ahead'
<1>1. /\ UNCHANGED <<since, top>>
      /\ \A q \in Workers \ {p} : pc'[q] = pc[q]
      /\ pc'[p] \notin Selecting
  BY DEF TypeInv, TypeOK, Reconcile, TakeSnapshot, PruneDrifted, VerifyUids,
         ResolveMissing, HealRecord, PruneRecord, NextFolder, database,
         ingestLocals, Selecting
<1> QED
  BY <1>1 DEF Ahead

LEMMA StopAhead ==
    ASSUME TypeInv, Ahead, NEW p \in Workers, Stop(p) PROVE Ahead'
BY DEF TypeInv, TypeOK, Ahead, Stop, Selecting

\* Only the two statements of a cycle touch the watermark.
LEMMA WatermarkWriters ==
    ASSUME [Next]_vars,
           ~ \E p \in Workers : ResetWatermark(p) \/ UpdateWatermark(p)
    PROVE  UNCHANGED watermark
<1>1. CASE UNCHANGED vars
  BY <1>1 DEF vars, database
<1>2. CASE Environment
  BY <1>2 DEF Environment, Deliver, Leave, Renumber, BoardRemove,
              BoardRelocate, database
<1>3. ASSUME NEW p \in Workers, Ingest(p) PROVE UNCHANGED watermark
  BY <1>3 DEF Ingest, ReadValidity, GuardValidity, ReadWatermark,
              FetchNewMessages, ParseMessage, RefreshRecord, InsertRecord,
              PersistValidity, database
<1>4. ASSUME NEW p \in Workers, Reconcile(p) PROVE UNCHANGED watermark
  BY <1>4 DEF Reconcile, TakeSnapshot, PruneDrifted, VerifyUids,
              ResolveMissing, HealRecord, PruneRecord, NextFolder, database
<1>5. ASSUME NEW p \in Workers, Stop(p) PROVE UNCHANGED watermark
  BY <1>5 DEF Stop, database
<1> QED
  BY <1>1, <1>2, <1>3, <1>4, <1>5 DEF Next, Work

LEMMA StepAdvances ==
    ASSUME TypeInv, Ahead, [Next]_vars,
           watermark # None, watermark' # None, watermark' < watermark
    PROVE  \E p \in Workers : /\ pc[p] = "process" /\ pc'[p] = "persist"
                             /\ since[p] # watermark
<1>1. ~UNCHANGED watermark
  BY DEF TypeInv, TypeOK
<1>2. ASSUME NEW p \in Workers, ResetWatermark(p) PROVE FALSE
  BY <1>2 DEF ResetWatermark
<1>3. PICK p \in Workers : UpdateWatermark(p)
  BY <1>1, <1>2, WatermarkWriters
<1>4. watermark' = top[p] /\ pc[p] = "process" /\ pc'[p] = "persist"
  BY <1>3 DEF TypeInv, TypeOK, UpdateWatermark, SetWatermark
<1>5. since[p] # watermark
  <2> SUFFICES ASSUME since[p] = watermark PROVE FALSE
    OBVIOUS
  <2> QED
    BY <1>4 DEF TypeInv, TypeOK, Ahead, Selecting
<1> QED
  BY <1>4, <1>5

\* Whatever runs beside it, overlaps, stops, fails or renumbers, the watermark
\* steps back only when a cycle writes its own that another has overtaken
\* since it read the watermark: set_watermark overwrites.
THEOREM WatermarkBackOnlyOvertaken == Spec => WatermarkAdvances
<1>1. Init => Ahead
  BY DEF Init, Ahead, Selecting
<1>2. TypeInv /\ Ahead /\ [Next]_vars => Ahead'
  <2> SUFFICES ASSUME TypeInv, Ahead, [Next]_vars PROVE Ahead'
    OBVIOUS
  <2>1. CASE UNCHANGED vars
    BY <2>1 DEF Ahead, vars, database, ingestLocals
  <2> QED
    BY <2>1, EnvironmentAhead, IngestAhead, ReconcileAhead, StopAhead
    DEF Next, Work
<1>3. TypeInv /\ Ahead /\ [Next]_vars
        => [(watermark # None /\ watermark' # None /\ watermark' < watermark)
               => \E p \in Workers : /\ pc[p] = "process" /\ pc'[p] = "persist"
                                   /\ since[p] # watermark]_vars
  BY StepAdvances
<1> QED
  BY InitTypeInv, NextTypeInv, <1>1, <1>2, <1>3, PTL
  DEF Spec, WatermarkAdvances

-----------------------------------------------------------------------------
(* What the watermark has passed is on the board                           *)

\* An ordinary mailbox: a message that has left the folder stays away, and no
\* Message-ID comes twice.
ComesOnce == ~Redelivery /\ "swallow" \notin FaultKinds

\* m was in the folder, and with ComesOnce it never is again.
Gone(m) == m \in delivered /\ m \notin Present(inbox)

\* Card m is there, or the message could not be parsed, or its INSERT failed
\* and was recorded as an error.
Accounted(m) == records[m] # None \/ m \in Unparseable \cup lost

\* Each message of the folder at or below the watermark of its namespace has
\* its card: nothing that the next `UID <wm>:*` skips is missing from the
\* board, whatever pruned, healed or removed cards meanwhile.
SkippedIsOnBoard ==
    \A e \in inbox :
        (watermark # None /\ scope = validity /\ e.uid <= watermark)
            => Accounted(e.mid)

\* Cards, snapshots and batches are of messages that did arrive; what is
\* noted as moved elsewhere, or about to be pruned, is gone.
Arrivals ==
    /\ Present(inbox) \subseteq delivered
    /\ \A m \in Mids : records[m] # None =>
           m \in delivered /\ (records[m].folder = "other" => Gone(m))
    /\ \A p \in Workers : \A e \in batch[p] : e.mid \in delivered
    /\ \A p \in Workers : \A r \in rows[p] :
           r.mid \in delivered /\ (r.folder = "other" => Gone(r.mid))
    /\ \A p \in Workers : pc[p] = "prune" => Gone(verdict[p].mid)

\* A UID handled in the current namespace has been handed out there, and so
\* has that of each message in a batch, to that message alone.
HandedOut ==
    /\ \A h \in handled :
           h[1] \in 0..validity /\ (h[1] = validity => h[2] < uidNext)
    /\ \A p \in Workers : batchScope[p] = validity =>
           \A e \in batch[p] : Owns(e.mid, e.uid)
    /\ \A p \in Workers : \A d, e \in batch[p] : d.uid = e.uid => d = e

\* A message is refreshed because it had a card; it still has, or is gone.
RefreshKnown ==
    \A p \in Workers : \A e \in batch[p] :
        pc[p] = "refresh" /\ IsNext(p, e) => records[e.mid] # None \/ Gone(e.mid)

HandledStays ==
    \A e \in inbox : <<validity, e.uid>> \in handled => Accounted(e.mid)

KeptInv == Arrivals /\ HandedOut /\ RefreshKnown /\ HandledStays

\* What is gone stays gone, and a card only goes with its message.
OnlyTheGone ==
    \A m \in Mids :
        /\ Gone(m) => Gone(m)'
        /\ records[m] # None => records'[m] # None \/ Gone(m)'

LEMMA InitKept == Init => KeptInv
BY DEF Init, KeptInv, Arrivals, HandedOut, RefreshKnown, HandledStays, Present

\* A step that hands nothing out and handles nothing, and drops cards only of
\* messages that are gone.
LEMMA KeptByTheRest ==
    ASSUME TypeInv, KeptInv, Arrivals', OnlyTheGone,
           UNCHANGED <<validity, handled, lost>>,
           inbox' \subseteq inbox, uidNext' = uidNext,
           \A p \in Workers :
               /\ batch'[p] \subseteq batch[p]
               /\ batchScope'[p] \in {batchScope[p], None}
               /\ pc'[p] = "refresh" => pc[p] = "refresh" /\ batch'[p] = batch[p]
    PROVE  KeptInv'
<1> USE DEF TypeInv, TypeOK, Entries
<1>1. HandedOut'
  BY DEF KeptInv, HandedOut, Owns
<1>2. RefreshKnown'
  <2> SUFFICES ASSUME NEW p \in Workers, NEW e \in batch[p],
                      pc[p] = "refresh", IsNext(p, e)
               PROVE  records'[e.mid] # None \/ Gone(e.mid)'
    BY DEF RefreshKnown, IsNext
  <2>1. e.mid \in Mids /\ (records[e.mid] # None \/ Gone(e.mid))
    BY DEF KeptInv, RefreshKnown
  <2> QED
    BY <2>1 DEF OnlyTheGone
<1>3. HandledStays'
  <2> SUFFICES ASSUME NEW e \in inbox', <<validity, e.uid>> \in handled
               PROVE  Accounted(e.mid)'
    BY DEF HandledStays
  <2>1. e \in inbox /\ e.mid \in Mids /\ Accounted(e.mid)
    BY DEF KeptInv, HandledStays
  <2>2. ~ Gone(e.mid)'
    BY DEF Gone, Present
  <2> QED
    BY <2>1, <2>2 DEF Accounted, OnlyTheGone
<1> QED
  BY <1>1, <1>2, <1>3 DEF KeptInv

\* Storing a row leaves no message without one.
LEMMA StoredRow ==
    ASSUME TypeInv, NEW p \in Workers, NEW e \in batch[p]
    PROVE  /\ Stored(p, e)[e.mid] # None
           /\ \A m \in Mids : records[m] # None => Stored(p, e)[m] # None
<1>1. e.mid \in Mids /\ e.uid \in Uids
  BY DEF TypeInv, TypeOK, Entries
<1>2. [folder |-> "monitored", uid |-> e.uid] # None
  BY <1>1, RowAssumption
<1> QED
  BY <1>1, <1>2 DEF Stored, TypeInv, TypeOK

\* Dealing with a message that then has its card, was an error or is gone.
LEMMA HandleKept ==
    ASSUME TypeInv, Coverage, KeptInv, Arrivals', OnlyTheGone, UNCHANGED server,
           UNCHANGED batchScope, lost \subseteq lost',
           NEW p \in Workers, NEW e \in batch[p], Handle(p, e),
           Accounted(e.mid)' \/ Gone(e.mid),
           pc' = [pc EXCEPT ![p] = "process"]
    PROVE  KeptInv'
<1> USE DEF TypeInv, TypeOK, Entries, server
<1>1. HandedOut'
  <2>1. \A q \in Workers : batch'[q] \subseteq batch[q]
    BY DEF Handle
  <2>2. handled' = IF batchScope[p] = None THEN handled
                   ELSE handled \cup {<<batchScope[p], e.uid>>}
    BY DEF Handle
  <2>3. batchScope[p] # None => batchScope[p] \in 0..validity
    BY DEF Coverage, Numbering, Scopes
  <2>4. ASSUME NEW h \in handled'
        PROVE  h[1] \in 0..validity /\ (h[1] = validity => h[2] < uidNext)
    <3>1. CASE h \in handled
      BY <3>1 DEF KeptInv, HandedOut
    <3>2. CASE batchScope[p] # None /\ h = <<batchScope[p], e.uid>>
      BY <2>3, <3>2 DEF KeptInv, HandedOut, Owns
    <3> QED
      BY <2>2, <3>1, <3>2
  <2>5. \A q \in Workers : batchScope[q] = validity =>
            \A d \in batch'[q] : Owns(d.mid, d.uid)
    BY <2>1 DEF KeptInv, HandedOut
  <2> QED
    BY <2>1, <2>4, <2>5 DEF KeptInv, HandedOut, Owns
<1>2. RefreshKnown'
  <2> SUFFICES ASSUME NEW q \in Workers \ {p}, NEW d \in batch[q],
                      pc[q] = "refresh", IsNext(q, d)
               PROVE  records'[d.mid] # None \/ Gone(d.mid)'
    BY DEF RefreshKnown, IsNext, Handle
  <2>1. d.mid \in Mids /\ (records[d.mid] # None \/ Gone(d.mid))
    BY DEF KeptInv, RefreshKnown
  <2> QED
    BY <2>1 DEF OnlyTheGone
<1>3. HandledStays'
  <2> SUFFICES ASSUME NEW d \in inbox, <<validity, d.uid>> \in handled'
               PROVE  Accounted(d.mid)'
    BY DEF HandledStays
  <2>1. d.mid \in Mids /\ ~ Gone(d.mid) /\ ~ Gone(d.mid)'
    BY DEF Gone, Present
  <2>2. CASE <<validity, d.uid>> \in handled
    <3>1. Accounted(d.mid)
      BY <2>2 DEF KeptInv, HandledStays
    <3> QED
      BY <2>1, <3>1 DEF Accounted, OnlyTheGone
  <2>3. CASE batchScope[p] = validity /\ d.uid = e.uid
    <3>1. d.mid = e.mid
      BY <2>3 DEF KeptInv, HandedOut, Owns
    <3> QED
      BY <2>1, <3>1
  <2> QED
    BY <2>2, <2>3 DEF Handle
<1> QED
  BY <1>1, <1>2, <1>3 DEF KeptInv

LEMMA EnvironmentKept ==
    ComesOnce /\ TypeInv /\ Coverage /\ KeptInv /\ Environment => KeptInv'
<1> SUFFICES ASSUME ComesOnce, TypeInv, Coverage, KeptInv, Environment
             PROVE  KeptInv'
  OBVIOUS
<1> USE DEF TypeInv, TypeOK, Entries, Rows, Present, Gone, server, database,
        ingestLocals, reconcileLocals, history
<1>1. ASSUME NEW m \in Mids, Deliver(m) PROVE KeptInv'
  <2>1. m \notin delivered /\ \A k \in Mids : Gone(k) => Gone(k)'
    BY <1>1 DEF Deliver, ComesOnce
  <2>2. Arrivals'
    BY <1>1, <2>1 DEF Deliver, KeptInv, Arrivals
  <2>3. HandedOut'
    BY <1>1 DEF Deliver, KeptInv, HandedOut, Owns
  <2>4. RefreshKnown'
    BY <1>1, <2>1 DEF Deliver, KeptInv, RefreshKnown, IsNext
  <2>5. HandledStays'
    BY <1>1 DEF Deliver, KeptInv, HandledStays, HandedOut, Accounted
  <2> QED
    BY <2>2, <2>3, <2>4, <2>5 DEF KeptInv
<1>2. ASSUME NEW m \in Mids, BoardRemove(m) PROVE KeptInv'
  <2>1. Gone(m)
    BY <1>2 DEF BoardRemove, KeptInv, Arrivals
  <2>2. OnlyTheGone /\ Arrivals'
    BY <1>2, <2>1 DEF BoardRemove, OnlyTheGone, KeptInv, Arrivals
  <2> QED
    BY <1>2, <2>2, KeptByTheRest DEF BoardRemove
<1>3. ASSUME NEW m \in Mids, NEW u \in Uids, BoardRelocate(m, u)
      PROVE  KeptInv'
  <2>1. Gone(m)
    BY <1>3 DEF BoardRelocate, KeptInv, Arrivals
  <2>2. OnlyTheGone /\ Arrivals'
    BY <1>3, <2>1 DEF BoardRelocate, OnlyTheGone, KeptInv, Arrivals
  <2> QED
    BY <1>3, <2>2, KeptByTheRest DEF BoardRelocate
<1>4. ASSUME NEW e \in inbox, Leave(e) PROVE KeptInv'
  <2>1. OnlyTheGone /\ Arrivals'
    BY <1>4 DEF Leave, OnlyTheGone, KeptInv, Arrivals
  <2> QED
    BY <1>4, <2>1, KeptByTheRest DEF Leave
<1>5. ASSUME NEW f \in [inbox -> Uids], NEW n \in 1..MaxUid + 1, Renumber(f, n)
      PROVE  KeptInv'
  <2>1. Present(inbox)' = Present(inbox)
    <3>1. inbox' = {[uid |-> f[e], mid |-> e.mid] : e \in inbox}
      BY <1>5 DEF Renumber
    <3>2. ASSUME NEW e \in inbox PROVE e.mid \in Present(inbox)'
      <4>1. [uid |-> f[e], mid |-> e.mid] \in inbox'
        BY <3>1
      <4> QED
        BY <4>1
    <3>3. ASSUME NEW d \in inbox' PROVE d.mid \in Present(inbox)
      BY <3>1
    <3> QED
      BY <3>2, <3>3
  <2> HIDE DEF Present
  <2>2. Arrivals' /\ \A k \in Mids : Gone(k)' = Gone(k)
    BY <1>5, <2>1 DEF Renumber, KeptInv, Arrivals
  <2>3. HandedOut'
    BY <1>5 DEF Renumber, KeptInv, HandedOut, Coverage, Numbering, Scopes
  <2>4. RefreshKnown'
    BY <1>5, <2>2 DEF Renumber, KeptInv, RefreshKnown, IsNext
  <2>5. HandledStays'
    BY <1>5 DEF Renumber, KeptInv, HandledStays, HandedOut
  <2> QED
    BY <2>2, <2>3, <2>4, <2>5 DEF KeptInv
<1> QED
  BY <1>1, <1>2, <1>3, <1>4, <1>5 DEF Environment

LEMMA IngestKept ==
    ASSUME TypeInv, Coverage, UniqueUids, KeptInv, NEW p \in Workers, Ingest(p)
    PROVE  KeptInv'
<1> USE DEF TypeInv, TypeOK, Entries, Rows
<1>1. /\ UNCHANGED <<server, rows, verdict>>
      /\ lost \subseteq lost'
      /\ \A q \in Workers : pc'[q] = "prune" => pc[q] = "prune"
  BY DEF Ingest, ReadValidity, GuardValidity, ResetWatermark, ReadWatermark,
         FetchNewMessages, ParseMessage, RefreshRecord, InsertRecord,
         UpdateWatermark, SetWatermark, PersistValidity, reconcileLocals,
         history
<1>2. /\ UNCHANGED <<inbox, uidNext, validity, delivered>>
      /\ Present(inbox)' = Present(inbox)
      /\ \A m : Gone(m)' = Gone(m)
  BY <1>1 DEF Gone, Present, server
<1>0. ASSUME \A q \in Workers : \A e \in batch'[q] : e.mid \in delivered,
             \A m \in Mids : records'[m] # None =>
                 m \in delivered /\ (records'[m].folder = "other" => Gone(m))
      PROVE  Arrivals'
  BY <1>0, <1>1, <1>2 DEF KeptInv, Arrivals
\* What a step without a change of batch and rows keeps.
<1>3. ASSUME UNCHANGED <<batch, records, handled, lost>>,
             \A q \in Workers : batchScope'[q] \in {batchScope[q], None},
             pc'[p] # "refresh", \A q \in Workers \ {p} : pc'[q] = pc[q]
      PROVE  KeptInv'
  <2>1. OnlyTheGone /\ Arrivals'
    BY <1>0, <1>2, <1>3 DEF OnlyTheGone, KeptInv, Arrivals
  <2> QED
    BY <1>1, <1>3, <2>1, KeptByTheRest DEF server
\* What a step that deals with message e keeps.
<1>4. ASSUME NEW e \in batch[p], Handle(p, e),
             Accounted(e.mid)' \/ Gone(e.mid), UNCHANGED batchScope,
             pc' = [pc EXCEPT ![p] = "process"],
             records' \in {records, Stored(p, e)}
      PROVE  KeptInv'
  <2>1. e.mid \in Mids /\ e.mid \in delivered
    BY DEF KeptInv, Arrivals
  <2>2. OnlyTheGone
    <3>1. \A m \in Mids : records[m] # None => records'[m] # None
      BY <1>4, StoredRow
    <3> QED
      BY <1>2, <3>1 DEF OnlyTheGone
  <2>3. \A q \in Workers : batch'[q] \subseteq batch[q]
    BY <1>4 DEF Handle
  <2>4. \A m \in Mids : records'[m] # None =>
            m \in delivered /\ (records'[m].folder = "other" => Gone(m))
    BY <1>4, <2>1 DEF Stored, KeptInv, Arrivals
  <2>5. Arrivals'
    BY <1>0, <2>3, <2>4 DEF KeptInv, Arrivals
  <2> QED
    BY <1>1, <1>4, <2>2, <2>5, HandleKept
<1>5. CASE ReadValidity(p)
  BY <1>5, <1>3 DEF ReadValidity, database, history
<1>6. CASE GuardValidity(p)
  BY <1>6, <1>3 DEF GuardValidity, database, ingestLocals, history
<1>7. CASE ResetWatermark(p)
  BY <1>7, <1>3 DEF ResetWatermark, ingestLocals, history
<1>8. CASE ReadWatermark(p)
  BY <1>8, <1>3 DEF ReadWatermark, database, history
<1>9. CASE FetchNewMessages(p)
  <2>1. /\ batch' = [batch EXCEPT ![p] = Newer(inbox, since[p])]
        /\ UNCHANGED <<records, handled, lost, inbox, uidNext, validity>>
        /\ pc'[p] # "refresh"
        /\ \A q \in Workers \ {p} : pc'[q] = pc[q]
        /\ \A q \in Workers \ {p} : batchScope'[q] = batchScope[q]
    <3>1. \/ pc' = [pc EXCEPT ![p] = "reconcile"] /\ UNCHANGED batchScope
          \/ /\ pc' = [pc EXCEPT ![p] = "process"]
             /\ batchScope' = [batchScope EXCEPT ![p] =
                    IF since[p] = None \/ sinceScope[p] = validity
                    THEN validity ELSE None]
      BY <1>9 DEF FetchNewMessages
    <3>2. /\ batch' = [batch EXCEPT ![p] = Newer(inbox, since[p])]
          /\ UNCHANGED <<records, handled, lost>>
      BY <1>9 DEF FetchNewMessages, database, history
    <3>3. CASE pc' = [pc EXCEPT ![p] = "reconcile"] /\ UNCHANGED batchScope
      BY <1>2, <3>2, <3>3
    <3>4. CASE /\ pc' = [pc EXCEPT ![p] = "process"]
               /\ batchScope' = [batchScope EXCEPT ![p] =
                      IF since[p] = None \/ sinceScope[p] = validity
                      THEN validity ELSE None]
      BY <1>2, <3>2, <3>4
    <3> QED
      BY <3>1, <3>3, <3>4
  <2>2. Newer(inbox, since[p]) \subseteq inbox
    BY DEF Newer
  <2>3. Arrivals'
    BY <1>0, <2>1, <2>2 DEF KeptInv, Arrivals, Present
  <2>4. \A e \in inbox : Owns(e.mid, e.uid)
    BY DEF Owns, Coverage, Numbering, UniqueUids
  <2>5. HandedOut'
    <3> HIDE DEF Newer
    <3> QED
      BY <2>1, <2>2, <2>4 DEF KeptInv, HandedOut, UniqueUids, Owns
  <2>6. RefreshKnown'
    <3> SUFFICES ASSUME NEW q \in Workers \ {p}, NEW d \in batch[q],
                        pc[q] = "refresh", IsNext(q, d)
                 PROVE  records[d.mid] # None \/ Gone(d.mid)'
      BY <2>1 DEF RefreshKnown, IsNext
    <3> QED
      BY <1>2 DEF KeptInv, RefreshKnown
  <2>7. HandledStays'
    BY <2>1 DEF KeptInv, HandledStays, Accounted
  <2> QED
    BY <2>3, <2>5, <2>6, <2>7 DEF KeptInv
<1>10. CASE ParseMessage(p)
  <2>1. PICK e \in batch[p] :
            /\ IsNext(p, e)
            /\ \/ e.mid \in Unparseable /\ Handle(p, e) /\ UNCHANGED pc
               \/ /\ pc' = [pc EXCEPT ![p] = IF records[e.mid] # None
                                             THEN "refresh" ELSE "insert"]
                  /\ UNCHANGED <<batch, handled>>
    BY <1>10 DEF ParseMessage
  <2>2. UNCHANGED <<records, batchScope, lost>> /\ pc[p] = "process"
    BY <1>10 DEF ParseMessage, database
  <2>3. CASE e.mid \in Unparseable /\ Handle(p, e) /\ UNCHANGED pc
    <3>1. pc' = [pc EXCEPT ![p] = "process"] /\ Accounted(e.mid)'
      BY <2>2, <2>3 DEF Accounted
    <3> QED
      BY <1>4, <2>2, <2>3, <3>1
  <2>4. CASE /\ pc' = [pc EXCEPT ![p] = IF records[e.mid] # None
                                        THEN "refresh" ELSE "insert"]
             /\ UNCHANGED <<batch, handled>>
    <3>1. Arrivals' /\ HandedOut' /\ HandledStays'
      BY <1>0, <1>2, <2>2, <2>4 DEF KeptInv, Arrivals, HandedOut, Owns,
                                    HandledStays, Accounted
    <3>2. RefreshKnown'
      <4> SUFFICES ASSUME NEW q \in Workers, NEW d \in batch[q],
                          pc'[q] = "refresh", IsNext(q, d)
                   PROVE  records[d.mid] # None \/ Gone(d.mid)'
        BY <2>2, <2>4 DEF RefreshKnown, IsNext
      <4>1. CASE q # p
        BY <1>2, <2>4, <4>1 DEF KeptInv, RefreshKnown
      <4>2. CASE q = p
        <5>1. d = e
          <6>1. d.uid = e.uid
            <7>1. d.uid <= e.uid /\ e.uid <= d.uid
              BY <2>1, <4>2 DEF IsNext, IsLowest
            <7>2. d.uid \in Uids /\ e.uid \in Uids
              BY <4>2
            <7> QED
              BY <7>1, <7>2
          <6> QED
            BY <4>2, <6>1 DEF KeptInv, HandedOut
        <5> QED
          BY <2>4, <4>2, <5>1
      <4> QED
        BY <4>1, <4>2
    <3> QED
      BY <3>1, <3>2 DEF KeptInv
  <2> QED
    BY <2>1, <2>3, <2>4
<1>11. CASE RefreshRecord(p)
  <2>1. PICK e \in batch[p] :
            IsNext(p, e) /\ records' = Refreshed(p, e) /\ Handle(p, e)
    BY <1>11 DEF RefreshRecord
  <2>2. /\ pc' = [pc EXCEPT ![p] = "process"] /\ pc[p] = "refresh"
        /\ UNCHANGED batchScope
    BY <1>11 DEF RefreshRecord
  <2>3. records[e.mid] # None \/ Gone(e.mid)
    BY <2>1, <2>2 DEF KeptInv, RefreshKnown
  <2>4. CASE records[e.mid] = None
    BY <1>4, <2>1, <2>2, <2>3, <2>4 DEF Refreshed
  <2>5. CASE records[e.mid] # None
    <3>1. records' = Stored(p, e)
      BY <2>1, <2>5 DEF Refreshed
    <3>2. records'[e.mid] # None
      BY <3>1, StoredRow
    <3> QED
      BY <1>4, <2>1, <2>2, <3>1, <3>2 DEF Accounted
  <2> QED
    BY <2>4, <2>5
<1>12. CASE InsertRecord(p)
  <2>1. PICK e \in batch[p] :
            /\ Handle(p, e)
            /\ \/ records' = IF records[e.mid] # None THEN records
                                                      ELSE Stored(p, e)
               \/ lost' = lost \cup {e.mid} /\ UNCHANGED records
    BY <1>12 DEF InsertRecord
  <2>2. pc' = [pc EXCEPT ![p] = "process"] /\ UNCHANGED batchScope
    BY <1>12 DEF InsertRecord
  <2>3. records' \in {records, Stored(p, e)}
    BY <2>1
  <2>4. Accounted(e.mid)'
    <3>1. Stored(p, e)[e.mid] # None
      BY StoredRow
    <3> QED
      BY <2>1, <3>1 DEF Accounted
  <2> QED
    BY <1>4, <2>1, <2>2, <2>3, <2>4
<1>13. CASE UpdateWatermark(p)
  BY <1>13, <1>3 DEF UpdateWatermark, SetWatermark, history
<1>14. CASE PersistValidity(p)
  BY <1>14, <1>3 DEF PersistValidity, history
<1> QED
  BY <1>5, <1>6, <1>7, <1>8, <1>9, <1>10, <1>11, <1>12, <1>13, <1>14 DEF Ingest

LEMMA ReconcileKept ==
    ASSUME ComesOnce, TypeInv, KeptInv, NEW p \in Workers, Reconcile(p)
    PROVE  KeptInv'
<1> USE DEF TypeInv, TypeOK, Entries, Rows
<1>1. /\ UNCHANGED <<inbox, uidNext, validity, delivered, batch, batchScope,
                     handled, lost>>
      /\ \A q \in Workers \ {p} : UNCHANGED <<pc[q], rows[q], verdict[q]>>
      /\ pc'[p] # "refresh"
  BY DEF Reconcile, TakeSnapshot, PruneDrifted, VerifyUids, ResolveMissing,
         HealRecord, PruneRecord, NextFolder, server, ingestLocals,
         reconcileLocals, history
<1>2. Present(inbox)' = Present(inbox) /\ \A m : Gone(m)' = Gone(m)
  BY <1>1 DEF Gone, Present
\* What the rows, the verdict and the table must satisfy after the step.
<1>3. ASSUME \A r \in rows'[p] :
                 r.mid \in delivered /\ (r.folder = "other" => Gone(r.mid)),
             pc'[p] = "prune" => Gone(verdict'[p].mid),
             \A m \in Mids :
                 /\ records'[m] # None => records[m] # None
                        /\ (records'[m].folder = "other" => Gone(m))
                 /\ records[m] # None => records'[m] # None \/ Gone(m)
      PROVE  KeptInv'
  <2>1. OnlyTheGone
    BY <1>2, <1>3 DEF OnlyTheGone
  <2>2. Arrivals'
    BY <1>1, <1>2, <1>3 DEF KeptInv, Arrivals
  <2> QED
    BY <1>1, <2>1, <2>2, KeptByTheRest
\* What holds before it.
<1>4. /\ \A r \in rows[p] :
             r.mid \in delivered /\ (r.folder = "other" => Gone(r.mid))
      /\ pc[p] = "prune" => Gone(verdict[p].mid)
      /\ \A m \in Mids : records[m] # None =>
             m \in delivered /\ (records[m].folder = "other" => Gone(m))
  BY DEF KeptInv, Arrivals
<1>5. CASE TakeSnapshot(p)
  <2>1. PICK S \in Snapshots(records) :
            /\ rows' = [rows EXCEPT ![p] = S]
            /\ pc' = [pc EXCEPT ![p] = IF S = {} THEN "idle" ELSE "verify"]
    BY <1>5 DEF TakeSnapshot
  <2>2. \A r \in S : r.mid \in Mids /\ records[r.mid] # None
                     /\ r.folder = records[r.mid].folder
    BY DEF Snapshots
  <2>3. UNCHANGED records
    BY <1>5 DEF TakeSnapshot, database
  <2> QED
    BY <1>3, <1>4, <2>1, <2>2, <2>3
<1>6. CASE PruneDrifted(p)
  <2>1. PICK r \in rows[p] : /\ r.folder # "monitored"
                             /\ records' = Pruned(r.mid)
                             /\ rows' = [rows EXCEPT ![p] = @ \ {r}]
    BY <1>6 DEF PruneDrifted
  <2>2. r.mid \in Mids /\ Gone(r.mid)
    BY <1>4, <2>1
  <2>3. UNCHANGED <<pc, verdict>>
    BY <1>6 DEF PruneDrifted
  <2> QED
    BY <1>3, <1>4, <2>1, <2>2, <2>3 DEF Pruned
<1>7. CASE VerifyUids(p)
  <2>1. rows'[p] \subseteq rows[p] /\ pc'[p] # "prune" /\ UNCHANGED records
    BY <1>7 DEF VerifyUids, database
  <2> QED
    BY <1>3, <1>4, <2>1
<1>8. CASE ResolveMissing(p)
  <2>1. PICK r \in rows[p] :
            /\ rows' = [rows EXCEPT ![p] = @ \ {r}]
            /\ \/ pc' = [pc EXCEPT ![p] = "heal"]
               \/ /\ SourceFolderHits(r.mid) = {}
                  /\ verdict' = [verdict EXCEPT ![p] =
                                    [mid |-> r.mid, uid |-> 0]]
                  /\ pc' = [pc EXCEPT ![p] = "prune"]
               \/ UNCHANGED <<verdict, pc>>
    BY <1>8 DEF ResolveMissing, Fault, ComesOnce
  <2>2. UNCHANGED records
    BY <1>8 DEF ResolveMissing, database
  <2>3. ASSUME SourceFolderHits(r.mid) = {} PROVE Gone(r.mid)
    BY <1>4, <2>3, \A e \in inbox : e.mid = r.mid =>
                       e.uid \in SourceFolderHits(r.mid)
    DEF SourceFolderHits, UidsOf, Gone, Present
  <2>4. pc'[p] = "prune" => Gone(verdict'[p].mid)
    <3>1. pc[p] = "resolve"
      BY <1>8 DEF ResolveMissing
    <3> QED
      BY <2>1, <2>3, <3>1
  <2> QED
    BY <1>3, <1>4, <2>1, <2>2, <2>4
<1>9. CASE HealRecord(p)
  <2>1. /\ records' = IF records[verdict[p].mid] = None THEN records
                      ELSE [records EXCEPT ![verdict[p].mid] =
                               [folder |-> "monitored",
                                uid |-> verdict[p].uid]]
        /\ UNCHANGED rows /\ pc' = [pc EXCEPT ![p] = "resolve"]
        /\ pc[p] = "heal"
    BY <1>9 DEF HealRecord
  <2>2. verdict[p].uid \in Uids
    BY <2>1 DEF LocalsOK
  <2>3. [folder |-> "monitored", uid |-> verdict[p].uid] # None
    BY <2>2, RowAssumption
  <2> QED
    BY <1>3, <1>4, <2>1, <2>3
<1>10. CASE PruneRecord(p)
  <2>1. /\ records' = Pruned(verdict[p].mid) /\ UNCHANGED rows
        /\ pc' = [pc EXCEPT ![p] = "resolve"] /\ pc[p] = "prune"
    BY <1>10 DEF PruneRecord
  <2> QED
    BY <1>3, <1>4, <2>1 DEF Pruned
<1>11. CASE NextFolder(p)
  <2>1. UNCHANGED <<records, rows>> /\ pc'[p] # "prune"
    BY <1>11 DEF NextFolder, database, reconcileLocals
  <2> QED
    BY <1>3, <1>4, <2>1
<1> QED
  BY <1>5, <1>6, <1>7, <1>8, <1>9, <1>10, <1>11 DEF Reconcile

LEMMA StopKept ==
    ASSUME TypeInv, KeptInv, NEW p \in Workers, Stop(p) PROVE KeptInv'
<1> USE DEF TypeInv, TypeOK
<1>1. UNCHANGED <<server, records, handled, lost>>
  BY DEF Stop, database, history
<1>2. OnlyTheGone
  BY <1>1 DEF OnlyTheGone, Gone, Present, server
<1>3. Arrivals'
  BY <1>1 DEF Stop, KeptInv, Arrivals, Gone, Present, server
<1> QED
  BY <1>1, <1>2, <1>3, KeptByTheRest DEF Stop, server

\* In an ordinary mailbox no message is missing from the board behind the
\* watermark's back: however ingestion, reconciliation and card actions
\* interleave, stop or fail, what the next fetch skips has its card, was
\* counted as unparseable, or is one whose INSERT failed.
THEOREM WhatIsSkippedIsOnBoard ==
    ASSUME ComesOnce PROVE Spec => []SkippedIsOnBoard
<1>1. TypeInv /\ Coverage /\ PointersOK /\ KeptInv /\ [Next]_vars => KeptInv'
  <2> SUFFICES ASSUME TypeInv, Coverage, UniqueUids, KeptInv, [Next]_vars
               PROVE  KeptInv'
    BY DEF PointersOK
  <2>1. CASE UNCHANGED vars
    BY <2>1 DEF KeptInv, Arrivals, HandedOut, RefreshKnown, HandledStays, Owns,
                IsNext, Gone, Accounted, Present, vars, server, database,
                ingestLocals, reconcileLocals, history
  <2> QED
    BY <2>1, EnvironmentKept, IngestKept, ReconcileKept, StopKept
    DEF Next, Work
<1>2. TypeInv /\ Coverage /\ KeptInv => SkippedIsOnBoard
  BY DEF Coverage, WatermarkCovers, CoveredUpTo, KeptInv, HandledStays,
         SkippedIsOnBoard
<1> QED
  BY InitTypeInv, NextTypeInv, InitCoverage, NextCoverage, InitPointers,
     NextPointers, InitKept, <1>1, <1>2, PTL DEF Spec
=============================================================================
