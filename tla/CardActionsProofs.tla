-------------------------- MODULE CardActionsProofs --------------------------
(* Types, and the two promises of deletes and archives, for any number of  *)
(* request threads, batch workers, messages and moves of the mail client.  *)
EXTENDS CardActions, FiniteSetTheorems, TLAPS

-----------------------------------------------------------------------------
(* What a worker holds at each of its steps.                               *)

AtCard == {"resolve", "scan", "note", "verify", "copy", "reverify", "store",
           "expunge", "drop"}
AtChunk == {"filter", "batchcopy", "refilter", "batchstore", "batchexpunge",
            "settle"}

Work(w) == resolved[w] \cup chunk[w]

Held(w) ==
    /\ pc[w] \in AtCard => mid[w] \in Mids /\ place[w] \in Places
    /\ pc[w] # "idle" => op[w] \in Ops
    /\ pc[w] \in AtChunk \/ Work(w) # {} => source[w] \in Folders
    /\ w \in Batches /\ pc[w] \in AtCard => source[w] \in Folders
    /\ pc[w] # "scan" => scanned[w] = {}
    /\ pc[w] = "idle" => rows[w] = {} /\ resolved[w] = {}

ServerTypes ==
    /\ box \in [Folders -> SUBSET Entries]
    /\ uidNext \in [Folders -> 1..MaxUid + 1]
    /\ flagged \subseteq Folders \X Uids

LocalTypes ==
    /\ pc \in [Workers -> Labels]
    /\ op \in [Workers -> Ops \cup {None}]
    /\ mid \in [Workers -> Mids \cup {None}]
    /\ place \in [Workers -> Places \cup {None}]
    /\ scanned \in [Workers -> SUBSET Folders]
    /\ retry \in [Workers -> BOOLEAN]
    /\ source \in [Workers -> Folders \cup {None}]
    /\ rows \in [Workers -> SUBSET Rows]
    /\ resolved \in [Workers -> SUBSET [mid : Mids, uid : Uids \cup {0}]]
    /\ chunk \in [Workers -> SUBSET [mid : Mids, uid : Uids \cup {0}]]
    /\ uids \in [Workers -> SUBSET Uids]
    /\ dropping \in [Workers -> SUBSET Mids]

CardTypes ==
    /\ cards \in [Mids -> Places \cup {None}]
    /\ decision \in [Mids -> {"TO_DELETE", "TO_ARCHIVE"}]

HistoryTypes ==
    /\ requests \in 0..MaxRequests /\ faults \in 0..MaxFaults
    /\ moves \in 0..MaxMoves /\ renumbers \in 0..MaxRenumbers
    /\ asked \subseteq Mids
    /\ gone \in [Workers -> SUBSET (Folders \X Mids)]

LEMMA TypesAre ==
    /\ TypeOK <=> ServerTypes /\ LocalTypes /\ CardTypes /\ HistoryTypes
    /\ TypeOK' <=> ServerTypes' /\ LocalTypes' /\ CardTypes' /\ HistoryTypes'
  BY DEF TypeOK, ServerTypes, LocalTypes, CardTypes, HistoryTypes

LEMMA LabelsAre ==
    /\ Labels = {"idle", "rows"} \cup AtCard \cup AtChunk
    /\ "idle" \notin AtCard /\ "rows" \notin AtCard
    /\ "idle" \notin AtChunk /\ "rows" \notin AtChunk
    /\ AtCard \cap AtChunk = {}
  BY DEF Labels, AtCard, AtChunk

\* There are finitely many messages, wherever they are.
LEMMA EntriesFinite == \A S \in SUBSET Entries : IsFiniteSet(S)
<1> DEFINE f == [p \in Uids \X Mids |-> [uid |-> p[1], mid |-> p[2]]]
<1>1. IsFiniteSet(Uids \X Mids)
  <2>1. IsFiniteSet(Uids)
    BY CardActionsAssumption, FS_Interval DEF Uids
  <2> QED BY <2>1, CardActionsAssumption, FS_Product
<1>2. f \in Surjection(Uids \X Mids, Entries)
  <2>1. f \in [Uids \X Mids -> Entries]
    BY DEF Entries
  <2>2. ASSUME NEW e \in Entries PROVE \E p \in Uids \X Mids : f[p] = e
    <3>1. <<e.uid, e.mid>> \in Uids \X Mids /\ f[<<e.uid, e.mid>>] = e
      BY DEF Entries
    <3> QED BY <3>1
  <2> QED BY <2>1, <2>2 DEF Surjection
<1>3. IsFiniteSet(Entries)
  BY <1>1, <1>2, FS_Surjection
<1> QED BY <1>3, FS_Subset

-----------------------------------------------------------------------------
(* The server: what each command does to the folders.                      *)

\* A UID is handed out once; no two messages of a folder have the same.
Numbered ==
    /\ \A f \in Folders : \A e \in box[f] : e.uid < uidNext[f]
    /\ \A f \in Folders : \A d, e \in box[f] : d.uid = e.uid => d = e
    /\ \A x \in flagged : x[2] < uidNext[x[1]]

\* What any step leaves true of the server ...
Evolves ==
    /\ Numbered'
    /\ \A f \in Folders : uidNext[f] <= uidNext[f]'
    /\ \A f \in Folders : \A e \in box[f]' : e \in box[f] \/ e.uid >= uidNext[f]
    /\ \A f \in Folders, u \in Uids :
          <<f, u>> \in flagged /\ Holds(f, u)' => <<f, u>> \in flagged'

\* ... and of the history of the workers that are busy.
Noted(w) ==
    pc[w] # "idle" =>
        /\ gone[w] \subseteq gone'[w]
        /\ Apart(box) \subseteq gone[w] => Apart(box') \subseteq gone'[w]
        /\ \A f \in Folders : \A e \in box[f] \ box'[f] : <<f, e.mid>> \in gone'[w]

LEMMA NoteNotes ==
    ASSUME NEW w \in Workers, Note(box'), HistoryTypes
    PROVE  Noted(w)
<1>1. ASSUME NEW f \in Folders, NEW e \in box[f] \ box'[f]
      PROVE  <<f, e.mid>> \in Taken(box, box')
  BY DEF Taken
<1> QED BY <1>1 DEF Note, Noted, HistoryTypes

LEMMA NoteTypes ==
    ASSUME ServerTypes, ServerTypes', HistoryTypes, Note(box')
    PROVE  gone' \in [Workers -> SUBSET (Folders \X Mids)]
<1>1. Apart(box') \subseteq Folders \X Mids
  BY DEF Apart
<1>2. Taken(box, box') \subseteq Folders \X Mids
  BY DEF Taken, ServerTypes, Entries
<1> QED BY <1>1, <1>2 DEF Note, HistoryTypes

\* The server is as it was.
LEMMA ServerRests ==
    ASSUME ServerTypes, Numbered, UNCHANGED server
    PROVE  Evolves
  BY DEF Numbered, Evolves, server, Holds, ServerTypes

\* EXPUNGE takes what is flagged in the folder, and only that.
LEMMA ExpungeEvolves ==
    ASSUME ServerTypes, Numbered, NEW f \in Folders, Expunge(f), UNCHANGED uidNext
    PROVE  /\ ServerTypes' /\ Evolves /\ Note(box')
           /\ \A g \in Folders : \A e \in box[g] :
                 <<g, e.uid>> \notin flagged => e \in box'[g]
           /\ \A e \in box[f] : <<f, e.uid>> \in flagged => e \notin box'[f]
           /\ flagged' \subseteq flagged
<1>1. /\ box' = [box EXCEPT ![f] = {e \in @ : <<f, e.uid>> \notin flagged}]
      /\ flagged' = {x \in flagged : x[1] # f}
      /\ Note(box')
  BY DEF Expunge
<1>2. box'[f] = {e \in box[f] : <<f, e.uid>> \notin flagged}
      /\ \A g \in Folders \ {f} : box'[g] = box[g]
  BY <1>1 DEF ServerTypes
<1>3. ServerTypes'
  BY <1>1, <1>2 DEF ServerTypes
<1>4. Numbered'
  BY <1>1, <1>2 DEF Numbered, ServerTypes
<1>5. ASSUME NEW g \in Folders, NEW u \in Uids, <<g, u>> \in flagged, Holds(g, u)'
      PROVE  <<g, u>> \in flagged'
  BY <1>1, <1>2, <1>5 DEF Holds
<1> QED BY <1>1, <1>2, <1>3, <1>4, <1>5 DEF Evolves, ServerTypes

\* UID STORE marks the messages that are there.
LEMMA FlagEvolves ==
    ASSUME ServerTypes, Numbered, NEW f \in Folders, NEW us \in SUBSET Uids,
           Flag(f, us), UNCHANGED <<box, uidNext>>
    PROVE  ServerTypes' /\ Evolves
<1>1. flagged' = flagged \cup {<<f, u>> : u \in {v \in us : Holds(f, v)}}
  BY DEF Flag
<1>2. ServerTypes'
  BY <1>1 DEF ServerTypes
<1>3. \A x \in flagged' : x[2] < uidNext[x[1]]
  BY <1>1 DEF Numbered, Holds
<1> QED BY <1>1, <1>2, <1>3 DEF Evolves, Numbered, ServerTypes

\* UID COPY appends a message for each it copies, and changes no other.
LEMMA CopyEvolves ==
    ASSUME ServerTypes, Numbered, NEW f \in Folders, NEW us \in SUBSET Uids,
           Copy(f, us), UNCHANGED flagged
    PROVE  /\ ServerTypes' /\ Evolves /\ Note(box')
           /\ \A g \in Folders : box[g] \subseteq box'[g]
           /\ \A e \in box[f] : e.uid \in us =>
                 \E d \in box'["archive"] :
                    d.mid = e.mid /\ d.uid >= uidNext["archive"]
<1> DEFINE copied == {e \in box[f] : e.uid \in us}
           below(e) == {d \in copied : d.uid < e.uid}
           rank(e) == Cardinality(below(e))
           fresh(e) == [uid |-> uidNext["archive"] + rank(e), mid |-> e.mid]
           n == uidNext["archive"]
<1>0. "archive" \in Folders
  BY DEF Folders
<1>1. /\ n + Cardinality(copied) <= MaxUid + 1
      /\ box' = [box EXCEPT !["archive"] = @ \cup {fresh(e) : e \in copied}]
      /\ Note(box')
      /\ uidNext' = [uidNext EXCEPT !["archive"] = @ + Cardinality(copied)]
  BY DEF Copy
<1>2. copied \subseteq Entries /\ IsFiniteSet(copied) /\ Cardinality(copied) \in Nat
      /\ n \in 1..MaxUid + 1
  <2>1. copied \subseteq Entries
    BY DEF ServerTypes
  <2> QED BY <1>0, <2>1, EntriesFinite, FS_CardinalityType DEF ServerTypes
<1>3. ASSUME NEW e \in copied
      PROVE  rank(e) \in Nat /\ rank(e) < Cardinality(copied)
  <2>1. below(e) \subseteq copied /\ below(e) # copied
    BY <1>2 DEF Entries, Uids
  <2>2. IsFiniteSet(below(e)) /\ Cardinality(below(e)) <= Cardinality(copied)
        /\ Cardinality(below(e)) # Cardinality(copied)
    BY <1>2, <2>1, FS_Subset
  <2> QED BY <1>2, <2>2, FS_CardinalityType
<1>4. ASSUME NEW d \in copied, NEW e \in copied, d.uid < e.uid
      PROVE  rank(d) < rank(e)
  <2>1. below(d) \subseteq below(e) /\ d \in below(e) /\ d \notin below(d)
    BY <1>2, <1>4 DEF Entries, Uids
  <2>2. IsFiniteSet(below(e))
    BY <1>2, FS_Subset
  <2>3. IsFiniteSet(below(d)) /\ Cardinality(below(d)) <= Cardinality(below(e))
        /\ Cardinality(below(d)) # Cardinality(below(e))
    BY <2>1, <2>2, FS_Subset
  <2> QED BY <2>2, <2>3, FS_CardinalityType
<1> HIDE DEF below
<1>5. ASSUME NEW d \in copied, NEW e \in copied, rank(d) = rank(e)
      PROVE  d = e
  <2>1. d.uid \in Int /\ e.uid \in Int
    BY <1>2 DEF Entries, Uids
  <2>2. ~(d.uid < e.uid) /\ ~(e.uid < d.uid)
    <3>1. d.uid < e.uid => rank(d) < rank(e)
      BY <1>4
    <3>2. e.uid < d.uid => rank(e) < rank(d)
      BY <1>4
    <3>3. rank(d) \in Nat /\ rank(e) \in Nat
      BY <1>3
    <3> HIDE DEF rank
    <3> QED BY <1>5, <3>1, <3>2, <3>3
  <2>3. d.uid = e.uid
    BY <2>1, <2>2
  <2> QED BY <2>3 DEF Numbered
<1> HIDE DEF rank
<1>6. ASSUME NEW e \in copied
      PROVE  fresh(e) \in Entries /\ fresh(e).uid >= n
             /\ fresh(e).uid < n + Cardinality(copied)
  <2>1. n + rank(e) \in 1..MaxUid /\ n + rank(e) >= n /\ n + rank(e) < n + Cardinality(copied)
    BY <1>1, <1>2, <1>3, CardActionsAssumption
  <2> QED BY <1>2, <2>1 DEF Entries, Uids
<1>7. ASSUME NEW d \in copied, NEW e \in copied, fresh(d).uid = fresh(e).uid
      PROVE  d = e
  <2>1. rank(d) = rank(e)
    BY <1>2, <1>3, <1>7
  <2> QED BY <1>5, <2>1
<1> DEFINE new == {fresh(e) : e \in copied}
<1>8. /\ \A e \in new : e \in Entries /\ e.uid >= n /\ e.uid < n + Cardinality(copied)
      /\ \A d, e \in new : d.uid = e.uid => d = e
      /\ \A e \in copied : \E d \in new : d.mid = e.mid
  <2>1. \A e \in new : e \in Entries /\ e.uid >= n /\ e.uid < n + Cardinality(copied)
    BY <1>6
  <2>2. ASSUME NEW d \in new, NEW e \in new, d.uid = e.uid PROVE d = e
    <3>1. PICK c \in copied : d = fresh(c)
      OBVIOUS
    <3>2. PICK b \in copied : e = fresh(b)
      OBVIOUS
    <3>3. c = b
      BY <1>7, <2>2, <3>1, <3>2
    <3> QED BY <3>1, <3>2, <3>3
  <2>3. ASSUME NEW e \in copied PROVE \E d \in new : d.mid = e.mid
    <3>1. fresh(e) \in new /\ fresh(e).mid = e.mid
      OBVIOUS
    <3> QED BY <3>1
  <2> QED BY <2>1, <2>2, <2>3
<1>9. /\ box'["archive"] = box["archive"] \cup new
      /\ \A g \in Folders \ {"archive"} : box'[g] = box[g]
      /\ uidNext'["archive"] = n + Cardinality(copied)
      /\ \A g \in Folders \ {"archive"} : uidNext'[g] = uidNext[g]
  BY <1>0, <1>1 DEF ServerTypes
<1> HIDE DEF new, fresh
<1>10. ServerTypes'
  <2>1. n + Cardinality(copied) \in 1..MaxUid + 1
    BY <1>1, <1>2
  <2>2. uidNext' \in [Folders -> 1..MaxUid + 1]
    BY <1>1, <2>1 DEF ServerTypes
  <2>3. box' \in [Folders -> SUBSET Entries]
    BY <1>1, <1>8 DEF ServerTypes, new
  <2> QED BY <2>2, <2>3 DEF ServerTypes
<1> HIDE DEF copied
<1>11. \A g \in Folders : uidNext[g] <= uidNext'[g] /\ uidNext[g] \in Int
  BY <1>2, <1>9 DEF ServerTypes
<1>12. Numbered'
  <2>1. \A g \in Folders : \A e \in box'[g] : e.uid < uidNext'[g]
    <3> SUFFICES ASSUME NEW g \in Folders, NEW e \in box'[g]
                 PROVE  e.uid < uidNext'[g]
      OBVIOUS
    <3>1. CASE e \in box[g]
      <4>1. e.uid < uidNext[g] /\ e.uid \in Int /\ uidNext'[g] \in Int
        BY <1>10, <3>1 DEF Numbered, ServerTypes, Entries, Uids
      <4> QED BY <1>11, <4>1
    <3>2. CASE e \notin box[g]
      BY <1>8, <1>9, <3>2
    <3> QED BY <3>1, <3>2
  <2>2. \A g \in Folders : \A d, e \in box'[g] : d.uid = e.uid => d = e
    <3> SUFFICES ASSUME NEW g \in Folders, NEW d \in box'[g], NEW e \in box'[g],
                        d.uid = e.uid
                 PROVE  d = e
      OBVIOUS
    <3>1. CASE g # "archive"
      BY <1>9, <3>1 DEF Numbered
    <3>2. CASE g = "archive"
      <4>1. \A x \in box["archive"] : x.uid < n /\ x.uid \in Int
        BY <1>0 DEF Numbered, ServerTypes, Entries, Uids
      <4>2. \A x \in new : x.uid >= n /\ x.uid \in Int
        BY <1>8 DEF Entries, Uids
      <4>3. n \in Int
        BY <1>2
      <4> QED BY <1>0, <1>8, <1>9, <3>2, <4>1, <4>2, <4>3 DEF Numbered
    <3> QED BY <3>1, <3>2
  <2>3. \A x \in flagged' : x[2] < uidNext'[x[1]]
    <3> SUFFICES ASSUME NEW x \in flagged PROVE x[2] < uidNext'[x[1]]
      OBVIOUS
    <3>1. x[1] \in Folders /\ x[2] \in Int /\ x[2] < uidNext[x[1]]
          /\ uidNext'[x[1]] \in Int
      BY <1>10 DEF Numbered, ServerTypes, Uids
    <3> QED BY <1>11, <3>1
  <2> QED BY <2>1, <2>2, <2>3 DEF Numbered
<1>13. Evolves
  BY <1>8, <1>9, <1>11, <1>12 DEF Evolves
<1>14. \A e \in box[f] : e.uid \in us =>
          \E d \in box'["archive"] : d.mid = e.mid /\ d.uid >= uidNext["archive"]
  BY <1>8, <1>9 DEF copied
<1> QED BY <1>1, <1>9, <1>10, <1>13, <1>14

\* The mail client moves a message: it gets a new UID where it comes.
LEMMA UserMoveEvolves ==
    ASSUME ServerTypes, Numbered, NEW f \in Folders, NEW g \in Folders,
           NEW e \in box[f], UserMove(e, f, g)
    PROVE  /\ ServerTypes' /\ Evolves /\ Note(box')
           /\ \A h \in Folders : \A d \in box[h] : (d = e /\ h = f) \/ d \in box'[h]
           /\ \E d \in box'[g] : d.mid = e.mid /\ d.uid >= uidNext[g]
<1> DEFINE new == [uid |-> uidNext[g], mid |-> e.mid]
<1>1. /\ f # g /\ <<f, e.uid>> \notin flagged /\ uidNext[g] <= MaxUid
      /\ box' = [box EXCEPT ![f] = @ \ {e}, ![g] = @ \cup {new}]
      /\ Note(box')
      /\ uidNext' = [uidNext EXCEPT ![g] = @ + 1]
      /\ UNCHANGED flagged
  BY DEF UserMove
<1>2. /\ box'[f] = box[f] \ {e} /\ box'[g] = box[g] \cup {new}
      /\ \A h \in Folders \ {f, g} : box'[h] = box[h]
      /\ uidNext'[g] = uidNext[g] + 1
      /\ \A h \in Folders \ {g} : uidNext'[h] = uidNext[h]
  BY <1>1 DEF ServerTypes
<1>3. uidNext[g] \in 1..MaxUid /\ new \in Entries
  BY <1>1, CardActionsAssumption DEF ServerTypes, Entries, Uids
<1>4. ServerTypes'
  <2>1. uidNext' \in [Folders -> 1..MaxUid + 1]
    BY <1>1, <1>3, CardActionsAssumption DEF ServerTypes
  <2>2. box' \in [Folders -> SUBSET Entries]
    BY <1>1, <1>3 DEF ServerTypes
  <2> QED BY <1>1, <2>1, <2>2 DEF ServerTypes
<1>5. new.uid = uidNext[g] /\ new.mid = e.mid
  OBVIOUS
<1> HIDE DEF new
<1>6. \A h \in Folders : uidNext[h] <= uidNext'[h] /\ uidNext[h] \in Int
  BY <1>2 DEF ServerTypes
<1>7. Numbered'
  <2>1. \A h \in Folders : \A d \in box'[h] : d.uid < uidNext'[h]
    BY <1>2, <1>3, <1>5 DEF Numbered, ServerTypes, Entries, Uids
  <2>2. \A h \in Folders : \A c, d \in box'[h] : c.uid = d.uid => c = d
    <3> SUFFICES ASSUME NEW h \in Folders, NEW c \in box'[h], NEW d \in box'[h],
                        c.uid = d.uid
                 PROVE  c = d
      OBVIOUS
    <3>1. CASE h # g
      BY <1>2, <3>1 DEF Numbered
    <3>2. CASE h = g
      <4>1. \A x \in box[g] : x.uid < uidNext[g] /\ x.uid \in Int
        BY DEF Numbered, ServerTypes, Entries, Uids
      <4> QED BY <1>2, <1>3, <1>5, <3>2, <4>1 DEF Numbered
    <3> QED BY <3>1, <3>2
  <2>3. \A x \in flagged' : x[2] < uidNext'[x[1]]
    <3> SUFFICES ASSUME NEW x \in flagged PROVE x[2] < uidNext'[x[1]]
      BY <1>1
    <3>1. x[1] \in Folders /\ x[2] \in Int /\ x[2] < uidNext[x[1]]
          /\ uidNext'[x[1]] \in Int
      BY <1>4 DEF Numbered, ServerTypes, Uids
    <3> QED BY <1>6, <3>1
  <2> QED BY <2>1, <2>2, <2>3 DEF Numbered
<1>8. \A h \in Folders : \A d \in box'[h] : d \in box[h] \/ d.uid >= uidNext[h]
  BY <1>2, <1>3, <1>5
<1>9. Evolves
  BY <1>1, <1>6, <1>7, <1>8 DEF Evolves
<1>10. \A h \in Folders : \A d \in box[h] : (d = e /\ h = f) \/ d \in box'[h]
  BY <1>2
<1>11. \E d \in box'[g] : d.mid = e.mid /\ d.uid >= uidNext[g]
  BY <1>2, <1>3, <1>5
<1> QED BY <1>1, <1>4, <1>9, <1>10, <1>11

\* The mail client removes a message, and its flag with it.
LEMMA UserDeleteEvolves ==
    ASSUME ServerTypes, Numbered, NEW f \in Folders, NEW e \in box[f],
           UserDelete(e, f)
    PROVE  /\ ServerTypes' /\ Evolves /\ Note(box')
           /\ \A h \in Folders : \A d \in box[h] : (d = e /\ h = f) \/ d \in box'[h]
           /\ flagged' \subseteq flagged
<1>1. /\ box' = [box EXCEPT ![f] = @ \ {e}]
      /\ Note(box')
      /\ flagged' = flagged \ {<<f, e.uid>>}
      /\ UNCHANGED uidNext
  BY DEF UserDelete
<1>2. /\ box'[f] = box[f] \ {e}
      /\ \A h \in Folders \ {f} : box'[h] = box[h]
  BY <1>1 DEF ServerTypes
<1>3. ServerTypes' /\ Numbered'
  BY <1>1, <1>2 DEF ServerTypes, Numbered
<1>4. ASSUME NEW g \in Folders, NEW u \in Uids, <<g, u>> \in flagged, Holds(g, u)'
      PROVE  <<g, u>> \in flagged'
  <2>1. PICK d \in box'[g] : d.uid = u
    BY <1>4 DEF Holds
  <2>2. ~(g = f /\ u = e.uid)
    BY <1>2, <2>1 DEF Numbered
  <2> QED BY <1>1, <1>4, <2>2
<1>5. Evolves
  BY <1>1, <1>2, <1>3, <1>4 DEF Evolves, ServerTypes
<1> QED BY <1>1, <1>2, <1>3, <1>5

-----------------------------------------------------------------------------
(* Type correctness.                                                       *)

LEMMA FinishTypes ==
    ASSUME LocalTypes, NEW w \in Workers, Finish(w)
    PROVE  LocalTypes'
  BY DEF LocalTypes, Finish, Labels

LEMMA GotoTypes ==
    ASSUME LocalTypes, NEW w \in Workers, NEW label \in Labels, Goto(w, label),
           UNCHANGED locals
    PROVE  LocalTypes'
  BY DEF LocalTypes, Goto, locals, batch

LEMMA NotFoundTypes ==
    ASSUME LocalTypes, NEW w \in Workers, NotFound(w)
    PROVE  LocalTypes'
  BY FinishTypes, GotoTypes DEF NotFound, Labels

LEMMA ChunkDoneTypes ==
    ASSUME LocalTypes, NEW b \in Workers, ChunkDone(b)
    PROVE  LocalTypes'
<1>1. {r.mid : r \in chunk[b]} \subseteq Mids
  BY DEF LocalTypes
<1>2. dropping' \in [Workers -> SUBSET Mids]
  BY <1>1 DEF LocalTypes, ChunkDone
<1> QED BY <1>2 DEF LocalTypes, ChunkDone, Goto, Labels

LEMMA EnvironmentTypes ==
    ASSUME TypeOK, Numbered, Environment
    PROVE  TypeOK'
<1> USE TypesAre
<1>0. UNCHANGED <<pc, locals>> => LocalTypes'
  BY DEF LocalTypes, locals, batch
<1>1. ASSUME NEW m \in Mids, NEW d \in {"TO_DELETE", "TO_ARCHIVE"}, Decide(m, d)
      PROVE  TypeOK'
  BY <1>0, <1>1, CardActionsAssumption
  DEF Decide, ServerTypes, CardTypes, HistoryTypes, server
<1>2. ASSUME NEW f \in Folders, NEW g \in Folders, NEW e \in box[f], UserMove(e, f, g)
      PROVE  TypeOK'
  <2>1. ServerTypes' /\ Note(box')
    BY <1>2, UserMoveEvolves
  <2>2. gone' \in [Workers -> SUBSET (Folders \X Mids)]
    BY <2>1, NoteTypes
  <2> QED BY <1>0, <1>2, <2>1, <2>2, CardActionsAssumption
          DEF UserMove, CardTypes, HistoryTypes, database
<1>3. ASSUME NEW f \in Folders, NEW e \in box[f], UserDelete(e, f)
      PROVE  TypeOK'
  <2>1. ServerTypes' /\ Note(box')
    BY <1>3, UserDeleteEvolves
  <2>2. gone' \in [Workers -> SUBSET (Folders \X Mids)]
    BY <2>1, NoteTypes
  <2>3. e.mid \in Mids
    BY DEF ServerTypes, Entries
  <2> QED BY <1>0, <1>3, <2>1, <2>2, <2>3, CardActionsAssumption
          DEF UserDelete, CardTypes, HistoryTypes, database
<1> QED BY <1>1, <1>2, <1>3 DEF Environment

\* What a step that leaves server, database and history alone must show.
LEMMA OthersRest ==
    ASSUME TypeOK, UNCHANGED <<server, database, asked, gone>>
    PROVE  /\ ServerTypes' /\ CardTypes'
           /\ UNCHANGED bounds => HistoryTypes'
  BY TypesAre DEF ServerTypes, CardTypes, HistoryTypes, server, database, bounds

LEMMA OneCardTypes ==
    ASSUME TypeOK, Numbered, NEW w \in Workers, Held(w), OneCard(w)
    PROVE  TypeOK'
<1> USE TypesAre
<1>0. pc[w] \in AtCard => mid[w] \in Mids /\ place[w] \in Places
  BY DEF Held
<1>1. CASE Resolve(w)
  <2>1. pc[w] = "resolve" /\ mid[w] \in Mids /\ place[w] \in Places
    BY <1>0, <1>1 DEF Resolve, AtCard
  <2>2. LocalTypes'
    <3>1. CASE NotFound(w)
      BY <3>1, NotFoundTypes
    <3>2. ASSUME NEW v \in Uids,
                 resolved' = [resolved EXCEPT ![w] = @ \cup {[mid |-> mid[w], uid |-> v]}],
                 Goto(w, "rows"),
                 UNCHANGED <<op, mid, place, scanned, retry, source, rows, chunk,
                             uids, dropping>>
          PROVE  LocalTypes'
      BY <2>1, <3>2 DEF LocalTypes, Goto, Labels
    <3>3. ASSUME NEW v \in Uids, place' = [place EXCEPT ![w].uid = v],
                 Goto(w, "verify"), UNCHANGED <<op, mid, scanned, retry, batch>>
          PROVE  LocalTypes'
      <4>1. [place[w] EXCEPT !.uid = v] \in Places
        BY <2>1 DEF Places
      <4>2. place' \in [Workers -> Places \cup {None}]
        BY <3>3, <4>1 DEF LocalTypes
      <4> QED BY <3>3, <4>2 DEF LocalTypes, Goto, Labels, batch
    <3> QED BY <1>1, <3>1, <3>2, <3>3 DEF Resolve
  <2> QED BY <1>1, <2>2, OthersRest DEF Resolve
<1>2. ASSUME NEW f \in Folders, ScanFolder(w, f) PROVE TypeOK'
  <2>1. Hits(f, mid[w]) \subseteq Uids
    BY DEF Hits, ServerTypes, Entries
  <2>2. LocalTypes'
    <3>1. CASE Hits(f, mid[w]) # {}
      <4>1. PICK u \in Uids : place' = [place EXCEPT ![w] = [folder |-> f, uid |-> u]]
        BY <1>2, <2>1, <3>1 DEF ScanFolder
      <4>2. place' \in [Workers -> Places \cup {None}]
        BY <4>1 DEF LocalTypes, Places
      <4> QED BY <1>2, <3>1, <4>2 DEF ScanFolder, LocalTypes, Goto, Labels, batch
    <3>2. CASE Hits(f, mid[w]) = {}
      BY <1>2, <3>2 DEF ScanFolder, LocalTypes, batch
    <3> QED BY <3>1, <3>2
  <2> QED BY <1>2, <2>2, OthersRest DEF ScanFolder
<1>3. CASE ScanEnds(w)
  BY <1>3, OthersRest DEF ScanEnds, LocalTypes, Goto, Labels, batch
<1>4. CASE NoteSource(w)
  <2>1. mid[w] \in Mids /\ place[w] \in Places
    BY <1>0, <1>4 DEF NoteSource, AtCard
  <2>2. CardTypes'
    BY <1>4, <2>1 DEF NoteSource, CardTypes
  <2>3. LocalTypes'
    BY <1>4, GotoTypes DEF NoteSource, Labels
  <2> QED BY <1>4, <2>2, <2>3
          DEF NoteSource, ServerTypes, HistoryTypes, server, bounds
<1>5. CASE Verify(w)
  <2>1. LocalTypes'
    BY <1>5, GotoTypes, NotFoundTypes DEF Verify, Labels
  <2> QED BY <1>5, <2>1, OthersRest DEF Verify
<1>6. CASE CopyMessage(w)
  <2>1. pc[w] = "copy" /\ place[w] \in Places
    BY <1>0, <1>6 DEF CopyMessage, AtCard
  <2>2. place[w].folder \in Folders /\ {place[w].uid} \subseteq Uids
    BY <2>1 DEF Places
  <2>3. CASE Copy(place[w].folder, {place[w].uid}) /\ Goto(w, "reverify") /\ UNCHANGED locals
    <3>1. ServerTypes' /\ Note(box')
      BY <1>6, <2>2, <2>3, CopyEvolves DEF CopyMessage
    <3>2. gone' \in [Workers -> SUBSET (Folders \X Mids)]
      BY <3>1, NoteTypes
    <3>3. LocalTypes'
      BY <2>3, GotoTypes DEF Labels
    <3> QED BY <1>6, <3>1, <3>2, <3>3
            DEF CopyMessage, CardTypes, HistoryTypes, database, bounds
  <2>4. CASE NotFound(w) /\ UNCHANGED <<box, uidNext, gone>>
    <3>1. LocalTypes'
      BY <2>4, NotFoundTypes
    <3> QED BY <1>6, <2>4, <3>1, OthersRest DEF CopyMessage, server
  <2> QED BY <1>6, <2>3, <2>4 DEF CopyMessage
<1>7. CASE Reverify(w)
  <2>1. LocalTypes'
    BY <1>7, GotoTypes, NotFoundTypes DEF Reverify, Labels
  <2> QED BY <1>7, <2>1, OthersRest DEF Reverify
<1>8. CASE StoreDeleted(w)
  <2>1. place[w].folder \in Folders /\ {place[w].uid} \subseteq Uids
    BY <1>0, <1>8 DEF StoreDeleted, AtCard, Places
  <2>2. ServerTypes'
    BY <1>8, <2>1, FlagEvolves DEF StoreDeleted
  <2>3. LocalTypes'
    BY <1>8, GotoTypes DEF StoreDeleted, Labels
  <2> QED BY <1>8, <2>2, <2>3
          DEF StoreDeleted, CardTypes, HistoryTypes, database, bounds
<1>9. CASE ExpungeFolder(w)
  <2>1. place[w].folder \in Folders
    BY <1>0, <1>9 DEF ExpungeFolder, AtCard, Places
  <2>2. ServerTypes' /\ Note(box')
    BY <1>9, <2>1, ExpungeEvolves DEF ExpungeFolder
  <2>3. gone' \in [Workers -> SUBSET (Folders \X Mids)]
    BY <2>2, NoteTypes
  <2>4. LocalTypes'
    BY <1>9, GotoTypes DEF ExpungeFolder, Labels
  <2> QED BY <1>9, <2>2, <2>3, <2>4
          DEF ExpungeFolder, CardTypes, HistoryTypes, database, bounds
<1> QED BY <1>1, <1>2, <1>3, <1>4, <1>5, <1>6, <1>7, <1>8, <1>9 DEF OneCard

LEMMA BeginTypes ==
    ASSUME TypeOK, NEW w \in Workers, NEW o \in Ops, Begin(w, o)
    PROVE  /\ op' \in [Workers -> Ops \cup {None}]
           /\ gone' \in [Workers -> SUBSET (Folders \X Mids)]
           /\ requests' \in 0..MaxRequests
<1>1. Apart(box) \subseteq Folders \X Mids
  BY DEF Apart
<1> QED BY <1>1, TypesAre, CardActionsAssumption DEF Begin, LocalTypes, HistoryTypes

LEMMA FailTypes ==
    ASSUME TypeOK, NEW w \in Workers, Fail(w)
    PROVE  TypeOK'
<1>1. faults' \in 0..MaxFaults
  BY TypesAre, CardActionsAssumption DEF Fail, HistoryTypes
<1> QED BY <1>1, TypesAre, OthersRest, FinishTypes DEF Fail, HistoryTypes

LEMMA HandlerTypes ==
    ASSUME TypeOK, Numbered, NEW h \in Handlers, Held(h), Handler(h)
    PROVE  TypeOK'
<1> USE TypesAre DEF Workers
<1>1. ASSUME NEW o \in Ops, NEW m \in Mids, Request(h, o, m)
      PROVE  TypeOK'
  <2>1. cards[m] \in Places
    BY <1>1 DEF Request, CardTypes
  <2>2. LocalTypes'
    BY <1>1, <2>1, BeginTypes DEF Request, LocalTypes, Goto, Labels, batch
  <2>3. HistoryTypes'
    BY <1>1, BeginTypes DEF Request, HistoryTypes
  <2> QED BY <1>1, <2>2, <2>3
          DEF Request, ServerTypes, CardTypes, server, database
<1>2. CASE DropCard(h)
  BY <1>2, FinishTypes
  DEF DropCard, ServerTypes, CardTypes, HistoryTypes, server, bounds
<1> QED BY <1>1, <1>2, OneCardTypes, FailTypes DEF Handler

LEMMA BatchTypes ==
    ASSUME TypeOK, Numbered, NEW b \in Batches, Held(b), Batch(b)
    PROVE  TypeOK'
<1> USE TypesAre
<1>0. b \in Workers
  BY DEF Workers
<1>1. ASSUME NEW o \in Ops, Collect(b, o) PROVE TypeOK'
  <2> DEFINE column == IF o = "delete" THEN "TO_DELETE" ELSE "TO_ARCHIVE"
             collected == {m \in Mids : cards[m] # None /\ decision[m] = column}
             snap == {[mid |-> m, folder |-> cards[m].folder,
                       uid |-> cards[m].uid] : m \in collected}
  <2>1. collected \subseteq Mids
    OBVIOUS
  <2>2. ASSUME NEW m \in collected
        PROVE  [mid |-> m, folder |-> cards[m].folder, uid |-> cards[m].uid] \in Rows
    BY DEF CardTypes, Places, Rows
  <2>3. /\ rows' = [rows EXCEPT ![b] = snap]
        /\ asked' = IF o = "delete" THEN asked \cup collected ELSE asked
        /\ Begin(b, o) /\ Goto(b, "rows")
        /\ UNCHANGED <<server, database, mid, place, scanned, retry, source,
                       resolved, chunk, uids, dropping, faults, moves, renumbers>>
    BY <1>1 DEF Collect
  <2>4. snap \subseteq Rows
    BY <2>2
  <2> HIDE DEF snap, collected
  <2>5. LocalTypes'
    BY <1>0, <2>3, <2>4, BeginTypes DEF LocalTypes, Goto, Labels
  <2>6. HistoryTypes'
    BY <1>0, <2>1, <2>3, BeginTypes DEF HistoryTypes
  <2> QED BY <2>3, <2>5, <2>6 DEF ServerTypes, CardTypes, server, database
<1>2. ASSUME NEW r \in rows[b], TakeRow(b, r) PROVE TypeOK'
  <2>1. r \in Rows
    BY <1>0 DEF LocalTypes
  <2>2. LocalTypes'
    BY <1>0, <1>2, <2>1 DEF TakeRow, LocalTypes, Goto, Labels, Rows, Places
  <2> QED BY <1>2, <2>2, OthersRest DEF TakeRow
<1>3. CASE RowSettled(b)
  <2>1. mid[b] \in Mids
    BY <1>3 DEF RowSettled, Held, AtCard
  <2>2. LocalTypes'
    BY <1>0, <1>3, <2>1 DEF RowSettled, LocalTypes, Goto, Labels
  <2> QED BY <1>3, <2>2, OthersRest DEF RowSettled
<1>4. ASSUME NEW c \in SUBSET resolved[b], TakeChunk(b, c) PROVE TypeOK'
  <2>1. LocalTypes'
    BY <1>0, <1>4 DEF TakeChunk, LocalTypes, Goto, Labels
  <2> QED BY <1>4, <2>1, OthersRest DEF TakeChunk
<1>5. pc[b] \in AtChunk => source[b] \in Folders
  BY DEF Held
<1>6. CASE FilterChunk(b)
  <2> DEFINE valid == {u \in {r.uid : r \in chunk[b]} : Holds(source[b], u)}
  <2>1. valid \subseteq Uids
    BY <1>5, <1>6 DEF FilterChunk, AtChunk, Holds, ServerTypes, Entries
  <2> HIDE DEF valid
  <2>2. LocalTypes'
    <3>1. CASE ChunkDone(b)
      BY <1>0, <3>1, ChunkDoneTypes
    <3>2. CASE ~ChunkDone(b)
      <4>1. /\ uids' = [uids EXCEPT ![b] = valid]
            /\ Goto(b, IF op[b] = "archive" THEN "batchcopy" ELSE "batchstore")
            /\ UNCHANGED <<op, mid, place, scanned, retry, source, rows,
                           resolved, chunk, dropping>>
        BY <1>6, <3>2 DEF FilterChunk, valid
      <4> QED BY <1>0, <2>1, <4>1 DEF LocalTypes, Goto, Labels
    <3> QED BY <3>1, <3>2
  <2> QED BY <1>6, <2>2, OthersRest DEF FilterChunk
<1>7. CASE CopyChunk(b)
  <2>1. source[b] \in Folders /\ uids[b] \subseteq Uids
    BY <1>0, <1>5, <1>7 DEF CopyChunk, AtChunk, LocalTypes
  <2>2. CASE Copy(source[b], uids[b]) /\ Goto(b, "refilter") /\ UNCHANGED locals
    <3>1. ServerTypes' /\ Note(box')
      BY <1>7, <2>1, <2>2, CopyEvolves DEF CopyChunk
    <3>2. gone' \in [Workers -> SUBSET (Folders \X Mids)]
      BY <3>1, NoteTypes
    <3>3. LocalTypes'
      BY <1>0, <2>2, GotoTypes DEF Labels
    <3> QED BY <1>7, <3>1, <3>2, <3>3
            DEF CopyChunk, CardTypes, HistoryTypes, database, bounds
  <2>3. CASE ChunkDone(b) /\ UNCHANGED <<box, uidNext, gone>>
    <3>1. LocalTypes'
      BY <1>0, <2>3, ChunkDoneTypes
    <3> QED BY <1>7, <2>3, <3>1, OthersRest DEF CopyChunk, server
  <2> QED BY <1>7, <2>2, <2>3 DEF CopyChunk
<1>8. CASE RefilterChunk(b)
  <2> DEFINE valid == {u \in uids[b] : Holds(source[b], u)}
  <2>1. valid \subseteq Uids
    BY <1>0 DEF LocalTypes
  <2> HIDE DEF valid
  <2>2. LocalTypes'
    <3>1. CASE ChunkDone(b)
      BY <1>0, <3>1, ChunkDoneTypes
    <3>2. CASE ~ChunkDone(b)
      <4>1. /\ uids' = [uids EXCEPT ![b] = valid]
            /\ Goto(b, "batchstore")
            /\ UNCHANGED <<op, mid, place, scanned, retry, source, rows,
                           resolved, chunk, dropping>>
        BY <1>8, <3>2 DEF RefilterChunk, valid
      <4> QED BY <1>0, <2>1, <4>1 DEF LocalTypes, Goto, Labels
    <3> QED BY <3>1, <3>2
  <2> QED BY <1>8, <2>2, OthersRest DEF RefilterChunk
<1>9. CASE StoreChunk(b)
  <2>1. source[b] \in Folders /\ uids[b] \subseteq Uids
    BY <1>0, <1>5, <1>9 DEF StoreChunk, AtChunk, LocalTypes
  <2>2. ServerTypes'
    BY <1>9, <2>1, FlagEvolves DEF StoreChunk
  <2>3. LocalTypes'
    BY <1>0, <1>9, GotoTypes DEF StoreChunk, Labels
  <2> QED BY <1>9, <2>2, <2>3
          DEF StoreChunk, CardTypes, HistoryTypes, database, bounds
<1>10. CASE ExpungeChunk(b)
  <2>1. source[b] \in Folders
    BY <1>5, <1>10 DEF ExpungeChunk, AtChunk
  <2>2. ServerTypes' /\ Note(box')
    BY <1>10, <2>1, ExpungeEvolves DEF ExpungeChunk
  <2>3. gone' \in [Workers -> SUBSET (Folders \X Mids)]
    BY <2>2, NoteTypes
  <2>4. LocalTypes'
    BY <1>0, <1>10, ChunkDoneTypes DEF ExpungeChunk
  <2> QED BY <1>10, <2>2, <2>3, <2>4
          DEF ExpungeChunk, CardTypes, HistoryTypes, database, bounds
<1>11. ASSUME NEW m \in dropping[b], DropRow(b, m) PROVE TypeOK'
  BY <1>0, <1>11 DEF DropRow, LocalTypes, ServerTypes, CardTypes, HistoryTypes,
                     server, bounds
<1>12. CASE ChunkSettled(b)
  BY <1>0, <1>12, GotoTypes, OthersRest DEF ChunkSettled, Labels
<1>13. CASE BatchEnds(b)
  BY <1>0, <1>13, FinishTypes, OthersRest DEF BatchEnds
<1> QED BY <1>0, <1>1, <1>2, <1>3, <1>4, <1>6, <1>7, <1>8, <1>9, <1>10, <1>11,
           <1>12, <1>13, OneCardTypes, FailTypes DEF Batch

-----------------------------------------------------------------------------
(* What a worker may rely on, whatever the others and the mail client do:  *)
(* a UID is never another message's, and a message that is not where it    *)
(* was has been seen to go.                                                *)

Claim(f, u, m) == u < uidNext[f] /\ \A e \in box[f] : e.uid = u => e.mid = m
Seen(w, f, m) == <<f, m>> \in gone[w]
Still(w, f, u, m) == Holds(f, u) \/ Seen(w, f, m)
Doomed(w, f, u, m) == (Holds(f, u) /\ <<f, u>> \in flagged) \/ Seen(w, f, m)

\* The steps of a batch: its chunk is of the folder it is at, all of it.
Phased(w) ==
    /\ w \in Batches /\ pc[w] = "resolve" => ~retry[w] /\ place[w].folder = source[w]
    /\ pc[w] \notin AtChunk \ {"settle"} => chunk[w] = {}
    /\ pc[w] \in AtCard \cup {"idle"} => dropping[w] = {}
    /\ pc[w] = "rows" /\ dropping[w] # {} => Group(w) = {} /\ resolved[w] # {}
    /\ pc[w] \in AtChunk => Group(w) = {}

Claimed(w) ==
    /\ pc[w] \in AtCard => Claim(place[w].folder, place[w].uid, mid[w])
    /\ \A r \in rows[w] : Claim(r.folder, r.uid, r.mid)
    /\ \A r \in Work(w) : r.uid # 0 => Claim(source[w], r.uid, r.mid)
    /\ uids[w] \subseteq {r.uid : r \in chunk[w]}

\* A delete is of messages someone asked to have deleted.
Meant(w) ==
    op[w] = "delete" =>
        /\ pc[w] \in AtCard => mid[w] \in asked
        /\ \A r \in rows[w] : r.mid \in asked
        /\ \A r \in Work(w) : r.mid \in asked

\* One card, from its verification to the deletion of its row.
CardAccounted(w) ==
    /\ \A f \in scanned[w] : Seen(w, f, mid[w])
    /\ pc[w] \in {"copy", "reverify", "store"} =>
          Still(w, place[w].folder, place[w].uid, mid[w])
    /\ pc[w] = "expunge" => Doomed(w, place[w].folder, place[w].uid, mid[w])
    /\ pc[w] = "drop" => Seen(w, place[w].folder, mid[w])
    /\ w \in Batches /\ pc[w] \in AtCard \ {"resolve"} => Seen(w, source[w], mid[w])

\* The messages of a chunk, from their resolution to the deletion of the rows.
ChunkAccounted(w) ==
    /\ \A r \in Work(w) : IF r.uid = 0 THEN Seen(w, source[w], r.mid)
                          ELSE Still(w, source[w], r.uid, r.mid)
    /\ pc[w] \in {"batchcopy", "refilter", "batchstore"} =>
          \A r \in chunk[w] : r.uid \in uids[w] \/ Seen(w, source[w], r.mid)
    /\ pc[w] = "batchexpunge" =>
          \A r \in chunk[w] : Doomed(w, source[w], r.uid, r.mid)
    /\ \A m \in dropping[w] : Seen(w, source[w], m)

Accounted(w) ==
    pc[w] # "idle" =>
        /\ Apart(box) \subseteq gone[w]
        /\ CardAccounted(w)
        /\ ChunkAccounted(w)

WorkerInv(w) == Held(w) /\ Phased(w) /\ Claimed(w) /\ Meant(w) /\ Accounted(w)

LEMMA ClaimStays ==
    ASSUME ServerTypes, ServerTypes', Evolves, NEW f \in Folders, NEW u \in Uids \cup {0},
           NEW m, Claim(f, u, m)
    PROVE  Claim(f, u, m)'
<1>1. /\ u \in Int /\ uidNext[f] \in Int /\ uidNext'[f] \in Int
      /\ uidNext[f] <= uidNext'[f] /\ u < uidNext[f]
  BY DEF ServerTypes, Evolves, Claim, Uids
<1>2. \A e \in box'[f] : e \in box[f] \/ e.uid >= uidNext[f]
  BY DEF Evolves
<1>3. \A e \in box'[f] : e.uid = u => e.mid = m
  BY <1>1, <1>2 DEF Claim
<1> QED BY <1>1, <1>3 DEF Claim

LEMMA SeenStays ==
    ASSUME NEW w \in Workers, pc[w] # "idle", Noted(w), NEW f, NEW m, Seen(w, f, m)
    PROVE  Seen(w, f, m)'
  BY DEF Noted, Seen

LEMMA StillStays ==
    ASSUME NEW w \in Workers, pc[w] # "idle", Noted(w), NEW f \in Folders, NEW u, NEW m,
           Claim(f, u, m), Still(w, f, u, m)
    PROVE  Still(w, f, u, m)'
<1>1. CASE Seen(w, f, m)
  BY <1>1, SeenStays DEF Still
<1>2. CASE Holds(f, u)
  <2>1. PICK e \in box[f] : e.uid = u
    BY <1>2 DEF Holds
  <2>2. e.mid = m
    BY <2>1 DEF Claim
  <2> QED BY <2>1, <2>2 DEF Noted, Still, Seen, Holds
<1> QED BY <1>1, <1>2 DEF Still

LEMMA DoomedStays ==
    ASSUME NEW w \in Workers, pc[w] # "idle", Noted(w), Evolves,
           NEW f \in Folders, NEW u \in Uids, NEW m,
           Claim(f, u, m), Doomed(w, f, u, m)
    PROVE  Doomed(w, f, u, m)'
<1>1. CASE Seen(w, f, m)
  BY <1>1, SeenStays DEF Doomed
<1>2. CASE Holds(f, u) /\ <<f, u>> \in flagged
  <2>1. Still(w, f, u, m)'
    BY <1>2, StillStays DEF Still
  <2> QED BY <1>2, <2>1 DEF Evolves, Still, Doomed
<1> QED BY <1>1, <1>2 DEF Doomed

\* A worker that does nothing keeps what it relies on.
Same(w) ==
    /\ pc'[w] = pc[w] /\ op'[w] = op[w] /\ mid'[w] = mid[w] /\ place'[w] = place[w]
    /\ scanned'[w] = scanned[w] /\ retry'[w] = retry[w] /\ source'[w] = source[w]
    /\ rows'[w] = rows[w] /\ resolved'[w] = resolved[w] /\ chunk'[w] = chunk[w]
    /\ uids'[w] = uids[w] /\ dropping'[w] = dropping[w]

Steady == TypeOK /\ ServerTypes' /\ Evolves /\ asked \subseteq asked'

LEMMA WorkTyped ==
    ASSUME TypeOK, NEW w \in Workers
    PROVE  /\ \A r \in Work(w) : r.uid \in Uids \cup {0} /\ r.mid \in Mids
           /\ \A r \in rows[w] : r.folder \in Folders /\ r.uid \in Uids /\ r.mid \in Mids
           /\ pc[w] \in AtCard /\ Held(w) =>
                 place[w].folder \in Folders /\ place[w].uid \in Uids
  BY TypesAre DEF LocalTypes, Work, Rows, Held, Places

\* The same, but for the step it is at.
SameHeld(w) ==
    /\ op'[w] = op[w] /\ mid'[w] = mid[w] /\ place'[w] = place[w]
    /\ scanned'[w] = scanned[w] /\ retry'[w] = retry[w] /\ source'[w] = source[w]
    /\ rows'[w] = rows[w] /\ resolved'[w] = resolved[w] /\ chunk'[w] = chunk[w]
    /\ dropping'[w] = dropping[w]

LEMMA ClaimsKept ==
    ASSUME Steady, NEW w \in Workers, SameHeld(w), Held(w), Claimed(w)
    PROVE  /\ pc[w] \in AtCard => Claim(place[w].folder, place[w].uid, mid[w])'
           /\ (\A r \in rows[w] : Claim(r.folder, r.uid, r.mid))'
           /\ (\A r \in Work(w) : r.uid # 0 => Claim(source[w], r.uid, r.mid))'
<1> USE TypesAre DEF Steady, SameHeld
<1>1. pc[w] \in AtCard => Claim(place[w].folder, place[w].uid, mid[w])'
  BY WorkTyped, ClaimStays DEF Claimed
<1>2. \A r \in rows[w] : Claim(r.folder, r.uid, r.mid)'
  BY WorkTyped, ClaimStays DEF Claimed
<1>3. \A r \in Work(w) : r.uid # 0 => Claim(source[w], r.uid, r.mid)'
  BY WorkTyped, ClaimStays DEF Claimed, Held
<1> QED BY <1>1, <1>2, <1>3 DEF Work

LEMMA AccountsKept ==
    ASSUME Steady, NEW w \in Workers, pc[w] # "idle", Noted(w), SameHeld(w),
           Held(w), Claimed(w), Accounted(w)
    PROVE  /\ (Apart(box) \subseteq gone[w])'
           /\ \A f, m : Seen(w, f, m) => Seen(w, f, m)'
           /\ pc[w] \in AtCard =>
                 /\ Still(w, place[w].folder, place[w].uid, mid[w]) =>
                       Still(w, place[w].folder, place[w].uid, mid[w])'
                 /\ Doomed(w, place[w].folder, place[w].uid, mid[w]) =>
                       Doomed(w, place[w].folder, place[w].uid, mid[w])'
           /\ (\A f \in scanned[w] : Seen(w, f, mid[w]))'
           /\ (\A m \in dropping[w] : Seen(w, source[w], m))'
           /\ (\A r \in Work(w) : IF r.uid = 0 THEN Seen(w, source[w], r.mid)
                                  ELSE Still(w, source[w], r.uid, r.mid))'
           /\ \A r \in Work(w) : Doomed(w, source[w], r.uid, r.mid) =>
                 Doomed(w, source[w], r.uid, r.mid)'
<1> USE TypesAre DEF Steady, SameHeld
<1>1. Apart(box') \subseteq gone'[w]
  BY DEF Accounted, Noted
<1>2. \A f, m : Seen(w, f, m) => Seen(w, f, m)'
  BY SeenStays
<1>3. pc[w] \in AtCard =>
         /\ Still(w, place[w].folder, place[w].uid, mid[w]) =>
               Still(w, place[w].folder, place[w].uid, mid[w])'
         /\ Doomed(w, place[w].folder, place[w].uid, mid[w]) =>
               Doomed(w, place[w].folder, place[w].uid, mid[w])'
  BY WorkTyped, StillStays, DoomedStays DEF Claimed
<1>4. \A r \in Work(w) : r.uid # 0 =>
         /\ Still(w, source[w], r.uid, r.mid) => Still(w, source[w], r.uid, r.mid)'
         /\ Doomed(w, source[w], r.uid, r.mid) => Doomed(w, source[w], r.uid, r.mid)'
  BY WorkTyped, StillStays, DoomedStays DEF Claimed, Held
<1>5. \A r \in Work(w) : r.uid = 0 => Seen(w, source[w], r.mid)
  BY DEF Accounted, ChunkAccounted
<1>6. \A r \in Work(w) :
         Doomed(w, source[w], r.uid, r.mid) => Doomed(w, source[w], r.uid, r.mid)'
  BY <1>2, <1>4, <1>5 DEF Doomed
<1>7. \A r \in Work(w) : IF r.uid = 0 THEN Seen(w, source[w], r.mid)'
                         ELSE Still(w, source[w], r.uid, r.mid)'
  BY <1>2, <1>4 DEF Accounted, ChunkAccounted
<1>8. \A f \in scanned[w] : Seen(w, f, mid[w])'
  BY <1>2 DEF Accounted, CardAccounted
<1>9. \A m \in dropping[w] : Seen(w, source[w], m)'
  BY <1>2 DEF Accounted, ChunkAccounted
<1> QED BY <1>1, <1>2, <1>3, <1>6, <1>7, <1>8, <1>9 DEF Work, Apart

LEMMA Bystander ==
    ASSUME Steady, NEW w \in Workers, Noted(w), Same(w), WorkerInv(w)
    PROVE  WorkerInv(w)'
<1> USE DEF Same, WorkerInv
<1>0. SameHeld(w)
  BY DEF SameHeld
<1>1. Held(w)' /\ Phased(w)' /\ Meant(w)'
  BY DEF Held, Phased, Meant, Work, Group, Steady
<1>2. Claimed(w)'
  BY <1>0, ClaimsKept DEF Claimed
<1>3. CASE pc[w] # "idle"
  <2>1. Accounted(w)
    OBVIOUS
  <2>2. CardAccounted(w)'
    <3>1. {"copy", "reverify", "store", "expunge"} \subseteq AtCard
      BY DEF AtCard
    <3> QED BY <1>0, <1>3, <2>1, <3>1, AccountsKept DEF Accounted, CardAccounted
  <2>3. ChunkAccounted(w)'
    <3>1. chunk[w] \subseteq Work(w)
      BY DEF Work
    <3> QED BY <1>0, <1>3, <2>1, <3>1, AccountsKept DEF Accounted, ChunkAccounted
  <2> QED BY <1>0, <1>1, <1>2, <1>3, <2>1, <2>2, <2>3, AccountsKept DEF Accounted
<1>4. CASE pc[w] = "idle"
  BY <1>1, <1>2, <1>4 DEF Accounted
<1> QED BY <1>3, <1>4

-----------------------------------------------------------------------------
(* A worker's own steps.                                                   *)

LEMMA FinishInv ==
    ASSUME LocalTypes, NEW w \in Workers, Finish(w)
    PROVE  WorkerInv(w)' /\ \A v \in Workers \ {w} : Same(v)
<1> USE DEF Finish, LocalTypes
<1>1. /\ pc'[w] = "idle" /\ op'[w] = None /\ scanned'[w] = {} /\ rows'[w] = {}
      /\ resolved'[w] = {} /\ chunk'[w] = {} /\ uids'[w] = {} /\ dropping'[w] = {}
  OBVIOUS
<1>2. \A v \in Workers \ {w} : Same(v)
  BY DEF Same
<1>3. "idle" \notin AtCard /\ "idle" \notin AtChunk
  BY LabelsAre
<1>4. WorkerInv(w)'
  BY <1>1, <1>3 DEF WorkerInv, Held, Phased, Claimed, Meant, Accounted, Work
<1> QED BY <1>2, <1>4

\* Between two steps of one card the worker holds the same; what the new step
\* asks for, it must have shown.
LEMMA CardMoves ==
    ASSUME Steady, NEW w \in Workers, Noted(w), WorkerInv(w),
           NEW label \in AtCard, Goto(w, label), UNCHANGED locals, pc[w] \in AtCard,
           label = "resolve" => w \notin Batches,
           label # "scan" => scanned[w] = {},
           label \in {"copy", "reverify", "store"} =>
               Still(w, place[w].folder, place[w].uid, mid[w])',
           label = "expunge" => Doomed(w, place[w].folder, place[w].uid, mid[w])',
           label = "drop" => Seen(w, place[w].folder, mid[w])',
           w \in Batches => Seen(w, source[w], mid[w])
    PROVE  WorkerInv(w)' /\ \A v \in Workers \ {w} : Same(v)
<1> USE DEF WorkerInv
<1>0. pc'[w] = label /\ uids'[w] = uids[w] /\ LocalTypes
  BY TypesAre DEF Goto, LocalTypes, Steady, locals, batch
<1>1. SameHeld(w) /\ \A v \in Workers \ {w} : Same(v)
  BY <1>0 DEF SameHeld, Same, locals, batch, Goto, LocalTypes
<1>2. /\ pc[w] # "idle" /\ label # "idle" /\ pc[w] \notin AtChunk /\ label \notin AtChunk
      /\ pc[w] # "rows" /\ label # "rows"
  BY LabelsAre
<1>3. Held(w)' /\ Phased(w)' /\ Meant(w)'
  BY <1>0, <1>1, <1>2 DEF Held, Phased, Meant, Work, SameHeld, Steady
<1>4. Claimed(w)'
  BY <1>0, <1>1, <1>2, ClaimsKept DEF Claimed, SameHeld
<1>5. CardAccounted(w)'
  BY <1>0, <1>1, <1>2, AccountsKept DEF CardAccounted, SameHeld
<1>6. ChunkAccounted(w)'
  <2>1. label \notin {"batchcopy", "refilter", "batchstore", "batchexpunge"}
    BY <1>2 DEF AtChunk
  <2> QED BY <1>0, <1>1, <1>2, <2>1, AccountsKept DEF ChunkAccounted
<1> QED BY <1>1, <1>2, <1>3, <1>4, <1>5, <1>6, AccountsKept DEF Accounted

-----------------------------------------------------------------------------
(* Whoever steps, the server evolves and every busy worker's history grows. *)

Watched == Steady /\ \A v \in Workers : Noted(v)

LEMMA WatchRests ==
    ASSUME TypeOK, Numbered, UNCHANGED <<server, gone>>, asked \subseteq asked'
    PROVE  Watched
<1>1. ServerTypes' /\ Evolves
  BY TypesAre, ServerRests DEF ServerTypes, server
<1>2. ASSUME NEW v \in Workers PROVE Noted(v)
  BY DEF Noted, server
<1> QED BY <1>1, <1>2 DEF Watched, Steady

LEMMA WatchNotes ==
    ASSUME TypeOK, ServerTypes', Evolves, Note(box'), asked \subseteq asked'
    PROVE  Watched
  BY TypesAre, NoteNotes DEF Watched, Steady

LEMMA EnvironmentWatched ==
    ASSUME TypeOK, Numbered, Environment
    PROVE  Watched
<1> USE TypesAre
<1>1. ASSUME NEW m \in Mids, NEW d \in {"TO_DELETE", "TO_ARCHIVE"}, Decide(m, d)
      PROVE  Watched
  BY <1>1, WatchRests DEF Decide
<1>2. ASSUME NEW f \in Folders, NEW g \in Folders, NEW e \in box[f], UserMove(e, f, g)
      PROVE  Watched
  <2>1. ServerTypes' /\ Evolves /\ Note(box')
    BY <1>2, UserMoveEvolves
  <2>2. asked' = asked
    BY <1>2 DEF UserMove
  <2> QED BY <2>1, <2>2, WatchNotes
<1>3. ASSUME NEW f \in Folders, NEW e \in box[f], UserDelete(e, f)
      PROVE  Watched
  <2>1. ServerTypes' /\ Evolves /\ Note(box')
    BY <1>3, UserDeleteEvolves
  <2>2. asked \subseteq asked'
    BY <1>3 DEF UserDelete
  <2> QED BY <2>1, <2>2, WatchNotes
<1> QED BY <1>1, <1>2, <1>3 DEF Environment

LEMMA OneCardWatched ==
    ASSUME TypeOK, Numbered, NEW w \in Workers, Held(w), OneCard(w)
    PROVE  Watched /\ asked' = asked
<1> USE TypesAre
<1>0. asked' = asked
  BY DEF OneCard, Resolve, ScanFolder, ScanEnds, NoteSource, Verify, CopyMessage,
         Reverify, StoreDeleted, ExpungeFolder
<1>1. pc[w] \in AtCard => place[w].folder \in Folders /\ {place[w].uid} \subseteq Uids
  BY WorkTyped
<1>2. CASE CopyMessage(w)
  <2>1. CASE Copy(place[w].folder, {place[w].uid})
    <3>1. ServerTypes' /\ Evolves /\ Note(box')
      BY <1>1, <1>2, <2>1, CopyEvolves DEF CopyMessage, AtCard
    <3> QED BY <1>0, <3>1, WatchNotes
  <2>2. CASE UNCHANGED <<box, uidNext, gone>>
    BY <1>0, <1>2, <2>2, WatchRests DEF CopyMessage, server
  <2> QED BY <1>2, <2>1, <2>2 DEF CopyMessage
<1>3. CASE StoreDeleted(w)
  <2>1. ServerTypes' /\ Evolves
    BY <1>1, <1>3, FlagEvolves DEF StoreDeleted, AtCard
  <2>2. \A v \in Workers : Noted(v)
    BY <1>3 DEF StoreDeleted, Noted
  <2> QED BY <1>0, <2>1, <2>2 DEF Watched, Steady
<1>4. CASE ExpungeFolder(w)
  <2>1. ServerTypes' /\ Evolves /\ Note(box')
    BY <1>1, <1>4, ExpungeEvolves DEF ExpungeFolder, AtCard
  <2> QED BY <1>0, <2>1, WatchNotes
<1>5. CASE UNCHANGED <<server, gone>>
  BY <1>0, <1>5, WatchRests
<1> QED BY <1>0, <1>2, <1>3, <1>4, <1>5
        DEF OneCard, Resolve, ScanFolder, ScanEnds, NoteSource, Verify, Reverify

\* A new run starts its history afresh; it was idle, and relied on nothing.
LEMMA BeginWatched ==
    ASSUME TypeOK, Numbered, NEW w \in Workers, NEW o, Begin(w, o), UNCHANGED server,
           asked \subseteq asked'
    PROVE  Watched
<1>1. ServerTypes' /\ Evolves
  BY TypesAre, ServerRests DEF ServerTypes, server
<1>2. ASSUME NEW v \in Workers PROVE Noted(v)
  BY TypesAre DEF Begin, Noted, server, HistoryTypes
<1> QED BY <1>1, <1>2 DEF Watched, Steady

LEMMA HandlerWatched ==
    ASSUME TypeOK, Numbered, NEW h \in Handlers, Held(h), Handler(h)
    PROVE  Watched
<1>0. h \in Workers
  BY DEF Workers
<1>1. ASSUME NEW o \in Ops, NEW m \in Mids, Request(h, o, m)
      PROVE  Watched
  BY <1>0, <1>1, BeginWatched DEF Request
<1>2. CASE DropCard(h) \/ Fail(h)
  BY <1>2, WatchRests DEF DropCard, Fail
<1> QED BY <1>0, <1>1, <1>2, OneCardWatched DEF Handler

LEMMA BatchWatched ==
    ASSUME TypeOK, Numbered, NEW b \in Batches, Held(b), Batch(b)
    PROVE  Watched
<1> USE TypesAre
<1>0. /\ b \in Workers
      /\ pc[b] \in AtChunk => source[b] \in Folders /\ uids[b] \subseteq Uids
  BY DEF Workers, Held, LocalTypes
<1>1. ASSUME NEW o \in Ops, Collect(b, o) PROVE Watched
  <2>1. asked \subseteq asked'
    BY <1>1 DEF Collect
  <2> QED BY <1>0, <1>1, <2>1, BeginWatched DEF Collect
<1>2. CASE CopyChunk(b)
  <2>1. CASE Copy(source[b], uids[b])
    <3>1. ServerTypes' /\ Evolves /\ Note(box')
      BY <1>0, <1>2, <2>1, CopyEvolves DEF CopyChunk, AtChunk
    <3> QED BY <1>2, <3>1, WatchNotes DEF CopyChunk
  <2>2. CASE UNCHANGED <<box, uidNext, gone>>
    BY <1>2, <2>2, WatchRests DEF CopyChunk, server
  <2> QED BY <1>2, <2>1, <2>2 DEF CopyChunk
<1>3. CASE StoreChunk(b)
  <2>1. ServerTypes' /\ Evolves
    BY <1>0, <1>3, FlagEvolves DEF StoreChunk, AtChunk
  <2>2. \A v \in Workers : Noted(v)
    BY <1>3 DEF StoreChunk, Noted
  <2> QED BY <1>3, <2>1, <2>2 DEF Watched, Steady, StoreChunk
<1>4. CASE ExpungeChunk(b)
  <2>1. ServerTypes' /\ Evolves /\ Note(box')
    BY <1>0, <1>4, ExpungeEvolves DEF ExpungeChunk, AtChunk
  <2> QED BY <1>4, <2>1, WatchNotes DEF ExpungeChunk
<1>5. CASE UNCHANGED <<server, gone, asked>>
  BY <1>5, WatchRests
<1>6. ASSUME NEW r \in rows[b], TakeRow(b, r) PROVE UNCHANGED <<server, gone, asked>>
  BY <1>6 DEF TakeRow
<1>7. ASSUME NEW c \in SUBSET resolved[b], TakeChunk(b, c)
      PROVE  UNCHANGED <<server, gone, asked>>
  BY <1>7 DEF TakeChunk
<1>8. ASSUME NEW m \in dropping[b], DropRow(b, m) PROVE UNCHANGED <<server, gone, asked>>
  BY <1>8 DEF DropRow
<1>9. RowSettled(b) \/ FilterChunk(b) \/ RefilterChunk(b) \/ ChunkSettled(b)
      \/ BatchEnds(b) \/ Fail(b) => UNCHANGED <<server, gone, asked>>
  BY DEF RowSettled, FilterChunk, RefilterChunk, ChunkSettled, BatchEnds, Fail
<1> QED BY <1>0, <1>1, <1>2, <1>3, <1>4, <1>5, <1>6, <1>7, <1>8, <1>9, OneCardWatched
        DEF Batch

-----------------------------------------------------------------------------
(* One card: each step leaves its worker with what the next one needs.     *)

\* The history starts with what is apart: an empty search has been noted.
LEMMA EmptySearch ==
    ASSUME NEW w, Apart(box) \subseteq gone[w],
           NEW f \in Folders, NEW m \in Mids, Hits(f, m) = {}
    PROVE  Seen(w, f, m)
<1>1. \A e \in box[f] : e.mid # m
  BY DEF Hits
<1>2. <<f, m>> \in Apart(box)
  BY <1>1 DEF Apart
<1> QED BY <1>2 DEF Seen

\* A hit is a UID of the message, and of no other.
LEMMA HitClaims ==
    ASSUME ServerTypes, Numbered, NEW f \in Folders, NEW m, NEW u \in Hits(f, m)
    PROVE  Claim(f, u, m) /\ Holds(f, u) /\ u \in Uids
<1>1. PICK e \in box[f] : e.mid = m /\ e.uid = u
  BY DEF Hits
<1> QED BY <1>1 DEF Claim, Holds, Numbered, ServerTypes, Entries

LEMMA NotFoundInv ==
    ASSUME Watched, NEW w \in Workers, WorkerInv(w), pc[w] \in AtCard, NotFound(w),
           w \in Batches => Seen(w, source[w], mid[w])
    PROVE  WorkerInv(w)' /\ \A v \in Workers \ {w} : Same(v)
<1>1. CASE retry[w]
  BY <1>1, FinishInv, TypesAre DEF NotFound, Watched, Steady
<1>2. CASE ~retry[w]
  <2>1. Goto(w, "scan") /\ UNCHANGED locals
    BY <1>2 DEF NotFound
  <2> QED BY <2>1, CardMoves DEF Watched, AtCard
<1> QED BY <1>1, <1>2

LEMMA ResolveInv ==
    ASSUME Watched, Numbered, NEW w \in Workers, WorkerInv(w), Resolve(w)
    PROVE  WorkerInv(w)' /\ \A v \in Workers \ {w} : Same(v)
<1> DEFINE f == place[w].folder
           u == place[w].uid
<1> USE TypesAre DEF WorkerInv, Watched, Steady
<1>1. /\ pc[w] = "resolve" /\ pc[w] \in AtCard /\ pc[w] # "idle"
      /\ UNCHANGED <<server, database, bounds, asked, gone>>
  BY DEF Resolve, AtCard
<1>2. mid[w] \in Mids /\ f \in Folders /\ u \in Uids /\ place[w] \in Places
  BY <1>1 DEF Held, Places
<1>3. Claim(f, u, mid[w])
  BY <1>1 DEF Claimed
<1>4. Apart(box) \subseteq gone[w]
  BY <1>1 DEF Accounted
<1>5. w \in Batches => f = source[w] /\ ~retry[w] /\ source[w] \in Folders
  BY <1>1 DEF Phased, Held
<1>6. CASE ~Holds(f, u) /\ Hits(f, mid[w]) = {} /\ NotFound(w)
  <2>1. Seen(w, f, mid[w])
    BY <1>2, <1>4, <1>6, EmptySearch
  <2> HIDE DEF f
  <2>2. w \in Batches => Seen(w, source[w], mid[w])
    BY <1>5, <2>1
  <2> QED BY <1>1, <1>6, <2>2, NotFoundInv
<1>7. ASSUME NEW v \in Uids, Resolves(f, u, mid[w], v)
      PROVE  Claim(f, v, mid[w]) /\ Holds(f, v)
  <2>1. CASE Holds(f, u)
    BY <1>3, <1>7, <2>1 DEF Resolves
  <2>2. CASE ~Holds(f, u)
    BY <1>2, <1>7, <2>2, HitClaims DEF Resolves, First
  <2> QED BY <2>1, <2>2
<1>8. ASSUME NEW v \in Uids, Resolves(f, u, mid[w], v), w \in Batches,
             resolved' = [resolved EXCEPT ![w] = @ \cup {[mid |-> mid[w], uid |-> v]}],
             Goto(w, "rows"),
             UNCHANGED <<op, mid, place, scanned, retry, source, rows, chunk, uids,
                         dropping>>
      PROVE  WorkerInv(w)' /\ \A x \in Workers \ {w} : Same(x)
  <2>1. Claim(source[w], v, mid[w]) /\ Holds(source[w], v)
    BY <1>5, <1>7, <1>8
  <2> DEFINE r == [mid |-> mid[w], uid |-> v]
  <2>2. resolved'[w] = resolved[w] \cup {r} /\ pc'[w] = "rows" /\ r.mid = mid[w]
        /\ r.uid = v
    BY <1>8 DEF LocalTypes, Goto
  <2> HIDE DEF r
  <2>3. \A x \in Workers \ {w} : Same(x)
    BY <1>8 DEF Same, Goto, LocalTypes
  <2>4. "rows" \notin AtCard /\ "rows" \notin AtChunk
    BY LabelsAre
  <2>5. Work(w)' = Work(w) \cup {r}
    BY <1>8, <2>2 DEF Work
  <2>6. \A g, x, m : /\ Claim(g, x, m) => Claim(g, x, m)'
                     /\ Seen(w, g, m) => Seen(w, g, m)'
                     /\ Still(w, g, x, m) => Still(w, g, x, m)'
    BY <1>1 DEF Claim, Seen, Still, Holds, server
  <2>7. Held(w)'
    BY <1>1, <1>5, <1>8, <2>2, <2>4, <2>5 DEF Held
  <2>8. Phased(w)'
    BY <1>1, <1>8, <2>2, <2>4, LabelsAre DEF Phased
  <2>9. Claimed(w)'
    BY <1>8, <2>1, <2>2, <2>4, <2>5, <2>6 DEF Claimed
  <2>10. Meant(w)'
    BY <1>1, <1>8, <2>2, <2>4, <2>5 DEF Meant
  <2>11. CardAccounted(w)'
    <3>1. scanned[w] = {}
      BY <1>1 DEF Held
    <3> QED BY <1>8, <2>2, <2>4, <3>1 DEF CardAccounted
  <2>12. ChunkAccounted(w)'
    <3>1. Still(w, source[w], v, mid[w]) /\ v # 0
      BY <2>1 DEF Still, Uids
    <3> QED BY <1>1, <1>8, <2>2, <2>5, <2>6, <3>1
            DEF ChunkAccounted, Accounted
  <2>13. (Apart(box) \subseteq gone[w])'
    BY <1>1, <1>4 DEF server, Apart
  <2> QED BY <2>3, <2>7, <2>8, <2>9, <2>10, <2>11, <2>12, <2>13 DEF Accounted
<1>9. ASSUME NEW v \in Uids, Resolves(f, u, mid[w], v), w \notin Batches,
             place' = [place EXCEPT ![w].uid = v], Goto(w, "verify"),
             UNCHANGED <<op, mid, scanned, retry, batch>>
      PROVE  WorkerInv(w)' /\ \A x \in Workers \ {w} : Same(x)
  <2>1. /\ pc'[w] = "verify"
        /\ place'[w].folder = f /\ place'[w].uid = v /\ place'[w] \in Places
    BY <1>2, <1>9 DEF LocalTypes, Goto, Places
  <2>2. \A x \in Workers \ {w} : Same(x)
    BY <1>9 DEF Same, Goto, LocalTypes, batch
  <2>3. Claim(f, v, mid[w])'
    BY <1>1, <1>7, <1>9 DEF Claim, server
  <2>4. "verify" \in AtCard /\ "verify" \notin AtChunk
    BY DEF AtCard, AtChunk
  <2>5. \A g, x, m : /\ Claim(g, x, m) => Claim(g, x, m)'
                     /\ Seen(w, g, m) => Seen(w, g, m)'
                     /\ Still(w, g, x, m) => Still(w, g, x, m)'
    BY <1>1 DEF Claim, Seen, Still, Holds, server
  <2>6. Held(w)'
    BY <1>1, <1>2, <1>9, <2>1, <2>4 DEF Held, Work, batch
  <2>7. Phased(w)'
    BY <1>1, <1>9, <2>1, <2>4, LabelsAre DEF Phased, batch
  <2>8. Claimed(w)'
    BY <1>9, <2>1, <2>3, <2>5 DEF Claimed, Work, batch
  <2>9. Meant(w)'
    BY <1>1, <1>9, <2>1 DEF Meant, Work, batch
  <2>10. CardAccounted(w)' /\ (Apart(box) \subseteq gone[w])'
    BY <1>1, <1>4, <1>9, <2>1, <2>5 DEF CardAccounted, Accounted, Apart, server
  <2>11. ChunkAccounted(w)'
    BY <1>1, <1>9, <2>1, <2>5 DEF ChunkAccounted, Accounted, Work, batch
  <2> QED BY <2>2, <2>6, <2>7, <2>8, <2>9, <2>10, <2>11 DEF Accounted
<1> QED BY <1>6, <1>8, <1>9 DEF Resolve

\* Nothing changes on the server: whatever is relied on stays so.
LEMMA RestKeeps ==
    ASSUME UNCHANGED <<server, gone>>, NEW w
    PROVE  /\ \A f, u, m : /\ Claim(f, u, m) => Claim(f, u, m)'
                           /\ Seen(w, f, m) => Seen(w, f, m)'
                           /\ Still(w, f, u, m) => Still(w, f, u, m)'
           /\ Apart(box) \subseteq gone[w] => (Apart(box) \subseteq gone[w])'
  BY DEF Claim, Seen, Still, Holds, server, Apart

LEMMA ScanFolderInv ==
    ASSUME Watched, Numbered, NEW w \in Workers, WorkerInv(w),
           NEW f \in Folders, ScanFolder(w, f)
    PROVE  WorkerInv(w)' /\ \A v \in Workers \ {w} : Same(v)
<1> USE TypesAre DEF WorkerInv, Watched, Steady
<1>1. /\ pc[w] = "scan" /\ pc[w] \in AtCard /\ pc[w] # "idle"
      /\ UNCHANGED <<server, database, op, mid, batch, bounds, asked, gone>>
  BY DEF ScanFolder, AtCard
<1>2. mid[w] \in Mids /\ Apart(box) \subseteq gone[w]
  BY <1>1 DEF Held, Accounted
<1>3. \A v \in Workers \ {w} : Same(v)
  BY <1>1 DEF ScanFolder, Same, Goto, LocalTypes, batch
<1>4. CASE Hits(f, mid[w]) # {}
  <2>1. PICK u \in Hits(f, mid[w]) :
           place' = [place EXCEPT ![w] = [folder |-> f, uid |-> u]]
    BY <1>4 DEF ScanFolder
  <2>2. Claim(f, u, mid[w]) /\ u \in Uids
    BY <1>2, HitClaims
  <2>3. /\ pc'[w] = "note" /\ place'[w] = [folder |-> f, uid |-> u]
        /\ scanned'[w] = {}
    BY <1>1, <1>4, <2>1 DEF ScanFolder, Goto, LocalTypes
  <2>4. "note" \in AtCard /\ "note" \notin AtChunk
    BY DEF AtCard, AtChunk
  <2>5. Held(w)'
    BY <1>1, <1>2, <2>2, <2>3, <2>4 DEF Held, Work, batch, Places
  <2>6. Phased(w)' /\ Meant(w)'
    BY <1>1, <2>3, <2>4, LabelsAre DEF Phased, Meant, Work, batch
  <2>7. Claimed(w)'
    BY <1>1, <2>2, <2>3, RestKeeps DEF Claimed, Work, batch
  <2>8. CardAccounted(w)' /\ ChunkAccounted(w)'
    BY <1>1, <2>3, RestKeeps
    DEF CardAccounted, ChunkAccounted, Accounted, Work, batch
  <2> QED BY <1>1, <1>2, <1>3, <2>5, <2>6, <2>7, <2>8, RestKeeps DEF Accounted
<1>5. CASE Hits(f, mid[w]) = {}
  <2>1. Seen(w, f, mid[w])
    BY <1>2, <1>5, EmptySearch
  <2>2. /\ scanned'[w] = scanned[w] \cup {f}
        /\ pc' = pc /\ place' = place /\ retry' = retry
    BY <1>5 DEF ScanFolder, LocalTypes
  <2>3. Held(w)' /\ Phased(w)' /\ Meant(w)'
    BY <1>1, <2>2 DEF Held, Phased, Meant, Work, Group, batch
  <2>4. Claimed(w)'
    BY <1>1, <2>2, RestKeeps DEF Claimed, Work, batch
  <2>5. CardAccounted(w)' /\ ChunkAccounted(w)'
    BY <1>1, <2>1, <2>2, RestKeeps
    DEF CardAccounted, ChunkAccounted, Accounted, Work, batch
  <2> QED BY <1>1, <1>2, <1>3, <2>3, <2>4, <2>5, RestKeeps DEF Accounted
<1> QED BY <1>4, <1>5

LEMMA ScanEndsInv ==
    ASSUME Watched, Numbered, NEW w \in Workers, WorkerInv(w), ScanEnds(w)
    PROVE  WorkerInv(w)' /\ \A v \in Workers \ {w} : Same(v)
<1> USE TypesAre DEF WorkerInv, Watched, Steady
<1>1. /\ pc[w] = "scan" /\ pc[w] \in AtCard /\ pc[w] # "idle" /\ scanned[w] = Folders
      /\ UNCHANGED <<server, database, op, mid, place, retry, batch, bounds, asked, gone>>
  BY DEF ScanEnds, AtCard
<1>2. /\ mid[w] \in Mids /\ place[w].folder \in Folders
      /\ Apart(box) \subseteq gone[w] /\ Seen(w, place[w].folder, mid[w])
  BY <1>1 DEF Held, Accounted, CardAccounted, Places
<1>3. \A v \in Workers \ {w} : Same(v)
  BY <1>1 DEF ScanEnds, Same, Goto, LocalTypes, batch
<1>4. pc'[w] = "drop" /\ scanned'[w] = {}
  BY DEF ScanEnds, Goto, LocalTypes
<1>5. "drop" \in AtCard /\ "drop" \notin AtChunk
  BY DEF AtCard, AtChunk
<1>6. Held(w)'
  BY <1>1, <1>4, <1>5 DEF Held, Work, batch
<1>7. Phased(w)' /\ Meant(w)'
  BY <1>1, <1>4, <1>5, LabelsAre DEF Phased, Meant, Work, batch
<1>8. Claimed(w)'
  BY <1>1, <1>4, RestKeeps DEF Claimed, Work, batch
<1>9. CardAccounted(w)' /\ ChunkAccounted(w)'
  BY <1>1, <1>2, <1>4, RestKeeps
  DEF CardAccounted, ChunkAccounted, Accounted, Work, batch
<1> QED BY <1>1, <1>2, <1>3, <1>6, <1>7, <1>8, <1>9, RestKeeps DEF Accounted

\* What a claim says of the message a worker acts on, once it is taken away.
LEMMA DoomedGoes ==
    ASSUME ServerTypes, Numbered, NEW w \in Workers, pc[w] # "idle", Noted(w),
           NEW f \in Folders, Expunge(f), UNCHANGED uidNext,
           NEW u, NEW m, Claim(f, u, m), Doomed(w, f, u, m)
    PROVE  Seen(w, f, m)'
<1>1. CASE Seen(w, f, m)
  BY <1>1, SeenStays
<1>2. CASE Holds(f, u) /\ <<f, u>> \in flagged
  <2>1. PICK e \in box[f] : e.uid = u
    BY <1>2 DEF Holds
  <2>2. e.mid = m /\ e \notin box'[f]
    BY <1>2, <2>1, ExpungeEvolves DEF Claim
  <2> QED BY <2>1, <2>2 DEF Noted, Seen
<1> QED BY <1>1, <1>2 DEF Doomed

LEMMA OneCardInv ==
    ASSUME Watched, Numbered, NEW w \in Workers, WorkerInv(w), OneCard(w)
    PROVE  WorkerInv(w)' /\ \A v \in Workers \ {w} : Same(v)
<1> DEFINE f == place[w].folder
           u == place[w].uid
<1> USE TypesAre
<1>0. /\ TypeOK /\ ServerTypes /\ LocalTypes /\ Steady /\ Noted(w)
      /\ Held(w) /\ Claimed(w) /\ Accounted(w)
  BY DEF Watched, Steady, WorkerInv
<1>1. pc[w] \in AtCard =>
         /\ pc[w] # "idle" /\ f \in Folders /\ u \in Uids
         /\ Claim(f, u, mid[w])
         /\ pc[w] # "scan" => scanned[w] = {}
         /\ CardAccounted(w)
         /\ \A g, m : Seen(w, g, m) => Seen(w, g, m)'
  <2>1. pc[w] \in AtCard => pc[w] # "idle"
    BY LabelsAre
  <2>2. pc[w] \in AtCard => f \in Folders /\ u \in Uids
    BY <1>0, WorkTyped
  <2>3. pc[w] \in AtCard => \A g, m : Seen(w, g, m) => Seen(w, g, m)'
    BY <1>0, <2>1, SeenStays
  <2> QED BY <1>0, <2>1, <2>2, <2>3 DEF Claimed, Accounted, Held
<1>2. CASE NoteSource(w)
  <2>1. pc[w] = "note" /\ pc[w] \in AtCard /\ UNCHANGED locals
    BY <1>2 DEF NoteSource, AtCard
  <2>2. w \in Batches => Seen(w, source[w], mid[w])
    BY <1>1, <2>1 DEF CardAccounted
  <2>3. PICK label \in {"resolve", "verify"} :
           Goto(w, label) /\ (w \in Batches => label = "verify")
    <3>1. Goto(w, IF op[w] = "archive" /\ w \in Handlers THEN "resolve" ELSE "verify")
      BY <1>2 DEF NoteSource
    <3> QED BY <3>1, CardActionsAssumption
  <2>4. label \in AtCard
    BY DEF AtCard
  <2> QED BY <1>0, <1>1, <2>1, <2>2, <2>3, <2>4, CardMoves
<1>3. CASE Verify(w)
  <2>1. pc[w] = "verify" /\ pc[w] \in AtCard /\ UNCHANGED <<server, gone>>
    BY <1>3 DEF Verify, AtCard
  <2>2. w \in Batches => Seen(w, source[w], mid[w])
    BY <1>1, <2>1 DEF CardAccounted
  <2>3. CASE Holds(f, u)
    <3>1. Goto(w, IF op[w] = "archive" THEN "copy" ELSE "store") /\ UNCHANGED locals
      BY <1>3, <2>3 DEF Verify
    <3>2. Still(w, f, u, mid[w])'
      BY <2>1, <2>3, <3>1 DEF Still, Holds, server, locals
    <3> QED BY <1>0, <1>1, <2>1, <2>2, <3>1, <3>2, CardMoves DEF AtCard
  <2>4. CASE ~Holds(f, u)
    BY <1>3, <2>1, <2>2, <2>4, NotFoundInv DEF Verify
  <2> QED BY <2>3, <2>4
<1>4. CASE CopyMessage(w)
  <2>1. pc[w] = "copy" /\ pc[w] \in AtCard
    BY <1>4 DEF CopyMessage, AtCard
  <2>2. /\ w \in Batches => Seen(w, source[w], mid[w])
        /\ Still(w, f, u, mid[w])
    BY <1>1, <2>1 DEF CardAccounted, AtCard
  <2>3. CASE Goto(w, "reverify") /\ UNCHANGED locals
    <3>1. SameHeld(w)
      BY <2>3 DEF SameHeld, locals, batch
    <3>2. Still(w, f, u, mid[w])'
      BY <1>0, <1>1, <2>1, <2>2, <3>1, AccountsKept
    <3> QED BY <1>0, <1>1, <2>1, <2>2, <2>3, <3>2, CardMoves DEF AtCard
  <2>4. CASE NotFound(w)
    BY <2>1, <2>2, <2>4, NotFoundInv
  <2> QED BY <1>4, <2>3, <2>4 DEF CopyMessage
<1>5. CASE Reverify(w)
  <2>1. pc[w] = "reverify" /\ pc[w] \in AtCard /\ UNCHANGED <<server, gone>>
    BY <1>5 DEF Reverify, AtCard
  <2>2. w \in Batches => Seen(w, source[w], mid[w])
    BY <1>1, <2>1 DEF CardAccounted
  <2>3. CASE Holds(f, u)
    <3>1. Goto(w, "store") /\ UNCHANGED locals
      BY <1>5, <2>3 DEF Reverify
    <3>2. Still(w, f, u, mid[w])'
      BY <2>1, <2>3, <3>1 DEF Still, Holds, server, locals
    <3> QED BY <1>0, <1>1, <2>1, <2>2, <3>1, <3>2, CardMoves DEF AtCard
  <2>4. CASE ~Holds(f, u)
    BY <1>5, <2>1, <2>2, <2>4, NotFoundInv DEF Reverify
  <2> QED BY <2>3, <2>4
<1>6. CASE StoreDeleted(w)
  <2>1. pc[w] = "store" /\ pc[w] \in AtCard
    BY <1>6 DEF StoreDeleted, AtCard
  <2>2. /\ w \in Batches => Seen(w, source[w], mid[w])
        /\ Still(w, f, u, mid[w])
    BY <1>1, <2>1 DEF CardAccounted, AtCard
  <2>3. /\ Goto(w, "expunge") /\ UNCHANGED locals /\ UNCHANGED <<box, gone>>
        /\ flagged' = flagged \cup {<<f, x>> : x \in {v \in {u} : Holds(f, v)}}
    BY <1>6 DEF StoreDeleted, Flag
  <2>4. f' = f /\ u' = u /\ mid'[w] = mid[w]
    BY <2>3 DEF locals
  <2>5. Holds(f, u) => <<f, u>> \in flagged'
    BY <2>3
  <2> HIDE DEF f, u
  <2>6. Doomed(w, f, u, mid[w])'
    BY <2>2, <2>3, <2>4, <2>5 DEF Still, Doomed, Holds, Seen
  <2> USE DEF f, u
  <2> QED BY <1>0, <1>1, <2>1, <2>2, <2>3, <2>6, CardMoves DEF AtCard
<1>7. CASE ExpungeFolder(w)
  <2>1. pc[w] = "expunge" /\ pc[w] \in AtCard
    BY <1>7 DEF ExpungeFolder, AtCard
  <2>2. /\ w \in Batches => Seen(w, source[w], mid[w])
        /\ Doomed(w, f, u, mid[w])
    BY <1>1, <2>1 DEF CardAccounted, AtCard
  <2>3. Goto(w, "drop") /\ UNCHANGED locals /\ Expunge(f) /\ UNCHANGED uidNext
    BY <1>7 DEF ExpungeFolder
  <2>4. Seen(w, f, mid[w])'
    BY <1>0, <1>1, <2>1, <2>2, <2>3, DoomedGoes DEF locals, Seen
  <2> QED BY <1>0, <1>1, <2>1, <2>2, <2>3, <2>4, CardMoves DEF AtCard
<1>8. ASSUME NEW g \in Folders, ScanFolder(w, g)
      PROVE  WorkerInv(w)' /\ \A v \in Workers \ {w} : Same(v)
  BY <1>8, ScanFolderInv
<1> QED BY <1>2, <1>3, <1>4, <1>5, <1>6, <1>7, <1>8, ResolveInv, ScanEndsInv
        DEF OneCard

-----------------------------------------------------------------------------
(* A whole column.                                                         *)

\* What a batch holds of its group, s being the folder of it.
LEMMA GroupKept ==
    ASSUME Watched, NEW b \in Workers, pc[b] # "idle", WorkerInv(b),
           NEW s, s = source[b]
    PROVE  /\ (Apart(box) \subseteq gone[b])'
           /\ \A r \in rows[b] : Claim(r.folder, r.uid, r.mid)'
           /\ \A r \in Work(b) :
                 /\ r.uid # 0 => Claim(s, r.uid, r.mid)'
                 /\ IF r.uid = 0 THEN Seen(b, s, r.mid)'
                                 ELSE Still(b, s, r.uid, r.mid)'
           /\ \A m \in dropping[b] : Seen(b, s, m)'
           /\ \A f, m : Seen(b, f, m) => Seen(b, f, m)'
<1> USE TypesAre DEF Watched, Steady, WorkerInv
<1>1. \A f, m : Seen(b, f, m) => Seen(b, f, m)'
  BY SeenStays
<1>2. \A r \in rows[b] : Claim(r.folder, r.uid, r.mid)'
  BY WorkTyped, ClaimStays DEF Claimed
<1>3. \A r \in Work(b) : r.uid # 0 =>
         s \in Folders /\ Claim(s, r.uid, r.mid) /\ Still(b, s, r.uid, r.mid)
  BY DEF Claimed, Held, Accounted, ChunkAccounted
<1>4. \A r \in Work(b) : r.uid # 0 => Claim(s, r.uid, r.mid)'
  BY <1>3, WorkTyped, ClaimStays
<1>5. \A r \in Work(b) : r.uid # 0 => Still(b, s, r.uid, r.mid)'
  BY <1>3, StillStays
<1>6. \A r \in Work(b) : r.uid = 0 => Seen(b, s, r.mid)'
  BY <1>1 DEF Accounted, ChunkAccounted
<1>7. \A m \in dropping[b] : Seen(b, s, m)'
  BY <1>1 DEF Accounted, ChunkAccounted
<1>8. (Apart(box) \subseteq gone[b])'
  BY DEF Accounted, Noted, Apart
<1> QED BY <1>1, <1>2, <1>4, <1>5, <1>6, <1>7, <1>8

\* Between two steps on a chunk its part in work may shrink, and nothing else.
LEMMA ChunkMoves ==
    ASSUME Watched, NEW b \in Workers, WorkerInv(b), pc[b] \in AtChunk,
           NEW label \in AtChunk, label # "settle", Goto(b, label),
           UNCHANGED <<op, mid, place, scanned, retry, source, rows, resolved, chunk,
                       dropping>>,
           NEW us \in SUBSET {r.uid : r \in chunk[b]}, uids' = [uids EXCEPT ![b] = us],
           label \in {"batchcopy", "refilter", "batchstore"} =>
               \A r \in chunk[b] : r.uid \in us \/ Seen(b, source[b], r.mid)',
           label = "batchexpunge" =>
               \A r \in chunk[b] : Doomed(b, source[b], r.uid, r.mid)'
    PROVE  WorkerInv(b)' /\ \A v \in Workers \ {b} : Same(v)
<1> USE TypesAre DEF Watched, Steady, WorkerInv
<1>1. /\ pc'[b] = label /\ uids'[b] = us
      /\ pc[b] # "idle" /\ pc[b] # "rows" /\ pc[b] \notin AtCard
      /\ label # "idle" /\ label # "rows" /\ label \notin AtCard /\ label # "drop"
  BY LabelsAre DEF Goto, LocalTypes, AtCard
<1>2. \A v \in Workers \ {b} : Same(v)
  BY DEF Goto, LocalTypes, Same
<1>3. Held(b)' /\ Phased(b)' /\ Meant(b)'
  BY <1>1 DEF Held, Phased, Meant, Work, Group, AtCard
<1>4. Claimed(b)'
  BY <1>1, GroupKept DEF Claimed, Work
<1>5. CardAccounted(b)'
  BY <1>1, GroupKept DEF CardAccounted, Held, AtCard
<1>6. ChunkAccounted(b)'
  <2>1. \A r \in Work(b) : IF r.uid = 0 THEN Seen(b, source[b], r.mid)'
                           ELSE Still(b, source[b], r.uid, r.mid)'
    BY <1>1, GroupKept
  <2>2. \A m \in dropping[b] : Seen(b, source[b], m)'
    BY <1>1, GroupKept
  <2> QED BY <1>1, <2>1, <2>2 DEF ChunkAccounted, Work
<1> QED BY <1>1, <1>2, <1>3, <1>4, <1>5, <1>6, GroupKept DEF Accounted

\* A chunk is done once all its messages have been seen to go.
LEMMA ChunkDoneInv ==
    ASSUME Watched, NEW b \in Workers, WorkerInv(b), pc[b] \in AtChunk,
           ChunkDone(b), \A r \in chunk[b] : Seen(b, source[b], r.mid)'
    PROVE  WorkerInv(b)' /\ \A v \in Workers \ {b} : Same(v)
<1> USE TypesAre DEF Watched, Steady, WorkerInv
<1>1. /\ pc'[b] = IF op[b] = "archive" /\ resolved[b] # {} THEN "rows" ELSE "settle"
      /\ dropping'[b] = dropping[b] \cup {r.mid : r \in chunk[b]}
      /\ chunk'[b] = {} /\ uids'[b] = {}
      /\ UNCHANGED <<op, mid, place, scanned, retry, source, rows, resolved>>
      /\ pc[b] # "idle" /\ pc[b] # "scan" /\ pc'[b] # "idle"
  BY LabelsAre DEF ChunkDone, Goto, LocalTypes, AtCard
<1>2. \A v \in Workers \ {b} : Same(v)
  BY DEF ChunkDone, Goto, LocalTypes, Same
<1>3. pc'[b] \notin AtCard /\ pc'[b] \in {"rows", "settle"}
  BY <1>1 DEF AtCard
<1>4. Work(b)' = resolved[b] /\ resolved[b] \subseteq Work(b)
  BY <1>1 DEF Work
<1>5. Held(b)'
  BY <1>1, <1>3, <1>4 DEF Held, AtChunk
<1>6. Phased(b)'
  BY <1>1, <1>3 DEF Phased, Group
<1>7. Meant(b)'
  BY <1>1, <1>3, <1>4 DEF Meant
<1>8. Claimed(b)'
  BY <1>1, <1>3, <1>4, GroupKept DEF Claimed
<1>9. CardAccounted(b)'
  BY <1>1, <1>3 DEF CardAccounted, Held, AtCard
<1>10. ChunkAccounted(b)'
  <2>1. \A m \in dropping'[b] : Seen(b, source[b], m)'
    BY <1>1, GroupKept
  <2>2. \A r \in resolved[b] : IF r.uid = 0 THEN Seen(b, source[b], r.mid)'
                               ELSE Still(b, source[b], r.uid, r.mid)'
    BY <1>1, <1>4, GroupKept
  <2> QED BY <1>1, <1>3, <1>4, <2>1, <2>2 DEF ChunkAccounted
<1> QED BY <1>1, <1>2, <1>5, <1>6, <1>7, <1>8, <1>9, <1>10, GroupKept DEF Accounted

\* What a worker on a chunk has of its messages.
LEMMA ChunkHas ==
    ASSUME TypeOK, NEW b \in Workers, WorkerInv(b), pc[b] \in AtChunk
    PROVE  /\ pc[b] # "idle" /\ source[b] \in Folders
           /\ \A r \in chunk[b] :
                 /\ r.uid \in Uids \cup {0}
                 /\ r.uid # 0 => Claim(source[b], r.uid, r.mid)
                 /\ Holds(source[b], r.uid) \/ Seen(b, source[b], r.mid)
                 /\ pc[b] \in {"batchcopy", "refilter", "batchstore"} =>
                       r.uid \in uids[b] \/ Seen(b, source[b], r.mid)
                 /\ pc[b] = "batchexpunge" => Doomed(b, source[b], r.uid, r.mid)
<1> USE TypesAre DEF WorkerInv
<1>1. pc[b] # "idle" /\ source[b] \in Folders
  BY LabelsAre DEF Held
<1> QED BY <1>1, WorkTyped DEF Work, Claimed, Accounted, ChunkAccounted, Still

LEMMA ChunkInv ==
    ASSUME Watched, Numbered, NEW b \in Batches, WorkerInv(b),
           \/ FilterChunk(b) \/ CopyChunk(b) \/ RefilterChunk(b)
           \/ StoreChunk(b) \/ ExpungeChunk(b)
    PROVE  WorkerInv(b)' /\ \A v \in Workers \ {b} : Same(v)
<1> USE TypesAre
<1>0. b \in Workers /\ TypeOK /\ Steady /\ Noted(b) /\ ServerTypes /\ LocalTypes
  BY DEF Workers, Watched, Steady
<1>1. uids[b] \subseteq {r.uid : r \in chunk[b]} /\ uids[b] \subseteq Uids
  BY <1>0 DEF WorkerInv, Claimed, LocalTypes
<1>2. pc[b] \in AtChunk => \A f, m : Seen(b, f, m) => Seen(b, f, m)'
  BY <1>0, ChunkHas, SeenStays
<1>3. FilterChunk(b) \/ CopyChunk(b) \/ RefilterChunk(b) => source' = source
  BY DEF FilterChunk, CopyChunk, RefilterChunk, ChunkDone, locals, batch
<1>4. CASE FilterChunk(b)
  <2> DEFINE valid == {u \in {r.uid : r \in chunk[b]} : Holds(source[b], u)}
  <2>1. pc[b] = "filter" /\ pc[b] \in AtChunk
    BY <1>4 DEF FilterChunk, AtChunk
  <2>2. \A r \in chunk[b] : r.uid \in valid \/ Seen(b, source[b], r.mid)'
    BY <1>0, <1>2, <1>4, <1>3, <2>1, ChunkHas
  <2>3. valid \in SUBSET {r.uid : r \in chunk[b]}
    OBVIOUS
  <2>4. CASE valid = {}
    <3>1. ChunkDone(b)
      BY <1>4, <2>4 DEF FilterChunk
    <3> QED BY <1>0, <2>1, <2>2, <2>4, <3>1, ChunkDoneInv
  <2>5. CASE valid # {}
    <3>1. /\ uids' = [uids EXCEPT ![b] = valid]
          /\ Goto(b, IF op[b] = "archive" THEN "batchcopy" ELSE "batchstore")
          /\ UNCHANGED <<op, mid, place, scanned, retry, source, rows, resolved, chunk,
                         dropping>>
      BY <1>4, <2>5 DEF FilterChunk
    <3> HIDE DEF valid
    <3>2. PICK label \in {"batchcopy", "batchstore"} : Goto(b, label)
      BY <3>1
    <3>3. label \in AtChunk
      BY DEF AtChunk
    <3> QED BY <1>0, <2>1, <2>2, <2>3, <3>1, <3>2, <3>3, ChunkMoves
  <2> QED BY <2>4, <2>5
<1>5. CASE CopyChunk(b)
  <2>1. pc[b] = "batchcopy" /\ pc[b] \in AtChunk /\ "refilter" \in AtChunk
    BY <1>5 DEF CopyChunk, AtChunk
  <2>2. \A r \in chunk[b] : r.uid \in uids[b] \/ Seen(b, source[b], r.mid)'
    BY <1>0, <1>2, <1>5, <1>3, <2>1, ChunkHas
  <2>3. CASE Goto(b, "refilter") /\ UNCHANGED locals
    <3>1. /\ uids' = [uids EXCEPT ![b] = uids[b]]
          /\ UNCHANGED <<op, mid, place, scanned, retry, source, rows, resolved, chunk,
                         dropping>>
      BY <1>0, <2>3 DEF locals, batch, LocalTypes
    <3> QED BY <1>0, <1>1, <2>1, <2>2, <2>3, <3>1, ChunkMoves
  <2>4. CASE (\A u \in uids[b] : ~Holds(source[b], u)) /\ ChunkDone(b)
    <3>1. \A r \in chunk[b] : Seen(b, source[b], r.mid)'
      BY <1>0, <1>2, <1>5, <1>3, <2>1, <2>2, <2>4, ChunkHas
    <3> QED BY <1>0, <2>1, <2>4, <3>1, ChunkDoneInv
  <2> QED BY <1>5, <2>3, <2>4 DEF CopyChunk
<1>6. CASE RefilterChunk(b)
  <2> DEFINE valid == {u \in uids[b] : Holds(source[b], u)}
  <2>1. pc[b] = "refilter" /\ pc[b] \in AtChunk /\ "batchstore" \in AtChunk
    BY <1>6 DEF RefilterChunk, AtChunk
  <2>2. \A r \in chunk[b] : r.uid \in valid \/ Seen(b, source[b], r.mid)'
    BY <1>0, <1>2, <1>6, <1>3, <2>1, ChunkHas
  <2>3. valid \in SUBSET {r.uid : r \in chunk[b]}
    BY <1>1
  <2>4. CASE valid = {}
    <3>1. ChunkDone(b)
      BY <1>6, <2>4 DEF RefilterChunk
    <3> QED BY <1>0, <2>1, <2>2, <2>4, <3>1, ChunkDoneInv
  <2>5. CASE valid # {}
    <3>1. /\ uids' = [uids EXCEPT ![b] = valid]
          /\ Goto(b, "batchstore")
          /\ UNCHANGED <<op, mid, place, scanned, retry, source, rows, resolved, chunk,
                         dropping>>
      BY <1>6, <2>5 DEF RefilterChunk
    <3> HIDE DEF valid
    <3> QED BY <1>0, <2>1, <2>2, <2>3, <3>1, ChunkMoves
  <2> QED BY <2>4, <2>5
<1>7. CASE StoreChunk(b)
  <2>1. pc[b] = "batchstore" /\ pc[b] \in AtChunk /\ "batchexpunge" \in AtChunk
    BY <1>7 DEF StoreChunk, AtChunk
  <2>2. /\ Flag(source[b], uids[b]) /\ Goto(b, "batchexpunge") /\ UNCHANGED locals
        /\ UNCHANGED <<box, gone>>
    BY <1>7 DEF StoreChunk
  <2>3. /\ uids' = [uids EXCEPT ![b] = uids[b]]
        /\ UNCHANGED <<op, mid, place, scanned, retry, source, rows, resolved, chunk,
                       dropping>>
    BY <1>0, <2>2 DEF locals, batch, LocalTypes
  <2>4. ASSUME NEW r \in chunk[b] PROVE Doomed(b, source[b], r.uid, r.mid)'
    <3>1. CASE Seen(b, source[b], r.mid)
      BY <1>2, <2>1, <2>3, <3>1 DEF Doomed
    <3>2. CASE ~Seen(b, source[b], r.mid)
      <4>1. Holds(source[b], r.uid) /\ r.uid \in uids[b]
        BY <1>0, <2>1, <3>2, ChunkHas
      <4>2. <<source[b], r.uid>> \in flagged'
        BY <2>2, <4>1 DEF Flag
      <4> QED BY <2>2, <2>3, <4>1, <4>2 DEF Doomed, Holds
    <3> QED BY <3>1, <3>2
  <2>5. \A r \in chunk[b] : Doomed(b, source[b], r.uid, r.mid)'
    BY <2>4
  <2> QED BY <1>0, <1>1, <2>1, <2>2, <2>3, <2>5, ChunkMoves
<1>8. CASE ExpungeChunk(b)
  <2>1. pc[b] = "batchexpunge" /\ pc[b] \in AtChunk
    BY <1>8 DEF ExpungeChunk, AtChunk
  <2>2. Expunge(source[b]) /\ ChunkDone(b) /\ UNCHANGED uidNext
    BY <1>8 DEF ExpungeChunk
  <2>3. ASSUME NEW r \in chunk[b] PROVE Seen(b, source[b], r.mid)'
    <3>1. CASE Seen(b, source[b], r.mid)
      BY <1>2, <2>1, <2>2, <3>1 DEF ChunkDone
    <3>2. CASE ~Seen(b, source[b], r.mid)
      <4>1. /\ Holds(source[b], r.uid) /\ r.uid \in Uids \cup {0}
            /\ Doomed(b, source[b], r.uid, r.mid)
            /\ source[b] \in Folders /\ pc[b] # "idle"
        BY <1>0, <2>1, <3>2, ChunkHas
      <4>2. r.uid # 0
        BY <1>0, <4>1 DEF Holds, ServerTypes, Entries, Uids
      <4>3. Claim(source[b], r.uid, r.mid)
        BY <1>0, <2>1, <4>2, ChunkHas
      <4> QED BY <1>0, <2>2, <4>1, <4>3, DoomedGoes DEF ChunkDone
    <3> QED BY <3>1, <3>2
  <2>4. \A r \in chunk[b] : Seen(b, source[b], r.mid)'
    BY <2>3
  <2> QED BY <1>0, <2>1, <2>2, <2>4, ChunkDoneInv
<1> QED BY <1>4, <1>5, <1>6, <1>7, <1>8

\* The rows of the database place no message on another's UID.
CardsTrue == \A m \in Mids : cards[m] # None => Claim(cards[m].folder, cards[m].uid, m)

LEMMA RequestInv ==
    ASSUME Watched, CardsTrue, NEW h \in Handlers, WorkerInv(h),
           NEW o \in Ops, NEW m \in Mids, Request(h, o, m)
    PROVE  WorkerInv(h)' /\ \A v \in Workers \ {h} : Same(v)
<1> USE TypesAre DEF Watched, Steady, WorkerInv, Workers
<1>1. /\ pc[h] = "idle" /\ rows[h] = {} /\ resolved[h] = {} /\ chunk[h] = {}
      /\ uids[h] = {} /\ dropping[h] = {} /\ scanned[h] = {}
  BY DEF Request, Begin, Held, Phased, Claimed, AtChunk
<1>2. /\ pc'[h] = "resolve" /\ op'[h] = o /\ mid'[h] = m /\ place'[h] = cards[m]
      /\ gone'[h] = Apart(box) /\ cards[m] # None
      /\ o = "delete" => m \in asked'
      /\ UNCHANGED <<box, uidNext, cards, scanned, source, rows, resolved, chunk, uids,
                     dropping>>
  BY DEF Request, Begin, Goto, LocalTypes, HistoryTypes, server, database, batch
<1>3. \A v \in Workers \ {h} : Same(v)
  BY DEF Request, Begin, Goto, LocalTypes, batch, Same
<1>4. cards[m] \in Places /\ Claim(cards[m].folder, cards[m].uid, m)'
  BY <1>2 DEF CardTypes, CardsTrue, Claim
<1>5. h \notin Batches
  BY CardActionsAssumption
<1>6. "resolve" \in AtCard /\ "resolve" \notin AtChunk
  BY DEF AtCard, AtChunk
<1>7. Held(h)' /\ Phased(h)'
  BY <1>1, <1>2, <1>4, <1>5, <1>6 DEF Held, Phased, Work
<1>8. Claimed(h)' /\ Meant(h)'
  BY <1>1, <1>2, <1>4, <1>6 DEF Claimed, Meant, Work
<1>9. Accounted(h)'
  BY <1>1, <1>2, <1>5 DEF Accounted, CardAccounted, ChunkAccounted, Work, Apart
<1> QED BY <1>3, <1>7, <1>8, <1>9

LEMMA CollectInv ==
    ASSUME Watched, CardsTrue, NEW b \in Batches, WorkerInv(b),
           NEW o \in Ops, Collect(b, o)
    PROVE  WorkerInv(b)' /\ \A v \in Workers \ {b} : Same(v)
<1> DEFINE column == IF o = "delete" THEN "TO_DELETE" ELSE "TO_ARCHIVE"
           collected == {m \in Mids : cards[m] # None /\ decision[m] = column}
           snap == {[mid |-> m, folder |-> cards[m].folder, uid |-> cards[m].uid] :
                       m \in collected}
<1> USE TypesAre DEF Watched, Steady, WorkerInv, Workers
<1>1. /\ pc[b] = "idle" /\ resolved[b] = {} /\ chunk[b] = {}
      /\ uids[b] = {} /\ dropping[b] = {} /\ scanned[b] = {}
  BY DEF Collect, Begin, Held, Phased, Claimed, AtChunk
<1>2. /\ pc'[b] = "rows" /\ op'[b] = o /\ rows'[b] = snap
      /\ gone'[b] = Apart(box) /\ (o = "delete" => collected \subseteq asked')
      /\ UNCHANGED <<box, uidNext, scanned, source, resolved, chunk, uids, dropping>>
  BY DEF Collect, Begin, Goto, LocalTypes, HistoryTypes, server
<1>3. \A v \in Workers \ {b} : Same(v)
  BY DEF Collect, Begin, Goto, LocalTypes, Same
<1>4. \A r \in snap : r.mid \in collected /\ Claim(r.folder, r.uid, r.mid)'
  BY <1>2 DEF CardsTrue, Claim
<1> HIDE DEF snap, collected
<1>5. "rows" \notin AtCard /\ "rows" \notin AtChunk
  BY LabelsAre
<1>6. Held(b)' /\ Phased(b)'
  BY <1>1, <1>2, <1>5 DEF Held, Phased, Work
<1>7. Claimed(b)' /\ Meant(b)'
  BY <1>1, <1>2, <1>4, <1>5 DEF Claimed, Meant, Work
<1>8. Accounted(b)'
  BY <1>1, <1>2, <1>5 DEF Accounted, CardAccounted, ChunkAccounted, Work, Apart, AtCard
<1> QED BY <1>3, <1>6, <1>7, <1>8

LEMMA TakeRowInv ==
    ASSUME Watched, NEW b \in Batches, WorkerInv(b), NEW r \in rows[b], TakeRow(b, r)
    PROVE  WorkerInv(b)' /\ \A v \in Workers \ {b} : Same(v)
<1> USE TypesAre DEF Watched, Steady, WorkerInv, Workers
<1>1. /\ pc[b] = "rows" /\ pc[b] # "idle" /\ pc[b] # "scan"
      /\ r \in Group(b) \/ (Group(b) = {} /\ resolved[b] = {})
  BY DEF TakeRow
<1>2. /\ pc'[b] = "resolve" /\ mid'[b] = r.mid /\ source'[b] = r.folder
      /\ place'[b] = [folder |-> r.folder, uid |-> r.uid] /\ retry'[b] = FALSE
      /\ rows'[b] = rows[b] \ {r}
      /\ UNCHANGED <<server, op, scanned, resolved, chunk, uids, dropping, asked, gone>>
  BY DEF TakeRow, Goto, LocalTypes
<1>3. \A v \in Workers \ {b} : Same(v)
  BY DEF TakeRow, Goto, LocalTypes, Same
<1>4. r.folder \in Folders /\ r.uid \in Uids /\ r.mid \in Mids
  BY WorkTyped
<1>5. "resolve" \in AtCard /\ "resolve" \notin AtChunk
  BY DEF AtCard, AtChunk
<1>6. chunk[b] = {} /\ scanned[b] = {} /\ dropping[b] = {}
  BY <1>1 DEF Phased, Held, AtChunk
<1>7. resolved[b] = {} \/ source'[b] = source[b]
  BY <1>1, <1>2 DEF Group
<1>8. \A x \in rows[b] : Claim(x.folder, x.uid, x.mid)'
  BY <1>1, <1>2, GroupKept
<1>9. \A x \in resolved[b] :
         /\ x.uid # 0 => Claim(source[b], x.uid, x.mid)'
         /\ IF x.uid = 0 THEN Seen(b, source[b], x.mid)' ELSE Still(b, source[b], x.uid, x.mid)'
  <2>1. \A s : s = source[b] => \A x \in Work(b) :
           /\ x.uid # 0 => Claim(s, x.uid, x.mid)'
           /\ IF x.uid = 0 THEN Seen(b, s, x.mid)' ELSE Still(b, s, x.uid, x.mid)'
    BY <1>1, GroupKept
  <2> QED BY <1>7, <2>1, <1>2 DEF Work
<1>10. Held(b)' /\ Phased(b)'
  BY <1>1, <1>2, <1>4, <1>5, <1>6 DEF Held, Phased, Work, Places
<1>11. Claimed(b)' /\ Meant(b)'
  BY <1>1, <1>2, <1>5, <1>6, <1>7, <1>8, <1>9 DEF Claimed, Meant, Work
<1>12. Accounted(b)'
  BY <1>1, <1>2, <1>6, <1>7, <1>9, GroupKept
  DEF Accounted, CardAccounted, ChunkAccounted, Work
<1> QED BY <1>3, <1>10, <1>11, <1>12

LEMMA RowSettledInv ==
    ASSUME Watched, NEW b \in Batches, WorkerInv(b), RowSettled(b)
    PROVE  WorkerInv(b)' /\ \A v \in Workers \ {b} : Same(v)
<1> DEFINE r == [mid |-> mid[b], uid |-> 0]
<1> USE TypesAre DEF Watched, Steady, WorkerInv, Workers
<1>1. /\ pc[b] = "drop" /\ pc[b] \in AtCard /\ pc[b] # "idle"
      /\ UNCHANGED <<server, op, mid, place, scanned, retry, source, rows, chunk, uids,
                     dropping, asked, gone>>
  BY DEF RowSettled, AtCard
<1>2. /\ resolved'[b] = resolved[b] \cup {r} /\ pc'[b] = "rows"
      /\ r.uid = 0 /\ r.mid = mid[b]
  BY DEF RowSettled, Goto, LocalTypes
<1> HIDE DEF r
<1>3. \A v \in Workers \ {b} : Same(v)
  BY DEF RowSettled, Goto, LocalTypes, Same
<1>4. "rows" \notin AtCard /\ "rows" \notin AtChunk /\ "drop" \notin AtChunk
  BY LabelsAre DEF AtChunk
<1>5. Work(b)' = Work(b) \cup {r}
  BY <1>1, <1>2 DEF Work
<1>6. Seen(b, source[b], mid[b])
  BY <1>1 DEF Accounted, CardAccounted, AtCard
<1>7. Held(b)' /\ Phased(b)'
  BY <1>1, <1>2, <1>4, <1>5 DEF Held, Phased
<1>8. Claimed(b)' /\ Meant(b)'
  BY <1>1, <1>2, <1>4, <1>5, RestKeeps DEF Claimed, Meant
<1>9. CardAccounted(b)'
  BY <1>1, <1>2, <1>4 DEF CardAccounted, Held
<1>10. ChunkAccounted(b)'
  BY <1>1, <1>2, <1>5, <1>6, RestKeeps DEF ChunkAccounted, Accounted
<1> QED BY <1>1, <1>3, <1>7, <1>8, <1>9, <1>10, RestKeeps DEF Accounted

LEMMA TakeChunkInv ==
    ASSUME Watched, NEW b \in Batches, WorkerInv(b),
           NEW c \in SUBSET resolved[b], TakeChunk(b, c)
    PROVE  WorkerInv(b)' /\ \A v \in Workers \ {b} : Same(v)
<1> USE TypesAre DEF Watched, Steady, WorkerInv, Workers
<1>1. /\ pc[b] = "rows" /\ pc[b] # "idle" /\ Group(b) = {} /\ c # {}
      /\ UNCHANGED <<server, op, mid, place, scanned, retry, source, rows, uids,
                     dropping, asked, gone>>
  BY DEF TakeChunk
<1>2. chunk'[b] = c /\ resolved'[b] = resolved[b] \ c /\ pc'[b] = "filter"
  BY DEF TakeChunk, Goto, LocalTypes
<1>3. \A v \in Workers \ {b} : Same(v)
  BY DEF TakeChunk, Goto, LocalTypes, Same
<1>4. /\ "rows" \notin AtCard /\ "rows" \notin AtChunk
      /\ "filter" \in AtChunk /\ "filter" \notin AtCard
  BY LabelsAre DEF AtChunk
<1>5. chunk[b] = {} /\ uids[b] = {} /\ scanned[b] = {}
  BY <1>1, <1>4 DEF Phased, Claimed, Held
<1>6. Work(b)' = Work(b)
  BY <1>2, <1>5 DEF Work
<1>7. Held(b)' /\ Phased(b)'
  BY <1>1, <1>2, <1>4, <1>5, <1>6 DEF Held, Phased, Group, Work
<1>8. Claimed(b)' /\ Meant(b)'
  BY <1>1, <1>2, <1>4, <1>5, <1>6, RestKeeps DEF Claimed, Meant
<1>9. CardAccounted(b)'
  BY <1>1, <1>2, <1>4, <1>5 DEF CardAccounted
<1>10. ChunkAccounted(b)'
  BY <1>1, <1>2, <1>6, RestKeeps DEF ChunkAccounted, Accounted
<1> QED BY <1>1, <1>3, <1>7, <1>8, <1>9, <1>10, RestKeeps DEF Accounted

\* After a chunk its rows are dropped one by one, then the next rows come.
LEMMA SettleInv ==
    ASSUME Watched, NEW b \in Batches, WorkerInv(b),
           ChunkSettled(b) \/ \E m \in dropping[b] : DropRow(b, m)
    PROVE  WorkerInv(b)' /\ \A v \in Workers \ {b} : Same(v)
<1> USE TypesAre DEF Watched, Steady, WorkerInv, Workers
<1>1. /\ pc[b] = "settle" /\ pc[b] # "idle"
      /\ UNCHANGED <<server, op, mid, place, scanned, retry, source, rows, resolved,
                     chunk, uids, asked, gone>>
  BY DEF DropRow, ChunkSettled, locals, batch
<1>2. /\ dropping'[b] \subseteq dropping[b] /\ pc'[b] \in {"settle", "rows"}
      /\ pc'[b] = "rows" => dropping'[b] = {}
  BY DEF DropRow, ChunkSettled, locals, batch, Goto, LocalTypes
<1>3. \A v \in Workers \ {b} : Same(v)
  BY DEF DropRow, ChunkSettled, locals, batch, Goto, LocalTypes, Same
<1>4. /\ "rows" \notin AtCard /\ "rows" \notin AtChunk
      /\ "settle" \in AtChunk /\ "settle" \notin AtCard
  BY LabelsAre DEF AtChunk
<1>5. scanned[b] = {} /\ chunk[b] = {} /\ uids[b] = {} /\ Group(b) = {}
  BY <1>1, <1>4 DEF Held, Phased, Claimed
<1>6. Held(b)' /\ Phased(b)'
  BY <1>1, <1>2, <1>4, <1>5 DEF Held, Phased, Group, Work
<1>7. Claimed(b)' /\ Meant(b)'
  BY <1>1, <1>2, <1>4, RestKeeps DEF Claimed, Meant, Work
<1>8. CardAccounted(b)'
  BY <1>1, <1>2, <1>4, <1>5 DEF CardAccounted
<1>9. ChunkAccounted(b)'
  BY <1>1, <1>2, <1>5, RestKeeps DEF ChunkAccounted, Accounted, Work
<1> QED BY <1>1, <1>3, <1>6, <1>7, <1>8, <1>9, RestKeeps DEF Accounted

\* A worker's step keeps what it relies on, and touches no other's locals.
LEMMA HandlerInv ==
    ASSUME Watched, Numbered, CardsTrue, NEW h \in Handlers, WorkerInv(h), Handler(h)
    PROVE  WorkerInv(h)' /\ \A v \in Workers \ {h} : Same(v)
<1>0. h \in Workers /\ LocalTypes
  BY TypesAre DEF Workers, Watched, Steady
<1>1. ASSUME NEW o \in Ops, NEW m \in Mids, Request(h, o, m)
      PROVE  WorkerInv(h)' /\ \A v \in Workers \ {h} : Same(v)
  BY <1>1, RequestInv
<1>2. CASE DropCard(h) \/ Fail(h)
  BY <1>0, <1>2, FinishInv DEF DropCard, Fail
<1> QED BY <1>0, <1>1, <1>2, OneCardInv DEF Handler

LEMMA BatchInv ==
    ASSUME Watched, Numbered, CardsTrue, NEW b \in Batches, WorkerInv(b), Batch(b)
    PROVE  WorkerInv(b)' /\ \A v \in Workers \ {b} : Same(v)
<1>0. b \in Workers /\ LocalTypes
  BY TypesAre DEF Workers, Watched, Steady
<1>1. ASSUME NEW o \in Ops, Collect(b, o)
      PROVE  WorkerInv(b)' /\ \A v \in Workers \ {b} : Same(v)
  BY <1>1, CollectInv
<1>2. ASSUME NEW r \in rows[b], TakeRow(b, r)
      PROVE  WorkerInv(b)' /\ \A v \in Workers \ {b} : Same(v)
  BY <1>2, TakeRowInv
<1>3. ASSUME NEW c \in SUBSET resolved[b], TakeChunk(b, c)
      PROVE  WorkerInv(b)' /\ \A v \in Workers \ {b} : Same(v)
  BY <1>3, TakeChunkInv
<1>4. CASE BatchEnds(b) \/ Fail(b)
  BY <1>0, <1>4, FinishInv DEF BatchEnds, Fail
<1> QED BY <1>0, <1>1, <1>2, <1>3, <1>4, OneCardInv, RowSettledInv, ChunkInv, SettleInv
        DEF Batch

-----------------------------------------------------------------------------
(* The rows stay true: they are only dropped, or set to where a worker has *)
(* just found the message.                                                 *)

Rewritten ==
    \A m \in Mids :
        \/ cards'[m] = cards[m] \/ cards'[m] = None
        \/ \E w \in Workers : pc[w] \in AtCard /\ mid[w] = m /\ cards'[m] = place[w]

LEMMA CardsStayTrue ==
    ASSUME Watched, CardsTrue, Rewritten, \A w \in Workers : WorkerInv(w)
    PROVE  CardsTrue'
<1> USE TypesAre DEF Watched, Steady
<1> SUFFICES ASSUME NEW m \in Mids, cards'[m] # None
             PROVE  Claim(cards[m].folder, cards[m].uid, m)'
  BY DEF CardsTrue
<1>1. CASE cards'[m] = cards[m]
  <2>1. cards[m] \in Places /\ Claim(cards[m].folder, cards[m].uid, m)
    BY <1>1 DEF CardTypes, CardsTrue
  <2> QED BY <1>1, <2>1, ClaimStays DEF Places
<1>2. CASE \E w \in Workers : pc[w] \in AtCard /\ mid[w] = m /\ cards'[m] = place[w]
  <2>1. PICK w \in Workers : pc[w] \in AtCard /\ mid[w] = m /\ cards'[m] = place[w]
    BY <1>2
  <2>2. /\ place[w].folder \in Folders /\ place[w].uid \in Uids
        /\ Claim(place[w].folder, place[w].uid, m)
    BY <2>1, WorkTyped DEF WorkerInv, Claimed
  <2> QED BY <2>1, <2>2, ClaimStays
<1> QED BY <1>1, <1>2 DEF Rewritten

LEMMA OneCardRewrites ==
    ASSUME TypeOK, NEW w \in Workers, Held(w), OneCard(w)
    PROVE  Rewritten
<1>1. CASE NoteSource(w)
  <2>1. pc[w] \in AtCard /\ mid[w] \in Mids
    BY <1>1 DEF NoteSource, Held, AtCard
  <2> QED BY <1>1, <2>1, TypesAre DEF NoteSource, CardTypes, Rewritten
<1>2. CASE ~NoteSource(w)
  <2>1. cards' = cards
    BY <1>2 DEF OneCard, Resolve, ScanFolder, ScanEnds, Verify, CopyMessage, Reverify,
                StoreDeleted, ExpungeFolder, database
  <2> QED BY <2>1 DEF Rewritten
<1> QED BY <1>1, <1>2

LEMMA HandlerRewrites ==
    ASSUME TypeOK, NEW h \in Handlers, Held(h), Handler(h)
    PROVE  Rewritten
<1>0. h \in Workers
  BY DEF Workers
<1>1. CASE DropCard(h)
  BY <1>1, TypesAre DEF DropCard, CardTypes, Rewritten
<1>2. CASE Fail(h) \/ \E o \in Ops, m \in Mids : Request(h, o, m)
  BY <1>2 DEF Fail, Request, database, Rewritten
<1> QED BY <1>0, <1>1, <1>2, OneCardRewrites DEF Handler

LEMMA BatchRewrites ==
    ASSUME TypeOK, NEW b \in Batches, Held(b), Batch(b)
    PROVE  Rewritten
<1>0. b \in Workers
  BY DEF Workers
<1>1. ASSUME NEW m \in dropping[b], DropRow(b, m) PROVE Rewritten
  BY <1>1, TypesAre DEF DropRow, CardTypes, Rewritten
<1>2. CASE cards' = cards
  BY <1>2 DEF Rewritten
<1>3. \/ cards' = cards
      \/ OneCard(b) \/ \E m \in dropping[b] : DropRow(b, m)
  BY DEF Batch, Collect, TakeRow, RowSettled, TakeChunk, FilterChunk, CopyChunk,
         RefilterChunk, StoreChunk, ExpungeChunk, ChunkSettled, BatchEnds, Fail, database
<1> QED BY <1>0, <1>1, <1>2, <1>3, OneCardRewrites

-----------------------------------------------------------------------------
(* Mail nobody asked to have deleted.  An archive may flag a message only  *)
(* once a copy of it is in the archive folder, under a UID no worker acts  *)
(* on; a delete flags only what was asked for.                             *)

\* A worker is about to flag this message, the copy made.
Condemned(w, f, u) ==
    /\ op[w] = "archive"
    /\ \/ pc[w] \in {"reverify", "store"} /\ place[w].folder = f /\ place[w].uid = u
       \/ pc[w] \in {"refilter", "batchstore"} /\ source[w] = f /\ u \in uids[w]

Safe(f, e) ==
    /\ <<f, e.uid>> \notin flagged
    /\ \A w \in Workers : ~Condemned(w, f, e.uid)

Spared ==
    \A m \in Mids \ asked : \E f \in Folders : \E e \in box[f] : e.mid = m /\ Safe(f, e)

\* A step that puts no message in danger.
Spares ==
    /\ \A f \in Folders : \A e \in box[f] :
          /\ <<f, e.uid>> \notin flagged => e \in box'[f] \/ e.mid \in asked'
          /\ <<f, e.uid>> \in flagged' =>
                \/ <<f, e.uid>> \in flagged \/ e.mid \in asked
                \/ \E w \in Workers : Condemned(w, f, e.uid)
    /\ \A w \in Workers : \A f, u : Condemned(w, f, u)' => Condemned(w, f, u)

LEMMA SparesSpared ==
    ASSUME Spared, Spares, asked \subseteq asked'
    PROVE  Spared'
<1> SUFFICES ASSUME NEW m \in Mids \ asked'
             PROVE  \E f \in Folders : \E e \in box'[f] : e.mid = m /\ Safe(f, e)'
  BY DEF Spared
<1>0. PICK f \in Folders : \E e \in box[f] : e.mid = m /\ Safe(f, e)
  BY DEF Spared
<1>1. PICK e \in box[f] : e.mid = m /\ Safe(f, e)
  BY <1>0
<1>2. e \in box'[f] /\ <<f, e.uid>> \notin flagged'
  BY <1>1 DEF Spares, Safe
<1>3. \A w \in Workers : ~Condemned(w, f, e.uid)'
  BY <1>1 DEF Spares, Safe
<1> QED BY <1>1, <1>2, <1>3 DEF Safe

LEMMA SameCondemned ==
    ASSUME NEW w \in Workers, Same(w), NEW f, NEW u, Condemned(w, f, u)'
    PROVE  Condemned(w, f, u)
  BY DEF Same, Condemned

\* No worker is about to flag what has just come.
LEMMA FreshNotCondemned ==
    ASSUME TypeOK, NEW w \in Workers, WorkerInv(w), NEW f \in Folders, NEW u,
           u >= uidNext[f], u \in Uids
    PROVE  ~Condemned(w, f, u)
<1> USE TypesAre DEF WorkerInv
<1>1. uidNext[f] \in Int /\ u \in Int /\ ~(u < uidNext[f])
  BY DEF ServerTypes, Uids
<1>2. ASSUME pc[w] \in {"reverify", "store"}, place[w].folder = f, place[w].uid = u
      PROVE  FALSE
  <2>1. Claim(place[w].folder, place[w].uid, mid[w])
    BY <1>2 DEF Claimed, AtCard
  <2> QED BY <1>1, <1>2, <2>1 DEF Claim
<1>3. ASSUME u \in uids[w], source[w] = f PROVE FALSE
  <2>1. PICK r \in chunk[w] : r.uid = u
    BY <1>3 DEF Claimed
  <2>2. Claim(source[w], r.uid, r.mid)
    BY <2>1 DEF Claimed, Work, Uids
  <2> QED BY <1>1, <1>3, <2>1, <2>2 DEF Claim
<1> QED BY <1>2, <1>3 DEF Condemned

\* The server at rest, or a row dropped: only the worker's own step counts.
LEMMA RestSpares ==
    ASSUME UNCHANGED server, NEW w \in Workers, \A v \in Workers \ {w} : Same(v),
           \A f, u : Condemned(w, f, u)' => Condemned(w, f, u)
    PROVE  Spares
<1>1. \A v \in Workers : \A f, u : Condemned(v, f, u)' => Condemned(v, f, u)
  BY SameCondemned
<1> QED BY <1>1 DEF Spares, server

\* EXPUNGE: what goes was flagged.
LEMMA ExpungeSpares ==
    ASSUME TypeOK, Numbered, NEW w \in Workers, NEW f \in Folders, Expunge(f),
           UNCHANGED uidNext, \A v \in Workers \ {w} : Same(v),
           \A g, u : Condemned(w, g, u)' => Condemned(w, g, u)
    PROVE  Spares
<1>1. /\ \A g \in Folders : \A e \in box[g] : <<g, e.uid>> \notin flagged => e \in box'[g]
      /\ flagged' \subseteq flagged
  BY TypesAre, ExpungeEvolves
<1>2. \A v \in Workers : \A g, u : Condemned(v, g, u)' => Condemned(v, g, u)
  BY SameCondemned
<1> QED BY <1>1, <1>2 DEF Spares

\* UID STORE: what is flagged was condemned, or asked for.
LEMMA FlagSpares ==
    ASSUME UNCHANGED box, NEW w \in Workers, NEW s \in Folders, NEW us, Flag(s, us),
           \A v \in Workers \ {w} : Same(v),
           \A g, u : Condemned(w, g, u)' => Condemned(w, g, u),
           \A e \in box[s] : e.uid \in us => e.mid \in asked \/ Condemned(w, s, e.uid)
    PROVE  Spares
<1>1. \A f \in Folders : \A e \in box[f] :
         <<f, e.uid>> \in flagged' => <<f, e.uid>> \in flagged \/ (f = s /\ e.uid \in us)
  BY DEF Flag
<1>2. \A v \in Workers : \A g, u : Condemned(v, g, u)' => Condemned(v, g, u)
  BY SameCondemned
<1> QED BY <1>1, <1>2 DEF Spares

\* UID COPY: the copies are new to every worker.
LEMMA CopySpares ==
    ASSUME TypeOK, Numbered, Spared, \A v \in Workers : WorkerInv(v), asked' = asked,
           NEW w \in Workers, NEW s \in Folders, NEW us \in SUBSET Uids, Copy(s, us),
           UNCHANGED flagged, \A v \in Workers \ {w} : Same(v),
           \A g, u : Condemned(w, g, u)' =>
               g = s /\ u \in us /\ (g \in Folders /\ u \in Uids => u < uidNext[g])
    PROVE  Spared'
<1> USE TypesAre
<1>1. /\ ServerTypes' /\ "archive" \in Folders
      /\ \A g \in Folders : box[g] \subseteq box'[g]
      /\ \A e \in box[s] : e.uid \in us =>
            \E d \in box'["archive"] : d.mid = e.mid /\ d.uid >= uidNext["archive"]
  BY CopyEvolves DEF Folders
<1> SUFFICES ASSUME NEW m \in Mids \ asked
             PROVE  \E f \in Folders : \E e \in box'[f] : e.mid = m /\ Safe(f, e)'
  BY DEF Spared
<1>2. PICK f \in Folders : \E e \in box[f] : e.mid = m /\ Safe(f, e)
  BY DEF Spared
<1>3. PICK e \in box[f] : e.mid = m /\ Safe(f, e)
  BY <1>2
<1>4. CASE f = s /\ e.uid \in us
  <2>1. PICK d \in box'["archive"] : d.mid = m /\ d.uid >= uidNext["archive"]
    BY <1>1, <1>3, <1>4
  <2>2. d.uid \in Uids /\ uidNext["archive"] \in Int /\ ~(d.uid < uidNext["archive"])
    BY <1>1, <2>1 DEF ServerTypes, Entries, Uids
  <2>3. <<"archive", d.uid>> \notin flagged'
    BY <1>1, <2>2 DEF Numbered
  <2>4. ASSUME NEW v \in Workers PROVE ~Condemned(v, "archive", d.uid)'
    <3>1. CASE v = w
      BY <1>1, <2>2, <3>1
    <3>2. CASE v # w
      BY <1>1, <2>1, <2>2, <3>2, FreshNotCondemned, SameCondemned
    <3> QED BY <3>1, <3>2
  <2> QED BY <1>1, <2>1, <2>3, <2>4 DEF Safe
<1>5. CASE ~(f = s /\ e.uid \in us)
  <2>1. e \in box'[f] /\ <<f, e.uid>> \notin flagged'
    BY <1>1, <1>3 DEF Safe
  <2>2. ASSUME NEW v \in Workers PROVE ~Condemned(v, f, e.uid)'
    <3>1. CASE v = w
      BY <1>5, <3>1
    <3>2. CASE v # w
      BY <1>3, <3>2, SameCondemned DEF Safe
    <3> QED BY <3>1, <3>2
  <2> QED BY <1>3, <2>1, <2>2 DEF Safe
<1> QED BY <1>4, <1>5

LEMMA EnvironmentSpares ==
    ASSUME TypeOK, Numbered, Spared, \A v \in Workers : WorkerInv(v), Environment
    PROVE  Spared'
<1> USE TypesAre
<1>1. UNCHANGED <<pc, locals>> =>
         \A v \in Workers : \A f, u : Condemned(v, f, u)' => Condemned(v, f, u)
  BY DEF Condemned, locals, batch
<1>2. ASSUME NEW m \in Mids, NEW d \in {"TO_DELETE", "TO_ARCHIVE"}, Decide(m, d)
      PROVE  Spared'
  <2>1. Spares /\ asked' = asked
    BY <1>1, <1>2 DEF Decide, server, Spares
  <2> QED BY <2>1, SparesSpared
<1>3. ASSUME NEW f \in Folders, NEW e \in box[f], UserDelete(e, f)
      PROVE  Spared'
  <2>1. /\ \A h \in Folders : \A d \in box[h] : (d = e /\ h = f) \/ d \in box'[h]
        /\ flagged' \subseteq flagged
    BY <1>3, UserDeleteEvolves
  <2>2. asked' = asked \cup {e.mid} /\ UNCHANGED <<pc, locals>>
    BY <1>3 DEF UserDelete
  <2>3. Spares
    BY <1>1, <2>1, <2>2 DEF Spares
  <2> QED BY <2>2, <2>3, SparesSpared
<1>4. ASSUME NEW f \in Folders, NEW g \in Folders, NEW e \in box[f], UserMove(e, f, g)
      PROVE  Spared'
  <2>1. /\ ServerTypes'
        /\ \A h \in Folders : \A d \in box[h] : (d = e /\ h = f) \/ d \in box'[h]
        /\ \E d \in box'[g] : d.mid = e.mid /\ d.uid >= uidNext[g]
    BY <1>4, UserMoveEvolves
  <2>2. flagged' = flagged /\ asked' = asked /\ UNCHANGED <<pc, locals>>
    BY <1>4 DEF UserMove
  <2> SUFFICES ASSUME NEW m \in Mids \ asked
               PROVE  \E h \in Folders : \E d \in box'[h] : d.mid = m /\ Safe(h, d)'
    BY <2>2 DEF Spared
  <2>3. PICK h \in Folders : \E d \in box[h] : d.mid = m /\ Safe(h, d)
    BY DEF Spared
  <2>4. PICK d \in box[h] : d.mid = m /\ Safe(h, d)
    BY <2>3
  <2>5. CASE d = e /\ h = f
    <3>1. PICK c \in box'[g] : c.mid = m /\ c.uid >= uidNext[g]
      BY <2>1, <2>4, <2>5
    <3>2. c.uid \in Uids /\ uidNext[g] \in Int /\ ~(c.uid < uidNext[g])
      BY <2>1, <3>1 DEF ServerTypes, Entries, Uids
    <3>3. <<g, c.uid>> \notin flagged'
      BY <2>2, <3>2 DEF Numbered
    <3>4. \A v \in Workers : ~Condemned(v, g, c.uid)
      BY <3>1, <3>2, FreshNotCondemned
    <3>5. \A v \in Workers : ~Condemned(v, g, c.uid)'
      BY <1>1, <2>2, <3>4
    <3> QED BY <3>1, <3>3, <3>5 DEF Safe
  <2>6. CASE ~(d = e /\ h = f)
    <3>1. d \in box'[h] /\ <<h, d.uid>> \notin flagged'
      BY <2>1, <2>2, <2>4, <2>6 DEF Safe
    <3>2. \A v \in Workers : ~Condemned(v, h, d.uid)'
      BY <1>1, <2>2, <2>4 DEF Safe
    <3> QED BY <2>4, <3>1, <3>2 DEF Safe
  <2> QED BY <2>5, <2>6
<1> QED BY <1>2, <1>3, <1>4 DEF Environment

LEMMA OneCardSpares ==
    ASSUME Watched, Numbered, Spared, \A v \in Workers : WorkerInv(v),
           NEW w \in Workers, OneCard(w)
    PROVE  Spared'
<1> DEFINE f == place[w].folder
           u == place[w].uid
<1> USE TypesAre
<1>0. TypeOK /\ ServerTypes /\ LocalTypes /\ WorkerInv(w)
  BY DEF Watched, Steady
<1>1. asked' = asked
  BY <1>0, OneCardWatched DEF WorkerInv
<1>2. \A v \in Workers \ {w} : Same(v)
  BY <1>0, OneCardInv
<1>3. pc[w] \in AtCard =>
         f \in Folders /\ u \in Uids /\ Claim(f, u, mid[w]) /\ op[w] \in Ops /\ pc[w] # "idle"
  BY <1>0, WorkTyped, LabelsAre DEF WorkerInv, Claimed, Held
<1>4. CASE CopyMessage(w)
  <2>1. pc[w] = "copy" /\ pc[w] \in AtCard /\ flagged' = flagged
    BY <1>4 DEF CopyMessage, AtCard
  <2>2. CASE Copy(f, {u}) /\ Goto(w, "reverify") /\ UNCHANGED locals
    <3>1. ASSUME NEW g, NEW x, Condemned(w, g, x)'
          PROVE  g = f /\ x \in {u} /\ (g \in Folders /\ x \in Uids => x < uidNext[g])
      <4>1. g = f /\ x = u
        BY <1>0, <2>2, <3>1 DEF Condemned, Goto, LocalTypes, locals, batch
      <4> QED BY <1>3, <2>1, <4>1 DEF Claim
    <3>2. {u} \in SUBSET Uids
      BY <1>3, <2>1
    <3> HIDE DEF f, u
    <3> QED BY <1>0, <1>1, <1>2, <1>3, <2>1, <2>2, <3>1, <3>2, CopySpares
  <2>3. CASE NotFound(w) /\ UNCHANGED <<box, uidNext, gone>>
    <3>1. \A g, x : Condemned(w, g, x)' => Condemned(w, g, x)
      BY <1>0, <2>3 DEF NotFound, Finish, Goto, Condemned, LocalTypes
    <3>2. Spares
      BY <1>2, <2>1, <2>3, <3>1, RestSpares DEF server
    <3> QED BY <1>1, <3>2, SparesSpared
  <2> QED BY <1>4, <2>2, <2>3 DEF CopyMessage
<1>5. CASE StoreDeleted(w)
  <2>1. pc[w] = "store" /\ pc[w] \in AtCard
    BY <1>5 DEF StoreDeleted, AtCard
  <2>2. Flag(f, {u}) /\ Goto(w, "expunge") /\ UNCHANGED <<box, locals>>
    BY <1>5 DEF StoreDeleted
  <2>3. \A g, x : Condemned(w, g, x)' => Condemned(w, g, x)
    BY <1>0, <2>2 DEF Goto, Condemned, LocalTypes
  <2>4. ASSUME NEW e \in box[f], e.uid \in {u}
        PROVE  e.mid \in asked \/ Condemned(w, f, e.uid)
    <3>1. CASE op[w] = "archive"
      BY <2>1, <2>4, <3>1 DEF Condemned
    <3>2. CASE op[w] = "delete"
      BY <1>0, <1>3, <2>1, <2>4, <3>2 DEF Claim, WorkerInv, Meant
    <3> QED BY <1>3, <2>1, <3>1, <3>2 DEF Ops
  <2> HIDE DEF f, u
  <2>5. Spares
    BY <1>2, <1>3, <2>1, <2>2, <2>3, <2>4, FlagSpares
  <2> QED BY <1>1, <2>5, SparesSpared
<1>6. CASE ExpungeFolder(w)
  <2>1. pc[w] = "expunge" /\ pc[w] \in AtCard
    BY <1>6 DEF ExpungeFolder, AtCard
  <2>2. Expunge(f) /\ Goto(w, "drop") /\ UNCHANGED <<uidNext, locals>>
    BY <1>6 DEF ExpungeFolder
  <2>3. \A g, x : Condemned(w, g, x)' => Condemned(w, g, x)
    BY <1>0, <2>2 DEF Goto, Condemned, LocalTypes
  <2> HIDE DEF f
  <2>4. Spares
    BY <1>0, <1>2, <1>3, <2>1, <2>2, <2>3, ExpungeSpares
  <2> QED BY <1>1, <2>4, SparesSpared
<1>7. CASE Verify(w) \/ Reverify(w)
  <2>1. \A g, x : Condemned(w, g, x)' => Condemned(w, g, x)
    BY <1>0, <1>7
    DEF Verify, Reverify, NotFound, Finish, Goto, Condemned, LocalTypes, locals
  <2>2. Spares
    BY <1>2, <1>7, <2>1, RestSpares DEF Verify, Reverify
  <2> QED BY <1>1, <2>2, SparesSpared
<1>8. CASE Resolve(w) \/ ScanEnds(w) \/ NoteSource(w) \/ \E g \in Folders : ScanFolder(w, g)
  <2>1. \A g, x : Condemned(w, g, x)' => Condemned(w, g, x)
    <3>1. pc[w] \in {"resolve", "scan", "note"}
      BY <1>8 DEF Resolve, ScanEnds, NoteSource, ScanFolder
    <3>2. pc'[w] \in {"idle", "resolve", "scan", "note", "verify", "drop", "rows"}
      BY <1>0, <1>8
      DEF Resolve, ScanEnds, NoteSource, ScanFolder, NotFound, Finish, Goto, LocalTypes
    <3> QED BY <3>2 DEF Condemned
  <2>2. UNCHANGED server
    BY <1>8 DEF Resolve, ScanEnds, NoteSource, ScanFolder
  <2>3. Spares
    BY <1>2, <2>1, <2>2, RestSpares
  <2> QED BY <1>1, <2>3, SparesSpared
<1> QED BY <1>4, <1>5, <1>6, <1>7, <1>8 DEF OneCard

LEMMA HandlerSpares ==
    ASSUME Watched, Numbered, CardsTrue, Spared, \A v \in Workers : WorkerInv(v),
           NEW h \in Handlers, Handler(h)
    PROVE  Spared'
<1>0. h \in Workers /\ TypeOK /\ LocalTypes /\ asked \subseteq asked'
  BY TypesAre DEF Workers, Watched, Steady
<1>1. \A v \in Workers \ {h} : Same(v)
  BY <1>0, HandlerInv
<1>2. CASE DropCard(h) \/ Fail(h) \/ \E o \in Ops, m \in Mids : Request(h, o, m)
  <2>1. pc'[h] \in {"idle", "resolve"}
    BY <1>0, <1>2 DEF DropCard, Fail, Finish, Request, Goto, LocalTypes
  <2>2. \A g, x : Condemned(h, g, x)' => Condemned(h, g, x)
    BY <2>1 DEF Condemned
  <2>3. UNCHANGED server
    BY <1>2 DEF DropCard, Fail, Request
  <2> QED BY <1>0, <1>1, <2>2, <2>3, RestSpares, SparesSpared
<1> QED BY <1>0, <1>2, OneCardSpares DEF Handler

LEMMA BatchSpares ==
    ASSUME Watched, Numbered, CardsTrue, Spared, \A v \in Workers : WorkerInv(v),
           NEW b \in Batches, Batch(b)
    PROVE  Spared'
<1> USE TypesAre
<1>0. /\ b \in Workers /\ WorkerInv(b) /\ TypeOK /\ ServerTypes /\ LocalTypes
      /\ asked \subseteq asked'
  BY DEF Workers, Watched, Steady
<1>1. \A v \in Workers \ {b} : Same(v)
  BY <1>0, BatchInv
<1>2. pc[b] \in AtChunk => source[b] \in Folders /\ op[b] \in Ops
  BY <1>0, LabelsAre DEF WorkerInv, Held
<1>3. /\ uids[b] \in SUBSET Uids
      /\ \A u \in uids[b] : \E r \in chunk[b] : r.uid = u /\ Claim(source[b], u, r.mid)
  <2>1. uids[b] \in SUBSET Uids
    BY <1>0 DEF LocalTypes
  <2>2. \A u \in uids[b] : u # 0
    BY <2>1 DEF Uids
  <2> QED BY <1>0, <2>1, <2>2 DEF WorkerInv, Claimed, Work
<1>4. CASE CopyChunk(b)
  <2>1. pc[b] = "batchcopy" /\ pc[b] \in AtChunk /\ flagged' = flagged /\ asked' = asked
    BY <1>4 DEF CopyChunk, AtChunk
  <2>2. CASE Copy(source[b], uids[b]) /\ Goto(b, "refilter") /\ UNCHANGED locals
    <3>1. ASSUME NEW g, NEW x, Condemned(b, g, x)'
          PROVE  g = source[b] /\ x \in uids[b]
                 /\ (g \in Folders /\ x \in Uids => x < uidNext[g])
      <4>1. g = source[b] /\ x \in uids[b]
        BY <1>0, <2>2, <3>1 DEF Condemned, Goto, LocalTypes, locals, batch
      <4> QED BY <1>3, <4>1 DEF Claim
    <3> QED BY <1>0, <1>1, <1>2, <1>3, <2>1, <2>2, <3>1, CopySpares
  <2>3. CASE ChunkDone(b) /\ UNCHANGED <<box, uidNext, gone>>
    <3>1. \A g, x : Condemned(b, g, x)' => Condemned(b, g, x)
      BY <1>0, <2>3 DEF ChunkDone, Goto, Condemned, LocalTypes
    <3>2. Spares
      BY <1>0, <1>1, <2>1, <2>3, <3>1, RestSpares DEF server
    <3> QED BY <1>0, <3>2, SparesSpared
  <2> QED BY <1>4, <2>2, <2>3 DEF CopyChunk
<1>5. CASE StoreChunk(b)
  <2>1. pc[b] = "batchstore" /\ pc[b] \in AtChunk
    BY <1>5 DEF StoreChunk, AtChunk
  <2>2. Flag(source[b], uids[b]) /\ Goto(b, "batchexpunge") /\ UNCHANGED <<box, locals>>
    BY <1>5 DEF StoreChunk
  <2>3. \A g, x : Condemned(b, g, x)' => Condemned(b, g, x)
    BY <1>0, <2>2 DEF Goto, Condemned, LocalTypes
  <2>4. ASSUME NEW e \in box[source[b]], e.uid \in uids[b]
        PROVE  e.mid \in asked \/ Condemned(b, source[b], e.uid)
    <3>1. CASE op[b] = "archive"
      BY <2>1, <2>4, <3>1 DEF Condemned
    <3>2. CASE op[b] = "delete"
      BY <1>0, <1>3, <2>4, <3>2 DEF Claim, WorkerInv, Meant, Work
    <3> QED BY <1>2, <2>1, <3>1, <3>2 DEF Ops
  <2>5. Spares
    BY <1>0, <1>1, <1>2, <2>1, <2>2, <2>3, <2>4, FlagSpares
  <2> QED BY <1>0, <2>5, SparesSpared
<1>6. CASE ExpungeChunk(b)
  <2>1. pc[b] = "batchexpunge" /\ pc[b] \in AtChunk
    BY <1>6 DEF ExpungeChunk, AtChunk
  <2>2. Expunge(source[b]) /\ ChunkDone(b) /\ UNCHANGED uidNext
    BY <1>6 DEF ExpungeChunk
  <2>3. \A g, x : Condemned(b, g, x)' => Condemned(b, g, x)
    BY <1>0, <2>2 DEF ChunkDone, Goto, Condemned, LocalTypes
  <2>4. Spares
    BY <1>0, <1>1, <1>2, <2>1, <2>2, <2>3, ExpungeSpares
  <2> QED BY <1>0, <2>4, SparesSpared
<1>7. CASE RefilterChunk(b)
  <2>1. \A g, x : Condemned(b, g, x)' => Condemned(b, g, x)
    BY <1>0, <1>7 DEF RefilterChunk, ChunkDone, Goto, Condemned, LocalTypes
  <2>2. Spares
    BY <1>0, <1>1, <1>7, <2>1, RestSpares DEF RefilterChunk
  <2> QED BY <1>0, <2>2, SparesSpared
<1>8. CASE FilterChunk(b)
  <2>1. \A g, x : Condemned(b, g, x)' => Condemned(b, g, x)
    BY <1>0, <1>8 DEF FilterChunk, ChunkDone, Goto, Condemned, LocalTypes
  <2>2. Spares
    BY <1>0, <1>1, <1>8, <2>1, RestSpares DEF FilterChunk
  <2> QED BY <1>0, <2>2, SparesSpared
<1>9. ASSUME \/ \E o \in Ops : Collect(b, o)
             \/ \E r \in rows[b] : TakeRow(b, r)
             \/ \E c \in SUBSET resolved[b] : TakeChunk(b, c)
             \/ \E m \in dropping[b] : DropRow(b, m)
             \/ RowSettled(b) \/ ChunkSettled(b) \/ BatchEnds(b) \/ Fail(b)
      PROVE  Spared'
  <2>1. pc'[b] \in {"idle", "resolve", "rows", "filter", "settle"}
    BY <1>0, <1>9
    DEF Collect, TakeRow, TakeChunk, DropRow, RowSettled, ChunkSettled, BatchEnds, Fail,
        Finish, Goto, LocalTypes
  <2>2. \A g, x : Condemned(b, g, x)' => Condemned(b, g, x)
    BY <2>1 DEF Condemned
  <2>3. UNCHANGED server
    BY <1>9
    DEF Collect, TakeRow, TakeChunk, DropRow, RowSettled, ChunkSettled, BatchEnds, Fail
  <2> QED BY <1>0, <1>1, <2>2, <2>3, RestSpares, SparesSpared
<1> QED BY <1>0, <1>4, <1>5, <1>6, <1>7, <1>8, <1>9, OneCardSpares DEF Batch

-----------------------------------------------------------------------------
(* The inductive invariant.                                                *)

IInv ==
    /\ TypeOK /\ Numbered /\ CardsTrue /\ Spared
    /\ \A w \in Workers : WorkerInv(w)

LEMMA InitHolds == Init => IInv
<1> SUFFICES ASSUME Init PROVE IInv
  OBVIOUS
<1> USE DEF Init
<1>1. "inbox" \in Folders /\ UidOf \in [Mids -> Uids] /\ Cardinality(Mids) \in Nat
      /\ \A m \in Mids : UidOf[m] \in Uids /\ UidOf[m] < Cardinality(Mids) + 1
  BY CardActionsAssumption, FS_CardinalityType DEF Folders, Uids
<1>2. box["inbox"] = {[uid |-> UidOf[m], mid |-> m] : m \in Mids}
      /\ \A f \in Folders \ {"inbox"} : box[f] = {}
  BY <1>1
<1>3. \A e \in box["inbox"] : e.mid \in Mids /\ e.uid = UidOf[e.mid]
                              /\ e = [uid |-> UidOf[e.mid], mid |-> e.mid]
  BY <1>2
<1>4. TypeOK
  <2>1. ServerTypes
    <3>1. box \in [Folders -> SUBSET Entries]
      BY <1>1 DEF Entries
    <3>2. uidNext \in [Folders -> 1..MaxUid + 1]
      BY <1>1, CardActionsAssumption
    <3> QED BY <3>1, <3>2 DEF ServerTypes
  <2>2. LocalTypes
    BY DEF LocalTypes, Labels
  <2>3. CardTypes /\ HistoryTypes
    BY <1>1, CardActionsAssumption DEF CardTypes, HistoryTypes, Places
  <2> QED BY <2>1, <2>2, <2>3, TypesAre
<1>5. Numbered
  BY <1>1, <1>2, <1>3, CardActionsAssumption DEF Numbered
<1>6. CardsTrue
  BY <1>1, <1>2, <1>3, CardActionsAssumption DEF CardsTrue, Claim
<1>7. ASSUME NEW w \in Workers PROVE WorkerInv(w)
  BY LabelsAre DEF WorkerInv, Held, Phased, Claimed, Meant, Accounted, Work
<1>8. ASSUME NEW m \in Mids
      PROVE  \E f \in Folders : \E e \in box[f] : e.mid = m /\ Safe(f, e)
  <2>1. [uid |-> UidOf[m], mid |-> m] \in box["inbox"]
    BY <1>2
  <2>2. \A w \in Workers : \A f, u : ~Condemned(w, f, u)
    BY DEF Condemned
  <2> QED BY <1>1, <2>1, <2>2 DEF Safe
<1> QED BY <1>4, <1>5, <1>6, <1>7, <1>8 DEF IInv, Spared

LEMMA StepHolds == IInv /\ [Next]_vars => IInv'
<1> SUFFICES ASSUME IInv, [Next]_vars PROVE IInv'
  OBVIOUS
<1> USE DEF IInv
<1>0. \A w \in Workers : Held(w)
  BY DEF WorkerInv
<1>1. ASSUME NEW h \in Handlers, Handler(h) PROVE IInv'
  <2>0. h \in Workers
    BY DEF Workers
  <2>1. Watched /\ TypeOK'
    BY <1>0, <1>1, <2>0, HandlerWatched, HandlerTypes
  <2>2. Numbered'
    BY <2>1 DEF Watched, Steady, Evolves
  <2>3. CardsTrue'
    BY <1>0, <1>1, <2>0, <2>1, HandlerRewrites, CardsStayTrue
  <2>4. Spared'
    BY <1>1, <2>1, HandlerSpares
  <2>5. WorkerInv(h)' /\ \A v \in Workers \ {h} : Same(v)
    BY <1>1, <2>0, <2>1, HandlerInv
  <2>6. ASSUME NEW v \in Workers PROVE WorkerInv(v)'
    BY <2>1, <2>5, Bystander DEF Watched
  <2> QED BY <2>1, <2>2, <2>3, <2>4, <2>6
<1>2. ASSUME NEW b \in Batches, Batch(b) PROVE IInv'
  <2>0. b \in Workers
    BY DEF Workers
  <2>1. Watched /\ TypeOK'
    BY <1>0, <1>2, <2>0, BatchWatched, BatchTypes
  <2>2. Numbered'
    BY <2>1 DEF Watched, Steady, Evolves
  <2>3. CardsTrue'
    BY <1>0, <1>2, <2>0, <2>1, BatchRewrites, CardsStayTrue
  <2>4. Spared'
    BY <1>2, <2>1, BatchSpares
  <2>5. WorkerInv(b)' /\ \A v \in Workers \ {b} : Same(v)
    BY <1>2, <2>0, <2>1, BatchInv
  <2>6. ASSUME NEW v \in Workers PROVE WorkerInv(v)'
    BY <2>1, <2>5, Bystander DEF Watched
  <2> QED BY <2>1, <2>2, <2>3, <2>4, <2>6
<1>3. CASE Environment
  <2>1. Watched /\ TypeOK'
    BY <1>3, EnvironmentWatched, EnvironmentTypes
  <2>2. Numbered'
    BY <2>1 DEF Watched, Steady, Evolves
  <2>3. UNCHANGED <<cards, pc, locals>>
    BY <1>3 DEF Environment, Decide, UserMove, UserDelete, database
  <2>4. CardsTrue'
    BY <2>1, <2>3, CardsStayTrue DEF Rewritten
  <2>5. Spared'
    BY <1>3, EnvironmentSpares
  <2>6. ASSUME NEW v \in Workers PROVE WorkerInv(v)'
    <3>1. Same(v)
      BY <2>3 DEF Same, locals, batch
    <3> QED BY <2>1, <3>1, Bystander DEF Watched
  <2> QED BY <2>1, <2>2, <2>4, <2>5, <2>6
<1>4. CASE UNCHANGED vars
  <2>1. UNCHANGED <<server, database, pc, locals, bounds, asked, gone>>
    BY <1>4 DEF vars
  <2>2. Watched
    BY <2>1, WatchRests
  <2>3. TypeOK'
    <3>1. LocalTypes'
      BY <2>1, TypesAre DEF LocalTypes, locals, batch
    <3> QED BY <2>1, <3>1, TypesAre, OthersRest
  <2>4. Numbered' /\ CardsTrue' /\ Spared'
    BY <2>1 DEF Numbered, CardsTrue, Claim, Spared, Safe, Condemned, server, database,
                locals, batch
  <2>5. ASSUME NEW v \in Workers PROVE WorkerInv(v)'
    <3>1. Same(v)
      BY <2>1 DEF Same, locals, batch
    <3> QED BY <2>2, <3>1, Bystander DEF Watched
  <2> QED BY <2>3, <2>4, <2>5
<1> QED BY <1>1, <1>2, <1>3, <1>4 DEF Next

LEMMA AlwaysHolds == Spec => []IInv
<1> QED BY InitHolds, StepHolds, PTL DEF Spec

\* Every variable keeps its type; a card that is there has both a folder and
\* a UID (the two columns update_record_source writes together).
THEOREM CardTypesHold == Spec => []TypeOK
<1>1. IInv => TypeOK
  BY DEF IInv
<1> QED BY <1>1, AlwaysHolds, PTL

\* However deletes, archives, batches, failures and the user's own moves
\* overlap, mail nobody asked to have deleted stays in some folder
\* (move_message copies before it flags, delete_message verifies again).
THEOREM NothingIsLost == Spec => []NothingLostUnasked
<1>1. Spared => NothingLostUnasked
  BY DEF Spared, NothingLostUnasked, Hits
<1>2. IInv => NothingLostUnasked
  BY <1>1 DEF IInv
<1> QED BY <1>2, AlwaysHolds, PTL

\* A row is deleted only once its message has been seen to be gone from the
\* folder the worker acted on (handle_delete, handle_archive, _run_batch_background).
THEOREM DropsAreJustified == Spec => []DropJustified
<1>1. ASSUME IInv, NEW h \in Handlers, pc[h] = "drop"
      PROVE  <<place[h].folder, mid[h]>> \in gone[h]
  BY <1>1 DEF IInv, WorkerInv, Accounted, CardAccounted, Seen, Workers
<1>2. ASSUME IInv, NEW b \in Batches, NEW m \in dropping[b]
      PROVE  <<source[b], m>> \in gone[b]
  <2>1. pc[b] # "idle"
    BY <1>2 DEF IInv, WorkerInv, Phased, Workers
  <2> QED BY <1>2, <2>1 DEF IInv, WorkerInv, Accounted, ChunkAccounted, Seen, Workers
<1>3. IInv => DropJustified
  BY <1>1, <1>2 DEF DropJustified
<1> QED BY <1>3, AlwaysHolds, PTL
=============================================================================
