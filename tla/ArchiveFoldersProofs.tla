------------------------- MODULE ArchiveFoldersProofs -------------------------
(***************************************************************************)
(* What the requests on the archive, the archive from the board and the    *)
(* cleanup keep, for any folders, messages, threads and bounds.            *)
(***************************************************************************)
EXTENDS ArchiveFolders, SequenceTheorems, FiniteSetTheorems, TLAPS

-----------------------------------------------------------------------------
(* The inductive invariant.                                                *)

MessageOps == {"archive", "move", "message delete", "read", "body"}
Mover(t) == pc[t] \in {"remove", "expunge"} /\ op[t] \notin {"message delete", "delete"}
Knows(b, u, m) == u < uidNext[b] /\ \A e \in mail[b] : e.uid = u => e.mid = m

\* What a thread knows of the mailboxes it deals with, ...
Remembers(t) ==
    /\ aim[t].box # None => Knows(aim[t].box, uid[t], aim[t].mid)
    /\ IF Mover(t) THEN copied[t] # None /\ Knows(at[t], uid[t], copied[t])
       ELSE copied[t] = None
    /\ Mover(t) /\ pc[t] = "expunge" /\ HasUid(at[t], uid[t]) => uid[t] \in flagged[at[t]]

\* ... what it has at each place, ...
Placed(t) ==
    /\ pc[t] \in {"copy", "remove", "expunge", "fetch", "search", "purge"} => at[t] \in Boxes
    /\ pc[t] = "list" /\ op[t] = "archive" => at[t] \in Boxes
    /\ pc[t] = "make" /\ op[t] \notin {"move", "create"} => at[t] \in Boxes
    /\ op[t] = "archive" /\ pc[t] \in {"resolve", "list", "relist", "find", "make", "copy", "remove"} =>
          dest[t] \in Chosen
    /\ pc[t] \in {"save override", "choose", "hinted", "propose", "save hint", "reread"} => mid[t] \in Mids
    /\ pc[t] = "save override" => dest[t] \in Proposals \cup {<<>>}
    /\ pc[t] = "save hint" => dest[t] \in Once

\* ... and what the request it carries out tells it.
Asked(t) ==
    /\ op[t] \in MessageOps /\ mid[t] # None => aim[t].mid = mid[t]
    /\ pc[t] \in {"make", "copy"} => dst[t] \in Names
    /\ pc[t] = "make" => op[t] \in {"archive", "move", "create"}
    /\ pc[t] = "copy" => op[t] \in {"archive", "move"}
    /\ pc[t] = "remove" => op[t] \in {"archive", "move", "message delete"}
    /\ op[t] \in {"move", "create", "rename"} => dst[t] \in Names
    /\ op[t] = "rename" => src[t] \in Names /\ Below(src[t], Root)
    /\ pc[t] = "rename" => op[t] = "rename"
    /\ pc[t] = "relist" => op[t] = "archive"
    /\ pc[t] = "find" => op[t] \in {"archive", "move", "body"}
    /\ pc[t] = "resolve" => op[t] \in {"archive", "message delete", "read"}
    /\ pc[t] = "select" => op[t] \in {"move", "read", "body"}
    /\ pc[t] \in {"count", "open", "search", "purge"} => op[t] = "delete"
    /\ pc[t] = "drop" => op[t] \in {"delete", "cleanup"}
    /\ pc[t] = "sweep" => op[t] = "cleanup"
    /\ op[t] = "cleanup" => t = Cleaner
    /\ t = Cleaner => pc[t] \in {"idle", "sweep", "drop"} /\ (pc[t] = "drop" => op[t] = "cleanup")

Equipped(t) == Placed(t) /\ Asked(t)

Numbered ==
    \A b \in Boxes :
        /\ \A e \in mail[b] : e.uid < uidNext[b] /\ \A d \in mail[b] : d.uid = e.uid => d = e
        /\ \A u \in flagged[b] : u < uidNext[b]
Apart ==
    \A n \in Listed :
        named[n][2] <= made[named[n][1]] /\ \A k \in Listed : named[k] = named[n] => k = n

Spared(m, n, e) ==
    /\ e \in mail[named[n]] /\ e.mid = m /\ e.uid \notin flagged[named[n]]
    /\ \A t \in Threads : ~(Mover(t) /\ at[t] = named[n] /\ uid[t] = e.uid)
SomeSpared ==
    \A m \in Mids : m \in asked \cup swept \/ \E n \in Listed, e \in Entries : Spared(m, n, e)

Holding(n) == \E k \in Listed : Under(k, n) /\ mail[named[k]] # {}
Sweeping ==
    quiet =>
        /\ pc[Cleaner] \in {"sweep", "drop"}
        /\ op[Cleaner] = "cleanup" /\ seen[Cleaner] = Archived
        /\ todo[Cleaner] \subseteq Archived \ {Root}
        /\ \A n \in Archived \ {Root} : n \notin todo[Cleaner] => Holding(n)
        /\ pc[Cleaner] = "drop" =>
             LET f == src[Cleaner] IN
             f \in todo[Cleaner] /\ mail[named[f]] = {} /\ \A n \in Listed : ~Below(n, f)

Few == \A m \in Mids : IsFiniteSet(Copies(m))
Refused == rejects => swept = {}
IInv ==
    /\ TypeOK /\ Numbered /\ Apart /\ SomeSpared /\ Sweeping /\ Refused
    /\ Few /\ SpareCopiesExplained
    /\ \A t \in Threads : Remembers(t) /\ Equipped(t)

-----------------------------------------------------------------------------
(* Folder names.                                                           *)

\* A folder is under another if it begins with the segments of that one.
LEMMA UnderAt ==
    ASSUME NEW n \in Path, NEW f \in Path
    PROVE  Under(n, f) <=> Len(f) <= Len(n) /\ \A i \in 1..Len(f) : n[i] = f[i]
<1>1. Len(f) \in Nat /\ Len(n) \in Nat
  BY LenProperties DEF Path
<1>2. CASE Len(f) <= Len(n)
  <2>1. \A i \in 1..Len(f) : f[i] \in STRING /\ n[i] \in STRING
    BY <1>1, <1>2, ElementOfSeq DEF Path
  <2>2. /\ SubSeq(f, 1, Len(f)) \in Path /\ SubSeq(n, 1, Len(f)) \in Path
        /\ Len(SubSeq(f, 1, Len(f))) = Len(f) /\ Len(SubSeq(n, 1, Len(f))) = Len(f)
        /\ \A i \in 1..Len(f) : SubSeq(f, 1, Len(f))[i] = f[i] /\ SubSeq(n, 1, Len(f))[i] = n[i]
    <3>1. Len(f) \in Int /\ 1 \in Int
      BY <1>1
    <3>2. /\ SubSeq(f, 1, Len(f)) \in Path
          /\ Len(SubSeq(f, 1, Len(f))) = IF 1 <= Len(f) THEN Len(f) - 1 + 1 ELSE 0
          /\ \A i \in 1..(Len(f) - 1 + 1) : SubSeq(f, 1, Len(f))[i] = f[1 + i - 1]
      BY <2>1, <3>1, SubSeqProperties DEF Path
    <3>3. /\ SubSeq(n, 1, Len(f)) \in Path
          /\ Len(SubSeq(n, 1, Len(f))) = IF 1 <= Len(f) THEN Len(f) - 1 + 1 ELSE 0
          /\ \A i \in 1..(Len(f) - 1 + 1) : SubSeq(n, 1, Len(f))[i] = n[1 + i - 1]
      BY <2>1, <3>1, SubSeqProperties DEF Path
    <3> QED
      BY <1>1, <3>2, <3>3
  <2>3. (\A i \in 1..Len(f) : n[i] = f[i]) => SubSeq(f, 1, Len(f)) = SubSeq(n, 1, Len(f))
    BY <2>2, SeqEqual DEF Path
  <2> QED
    BY <1>2, <2>2, <2>3 DEF Under, IsPrefix
<1>3. CASE ~(Len(f) <= Len(n))
  BY <1>3 DEF Under, IsPrefix
<1> QED
  BY <1>2, <1>3

LEMMA PathFacts ==
    \A n, f, g \in Path :
        /\ Len(n) \in Nat
        /\ Under(n, n)
        /\ Under(n, f) /\ Under(f, g) => Under(n, g)
        /\ Under(n, f) /\ Under(n, g) => Under(f, g) \/ Under(g, f)
        /\ Under(n, f) /\ Len(n) <= Len(f) => n = f
        /\ Below(n, f) <=> Under(n, f) /\ n # f
        /\ Below(n, f) => Len(f) < Len(n)
<1> SUFFICES ASSUME NEW n \in Path, NEW f \in Path, NEW g \in Path
             PROVE  /\ Len(n) \in Nat
                    /\ Under(n, n)
                    /\ Under(n, f) /\ Under(f, g) => Under(n, g)
                    /\ Under(n, f) /\ Under(n, g) => Under(f, g) \/ Under(g, f)
                    /\ Under(n, f) /\ Len(n) <= Len(f) => n = f
                    /\ Below(n, f) <=> Under(n, f) /\ n # f
                    /\ Below(n, f) => Len(f) < Len(n)
  OBVIOUS
<1>1. Len(n) \in Nat /\ Len(f) \in Nat /\ Len(g) \in Nat
  BY LenProperties DEF Path
<1>2. Below(n, f) <=> Under(n, f) /\ n # f
  BY DEF Below, Under, IsStrictPrefix
<1>3. Under(n, f) /\ Len(n) <= Len(f) => n = f
  BY <1>1, UnderAt, SeqEqual DEF Path
<1>4. Under(n, f) /\ Under(f, g) => Under(n, g)
  BY <1>1, UnderAt
<1>5. Under(n, f) /\ Under(n, g) => Under(f, g) \/ Under(g, f)
  <2>1. CASE Len(f) <= Len(g)
    BY <1>1, <2>1, UnderAt
  <2>2. CASE Len(g) <= Len(f)
    BY <1>1, <2>2, UnderAt
  <2> QED
    BY <1>1, <2>1, <2>2
<1> QED
  BY <1>1, <1>2, <1>3, <1>4, <1>5, UnderAt

\* What a folder is called after the rename of f, above it, to g.
LEMMA ImageAt ==
    ASSUME NEW n \in Path, NEW f \in Path, NEW g \in Path, Under(n, f)
    PROVE  /\ Image(n, f, g) \in Path
           /\ Len(Image(n, f, g)) = Len(g) + Len(n) - Len(f)
           /\ \A i \in 1..Len(g) : Image(n, f, g)[i] = g[i]
           /\ \A i \in (Len(g) + 1)..(Len(g) + Len(n) - Len(f)) :
                Image(n, f, g)[i] = n[i - Len(g) + Len(f)]
<1> DEFINE rest == SubSeq(n, Len(f) + 1, Len(n))
<1>1. Len(f) \in Nat /\ Len(n) \in Nat /\ Len(g) \in Nat /\ Len(f) <= Len(n)
  BY LenProperties, UnderAt DEF Path
<1>2. \A i \in (Len(f) + 1)..Len(n) : n[i] \in STRING
  BY <1>1, ElementOfSeq DEF Path
<1>3. Len(f) + 1 \in Int /\ Len(n) \in Int
  BY <1>1
<1>4. /\ rest \in Path
      /\ Len(rest) = IF Len(f) + 1 <= Len(n) THEN Len(n) - (Len(f) + 1) + 1 ELSE 0
      /\ \A i \in 1..(Len(n) - (Len(f) + 1) + 1) : rest[i] = n[Len(f) + 1 + i - 1]
  BY <1>2, <1>3, SubSeqProperties DEF Path
<1>5. Len(rest) = Len(n) - Len(f) /\ \A i \in 1..(Len(n) - Len(f)) : rest[i] = n[Len(f) + i]
  BY <1>1, <1>4
<1> HIDE DEF rest
<1>6. /\ g \o rest \in Path /\ Len(g \o rest) = Len(g) + Len(rest)
      /\ \A i \in 1 .. Len(g) + Len(rest) :
            (g \o rest)[i] = IF i <= Len(g) THEN g[i] ELSE rest[i - Len(g)]
  BY <1>4, ConcatProperties DEF Path
<1>7. Image(n, f, g) = g \o rest
  BY DEF Image, rest
<1>8. Len(g) + Len(rest) = Len(g) + Len(n) - Len(f)
  BY <1>1, <1>5
<1>9. \A i \in 1..Len(g) : (g \o rest)[i] = g[i]
  BY <1>1, <1>5, <1>6
<1>10. ASSUME NEW i \in (Len(g) + 1)..(Len(g) + Len(n) - Len(f))
       PROVE  (g \o rest)[i] = n[i - Len(g) + Len(f)]
  <2>1. i \in 1..(Len(g) + Len(rest)) /\ ~(i <= Len(g)) /\ i - Len(g) \in 1..(Len(n) - Len(f))
    BY <1>1, <1>8
  <2>2. (g \o rest)[i] = rest[i - Len(g)] /\ rest[i - Len(g)] = n[Len(f) + (i - Len(g))]
    BY <1>5, <1>6, <2>1
  <2>3. Len(f) + (i - Len(g)) = i - Len(g) + Len(f)
    BY <1>1
  <2> QED
    BY <2>2, <2>3
<1> QED
  BY <1>6, <1>7, <1>8, <1>9, <1>10

LEMMA ImageFacts ==
    ASSUME NEW f \in Path, NEW g \in Path
    PROVE  \A n \in Path : Under(n, f) =>
              /\ Image(n, f, g) \in Path
              /\ Under(Image(n, f, g), g)
              /\ Image(Image(n, f, g), g, f) = n
              /\ Image(f, f, g) = g
              /\ \A k \in Path : Under(n, k) /\ Under(k, f) => Under(Image(n, f, g), Image(k, f, g))
<1> SUFFICES ASSUME NEW n \in Path, Under(n, f)
             PROVE  /\ Image(n, f, g) \in Path
                    /\ Under(Image(n, f, g), g)
                    /\ Image(Image(n, f, g), g, f) = n
                    /\ Image(f, f, g) = g
                    /\ \A k \in Path : Under(n, k) /\ Under(k, f) => Under(Image(n, f, g), Image(k, f, g))
  OBVIOUS
<1> DEFINE m == Image(n, f, g)
<1>1. Len(f) \in Nat /\ Len(n) \in Nat /\ Len(g) \in Nat /\ Len(f) <= Len(n)
      /\ \A i \in 1..Len(f) : n[i] = f[i]
  BY LenProperties, UnderAt DEF Path
<1>2. /\ m \in Path /\ Len(m) = Len(g) + Len(n) - Len(f)
      /\ \A i \in 1..Len(g) : m[i] = g[i]
      /\ \A i \in (Len(g) + 1)..(Len(g) + Len(n) - Len(f)) : m[i] = n[i - Len(g) + Len(f)]
  BY ImageAt
<1> HIDE DEF m
<1>3. Under(m, g)
  BY <1>1, <1>2, UnderAt
<1>4. Image(m, g, f) = n
  <2>1. /\ Image(m, g, f) \in Path /\ Len(Image(m, g, f)) = Len(f) + Len(m) - Len(g)
        /\ \A i \in 1..Len(f) : Image(m, g, f)[i] = f[i]
        /\ \A i \in (Len(f) + 1)..(Len(f) + Len(m) - Len(g)) :
              Image(m, g, f)[i] = m[i - Len(f) + Len(g)]
    BY <1>2, <1>3, ImageAt
  <2>2. Len(Image(m, g, f)) = Len(n)
    BY <1>1, <1>2, <2>1
  <2>3. ASSUME NEW i \in 1..Len(n) PROVE Image(m, g, f)[i] = n[i]
    <3>1. CASE i <= Len(f)
      BY <1>1, <2>1, <3>1
    <3>2. CASE i > Len(f)
      <4>1. i \in (Len(f) + 1)..(Len(f) + Len(m) - Len(g))
        BY <1>1, <1>2, <3>2
      <4>2. i - Len(f) + Len(g) \in (Len(g) + 1)..(Len(g) + Len(n) - Len(f))
        BY <1>1, <3>2
      <4> DEFINE j == i - Len(f) + Len(g)
      <4>3. Image(m, g, f)[i] = m[j] /\ m[j] = n[j - Len(g) + Len(f)]
        BY <1>2, <2>1, <4>1, <4>2
      <4>4. j - Len(g) + Len(f) = i
        BY <1>1
      <4> QED
        BY <4>3, <4>4
    <3> QED
      BY <1>1, <3>1, <3>2
  <2> QED
    BY <2>1, <2>2, <2>3, SeqEqual DEF Path
<1>5. Image(f, f, g) = g
  <2>1. Under(f, f)
    BY PathFacts
  <2>2. /\ Image(f, f, g) \in Path /\ Len(Image(f, f, g)) = Len(g) + Len(f) - Len(f)
        /\ \A i \in 1..Len(g) : Image(f, f, g)[i] = g[i]
    BY <2>1, ImageAt
  <2>3. Len(Image(f, f, g)) = Len(g)
    BY <1>1, <2>2
  <2> QED
    BY <2>2, <2>3, SeqEqual DEF Path
<1>6. ASSUME NEW k \in Path, Under(n, k), Under(k, f) PROVE Under(m, Image(k, f, g))
  <2> DEFINE j == Image(k, f, g)
  <2>1. /\ j \in Path /\ Len(j) = Len(g) + Len(k) - Len(f)
        /\ \A i \in 1..Len(g) : j[i] = g[i]
        /\ \A i \in (Len(g) + 1)..(Len(g) + Len(k) - Len(f)) : j[i] = k[i - Len(g) + Len(f)]
    BY <1>6, ImageAt
  <2> HIDE DEF j
  <2>2. Len(k) \in Nat /\ Len(f) <= Len(k) /\ Len(k) <= Len(n) /\ \A i \in 1..Len(k) : n[i] = k[i]
    BY <1>6, LenProperties, UnderAt DEF Path
  <2>3. Len(j) <= Len(m)
    BY <1>1, <1>2, <2>1, <2>2
  <2>4. ASSUME NEW i \in 1..Len(j) PROVE m[i] = j[i]
    <3>1. CASE i <= Len(g)
      BY <1>1, <1>2, <2>1, <3>1
    <3>2. CASE i > Len(g)
      <4>1. /\ i \in (Len(g) + 1)..(Len(g) + Len(k) - Len(f))
            /\ i \in (Len(g) + 1)..(Len(g) + Len(n) - Len(f))
            /\ i - Len(g) + Len(f) \in 1..Len(k)
        BY <1>1, <2>1, <2>2, <3>2
      <4> QED
        BY <1>2, <2>1, <2>2, <4>1
    <3> QED
      BY <1>1, <3>1, <3>2, <2>1, <2>2
  <2>5. Under(m, j)
    BY <1>2, <2>1, <2>3, <2>4, UnderAt
  <2> QED
    BY <2>5 DEF j
<1> QED
  BY <1>2, <1>3, <1>4, <1>5, <1>6 DEF m

LEMMA NameFacts ==
    /\ Names \subseteq Path /\ Root \in Path /\ Inbox \in Names
    /\ \A s \in Chosen : Root \o s \in Names
    /\ \A n \in Names, k \in Path : Under(n, k) /\ Under(k, Root) => k \in Names
<1>1. Names \subseteq Path
  <2>1. \A s \in Subfolders : Root \o s \in Path
    BY FoldersAssumption, ConcatProperties DEF Path
  <2> QED
    BY <2>1, FoldersAssumption DEF Names
<1>2. \A s \in Chosen : Root \o s \in Names
  BY FoldersAssumption DEF Names
<1>3. ASSUME NEW n \in Names, NEW k \in Path, Under(n, k), Under(k, Root) PROVE k \in Names
  <2>1. n \in Path /\ Root \in Path
    BY <1>1, FoldersAssumption
  <2>2. Len(k) \in Len(Root)..Len(n) /\ Under(n, Root)
    <3>1. Len(k) \in Nat /\ Len(Root) \in Nat /\ Len(n) \in Nat /\ Len(Root) <= Len(k) /\ Len(k) <= Len(n)
      BY <1>3, <2>1, PathFacts, UnderAt
    <3> QED
      BY <1>3, <2>1, <3>1, PathFacts
  <2>3. SubSeq(n, 1, Len(k)) = k
    BY <1>3, SubSeqFull DEF Under, IsPrefix, Path
  <2> QED
    BY <2>2, <2>3, FoldersAssumption
<1> QED
  BY <1>1, <1>2, <1>3, FoldersAssumption DEF Names

-----------------------------------------------------------------------------
(* Steps of one thread.                                                    *)

LEMMA UidFacts == MaxUid \in Nat /\ Uids \subseteq 0..MaxUid
BY FoldersAssumption DEF Uids

\* The other threads stay where they are.
Others(t) ==
    \A u \in Threads \ {t} :
        /\ pc'[u] = pc[u] /\ op'[u] = op[u] /\ mid'[u] = mid[u] /\ dest'[u] = dest[u]
        /\ src'[u] = src[u] /\ dst'[u] = dst[u] /\ force'[u] = force[u]
        /\ seen'[u] = seen[u] /\ todo'[u] = todo[u] /\ at'[u] = at[u]
        /\ uid'[u] = uid[u] /\ doomed'[u] = doomed[u] /\ copied'[u] = copied[u]
        /\ aim'[u] = aim[u]

\* Mailboxes hand out new UIDs to what is added.
Grows ==
    \A b \in Boxes :
        /\ uidNext[b] <= uidNext'[b]
        /\ \A e \in mail'[b] : e \in mail[b] \/ uidNext[b] <= e.uid
        /\ \A e \in mail'[b] \cap mail[b] : e.uid \in flagged[b] => e.uid \in flagged'[b]

LEMMA KnowsStays ==
    ASSUME ServerTypes, ServerTypes', Grows, NEW b \in Boxes, NEW u \in 0..MaxUid, NEW m, Knows(b, u, m)
    PROVE  Knows(b, u, m)'
<1>1. uidNext[b] \in Nat /\ uidNext'[b] \in Nat /\ u \in Nat
  BY FoldersAssumption DEF ServerTypes
<1>2. \A e \in mail'[b] : e.uid \in Nat
  BY FoldersAssumption DEF ServerTypes, Entries, Uids
<1> QED
  BY <1>1, <1>2 DEF Knows, Grows

\* So the other threads still know what they knew.
LEMMA OthersOrderly ==
    ASSUME ThreadTypes, ServerTypes, ServerTypes', Grows, NEW t, Others(t),
           NEW u \in Threads, u # t, Remembers(u), Equipped(u)
    PROVE  Remembers(u)' /\ Equipped(u)'
<1>1. Equipped(u)'
  <2>1. Placed(u)'
    BY DEF Equipped, Placed, Others
  <2>2. Asked(u)'
    BY DEF Equipped, Asked, Others
  <2> QED
    BY <2>1, <2>2 DEF Equipped
<1>2. aim[u].box \in Boxes \cup {None} /\ at[u] \in Boxes \cup {None} /\ uid[u] \in 0..MaxUid
  BY DEF ThreadTypes
<1>3. \A b \in Boxes : \A m : Knows(b, uid[u], m) =>
          uid[u] < uidNext'[b] /\ \A e \in mail'[b] : e.uid = uid[u] => e.mid = m
  BY <1>2, KnowsStays DEF Knows
<1>4. /\ aim'[u] = aim[u] /\ uid'[u] = uid[u] /\ at'[u] = at[u] /\ copied'[u] = copied[u]
      /\ pc'[u] = pc[u] /\ op'[u] = op[u]
  BY DEF Others
<1>5. aim[u].box # None => Knows(aim[u].box, uid[u], aim[u].mid)'
  BY <1>2, <1>3, <1>4 DEF Remembers, Knows
<1>6. IF Mover(u)' THEN (copied[u] # None /\ Knows(at[u], uid[u], copied[u]))' ELSE (copied[u] = None)'
  <2>1. Mover(u)' = Mover(u)
    BY <1>4 DEF Mover
  <2>2. CASE Mover(u)
    <3>1. at[u] \in Boxes /\ copied[u] # None /\ Knows(at[u], uid[u], copied[u])
      BY <2>2 DEF Equipped, Placed, Asked, Mover, Remembers
    <3> QED
      BY <1>3, <1>4, <2>1, <2>2, <3>1 DEF Knows
  <2>3. CASE ~Mover(u)
    BY <1>4, <2>1, <2>3 DEF Remembers
  <2> QED
    BY <2>1, <2>2, <2>3
<1>7. (Mover(u) /\ pc[u] = "expunge" /\ HasUid(at[u], uid[u]) => uid[u] \in flagged[at[u]])'
  <2> SUFFICES ASSUME Mover(u), pc[u] = "expunge", NEW e \in mail'[at[u]], e.uid = uid[u]
               PROVE  uid[u] \in flagged'[at[u]]
    BY <1>4 DEF Mover, HasUid
  <2>1. at[u] \in Boxes /\ uid[u] < uidNext[at[u]]
    BY DEF Equipped, Placed, Remembers, Knows
  <2>2. uidNext[at[u]] \in Nat /\ uid[u] \in Nat
    BY <1>2, <2>1, FoldersAssumption DEF ServerTypes
  <2>3. e \in mail[at[u]]
    BY <2>1, <2>2 DEF Grows
  <2> QED
    BY <2>1, <2>3 DEF Grows, Remembers, HasUid
<1> QED
  BY <1>1, <1>4, <1>5, <1>6, <1>7 DEF Remembers

LEMMA MovingFinite == \A m : IsFiniteSet(Moving(m)) /\ IsFiniteSet(Moving(m))'
<1>1. IsFiniteSet(Threads)
  <2>1. IsFiniteSet((Handlers \cup {Agent}) \cup {Cleaner})
    BY FoldersAssumption, FS_AddElement
  <2>2. Threads = (Handlers \cup {Agent}) \cup {Cleaner}
    BY FoldersAssumption
  <2> QED
    BY <2>1, <2>2
<1>2. \A m : Moving(m) \in SUBSET Threads
  BY DEF Moving
<1>3. \A m : {t \in Threads : copied'[t] = m} \in SUBSET Threads
  OBVIOUS
<1> QED
  BY <1>1, <1>2, <1>3, FS_Subset DEF Moving

\* A move that ends gives its copy up to the spare ones.
LEMMA CutStep ==
    ASSUME ThreadTypes, HistoryTypes, Few, SpareCopiesExplained, NEW t \in Threads, Others(t),
           UNCHANGED mail,
           \/ copied'[t] = copied[t] /\ UNCHANGED spare
           \/ copied'[t] = None /\ spare' = Cut(t)
    PROVE  Few' /\ SpareCopiesExplained'
<1>1. \A m : Copies(m)' = Copies(m)
  BY DEF Copies
<1>2. Few'
  BY <1>1 DEF Few
<1>3. SpareCopiesExplained'
  <2> SUFFICES ASSUME NEW m \in Mids
               PROVE  Cardinality(Copies(m)) <= 1 + Cardinality(Moving(m)') + spare'[m]
    BY <1>1 DEF SpareCopiesExplained
  <2>1. /\ Cardinality(Copies(m)) <= 1 + Cardinality(Moving(m)) + spare[m]
        /\ Cardinality(Copies(m)) \in Nat /\ Cardinality(Moving(m)) \in Nat /\ spare[m] \in Nat
    BY MovingFinite, FS_CardinalityType DEF SpareCopiesExplained, Few, HistoryTypes
  <2>2. CASE copied'[t] = copied[t] /\ UNCHANGED spare
    <3>1. Moving(m)' = Moving(m)
      BY <2>2 DEF Moving, Others
    <3> QED
      BY <2>1, <2>2, <3>1
  <2>3. CASE copied'[t] = None /\ spare' = Cut(t)
    <3>1. spare'[m] = IF copied[t] = m THEN spare[m] + 1 ELSE spare[m]
      BY <2>3 DEF Cut
    <3>2. Moving(m)' = Moving(m) \ {t} /\ (t \in Moving(m) <=> copied[t] = m)
      BY <2>3, FoldersAssumption DEF Moving, Others
    <3>3. Cardinality(Moving(m)') = IF copied[t] = m THEN Cardinality(Moving(m)) - 1
                                    ELSE Cardinality(Moving(m))
      BY <3>2, MovingFinite, FS_RemoveElement
    <3> QED
      BY <2>1, <3>1, <3>3
  <2> QED
    BY <2>2, <2>3
<1> QED
  BY <1>2, <1>3

\* A step of a thread that leaves the server alone.
LEMMA LocalStep ==
    ASSUME IInv, NEW t \in Threads, UNCHANGED <<server, asked, swept>>, Others(t),
           HintTypes', ThreadTypes', HistoryTypes', Remembers(t)', Equipped(t)',
           Mover(t)' => Mover(t) /\ at'[t] = at[t] /\ uid'[t] = uid[t],
           \/ copied'[t] = copied[t] /\ UNCHANGED spare
           \/ copied'[t] = None /\ spare' = Cut(t),
           quiet' => (quiet /\ t # Cleaner) \/ Sweeping'
    PROVE  IInv'
<1> USE DEF IInv, TypeOK
<1>1. UNCHANGED <<rejects, named, made, mail, uidNext, flagged>>
  BY DEF server
<1>2. Listed' = Listed /\ Archived' = Archived
  BY <1>1 DEF Listed, Archived
<1>3. ServerTypes' /\ Rooted' /\ Numbered' /\ Apart' /\ Refused'
  BY <1>1, <1>2 DEF ServerTypes, Rooted, Numbered, Apart, Refused
<1>4. Grows
  <2>1. \A b \in Boxes : uidNext[b] \in Nat
    BY FoldersAssumption DEF ServerTypes
  <2> QED
    BY <1>1, <2>1 DEF Grows
<1>5. \A u \in Threads : Remembers(u)' /\ Equipped(u)'
  BY <1>3, <1>4, OthersOrderly
<1>6. Few' /\ SpareCopiesExplained'
  BY <1>1, CutStep
<1>7. SomeSpared'
  <2>1. \A u \in Threads : Mover(u)' => Mover(u) /\ at'[u] = at[u] /\ uid'[u] = uid[u]
    BY DEF Others, Mover
  <2>2. \A m, n, e : Spared(m, n, e) => Spared(m, n, e)'
    BY <1>1, <2>1 DEF Spared
  <2> QED
    BY <1>2, <2>2 DEF SomeSpared
<1>8. Sweeping'
  <2>1. CASE quiet /\ t # Cleaner
    <3>1. Cleaner \in Threads \ {t}
      BY <2>1, FoldersAssumption
    <3> QED
      BY <1>1, <1>2, <2>1, <3>1 DEF Sweeping, Holding, Others
  <2> QED
    BY <2>1 DEF Sweeping
<1> QED
  BY <1>3, <1>5, <1>6, <1>7, <1>8

\* A thread that is done.
LEMMA Forgotten ==
    ASSUME ThreadTypes, NEW t \in Threads, ForgetJob(t)
    PROVE  /\ ThreadTypes' /\ Others(t) /\ copied'[t] = None /\ ~Mover(t)'
           /\ Remembers(t)' /\ Equipped(t)' /\ pc'[t] = "idle"
<1>1. /\ pc' = [pc EXCEPT ![t] = "idle"] /\ op' = [op EXCEPT ![t] = None]
      /\ mid' = [mid EXCEPT ![t] = None] /\ dest' = [dest EXCEPT ![t] = None]
      /\ src' = [src EXCEPT ![t] = None] /\ dst' = [dst EXCEPT ![t] = None]
      /\ force' = [force EXCEPT ![t] = FALSE]
      /\ seen' = [seen EXCEPT ![t] = {}] /\ todo' = [todo EXCEPT ![t] = {}]
      /\ at' = [at EXCEPT ![t] = None]
      /\ uid' = [uid EXCEPT ![t] = 0] /\ doomed' = [doomed EXCEPT ![t] = {}]
      /\ copied' = [copied EXCEPT ![t] = None] /\ aim' = [aim EXCEPT ![t] = NoAim]
  BY DEF ForgetJob, Finish, Goto
<1>2. Others(t)
  BY <1>1 DEF ThreadTypes, Others
<1>3. NoAim \in [box : Boxes \cup {None}, mid : Mids \cup {None}] /\ NoAim.box = None
  BY DEF NoAim
<1>4. 0 \in 0..MaxUid
  BY FoldersAssumption
<1>5. ThreadTypes'
  BY <1>1, <1>3, <1>4 DEF ThreadTypes, Labels
<1>6. /\ pc'[t] = "idle" /\ op'[t] = None /\ copied'[t] = None /\ aim'[t].box = None
      /\ mid'[t] = None
  BY <1>1, <1>3 DEF ThreadTypes
<1>7. Remembers(t)' /\ ~Mover(t)'
  BY <1>6 DEF Remembers, Mover
<1>8. Equipped(t)'
  BY <1>6, FoldersAssumption DEF Equipped, Placed, Asked, MessageOps, Requests
<1> QED
  BY <1>2, <1>5, <1>6, <1>7, <1>8

LEMMA AnswerStep ==
    ASSUME IInv, NEW t \in Threads, Answer(t), pc[t] \notin {"remove", "expunge"}, t # Cleaner
    PROVE  IInv'
<1> USE DEF IInv, TypeOK
<1>1. /\ ThreadTypes' /\ Others(t) /\ copied'[t] = None /\ ~Mover(t)'
      /\ Remembers(t)' /\ Equipped(t)'
  BY Forgotten DEF Answer
<1>2. UNCHANGED <<hintVars, server, bounds, history>>
  BY DEF Answer
<1>3. UNCHANGED <<overrides, hints, draft, requests, troubles, asked, swept, spare, quiet, server>>
  BY <1>2 DEF hintVars, bounds, history
<1>4. HintTypes' /\ HistoryTypes'
  BY <1>3 DEF HintTypes, HistoryTypes
<1>5. copied[t] = None
  BY DEF Remembers, Mover
<1> QED
  BY <1>1, <1>3, <1>4, <1>5, LocalStep

-----------------------------------------------------------------------------
(* Requests that start.                                                    *)

\* The message a request names, if any, is known where it was seen.
Aimed(t) ==
    /\ src' \in [Threads -> Names \cup {None}] /\ uid' \in [Threads -> 0..MaxUid]
    /\ mid' \in [Threads -> Mids \cup {None}]
    /\ aim' \in [Threads -> [box : Boxes \cup {None}, mid : Mids \cup {None}]]
    /\ \A u \in Threads \ {t} :
          src'[u] = src[u] /\ uid'[u] = uid[u] /\ mid'[u] = mid[u] /\ aim'[u] = aim[u]
    /\ aim'[t].box # None =>
          /\ uid'[t] < uidNext[aim'[t].box]
          /\ \A e \in mail[aim'[t].box] : e.uid = uid'[t] => e.mid = aim'[t].mid

LEMMA ByUidAims ==
    ASSUME ThreadTypes, ServerTypes, Numbered, NEW t \in Threads, NEW f \in Listed,
           NEW e \in mail[named[f]], NEW m, ByUid(t, f, e, m)
    PROVE  /\ Aimed(t) /\ src'[t] = f /\ mid'[t] = m /\ m \in {e.mid, None} /\ e.mid \in Mids
           /\ (mid'[t] # None => aim'[t].mid = mid'[t])
<1>1. f \in Names /\ named[f] \in Boxes
  BY DEF Listed, ServerTypes
<1>2. e \in Entries /\ e.uid \in 0..MaxUid /\ e.mid \in Mids
  BY <1>1, FoldersAssumption DEF ServerTypes, Entries, Uids
<1>3. /\ src' = [src EXCEPT ![t] = f] /\ uid' = [uid EXCEPT ![t] = e.uid]
      /\ mid' = [mid EXCEPT ![t] = m] /\ m \in {e.mid, None}
      /\ aim' = [aim EXCEPT ![t] = [box |-> named[f], mid |-> e.mid]]
  BY DEF ByUid, Select
<1>4. /\ src'[t] = f /\ uid'[t] = e.uid /\ mid'[t] = m
      /\ aim'[t].box = named[f] /\ aim'[t].mid = e.mid
  BY <1>3 DEF ThreadTypes
<1>5. e.uid < uidNext[named[f]] /\ \A d \in mail[named[f]] : d.uid = e.uid => d.mid = e.mid
  BY <1>1 DEF Numbered
<1>6. [box |-> named[f], mid |-> e.mid] \in [box : Boxes \cup {None}, mid : Mids \cup {None}]
  BY <1>1, <1>2
<1>7. Aimed(t)
  BY <1>1, <1>2, <1>3, <1>4, <1>5, <1>6 DEF Aimed, ThreadTypes
<1> QED
  BY <1>2, <1>3, <1>4, <1>7

LEMMA ByMidAims ==
    ASSUME ThreadTypes, NEW t \in Threads, NEW f \in Names \cup {None},
           NEW m \in Mids, ByMid(t, f, m)
    PROVE  Aimed(t) /\ src'[t] = f /\ mid'[t] = m /\ aim'[t].mid = m
<1>1. /\ src' = [src EXCEPT ![t] = f] /\ uid' = uid /\ mid' = [mid EXCEPT ![t] = m]
      /\ aim' = [aim EXCEPT ![t] = [box |-> None, mid |-> m]]
  BY DEF ByMid, Select
<1>2. [box |-> None, mid |-> m] \in [box : Boxes \cup {None}, mid : Mids \cup {None}]
  OBVIOUS
<1>3. src'[t] = f /\ mid'[t] = m /\ aim'[t].box = None /\ aim'[t].mid = m
  BY <1>1 DEF ThreadTypes
<1> QED
  BY <1>1, <1>2, <1>3 DEF Aimed, ThreadTypes

LEMMA NamedAims ==
    ASSUME ThreadTypes, ServerTypes, Numbered, NEW t \in Threads, Named(t)
    PROVE  Aimed(t) /\ (mid'[t] # None => aim'[t].mid = mid'[t])
<1>1. CASE \E f \in Listed : \E e \in mail[named[f]], m \in Mids \cup {None} : ByUid(t, f, e, m)
  BY <1>1, ByUidAims
<1>2. CASE \E f \in Listed : \E m \in MidsIn(named[f]) : ByMid(t, f, m)
  <2>1. PICK f \in Listed : \E m \in MidsIn(named[f]) : ByMid(t, f, m)
    BY <1>2
  <2>2. MidsIn(named[f]) \subseteq Mids /\ f \in Names
    BY DEF Listed, MidsIn, ServerTypes, Entries
  <2> QED
    BY <2>1, <2>2, ByMidAims
<1> QED
  BY <1>1, <1>2 DEF Named

LEMMA BeginStep ==
    ASSUME IInv, NEW t \in Threads, NEW r \in Requests, NEW l \in Labels \ {"remove", "expunge"},
           Begin(t, r), Goto(t, l), Aimed(t),
           dst' \in [Threads -> Names \cup {None}], force' \in [Threads -> BOOLEAN],
           \A u \in Threads \ {t} : dst'[u] = dst[u] /\ force'[u] = force[u],
           Equipped(t)'
    PROVE  IInv'
<1> USE DEF IInv, TypeOK
<1>1. /\ t \in Handlers /\ pc[t] = "idle" /\ requests < MaxRequests /\ requests' = requests + 1
      /\ op' = [op EXCEPT ![t] = r] /\ pc' = [pc EXCEPT ![t] = l]
      /\ UNCHANGED <<overrides, hints, draft, dest, server, seen, todo, at, doomed, copied, troubles,
                     asked, swept, spare, quiet>>
  BY DEF Begin, Request, Goto, hintVars
<1>2. Others(t)
  BY <1>1 DEF Others, Aimed, ThreadTypes
<1>3. HintTypes' /\ HistoryTypes'
  BY <1>1, FoldersAssumption DEF HintTypes, HistoryTypes
<1>4. ThreadTypes'
  BY <1>1 DEF ThreadTypes, Aimed
<1>5. pc'[t] = l /\ copied'[t] = copied[t] /\ copied[t] = None
  BY <1>1 DEF ThreadTypes, Remembers, Mover
<1>6. UNCHANGED <<mail, uidNext>>
  BY <1>1 DEF server
<1>7. Remembers(t)' /\ ~Mover(t)'
  BY <1>5, <1>6 DEF Remembers, Mover, Aimed, Knows
<1>8. t # Cleaner
  BY <1>1, FoldersAssumption
<1> QED
  BY <1>1, <1>2, <1>3, <1>4, <1>5, <1>7, <1>8, LocalStep

LEMMA RequestingKeeps == IInv /\ (\E t \in Handlers : Requesting(t)) => IInv'
<1> SUFFICES ASSUME IInv, NEW t \in Handlers, Requesting(t) PROVE IInv'
  OBVIOUS
<1> USE DEF IInv, TypeOK
<1>1. t \in Threads /\ t # Cleaner /\ Inbox \in Names
  BY FoldersAssumption, NameFacts
<1>2. ASSUME NEW r \in Requests, NEW l \in Labels, Begin(t, r), Goto(t, l)
      PROVE  op'[t] = r /\ pc'[t] = l /\ dest'[t] = dest[t]
  BY <1>1, <1>2 DEF Begin, Goto, ThreadTypes
\* A request that begins where nothing of what it has matters yet.
<1>3. ASSUME NEW r \in Requests \ {"cleanup"}, NEW l \in {"list", "choose", "resolve", "select"}, Begin(t, r),
             Goto(t, l), Aimed(t), UNCHANGED force,
             dst' \in [Threads -> Names \cup {None}], \A u \in Threads \ {t} : dst'[u] = dst[u],
             r # "archive" \/ (l = "choose" /\ mid'[t] \in Mids),
             l = "choose" => r = "archive",
             l = "resolve" => r \in {"archive", "message delete", "read"}, l = "select" => r = "read",
             r \in MessageOps /\ mid'[t] # None => aim'[t].mid = mid'[t],
             r \in {"move", "create", "rename"} => dst'[t] \in Names,
             r = "rename" => src'[t] \in Names /\ Below(src'[t], Root)
      PROVE  IInv'
  <2>1. op'[t] = r /\ pc'[t] = l /\ l \in Labels \ {"remove", "expunge"}
    BY <1>2, <1>3 DEF Labels
  <2>2. Equipped(t)'
    <3>1. Placed(t)'
      BY <1>1, <1>3, <2>1 DEF Equipped, Placed
    <3>2. Asked(t)'
      BY <1>1, <1>3, <2>1 DEF Equipped, Asked
    <3> QED
      BY <3>1, <3>2 DEF Equipped
  <2>3. force' \in [Threads -> BOOLEAN]
    BY <1>3 DEF ThreadTypes
  <2> QED
    BY <1>1, <1>3, <2>1, <2>2, <2>3, BeginStep
<1>4. CASE ArchiveMove(t)
  <2>1. Aimed(t) /\ (mid'[t] # None => aim'[t].mid = mid'[t])
    <3>1. CASE \E f \in Listed : \E e \in mail[named[f]] : Below(f, Root) /\ ByUid(t, f, e, None)
      BY <1>1, <3>1, ByUidAims
    <3>2. CASE \E m \in Mids : ByMid(t, None, m)
      BY <1>1, <3>2, ByMidAims
    <3> QED
      BY <1>4, <3>1, <3>2 DEF ArchiveMove
  <2>2. PICK g \in Targets : Target(t, g)
    BY <1>4 DEF ArchiveMove
  <2>3. g \in Names /\ dst' = [dst EXCEPT ![t] = g]
    BY <2>2, FoldersAssumption DEF Target
  <2>4. /\ dst' \in [Threads -> Names \cup {None}] /\ dst'[t] \in Names
        /\ \A u \in Threads \ {t} : dst'[u] = dst[u]
    BY <1>1, <2>3 DEF ThreadTypes
  <2> QED
    BY <1>3, <1>4, <2>1, <2>4 DEF ArchiveMove, Requests
<1>5. CASE Archive(t)
  <2>1. PICK e \in mail[named[Inbox]] : ByUid(t, Inbox, e, e.mid)
    BY <1>5 DEF Archive
  <2>2. /\ Aimed(t) /\ mid'[t] = e.mid /\ e.mid \in Mids
        /\ (mid'[t] # None => aim'[t].mid = mid'[t])
    BY <1>1, <1>5, <2>1, ByUidAims DEF Archive
  <2> QED
    BY <1>3, <1>5, <2>2 DEF Archive, Requests, ThreadTypes
<1>6. CASE ArchiveMessageDelete(t)
  BY <1>1, <1>3, <1>6, NamedAims DEF ArchiveMessageDelete, Requests, ThreadTypes
<1>7. CASE ServeArchiveMessage(t)
  BY <1>1, <1>3, <1>7, NamedAims DEF ServeArchiveMessage, Requests, ThreadTypes
<1>8. CASE PushArchived(t)
  BY <1>1, <1>3, <1>8, NamedAims DEF PushArchived, Requests, ThreadTypes
<1>9. CASE PushCard(t)
  <2>1. Aimed(t) /\ (mid'[t] # None => aim'[t].mid = mid'[t])
    BY <1>1, <1>9, ByUidAims DEF PushCard
  <2> QED
    BY <1>3, <1>9, <2>1 DEF PushCard, Requests, ThreadTypes
<1>10. CASE ServeMessageBody(t)
  <2>1. Aimed(t) /\ (mid'[t] # None => aim'[t].mid = mid'[t])
    BY <1>1, <1>10, NamedAims, ByMidAims DEF ServeMessageBody
  <2> QED
    BY <1>3, <1>10, <2>1 DEF ServeMessageBody, Requests, ThreadTypes
\* The requests on folders: they name no message.
<1>11. ASSUME UNCHANGED <<mid, uid, aim>>, src' \in [Threads -> Names \cup {None}],
              \A u \in Threads \ {t} : src'[u] = src[u]
       PROVE  Aimed(t)
  BY <1>1, <1>11 DEF Aimed, ThreadTypes, Remembers, Knows
<1>12. CASE ArchiveDelete(t)
  <2>1. PICK f \in Names, forced \in BOOLEAN : Select(t, f) /\ force' = [force EXCEPT ![t] = forced]
    BY <1>12 DEF ArchiveDelete
  <2>2. /\ src' \in [Threads -> Names \cup {None}] /\ force' \in [Threads -> BOOLEAN]
        /\ \A u \in Threads \ {t} : src'[u] = src[u] /\ force'[u] = force[u]
    BY <1>1, <2>1 DEF ThreadTypes, Select
  <2>3. Aimed(t) /\ Begin(t, "delete") /\ Goto(t, "list") /\ UNCHANGED dst
    BY <1>11, <1>12, <2>2 DEF ArchiveDelete
  <2>4. op'[t] = "delete" /\ pc'[t] = "list" /\ "list" \in Labels \ {"remove", "expunge"}
        /\ "delete" \in Requests
    BY <1>2, <2>3 DEF Labels, Requests
  <2>5. Equipped(t)'
    BY <1>1, <2>4 DEF Equipped, Placed, Asked, MessageOps
  <2> QED
    BY <1>1, <2>2, <2>3, <2>4, <2>5, BeginStep DEF ThreadTypes
<1>13. CASE ArchiveRename(t)
  <2>1. PICK f \in Names, g \in Targets : Below(f, Root) /\ Select(t, f) /\ Target(t, g)
    BY <1>13 DEF ArchiveRename
  <2>2. g \in Names
    BY FoldersAssumption
  <2>3. /\ src' \in [Threads -> Names \cup {None}] /\ src'[t] = f
        /\ dst' \in [Threads -> Names \cup {None}] /\ dst'[t] = g
        /\ \A u \in Threads \ {t} : src'[u] = src[u] /\ dst'[u] = dst[u]
    BY <1>1, <2>1, <2>2 DEF ThreadTypes, Select, Target
  <2> QED
    BY <1>3, <1>11, <1>13, <2>1, <2>2, <2>3 DEF ArchiveRename, Requests, MessageOps
<1>14. CASE ArchiveCreate(t)
  <2>1. PICK g \in Targets : Target(t, g)
    BY <1>14 DEF ArchiveCreate
  <2>2. g \in Names
    BY FoldersAssumption
  <2>3. /\ dst' \in [Threads -> Names \cup {None}] /\ dst'[t] = g
        /\ \A u \in Threads \ {t} : dst'[u] = dst[u]
    BY <1>1, <2>1, <2>2 DEF ThreadTypes, Target
  <2>4. Aimed(t)
    BY <1>11, <1>14 DEF ArchiveCreate, ThreadTypes
  <2> QED
    BY <1>3, <1>14, <2>2, <2>3, <2>4 DEF ArchiveCreate, Requests, MessageOps
<1> QED
  BY <1>4, <1>5, <1>6, <1>7, <1>8, <1>9, <1>10, <1>12, <1>13, <1>14 DEF Requesting

-----------------------------------------------------------------------------
(* The choice of a destination.                                            *)

LEMMA HintStep ==
    ASSUME IInv, NEW t \in Threads, t # Cleaner, Untouched, HintTypes',
           pc[t] \notin {"remove", "expunge"}, pc' \in [Threads -> Labels], pc'[t] \notin {"remove", "expunge"},
           op' \in [Threads -> Requests \cup {None}], mid' \in [Threads -> Mids \cup {None}],
           dest' \in [Threads -> Entered \cup Chosen \cup {<<>>, None}],
           \A u \in Threads \ {t} :
              pc'[u] = pc[u] /\ op'[u] = op[u] /\ mid'[u] = mid[u] /\ dest'[u] = dest[u],
           UNCHANGED requests \/ Request, Equipped(t)'
    PROVE  IInv'
<1> USE DEF IInv, TypeOK
<1>1. UNCHANGED <<server, src, dst, force, seen, todo, at, uid, doomed, copied, aim, troubles,
                  asked, swept, spare, quiet, mail, uidNext>>
  BY DEF Untouched, work, memo, history, server
<1>2. Others(t) /\ ThreadTypes'
  BY <1>1 DEF Others, ThreadTypes
<1>3. HistoryTypes'
  BY <1>1, FoldersAssumption DEF HistoryTypes, Request
<1>4. Remembers(t)' /\ ~Mover(t)'
  BY <1>1 DEF Remembers, Mover, Knows
<1> QED
  BY <1>1, <1>2, <1>3, <1>4, LocalStep

LEMMA ChosenFacts ==
    /\ \A s \in Entered : Normalize(s) \in Chosen /\ s # None
    /\ \A m \in Mids : Normalize(Rule[m]) \in Chosen
    /\ \A s \in Proposals : s \in Entered /\ Normalize(s) \in Once
    /\ Once \subseteq Entered
BY FoldersAssumption DEF Chosen, Once, Entered

LEMMA HintingKeeps == IInv /\ Hinting /\ Untouched => IInv'
<1> SUFFICES ASSUME IInv, Hinting, Untouched PROVE IInv'
  OBVIOUS
<1> USE DEF IInv, TypeOK
<1>1. Agent \in Threads /\ Agent # Cleaner /\ \A t \in Handlers : t \in Threads /\ t # Cleaner
  BY FoldersAssumption
<1>2. UNCHANGED <<at, dst, src, aim, force>>
  BY DEF Untouched, work, memo
\* A thread is done.
<1>3. ASSUME NEW t \in Threads, t # Cleaner, pc[t] \notin {"remove", "expunge"}, Finish(t), HintTypes', UNCHANGED requests
      PROVE  IInv'
  <2>1. /\ pc' = [pc EXCEPT ![t] = "idle"] /\ op' = [op EXCEPT ![t] = None]
        /\ mid' = [mid EXCEPT ![t] = None] /\ dest' = [dest EXCEPT ![t] = None]
    BY <1>3 DEF Finish, Goto
  <2>2. /\ pc' \in [Threads -> Labels] /\ op' \in [Threads -> Requests \cup {None}]
        /\ mid' \in [Threads -> Mids \cup {None}]
        /\ dest' \in [Threads -> Entered \cup Chosen \cup {<<>>, None}]
        /\ pc'[t] = "idle" /\ op'[t] = None /\ mid'[t] = None
        /\ \A u \in Threads \ {t} :
              pc'[u] = pc[u] /\ op'[u] = op[u] /\ mid'[u] = mid[u] /\ dest'[u] = dest[u]
    BY <2>1 DEF ThreadTypes, Labels
  <2>3. Equipped(t)'
    BY <1>3, <2>2, FoldersAssumption DEF Equipped, Placed, Asked, MessageOps, Requests
  <2> QED
    BY <1>3, <2>2, <2>3, HintStep
\* A thread goes on with the message it has.
<1>4. ASSUME NEW t \in Threads, t # Cleaner, pc[t] \notin {"remove", "expunge"}, mid[t] \in Mids,
             NEW l \in {"hinted", "propose", "save hint", "reread", "resolve", "respond"}, Goto(t, l),
             UNCHANGED <<op, mid, requests>>, HintTypes',
             dest' \in [Threads -> Entered \cup Chosen \cup {<<>>, None}],
             \A u \in Threads \ {t} : dest'[u] = dest[u],
             l = "resolve" => dest'[t] \in Chosen /\ op[t] = "archive", l = "save hint" => dest'[t] \in Once
      PROVE  IInv'
  <2>1. pc' \in [Threads -> Labels] /\ pc'[t] = l /\ \A u \in Threads \ {t} : pc'[u] = pc[u]
    BY <1>4 DEF Goto, ThreadTypes, Labels
  <2>2. Equipped(t)'
    <3>1. Placed(t)'
      BY <1>2, <1>4, <2>1 DEF Equipped, Placed
    <3>2. Asked(t)'
      BY <1>2, <1>4, <2>1 DEF Equipped, Asked
    <3> QED
      BY <3>1, <3>2 DEF Equipped
  <2> QED
    BY <1>4, <2>1, <2>2, HintStep DEF ThreadTypes
<1>5. ASSUME NEW t \in Threads, t # Cleaner, pc[t] \notin {"remove", "expunge"}, mid[t] \in Mids, NEW s \in Chosen,
             Settle(t, s), UNCHANGED <<hintVars, op, mid, requests>>
      PROVE  IInv'
  <2>1. /\ dest' \in [Threads -> Entered \cup Chosen \cup {<<>>, None}] /\ dest'[t] = s
        /\ \A u \in Threads \ {t} : dest'[u] = dest[u]
    BY <1>5 DEF Settle, ThreadTypes
  <2>2. HintTypes'
    BY <1>5 DEF hintVars, HintTypes
  <2>3. (Goto(t, "resolve") /\ op[t] = "archive") \/ Goto(t, "respond")
    BY <1>5 DEF Settle
  <2> QED
    BY <1>4, <1>5, <2>1, <2>2, <2>3
<1>6. ASSUME NEW t \in Handlers, NEW m \in Mids, NEW s \in Proposals \cup {<<>>}, LoadOverrides(t, m, s)
      PROVE  IInv'
  <2>1. /\ pc[t] = "idle" /\ Request /\ op' = [op EXCEPT ![t] = "override"]
        /\ mid' = [mid EXCEPT ![t] = m] /\ dest' = [dest EXCEPT ![t] = s]
        /\ draft' = [draft EXCEPT ![t] = overrides] /\ pc' = [pc EXCEPT ![t] = "save override"]
        /\ UNCHANGED <<overrides, hints>>
    BY <1>6 DEF LoadOverrides, Goto
  <2>2. /\ pc' \in [Threads -> Labels] /\ op' \in [Threads -> Requests \cup {None}]
        /\ mid' \in [Threads -> Mids \cup {None}]
        /\ dest' \in [Threads -> Entered \cup Chosen \cup {<<>>, None}]
        /\ pc'[t] = "save override" /\ op'[t] = "override" /\ mid'[t] = m /\ dest'[t] = s
        /\ \A u \in Threads \ {t} :
              pc'[u] = pc[u] /\ op'[u] = op[u] /\ mid'[u] = mid[u] /\ dest'[u] = dest[u]
    BY <1>1, <2>1, ChosenFacts DEF ThreadTypes, Labels, Requests
  <2>3. HintTypes'
    BY <2>1 DEF HintTypes
  <2>4. Equipped(t)'
    BY <1>1, <2>2 DEF Equipped, Placed, Asked, MessageOps
  <2> QED
    BY <1>1, <2>1, <2>2, <2>3, <2>4, HintStep
<1>7. ASSUME NEW t \in Handlers, NEW m \in Mids, ServeProposal(t, m) PROVE IInv'
  <2>1. /\ pc[t] = "idle" /\ Request /\ op' = [op EXCEPT ![t] = "proposal"]
        /\ mid' = [mid EXCEPT ![t] = m] /\ pc' = [pc EXCEPT ![t] = "choose"]
        /\ UNCHANGED <<overrides, hints, draft, dest>>
    BY <1>7 DEF ServeProposal, Goto, hintVars
  <2>2. /\ pc' \in [Threads -> Labels] /\ op' \in [Threads -> Requests \cup {None}]
        /\ mid' \in [Threads -> Mids \cup {None}]
        /\ dest' \in [Threads -> Entered \cup Chosen \cup {<<>>, None}]
        /\ pc'[t] = "choose" /\ op'[t] = "proposal" /\ mid'[t] = m
        /\ \A u \in Threads \ {t} :
              pc'[u] = pc[u] /\ op'[u] = op[u] /\ mid'[u] = mid[u] /\ dest'[u] = dest[u]
    BY <1>1, <2>1 DEF ThreadTypes, Labels, Requests
  <2>3. HintTypes'
    BY <2>1 DEF HintTypes
  <2>4. Equipped(t)'
    BY <1>1, <2>2 DEF Equipped, Placed, Asked, MessageOps
  <2> QED
    BY <1>1, <2>1, <2>2, <2>3, <2>4, HintStep
<1>8. CASE LoadHints(Agent)
  <2> DEFINE t == Agent
  <2>1. /\ pc[t] = "idle" /\ Request /\ op' = [op EXCEPT ![t] = "triage"]
        /\ draft' = [draft EXCEPT ![t] = hints] /\ pc' = [pc EXCEPT ![t] = "save hints"]
        /\ UNCHANGED <<overrides, hints, mid, dest>>
    BY <1>8 DEF LoadHints, Goto
  <2>2. /\ pc' \in [Threads -> Labels] /\ op' \in [Threads -> Requests \cup {None}]
        /\ pc'[t] = "save hints" /\ op'[t] = "triage"
        /\ \A u \in Threads \ {t} :
              pc'[u] = pc[u] /\ op'[u] = op[u] /\ mid'[u] = mid[u] /\ dest'[u] = dest[u]
    BY <1>1, <2>1 DEF ThreadTypes, Labels, Requests
  <2>3. HintTypes'
    BY <2>1 DEF HintTypes
  <2>4. Equipped(t)'
    BY <1>1, <2>2 DEF Equipped, Placed, Asked, MessageOps
  <2> QED
    BY <1>1, <2>1, <2>2, <2>3, <2>4, HintStep DEF ThreadTypes
<1>9. ASSUME NEW t \in Threads, HintSteps(t) PROVE IInv'
  <2>1. t # Cleaner /\ pc[t] \notin {"remove", "expunge"}
    BY <1>9 DEF HintSteps, SaveOverride, SaveHints, ReadOverride, ReadHint, ProposeNothing, Propose,
       SaveHint, RereadHint, Respond, Equipped, Placed, Asked
  <2>2. Equipped(t) /\ draft[t] \in Documents /\ NoDocument \in Documents
    BY DEF HintTypes, NoDocument, Documents
  <2>3. CASE SaveOverride(t)
    <3>1. Edited(draft[t], mid[t], dest[t]) \in Documents
      BY <2>2, <2>3, ChosenFacts DEF SaveOverride, Equipped, Placed, Asked, Edited, Documents
    <3>2. HintTypes'
      BY <2>2, <2>3, <3>1 DEF SaveOverride, HintTypes
    <3> QED
      BY <1>3, <2>1, <2>3, <3>2 DEF SaveOverride
  <2>4. ASSUME NEW stale \in SUBSET Mids, NEW m \in Mids, NEW s \in Proposals, SaveHints(t, stale, m, s)
        PROVE  IInv'
    <3>1. hints' \in Documents
      BY <2>2, <2>4, ChosenFacts DEF SaveHints, Documents
    <3>2. HintTypes'
      BY <2>2, <2>4, <3>1 DEF SaveHints, HintTypes
    <3> QED
      BY <1>3, <2>1, <2>4, <3>2 DEF SaveHints
  <2>5. CASE ReadOverride(t)
    <3>1. mid[t] \in Mids
      BY <2>2, <2>5 DEF ReadOverride, Equipped, Placed, Asked
    <3>2. CASE overrides[mid[t]] # None
      <4>1. Normalize(overrides[mid[t]]) \in Chosen
        BY <3>1, <3>2, ChosenFacts DEF HintTypes, Documents
      <4> QED
        BY <1>5, <2>1, <2>5, <3>1, <3>2, <4>1 DEF ReadOverride
    <3>3. CASE overrides[mid[t]] = None
      BY <1>4, <2>1, <2>5, <3>1, <3>3 DEF ReadOverride, hintVars, HintTypes, ThreadTypes
    <3> QED
      BY <3>2, <3>3
  <2>6. CASE ReadHint(t)
    <3>1. mid[t] \in Mids
      BY <2>2, <2>6 DEF ReadHint, Equipped, Placed, Asked
    <3>2. CASE hints[mid[t]] # None
      <4>1. Normalize(hints[mid[t]]) \in Chosen
        BY <3>1, <3>2, ChosenFacts DEF HintTypes, Documents
      <4> QED
        BY <1>5, <2>1, <2>6, <3>1, <3>2, <4>1 DEF ReadHint
    <3>3. CASE hints[mid[t]] = None
      BY <1>4, <2>1, <2>6, <3>1, <3>3 DEF ReadHint, hintVars, HintTypes, ThreadTypes
    <3> QED
      BY <3>2, <3>3
  <2>7. CASE ProposeNothing(t)
    <3>1. mid[t] \in Mids
      BY <2>2, <2>7 DEF ProposeNothing, Equipped, Placed, Asked
    <3> QED
      BY <1>5, <2>1, <2>7, <3>1, ChosenFacts DEF ProposeNothing
  <2>8. ASSUME NEW s \in Proposals, Propose(t, s) PROVE IInv'
    <3>1. mid[t] \in Mids
      BY <2>2, <2>8 DEF Propose, Equipped, Placed, Asked
    <3>2. HintTypes'
      BY <2>8 DEF Propose, HintTypes
    <3>3. Normalize(s) \in Once /\ Normalize(s) \in Entered
      BY ChosenFacts
    <3>4. /\ dest' \in [Threads -> Entered \cup Chosen \cup {<<>>, None}] /\ dest'[t] \in Once
          /\ \A u \in Threads \ {t} : dest'[u] = dest[u]
      BY <2>8, <3>3 DEF Propose, ThreadTypes
    <3> QED
      BY <1>4, <2>1, <2>8, <3>1, <3>2, <3>4 DEF Propose
  <2>9. CASE SaveHint(t)
    <3>1. mid[t] \in Mids /\ dest[t] \in Once
      BY <2>2, <2>9 DEF SaveHint, Equipped, Placed, Asked
    <3>2. hints' \in Documents
      BY <2>2, <2>9, <3>1, ChosenFacts DEF SaveHint, Documents
    <3>3. HintTypes'
      BY <2>2, <2>9, <3>2 DEF SaveHint, HintTypes
    <3> QED
      BY <1>4, <2>1, <2>9, <3>1, <3>3 DEF SaveHint, ThreadTypes
  <2>10. CASE RereadHint(t)
    <3>1. mid[t] \in Mids
      BY <2>2, <2>10 DEF RereadHint, Equipped, Placed, Asked
    <3>2. Normalize(IF hints[mid[t]] # None THEN hints[mid[t]] ELSE Rule[mid[t]]) \in Chosen
      <4>1. CASE hints[mid[t]] # None
        BY <3>1, <4>1, ChosenFacts DEF HintTypes, Documents
      <4>2. CASE hints[mid[t]] = None
        BY <3>1, <4>2, ChosenFacts
      <4> QED
        BY <4>1, <4>2
    <3> QED
      BY <1>5, <2>1, <2>10, <3>1, <3>2 DEF RereadHint
  <2>11. CASE Respond(t)
    BY <1>3, <2>1, <2>11 DEF Respond, hintVars, HintTypes
  <2> QED
    BY <1>9, <2>3, <2>4, <2>5, <2>6, <2>7, <2>8, <2>9, <2>10, <2>11 DEF HintSteps
<1> QED
  BY <1>6, <1>7, <1>8, <1>9 DEF Hinting

-----------------------------------------------------------------------------
(* Steps on a message, and of a folder request, that only read.            *)

LEMMA WorkStep ==
    ASSUME IInv, NEW t \in Threads, t # Cleaner, ~Mover(t), ~Mover(t)',
           UNCHANGED <<hintVars, server, bounds, history, op, mid, dest, force, copied>>,
           NEW l \in Labels, Goto(t, l),
           src' \in [Threads -> Names \cup {None}], dst' \in [Threads -> Names \cup {None}],
           seen' \in [Threads -> SUBSET Names], todo' \in [Threads -> SUBSET Names],
           at' \in [Threads -> Boxes \cup {None}], uid' \in [Threads -> 0..MaxUid],
           doomed' \in [Threads -> SUBSET Uids],
           aim' \in [Threads -> [box : Boxes \cup {None}, mid : Mids \cup {None}]],
           \A u \in Threads \ {t} :
              /\ src'[u] = src[u] /\ dst'[u] = dst[u] /\ seen'[u] = seen[u] /\ todo'[u] = todo[u]
              /\ at'[u] = at[u] /\ uid'[u] = uid[u] /\ doomed'[u] = doomed[u] /\ aim'[u] = aim[u],
           aim'[t].box # None => Knows(aim'[t].box, uid'[t], aim'[t].mid),
           Equipped(t)'
    PROVE  IInv'
<1> USE DEF IInv, TypeOK
<1>1. UNCHANGED <<overrides, hints, draft, requests, troubles, asked, swept, spare, quiet, server,
                  mail, uidNext, op, mid, dest, force, copied>>
  BY DEF hintVars, bounds, history, server
<1>2. pc' \in [Threads -> Labels] /\ pc'[t] = l /\ \A u \in Threads \ {t} : pc'[u] = pc[u]
  BY DEF Goto, ThreadTypes
<1>3. ThreadTypes' /\ HintTypes' /\ HistoryTypes'
  BY <1>1, <1>2 DEF ThreadTypes, HintTypes, HistoryTypes
<1>4. Others(t)
  BY <1>1, <1>2 DEF Others
<1>5. copied[t] = None
  BY DEF Remembers
<1>6. Remembers(t)'
  BY <1>1, <1>2, <1>5 DEF Remembers, Knows
<1> QED
  BY <1>1, <1>3, <1>4, <1>6, LocalStep

\* What the server tells a session is what there is.
LEMMA ListedFacts ==
    ASSUME ServerTypes, NEW f \in Listed
    PROVE  /\ f \in Names /\ named[f] \in Boxes /\ mail[named[f]] \subseteq Entries
           /\ uidNext[named[f]] \in 1..MaxUid + 1
BY DEF Listed, ServerTypes

LEMMA HitFacts ==
    ASSUME ServerTypes, Numbered, NEW f \in Listed, NEW m, NEW u \in Hits(named[f], m)
    PROVE  u \in Uids /\ Knows(named[f], u, m)
<1>1. PICK e \in mail[named[f]] : e.mid = m /\ e.uid = u
  BY DEF Hits
<1>2. named[f] \in Boxes /\ e \in Entries
  BY ListedFacts
<1> QED
  BY <1>1, <1>2 DEF Entries, Numbered, Knows

LEMMA AimedAt ==
    ASSUME ThreadTypes, NEW t \in Threads, NEW b \in Boxes \cup {None},
           aim' = [aim EXCEPT ![t].box = b]
    PROVE  /\ aim' \in [Threads -> [box : Boxes \cup {None}, mid : Mids \cup {None}]]
           /\ \A v \in Threads \ {t} : aim'[v] = aim[v]
           /\ aim'[t].box = b /\ aim'[t].mid = aim[t].mid
<1> DEFINE S == [box : Boxes \cup {None}, mid : Mids \cup {None}]
<1>1. aim[t] \in S /\ aim' = [aim EXCEPT ![t] = [aim[t] EXCEPT !.box = b]]
  BY DEF ThreadTypes
<1>2. [aim[t] EXCEPT !.box = b] \in S
  BY <1>1
<1>3. aim'[t] = [aim[t] EXCEPT !.box = b] /\ \A v \in Threads \ {t} : aim'[v] = aim[v]
  BY <1>1 DEF ThreadTypes
<1>4. aim'[t].box = b /\ aim'[t].mid = aim[t].mid
  BY <1>1, <1>3
<1>5. aim \in [Threads -> S]
  BY DEF ThreadTypes
<1> HIDE DEF S
<1>6. aim' \in [Threads -> S]
  BY <1>1, <1>2, <1>5
<1> QED
  BY <1>3, <1>4, <1>6 DEF S

LEMMA CutTyped ==
    ASSUME HistoryTypes, NEW t
    PROVE  Cut(t) \in [Mids -> Nat]
BY DEF HistoryTypes, Cut

\* A message that is not where it was: an archive looks elsewhere, once.
LEMMA NotFoundStep ==
    ASSUME IInv, NEW t \in Threads, t # Cleaner, pc[t] \in {"resolve", "copy", "remove"}, NotFound(t)
    PROVE  IInv'
<1> USE DEF IInv, TypeOK
<1>1. /\ spare' = Cut(t)
      /\ UNCHANGED <<overrides, hints, draft, server, requests, troubles, asked, swept, quiet>>
  BY DEF NotFound, hintVars, bounds
<1>2. HintTypes' /\ HistoryTypes'
  BY <1>1, CutTyped DEF HintTypes, HistoryTypes
<1>3. CASE ForgetJob(t)
  BY <1>1, <1>2, <1>3, Forgotten, LocalStep
<1>4. CASE FallsBack(t) /\ SearchAgain(t)
  <2>1. op[t] = "archive" /\ dest[t] \in Chosen
    BY <1>4 DEF FallsBack, Equipped, Placed
  <2>2. /\ pc' = [pc EXCEPT ![t] = "relist"] /\ at' = [at EXCEPT ![t] = None]
        /\ uid' = [uid EXCEPT ![t] = 0] /\ copied' = [copied EXCEPT ![t] = None]
        /\ aim' = [aim EXCEPT ![t].box = None]
        /\ UNCHANGED <<op, mid, dest, src, dst, force, seen, todo, doomed>>
    BY <1>4 DEF SearchAgain, Goto, routing
  <2>3. /\ aim' \in [Threads -> [box : Boxes \cup {None}, mid : Mids \cup {None}]]
        /\ \A v \in Threads \ {t} : aim'[v] = aim[v]
        /\ aim'[t].box = None /\ aim'[t].mid = aim[t].mid
    BY <2>2, AimedAt
  <2>4. 0 \in 0..MaxUid
    BY UidFacts
  <2>5. ThreadTypes' /\ Others(t) /\ pc'[t] = "relist" /\ copied'[t] = None
    BY <2>2, <2>3, <2>4 DEF ThreadTypes, Others, Labels
  <2>6. ~Mover(t)' /\ Remembers(t)'
    BY <2>3, <2>5 DEF Mover, Remembers
  <2>7. Placed(t)'
    BY <2>1, <2>2, <2>5 DEF Placed
  <2>8. Asked(t)'
    BY <1>4, <2>1, <2>2, <2>3, <2>5 DEF Equipped, Asked
  <2> QED
    BY <1>1, <1>2, <2>5, <2>6, <2>7, <2>8, LocalStep DEF Equipped
<1> QED
  BY <1>3, <1>4 DEF NotFound

LEMMA LookingKeeps ==
    ASSUME IInv, NEW t \in Threads,
           \/ ListForMove(t) \/ ListForArchive(t) \/ ListForFallback(t) \/ ListForBody(t)
           \/ ListRefuses(t)
           \/ FindFails(t) \/ Reselect(t) \/ CopyFails(t) \/ ResolveFails(t) \/ Fetch(t)
           \/ \E f \in Names : FindIn(t, f)
           \/ \E f \in Names, u \in Uids : Found(t, f, u)
           \/ \E u \in Uids : Resolve(t, u)
    PROVE  IInv'
<1> USE DEF IInv, TypeOK
<1>1. Equipped(t) /\ Remembers(t)
  OBVIOUS
<1>2. /\ pc[t] \in {"list", "relist", "find", "select", "copy", "resolve", "fetch"}
      /\ t # Cleaner /\ ~Mover(t)
  BY <1>1 DEF ListForMove, ListForArchive, ListForFallback, ListForBody, ListRefuses, FindFails, Reselect, CopyFails,
     ResolveFails, Fetch, FindIn, Found, Resolve, Equipped, Placed, Asked, Mover
<1>3. UNCHANGED memo => UNCHANGED <<uid, doomed, copied, aim>>
  BY DEF memo
<1>4. UNCHANGED routing => UNCHANGED <<op, mid, dest, src, dst, force>>
  BY DEF routing
<1>5. CASE Answer(t)
  BY <1>2, <1>5, AnswerStep
\* A thread goes on without having looked at a mailbox.
<1>6. ASSUME NEW l \in {"make", "find"}, Goto(t, l),
             UNCHANGED <<hintVars, server, bounds, history, op, mid, dest, force, src, at, memo>>,
             dst' \in [Threads -> Names \cup {None}], seen' \in [Threads -> SUBSET Names],
             todo' \in [Threads -> SUBSET Names],
             \A u \in Threads \ {t} : dst'[u] = dst[u] /\ seen'[u] = seen[u] /\ todo'[u] = todo[u],
             op[t] = "archive" => dest[t] \in Chosen,
             l = "make" => dst'[t] \in Names /\ op[t] \in {"move", "archive"} /\
                           (op[t] = "archive" => at[t] \in Boxes),
             op[t] \in {"move", "create", "rename"} => dst'[t] \in Names,
             l = "find" => op[t] \in {"archive", "move", "body"}
      PROVE  IInv'
  <2>1. pc'[t] = l /\ l \in Labels /\ UNCHANGED <<uid, doomed, copied, aim>>
    BY <1>3, <1>6 DEF Goto, ThreadTypes, Labels
  <2>2. Equipped(t)'
    BY <1>1, <1>2, <1>6, <2>1 DEF Equipped, Placed, Asked, MessageOps
  <2>3. ~Mover(t)'
    BY <1>6, <2>1 DEF Mover
  <2> QED
    BY <1>1, <1>2, <1>6, <2>1, <2>2, <2>3, WorkStep DEF ThreadTypes, Remembers
<1>7. CASE ListForMove(t)
  <2>1. dst[t] \in Names /\ op[t] = "move"
    BY <1>1, <1>7 DEF ListForMove, Equipped, Placed, Asked
  <2>2. Archived \subseteq Names /\ Hierarchy(dst[t]) \subseteq Names
    BY DEF Archived, Listed, Hierarchy
  <2>3. UNCHANGED <<hintVars, server, bounds, history, op, mid, dest, force, src, dst, seen, at, memo>>
    BY <1>4, <1>7 DEF ListForMove
  <2>4. CASE uid[t] # 0
    <3>1. Goto(t, "make") /\ todo' = [todo EXCEPT ![t] = Hierarchy(dst[t])]
      BY <1>7, <2>4 DEF ListForMove, ToMake
    <3>2. todo' \in [Threads -> SUBSET Names] /\ \A u \in Threads \ {t} : todo'[u] = todo[u]
      BY <2>2, <3>1 DEF ThreadTypes
    <3> QED
      BY <1>6, <2>1, <2>3, <3>1, <3>2 DEF ThreadTypes
  <2>5. CASE uid[t] = 0
    <3>1. Goto(t, "find") /\ todo' = [todo EXCEPT ![t] = Archived]
      BY <1>7, <2>5 DEF ListForMove
    <3>2. todo' \in [Threads -> SUBSET Names] /\ \A u \in Threads \ {t} : todo'[u] = todo[u]
      BY <2>2, <3>1 DEF ThreadTypes
    <3> QED
      BY <1>6, <2>1, <2>3, <3>1, <3>2 DEF ThreadTypes
  <2> QED
    BY <2>4, <2>5
<1>8. CASE ListForArchive(t)
  <2>1. Root \o dest[t] \in Names /\ at[t] \in Boxes /\ dest[t] \in Chosen
    BY <1>1, <1>8, NameFacts DEF ListForArchive, Equipped, Placed, Asked
  <2>2. /\ dst' \in [Threads -> Names \cup {None}] /\ dst'[t] \in Names
        /\ \A u \in Threads \ {t} : dst'[u] = dst[u]
    BY <1>8, <2>1 DEF ListForArchive, ThreadTypes
  <2>3. Hierarchy(Root \o dest[t]) \subseteq Names
    BY DEF Hierarchy
  <2>4. /\ Goto(t, "make") /\ todo' \in [Threads -> SUBSET Names]
        /\ \A u \in Threads \ {t} : todo'[u] = todo[u]
    BY <1>8, <2>3 DEF ListForArchive, ToMake, ThreadTypes
  <2> QED
    BY <1>6, <1>8, <2>1, <2>2, <2>4 DEF ListForArchive, ThreadTypes
<1>16. CASE ListForFallback(t)
  <2>1. op[t] = "archive" /\ dest[t] \in Chosen /\ Listed \subseteq Names
    BY <1>1, <1>16 DEF ListForFallback, Equipped, Placed, Asked, Listed
  <2>2. /\ seen' \in [Threads -> SUBSET Names] /\ todo' \in [Threads -> SUBSET Names]
        /\ \A u \in Threads \ {t} : seen'[u] = seen[u] /\ todo'[u] = todo[u]
    BY <1>16, <2>1 DEF ListForFallback, ThreadTypes
  <2>3. UNCHANGED <<hintVars, server, bounds, history, op, mid, dest, force, src, dst, at, memo>>
    BY <1>4, <1>16 DEF ListForFallback
  <2> QED
    BY <1>6, <1>16, <2>1, <2>2, <2>3 DEF ListForFallback, ThreadTypes
<1>9. CASE ListForBody(t)
  <2>1. (IF src[t] = None THEN Listed ELSE {src[t]}) \subseteq Names
    BY <1>9 DEF ListForBody, Listed
  <2>2. todo' \in [Threads -> SUBSET Names] /\ \A u \in Threads \ {t} : todo'[u] = todo[u]
    BY <1>9, <2>1 DEF ListForBody, ThreadTypes
  <2>3. UNCHANGED <<hintVars, server, bounds, history, op, mid, dest, force, src, dst, seen, at, memo>>
    BY <1>4, <1>9 DEF ListForBody
  <2> QED
    BY <1>6, <1>9, <2>2, <2>3 DEF ListForBody, ThreadTypes
\* A thread goes on with the mailbox it has selected.
<1>10. ASSUME NEW f \in Listed, NEW u \in 0..MaxUid,
              at' = [at EXCEPT ![t] = named[f]], uid' = [uid EXCEPT ![t] = u],
              UNCHANGED <<hintVars, server, bounds, history, op, mid, dest, force, dst, seen,
                          doomed, copied>>,
              NEW l \in {"make", "list", "resolve", "select", "copy", "fetch", "remove"},
              Goto(t, l), src' \in [Threads -> Names \cup {None}], todo' \in [Threads -> SUBSET Names],
              \A v \in Threads \ {t} : src'[v] = src[v] /\ todo'[v] = todo[v],
              aim' \in [Threads -> [box : Boxes \cup {None}, mid : Mids \cup {None}]],
              \A v \in Threads \ {t} : aim'[v] = aim[v],
              aim'[t].mid = aim[t].mid,
              aim'[t].box # None => Knows(aim'[t].box, u, aim'[t].mid),
              l = "remove" => op[t] = "message delete",
              l = "select" => op[t] = "body",
              l \in {"make", "copy"} => op[t] = "move",
              l \in {"list", "resolve"} => op[t] = "archive",
              op[t] = "archive" => dest[t] \in Chosen,
              op[t] # "rename"
       PROVE  IInv'
  <2>1. /\ pc'[t] = l /\ l \in Labels /\ at'[t] = named[f] /\ uid'[t] = u /\ op'[t] = op[t]
        /\ named[f] \in Boxes
        /\ at' \in [Threads -> Boxes \cup {None}] /\ uid' \in [Threads -> 0..MaxUid]
        /\ \A v \in Threads \ {t} : at'[v] = at[v] /\ uid'[v] = uid[v]
    BY <1>10, ListedFacts DEF Goto, ThreadTypes, Labels
  <2>2. Equipped(t)'
    <3>1. Placed(t)'
      BY <1>1, <1>2, <1>10, <2>1 DEF Equipped, Placed, MessageOps
    <3>2. Asked(t)'
      BY <1>1, <1>2, <1>10, <2>1 DEF Equipped, Asked, MessageOps
    <3> QED
      BY <3>1, <3>2 DEF Equipped
  <2>3. ~Mover(t)'
    BY <1>10, <2>1 DEF Mover
  <2> QED
    BY <1>1, <1>2, <1>10, <2>1, <2>2, <2>3, WorkStep DEF ThreadTypes
\* What it looked for is there.
<1>11. ASSUME NEW f \in Listed, NEW u \in Uids,
              aim' = [aim EXCEPT ![t].box = IF u = uid[t] THEN @ ELSE named[f]],
              u # uid[t] => mid[t] # None /\ u \in Hits(named[f], mid[t]) /\ op[t] \in MessageOps
       PROVE  /\ aim' \in [Threads -> [box : Boxes \cup {None}, mid : Mids \cup {None}]]
              /\ \A v \in Threads \ {t} : aim'[v] = aim[v]
              /\ aim'[t].mid = aim[t].mid
              /\ aim'[t].box # None => Knows(aim'[t].box, u, aim'[t].mid)
  <2> DEFINE b == IF u = uid[t] THEN aim[t].box ELSE named[f]
  <2>1. b \in Boxes \cup {None} /\ aim' = [aim EXCEPT ![t].box = b]
    BY <1>11, ListedFacts DEF ThreadTypes
  <2>2. /\ aim' \in [Threads -> [box : Boxes \cup {None}, mid : Mids \cup {None}]]
        /\ \A v \in Threads \ {t} : aim'[v] = aim[v]
        /\ aim'[t].box = b /\ aim'[t].mid = aim[t].mid
    BY <2>1, AimedAt
  <2>3. CASE u = uid[t]
    BY <1>1, <2>2, <2>3 DEF Remembers
  <2>4. CASE u # uid[t]
    <3>1. aim[t].mid = mid[t] /\ Knows(named[f], u, mid[t])
      BY <1>1, <1>11, <2>4, HitFacts DEF Equipped, Placed, Asked
    <3> QED
      BY <2>2, <2>4, <3>1
  <2> QED
    BY <2>3, <2>4
<1>12. ASSUME NEW f \in Names, FindIn(t, f) PROVE IInv'
  <2>1. /\ pc[t] = "find" /\ Goto(t, "find") /\ todo' = [todo EXCEPT ![t] = @ \ {f}]
        /\ UNCHANGED <<hintVars, server, bounds, history, op, mid, dest, force, src, dst, seen, at, memo>>
    BY <1>4, <1>12 DEF FindIn, Goto, ThreadTypes
  <2>2. todo' \in [Threads -> SUBSET Names] /\ \A v \in Threads \ {t} : todo'[v] = todo[v]
    BY <2>1 DEF ThreadTypes
  <2>3. op[t] \in {"archive", "move", "body"} /\ (op[t] = "archive" => dest[t] \in Chosen)
    BY <1>1, <2>1 DEF Equipped, Placed, Asked
  <2>4. op[t] = "move" => dst[t] \in Names
    BY <1>1, <2>1 DEF Equipped, Placed, Asked
  <2> QED
    BY <1>6, <2>1, <2>2, <2>3, <2>4 DEF ThreadTypes
<1>13. ASSUME NEW f \in Names, NEW u \in Uids, Found(t, f, u) PROVE IInv'
  <2>1. /\ op[t] \in {"archive", "move", "body"} /\ (op[t] = "archive" => dest[t] \in Chosen)
        /\ f \in Listed /\ u \in 0..MaxUid
    <3>1. pc[t] = "find" /\ f \in Listed
      BY <1>13 DEF Found
    <3> QED
      BY <1>1, <3>1, UidFacts DEF Equipped, Placed, Asked
  <2>2. u # uid[t] => mid[t] # None /\ u \in Hits(named[f], mid[t]) /\ op[t] \in MessageOps
    BY <1>13, <2>1 DEF Found, FindMatch, MessageOps
  <2>3. /\ aim' \in [Threads -> [box : Boxes \cup {None}, mid : Mids \cup {None}]]
        /\ \A v \in Threads \ {t} : aim'[v] = aim[v]
        /\ aim'[t].mid = aim[t].mid
        /\ aim'[t].box # None => Knows(aim'[t].box, u, aim'[t].mid)
    BY <1>11, <1>13, <2>1, <2>2 DEF Found
  <2>4. /\ src' \in [Threads -> Names \cup {None}] /\ todo' \in [Threads -> SUBSET Names]
        /\ \A v \in Threads \ {t} : src'[v] = src[v] /\ todo'[v] = todo[v]
    <3>1. Hierarchy(dst[t]) \subseteq Names
      BY DEF Hierarchy
    <3>2. todo' \in {[todo EXCEPT ![t] = Hierarchy(dst[t])], [todo EXCEPT ![t] = {}]}
      BY <1>13 DEF Found, ToMake
    <3>3. src' = [src EXCEPT ![t] = f]
      BY <1>13 DEF Found
    <3> QED
      BY <3>1, <3>2, <3>3 DEF ThreadTypes
  <2>5. \/ op[t] = "move" /\ Goto(t, "make")
        \/ op[t] = "archive" /\ Goto(t, "resolve")
        \/ op[t] = "body" /\ Goto(t, "select")
    BY <1>13, <2>1 DEF Found, ToMake
  <2>6. /\ at' = [at EXCEPT ![t] = named[f]] /\ uid' = [uid EXCEPT ![t] = u]
        /\ UNCHANGED <<hintVars, server, bounds, history, op, mid, dest, force, dst, seen,
                       doomed, copied>>
    BY <1>13 DEF Found
  <2> QED
    BY <1>10, <2>1, <2>3, <2>4, <2>5, <2>6
<1>14. ASSUME NEW u \in Uids, Resolve(t, u) PROVE IInv'
  <2>1. src[t] \in Listed /\ pc[t] = "resolve" /\ ResolvesTo(t, named[src[t]], u)
    BY <1>14 DEF Resolve
  <2>2. u \in 0..MaxUid /\ op[t] \in {"archive", "message delete", "read"}
        /\ (op[t] = "archive" => dest[t] \in Chosen)
    BY <1>1, <2>1, UidFacts DEF Equipped, Placed, Asked
  <2>3. u # uid[t] => mid[t] # None /\ u \in Hits(named[src[t]], mid[t]) /\ op[t] \in MessageOps
    BY <2>1, <2>2 DEF ResolvesTo, MessageOps
  <2>4. /\ aim' \in [Threads -> [box : Boxes \cup {None}, mid : Mids \cup {None}]]
        /\ \A v \in Threads \ {t} : aim'[v] = aim[v]
        /\ aim'[t].mid = aim[t].mid
        /\ aim'[t].box # None => Knows(aim'[t].box, u, aim'[t].mid)
    BY <1>11, <1>14, <2>1, <2>3 DEF Resolve
  <2>5. \/ op[t] = "archive" /\ Goto(t, "list")
        \/ op[t] = "message delete" /\ Goto(t, "remove")
        \/ Goto(t, "fetch")
    BY <1>14, <2>2 DEF Resolve
  <2>6. /\ at' = [at EXCEPT ![t] = named[src[t]]] /\ uid' = [uid EXCEPT ![t] = u]
        /\ UNCHANGED <<hintVars, server, bounds, history, op, mid, dest, src, dst, force, seen, todo,
                       doomed, copied>>
    BY <1>4, <1>14 DEF Resolve
  <2> QED
    BY <1>10, <2>1, <2>2, <2>4, <2>5, <2>6 DEF ThreadTypes
<1>15. CASE Reselect(t)
  <2>1. CASE src[t] \notin Listed
    BY <1>5, <1>15, <2>1 DEF Reselect
  <2>2. CASE src[t] \in Listed
    <3>1. /\ pc[t] = "select" /\ at' = [at EXCEPT ![t] = named[src[t]]]
          /\ (op[t] = "move" /\ Goto(t, "copy")) \/ Goto(t, "fetch")
          /\ UNCHANGED <<hintVars, server, bounds, history, op, mid, dest, src, dst, force, seen, todo,
                         uid, doomed, copied, aim>>
      BY <1>3, <1>4, <1>15, <2>2 DEF Reselect
    <3>2. op[t] \notin {"rename", "archive"} /\ uid[t] \in 0..MaxUid /\ uid' = [uid EXCEPT ![t] = uid[t]]
      BY <1>1, <3>1 DEF Equipped, Placed, Asked, ThreadTypes
    <3> QED
      BY <1>1, <1>10, <2>2, <3>1, <3>2 DEF ThreadTypes, Remembers
  <2> QED
    BY <2>1, <2>2
<1>17. CASE CopyFails(t) \/ ResolveFails(t)
  BY <1>2, <1>5, <1>17, NotFoundStep DEF CopyFails, ResolveFails
<1> QED
  BY <1>5, <1>7, <1>8, <1>9, <1>12, <1>13, <1>14, <1>15, <1>16, <1>17 DEF ListRefuses, FindFails, Fetch

LEMMA ListingKeeps ==
    ASSUME IInv, NEW t \in Threads,
           \/ ListForDelete(t) \/ CountForDelete(t) \/ OpenFails(t) \/ DropFails(t)
           \/ ListForRename(t) \/ RenameFails(t) \/ ListForCreate(t) \/ SearchAll(t)
           \/ \E f \in Names : OpenFolder(t, f)
    PROVE  IInv'
<1> USE DEF IInv, TypeOK
<1>1. Equipped(t) /\ Remembers(t)
  OBVIOUS
<1>2. t # Cleaner /\ ~Mover(t) /\ pc[t] \notin {"remove", "expunge"}
  BY <1>1 DEF ListForDelete, CountForDelete, OpenFails, DropFails, ListForRename, RenameFails,
     ListForCreate, SearchAll, OpenFolder, Equipped, Asked, Mover
<1>3. UNCHANGED memo => UNCHANGED <<uid, doomed, copied, aim>>
  BY DEF memo
<1>4. UNCHANGED routing => UNCHANGED <<op, mid, dest, src, dst, force>>
  BY DEF routing
<1>5. CASE Answer(t)
  BY <1>2, <1>5, AnswerStep
\* The thread goes on; only what it has listed, opened or doomed changes.
<1>6. ASSUME NEW l \in {"open", "count", "search", "purge", "drop", "rename", "make"}, Goto(t, l),
             UNCHANGED <<hintVars, server, bounds, history, op, mid, dest, src, force, uid, copied, aim>>,
             dst' \in [Threads -> Names \cup {None}],
             seen' \in [Threads -> SUBSET Names], todo' \in [Threads -> SUBSET Names],
             at' \in [Threads -> Boxes \cup {None}], doomed' \in [Threads -> SUBSET Uids],
             \A u \in Threads \ {t} :
                /\ dst'[u] = dst[u] /\ seen'[u] = seen[u] /\ todo'[u] = todo[u]
                /\ at'[u] = at[u] /\ doomed'[u] = doomed[u],
             l \in {"open", "count", "search", "purge", "drop"} => op[t] = "delete",
             l \in {"search", "purge"} => at'[t] \in Boxes,
             l = "make" => op[t] = "create", l = "rename" => op[t] = "rename",
             op[t] \in {"move", "create", "rename"} => dst'[t] \in Names
      PROVE  IInv'
  <2>1. pc'[t] = l /\ l \in Labels
    BY <1>6 DEF Goto, ThreadTypes, Labels
  <2>2. Placed(t)'
    BY <1>1, <1>2, <1>6, <2>1 DEF Equipped, Placed
  <2>3. Asked(t)'
    BY <1>1, <1>2, <1>6, <2>1 DEF Equipped, Asked, MessageOps
  <2>4. ~Mover(t)'
    BY <1>6, <2>1 DEF Mover
  <2>5. src' \in [Threads -> Names \cup {None}] /\ uid' \in [Threads -> 0..MaxUid]
        /\ aim' \in [Threads -> [box : Boxes \cup {None}, mid : Mids \cup {None}]]
        /\ UNCHANGED <<op, mid, dest, src, force, uid, copied, aim>>
    BY <1>6 DEF ThreadTypes
  <2>6. aim'[t].box # None => Knows(aim'[t].box, uid'[t], aim'[t].mid)
    BY <1>1, <2>5 DEF Remembers
  <2>7. Equipped(t)'
    BY <2>2, <2>3 DEF Equipped
  <2> QED
    BY <1>2, <1>6, <2>1, <2>4, <2>5, <2>6, <2>7, WorkStep
<1>7. CASE ListForDelete(t)
  <2>1. Listed \subseteq Names /\ {n \in Listed : Under(n, src[t])} \subseteq Names
    BY DEF Listed
  <2>2. /\ seen' \in [Threads -> SUBSET Names] /\ todo' \in [Threads -> SUBSET Names]
        /\ \A u \in Threads \ {t} : seen'[u] = seen[u] /\ todo'[u] = todo[u]
    BY <1>7, <2>1 DEF ListForDelete, ThreadTypes
  <2>3. UNCHANGED <<hintVars, server, bounds, history, op, mid, dest, src, dst, force, at, uid, doomed,
                    copied, aim>>
    BY <1>3, <1>4, <1>7 DEF ListForDelete
  <2>4. Goto(t, "open") \/ Goto(t, "count")
    BY <1>7 DEF ListForDelete
  <2>5. op[t] = "delete"
    BY <1>7 DEF ListForDelete
  <2> QED
    BY <1>6, <2>2, <2>3, <2>4, <2>5 DEF ThreadTypes
<1>8. CASE CountForDelete(t)
  <2>1. CASE /\ Goto(t, "drop")
              /\ UNCHANGED <<hintVars, routing, server, work, bounds, history>>
    <3>1. op[t] = "delete"
      BY <1>1, <1>8 DEF CountForDelete, Equipped, Asked
    <3>2. UNCHANGED <<hintVars, server, bounds, history, op, mid, dest, src, dst, force, seen, todo,
                      at, uid, doomed, copied, aim>>
      BY <1>3, <1>4, <2>1 DEF work
    <3> QED
      BY <1>6, <2>1, <3>1, <3>2 DEF ThreadTypes
  <2> QED
    BY <1>5, <1>8, <2>1 DEF CountForDelete
<1>9. ASSUME NEW f \in Names, OpenFolder(t, f) PROVE IInv'
  <2>1. f \in Listed /\ named[f] \in Boxes
    BY <1>9, ListedFacts DEF OpenFolder
  <2>2. /\ dst' = [dst EXCEPT ![t] = f] /\ at' = [at EXCEPT ![t] = named[f]]
        /\ Goto(t, "search") /\ pc[t] = "open"
    BY <1>9 DEF OpenFolder
  <2>3. /\ dst' \in [Threads -> Names \cup {None}] /\ at' \in [Threads -> Boxes \cup {None}]
        /\ dst'[t] \in Names /\ at'[t] \in Boxes
        /\ \A u \in Threads \ {t} : dst'[u] = dst[u] /\ at'[u] = at[u]
    BY <2>1, <2>2 DEF ThreadTypes
  <2>4. op[t] = "delete"
    BY <1>1, <2>2 DEF Equipped, Asked
  <2> QED
    BY <1>3, <1>6, <1>9, <2>2, <2>3, <2>4 DEF OpenFolder, ThreadTypes
<1>12. CASE SearchAll(t)
  <2>1. op[t] = "delete" /\ at[t] \in Boxes
    BY <1>1, <1>12 DEF SearchAll, Equipped, Placed, Asked
  <2>2. {e.uid : e \in mail[at[t]]} \subseteq Uids
    BY <2>1 DEF ServerTypes, Entries
  <2>3. doomed' \in [Threads -> SUBSET Uids] /\ \A u \in Threads \ {t} : doomed'[u] = doomed[u]
    BY <1>12, <2>2 DEF SearchAll, ThreadTypes
  <2>4. Goto(t, "drop") \/ Goto(t, "purge")
    BY <1>12 DEF SearchAll
  <2>5. UNCHANGED <<hintVars, server, bounds, history, op, mid, dest, src, dst, force, seen, todo, at,
                    uid, copied, aim>>
    BY <1>4, <1>12 DEF SearchAll
  <2> QED
    BY <1>6, <2>1, <2>3, <2>4, <2>5 DEF ThreadTypes
<1>10. CASE ListForRename(t)
  <2>1. dst[t] \in Names
    BY <1>1, <1>10 DEF ListForRename, Equipped, Asked
  <2>2. UNCHANGED <<hintVars, server, bounds, history, op, mid, dest, src, dst, force, seen, todo, at,
                    uid, doomed, copied, aim>>
    BY <1>3, <1>4, <1>10 DEF ListForRename, work
  <2> QED
    BY <1>6, <1>10, <2>1, <2>2 DEF ListForRename, ThreadTypes
<1>11. CASE ListForCreate(t)
  <2>1. dst[t] \in Names
    BY <1>1, <1>11 DEF ListForCreate, Equipped, Asked
  <2>2. UNCHANGED <<hintVars, server, bounds, history, op, mid, dest, src, dst, force, seen, at, uid,
                    doomed, copied, aim>>
    BY <1>3, <1>4, <1>11 DEF ListForCreate
  <2>3. Hierarchy(dst[t]) \ Listed \subseteq Names
    BY DEF Hierarchy
  <2>4. /\ Goto(t, "make") /\ op[t] = "create" /\ todo' \in [Threads -> SUBSET Names]
        /\ \A u \in Threads \ {t} : todo'[u] = todo[u]
    BY <1>11, <2>3 DEF ListForCreate, ToMake, ThreadTypes
  <2> QED
    BY <1>6, <2>1, <2>2, <2>4 DEF ThreadTypes
<1> QED
  BY <1>5, <1>7, <1>8, <1>9, <1>10, <1>11, <1>12 DEF OpenFails, DropFails, RenameFails

-----------------------------------------------------------------------------
(* The cleanup's steps that leave the server alone, and what fails.        *)

LEMMA SweepStep ==
    ASSUME IInv, NEW l \in {"sweep", "drop"}, Goto(Cleaner, l),
           op' = [op EXCEPT ![Cleaner] = "cleanup"],
           UNCHANGED <<hintVars, server, asked, swept, spare, mid, dest, dst, force, at, uid, doomed,
                       copied, aim>>,
           pc[Cleaner] \notin {"remove", "expunge"},
           requests' \in 0..MaxRequests, troubles' \in 0..MaxTroubles, quiet' \in BOOLEAN,
           src' \in [Threads -> Names \cup {None}],
           seen' \in [Threads -> SUBSET Names], todo' \in [Threads -> SUBSET Names],
           \A u \in Threads \ {Cleaner} :
              src'[u] = src[u] /\ seen'[u] = seen[u] /\ todo'[u] = todo[u],
           quiet' => Sweeping'
    PROVE  IInv'
<1> USE DEF IInv, TypeOK
<1> DEFINE t == Cleaner
<1>1. t \in Threads
  BY FoldersAssumption
<1>2. UNCHANGED <<overrides, hints, draft, mail, uidNext, server>>
  BY DEF hintVars, server
<1>3. /\ pc' \in [Threads -> Labels] /\ pc'[t] = l /\ \A u \in Threads \ {t} : pc'[u] = pc[u]
      /\ op' \in [Threads -> Requests \cup {None}] /\ op'[t] = "cleanup"
      /\ \A u \in Threads \ {t} : op'[u] = op[u]
  BY <1>1 DEF Goto, ThreadTypes, Labels, Requests
<1>4. HintTypes' /\ ThreadTypes' /\ HistoryTypes'
  BY <1>2, <1>3 DEF HintTypes, ThreadTypes, HistoryTypes
<1>5. Others(t)
  BY <1>3 DEF Others
<1>6. copied[t] = None
  BY <1>1 DEF Remembers, Mover
<1>7. ~Mover(t)'
  BY <1>3 DEF Mover
<1>8. Remembers(t)'
  BY <1>1, <1>2, <1>3, <1>6, <1>7 DEF Remembers, Knows
<1>9. Placed(t)'
  BY <1>3, FoldersAssumption DEF Placed
<1>10. Asked(t)'
  BY <1>3 DEF Asked, MessageOps
<1>11. Equipped(t)'
  BY <1>9, <1>10 DEF Equipped
<1> QED
  BY <1>1, <1>2, <1>4, <1>5, <1>6, <1>7, <1>8, <1>11, LocalStep

LEMMA StartCleanupKeeps == IInv /\ StartCleanup => IInv'
<1> SUFFICES ASSUME IInv, StartCleanup PROVE IInv'
  OBVIOUS
<1> USE DEF IInv, TypeOK
<1>1. /\ Goto(Cleaner, "sweep") /\ pc[Cleaner] = "idle"
      /\ op' = [op EXCEPT ![Cleaner] = "cleanup"]
      /\ requests < MaxRequests /\ requests' = requests + 1
      /\ seen' = [seen EXCEPT ![Cleaner] = Archived]
      /\ todo' = [todo EXCEPT ![Cleaner] = Archived \ {Root}] /\ quiet' = TRUE
      /\ UNCHANGED <<hintVars, server, asked, swept, spare, mid, dest, src, dst, force, at, uid, doomed,
                     copied, aim, troubles, named, mail>>
  BY DEF StartCleanup, Request, memo, server
<1>2. Cleaner \in Threads /\ Archived \subseteq Names /\ Archived \ {Root} \subseteq Names
  BY FoldersAssumption DEF Archived, Listed
<1>3. /\ seen' \in [Threads -> SUBSET Names] /\ todo' \in [Threads -> SUBSET Names]
      /\ seen'[Cleaner] = Archived /\ todo'[Cleaner] = Archived \ {Root}
      /\ \A u \in Threads \ {Cleaner} : seen'[u] = seen[u] /\ todo'[u] = todo[u]
  BY <1>1, <1>2 DEF ThreadTypes
<1>4. requests' \in 0..MaxRequests /\ troubles' \in 0..MaxTroubles
  BY <1>1, FoldersAssumption DEF HistoryTypes
<1>5. pc'[Cleaner] = "sweep" /\ op'[Cleaner] = "cleanup" /\ Archived' = Archived
  BY <1>1, <1>2 DEF Goto, ThreadTypes, Archived, Listed
<1>6. Sweeping'
  BY <1>3, <1>5 DEF Sweeping
<1> QED
  BY <1>1, <1>3, <1>4, <1>6, SweepStep DEF ThreadTypes

\* A folder with a folder below it that holds mail holds mail.
LEMMA HoldingUp ==
    ASSUME NEW n \in Names, NEW f \in Names, Under(n, f), Holding(n)
    PROVE  Holding(f)
<1>1. PICK k \in Listed : Under(k, n) /\ mail[named[k]] # {}
  BY DEF Holding
<1>2. k \in Path /\ n \in Path /\ f \in Path
  BY NameFacts DEF Listed
<1>3. Under(k, f)
  BY <1>1, <1>2, PathFacts
<1> QED
  BY <1>1, <1>3 DEF Holding

LEMMA PassOverKeeps ==
    ASSUME IInv, NEW f \in Names \cup {None}, PassOver(Cleaner, f), pc[Cleaner] \notin {"remove", "expunge"}, op[Cleaner] = "cleanup",
           troubles' \in 0..MaxTroubles, quiet' \in BOOLEAN,
           quiet' => quiet /\ (f \in Archived \ {Root} => Holding(f))
    PROVE  IInv'
<1> USE DEF IInv, TypeOK
<1>1. /\ todo' = [todo EXCEPT ![Cleaner] = @ \ {f}] /\ Goto(Cleaner, "sweep")
      /\ UNCHANGED <<hintVars, server, asked, swept, spare, op, mid, dest, src, dst, force, seen, at, uid,
                     doomed, copied, aim, requests, named, mail>>
  BY DEF PassOver, routing, memo, server
<1>2. Cleaner \in Threads
  BY FoldersAssumption
<1>3. /\ todo' \in [Threads -> SUBSET Names] /\ todo'[Cleaner] = todo[Cleaner] \ {f}
      /\ \A u \in Threads \ {Cleaner} : todo'[u] = todo[u]
  BY <1>1, <1>2 DEF ThreadTypes
<1>4. op' = [op EXCEPT ![Cleaner] = "cleanup"]
  BY <1>1, <1>2 DEF ThreadTypes
<1>5. pc'[Cleaner] = "sweep" /\ Listed' = Listed /\ Archived' = Archived
  BY <1>1, <1>2 DEF Goto, ThreadTypes, Listed, Archived
<1>6. quiet' => Sweeping'
  <2> SUFFICES ASSUME quiet' PROVE Sweeping'
    OBVIOUS
  <2>1. /\ op[Cleaner] = "cleanup" /\ seen[Cleaner] = Archived
        /\ todo[Cleaner] \subseteq Archived \ {Root}
        /\ \A n \in Archived \ {Root} : n \notin todo[Cleaner] => Holding(n)
        /\ f \in Archived \ {Root} => Holding(f)
    BY DEF Sweeping
  <2>2. \A n \in Names : Holding(n)' = Holding(n)
    BY <1>1, <1>5 DEF Holding
  <2>3. \A n \in Archived \ {Root} : n \notin todo'[Cleaner] => Holding(n)'
    BY <1>3, <2>1, <2>2 DEF Archived, Listed
  <2> QED
    BY <1>1, <1>3, <1>5, <2>1, <2>3 DEF Sweeping
<1> QED
  BY <1>1, <1>3, <1>4, <1>6, SweepStep DEF ThreadTypes, HistoryTypes

LEMMA SweepingKeeps ==
    ASSUME IInv, NEW t \in Threads,
           \/ SkipRefused(t) \/ SweepEnds(t)
           \/ \E f \in Names : SweepFolder(t, f) \/ SkipFolder(t, f)
    PROVE  IInv'
<1> USE DEF IInv, TypeOK
<1>1. pc[t] \in {"sweep", "drop"} /\ op[t] = "cleanup" /\ t = Cleaner
  BY DEF SkipRefused, SweepEnds, SweepFolder, SkipFolder, Equipped, Asked
<1>2. \A f \in todo[t] : f \in Names
  BY DEF ThreadTypes
<1>3. ASSUME NEW f \in Names, SweepFolder(t, f) PROVE IInv'
  <2>1. /\ f \in Listed /\ mail[named[f]] = {} /\ ~\E n \in seen[t] : Below(n, f)
        /\ f \in todo[t]
        /\ src' = [src EXCEPT ![t] = f] /\ Goto(t, "drop")
        /\ UNCHANGED <<hintVars, server, asked, swept, spare, requests, troubles, quiet, op, mid, dest,
                       dst, force, seen, todo, at, uid, doomed, copied, aim, named, mail>>
    BY <1>3 DEF SweepFolder, Disposable, NextToSweep, Deepest, bounds, history, server, work, memo
  <2>3. /\ src' \in [Threads -> Names \cup {None}] /\ src'[t] = f /\ pc'[t] = "drop"
        /\ \A u \in Threads \ {t} : src'[u] = src[u]
    BY <2>1 DEF ThreadTypes, Goto
  <2>4. op' = [op EXCEPT ![Cleaner] = "cleanup"]
    BY <1>1, <2>1 DEF ThreadTypes
  <2>5. quiet' => Sweeping'
    <3> SUFFICES ASSUME quiet' PROVE Sweeping'
      OBVIOUS
    <3>1. /\ seen[t] = Archived /\ todo[t] \subseteq Archived \ {Root}
          /\ \A n \in Archived \ {Root} : n \notin todo[t] => Holding(n)
      BY <1>1, <2>1 DEF Sweeping
    <3>2. Listed' = Listed /\ Archived' = Archived /\ \A n \in Names : Holding(n)' = Holding(n)
      BY <2>1 DEF Listed, Archived, Holding
    <3>3. \A n \in Listed : ~Below(n, f)
      <4>1. \A n \in Listed : Below(n, f) => n \in Archived
        <5>1. f \in Path /\ Root \in Path /\ Under(f, Root) /\ \A n \in Listed : n \in Path
          BY <2>1, <3>1, NameFacts DEF Archived, Listed
        <5> QED
          BY <5>1, PathFacts DEF Archived
      <4> QED
        BY <2>1, <3>1, <4>1
    <3>4. \A n \in Archived : n \in Names
      BY DEF Archived, Listed
    <3> QED
      BY <1>1, <2>1, <2>3, <3>1, <3>2, <3>3, <3>4 DEF Sweeping
  <2> QED
    BY <1>1, <2>1, <2>3, <2>4, <2>5, SweepStep DEF ThreadTypes, HistoryTypes
<1>4. ASSUME NEW f \in Names, SkipFolder(t, f) PROVE IInv'
  <2>1. /\ f \in todo[t] /\ \A n \in todo[t] : Len(n) <= Len(f)
        /\ f \in Listed /\ mail[named[f]] = {} => \E n \in seen[t] : Below(n, f)
        /\ PassOver(t, f) /\ UNCHANGED <<troubles, quiet>>
    BY <1>4 DEF SkipFolder, NextToSweep, Deepest, Disposable
  <2>2. quiet => (f \in Archived \ {Root} => Holding(f))
    <3> SUFFICES ASSUME quiet, f \in Archived, f # Root PROVE Holding(f)
      OBVIOUS
    <3>1. /\ seen[t] = Archived
          /\ \A n \in Archived \ {Root} : n \notin todo[t] => Holding(n)
      BY <1>1 DEF Sweeping
    <3>2. f \in Path /\ Root \in Path /\ Under(f, Root) /\ f \in Listed /\ \A n \in Archived : n \in Path /\ n \in Names
      BY NameFacts DEF Archived, Listed
    <3>3. CASE mail[named[f]] # {}
      BY <3>2, <3>3, PathFacts DEF Holding
    <3>4. CASE mail[named[f]] = {}
      <4>1. PICK n \in Archived : Below(n, f)
        BY <2>1, <3>1, <3>2, <3>4
      <4>2. Len(n) \in Nat /\ Len(f) \in Nat /\ Len(Root) \in Nat /\ Len(f) < Len(n) /\ Under(n, f)
            /\ (Under(Root, f) => f = Root)
        <5>1. Under(Root, f) /\ Len(Root) <= Len(f) => Root = f
          BY <3>2, PathFacts
        <5>2. Len(Root) <= Len(f)
          BY <3>2, UnderAt
        <5> QED
          BY <3>2, <4>1, <5>1, <5>2, PathFacts
      <4>3. n \notin todo[t] /\ n # Root
        BY <2>1, <3>2, <4>2
      <4> QED
        BY <3>1, <3>2, <4>2, <4>3, HoldingUp
    <3> QED
      BY <3>3, <3>4
  <2> QED
    BY <1>1, <2>1, <2>2, PassOverKeeps DEF HistoryTypes
<1>5. CASE SkipRefused(t)
  <2>1. /\ pc[t] = "drop" /\ ~DeleteAllowed(src[t]) /\ PassOver(t, src[t]) /\ UNCHANGED <<troubles, quiet>>
    BY <1>5 DEF SkipRefused
  <2>2. ~quiet
    BY <1>1, <2>1 DEF Sweeping, DeleteAllowed, Archived
  <2>3. src[t] \in Names \cup {None}
    BY DEF ThreadTypes
  <2> QED
    BY <1>1, <2>1, <2>2, <2>3, PassOverKeeps DEF HistoryTypes
<1>6. CASE SweepEnds(t)
  <2>1. /\ ForgetJob(t) /\ quiet' = FALSE
        /\ UNCHANGED <<overrides, hints, draft, requests, troubles, asked, swept, spare, server>>
    BY <1>6 DEF SweepEnds, hintVars, bounds
  <2>2. HintTypes' /\ HistoryTypes'
    BY <2>1 DEF HintTypes, HistoryTypes
  <2>3. copied[t] = None
    BY <1>1 DEF Remembers, Mover
  <2> QED
    BY <2>1, <2>2, <2>3, Forgotten, LocalStep
<1> QED
  BY <1>3, <1>4, <1>5, <1>6

LEMMA FailingKeeps ==
    ASSUME IInv, NEW t \in Threads, FlagFails(t) \/ Fail(t)
    PROVE  IInv'
<1> USE DEF IInv, TypeOK
<1>1. ASSUME t # Cleaner, spare' = Cut(t), ForgetJob(t), troubles' \in 0..MaxTroubles,
             UNCHANGED <<hintVars, server, requests, asked, swept, quiet>>
      PROVE  IInv'
  <2>1. HintTypes' /\ HistoryTypes'
    BY <1>1, CutTyped DEF hintVars, HintTypes, HistoryTypes
  <2> QED
    BY <1>1, <2>1, Forgotten, LocalStep
<1>2. CASE FlagFails(t)
  <2>1. t # Cleaner
    BY <1>2 DEF FlagFails, Equipped, Asked
  <2> QED
    BY <1>2, <2>1, NotFoundStep DEF FlagFails
<1>3. CASE Fail(t)
  <2>1. troubles' \in 0..MaxTroubles
    BY <1>3, FoldersAssumption DEF Fail, HistoryTypes
  <2>2. CASE t # Cleaner
    BY <1>1, <1>3, <2>1, <2>2 DEF Fail
  <2>3. CASE t = Cleaner
    <3>1. PICK f \in todo[t] : pc[t] \in {"sweep", "drop"} /\ PassOver(t, f)
      BY <1>3, <2>3 DEF Fail
    <3>2. f \in Names /\ op[t] = "cleanup" /\ quiet' = FALSE
      BY <1>3, <2>3, <3>1 DEF Fail, ThreadTypes, Equipped, Asked
    <3> QED
      BY <2>1, <2>3, <3>1, <3>2, PassOverKeeps
  <2> QED
    BY <2>2, <2>3
<1> QED
  BY <1>2, <1>3

-----------------------------------------------------------------------------
(* CREATE and RENAME: the mailboxes stay what they are.                    *)

LEMMA NamesStep ==
    ASSUME IInv, NEW t \in Threads, Others(t),
           UNCHANGED <<hintVars, rejects, mail, uidNext, flagged, bounds, asked, swept, spare>>, quiet' = FALSE,
           named' \in [Names -> Boxes \cup {None}], made' \in [Names -> 0..MaxMade],
           \A n \in Listed : \E k \in Listed' : named'[k] = named[n],
           Rooted', Apart', ThreadTypes',
           copied'[t] = copied[t], ~Mover(t)', Remembers(t)', Equipped(t)'
    PROVE  IInv'
<1> USE DEF IInv, TypeOK
<1>1. UNCHANGED <<overrides, hints, draft, requests, troubles>>
  BY DEF hintVars, bounds
<1>2. HintTypes' /\ HistoryTypes' /\ ServerTypes'
  BY <1>1 DEF HintTypes, HistoryTypes, ServerTypes
<1>3. Numbered' /\ Refused' /\ Sweeping'
  BY DEF Numbered, Refused, Sweeping
<1>4. Grows
  <2>1. \A b \in Boxes : uidNext[b] \in Nat
    BY FoldersAssumption DEF ServerTypes
  <2> QED
    BY <2>1 DEF Grows
<1>5. \A u \in Threads : Remembers(u)' /\ Equipped(u)'
  BY <1>2, <1>4, OthersOrderly
<1>6. Few' /\ SpareCopiesExplained'
  BY CutStep
<1>7. SomeSpared'
  <2>1. \A u \in Threads : Mover(u)' => Mover(u) /\ at'[u] = at[u] /\ uid'[u] = uid[u]
    BY DEF Others, Mover
  <2>2. \A m \in Mids : m \notin asked \cup swept =>
           \E k \in Listed', e \in Entries :
              /\ e \in mail[named'[k]] /\ e.mid = m /\ e.uid \notin flagged[named'[k]]
              /\ \A u \in Threads : ~(Mover(u)' /\ at'[u] = named'[k] /\ uid'[u] = e.uid)
    <3> SUFFICES ASSUME NEW m \in Mids, m \notin asked \cup swept
                 PROVE  \E k \in Listed', e \in Entries :
                          /\ e \in mail[named'[k]] /\ e.mid = m /\ e.uid \notin flagged[named'[k]]
                          /\ \A u \in Threads : ~(Mover(u)' /\ at'[u] = named'[k] /\ uid'[u] = e.uid)
      OBVIOUS
    <3>1. PICK n \in Listed, e \in Entries : Spared(m, n, e)
      BY DEF SomeSpared
    <3>2. PICK k \in Listed' : named'[k] = named[n]
      OBVIOUS
    <3> QED
      BY <2>1, <3>1, <3>2 DEF Spared
  <2> QED
    BY <2>2 DEF SomeSpared, Spared
<1> QED
  BY <1>2, <1>3, <1>5, <1>6, <1>7

LEMMA MakingKeeps ==
    ASSUME IInv, NEW t \in Threads, NEW f \in Names, MakeFolder(t, f)
    PROVE  IInv'
<1> USE DEF IInv, TypeOK
<1> DEFINE new == {n \in Names : Created(Hierarchy(f), n)}
<1>1. /\ pc[t] = "make" /\ CreateFolders(Hierarchy(f)) /\ quiet' = FALSE
      /\ UNCHANGED <<hintVars, rejects, mail, uidNext, flagged, bounds, asked, swept, spare>>
  BY DEF MakeFolder, Disturb
<1>2. /\ t # Cleaner /\ op[t] \in {"archive", "move", "create"} /\ dst[t] \in Names
      /\ (op[t] = "archive" => at[t] \in Boxes /\ dest[t] \in Chosen)
      /\ copied[t] = None
  BY <1>1 DEF Equipped, Placed, Asked, Remembers, Mover
<1>3. \A n \in Names : n \in Path
  BY NameFacts
<1>4. /\ \A n \in new : /\ n \in Names /\ named[n] = None /\ Under(f, n) /\ made[n] < MaxMade
                        /\ named'[n] = <<n, made[n] + 1>> /\ made'[n] = made[n] + 1
                        /\ <<n, made[n] + 1>> \in Boxes /\ made[n] + 1 \in 0..MaxMade
      /\ \A n \in Names \ new : named'[n] = named[n] /\ made'[n] = made[n]
      /\ named' = [n \in Names |-> named'[n]] /\ made' = [n \in Names |-> made'[n]]
  <2>1. /\ named' = [n \in Names |-> IF Created(Hierarchy(f), n) THEN <<n, made[n] + 1>> ELSE named[n]]
        /\ made' = [n \in Names |-> IF Created(Hierarchy(f), n) THEN made[n] + 1 ELSE made[n]]
        /\ \A n \in Names : Created(Hierarchy(f), n) => made[n] < MaxMade
    BY <1>1 DEF CreateFolders
  <2>2. \A n \in Names : made[n] \in 0..MaxMade /\ MaxMade \in Nat
    BY FoldersAssumption DEF ServerTypes
  <2>3. \A n \in new : made[n] + 1 \in 1..MaxMade /\ made[n] + 1 \in 0..MaxMade
    BY <2>1, <2>2
  <2> QED
    BY <2>1, <2>3 DEF Created, Hierarchy, Boxes
<1> HIDE DEF new
<1>5. named' \in [Names -> Boxes \cup {None}] /\ made' \in [Names -> 0..MaxMade]
  <2>1. \A n \in Names : named'[n] \in Boxes \cup {None} /\ made'[n] \in 0..MaxMade
    BY <1>4 DEF ServerTypes
  <2> QED
    BY <1>4, <2>1
<1>6. Listed' = Listed \cup new /\ new \cap Listed = {} /\ new \subseteq Names
  <2>1. None \notin Boxes
    BY FoldersAssumption
  <2> QED
    BY <1>4, <2>1 DEF Listed
<1>7. \A n \in Listed : n \in Names /\ n \in Listed' /\ named'[n] = named[n] /\ named[n] \in Boxes
  BY <1>4, <1>6, ListedFacts
<1>8. Rooted'
  <2>1. ASSUME NEW n \in Listed', NEW k \in Hierarchy(n) PROVE k \in Listed'
    <3>1. k \in Names /\ Under(n, k) /\ n \in Names
      BY <2>1 DEF Hierarchy, Listed
    <3>2. CASE n \in Listed
      BY <1>6, <2>1, <3>2 DEF Rooted
    <3>3. CASE n \in new
      <4>1. Under(f, k)
        BY <1>2, <1>3, <1>4, <3>1, <3>3, PathFacts
      <4>2. k \in Listed \/ k \in new
        BY <3>1, <4>1 DEF Listed, new, Created, Hierarchy
      <4> QED
        BY <1>6, <4>2
    <3> QED
      BY <1>6, <2>1, <3>2, <3>3
  <2> QED
    BY <2>1 DEF Rooted, Hierarchy
<1>9. Apart'
  <2>1. \A n \in Listed : named[n][1] \in Names /\ named[n][2] \in Nat
    BY <1>7 DEF Boxes
  <2>2. \A n \in Names : made[n] \in Nat /\ made'[n] \in Nat /\ made[n] <= made'[n]
    <3>1. \A n \in Names : made[n] \in Nat
      BY FoldersAssumption DEF ServerTypes
    <3>2. ASSUME NEW n \in Names PROVE made'[n] = made[n] \/ made'[n] = made[n] + 1
      BY <1>4
    <3> QED
      BY <3>1, <3>2
  <2>3. \A n \in new : named'[n][1] = n /\ named'[n][2] = made[n] + 1 /\ made'[n] = made[n] + 1
    <3> SUFFICES ASSUME NEW n \in new
                 PROVE  named'[n][1] = n /\ named'[n][2] = made[n] + 1 /\ made'[n] = made[n] + 1
      OBVIOUS
    <3>1. <<n, made[n] + 1>>[1] = n /\ <<n, made[n] + 1>>[2] = made[n] + 1
      OBVIOUS
    <3>2. named'[n] = <<n, made[n] + 1>> /\ made'[n] = made[n] + 1
      BY <1>4
    <3> QED
      BY <3>1, <3>2
  <2>4. \A n \in Listed : named[n][2] <= made[named[n][1]]
    BY DEF Apart
  <2>5. \A n \in Listed' : named'[n][2] <= made'[named'[n][1]]
    BY <1>6, <1>7, <2>1, <2>2, <2>3, <2>4
  <2>6. \A n \in Listed, k \in new : named'[n] # named'[k]
    <3> SUFFICES ASSUME NEW n \in Listed, NEW k \in new, named'[n] = named'[k] PROVE FALSE
      OBVIOUS
    <3>1. named[n][1] = k /\ named[n][2] = made[k] + 1 /\ k \in Names
      BY <1>6, <1>7, <2>3
    <3> QED
      BY <2>2, <2>4, <3>1
  <2>7. \A n, k \in new : named'[n] = named'[k] => n = k
    BY <2>3
  <2>8. \A n, k \in Listed : named'[n] = named'[k] => n = k
    BY <1>7 DEF Apart
  <2> QED
    BY <1>6, <2>5, <2>6, <2>7, <2>8 DEF Apart
<1>10. \A n \in Listed : \E k \in Listed' : named'[k] = named[n]
  BY <1>7
<1>11. CASE todo[t] = {f} /\ op[t] = "create"
  <2>1. ForgetJob(t)
    BY <1>11 DEF MakeFolder
  <2>2. ThreadTypes' /\ Others(t) /\ copied'[t] = copied[t] /\ ~Mover(t)' /\ Remembers(t)' /\ Equipped(t)'
    BY <1>2, <2>1, Forgotten
  <2> QED
    BY <1>1, <1>5, <1>8, <1>9, <1>10, <2>2, NamesStep
<1>12. CASE ~(todo[t] = {f} /\ op[t] = "create")
  <2>1. /\ \/ Goto(t, "make")
           \/ op[t] = "move" /\ Goto(t, "select")
           \/ op[t] = "archive" /\ Goto(t, "copy")
        /\ todo' = [todo EXCEPT ![t] = @ \ {f}]
        /\ UNCHANGED <<op, mid, dest, src, dst, force, seen, at, uid, doomed, copied, aim>>
    BY <1>2, <1>12 DEF MakeFolder, routing, memo
  <2>2. PICK l \in {"make", "select", "copy"} :
           Goto(t, l) /\ (l = "select" => op[t] = "move") /\ (l = "copy" => op[t] = "archive")
    BY <2>1
  <2>3. /\ pc' \in [Threads -> Labels] /\ pc'[t] = l /\ \A u \in Threads \ {t} : pc'[u] = pc[u]
        /\ todo' \in [Threads -> SUBSET Names] /\ \A u \in Threads \ {t} : todo'[u] = todo[u]
    BY <2>1, <2>2 DEF Goto, ThreadTypes, Labels
  <2>4. ThreadTypes' /\ Others(t) /\ ~Mover(t)'
    BY <2>1, <2>3 DEF ThreadTypes, Others, Mover
  <2>5. Remembers(t)'
    BY <1>1, <1>2, <2>1, <2>3, <2>4 DEF Remembers, Knows
  <2>6. Placed(t)'
    BY <1>2, <2>1, <2>2, <2>3 DEF Placed
  <2>7. Asked(t)'
    BY <1>2, <2>1, <2>2, <2>3 DEF Equipped, Asked
  <2> QED
    BY <1>1, <1>5, <1>8, <1>9, <1>10, <2>1, <2>4, <2>5, <2>6, <2>7, NamesStep DEF Equipped
<1> QED
  BY <1>11, <1>12

\* Where a rename leaves each folder.
LEMMA RenamedNames ==
    ASSUME ServerTypes, NEW f \in Listed, NEW g \in Names, Under(f, Root), RenameAllowed(f, g),
           RenameFolder(f, g), NEW new, new = {n \in Names : Created(Hierarchy(g), n) /\ n # g}
    PROVE  /\ named' \in [Names -> Boxes \cup {None}] /\ made' \in [Names -> 0..MaxMade]
           /\ \A k \in Listed : Under(k, f) =>
                 Image(k, f, g) \in Listed' /\ named'[Image(k, f, g)] = named[k]
           /\ \A k \in Listed : ~Under(k, f) => k \in Listed' /\ named'[k] = named[k]
           /\ \A n \in new : /\ n \in Listed' /\ named'[n] = <<n, made[n] + 1>> /\ made'[n] = made[n] + 1
                             /\ n \notin Listed /\ n \in Names /\ Under(g, n)
           /\ \A n \in Names : made'[n] = made[n] \/ made'[n] = made[n] + 1
           /\ \A n \in Listed' :
                 \/ \E k \in Listed : Under(k, f) /\ n = Image(k, f, g)
                 \/ n \in Listed /\ ~Under(n, f)
                 \/ n \in new
<1>1. /\ \A n \in Listed : Under(n, f) => Image(n, f, g) \in Names
      /\ \A n \in new : n \in Names /\ named[n] = None /\ Under(g, n) /\ n # g /\ made[n] < MaxMade
      /\ ~Under(g, f) /\ \A n \in Listed : ~Under(n, g)
      /\ \A n \in Names : made'[n] = IF n \in new THEN made[n] + 1 ELSE made[n]
      /\ \A n \in Names : named'[n] =
            IF Under(n, g) /\ Image(n, g, f) \in Names THEN named[Image(n, g, f)]
            ELSE IF Under(n, f) THEN None
            ELSE IF Created(Hierarchy(g), n) THEN <<n, made[n] + 1>>
            ELSE named[n]
      /\ named' = [n \in Names |-> named'[n]] /\ made' = [n \in Names |-> made'[n]]
  BY DEF RenameFolder, RenameAllowed, Created, Hierarchy
<1>2. /\ f \in Path /\ g \in Path /\ f \in Names /\ \A n \in Names : n \in Path
      /\ \A n \in Listed : n \in Names /\ named[n] \in Boxes /\ n \in Path
      /\ None \notin Boxes
  BY NameFacts, ListedFacts, FoldersAssumption
\* Every name falls into one of four classes.
<1>3. ASSUME NEW n \in Names, Under(n, g)
      PROVE  /\ Image(n, g, f) \in Path /\ Under(Image(n, g, f), f) /\ Image(Image(n, g, f), f, g) = n
             /\ named[n] = None /\ n \notin new /\ ~Under(n, f)
             /\ named'[n] = IF Image(n, g, f) \in Names THEN named[Image(n, g, f)] ELSE None
  <2>1. Image(n, g, f) \in Path /\ Under(Image(n, g, f), f) /\ Image(Image(n, g, f), f, g) = n
    BY <1>2, <1>3, ImageFacts
  <2>2. named[n] = None
    BY <1>1, <1>3 DEF Listed
  <2>3. n \notin new
    <3>1. n \in new => Under(g, n) /\ n # g
      BY <1>1
    <3>2. Under(g, n) => n = g
      <4>1. Under(g, n) => Len(n) <= Len(g) /\ Len(g) \in Nat /\ Len(n) \in Nat
        BY <1>2, UnderAt, PathFacts
      <4> QED
        BY <1>2, <1>3, <4>1, PathFacts
    <3> QED
      BY <3>1, <3>2
  <2>4. ~Under(n, f)
    BY <1>1, <1>2, <1>3, PathFacts
  <2>5. ~Created(Hierarchy(g), n) \/ n = g
    BY <2>3
  <2>6. Image(n, g, f) \notin Names => named'[n] = None
    <3>1. n = g => Image(n, g, f) = f
      BY <1>2, PathFacts, ImageFacts
    <3> QED
      BY <1>1, <1>2, <2>2, <2>4, <2>5, <3>1
  <2> QED
    BY <1>1, <1>3, <2>1, <2>2, <2>3, <2>4, <2>6
<1>4. ASSUME NEW n \in Names, Under(n, f)
      PROVE  n \notin new /\ named'[n] = None
  <2>1. ~Under(n, g)
    BY <1>3, <1>4
  <2>2. n \notin new
    BY <1>1, <1>2, <1>4, PathFacts
  <2> QED
    BY <1>1, <1>4, <2>1, <2>2
<1>5. ASSUME NEW n \in Names, ~Under(n, f), ~Under(n, g)
      PROVE  named'[n] = IF n \in new THEN <<n, made[n] + 1>> ELSE named[n]
  <2>1. n # g
    BY <1>2, <1>5, PathFacts
  <2> QED
    BY <1>1, <1>5, <2>1
<1>6. \A n \in new : ~Under(n, f) /\ ~Under(n, g) /\ n \notin Listed
  BY <1>1, <1>3, <1>4 DEF Listed
<1>7. ASSUME NEW n \in new
      PROVE  /\ <<n, made[n] + 1>> \in Boxes /\ made'[n] \in 0..MaxMade
             /\ named'[n] = <<n, made[n] + 1>> /\ made'[n] = made[n] + 1 /\ n \in Listed'
  <2>1. made[n] \in 0..MaxMade /\ MaxMade \in Nat /\ n \in Names /\ made[n] < MaxMade
    BY <1>1, FoldersAssumption DEF ServerTypes
  <2>2. made[n] + 1 \in 1..MaxMade /\ made[n] + 1 \in 0..MaxMade
    BY <2>1
  <2>3. named'[n] = <<n, made[n] + 1>> /\ made'[n] = made[n] + 1
    BY <1>1, <1>5, <1>6, <2>1
  <2>4. <<n, made[n] + 1>> \in Boxes
    BY <2>1, <2>2 DEF Boxes
  <2> QED
    BY <1>2, <2>1, <2>2, <2>3, <2>4 DEF Listed
<1>8. made' \in [Names -> 0..MaxMade]
  <2>1. \A n \in Names : made'[n] \in 0..MaxMade
    BY <1>1, <1>7 DEF ServerTypes
  <2> QED
    BY <1>1, <2>1
<1>9. named' \in [Names -> Boxes \cup {None}]
  <2>1. ASSUME NEW n \in Names PROVE named'[n] \in Boxes \cup {None}
    <3>1. CASE Under(n, g)
      BY <1>3, <3>1 DEF ServerTypes
    <3>2. CASE Under(n, f)
      BY <1>4, <3>2
    <3>3. CASE ~Under(n, f) /\ ~Under(n, g)
      BY <1>5, <1>7, <3>3 DEF ServerTypes
    <3> QED
      BY <3>1, <3>2, <3>3
  <2> QED
    BY <1>1, <2>1
<1>10. ASSUME NEW k \in Listed, Under(k, f)
       PROVE  Image(k, f, g) \in Listed' /\ named'[Image(k, f, g)] = named[k]
  <2>1. Image(k, f, g) \in Names /\ Under(Image(k, f, g), g) /\ Image(Image(k, f, g), g, f) = k
    BY <1>1, <1>2, <1>10, ImageFacts
  <2>2. named'[Image(k, f, g)] = named[k]
    BY <1>2, <1>3, <2>1
  <2> QED
    BY <1>2, <2>1, <2>2 DEF Listed
<1>11. ASSUME NEW k \in Listed, ~Under(k, f)
       PROVE  k \in Listed' /\ named'[k] = named[k]
  BY <1>1, <1>2, <1>5, <1>6, <1>11 DEF Listed
<1>12. ASSUME NEW n \in Listed', n \notin new
       PROVE  \/ \E k \in Listed : Under(k, f) /\ n = Image(k, f, g)
              \/ n \in Listed /\ ~Under(n, f)
  <2>1. n \in Names /\ named'[n] # None
    BY DEF Listed
  <2>2. CASE Under(n, g)
    <3>1. Image(n, g, f) \in Listed
      BY <1>3, <2>1, <2>2 DEF Listed
    <3> QED
      BY <1>3, <2>1, <2>2, <3>1
  <2>3. CASE ~Under(n, g)
    BY <1>4, <1>5, <1>12, <2>1, <2>3 DEF Listed
  <2> QED
    BY <2>2, <2>3
<1> QED
  BY <1>1, <1>6, <1>7, <1>8, <1>9, <1>10, <1>11, <1>12

LEMMA ThereAndBack ==
    ASSUME NEW f \in Path, NEW g \in Path
    PROVE  /\ \A x \in Path : Under(x, f) =>
                 /\ Image(x, f, g) \in Path /\ Under(Image(x, f, g), g)
                 /\ Image(Image(x, f, g), g, f) = x
           /\ \A x \in Path : Under(x, g) =>
                 /\ Image(x, g, f) \in Path /\ Under(Image(x, g, f), f)
                 /\ Image(Image(x, g, f), f, g) = x
                 /\ \A y \in Path : Under(x, y) /\ Under(y, g) => Under(Image(x, g, f), Image(y, g, f))
<1>1. \A x \in Path : Under(x, f) =>
         /\ Image(x, f, g) \in Path /\ Under(Image(x, f, g), g)
         /\ Image(Image(x, f, g), g, f) = x
  BY ImageFacts
<1>2. \A x \in Path : Under(x, g) =>
         /\ Image(x, g, f) \in Path /\ Under(Image(x, g, f), f)
         /\ Image(Image(x, g, f), f, g) = x
         /\ \A y \in Path : Under(x, y) /\ Under(y, g) => Under(Image(x, g, f), Image(y, g, f))
  BY ImageFacts
<1> QED
  BY <1>1, <1>2

LEMMA RenamedRooted ==
    ASSUME ServerTypes, Rooted, NEW f \in Listed, NEW g \in Names, Under(f, Root),
           RenameAllowed(f, g), RenameFolder(f, g)
    PROVE  Rooted'
<1> DEFINE new == {n \in Names : Created(Hierarchy(g), n) /\ n # g}
<1>1. /\ f \in Path /\ g \in Path /\ Root \in Path /\ \A n \in Names : n \in Path
      /\ f \in Names /\ \A n \in Listed : n \in Names
  BY NameFacts, ListedFacts
<1>2. /\ \A k \in Listed : Under(k, f) => Image(k, f, g) \in Listed'
      /\ \A k \in Listed : ~Under(k, f) => k \in Listed'
      /\ \A n \in new : n \in Listed' /\ n \in Names /\ Under(g, n)
      /\ \A n \in Listed' :
            \/ \E k \in Listed : Under(k, f) /\ n = Image(k, f, g)
            \/ n \in Listed /\ ~Under(n, f)
            \/ n \in new
  BY RenamedNames
<1>3. ~Under(g, f) /\ \A n \in Listed : ~Under(n, g)
  BY DEF RenameAllowed
<1>4. /\ \A x \in Path : Under(x, f) =>
            /\ Image(x, f, g) \in Path /\ Under(Image(x, f, g), g)
            /\ Image(Image(x, f, g), g, f) = x
      /\ \A x \in Path : Under(x, g) =>
            /\ Image(x, g, f) \in Path /\ Under(Image(x, g, f), f)
            /\ Image(Image(x, g, f), f, g) = x
            /\ \A y \in Path : Under(x, y) /\ Under(y, g) => Under(Image(x, g, f), Image(y, g, f))
  BY <1>1, ThereAndBack
\* The superiors of g are there, and g itself.
<1>5. ASSUME NEW k \in Names, Under(g, k) PROVE k \in Listed'
  <2>1. CASE k = g
    <3>1. Image(f, f, g) = g /\ Under(f, f)
      BY <1>1, PathFacts, ImageFacts
    <3> QED
      BY <1>1, <1>2, <2>1, <3>1
  <2>2. CASE k # g /\ k \in Listed
    BY <1>1, <1>2, <1>3, <1>5, <2>2, PathFacts
  <2>3. CASE k # g /\ k \notin Listed
    BY <1>2, <1>5, <2>3 DEF Created, Hierarchy, Listed
  <2> QED
    BY <2>1, <2>2, <2>3
<1>6. Rooted'
  <2>1. ASSUME NEW n \in Listed', NEW j \in Names, Under(n, j) PROVE j \in Listed'
    <3>1. CASE n \in new
      <4>1. Under(g, j)
        BY <1>1, <1>2, <2>1, <3>1, PathFacts
      <4> QED
        BY <1>5, <4>1
    <3>2. CASE n \in Listed /\ ~Under(n, f)
      <4>1. j \in Listed
        BY <2>1, <3>2 DEF Rooted, Hierarchy
      <4>2. ~Under(j, f)
        BY <1>1, <2>1, <3>2, PathFacts
      <4> QED
        BY <1>2, <4>1, <4>2
    <3>3. ASSUME NEW k \in Listed, Under(k, f), n = Image(k, f, g) PROVE j \in Listed'
      <4>1. Under(n, g) /\ n \in Path /\ Image(n, g, f) = k
        <5>1. k \in Path
          BY <1>1, <3>3
        <5> QED
          BY <1>4, <3>3, <5>1
      <4>2. CASE Under(g, j)
        BY <1>5, <4>2
      <4>3. CASE Under(j, g)
        <5> DEFINE i == Image(j, g, f)
        <5>1. i \in Path /\ Under(i, f) /\ Image(i, f, g) = j /\ Under(k, i)
          <6>1. j \in Path
            BY <1>1, <2>1
          <6> QED
            BY <1>4, <2>1, <4>1, <4>3, <6>1
        <5>2. i \in Names
          <6>1. Under(i, Root)
            BY <1>1, <5>1, PathFacts
          <6> QED
            BY <1>1, <5>1, <6>1, NameFacts
        <5>3. i \in Listed
          BY <5>1, <5>2 DEF Rooted, Hierarchy
        <5> QED
          BY <1>2, <5>1, <5>3
      <4> QED
        BY <1>1, <2>1, <4>1, <4>2, <4>3, PathFacts
    <3> QED
      BY <1>2, <3>1, <3>2, <3>3
  <2> QED
    BY <2>1 DEF Rooted, Hierarchy
<1> QED
  BY <1>6

LEMMA RenamingKeeps ==
    ASSUME IInv, NEW t \in Threads, Rename(t)
    PROVE  IInv'
<1> USE DEF IInv, TypeOK
<1> DEFINE f == src[t]
           g == dst[t]
           Renamed(k) == Image(k, f, g)
           new == {n \in Names : Created(Hierarchy(g), n) /\ n # g}
<1>1. /\ pc[t] = "rename" /\ RenameAllowed(f, g) /\ RenameFolder(f, g) /\ ForgetJob(t) /\ quiet' = FALSE
      /\ UNCHANGED <<hintVars, rejects, mail, uidNext, flagged, bounds, asked, swept, spare>>
  BY DEF Rename, Disturb
<1>2. f \in Names /\ Below(f, Root) /\ g \in Names /\ f \in Listed /\ copied[t] = None
  BY <1>1 DEF Equipped, Asked, RenameAllowed, Remembers, Mover
<1>3. /\ f \in Path /\ g \in Path /\ Root \in Path /\ \A n \in Names : n \in Path
      /\ \A n \in Listed : n \in Names /\ named[n] \in Boxes
  BY <1>2, NameFacts, ListedFacts
<1>4. Under(f, Root)
  BY <1>2, <1>3, PathFacts
<1>5. /\ named' \in [Names -> Boxes \cup {None}] /\ made' \in [Names -> 0..MaxMade]
      /\ \A k \in Listed : Under(k, f) => Renamed(k) \in Listed' /\ named'[Renamed(k)] = named[k]
      /\ \A k \in Listed : ~Under(k, f) => k \in Listed' /\ named'[k] = named[k]
      /\ \A n \in new : /\ n \in Listed' /\ named'[n] = <<n, made[n] + 1>> /\ made'[n] = made[n] + 1
                        /\ n \notin Listed /\ n \in Names /\ Under(g, n)
      /\ \A n \in Names : made'[n] = made[n] \/ made'[n] = made[n] + 1
      /\ \A n \in Listed' :
            \/ \E k \in Listed : Under(k, f) /\ n = Renamed(k)
            \/ n \in Listed /\ ~Under(n, f)
            \/ n \in new
  BY <1>1, <1>2, <1>4, RenamedNames
<1>6. \A n \in Listed : \E k \in Listed' : named'[k] = named[n]
  BY <1>5
<1>7. ~Under(g, f) /\ \A n \in Listed : ~Under(n, g)
  BY <1>1 DEF RenameAllowed
<1>9. Rooted'
  BY <1>1, <1>2, <1>4, RenamedRooted
<1> HIDE DEF new
<1>10. Apart'
  <2>1. \A n \in Listed : named[n][1] \in Names /\ named[n][2] \in Nat /\ named[n][2] <= made[named[n][1]]
    BY <1>3 DEF Boxes, Apart
  <2>2. \A n \in Names : made[n] \in Nat /\ made'[n] \in Nat /\ made[n] <= made'[n]
    <3>1. \A n \in Names : made[n] \in Nat
      BY FoldersAssumption DEF ServerTypes
    <3> QED
      BY <1>5, <3>1
  <2>3. ASSUME NEW n \in new
        PROVE  named'[n][1] = n /\ named'[n][2] = made[n] + 1 /\ made'[n] = made[n] + 1 /\ n \in Names
    <3>1. <<n, made[n] + 1>>[1] = n /\ <<n, made[n] + 1>>[2] = made[n] + 1
      OBVIOUS
    <3>2. named'[n] = <<n, made[n] + 1>> /\ made'[n] = made[n] + 1 /\ n \in Names
      BY <1>5
    <3> QED
      BY <3>1, <3>2
  \* The mailbox of a folder that was there.
  <2>4. ASSUME NEW n \in Listed', n \notin new
        PROVE  \E k \in Listed : /\ named'[n] = named[k]
                                 /\ n = IF Under(k, f) THEN Renamed(k) ELSE k
    BY <1>5, <2>4
  <2>5. ASSUME NEW n \in Listed' PROVE named'[n][2] <= made'[named'[n][1]]
    <3>1. CASE n \in new
      BY <2>2, <2>3, <3>1
    <3>2. CASE n \notin new
      <4>1. PICK k \in Listed : named'[n] = named[k]
        BY <2>4, <3>2
      <4> QED
        BY <2>1, <2>2, <4>1
    <3> QED
      BY <3>1, <3>2
  <2>6. ASSUME NEW n \in Listed', NEW k \in Listed', named'[k] = named'[n] PROVE k = n
    <3>1. CASE n \in new /\ k \in new
      BY <2>3, <2>6, <3>1
    <3>2. ASSUME NEW i \in Listed', NEW j \in new, i \notin new PROVE named'[i] # named'[j]
      <4>1. PICK l \in Listed : named'[i] = named[l]
        BY <2>4, <3>2
      <4> QED
        BY <2>1, <2>2, <2>3, <4>1
    <3>3. CASE n \notin new /\ k \notin new
      <4>1. PICK i \in Listed : named'[n] = named[i] /\ n = IF Under(i, f) THEN Renamed(i) ELSE i
        BY <2>4, <3>3
      <4>2. PICK j \in Listed : named'[k] = named[j] /\ k = IF Under(j, f) THEN Renamed(j) ELSE j
        BY <2>4, <3>3
      <4>3. i = j
        BY <2>6, <4>1, <4>2 DEF Apart
      <4> QED
        BY <4>1, <4>2, <4>3
    <3> QED
      BY <2>6, <3>1, <3>2, <3>3
  <2> QED
    BY <2>5, <2>6 DEF Apart
<1>11. ThreadTypes' /\ Others(t) /\ copied'[t] = copied[t] /\ ~Mover(t)' /\ Remembers(t)' /\ Equipped(t)'
  BY <1>1, <1>2, Forgotten
<1> QED
  BY <1>1, <1>5, <1>6, <1>9, <1>10, <1>11, NamesStep

-----------------------------------------------------------------------------
(* Mail arrives and goes.                                                  *)

\* A message delivered gets a UID that no message has had, flagged or not.
LEMMA Delivered ==
    ASSUME ServerTypes, Numbered, NEW b \in Boxes, NEW m \in Mids,
           uidNext[b] <= MaxUid, uidNext' = [uidNext EXCEPT ![b] = @ + 1],
           flagged' = [c \in Boxes |-> flagged'[c]],
           flagged'[b] \in {flagged[b], flagged[b] \cup {uidNext[b]}},
           \A c \in Boxes \ {b} : flagged'[c] = flagged[c],
           NEW new, new = NextEntry(b, m),
           mail' = [c \in Boxes |-> mail'[c]],
           mail'[b] \subseteq mail[b] \cup {new}, \A c \in Boxes \ {b} : mail'[c] \subseteq mail[c],
           UNCHANGED <<rejects, named, made>>
    PROVE  /\ ServerTypes' /\ Grows /\ Numbered'
           /\ new \in Entries /\ new.uid = uidNext[b] /\ new.mid = m
           /\ \A e \in mail[b] : e.uid # uidNext[b]
           /\ uidNext[b] \notin flagged[b]
<1>1. /\ uidNext[b] \in 1..MaxUid + 1 /\ uidNext[b] <= MaxUid /\ MaxUid \in Nat
      /\ uidNext' = [uidNext EXCEPT ![b] = uidNext[b] + 1]
      /\ uidNext \in [Boxes -> 1..MaxUid + 1]
  BY UidFacts DEF ServerTypes
<1>2. /\ uidNext' \in [Boxes -> 1..MaxUid + 1] /\ uidNext'[b] = uidNext[b] + 1
      /\ \A c \in Boxes \ {b} : uidNext'[c] = uidNext[c]
      /\ \A c \in Boxes : uidNext[c] \in Nat
  BY <1>1
<1>3. new \in Entries /\ new.uid = uidNext[b] /\ new.mid = m
  BY <1>1 DEF Entries, Uids, NextEntry
<1>10. uidNext[b] \in Uids /\ \A c \in Boxes : \A u \in flagged[c] : u \in Nat /\ u < uidNext[c]
  BY <1>1, UidFacts DEF ServerTypes, Uids, Numbered
<1>11. flagged' \in [Boxes -> SUBSET Uids]
  <2>1. \A c \in Boxes : flagged'[c] \subseteq Uids
    BY <1>10 DEF ServerTypes
  <2> QED
    BY <2>1
<1>4. mail' \in [Boxes -> SUBSET Entries]
  <2>1. \A c \in Boxes : mail'[c] \subseteq Entries
    BY <1>3 DEF ServerTypes
  <2> QED
    BY <2>1
<1>5. ServerTypes'
  BY <1>2, <1>4, <1>11 DEF ServerTypes
<1>6. \A c \in Boxes : \A e \in mail[c] : e.uid \in Nat /\ e.uid < uidNext[c]
  BY UidFacts DEF ServerTypes, Entries, Numbered
<1>7. Grows
  <2>1. ASSUME NEW c \in Boxes
        PROVE  /\ uidNext[c] <= uidNext'[c]
               /\ \A e \in mail'[c] : e \in mail[c] \/ uidNext[c] <= e.uid
               /\ \A e \in mail'[c] \cap mail[c] : e.uid \in flagged[c] => e.uid \in flagged'[c]
    <3>1. CASE c = b
      BY <1>2, <1>3, <3>1
    <3>2. CASE c # b
      BY <1>2, <3>2
    <3> QED
      BY <3>1, <3>2
  <2> QED
    BY <2>1 DEF Grows
<1>8. \A e \in mail[b] : e.uid # uidNext[b]
  BY <1>2, <1>6
<1>9. Numbered'
  <2>1. ASSUME NEW c \in Boxes, NEW e \in mail'[c]
        PROVE  e.uid < uidNext'[c] /\ \A d \in mail'[c] : d.uid = e.uid => d = e
    <3>1. CASE c = b
      BY <1>2, <1>3, <1>6, <1>8, <3>1 DEF Numbered
    <3>2. CASE c # b
      BY <1>2, <3>2 DEF Numbered
    <3> QED
      BY <3>1, <3>2
  <2>2. ASSUME NEW c \in Boxes, NEW u \in flagged'[c] PROVE u < uidNext'[c]
    <3>1. CASE c = b
      BY <1>2, <1>10, <3>1
    <3>2. CASE c # b
      BY <1>2, <1>10, <3>2
    <3> QED
      BY <3>1, <3>2
  <2> QED
    BY <2>1, <2>2 DEF Numbered
<1>12. uidNext[b] \notin flagged[b]
  BY <1>2, <1>10
<1> QED
  BY <1>3, <1>5, <1>7, <1>8, <1>9, <1>12

LEMMA Removed ==
    ASSUME ServerTypes, Numbered, mail' = [c \in Boxes |-> mail'[c]],
           \A c \in Boxes : mail'[c] \subseteq mail[c], UNCHANGED uidNext,
           flagged' \in [Boxes -> SUBSET Uids], \A c \in Boxes : flagged'[c] \subseteq flagged[c],
           \A c \in Boxes : \A e \in mail'[c] : e.uid \in flagged[c] => e.uid \in flagged'[c]
    PROVE  mail' \in [Boxes -> SUBSET Entries] /\ Grows /\ Numbered'
<1>1. \A c \in Boxes : mail'[c] \subseteq Entries /\ uidNext[c] \in Nat
  BY FoldersAssumption DEF ServerTypes
<1>2. mail' \in [Boxes -> SUBSET Entries]
  BY <1>1
<1> QED
  BY <1>1, <1>2 DEF Grows, Numbered

LEMMA RemovedCopies ==
    ASSUME HistoryTypes, Few, SpareCopiesExplained, \A c \in Boxes : mail'[c] \subseteq mail[c],
           NEW t, Others(t), copied'[t] = copied[t], UNCHANGED spare
    PROVE  Few' /\ SpareCopiesExplained'
<1>1. \A m \in Mids : Copies(m)' \subseteq Copies(m)
  BY DEF Copies
<1>2. \A m \in Mids : /\ IsFiniteSet(Copies(m)') /\ Cardinality(Copies(m)') <= Cardinality(Copies(m))
                      /\ Cardinality(Copies(m)) \in Nat /\ Cardinality(Copies(m)') \in Nat
  BY <1>1, FS_Subset, FS_CardinalityType DEF Few
<1>3. \A m \in Mids : Moving(m)' = Moving(m) /\ Cardinality(Moving(m)) \in Nat /\ spare[m] \in Nat
  BY MovingFinite, FS_CardinalityType DEF Moving, Others, HistoryTypes
<1> QED
  BY <1>2, <1>3 DEF Few, SpareCopiesExplained

LEMMA MoverFacts ==
    ASSUME IInv, NEW u \in Threads, Mover(u)
    PROVE  at[u] \in Boxes /\ uid[u] \in Nat /\ uidNext[at[u]] \in Nat /\ uid[u] < uidNext[at[u]]
           /\ copied[u] # None /\ \A e \in mail[at[u]] : e.uid = uid[u] => e.mid = copied[u]
<1>1. at[u] \in Boxes /\ Knows(at[u], uid[u], copied[u]) /\ copied[u] # None
  BY DEF IInv, Remembers, Equipped, Placed, Mover
<1> QED
  BY <1>1, FoldersAssumption DEF IInv, TypeOK, ThreadTypes, ServerTypes, Knows

LEMMA CopyingKeeps ==
    ASSUME IInv, NEW t \in Threads, NEW e \in Entries, Copy(t, e)
    PROVE  IInv'
<1> USE DEF IInv, TypeOK
<1> DEFINE b == named[dst[t]]
           new == NextEntry(b, e.mid)
<1>1. /\ pc[t] = "copy" /\ e \in mail[at[t]] /\ e.uid = uid[t] /\ dst[t] \in Listed
      /\ Deliver(b, e.mid, e.uid \in flagged[at[t]]) /\ mail' = [mail EXCEPT ![b] = @ \cup {new}]
      /\ copied' = [copied EXCEPT ![t] = e.mid] /\ pc' = [pc EXCEPT ![t] = "remove"] /\ quiet' = FALSE
      /\ UNCHANGED <<overrides, hints, draft, op, mid, dest, src, dst, force, rejects, named, made, seen, todo,
                     at, uid, doomed, aim, requests, troubles, asked, swept, spare>>
  BY DEF Copy, Goto, Disturb, hintVars, routing, bounds
<1>2. /\ b \in Boxes /\ e.mid \in Mids /\ at[t] \in Boxes /\ op[t] \in {"archive", "move"} /\ t # Cleaner
      /\ (op[t] = "archive" => dest[t] \in Chosen)
      /\ copied[t] = None
  BY <1>1, ListedFacts DEF Equipped, Placed, Asked, Remembers, Mover, Entries
<1>3. /\ mail' = [c \in Boxes |-> mail'[c]] /\ mail'[b] = mail[b] \cup {new}
      /\ \A c \in Boxes \ {b} : mail'[c] = mail[c]
  BY <1>1, <1>2 DEF ServerTypes
\* The copy is flagged if the original is.
<1>14. /\ flagged' = [c \in Boxes |-> flagged'[c]] /\ \A c \in Boxes \ {b} : flagged'[c] = flagged[c]
       /\ flagged'[b] \in {flagged[b], flagged[b] \cup {uidNext[b]}}
       /\ (e.uid \notin flagged[at[t]] => flagged'[b] = flagged[b])
  BY <1>1, <1>2 DEF Deliver, ServerTypes
<1>4. /\ ServerTypes' /\ Grows /\ Numbered'
      /\ new \in Entries /\ new.uid = uidNext[b] /\ new.mid = e.mid
      /\ \A d \in mail[b] : d.uid # uidNext[b]
      /\ uidNext[b] \notin flagged[b]
  BY <1>1, <1>2, <1>3, <1>14, Delivered DEF Deliver
<1> HIDE DEF new
<1>5. HintTypes' /\ HistoryTypes' /\ Refused' /\ Sweeping'
  BY <1>1 DEF HintTypes, HistoryTypes, Refused, Sweeping
<1>6. Rooted' /\ Apart'
  BY <1>1 DEF Rooted, Apart, Listed
<1>7. /\ ThreadTypes' /\ Others(t) /\ pc'[t] = "remove" /\ copied'[t] = e.mid
  BY <1>1, <1>2 DEF ThreadTypes, Others, Labels
<1>8. \A u \in Threads \ {t} : Remembers(u)' /\ Equipped(u)'
  BY <1>4, <1>7, OthersOrderly
<1>9. Knows(at[t], uid[t], e.mid)
  BY <1>1, <1>2 DEF Numbered, Knows
<1>10. Remembers(t)'
  <2>1. aim[t].box \in Boxes \cup {None} /\ uid[t] \in 0..MaxUid
    BY DEF ThreadTypes
  <2>5. \A c \in Boxes : \A m : Knows(c, uid[t], m) =>
            uid[t] < uidNext'[c] /\ \A d \in mail'[c] : d.uid = uid[t] => d.mid = m
    BY <1>4, <2>1, KnowsStays DEF Knows
  <2>2. uid[t] < uidNext'[at[t]] /\ \A d \in mail'[at[t]] : d.uid = uid[t] => d.mid = e.mid
    BY <1>2, <1>9, <2>5
  <2>3. aim[t].box # None => /\ uid[t] < uidNext'[aim[t].box]
                             /\ \A d \in mail'[aim[t].box] : d.uid = uid[t] => d.mid = aim[t].mid
    <3>1. aim[t].box # None => Knows(aim[t].box, uid[t], aim[t].mid)
      BY DEF Remembers
    <3> QED
      BY <2>1, <2>5, <3>1
  <2>4. e.mid # None
    BY <1>2, FoldersAssumption
  <2> QED
    BY <1>1, <1>2, <1>7, <2>2, <2>3, <2>4 DEF Remembers, Mover, Knows
<1>11. Equipped(t)'
  <2>1. Placed(t)'
    BY <1>1, <1>2, <1>7 DEF Placed
  <2>2. Asked(t)'
    BY <1>1, <1>2, <1>7 DEF Equipped, Asked
  <2> QED
    BY <2>1, <2>2 DEF Equipped
<1>12. Few' /\ SpareCopiesExplained'
  <2>1. ASSUME NEW m \in Mids
        PROVE  IsFiniteSet(Copies(m)') /\ Cardinality(Copies(m)') <= 1 + Cardinality(Moving(m)') + spare'[m]
    <3>1. /\ Cardinality(Copies(m)) <= 1 + Cardinality(Moving(m)) + spare[m] /\ IsFiniteSet(Copies(m))
          /\ Cardinality(Copies(m)) \in Nat /\ Cardinality(Moving(m)) \in Nat /\ spare[m] \in Nat
      BY MovingFinite, FS_CardinalityType DEF SpareCopiesExplained, Few, HistoryTypes
    <3>2. CASE m = e.mid
      <4>1. Copies(m)' = Copies(m) \cup {<<b, new>>} /\ <<b, new>> \notin Copies(m)
        <5>1. new \notin mail[b]
          BY <1>4
        <5>2. ASSUME NEW c \in Boxes, NEW d \in Entries
              PROVE  d \in mail'[c] <=> d \in mail[c] \/ (c = b /\ d = new)
          BY <1>2, <1>3
        <5>3. ASSUME NEW x \in Boxes \X Entries
              PROVE  x \in Copies(m)' <=> x \in Copies(m) \/ x = <<b, new>>
          BY <1>4, <3>2, <5>2 DEF Copies
        <5>4. <<b, new>> \in Boxes \X Entries /\ <<b, new>> \notin Copies(m)
          BY <1>2, <1>4, <5>1 DEF Copies
        <5>5. Copies(m) \subseteq Boxes \X Entries /\ Copies(m)' \subseteq Boxes \X Entries
          BY DEF Copies
        <5> QED
          BY <5>3, <5>4, <5>5
      <4>2. Moving(m)' = Moving(m) \cup {t} /\ t \notin Moving(m)
        <5>1. \A u \in Threads \ {t} : copied'[u] = copied[u]
          BY <1>7 DEF Others
        <5> QED
          BY <1>2, <1>7, <3>2, <5>1, FoldersAssumption DEF Moving
      <4>3. Cardinality(Copies(m)') = Cardinality(Copies(m)) + 1 /\ IsFiniteSet(Copies(m)')
        BY <3>1, <4>1, FS_AddElement
      <4>4. Cardinality(Moving(m)') = Cardinality(Moving(m)) + 1
        BY <4>2, MovingFinite, FS_AddElement
      <4> QED
        BY <1>1, <3>1, <4>3, <4>4
    <3>3. CASE m # e.mid
      <4>1. Copies(m)' = Copies(m)
        BY <1>3, <1>4, <3>3 DEF Copies
      <4>2. Moving(m)' = Moving(m)
        BY <1>2, <1>7, <3>3, FoldersAssumption DEF Moving, Others
      <4> QED
        BY <1>1, <3>1, <4>1, <4>2
    <3> QED
      BY <3>2, <3>3
  <2> QED
    BY <2>1 DEF Few, SpareCopiesExplained
<1>13. SomeSpared'
  <2>1. \A u \in Threads \ {t} : /\ Mover(u)' => Mover(u)
                                 /\ at'[u] = at[u] /\ uid'[u] = uid[u]
    BY <1>7 DEF Others, Mover
  <2>2. at'[t] = at[t] /\ uid'[t] = uid[t] /\ Listed' = Listed /\ named' = named
    BY <1>1 DEF Listed
  <2>3. ASSUME NEW m \in Mids, m \notin asked \cup swept
        PROVE  \E n \in Listed, d \in Entries :
                  /\ d \in mail'[named[n]] /\ d.mid = m /\ d.uid \notin flagged'[named[n]]
                  /\ \A u \in Threads : ~(Mover(u)' /\ at'[u] = named[n] /\ uid'[u] = d.uid)
    <3>1. PICK n \in Listed, d \in Entries : Spared(m, n, d)
      BY <2>3 DEF SomeSpared
    <3>2. named[n] \in Boxes /\ d \in mail[named[n]] /\ d.mid = m /\ d.uid \notin flagged[named[n]]
      BY <3>1, ListedFacts DEF Spared
    <3>3. d \in mail'[named[n]]
      BY <1>3, <3>2
    <3>4. CASE at[t] = named[n] /\ uid[t] = d.uid
      <4>1. d.mid = e.mid
        BY <1>1, <1>2, <3>2, <3>4 DEF Numbered
      <4>2. \A u \in Threads : ~(Mover(u)' /\ at'[u] = b /\ uid'[u] = uidNext[b])
        <5>1. \A u \in Threads : Mover(u) => ~(at[u] = b /\ uid[u] = uidNext[b])
          BY MoverFacts
        <5>2. ~(at[t] = b /\ uid[t] = uidNext[b])
          BY <1>1, <1>4
        <5> QED
          BY <2>1, <2>2, <5>1, <5>2
      <4>3. new \in mail'[b] /\ new.mid = m /\ new.uid = uidNext[b] /\ uidNext[b] \notin flagged'[b]
        BY <1>1, <1>3, <1>4, <1>14, <3>2, <3>4, <4>1
      <4> QED
        BY <1>1, <1>4, <4>2, <4>3
    <3>5. CASE ~(at[t] = named[n] /\ uid[t] = d.uid)
      <4>1. \A u \in Threads : ~(Mover(u)' /\ at'[u] = named[n] /\ uid'[u] = d.uid)
        BY <2>1, <2>2, <3>1, <3>5 DEF Spared
      <4>2. d.uid \notin flagged'[named[n]]
        BY <1>2, <1>4, <1>14, <3>2
      <4> QED
        BY <3>2, <3>3, <4>1, <4>2
    <3> QED
      BY <3>4, <3>5
  <2> QED
    BY <1>1, <2>2, <2>3 DEF SomeSpared, Spared
<1> QED
  BY <1>4, <1>5, <1>6, <1>7, <1>8, <1>10, <1>11, <1>12, <1>13

\* Where mail goes and no message arrives, a message is still somewhere if
\* the step did not take its last copy.
LEMMA SparedStays ==
    ASSUME IInv, NEW t \in Threads, Others(t), ~Mover(t)',
           asked \subseteq asked', swept \subseteq swept', UNCHANGED named,
           ASSUME NEW n \in Listed, NEW e \in Entries, NEW m \in Mids, Spared(m, n, e), m \notin asked' \cup swept'
           PROVE  e \in mail'[named[n]] /\ e.uid \notin flagged'[named[n]]
    PROVE  SomeSpared'
<1>1. \A u \in Threads : Mover(u)' => Mover(u) /\ at'[u] = at[u] /\ uid'[u] = uid[u]
  BY DEF Others, Mover
<1>2. Listed' = Listed
  BY DEF Listed
<1>3. ASSUME NEW m \in Mids, m \notin asked' \cup swept'
      PROVE  \E n \in Listed, e \in Entries :
                /\ e \in mail'[named[n]] /\ e.mid = m /\ e.uid \notin flagged'[named[n]]
                /\ \A u \in Threads : ~(Mover(u)' /\ at'[u] = named[n] /\ uid'[u] = e.uid)
  <2>1. PICK n \in Listed, e \in Entries : Spared(m, n, e)
    BY <1>3 DEF IInv, SomeSpared
  <2>2. e \in mail'[named[n]] /\ e.uid \notin flagged'[named[n]]
    BY <1>3, <2>1
  <2> QED
    BY <1>1, <2>1, <2>2 DEF Spared
<1> QED
  BY <1>2, <1>3 DEF SomeSpared, Spared

\* A step that only flags messages: those asked to be deleted, or the one the
\* thread has copied.
LEMMA FlagStep ==
    ASSUME IInv, NEW t \in Threads, t # Cleaner, NEW b \in Boxes, NEW U,
           flagged' = [flagged EXCEPT ![b] = @ \cup U],
           UNCHANGED <<hintVars, rejects, named, made, mail, uidNext, bounds, swept, spare, quiet>>,
           asked \subseteq asked', asked' \subseteq Mids,
           \A u \in U : \E e \in mail[b] :
               e.uid = u /\ (e.mid \in asked' \/ (Mover(t) /\ at[t] = b /\ uid[t] = u)),
           ThreadTypes', Others(t), copied'[t] = copied[t], Remembers(t)', Equipped(t)',
           Mover(t)' => Mover(t) /\ at'[t] = at[t] /\ uid'[t] = uid[t]
    PROVE  IInv'
<1> USE DEF IInv, TypeOK
<1>1. UNCHANGED <<overrides, hints, draft, requests, troubles>> /\ Listed' = Listed /\ Archived' = Archived
  BY DEF hintVars, bounds, Listed, Archived
<1>2. /\ \A c \in Boxes \ {b} : flagged'[c] = flagged[c]
      /\ flagged'[b] = flagged[b] \cup U
      /\ flagged' = [c \in Boxes |-> flagged'[c]]
  BY DEF ServerTypes
<1>3. \A u \in U : u \in Uids /\ u < uidNext[b]
  BY DEF ServerTypes, Entries, Numbered
<1>4. ServerTypes'
  <2>1. \A c \in Boxes : flagged'[c] \subseteq Uids
    BY <1>2, <1>3 DEF ServerTypes
  <2>2. flagged' \in [Boxes -> SUBSET Uids]
    BY <1>2, <2>1
  <2> QED
    BY <2>2 DEF ServerTypes
<1>5. Numbered'
  <2>1. ASSUME NEW c \in Boxes, NEW u \in flagged'[c] PROVE u < uidNext[c]
    BY <1>2, <1>3 DEF Numbered
  <2> QED
    BY <2>1 DEF Numbered
<1>6. HintTypes' /\ HistoryTypes' /\ Rooted' /\ Apart' /\ Refused'
  BY <1>1 DEF HintTypes, HistoryTypes, Rooted, Apart, Refused
<1>7. Grows
  <2>1. \A c \in Boxes : uidNext[c] \in Nat /\ flagged[c] \subseteq flagged'[c]
    BY <1>2, FoldersAssumption DEF ServerTypes
  <2> QED
    BY <2>1 DEF Grows
<1>8. \A u \in Threads : Remembers(u)' /\ Equipped(u)'
  BY <1>4, <1>7, OthersOrderly
<1>9. Few' /\ SpareCopiesExplained'
  BY CutStep
<1>10. SomeSpared'
  <2>1. \A u \in Threads : Mover(u)' => Mover(u) /\ at'[u] = at[u] /\ uid'[u] = uid[u]
    BY DEF Others, Mover
  <2>2. ASSUME NEW m \in Mids, NEW n \in Listed, NEW d \in Entries, Spared(m, n, d), m \notin asked' \cup swept
        PROVE  d.uid \notin flagged'[named[n]]
    <3> SUFFICES ASSUME d.uid \in flagged'[named[n]] PROVE FALSE
      OBVIOUS
    <3>1. /\ d \in mail[named[n]] /\ d.mid = m /\ d.uid \notin flagged[named[n]] /\ named[n] \in Boxes
          /\ ~(Mover(t) /\ at[t] = named[n] /\ uid[t] = d.uid)
      BY <2>2, ListedFacts DEF Spared
    <3>2. named[n] = b /\ d.uid \in U
      BY <1>2, <3>1
    <3>3. PICK e \in mail[b] : e.uid = d.uid /\ (e.mid \in asked' \/ (Mover(t) /\ at[t] = b /\ uid[t] = d.uid))
      BY <3>2
    <3>4. e = d
      BY <3>1, <3>2, <3>3 DEF Numbered
    <3> QED
      BY <2>2, <3>1, <3>2, <3>3, <3>4
  <2>3. \A m \in Mids, n \in Listed, d \in Entries :
           Spared(m, n, d) /\ m \notin asked' \cup swept => Spared(m, n, d)'
    BY <2>1, <2>2 DEF Spared
  <2> QED
    BY <1>1, <2>3 DEF SomeSpared
<1>11. Sweeping'
  <2>1. Cleaner \in Threads \ {t}
    BY FoldersAssumption
  <2>2. /\ pc'[Cleaner] = pc[Cleaner] /\ op'[Cleaner] = op[Cleaner] /\ seen'[Cleaner] = seen[Cleaner]
        /\ todo'[Cleaner] = todo[Cleaner] /\ src'[Cleaner] = src[Cleaner]
    BY <2>1 DEF Others
  <2>3. \A n : Holding(n)' = Holding(n)
    BY <1>1 DEF Holding
  <2> QED
    BY <1>1, <2>2, <2>3 DEF Sweeping
<1> HIDE DEF IInv, TypeOK
<1> QED
  BY <1>4, <1>5, <1>6, <1>8, <1>9, <1>10, <1>11 DEF IInv, TypeOK

LEMMA FlaggingKeeps ==
    ASSUME IInv, NEW t \in Threads, NEW e \in Entries, Flag(t, e)
    PROVE  IInv'
<1> USE DEF IInv, TypeOK
<1>1. /\ pc[t] = "remove" /\ e \in mail[at[t]] /\ e.uid = uid[t]
      /\ flagged' = [flagged EXCEPT ![at[t]] = @ \cup {e.uid}]
      /\ asked' = (IF op[t] = "message delete" THEN asked \cup {e.mid} ELSE asked)
      /\ pc' = [pc EXCEPT ![t] = "expunge"]
      /\ UNCHANGED <<hintVars, op, mid, dest, src, dst, force, rejects, named, made, mail, uidNext, seen,
                     todo, at, uid, doomed, copied, aim, bounds, swept, spare, quiet>>
  BY DEF Flag, Goto, routing, work, memo
<1>2. /\ at[t] \in Boxes /\ op[t] \in {"archive", "move", "message delete"} /\ t # Cleaner
      /\ e.mid \in Mids
  BY <1>1 DEF Equipped, Placed, Asked, Entries
<1>3. ThreadTypes' /\ Others(t) /\ pc'[t] = "expunge"
  BY <1>1 DEF ThreadTypes, Others, Labels
<1>4. Mover(t)' = Mover(t) /\ (Mover(t) <=> op[t] # "message delete")
  BY <1>1, <1>2, <1>3 DEF Mover
<1>5. asked \subseteq asked' /\ asked' \subseteq Mids
  BY <1>1, <1>2 DEF HistoryTypes
<1>6. uid[t] \in flagged'[at[t]]
  BY <1>1, <1>2 DEF ServerTypes
<1>7. Remembers(t)'
  BY <1>1, <1>4, <1>6 DEF Remembers, Knows
<1>8. Equipped(t)'
  BY <1>1, <1>2, <1>3 DEF Equipped, Placed, Asked
<1> DEFINE U == {e.uid}
<1>9. flagged' = [flagged EXCEPT ![at[t]] = @ \cup U]
  BY <1>1
<1>10. \A u \in U : \E d \in mail[at[t]] :
           d.uid = u /\ (d.mid \in asked' \/ (Mover(t) /\ at[t] = at[t] /\ uid[t] = u))
  BY <1>1, <1>4
<1>11. /\ UNCHANGED <<hintVars, rejects, named, made, mail, uidNext, bounds, swept, spare, quiet>>
       /\ copied'[t] = copied[t]
       /\ Mover(t)' => Mover(t) /\ at'[t] = at[t] /\ uid'[t] = uid[t]
  BY <1>1, <1>4
<1> HIDE DEF IInv, TypeOK, U
<1> QED
  BY <1>2, <1>3, <1>5, <1>7, <1>8, <1>9, <1>10, <1>11, FlagStep

LEMMA PurgingKeeps ==
    ASSUME IInv, NEW t \in Threads, Purge(t)
    PROVE  IInv'
<1> USE DEF IInv, TypeOK
<1> DEFINE S == StillThere(t)  U == {e.uid : e \in S}
<1>1. /\ pc[t] = "purge" /\ flagged' = [flagged EXCEPT ![at[t]] = @ \cup U]
      /\ asked' = asked \cup {e.mid : e \in S} /\ doomed' = [doomed EXCEPT ![t] = {}]
      /\ (Goto(t, "drop") \/ Goto(t, "expunge"))
      /\ UNCHANGED <<hintVars, op, mid, dest, src, dst, force, rejects, named, made, mail, uidNext, seen,
                     todo, at, uid, copied, aim, bounds, swept, spare, quiet>>
  BY DEF Purge, routing
<1>2. /\ at[t] \in Boxes /\ op[t] = "delete" /\ t # Cleaner /\ S \subseteq mail[at[t]]
      /\ copied[t] = None
  BY <1>1 DEF Equipped, Placed, Asked, StillThere, Remembers, Mover
<1>9. \A u \in U : \E e \in S : e.uid = u
  OBVIOUS
<1> HIDE DEF S, U
<1>3. PICK l \in {"drop", "expunge"} : Goto(t, l)
  BY <1>1
<1>4. ThreadTypes' /\ Others(t) /\ pc'[t] = l
  BY <1>1, <1>3 DEF Goto, ThreadTypes, Others, Labels
<1>5. asked \subseteq asked' /\ asked' \subseteq Mids /\ \A e \in S : e.mid \in asked'
  BY <1>1, <1>2 DEF HistoryTypes, ServerTypes, Entries
<1>6. ~Mover(t)'
  BY <1>1, <1>2 DEF Mover
<1>7. Remembers(t)'
  BY <1>1, <1>2, <1>6 DEF Remembers, Knows
<1>8. Equipped(t)'
  BY <1>1, <1>2, <1>3, <1>4 DEF Equipped, Placed, Asked
<1>10. \A u \in U : \E e \in mail[at[t]] :
           e.uid = u /\ (e.mid \in asked' \/ (Mover(t) /\ at[t] = at[t] /\ uid[t] = u))
  BY <1>2, <1>5, <1>9
<1>11. /\ UNCHANGED <<hintVars, rejects, named, made, mail, uidNext, bounds, swept, spare, quiet>>
       /\ copied'[t] = copied[t]
       /\ Mover(t)' => Mover(t) /\ at'[t] = at[t] /\ uid'[t] = uid[t]
       /\ flagged' = [flagged EXCEPT ![at[t]] = @ \cup U]
  BY <1>1, <1>2, <1>6
<1> HIDE DEF IInv, TypeOK
<1> QED
  BY <1>2, <1>4, <1>5, <1>7, <1>8, <1>10, <1>11, FlagStep

\* EXPUNGE takes what is flagged, and with it the original of a message that
\* was copied, unless another has taken it before.
LEMMA ExpungingKeeps ==
    ASSUME IInv, NEW t \in Threads, Expunge(t)
    PROVE  IInv'
<1> USE DEF IInv, TypeOK
<1> DEFINE b == at[t]
<1>1. /\ pc[t] = "expunge"
      /\ mail' = [mail EXCEPT ![b] = {e \in mail[b] : e.uid \notin flagged[b]}]
      /\ flagged' = [flagged EXCEPT ![b] = {}] /\ quiet' = FALSE
      /\ spare' = (IF HasUid(b, uid[t]) THEN spare ELSE Cut(t))
      /\ \/ op[t] = "delete" /\ Goto(t, "drop") /\ UNCHANGED <<routing, work>>
         \/ op[t] # "delete" /\ ForgetJob(t)
      /\ UNCHANGED <<overrides, hints, draft, rejects, named, made, uidNext, requests, troubles, asked, swept>>
  BY DEF Expunge, Expunged, Disturb, hintVars, bounds
<1>2. b \in Boxes /\ (~Mover(t) => copied[t] = None)
  BY <1>1 DEF Equipped, Placed, Remembers
<1>3. /\ mail' = [c \in Boxes |-> mail'[c]] /\ mail'[b] = {e \in mail[b] : e.uid \notin flagged[b]}
      /\ \A c \in Boxes \ {b} : mail'[c] = mail[c] /\ flagged'[c] = flagged[c]
      /\ flagged' \in [Boxes -> SUBSET Uids] /\ flagged'[b] = {}
  BY <1>1, <1>2 DEF ServerTypes
<1>4. \A c \in Boxes : mail'[c] \subseteq mail[c] /\ flagged'[c] \subseteq flagged[c]
  BY <1>2, <1>3
<1>5. mail' \in [Boxes -> SUBSET Entries] /\ Grows /\ Numbered'
  <2>1. \A c \in Boxes : \A e \in mail'[c] : e.uid \in flagged[c] => e.uid \in flagged'[c]
    BY <1>2, <1>3
  <2> QED
    BY <1>1, <1>3, <1>4, <2>1, Removed
<1>6. spare' \in [Mids -> Nat]
  BY <1>1, CutTyped DEF HistoryTypes
<1>7. ServerTypes' /\ HintTypes' /\ HistoryTypes' /\ Refused' /\ Sweeping' /\ Rooted' /\ Apart'
  BY <1>1, <1>3, <1>5, <1>6 DEF ServerTypes, HintTypes, HistoryTypes, Refused, Sweeping, Rooted, Apart, Listed
<1>8. /\ ThreadTypes' /\ Others(t) /\ copied'[t] = None /\ ~Mover(t)'
      /\ Remembers(t)' /\ Equipped(t)'
  <2>1. CASE ForgetJob(t)
    BY <2>1, Forgotten
  <2>2. CASE op[t] = "delete" /\ Goto(t, "drop") /\ UNCHANGED <<routing, work>>
    <3>1. /\ pc' = [pc EXCEPT ![t] = "drop"]
          /\ UNCHANGED <<op, mid, dest, src, dst, force, seen, todo, at, uid, doomed, copied, aim>>
      BY <2>2 DEF Goto, routing, work, memo
    <3>2. ThreadTypes' /\ Others(t) /\ pc'[t] = "drop"
      BY <3>1 DEF ThreadTypes, Others, Labels
    <3>3. copied'[t] = None /\ ~Mover(t)'
      BY <1>2, <2>2, <3>1, <3>2 DEF Mover
    <3>4. Remembers(t)'
      <4>1. aim[t].box \in Boxes \cup {None}
        BY DEF ThreadTypes
      <4>2. aim[t].box # None => Knows(aim[t].box, uid[t], aim[t].mid)
        BY DEF Remembers
      <4> QED
        BY <1>1, <1>4, <3>1, <3>3, <4>1, <4>2 DEF Remembers, Knows
    <3>5. Equipped(t)'
      BY <1>1, <2>2, <3>1, <3>2 DEF Equipped, Placed, Asked
    <3> QED
      BY <3>2, <3>3, <3>4, <3>5
  <2> QED
    BY <1>1, <2>1, <2>2
<1>9. \A u \in Threads : Remembers(u)' /\ Equipped(u)'
  BY <1>5, <1>7, <1>8, OthersOrderly
<1>10. Few' /\ SpareCopiesExplained'
  <2>1. ASSUME NEW m \in Mids
        PROVE  IsFiniteSet(Copies(m)') /\ Cardinality(Copies(m)') <= 1 + Cardinality(Moving(m)') + spare'[m]
    <3>1. /\ Cardinality(Copies(m)) <= 1 + Cardinality(Moving(m)) + spare[m] /\ IsFiniteSet(Copies(m))
          /\ Cardinality(Copies(m)) \in Nat /\ Cardinality(Moving(m)) \in Nat /\ spare[m] \in Nat
      BY MovingFinite, FS_CardinalityType DEF SpareCopiesExplained, Few, HistoryTypes
    <3>2. \A u \in Threads \ {t} : copied'[u] = copied[u]
      BY <1>8 DEF Others
    <3>3. Copies(m)' \subseteq Copies(m)
      BY <1>4 DEF Copies
    <3>4. /\ IsFiniteSet(Copies(m)') /\ Cardinality(Copies(m)') <= Cardinality(Copies(m))
          /\ Cardinality(Copies(m)') \in Nat
      BY <3>1, <3>3, FS_Subset, FS_CardinalityType
    <3>5. CASE copied[t] # m
      <4>1. Moving(m)' = Moving(m)
        BY <1>8, <3>2, <3>5, FoldersAssumption DEF Moving
      <4>2. spare'[m] = spare[m]
        BY <1>1, <3>5 DEF Cut
      <4> QED
        BY <3>1, <3>4, <4>1, <4>2
    <3>6. CASE copied[t] = m
      <4>1. Moving(m)' = Moving(m) \ {t} /\ t \in Moving(m)
        BY <1>8, <3>2, <3>6, FoldersAssumption DEF Moving
      <4>2. Cardinality(Moving(m)') = Cardinality(Moving(m)) - 1
        BY <4>1, MovingFinite, FS_RemoveElement
      <4>3. Mover(t)
        BY <1>2, <3>6, FoldersAssumption
      <4>4. CASE HasUid(b, uid[t])
        <5>1. PICK e \in mail[b] : e.uid = uid[t]
          BY <4>4 DEF HasUid
        <5>2. e.mid = m /\ e.uid \in flagged[b] /\ e \in Entries
          BY <1>1, <1>2, <3>6, <4>3, <4>4, <5>1, MoverFacts DEF Remembers, ServerTypes
        <5>3. <<b, e>> \in Copies(m) /\ <<b, e>> \notin Copies(m)'
          BY <1>2, <1>3, <5>1, <5>2 DEF Copies
        <5>4. Copies(m)' \subseteq Copies(m) \ {<<b, e>>}
          BY <3>3, <5>3
        <5>5. IsFiniteSet(Copies(m) \ {<<b, e>>}) /\ Cardinality(Copies(m) \ {<<b, e>>}) = Cardinality(Copies(m)) - 1
          BY <3>1, <5>3, FS_RemoveElement
        <5>6. Cardinality(Copies(m)') <= Cardinality(Copies(m)) - 1
          BY <5>4, <5>5, FS_Subset
        <5>7. spare'[m] = spare[m]
          BY <1>1, <4>4
        <5> QED
          BY <3>1, <3>4, <4>2, <5>6, <5>7
      <4>5. CASE ~HasUid(b, uid[t])
        <5>1. spare'[m] = spare[m] + 1
          BY <1>1, <3>6, <4>5 DEF Cut
        <5> QED
          BY <3>1, <3>4, <4>2, <5>1
      <4> QED
        BY <4>4, <4>5
    <3> QED
      BY <3>5, <3>6
  <2> QED
    BY <2>1 DEF Few, SpareCopiesExplained
<1>11. SomeSpared'
  <2>1. ASSUME NEW n \in Listed, NEW d \in Entries, NEW m \in Mids, Spared(m, n, d), m \notin asked' \cup swept'
        PROVE  d \in mail'[named[n]] /\ d.uid \notin flagged'[named[n]]
    BY <1>2, <1>3, <1>4, <2>1, ListedFacts DEF Spared
  <2> QED
    BY <1>1, <1>8, <2>1, SparedStays
<1> QED
  BY <1>5, <1>7, <1>8, <1>9, <1>10, <1>11

LEMMA DroppingKeeps ==
    ASSUME IInv, NEW t \in Threads, Drop(t)
    PROVE  IInv'
<1> USE DEF IInv, TypeOK
<1> DEFINE f == InHand(t)
           b == named[f]
<1>1. /\ pc[t] = "drop" /\ f \in Listed /\ \A n \in Listed : ~Below(n, f)
      /\ rejects => mail[b] = {}
      /\ named' = [named EXCEPT ![f] = None] /\ mail' = [mail EXCEPT ![b] = {}]
      /\ \/ asked' = asked \cup MidsIn(b) /\ swept' = swept
         \/ asked' = asked /\ swept' = swept \cup MidsIn(b)
      /\ quiet' = (quiet /\ t = Cleaner)
      /\ UNCHANGED <<overrides, hints, draft, rejects, made, uidNext, flagged, requests, troubles, spare>>
  BY DEF Drop, DeleteAllowed, DeleteFolder, hintVars, bounds
<1>2. /\ f \in Names /\ b \in Boxes /\ MidsIn(b) \subseteq Mids /\ copied[t] = None
      /\ (rejects => MidsIn(b) = {}) /\ op[t] \in {"delete", "cleanup"}
  BY <1>1, ListedFacts DEF MidsIn, Entries, Remembers, Mover, Equipped, Asked
<1>3. /\ mail' = [c \in Boxes |-> mail'[c]] /\ mail'[b] = {}
      /\ \A c \in Boxes \ {b} : mail'[c] = mail[c]
      /\ named' \in [Names -> Boxes \cup {None}] /\ named'[f] = None
      /\ \A n \in Names \ {f} : named'[n] = named[n]
  BY <1>1, <1>2 DEF ServerTypes
<1>4. \A c \in Boxes : mail'[c] \subseteq mail[c]
  BY <1>2, <1>3
<1>5. mail' \in [Boxes -> SUBSET Entries] /\ Grows /\ Numbered'
  BY <1>1, <1>3, <1>4, Removed DEF ServerTypes
<1>6. /\ asked \subseteq asked' /\ swept \subseteq swept' /\ asked' \subseteq Mids /\ swept' \subseteq Mids
      /\ asked' \cup swept' = asked \cup swept \cup MidsIn(b)
  BY <1>1, <1>2 DEF HistoryTypes
<1>7. quiet' \in BOOLEAN
  BY <1>1 DEF HistoryTypes
<1>8. ServerTypes' /\ HintTypes' /\ HistoryTypes'
  BY <1>1, <1>3, <1>5, <1>6, <1>7 DEF ServerTypes, HintTypes, HistoryTypes
<1>9. Refused'
  BY <1>1, <1>2 DEF Refused
<1>10. Listed' = Listed \ {f}
  BY <1>1, <1>2, <1>3 DEF Listed
<1>11. Rooted'
  <2>1. ASSUME NEW n \in Listed \ {f}, NEW k \in Hierarchy(n) PROVE k \in Listed \ {f}
    <3>1. k \in Listed /\ Under(n, k) /\ n \in Path /\ f \in Path
      BY <1>2, <2>1, NameFacts DEF Rooted, Hierarchy, Listed
    <3>2. k # f
      BY <1>1, <2>1, <3>1, PathFacts
    <3> QED
      BY <3>1, <3>2
  <2> QED
    BY <1>10, <2>1 DEF Rooted, Hierarchy
<1>12. Apart'
  <2>1. \A n \in Listed' : n \in Listed /\ named'[n] = named[n]
    BY <1>3, <1>10 DEF Listed
  <2> QED
    BY <1>1, <2>1 DEF Apart
\* Its job is done, or another folder is next.
<1>13. /\ ThreadTypes' /\ Others(t) /\ copied'[t] = None /\ ~Mover(t)'
       /\ Remembers(t)' /\ Equipped(t)'
  <2>1. CASE ForgetJob(t)
    BY <2>1, Forgotten
  <2>2. ASSUME NEW l \in {"sweep", "open"}, Goto(t, l),
               l = "sweep" => op[t] = "cleanup", l = "open" => op[t] = "delete",
               todo' = [todo EXCEPT ![t] = @ \ {f}], seen' = [seen EXCEPT ![t] = @ \ {f}],
               UNCHANGED <<routing, at, memo>>
        PROVE  /\ ThreadTypes' /\ Others(t) /\ copied'[t] = None /\ ~Mover(t)'
               /\ Remembers(t)' /\ Equipped(t)'
    <3>1. UNCHANGED <<op, mid, dest, src, dst, force, at, uid, doomed, copied, aim>>
      BY <2>2 DEF routing, memo
    <3>2. pc'[t] = l /\ ThreadTypes' /\ Others(t)
      <4>1. /\ pc' \in [Threads -> Labels] /\ pc'[t] = l
            /\ \A u \in Threads \ {t} : pc'[u] = pc[u]
        BY <2>2 DEF Goto, ThreadTypes, Labels
      <4>2. /\ todo' \in [Threads -> SUBSET Names] /\ seen' \in [Threads -> SUBSET Names]
            /\ \A u \in Threads \ {t} : todo'[u] = todo[u] /\ seen'[u] = seen[u]
        BY <2>2 DEF ThreadTypes
      <4> QED
        BY <3>1, <4>1, <4>2 DEF ThreadTypes, Others
    <3>3. ~Mover(t)'
      BY <2>2, <3>2 DEF Mover
    <3>4. Remembers(t)'
      <4>1. aim[t].box \in Boxes \cup {None}
        BY DEF ThreadTypes
      <4>2. aim[t].box # None => Knows(aim[t].box, uid[t], aim[t].mid)
        BY DEF Remembers
      <4> QED
        BY <1>1, <1>2, <1>4, <2>2, <3>1, <3>2, <3>3, <4>1, <4>2 DEF Remembers, Knows
    <3>5. Placed(t)'
      BY <2>2, <3>1, <3>2 DEF Placed
    <3>6. Asked(t)'
      BY <1>1, <2>2, <3>1, <3>2 DEF Equipped, Asked
    <3> QED
      BY <1>2, <3>1, <3>2, <3>3, <3>4, <3>5, <3>6 DEF Equipped
  <2>3. CASE op[t] = "cleanup"
    BY <2>2, <2>3 DEF Drop
  <2>4. CASE op[t] # "cleanup" /\ force[t] /\ todo[t] # {f}
    BY <1>2, <2>2, <2>4 DEF Drop
  <2> QED
    BY <2>1, <2>3, <2>4 DEF Drop
<1>14. \A u \in Threads : Remembers(u)' /\ Equipped(u)'
  BY <1>5, <1>8, <1>13, OthersOrderly
<1>15. Few' /\ SpareCopiesExplained'
  BY <1>1, <1>2, <1>4, <1>13, RemovedCopies
<1>16. SomeSpared'
  <2>1. \A u \in Threads : Mover(u)' => Mover(u) /\ at'[u] = at[u] /\ uid'[u] = uid[u]
    BY <1>13 DEF Others, Mover
  <2>2. ASSUME NEW m \in Mids, m \notin asked' \cup swept'
        PROVE  \E n \in Listed', e \in Entries :
                  /\ e \in mail'[named'[n]] /\ e.mid = m /\ e.uid \notin flagged'[named'[n]]
                  /\ \A u \in Threads : ~(Mover(u)' /\ at'[u] = named'[n] /\ uid'[u] = e.uid)
    <3>1. PICK n \in Listed, e \in Entries : Spared(m, n, e)
      BY <1>6, <2>2 DEF SomeSpared
    <3>2. e \in mail[named[n]] /\ e.mid = m /\ named[n] \in Boxes /\ n \in Names
      BY <3>1, ListedFacts DEF Spared
    <3>3. named[n] # b
      BY <1>6, <2>2, <3>2 DEF MidsIn
    <3>4. n \in Listed' /\ named'[n] = named[n] /\ e \in mail'[named[n]]
      BY <1>3, <1>10, <3>2, <3>3
    <3> QED
      BY <1>1, <2>1, <3>1, <3>2, <3>4 DEF Spared
  <2> QED
    BY <2>2 DEF SomeSpared, Spared
<1>17. Sweeping'
  <2> SUFFICES ASSUME quiet' PROVE Sweeping'
    BY DEF Sweeping
  <2>1. quiet /\ t = Cleaner
    BY <1>1
  <2>2. /\ op[t] = "cleanup" /\ seen[t] = Archived /\ todo[t] \subseteq Archived \ {Root}
        /\ \A n \in Archived \ {Root} : n \notin todo[t] => Holding(n)
    BY <2>1 DEF Sweeping
  <2>3. /\ pc'[t] = "sweep" /\ op'[t] = "cleanup"
        /\ todo'[t] = todo[t] \ {f} /\ seen'[t] = seen[t] \ {f}
    <3>1. /\ Goto(t, "sweep") /\ UNCHANGED routing
          /\ todo' = [todo EXCEPT ![t] = @ \ {f}] /\ seen' = [seen EXCEPT ![t] = @ \ {f}]
      BY <2>2 DEF Drop
    <3> QED
      BY <2>2, <3>1 DEF Goto, ThreadTypes, routing
  <2>4. Archived' = Archived \ {f}
    BY <1>10 DEF Archived
  <2>5. ASSUME NEW n \in Names, Holding(n) PROVE Holding(n)'
    <3>1. PICK k \in Listed : Under(k, n) /\ mail[named[k]] # {}
      BY <2>5 DEF Holding
    <3>2. named[k] # b /\ k # f
      <4>1. InHand(t) = src[t] /\ mail[b] = {}
        BY <1>1, <2>1, <2>2 DEF Sweeping, InHand
      <4> QED
        BY <3>1, <4>1
    <3>3. k \in Listed' /\ mail'[named'[k]] # {}
      BY <1>3, <1>10, <3>1, <3>2, ListedFacts
    <3> QED
      BY <3>1, <3>3 DEF Holding
  <2>6. \A n \in Archived' \ {Root} : n \notin todo'[t] => Holding(n)'
    BY <2>2, <2>3, <2>4, <2>5 DEF Archived, Listed
  <2> QED
    BY <2>1, <2>2, <2>3, <2>4, <2>6 DEF Sweeping
<1> QED
  BY <1>5, <1>8, <1>9, <1>11, <1>12, <1>13, <1>14, <1>15, <1>16, <1>17

LEMMA UserMovesKeeps ==
    ASSUME IInv, NEW f \in Listed, NEW g \in Listed, NEW e \in mail[named[f]], UserMoves(f, e, g)
    PROVE  IInv'
<1> USE DEF IInv, TypeOK
<1> DEFINE a == named[f]
           b == named[g]
           new == NextEntry(b, e.mid)
<1>1. /\ troubles < MaxTroubles /\ troubles' = troubles + 1 /\ f # g /\ quiet' = FALSE
      /\ Deliver(b, e.mid, e.uid \in flagged[a])
      /\ mail' = [mail EXCEPT ![a] = mail[a] \ {e}, ![b] = mail[b] \cup {new}]
      /\ UNCHANGED <<overrides, hints, draft, pc, op, mid, dest, src, dst, force, rejects, named, made, seen,
                     todo, at, uid, doomed, copied, aim, requests, asked, swept, spare>>
  <2>1. f # g => b # a
    BY DEF Apart
  <2> QED
    BY <2>1 DEF UserMoves, Disturb, hintVars, routing, work, memo
<1>2. a \in Boxes /\ b \in Boxes /\ a # b /\ e \in Entries /\ e.mid \in Mids
  BY <1>1, ListedFacts DEF Apart, Entries
<1>3. /\ mail' = [c \in Boxes |-> mail'[c]] /\ mail'[a] = mail[a] \ {e} /\ mail'[b] = mail[b] \cup {new}
      /\ \A c \in Boxes \ {a, b} : mail'[c] = mail[c]
  BY <1>1, <1>2 DEF ServerTypes
<1>10. /\ flagged' = [c \in Boxes |-> flagged'[c]] /\ \A c \in Boxes \ {b} : flagged'[c] = flagged[c]
       /\ flagged'[b] \in {flagged[b], flagged[b] \cup {uidNext[b]}}
       /\ (e.uid \notin flagged[a] => flagged'[b] = flagged[b])
  BY <1>1, <1>2 DEF Deliver, ServerTypes
<1>4. /\ ServerTypes' /\ Grows /\ Numbered'
      /\ new \in Entries /\ new.uid = uidNext[b] /\ new.mid = e.mid
      /\ \A d \in mail[b] : d.uid # uidNext[b]
      /\ uidNext[b] \notin flagged[b]
  <2>1. mail'[b] \subseteq mail[b] \cup {new} /\ \A c \in Boxes \ {b} : mail'[c] \subseteq mail[c]
    BY <1>2, <1>3
  <2> QED
    BY <1>1, <1>2, <1>3, <1>10, <2>1, Delivered DEF Deliver
<1> HIDE DEF new
<1>5. HintTypes' /\ ThreadTypes' /\ HistoryTypes' /\ Refused' /\ Sweeping'
  <2>1. troubles' \in 0..MaxTroubles
    BY <1>1, FoldersAssumption DEF HistoryTypes
  <2> QED
    BY <1>1, <2>1 DEF HintTypes, ThreadTypes, HistoryTypes, Refused, Sweeping
<1>6. Listed' = Listed /\ Rooted' /\ Apart'
  BY <1>1 DEF Rooted, Apart, Listed
<1>7. \A u \in Threads : Remembers(u)' /\ Equipped(u)'
  <2>1. \A t : Others(t)
    BY <1>1 DEF Others
  <2>2. Agent # Cleaner
    BY FoldersAssumption
  <2>3. \A t : \A u \in Threads : u # t => Remembers(u)' /\ Equipped(u)'
    BY <1>4, <2>1, OthersOrderly
  <2> QED
    BY <2>2, <2>3
<1>8. Few' /\ SpareCopiesExplained'
  <2>1. ASSUME NEW m \in Mids
        PROVE  IsFiniteSet(Copies(m)') /\ Cardinality(Copies(m)') <= 1 + Cardinality(Moving(m)') + spare'[m]
    <3>1. /\ Cardinality(Copies(m)) <= 1 + Cardinality(Moving(m)) + spare[m] /\ IsFiniteSet(Copies(m))
          /\ Cardinality(Copies(m)) \in Nat
      BY FS_CardinalityType DEF SpareCopiesExplained, Few
    <3>2. Moving(m)' = Moving(m) /\ spare'[m] = spare[m]
      BY <1>1 DEF Moving
    <3>3. CASE m = e.mid
      <4> DEFINE rest == Copies(m) \ {<<a, e>>}
      <4>1. ASSUME NEW c \in Boxes, NEW d \in Entries
            PROVE  d \in mail'[c] <=> (d \in mail[c] /\ ~(c = a /\ d = e)) \/ (c = b /\ d = new)
        BY <1>2, <1>3
      <4>2. ASSUME NEW x \in Boxes \X Entries
            PROVE  x \in Copies(m)' <=> (x \in Copies(m) /\ x # <<a, e>>) \/ x = <<b, new>>
        BY <1>4, <3>3, <4>1 DEF Copies
      <4>3. <<a, e>> \in Copies(m) /\ <<b, new>> \in Boxes \X Entries /\ <<b, new>> \notin Copies(m)
        BY <1>2, <1>4, <3>3 DEF Copies
      <4>4. Copies(m) \subseteq Boxes \X Entries /\ Copies(m)' \subseteq Boxes \X Entries
        BY DEF Copies
      <4>5. Copies(m)' = rest \cup {<<b, new>>} /\ <<b, new>> \notin rest
        BY <4>2, <4>3, <4>4
      <4>6. IsFiniteSet(rest) /\ Cardinality(rest) = Cardinality(Copies(m)) - 1
        BY <3>1, <4>3, FS_RemoveElement
      <4> HIDE DEF rest
      <4>7. IsFiniteSet(Copies(m)') /\ Cardinality(Copies(m)') = Cardinality(rest) + 1
        BY <4>5, <4>6, FS_AddElement
      <4> QED
        BY <3>1, <3>2, <4>6, <4>7
    <3>4. CASE m # e.mid
      <4>1. Copies(m)' = Copies(m)
        <5>1. ASSUME NEW c \in Boxes, NEW d \in Entries, d.mid = m
              PROVE  d \in mail'[c] <=> d \in mail[c]
          BY <1>2, <1>3, <1>4, <3>4, <5>1
        <5> QED
          BY <5>1 DEF Copies
      <4> QED
        BY <3>1, <3>2, <4>1
    <3> QED
      BY <3>3, <3>4
  <2> QED
    BY <2>1 DEF Few, SpareCopiesExplained
<1>9. SomeSpared'
  <2>1. ASSUME NEW m \in Mids, m \notin asked \cup swept
        PROVE  \E n \in Listed, d \in Entries :
                  /\ d \in mail'[named[n]] /\ d.mid = m /\ d.uid \notin flagged'[named[n]]
                  /\ \A u \in Threads : ~(Mover(u) /\ at[u] = named[n] /\ uid[u] = d.uid)
    <3>1. PICK n \in Listed, d \in Entries : Spared(m, n, d)
      BY <2>1 DEF SomeSpared
    <3>2. /\ d \in mail[named[n]] /\ d.mid = m /\ named[n] \in Boxes /\ d.uid \notin flagged[named[n]]
          /\ \A u \in Threads : ~(Mover(u) /\ at[u] = named[n] /\ uid[u] = d.uid)
      BY <3>1, ListedFacts DEF Spared
    <3>3. CASE named[n] = a /\ d = e
      <4>1. \A u \in Threads : ~(Mover(u) /\ at[u] = b /\ uid[u] = uidNext[b])
        BY MoverFacts
      <4>2. new \in mail'[b] /\ new.uid \notin flagged'[b]
        BY <1>3, <1>4, <1>10, <3>2, <3>3
      <4> QED
        BY <1>4, <3>2, <3>3, <4>1, <4>2
    <3>4. CASE ~(named[n] = a /\ d = e)
      <4>1. d \in mail'[named[n]] /\ d.uid \notin flagged'[named[n]]
        BY <1>2, <1>3, <1>4, <1>10, <3>2, <3>4
      <4> QED
        BY <3>2, <4>1
    <3> QED
      BY <3>3, <3>4
  <2> QED
    <3>1. UNCHANGED <<pc, op, at, uid, asked, swept, named>>
      BY <1>1
    <3>2. \A u \in Threads : Mover(u)' = Mover(u)
      BY <3>1 DEF Mover
    <3> QED
      BY <1>6, <2>1, <3>1, <3>2 DEF SomeSpared, Spared
<1> QED
  BY <1>4, <1>5, <1>6, <1>7, <1>8, <1>9

-----------------------------------------------------------------------------
(* The whole specification.                                                *)

LEMMA InitialKeeps == Init => IInv
<1> SUFFICES ASSUME Init PROVE IInv
  OBVIOUS
<1> DEFINE D == DOMAIN InitialMail
           Box(n) == <<n, 1>>
           Entry(n, i) == [uid |-> i, mid |-> InitialMail[n][i]]
<1>1. /\ overrides = NoDocument /\ hints = NoDocument /\ draft = [t \in Threads |-> NoDocument]
      /\ pc = [t \in Threads |-> "idle"]
      /\ op = [t \in Threads |-> None] /\ mid = [t \in Threads |-> None]
      /\ dest = [t \in Threads |-> None]
      /\ src = [t \in Threads |-> None] /\ dst = [t \in Threads |-> None]
      /\ force = [t \in Threads |-> FALSE] /\ rejects \in BOOLEAN
      /\ seen = [t \in Threads |-> {}] /\ todo = [t \in Threads |-> {}]
      /\ at = [t \in Threads |-> None]
      /\ uid = [t \in Threads |-> 0] /\ doomed = [t \in Threads |-> {}]
      /\ requests = 0 /\ troubles = 0
      /\ copied = [t \in Threads |-> None] /\ aim = [t \in Threads |-> NoAim]
      /\ asked = {} /\ swept = {} /\ spare = [m \in Mids |-> 0] /\ quiet = FALSE
  BY DEF Init, HintsInit
<1>2. /\ named = [n \in Names |-> IF n \in D THEN Box(n) ELSE None]
      /\ made = [n \in Names |-> IF n \in D THEN 1 ELSE 0]
      /\ mail = [b \in Boxes |-> IF There(b) THEN {Entry(b[1], i) : i \in 1..Len(InitialMail[b[1]])}
                                 ELSE {}]
      /\ uidNext = [b \in Boxes |-> IF There(b) THEN Len(InitialMail[b[1]]) + 1 ELSE 1]
      /\ flagged = [b \in Boxes |-> {}]
  BY DEF Init
<1>3. /\ D \subseteq Names /\ \A n \in D : Box(n) \in Boxes /\ Box(n)[1] = n /\ Box(n)[2] = 1
      /\ MaxMade \in Nat \ {0} /\ MaxUid \in Nat
      /\ \A n \in D : InitialMail[n] \in Seq(Mids) /\ Len(InitialMail[n]) \in 0..MaxUid
  <2>1. MaxMade \in Nat \ {0} /\ MaxUid \in Nat
    BY FoldersAssumption
  <2>2. D \subseteq Names
    BY MailAssumption
  <2>3. \A n \in D : InitialMail[n] \in Seq(Mids) /\ Len(InitialMail[n]) \in 0..MaxUid
    BY <2>1, MailAssumption, LenProperties
  <2> QED
    BY <2>1, <2>2, <2>3 DEF Boxes
<1>4. \A n \in D, i \in Uids : i <= Len(InitialMail[n]) =>
          InitialMail[n][i] \in Mids /\ Entry(n, i) \in Entries
  BY <1>3, ElementOfSeq DEF Uids, Entries
<1>5. HintTypes
  BY <1>1 DEF HintTypes, NoDocument, Documents
<1>6. ThreadTypes
  <2>1. NoAim \in [box : Boxes \cup {None}, mid : Mids \cup {None}]
    BY DEF NoAim
  <2>2. 0 \in 0..MaxUid
    BY <1>3
  <2> QED
    BY <1>1, <2>1, <2>2 DEF ThreadTypes, Labels
<1>7. HistoryTypes
  <2>1. MaxRequests \in Nat /\ MaxTroubles \in Nat
    BY FoldersAssumption
  <2>2. 0 \in 0..MaxRequests /\ 0 \in 0..MaxTroubles
    BY <2>1
  <2>3. spare \in [Mids -> Nat]
    BY <1>1
  <2> QED
    BY <1>1, <2>2, <2>3 DEF HistoryTypes
<1> HIDE DEF D, Box
<1>8. ASSUME NEW b \in Boxes
      PROVE  /\ uidNext[b] \in 1..MaxUid + 1 /\ mail[b] \subseteq Entries
             /\ \A e \in mail[b] : e.uid < uidNext[b] /\ \A d \in mail[b] : d.uid = e.uid => d = e
             /\ \A e \in Entries : e \in mail[b] <=>
                   There(b) /\ e.uid <= Len(InitialMail[b[1]]) /\ e.mid = InitialMail[b[1]][e.uid]
  <2>1. CASE There(b)
    <3> DEFINE n == b[1]
               k == Len(InitialMail[n])
    <3>1. n \in D /\ k \in 0..MaxUid
      BY <1>3, <2>1 DEF There, D
    <3>2. mail[b] = {Entry(n, i) : i \in 1..k} /\ uidNext[b] = k + 1
      BY <1>2, <2>1
    <3>3. \A i \in 1..k : i \in Uids /\ i <= k
      BY <1>3, <3>1 DEF Uids
    <3>4. \A i \in 1..k : Entry(n, i) \in Entries
      BY <1>4, <3>1, <3>3
    <3>5. \A e \in Entries : e = [uid |-> e.uid, mid |-> e.mid] /\ e.uid \in Uids
      BY DEF Entries
    <3>6. ASSUME NEW e \in Entries
          PROVE  e \in mail[b] <=> e.uid <= k /\ e.mid = InitialMail[n][e.uid]
      <4>1. e.uid <= k => e.uid \in 1..k
        BY <1>3, <3>1, <3>5 DEF Uids
      <4>2. e.uid <= k /\ e.mid = InitialMail[n][e.uid] => e = Entry(n, e.uid)
        BY <3>5
      <4> QED
        BY <3>1, <3>2, <4>1, <4>2
    <3>7. uidNext[b] \in 1..MaxUid + 1
      BY <1>3, <3>1, <3>2
    <3>8. \A e \in mail[b] : e.uid \in 1..k /\ e = Entry(n, e.uid)
      BY <3>2
    <3>9. \A e \in mail[b] : e.uid < uidNext[b] /\ \A d \in mail[b] : d.uid = e.uid => d = e
      BY <3>1, <3>2, <3>8
    <3> QED
      BY <2>1, <3>2, <3>4, <3>6, <3>7, <3>9
  <2>2. CASE ~There(b)
    BY <1>2, <1>3, <2>2
  <2> QED
    BY <2>1, <2>2
<1>9. ServerTypes
  <2>1. /\ mail \in [Boxes -> SUBSET Entries] /\ uidNext \in [Boxes -> 1..MaxUid + 1]
        /\ flagged \in [Boxes -> SUBSET Uids]
    BY <1>2, <1>8
  <2>2. named \in [Names -> Boxes \cup {None}] /\ made \in [Names -> 0..MaxMade]
    BY <1>2, <1>3
  <2> QED
    BY <1>1, <2>1, <2>2 DEF ServerTypes
<1>10. Listed = D /\ \A n \in D : named[n] = Box(n) /\ made[n] = 1
  BY <1>2, <1>3, FoldersAssumption DEF Listed
<1>11. Rooted
  BY <1>10, MailAssumption DEF Rooted, D
<1>12. Numbered
  BY <1>2, <1>8 DEF Numbered
<1>13. Apart
  BY <1>3, <1>10 DEF Apart
<1>14. \A t \in Threads : /\ pc[t] = "idle" /\ op[t] = None /\ mid[t] = None /\ copied[t] = None
                          /\ aim[t].box = None /\ ~Mover(t)
  BY <1>1 DEF NoAim, Mover
\* Every message is in one mailbox.
<1>15. ASSUME NEW m \in Mids
       PROVE  \E n \in D, e \in Entries : /\ e \in mail[named[n]] /\ e.mid = m
                                          /\ Copies(m) = {<<named[n], e>>}
  <2>1. PICK n \in D, i \in Uids :
           /\ i <= Len(InitialMail[n]) /\ InitialMail[n][i] = m
           /\ \A k \in D, j \in Uids : j <= Len(InitialMail[k]) /\ InitialMail[k][j] = m => k = n /\ j = i
    BY MailAssumption DEF D
  <2> DEFINE e == [uid |-> i, mid |-> m]
  <2>2. e \in Entries /\ e.uid = i /\ e.mid = m
    BY DEF Entries
  <2>3. Box(n) \in Boxes /\ There(Box(n)) /\ named[n] = Box(n) /\ Box(n)[1] = n
    BY <1>3, <1>10 DEF There, D
  <2>4. e \in mail[Box(n)]
    BY <1>8, <2>1, <2>2, <2>3
  <2>5. ASSUME NEW b \in Boxes, NEW d \in mail[b], d.mid = m PROVE b = Box(n) /\ d = e
    <3>1. d \in Entries /\ There(b) /\ d.uid <= Len(InitialMail[b[1]]) /\ m = InitialMail[b[1]][d.uid]
      BY <1>8, <2>5
    <3>2. b[1] \in D /\ b[2] = 1 /\ d.uid \in Uids /\ d = [uid |-> d.uid, mid |-> d.mid]
      BY <3>1 DEF There, D, Entries
    <3>3. b[1] = n /\ d.uid = i
      BY <2>1, <3>1, <3>2
    <3>4. b = <<b[1], b[2]>>
      BY DEF Boxes
    <3> QED
      BY <2>5, <3>2, <3>3, <3>4 DEF Box
  <2> HIDE DEF e
  <2>6. Copies(m) = {<<Box(n), e>>}
    <3>1. <<Box(n), e>> \in Copies(m)
      BY <2>2, <2>3, <2>4 DEF Copies
    <3>2. ASSUME NEW x \in Copies(m) PROVE x = <<Box(n), e>>
      <4>1. x \in Boxes \X Entries /\ x[2] \in mail[x[1]] /\ x[2].mid = m
        BY DEF Copies
      <4>2. x[1] \in Boxes /\ x = <<x[1], x[2]>>
        BY <4>1
      <4> QED
        BY <2>5, <4>1, <4>2
    <3> QED
      BY <3>1, <3>2
  <2> QED
    BY <2>2, <2>3, <2>4, <2>6
<1>16. SomeSpared
  <2>1. \A n \in D : flagged[named[n]] = {}
    BY <1>2, <1>3, <1>10
  <2> QED
    BY <1>10, <1>14, <1>15, <2>1 DEF SomeSpared, Spared
<1>17. Few /\ SpareCopiesExplained
  <2>1. ASSUME NEW m \in Mids
        PROVE  IsFiniteSet(Copies(m)) /\ Cardinality(Copies(m)) <= 1 + Cardinality(Moving(m)) + spare[m]
    <3>1. IsFiniteSet(Copies(m)) /\ Cardinality(Copies(m)) = 1
      BY <1>15, FS_Singleton
    <3>2. Cardinality(Moving(m)) \in Nat /\ spare[m] = 0
      BY <1>1, MovingFinite, FS_CardinalityType
    <3> QED
      BY <3>1, <3>2
  <2> QED
    BY <2>1 DEF Few, SpareCopiesExplained
<1>18. Refused /\ Sweeping
  BY <1>1 DEF Refused, Sweeping
<1>19. \A t \in Threads : Remembers(t) /\ Placed(t) /\ Asked(t)
  BY <1>14, FoldersAssumption DEF Remembers, Placed, Asked, MessageOps, Requests
<1> QED
  BY <1>5, <1>6, <1>7, <1>9, <1>11, <1>12, <1>13, <1>16, <1>17, <1>18, <1>19 DEF IInv, TypeOK, Equipped

LEMMA StepKeeps == IInv /\ [Next]_vars => IInv'
<1> SUFFICES ASSUME IInv, [Next]_vars PROVE IInv'
  OBVIOUS
<1>1. CASE Hinting /\ Untouched
  BY <1>1, HintingKeeps
<1>2. CASE StartCleanup
  BY <1>2, StartCleanupKeeps
<1>3. CASE \E t \in Handlers : Requesting(t)
  BY <1>3, RequestingKeeps
<1>4. ASSUME NEW t \in Threads, MessageStep(t) PROVE IInv'
  <2>1. CASE \E f \in Names : MakeFolder(t, f)
    BY <2>1, MakingKeeps
  <2>2. CASE FlagFails(t)
    BY <2>2, FailingKeeps
  <2>3. CASE \E e \in Entries : Copy(t, e) \/ Flag(t, e)
    BY <2>3, CopyingKeeps, FlaggingKeeps
  <2>4. CASE Expunge(t)
    BY <2>4, ExpungingKeeps
  <2> QED
    BY <1>4, <2>1, <2>2, <2>3, <2>4, LookingKeeps DEF MessageStep
<1>5. ASSUME NEW t \in Threads, FolderStep(t) PROVE IInv'
  BY <1>5, ListingKeeps, PurgingKeeps, DroppingKeeps, RenamingKeeps, SweepingKeeps DEF FolderStep
<1>6. ASSUME NEW t \in Threads, Fail(t) PROVE IInv'
  BY <1>6, FailingKeeps
<1>7. ASSUME NEW f \in Listed, NEW g \in Listed, NEW e \in mail[named[f]], UserMoves(f, e, g) PROVE IInv'
  BY <1>7, UserMovesKeeps
<1>8. CASE UNCHANGED vars
  <2>1. UNCHANGED <<overrides, hints, draft, pc, op, mid, dest, src, dst, force, rejects, named, made, mail,
                    uidNext, flagged, seen, todo, at, uid, doomed, copied, aim, requests, troubles, asked, swept,
                    spare, quiet>>
    BY <1>8 DEF vars, hintVars, routing, server, work, memo, bounds, history
  <2> USE <2>1
  <2>2. TypeOK'
    BY DEF IInv, TypeOK, HintTypes, ThreadTypes, ServerTypes, HistoryTypes, Rooted, Listed
  <2>3. Numbered' /\ Apart' /\ Refused' /\ Few' /\ SpareCopiesExplained'
    BY DEF IInv, Numbered, Apart, Refused, Few, SpareCopiesExplained, Copies, Moving, Listed
  <2>4. SomeSpared'
    <3>1. \A m, n, e : Spared(m, n, e) => Spared(m, n, e)'
      BY DEF Spared, Mover
    <3> QED
      BY <3>1 DEF IInv, SomeSpared, Listed
  <2>5. Sweeping'
    BY DEF IInv, Sweeping, Holding, Archived, Listed
  <2>6. \A t \in Threads : Remembers(t)' /\ Equipped(t)'
    <3>1. \A t \in Threads : Remembers(t)'
      BY DEF IInv, Remembers, Mover, Knows, HasUid
    <3>2. \A t \in Threads : Placed(t)'
      BY DEF IInv, Equipped, Placed
    <3>3. \A t \in Threads : Asked(t)'
      BY DEF IInv, Equipped, Asked
    <3> QED
      BY <3>1, <3>2, <3>3 DEF Equipped
  <2> QED
    BY <2>2, <2>3, <2>4, <2>5, <2>6 DEF IInv
<1> QED
  BY <1>1, <1>2, <1>3, <1>4, <1>5, <1>6, <1>7, <1>8 DEF Next

LEMMA Invariance == Spec => []IInv
BY InitialKeeps, StepKeeps, PTL DEF Spec

\* Every variable has its type, and CREATE, RENAME and DELETE never leave a
\* folder without its parent: what _ensure_folder_hierarchy and the deepest-
\* first deletion are for.
THEOREM TypeCorrect == Spec => []TypeOK
<1>1. IInv => TypeOK
  BY DEF IInv
<1> QED
  BY <1>1, Invariance, PTL

\* No interleaving of moves, renames, deletions, the cleanup, the mail client
\* and failing exchanges loses a message nobody asked to have deleted, but
\* with a folder that was empty when it was counted, on a server that deletes
\* folders that hold mail.
THEOREM NoMessageLost == Spec => []NothingLost
<1>1. IInv => NothingLost
  BY DEF IInv, SomeSpared, Spared, Refused, NothingLost, Present, MidsIn
<1> QED
  BY <1>1, Invariance, PTL

\* A request copies, removes or shows the message it was asked for, whatever
\* was moved, renamed, replaced or deleted since the operator saw it.
THEOREM ActsOnTheNamed == Spec => []ActsOnNamed
<1>1. IInv => ActsOnNamed
  <2> SUFFICES ASSUME IInv, NEW t \in Threads, pc[t] \in {"copy", "remove", "expunge", "fetch"},
                      NEW e \in mail[at[t]], e.uid = uid[t], at[t] = aim[t].box
               PROVE  e.mid = aim[t].mid
    BY DEF ActsOnNamed
  <2>1. at[t] \in Boxes
    BY DEF IInv, Equipped, Placed
  <2>2. Knows(at[t], uid[t], aim[t].mid)
    BY <2>1, FoldersAssumption DEF IInv, Remembers
  <2> QED
    BY <2>2 DEF Knows
<1> QED
  BY <1>1, Invariance, PTL

\* A message is in the archive more often than once only while it is moved,
\* or because moves of it were cut, or overtaken, after their COPY.
THEOREM SparesExplained == Spec => []SpareCopiesExplained
<1>1. IInv => SpareCopiesExplained
  BY DEF IInv
<1> QED
  BY <1>1, Invariance, PTL

\* When nothing disturbed the cleanup, it leaves no folder below the root
\* without mail in it or below it.
THEOREM CleanupLeavesNone == Spec => []CleanupComplete
<1>1. IInv => CleanupComplete
  <2> SUFFICES ASSUME IInv, todo[Cleaner] = {}, quiet, NEW n \in Listed, Below(n, Root)
               PROVE  Holding(n)
    BY DEF CleanupComplete, Holding
  <2>1. n \in Path /\ Root \in Path
    BY NameFacts DEF Listed
  <2>2. n \in Archived \ {Root}
    BY <2>1, PathFacts DEF Archived
  <2> QED
    BY <2>2 DEF IInv, Sweeping
<1> QED
  BY <1>1, Invariance, PTL
=============================================================================
