-------------------------- MODULE ConfigStoreProofs --------------------------
(* Types, passwords and the version history, for any accounts, any number  *)
(* of requests that cross, and any bounds.                                 *)
EXTENDS ConfigStore, SequenceTheorems, TLAPS

-----------------------------------------------------------------------------
(* What is well formed: an account holds a password typed for it, or none; *)
(* a list has no account twice; a history is consecutive.                  *)

Mine == {e \in [id : Ids, secret : Secrets \cup {Blank}] :
            e.secret \in Typed(e.id) \cup {Blank}}
Distinct(s) == \A j, k \in DOMAIN s : s[j].id = s[k].id => j = k
OwnLists == {s \in Seq(Mine) : Distinct(s)}
Good == [setting : Settings, accounts : OwnLists]

Wanted == {e \in [id : Ids, secret : Secrets \cup {Blank, Mask}] :
              e.secret \in Typed(e.id) \cup {Blank, Mask}}
Updates == [setting : Settings \cup {None}, accounts : Seq(Wanted) \cup {None}]

Entries == [version : Nat \ {0}, config : Good]
Consecutive(s) == \A k \in 1..Len(s) - 1 : s[k].version = s[k + 1].version + 1
Histories == {s \in Seq(Entries) : Len(s) <= Retention /\ Consecutive(s)}

LEMMA MineWellFormed ==
    /\ \A i \in Ids : \A s \in Typed(i) \cup {Blank} : Account(i, s) \in Mine
    /\ \A i \in Ids : \A s \in Typed(i) \cup {Blank, Mask} : Account(i, s) \in Wanted
    /\ Mine \subseteq Wanted
    /\ \A i \in Ids : <<i, 1>> \in Typed(i)
  BY ConfigAssumption DEF Mine, Wanted, Account, Secrets, Typed

LEMMA GoodLists ==
    /\ <<>> \in OwnLists
    /\ \A i \in Ids : \A s \in Typed(i) \cup {Blank} : <<Account(i, s)>> \in OwnLists
    /\ Empty \in Good
<1>1. <<>> \in OwnLists
  BY DEF OwnLists, Distinct
<1>2. ASSUME NEW e \in Mine PROVE <<e>> \in OwnLists
  BY DEF OwnLists, Distinct
<1> QED BY <1>1, <1>2, MineWellFormed, ConfigAssumption DEF Empty, Config, Good

LEMMA IdsAreIds ==
    ASSUME NEW s \in Seq(Mine)
    PROVE  IdsOf(s) \subseteq Ids
  BY DEF IdsOf, Mine

\* _merge_list keeps a stored password only for the account it belongs to.
LEMMA SecretIsOwn ==
    ASSUME NEW s \in Seq(Mine), NEW i \in Ids
    PROVE  SecretOf(s, i) \in Typed(i) \cup {Blank}
<1>1. CASE i \in IdsOf(s)
  <2>1. PICK k \in DOMAIN s : s[k].id = i
    BY <1>1 DEF IdsOf
  <2>2. \E j \in DOMAIN s : s[j].id = i /\ SecretOf(s, i) = s[j].secret
    BY <1>1, <2>1 DEF SecretOf
  <2> QED BY <2>2 DEF Mine
<1> QED BY <1>1 DEF SecretOf

LEMMA MergedAccounts ==
    ASSUME NEW current \in Seq(Mine), NEW updates \in Seq(Wanted)
    PROVE  /\ MergeAccounts(current, updates) \in Seq(Mine)
           /\ DOMAIN MergeAccounts(current, updates) = DOMAIN updates
           /\ \A k \in DOMAIN updates :
                 MergeAccounts(current, updates)[k].id = updates[k].id
<1> DEFINE merged == MergeAccounts(current, updates)
<1>1. /\ Len(updates) \in Nat /\ DOMAIN updates = 1..Len(updates)
      /\ \A k \in 1..Len(updates) : updates[k] \in Wanted
  BY LenProperties, ElementOfSeq
<1>2. ASSUME NEW k \in 1..Len(updates)
      PROVE  Account(updates[k].id, Chosen(updates[k].secret, SecretOf(current, updates[k].id)))
                \in Mine
  <2>1. updates[k].id \in Ids /\ updates[k].secret \in Typed(updates[k].id) \cup {Blank, Mask}
    BY <1>1 DEF Wanted
  <2> QED BY <2>1, SecretIsOwn, MineWellFormed DEF Chosen
<1>3. merged \in [1..Len(updates) -> Mine]
  BY <1>1, <1>2 DEF MergeAccounts
<1>4. \A k \in DOMAIN updates : merged[k].id = updates[k].id
  BY <1>1 DEF MergeAccounts, Account
<1> HIDE DEF merged
<1>5. merged \in Seq(Mine) /\ DOMAIN merged = DOMAIN updates
  BY <1>1, <1>3, SeqDef
<1> QED BY <1>4, <1>5 DEF merged

\* What the service makes of an update it accepts is well formed ...
LEMMA MergedIsGood ==
    ASSUME NEW current \in Good, NEW updates \in Updates, Valid(Merge(current, updates))
    PROVE  Merge(current, updates) \in Good
<1>1. CASE updates.accounts = None
  BY <1>1 DEF Merge, Config, Good, Updates
<1>2. CASE updates.accounts # None
  <2>1. updates.accounts \in Seq(Wanted) /\ current.accounts \in Seq(Mine)
    BY <1>2 DEF Updates, Good, OwnLists
  <2>2. MergeAccounts(current.accounts, updates.accounts) \in OwnLists
    BY <1>2, <2>1, MergedAccounts DEF OwnLists, Distinct, Valid, Merge, Config
  <2> QED BY <1>2, <2>2 DEF Merge, Config, Good, Updates
<1> QED BY <1>1, <1>2

\* ... and so is what a rollback makes of a snapshot.
LEMMA RolledBackIsGood ==
    ASSUME NEW current \in Good, NEW snapshot \in Good
    PROVE  Merge(current, snapshot) \in Good /\ snapshot \in Updates
<1>1. snapshot.accounts \in Seq(Wanted) /\ current.accounts \in Seq(Mine)
  BY MineWellFormed, SeqMonotonic DEF Good, OwnLists
<1>2. MergeAccounts(current.accounts, snapshot.accounts) \in OwnLists
  BY <1>1, MergedAccounts DEF OwnLists, Distinct, Good
<1>3. Merge(current, snapshot) \in Good
  BY <1>2 DEF Merge, Config, Good
<1> QED BY <1>1, <1>3 DEF Good, Updates

LEMMA StrippedIsGood ==
    ASSUME NEW c \in Good
    PROVE  Strip(c) \in Good
<1> DEFINE s == [k \in DOMAIN c.accounts |-> Account(c.accounts[k].id, Blank)]
<1>1. /\ Len(c.accounts) \in Nat /\ DOMAIN c.accounts = 1..Len(c.accounts)
      /\ \A k \in 1..Len(c.accounts) : c.accounts[k] \in Mine
  BY LenProperties, ElementOfSeq DEF Good, OwnLists
<1>2. s \in [1..Len(c.accounts) -> Mine]
  BY <1>1, MineWellFormed DEF Mine
<1>3. \A k \in DOMAIN c.accounts : s[k].id = c.accounts[k].id
  BY DEF Account
<1>4. DOMAIN s = DOMAIN c.accounts
  OBVIOUS
<1>5. Strip(c) = Config(c.setting, s)
  BY DEF Strip
<1> HIDE DEF s
<1>6. s \in OwnLists
  BY <1>1, <1>2, <1>3, <1>4, SeqDef DEF OwnLists, Distinct, Good
<1> QED BY <1>5, <1>6 DEF Config, Good

\* The others keep their order and their passwords when an account is deleted.
LEMMA OthersInOrder ==
    ASSUME NEW accounts \in OwnLists, NEW i \in IdsOf(accounts)
    PROVE  \E k \in 1..Len(accounts) :
             /\ accounts[k].id = i
             /\ Without(accounts, i) \in Seq(Mine)
             /\ Len(Without(accounts, i)) = Len(accounts) - 1
             /\ \A j \in 1..Len(accounts) - 1 :
                   Without(accounts, i)[j] = accounts[IF j < k THEN j ELSE j + 1]
<1> DEFINE k == CHOOSE j \in DOMAIN accounts : accounts[j].id = i
           front == SubSeq(accounts, 1, k - 1)
           back == SubSeq(accounts, k + 1, Len(accounts))
<1>1. /\ accounts \in Seq(Mine) /\ Len(accounts) \in Nat
      /\ DOMAIN accounts = 1..Len(accounts)
      /\ \A j \in 1..Len(accounts) : accounts[j] \in Mine
  BY LenProperties, ElementOfSeq DEF OwnLists
<1>2. k \in 1..Len(accounts) /\ accounts[k].id = i
  BY <1>1 DEF IdsOf
<1> HIDE DEF k
<1>3. /\ front \in Seq(Mine) /\ Len(front) = k - 1
      /\ \A j \in 1..k - 1 : front[j] = accounts[j]
  <2>1. \A j \in 1..k - 1 : accounts[j] \in Mine
    BY <1>1, <1>2
  <2>2. /\ front \in Seq(Mine)
        /\ Len(front) = IF 1 <= k - 1 THEN k - 1 - 1 + 1 ELSE 0
        /\ \A j \in 1..k - 1 - 1 + 1 : front[j] = accounts[1 + j - 1]
    BY <1>2, <2>1, SubSeqProperties
  <2> QED BY <1>2, <2>2
<1>4. /\ back \in Seq(Mine) /\ Len(back) = Len(accounts) - k
      /\ \A j \in 1..Len(accounts) - k : back[j] = accounts[k + j]
  <2>1. \A j \in k + 1..Len(accounts) : accounts[j] \in Mine
    BY <1>1, <1>2
  <2>2. /\ back \in Seq(Mine)
        /\ Len(back) = IF k + 1 <= Len(accounts) THEN Len(accounts) - (k + 1) + 1 ELSE 0
        /\ \A j \in 1..Len(accounts) - (k + 1) + 1 : back[j] = accounts[k + 1 + j - 1]
    BY <1>1, <1>2, <2>1, SubSeqProperties
  <2>3. ASSUME NEW j \in 1..Len(accounts) - k
        PROVE  back[j] = accounts[k + j]
    <3>1. j \in 1..Len(accounts) - (k + 1) + 1 /\ k + 1 + j - 1 = k + j
      BY <1>1, <1>2
    <3> QED BY <2>2, <3>1
  <2>4. Len(back) = Len(accounts) - k
    <3>1. CASE k + 1 <= Len(accounts)
      <4>1. Len(accounts) - (k + 1) + 1 = Len(accounts) - k
        BY <1>1, <1>2
      <4> QED BY <2>2, <3>1, <4>1
    <3>2. CASE ~(k + 1 <= Len(accounts))
      <4>1. k \in Int /\ Len(accounts) \in Int /\ k <= Len(accounts)
        BY <1>1, <1>2
      <4>2. k = Len(accounts)
        BY <3>2, <4>1
      <4> QED BY <2>2, <3>2, <4>1, <4>2
    <3> QED BY <3>1, <3>2
  <2> QED BY <2>2, <2>3, <2>4
<1> HIDE DEF front, back
<1>5. /\ front \o back \in Seq(Mine)
      /\ Len(front \o back) = Len(accounts) - 1
      /\ \A j \in 1..Len(accounts) - 1 :
            (front \o back)[j] = accounts[IF j < k THEN j ELSE j + 1]
  <2>1. /\ front \o back \in Seq(Mine)
        /\ Len(front \o back) = Len(front) + Len(back)
        /\ \A j \in 1..Len(front) + Len(back) :
              (front \o back)[j] = IF j <= Len(front) THEN front[j]
                                   ELSE back[j - Len(front)]
    BY <1>3, <1>4, ConcatProperties
  <2>2. Len(front) = k - 1 /\ Len(back) = Len(accounts) - k
    BY <1>3, <1>4
  <2>3. ASSUME NEW j \in 1..Len(accounts) - 1
        PROVE  (front \o back)[j] = accounts[IF j < k THEN j ELSE j + 1]
    <3>1. CASE j < k
      <4>1. j \in 1..k - 1 /\ j \in 1..Len(front) + Len(back) /\ j <= Len(front)
        BY <1>1, <1>2, <2>2, <3>1
      <4> QED BY <1>3, <2>1, <3>1, <4>1
    <3>2. CASE ~(j < k)
      <4>1. /\ j - (k - 1) \in 1..Len(accounts) - k
            /\ j \in 1..Len(front) + Len(back) /\ ~(j <= Len(front))
            /\ j - Len(front) = j - (k - 1) /\ k + (j - (k - 1)) = j + 1
        BY <1>1, <1>2, <2>2, <3>2
      <4>2. (front \o back)[j] = back[j - (k - 1)]
        BY <2>1, <4>1
      <4>3. back[j - (k - 1)] = accounts[k + (j - (k - 1))]
        BY <1>4, <4>1
      <4> QED BY <3>2, <4>1, <4>2, <4>3
    <3> QED BY <3>1, <3>2
  <2>4. Len(front) + Len(back) = Len(accounts) - 1
    BY <1>1, <1>2, <2>2
  <2> QED BY <2>1, <2>3, <2>4
<1> QED BY <1>2, <1>5 DEF Without, front, back, k

LEMMA OthersAreGood ==
    ASSUME NEW accounts \in OwnLists, NEW i \in IdsOf(accounts)
    PROVE  Without(accounts, i) \in OwnLists
<1> DEFINE rest == Without(accounts, i)
<1>1. /\ accounts \in Seq(Mine) /\ Len(accounts) \in Nat /\ DOMAIN accounts = 1..Len(accounts)
      /\ Distinct(accounts)
  BY LenProperties DEF OwnLists
<1>2. PICK k \in 1..Len(accounts) :
         /\ rest \in Seq(Mine) /\ Len(rest) = Len(accounts) - 1
         /\ \A j \in 1..Len(accounts) - 1 : rest[j] = accounts[IF j < k THEN j ELSE j + 1]
  BY OthersInOrder
<1> HIDE DEF rest
<1>3. DOMAIN rest = 1..Len(accounts) - 1
  BY <1>2, LenProperties
<1>4. Distinct(rest)
  <2> SUFFICES ASSUME NEW j \in 1..Len(accounts) - 1, NEW l \in 1..Len(accounts) - 1,
                      rest[j].id = rest[l].id
               PROVE  j = l
    BY <1>3 DEF Distinct
  <2> DEFINE a == IF j < k THEN j ELSE j + 1
             b == IF l < k THEN l ELSE l + 1
  <2>1. a \in 1..Len(accounts) /\ b \in 1..Len(accounts)
    BY <1>1, <1>2
  <2>2. accounts[a].id = accounts[b].id
    BY <1>2
  <2>3. a = b
    BY <1>1, <2>1, <2>2 DEF Distinct
  <2> QED BY <1>2, <2>3
<1> QED BY <1>2, <1>4 DEF OwnLists, rest

\* What is found under an id is the one account that has it ...
LEMMA SecretAt ==
    ASSUME NEW accounts \in OwnLists, NEW k \in DOMAIN accounts
    PROVE  /\ accounts[k].id \in IdsOf(accounts)
           /\ SecretOf(accounts, accounts[k].id) = accounts[k].secret
<1>1. Distinct(accounts)
  BY DEF OwnLists
<1> QED BY <1>1 DEF IdsOf, SecretOf, Distinct

\* ... also after another account was deleted ...
LEMMA OthersKept ==
    ASSUME NEW accounts \in OwnLists, NEW i \in IdsOf(accounts),
           NEW x \in IdsOf(accounts) \ {i}
    PROVE  /\ x \in IdsOf(Without(accounts, i))
           /\ SecretOf(Without(accounts, i), x) = SecretOf(accounts, x)
<1> DEFINE rest == Without(accounts, i)
<1>1. rest \in OwnLists
  BY OthersAreGood
<1>2. Len(accounts) \in Nat /\ DOMAIN accounts = 1..Len(accounts)
  BY LenProperties DEF OwnLists
<1>3. PICK k \in 1..Len(accounts) :
         /\ accounts[k].id = i
         /\ rest \in Seq(Mine) /\ Len(rest) = Len(accounts) - 1
         /\ \A j \in 1..Len(accounts) - 1 : rest[j] = accounts[IF j < k THEN j ELSE j + 1]
  BY OthersInOrder
<1> HIDE DEF rest
<1>4. DOMAIN rest = 1..Len(accounts) - 1
  BY <1>3, LenProperties
<1>5. PICK l \in 1..Len(accounts) : accounts[l].id = x
  BY <1>2 DEF IdsOf
<1> DEFINE j == IF l < k THEN l ELSE l - 1
<1>6. j \in 1..Len(accounts) - 1 /\ (IF j < k THEN j ELSE j + 1) = l
  BY <1>2, <1>3, <1>5
<1>7. rest[j] = accounts[l]
  BY <1>3, <1>6
<1> HIDE DEF j
<1> QED BY <1>1, <1>2, <1>4, <1>5, <1>6, <1>7, SecretAt DEF rest

LEMMA OthersOnly ==
    ASSUME NEW accounts \in OwnLists, NEW i \in IdsOf(accounts)
    PROVE  IdsOf(Without(accounts, i)) \subseteq IdsOf(accounts) \ {i}
<1> DEFINE rest == Without(accounts, i)
<1>1. Len(accounts) \in Nat /\ DOMAIN accounts = 1..Len(accounts) /\ Distinct(accounts)
  BY LenProperties DEF OwnLists
<1>2. PICK k \in 1..Len(accounts) :
         /\ accounts[k].id = i
         /\ rest \in Seq(Mine) /\ Len(rest) = Len(accounts) - 1
         /\ \A j \in 1..Len(accounts) - 1 : rest[j] = accounts[IF j < k THEN j ELSE j + 1]
  BY OthersInOrder
<1> HIDE DEF rest
<1>3. DOMAIN rest = 1..Len(accounts) - 1
  BY <1>2, LenProperties
<1>4. ASSUME NEW j \in 1..Len(accounts) - 1
      PROVE  rest[j].id \in IdsOf(accounts) \ {i}
  <2> DEFINE l == IF j < k THEN j ELSE j + 1
  <2>1. l \in 1..Len(accounts) /\ l # k
    BY <1>1
  <2>2. rest[j] = accounts[l]
    BY <1>2
  <2> HIDE DEF l
  <2> QED BY <1>1, <1>2, <2>1, <2>2 DEF IdsOf, Distinct
<1> QED BY <1>3, <1>4 DEF IdsOf, rest

\* ... or added.
LEMMA AddedIsGood ==
    ASSUME NEW accounts \in OwnLists, NEW i \in Ids \ IdsOf(accounts), NEW s \in Typed(i) \cup {Blank}
    PROVE  LET all == Append(accounts, Account(i, s)) IN
           /\ all \in OwnLists
           /\ i \in IdsOf(all) /\ SecretOf(all, i) = s
           /\ \A x \in IdsOf(accounts) : x \in IdsOf(all) /\ SecretOf(all, x) = SecretOf(accounts, x)
           /\ IdsOf(all) = IdsOf(accounts) \cup {i}
<1> DEFINE new == Account(i, s)
           all == Append(accounts, new)
           n == Len(accounts)
<1>1. /\ accounts \in Seq(Mine) /\ Distinct(accounts) /\ n \in Nat /\ DOMAIN accounts = 1..n
      /\ new \in Mine /\ new.id = i /\ new.secret = s
  BY MineWellFormed, LenProperties DEF OwnLists, Account
<1>2. /\ all \in Seq(Mine) /\ DOMAIN all = 1..n + 1
      /\ \A k \in 1..n : all[k] = accounts[k]
      /\ all[n + 1] = new
  BY <1>1, AppendProperties, LenProperties
<1>3. \A k \in 1..n : accounts[k].id # i
  BY <1>1 DEF IdsOf
<1>4. \A l \in 1..n + 1 : l \in 1..n \/ l = n + 1
  BY <1>1
<1> HIDE DEF all, new, n
<1>5. Distinct(all)
  <2> SUFFICES ASSUME NEW j \in 1..n + 1, NEW k \in 1..n + 1, all[j].id = all[k].id
               PROVE  j = k
    BY <1>2 DEF Distinct
  <2>1. CASE j \in 1..n /\ k \in 1..n
    BY <1>1, <1>2, <2>1 DEF Distinct
  <2> QED BY <1>1, <1>2, <1>3, <1>4, <2>1
<1>6. all \in OwnLists
  BY <1>2, <1>5 DEF OwnLists
<1>7. i \in IdsOf(all) /\ SecretOf(all, i) = s
  BY <1>1, <1>2, <1>6, SecretAt
<1>8. ASSUME NEW x \in IdsOf(accounts)
      PROVE  x \in IdsOf(all) /\ SecretOf(all, x) = SecretOf(accounts, x)
  <2>1. PICK k \in 1..n : accounts[k].id = x
    BY <1>1 DEF IdsOf
  <2>2. k \in DOMAIN all /\ all[k] = accounts[k] /\ k \in DOMAIN accounts
    BY <1>1, <1>2
  <2> QED BY <1>6, <2>1, <2>2, SecretAt
<1>9. IdsOf(all) \subseteq IdsOf(accounts) \cup {i}
  BY <1>1, <1>2, <1>4 DEF IdsOf
<1> QED BY <1>6, <1>7, <1>8, <1>9 DEF all, new

\* ConfigVersionStore.record puts the next version in front of what it read and
\* drops the oldest.
LEMMA RecordedIsHistory ==
    ASSUME NEW entries \in Histories, NEW c \in Good
    PROVE  Capped(<<Entry(entries, c)>> \o entries) \in Histories
<1> DEFINE e == Entry(entries, c)
           all == <<e>> \o entries
           n == IF Len(all) < Retention THEN Len(all) ELSE Retention
<1> USE ConfigAssumption
<1>1. /\ entries \in Seq(Entries) /\ Len(entries) \in Nat
      /\ Consecutive(entries) /\ Len(entries) <= Retention
      /\ \A k \in 1..Len(entries) : entries[k] \in Entries
  BY LenProperties, ElementOfSeq DEF Histories
<1>2. /\ e \in Entries
      /\ entries # <<>> => e.version = entries[1].version + 1
  <2>1. CASE entries = <<>>
    BY <2>1, StrippedIsGood DEF Entry, Entries
  <2>2. CASE entries # <<>>
    <3>1. Head(entries) = entries[1] /\ entries[1] \in Entries
      BY <1>1, <2>2
    <3> QED BY <2>2, <3>1, StrippedIsGood DEF Entry, Entries
  <2> QED BY <2>1, <2>2
<1> HIDE DEF e
<1>3. /\ all \in Seq(Entries) /\ Len(all) = Len(entries) + 1
      /\ all[1] = e
      /\ \A k \in 2..Len(all) : all[k] = entries[k - 1]
  <2>1. <<e>> \in Seq(Entries) /\ Len(<<e>>) = 1 /\ <<e>>[1] = e
    BY <1>2
  <2>2. /\ all \in Seq(Entries)
        /\ Len(all) = Len(<<e>>) + Len(entries)
        /\ \A k \in 1..Len(<<e>>) + Len(entries) :
              all[k] = IF k <= Len(<<e>>) THEN <<e>>[k] ELSE entries[k - Len(<<e>>)]
    BY <1>1, <2>1, ConcatProperties
  <2> QED BY <1>1, <2>1, <2>2
<1> HIDE DEF all
<1>4. Consecutive(all)
  <2> SUFFICES ASSUME NEW k \in 1..Len(all) - 1
               PROVE  all[k].version = all[k + 1].version + 1
    BY DEF Consecutive
  <2>1. CASE k = 1
    BY <1>1, <1>2, <1>3, <2>1
  <2>2. CASE k # 1
    <3>1. /\ k \in 2..Len(all) /\ k + 1 \in 2..Len(all)
          /\ k - 1 \in 1..Len(entries) - 1 /\ (k - 1) + 1 = (k + 1) - 1
      BY <1>1, <1>3, <2>2
    <3>2. all[k] = entries[k - 1] /\ all[k + 1] = entries[(k - 1) + 1]
      BY <1>3, <3>1
    <3>3. entries[k - 1].version = entries[(k - 1) + 1].version + 1
      BY <1>1, <3>1 DEF Consecutive
    <3> QED BY <3>2, <3>3
  <2> QED BY <2>1, <2>2
<1>5. n \in Nat /\ n <= Retention /\ n <= Len(all)
  BY <1>1, <1>3
<1> HIDE DEF n
<1>6. /\ SubSeq(all, 1, n) \in Seq(Entries)
      /\ Len(SubSeq(all, 1, n)) = n
      /\ \A k \in 1..n : SubSeq(all, 1, n)[k] = all[k]
  <2>1. \A k \in 1..n : all[k] \in Entries
    BY <1>1, <1>3, <1>5, ElementOfSeq
  <2>2. /\ SubSeq(all, 1, n) \in Seq(Entries)
        /\ Len(SubSeq(all, 1, n)) = IF 1 <= n THEN n - 1 + 1 ELSE 0
        /\ \A k \in 1..n - 1 + 1 : SubSeq(all, 1, n)[k] = all[1 + k - 1]
    BY <1>5, <2>1, SubSeqProperties
  <2> QED BY <1>5, <2>2
<1>7. Consecutive(SubSeq(all, 1, n))
  BY <1>1, <1>3, <1>4, <1>5, <1>6 DEF Consecutive
<1> QED BY <1>5, <1>6, <1>7 DEF Capped, Histories, n, all, e

-----------------------------------------------------------------------------
(* The inductive invariant: everything on disk is well formed, and so is   *)
(* everything a request under way holds; a request that is to write the    *)
(* store of a new account holds that account, one that is to write the     *)
(* stores of the accounts holds at least one.                              *)

FileGood == file \in [ok : BOOLEAN, setting : Settings, accounts : OwnLists]

StoresGood ==
    /\ stores \in [Dirs -> [Ids -> Secrets \cup {Blank, None}]]
    /\ \A d \in Dirs, i \in Ids : stores[d][i] \in Typed(i) \cup {Blank, None}

HeldGood ==
    /\ pc \in [Writers -> Places] /\ op \in [Writers -> Ops \cup {None}]
    /\ asked \in [Writers -> Updates]
    /\ before \in [Writers -> Good] /\ after \in [Writers -> Good]
    /\ log \in [Writers -> Histories]
    /\ left \in [Writers -> Seq(Mine)]

Adding ==
    \A w \in Writers : pc[w] \in {"add", "store"} =>
        \E i \in Ids : \E s \in Typed(i) : asked[w].accounts = <<Account(i, s)>>

Mirroring == \A w \in Writers : pc[w] = "mirror" => left[w] # <<>>

LocalsGood == HeldGood /\ Adding /\ Mirroring

WellFormed ==
    /\ FileGood
    /\ history \in Histories /\ tmp \in Histories \cup {None}
    /\ StoresGood
    /\ served \subseteq Ids
    /\ LocalsGood

LEMMA NothingIsGood ==
    /\ Config(None, None) \in Updates
    /\ Empty \in Good
    /\ <<>> \in Histories /\ <<>> \in Seq(Mine)
  BY GoodLists, ConfigAssumption
  DEF Config, Updates, Histories, Consecutive

LEMMA LoadIsGood ==
    ASSUME FileGood
    PROVE  Load \in Good /\ Stored \in Good
  BY GoodLists DEF FileGood, Load, Stored, Config, Good

LEMMA SubmittedAreUpdates == Submitted \subseteq Updates
<1> DEFINE entry == {Account(i, s) : i \in Ids, s \in Secrets \cup {Mask}}
           own == {e \in entry : e.secret = Mask \/ e.secret \in Typed(e.id)}
<1>1. own \subseteq Wanted
  BY DEF Account, Wanted
<1> HIDE DEF own
<1>2. ASSUME NEW n \in 1..MaxListed, NEW a \in [1..n -> own]
      PROVE  a \in Seq(Wanted)
  <2>1. n \in Nat /\ a \in [1..n -> Wanted]
    BY <1>1, <1>2
  <2> QED BY <2>1, SeqDef
<1>3. ASSUME NEW setting \in Settings \cup {None},
             NEW a \in {None} \cup UNION {[1..n -> own] : n \in 1..MaxListed}
      PROVE  Config(setting, a) \in Updates
  BY <1>2 DEF Config, Updates
<1> QED BY <1>3 DEF Submitted, own, entry

LEMMA BeginKeeps ==
    ASSUME WellFormed, NEW w \in Writers, NEW kind, NEW updates \in Updates,
           NEW current \in Good, NEW next \in Good, NEW place \in Places \ {"mirror", "store"},
           place = "add" => \E i \in Ids : \E s \in Typed(i) :
                               updates.accounts = <<Account(i, s)>>,
           Begin(w, kind, updates, current, next, place)
    PROVE  WellFormed'
<1> USE DEF Begin, disk, logFiles, WellFormed, LocalsGood
<1>1. /\ FileGood' /\ StoresGood' /\ (served \subseteq Ids)'
      /\ (history \in Histories)' /\ (tmp \in Histories \cup {None})'
  BY DEF FileGood, StoresGood
<1>2. HeldGood'
  BY DEF HeldGood
<1>3. Adding'
  BY DEF Adding, HeldGood
<1>4. Mirroring'
  BY DEF Mirroring, HeldGood
<1> QED BY <1>1, <1>2, <1>3, <1>4

LEMMA DoneKeeps ==
    ASSUME LocalsGood, NEW w \in Writers, Done(w)
    PROVE  LocalsGood'
<1> USE DEF Done, LocalsGood
<1>1. HeldGood'
  BY NothingIsGood DEF HeldGood, Places
<1>2. Adding'
  BY DEF Adding, HeldGood
<1>3. Mirroring'
  BY DEF Mirroring, HeldGood
<1> QED BY <1>1, <1>2, <1>3

LEMMA GoToKeeps ==
    ASSUME LocalsGood, NEW w \in Writers, NEW place \in Places, GoTo(w, place),
           log' \in [Writers -> Histories], left' \in [Writers -> Seq(Mine)],
           \A v \in Writers \ {w} : left'[v] = left[v],
           place = "mirror" => left'[w] # <<>>,
           place # "add", place = "store" => pc[w] = "add"
    PROVE  LocalsGood'
<1> USE DEF GoTo, LocalsGood
<1>1. HeldGood'
  BY DEF HeldGood
<1>2. Adding'
  BY DEF Adding, HeldGood
<1>3. Mirroring'
  BY DEF Mirroring, HeldGood
<1> QED BY <1>1, <1>2, <1>3

-----------------------------------------------------------------------------
(* The requests begin with what is on disk.                                *)

LEMMA RequestKeeps ==
    ASSUME WellFormed, NEW w \in Writers, Request(w)
    PROVE  WellFormed'
<1>0. FileGood /\ history \in Histories
  BY DEF WellFormed
<1>a. /\ {"seed", "add", "delete"} \subseteq Places \ {"mirror", "store"}
      /\ "seed" # "add" /\ "delete" # "add"
  BY DEF Places
<1>1. ASSUME NEW updates \in Submitted, Put(w, updates)
      PROVE  WellFormed'
  <2>1. Load \in Good /\ updates \in Updates
    BY <1>0, LoadIsGood, SubmittedAreUpdates
  <2>2. Merge(Load, updates) \in Good
    BY <1>1, <2>1, MergedIsGood DEF Put
  <2> QED BY <1>a, <1>1, <2>1, <2>2, BeginKeeps DEF Put
<1>2. ASSUME NEW k \in 1..Retention, Rollback(w, k)
      PROVE  WellFormed'
  <2>1. history[k].config \in Good /\ Load \in Good
    <3>1. history \in Seq(Entries) /\ k \in DOMAIN history
      BY <1>0, <1>2 DEF Rollback, Histories
    <3>2. history[k] \in Entries
      BY <3>1
    <3> QED BY <1>0, <3>2, LoadIsGood DEF Entries
  <2>2. /\ Merge(Load, history[k].config) \in Good
        /\ history[k].config \in Updates
    BY <2>1, RolledBackIsGood
  <2> QED BY <1>a, <1>2, <2>1, <2>2, BeginKeeps DEF Rollback
<1>3. CASE Get(w)
  BY <1>a, <1>0, <1>3, LoadIsGood, NothingIsGood, BeginKeeps DEF Get
<1>4. ASSUME NEW i \in Ids, Delete(w, i)
      PROVE  WellFormed'
  <2>1. Load \in Good /\ Config(None, <<Account(i, Blank)>>) \in Updates
    BY <1>0, LoadIsGood, MineWellFormed DEF Config, Updates
  <2>2. Config(file.setting, Without(file.accounts, i)) \in Good
    BY <1>0, <1>4, OthersAreGood DEF Delete, FileGood, Config, Good
  <2> QED BY <1>a, <1>4, <2>1, <2>2, BeginKeeps DEF Delete
<1>5. ASSUME NEW i \in Ids, NEW secret \in Typed(i), Add(w, i, secret)
      PROVE  WellFormed'
  <2> DEFINE new == Account(i, secret)
             all == Append(Load.accounts, new)
  <2>1. Load \in Good /\ Config(None, <<new>>) \in Updates /\ new \in Mine
    BY <1>0, LoadIsGood, MineWellFormed DEF Config, Updates
  <2>2. all \in OwnLists
    BY <1>5, <2>1, AddedIsGood DEF Add, Good
  <2>3. Config(Load.setting, all) \in Good
    BY <2>1, <2>2 DEF Config, Good
  <2>4. Config(None, <<new>>).accounts = <<new>>
    BY DEF Config
  <2> QED BY <1>a, <1>5, <2>1, <2>3, <2>4, BeginKeeps DEF Add
<1> QED BY <1>1, <1>2, <1>3, <1>4, <1>5 DEF Request

-----------------------------------------------------------------------------
(* The steps of a request.                                                 *)

\* save_accounts: the file is what the request holds, or the request is over.
LEMMA WriteKeeps ==
    ASSUME WellFormed, NEW w \in Writers, NEW next \in {"record", "store", "unpublish"},
           next = "store" => pc[w] = "add",
           Write(w, next)
    PROVE  WellFormed'
<1> USE DEF WellFormed
<1>1. next \in Places /\ next # "mirror" /\ next # "add"
  BY DEF Places
<1>2. CASE /\ file' = [ok |-> TRUE, setting |-> after[w].setting,
                       accounts |-> after[w].accounts]
           /\ GoTo(w, next) /\ UNCHANGED <<log, left, failed>>
  <2>1. FileGood'
    BY <1>2 DEF FileGood, LocalsGood, HeldGood, Good
  <2>2. LocalsGood'
    <3>1. /\ log' \in [Writers -> Histories] /\ left' \in [Writers -> Seq(Mine)]
          /\ \A v \in Writers \ {w} : left'[v] = left[v]
      BY <1>2 DEF LocalsGood, HeldGood
    <3> QED BY <1>1, <1>2, <3>1, GoToKeeps
  <2> QED BY <2>1, <2>2 DEF Write, logFiles, StoresGood
<1>3. CASE Fault("save") /\ Done(w) /\ UNCHANGED file
  BY <1>3, DoneKeeps DEF Write, logFiles, FileGood, StoresGood
<1> QED BY <1>2, <1>3 DEF Write

AfterLog(w) == IF pc[w] = "seeding" THEN "save" ELSE "reload"

\* A step of writing the history: the request goes on writing it, is over, or
\* is through with it.
LEMMA WriteLogEnds ==
    ASSUME NEW w \in Writers, WriteLog(w)
    PROVE  /\ UNCHANGED <<file, stores, served, writes, restarts, edits, crossed>>
           /\ \/ UNCHANGED locals /\ UNCHANGED failed
              \/ Done(w) /\ Fault("log")
              \/ Done(w) /\ UNCHANGED failed /\ fd[w] = "done" /\ (tmp = None \/ op[w] = "get")
              \/ /\ GoTo(w, AfterLog(w)) /\ fd[w] = "done" /\ op[w] # "get"
                 /\ log' = [log EXCEPT ![w] = <<>>]
                 /\ UNCHANGED left /\ UNCHANGED failed
  BY DEF WriteLog, OpenLog, FillLog, ReplaceLog, LogFails, AfterLog

LEMMA PayloadIsHistory ==
    ASSUME LocalsGood, NEW w \in Writers
    PROVE  Payload(w) \in Histories
<1>1. log[w] \in Histories /\ before[w] \in Good /\ after[w] \in Good
  BY DEF LocalsGood, HeldGood
<1> QED BY <1>1, RecordedIsHistory DEF Payload

\* Whatever it leaves behind, in either file, is a history or nothing.
LEMMA LogFilesKept ==
    ASSUME WellFormed, NEW w \in Writers, WriteLog(w)
    PROVE  (history \in Histories)' /\ (tmp \in Histories \cup {None})'
<1>1. /\ history \in Histories /\ tmp \in Histories \cup {None} /\ <<>> \in Histories
      /\ Payload(w) \in Histories
  BY PayloadIsHistory, NothingIsGood DEF WellFormed
<1>2. CASE OpenLog(w)
  BY <1>1, <1>2 DEF OpenLog
<1>3. CASE FillLog(w)
  BY <1>1, <1>3 DEF FillLog, Overwritten
<1>4. CASE ReplaceLog(w)
  BY <1>1, <1>4 DEF ReplaceLog
<1> QED BY <1>2, <1>3, <1>4 DEF WriteLog

LEMMA LogStepsKeep ==
    ASSUME WellFormed, NEW w \in Writers, Seed(w) \/ ReadLog(w) \/ WriteLog(w)
    PROVE  WellFormed'
<1> USE DEF WellFormed
<1>1. /\ log \in [Writers -> Histories] /\ left \in [Writers -> Seq(Mine)]
      /\ before[w] \in Good /\ after[w] \in Good /\ <<>> \in Histories
  BY NothingIsGood DEF LocalsGood, HeldGood
<1>2. \A place \in {"read", "save", "seeding", "recording", "reload"} :
         place \in Places /\ place # "mirror" /\ place # "add" /\ place # "store"
  BY DEF Places
<1>3. CASE Seed(w)
  <2>1. LocalsGood'
    <3>1. CASE Done(w)
      BY <3>1, DoneKeeps
    <3>2. CASE ~Done(w)
      <4> DEFINE place == IF history = <<>> THEN "read" ELSE "save"
      <4>1. GoTo(w, place) /\ UNCHANGED <<log, left>>
        BY <1>3, <3>2 DEF Seed
      <4>2. place \in {"read", "save"}
        OBVIOUS
      <4> HIDE DEF place
      <4> QED BY <1>1, <1>2, <4>1, <4>2, GoToKeeps
    <3> QED BY <3>1, <3>2
  <2> QED BY <1>3, <2>1 DEF Seed, disk, logFiles, FileGood, StoresGood
<1>4. CASE ReadLog(w)
  <2> DEFINE place == IF pc[w] = "read" THEN "seeding" ELSE "recording"
  <2>1. GoTo(w, place) /\ UNCHANGED left /\ log' = [log EXCEPT ![w] = history]
    BY <1>4 DEF ReadLog
  <2>2. place \in {"seeding", "recording"}
    OBVIOUS
  <2> HIDE DEF place
  <2>3. log' \in [Writers -> Histories]
    BY <1>1, <2>1
  <2>4. LocalsGood'
    BY <1>1, <1>2, <2>1, <2>2, <2>3, GoToKeeps
  <2> QED BY <1>4, <2>4 DEF ReadLog, disk, logFiles, FileGood, StoresGood
<1>5. CASE WriteLog(w)
  <2>1. LocalsGood'
    <3>1. CASE Done(w)
      BY <3>1, DoneKeeps
    <3>2. CASE GoTo(w, AfterLog(w)) /\ log' = [log EXCEPT ![w] = <<>>] /\ UNCHANGED left
      <4>1. AfterLog(w) \in {"save", "reload"}
        BY DEF AfterLog
      <4>2. log' \in [Writers -> Histories]
        BY <1>1, <3>2
      <4> QED BY <1>1, <1>2, <3>2, <4>1, <4>2, GoToKeeps
    <3>3. CASE UNCHANGED locals
      BY <3>3 DEF locals, LocalsGood, HeldGood, Adding, Mirroring
    <3> QED BY <1>5, <3>1, <3>2, <3>3, WriteLogEnds
  <2> QED BY <1>5, <2>1, LogFilesKept, WriteLogEnds DEF FileGood, StoresGood
<1> QED BY <1>3, <1>4, <1>5

LEMMA CopyStepsKeep ==
    ASSUME WellFormed, NEW w \in Writers,
           Reload(w) \/ Cache(w) \/ AddCache(w) \/ DeleteCache(w)
    PROVE  WellFormed'
<1> USE DEF WellFormed
<1>1. /\ log \in [Writers -> Histories] /\ left \in [Writers -> Seq(Mine)]
      /\ left[w] \in Seq(Mine) /\ after[w].accounts \in Seq(Mine)
      /\ file.accounts \in Seq(Mine)
  BY DEF LocalsGood, HeldGood, FileGood, Good, OwnLists
<1>2. /\ "cache" \in Places /\ "mirror" \in Places
      /\ "cache" # "mirror" /\ "cache" # "add" /\ "cache" # "store"
      /\ "mirror" # "add" /\ "mirror" # "store"
  BY DEF Places
<1>3. CASE Reload(w)
  <2>1. LocalsGood'
    <3>1. CASE Done(w)
      BY <3>1, DoneKeeps
    <3>2. CASE ~Done(w)
      <4>1. /\ left' = [left EXCEPT ![w] = file.accounts]
            /\ GoTo(w, "cache") /\ UNCHANGED log
        BY <1>3, <3>2 DEF Reload
      <4>2. /\ left' \in [Writers -> Seq(Mine)]
            /\ \A v \in Writers \ {w} : left'[v] = left[v]
        BY <1>1, <4>1
      <4> QED BY <1>1, <1>2, <4>1, <4>2, GoToKeeps
    <3> QED BY <3>1, <3>2
  <2> QED BY <1>3, <2>1 DEF Reload, disk, logFiles, FileGood, StoresGood
<1>4. CASE Cache(w)
  <2>1. LocalsGood'
    <3>1. CASE left[w] = <<>>
      BY <1>4, <3>1, DoneKeeps DEF Cache
    <3>2. CASE left[w] # <<>>
      <4>1. GoTo(w, "mirror") /\ UNCHANGED <<log, left>>
        BY <1>4, <3>2 DEF Cache
      <4> QED BY <1>1, <1>2, <3>2, <4>1, GoToKeeps
    <3> QED BY <3>1, <3>2
  <2>2. (served \subseteq Ids)'
    BY <1>1, <1>4, IdsAreIds DEF Cache
  <2> QED BY <1>4, <2>1, <2>2 DEF Cache, disk, logFiles, FileGood, StoresGood
<1>5. CASE AddCache(w) \/ DeleteCache(w)
  <2>1. LocalsGood'
    BY <1>5, DoneKeeps DEF AddCache, DeleteCache
  <2>2. (served \subseteq Ids)'
    BY <1>1, <1>5, IdsAreIds DEF AddCache, DeleteCache
  <2> QED BY <1>5, <2>1, <2>2 DEF AddCache, DeleteCache, disk, logFiles, FileGood, StoresGood
<1> QED BY <1>3, <1>4, <1>5

\* The stores: each takes the password of its own account.
LEMMA StoreStepsKeep ==
    ASSUME WellFormed, NEW w \in Writers, Mirror(w) \/ AddStore(w)
    PROVE  WellFormed'
<1> USE DEF WellFormed
<1>1. /\ log \in [Writers -> Histories] /\ left \in [Writers -> Seq(Mine)]
      /\ left[w] \in Seq(Mine)
  BY DEF LocalsGood, HeldGood
<1>2. ASSUME NEW d, NEW i \in Ids, NEW s \in Typed(i) \cup {Blank},
             stores' = [stores EXCEPT ![d][i] = s]
      PROVE  StoresGood'
  <2>1. s \in Secrets \cup {Blank}
    BY DEF Secrets
  <2> QED BY <1>2, <2>1 DEF StoresGood
<1>3. ASSUME UNCHANGED stores
      PROVE  StoresGood'
  BY <1>3 DEF StoresGood
<1>4. CASE Mirror(w)
  <2>1. left[w] # <<>>
    BY <1>4 DEF Mirror, LocalsGood, Mirroring
  <2>2. /\ Head(left[w]) \in Mine /\ Tail(left[w]) \in Seq(Mine)
        /\ Len(left[w]) \in Nat \ {0} /\ Len(Tail(left[w])) = Len(left[w]) - 1
    BY <1>1, <2>1
  <2>3. StoresGood'
    <3>1. /\ Head(left[w]).id \in Ids
          /\ Head(left[w]).secret \in Typed(Head(left[w]).id) \cup {Blank}
          /\ Root \in Dirs
      BY <2>2 DEF Mine, Dirs
    <3> QED BY <1>2, <1>3, <1>4, <3>1 DEF Mirror
  <2>4. LocalsGood'
    <3>1. CASE Done(w)
      BY <3>1, DoneKeeps
    <3>2. CASE ~Done(w)
      <4>1. /\ left' = [left EXCEPT ![w] = Tail(@)]
            /\ UNCHANGED <<op, pc, asked, before, after, log>>
            /\ Len(left[w]) # 1
        BY <1>4, <3>2 DEF Mirror
      <4>2. Tail(left[w]) # <<>>
        <5> SUFFICES ASSUME Tail(left[w]) = <<>> PROVE FALSE
          OBVIOUS
        <5>1. Len(left[w]) - 1 = 0
          BY <2>2
        <5> QED BY <2>2, <4>1, <5>1
      <4> USE DEF LocalsGood
      <4>3. HeldGood'
        BY <2>2, <4>1 DEF HeldGood
      <4>4. Adding'
        BY <4>1 DEF Adding
      <4>5. Mirroring'
        BY <1>1, <4>1, <4>2 DEF Mirroring
      <4> QED BY <4>3, <4>4, <4>5
    <3> QED BY <3>1, <3>2
  <2> QED BY <1>4, <2>3, <2>4 DEF Mirror, logFiles, FileGood
<1>5. CASE AddStore(w)
  <2>1. PICK i \in Ids : \E s \in Typed(i) : asked[w].accounts = <<Account(i, s)>>
    BY <1>5 DEF AddStore, LocalsGood, Adding
  <2>0. PICK s \in Typed(i) : asked[w].accounts = <<Account(i, s)>>
    BY <2>1
  <2>2. asked[w].accounts[1].id = i /\ asked[w].accounts[1].secret = s
    BY <2>0 DEF Account
  <2>3. StoresGood'
    BY <1>2, <1>3, <1>5, <2>2 DEF AddStore
  <2>4. LocalsGood'
    <3>1. /\ GoTo(w, "publish") /\ UNCHANGED <<log, left>>
          /\ "publish" \in Places /\ "publish" # "mirror"
          /\ "publish" # "add" /\ "publish" # "store"
      BY <1>5 DEF AddStore, Places
    <3> QED BY <1>1, <3>1, GoToKeeps
  <2> QED BY <1>5, <2>3, <2>4 DEF AddStore, logFiles, FileGood
<1> QED BY <1>4, <1>5

LEMMA StepKeeps ==
    ASSUME WellFormed, NEW w \in Writers, Step(w)
    PROVE  WellFormed'
<1>1. CASE Save(w) \/ AddSave(w) \/ DeleteSave(w)
  BY <1>1, WriteKeeps DEF Save, AddSave, DeleteSave
<1> QED BY <1>1, LogStepsKeep, CopyStepsKeep, StoreStepsKeep DEF Step

-----------------------------------------------------------------------------
\* A restart forgets the requests; the deploy system's own list has at most one
\* account.
LEMMA StartKeeps ==
    ASSUME WellFormed, NEW accounts \in Seq(Mine), Start(accounts)
    PROVE  LocalsGood' /\ (served \subseteq Ids)'
<1> USE DEF Start
<1>1. HeldGood'
  BY NothingIsGood DEF HeldGood, Places
<1>2. Adding' /\ Mirroring'
  BY DEF Adding, Mirroring
<1>3. (served \subseteq Ids)'
  BY IdsAreIds DEF Recovered
<1> QED BY <1>1, <1>2, <1>3 DEF LocalsGood

LEMMA WellFormedInit == Init => WellFormed
<1> SUFFICES ASSUME Init PROVE WellFormed
  OBVIOUS
<1>1. PICK i \in Ids : file = [ok |-> TRUE, setting |-> Default,
                               accounts |-> <<Account(i, <<i, 1>>)>>]
  BY DEF Init
<1>2. <<Account(i, <<i, 1>>)>> \in OwnLists
  BY GoodLists, MineWellFormed
<1>3. FileGood
  BY <1>1, <1>2, ConfigAssumption DEF FileGood
<1>4. served \subseteq Ids
  BY <1>1, <1>2, IdsAreIds DEF Init, OwnLists
<1>5. HeldGood
  BY NothingIsGood DEF Init, HeldGood, Places
<1>6. Adding /\ Mirroring /\ StoresGood
  BY DEF Init, Adding, Mirroring, StoresGood
<1> QED BY <1>3, <1>4, <1>5, <1>6, NothingIsGood DEF Init, WellFormed, LocalsGood

LEMMA WellFormedNext == WellFormed /\ [Next]_vars => WellFormed'
<1> SUFFICES ASSUME WellFormed, [Next]_vars PROVE WellFormed'
  OBVIOUS
<1>1. ASSUME NEW w \in Writers, Request(w) \/ Step(w) PROVE WellFormed'
  BY <1>1, RequestKeeps, StepKeeps
<1>2. CASE Deploy
  <2>1. PICK accounts \in {<<>>} \cup {<<Account(i, <<i, 1>>)>> : i \in Ids} :
           /\ file' = [ok |-> TRUE, setting |-> Default, accounts |-> accounts]
           /\ Start(accounts)
    BY <1>2 DEF Deploy
  <2>2. accounts \in OwnLists
    BY <2>1, GoodLists, MineWellFormed
  <2>3. FileGood'
    BY <2>1, <2>2, ConfigAssumption DEF FileGood
  <2>4. LocalsGood' /\ (served \subseteq Ids)'
    BY <2>1, <2>2, StartKeeps DEF OwnLists
  <2> QED BY <1>2, <2>3, <2>4 DEF Deploy, WellFormed, StoresGood
<1>3. CASE Edit
  BY <1>3 DEF Edit, logFiles, WellFormed, FileGood, StoresGood, locals,
              LocalsGood, HeldGood, Adding, Mirroring
<1>4. CASE Restart
  <2>1. LocalsGood' /\ (served \subseteq Ids)'
    BY <1>4, StartKeeps DEF Restart, WellFormed, FileGood, OwnLists
  <2> QED BY <1>4, <2>1 DEF Restart, disk, logFiles, WellFormed, FileGood, StoresGood
<1>5. CASE UNCHANGED vars
  BY <1>5 DEF vars, disk, logFiles, locals, WellFormed, FileGood, StoresGood,
              LocalsGood, HeldGood, Adding, Mirroring
<1> QED BY <1>1, <1>2, <1>3, <1>4, <1>5 DEF Next

-----------------------------------------------------------------------------
LEMMA GoodIsTyped ==
    /\ OwnLists \subseteq Lists(Secrets \cup {Blank})
    /\ Seq(Mine) \subseteq Lists(Secrets \cup {Blank})
    /\ Good \subseteq Configs
<1>1. Mine \subseteq [id : Ids, secret : Secrets \cup {Blank}]
  BY DEF Mine
<1>2. Seq(Mine) \subseteq Lists(Secrets \cup {Blank})
  BY <1>1, SeqMonotonic DEF Lists
<1> QED BY <1>2 DEF OwnLists, Good, Configs

\* The processes stay where they were started; what counts restarts and edits
\* is a number.
Counted ==
    restarts \in Nat /\ edits \in Nat /\ cwd \in Dirs /\ failed \subseteq FaultKinds

\* A request neither restarts nor edits anything, and what has happened stays
\* on record.
LEMMA NothingForgotten ==
    ASSUME NEW w \in Writers, Request(w) \/ Step(w)
    PROVE  /\ edits' = edits /\ restarts' = restarts
           /\ crossed => crossed'
           /\ failed \subseteq failed'
           /\ failed \subseteq FaultKinds => failed' \subseteq FaultKinds
<1>1. CASE Request(w)
  BY <1>1 DEF Request, Put, Rollback, Get, Add, Delete, Begin
<1>2. CASE Seed(w) \/ ReadLog(w) \/ Reload(w) \/ Cache(w) \/ AddCache(w) \/ DeleteCache(w)
  BY <1>2 DEF Seed, ReadLog, Reload, Cache, AddCache, DeleteCache, bounds
<1>3. CASE Save(w) \/ AddSave(w) \/ DeleteSave(w)
  BY <1>3 DEF Save, AddSave, DeleteSave, Write, Fault
<1>4. CASE WriteLog(w)
  BY <1>4, WriteLogEnds DEF Fault
<1>5. CASE Mirror(w) \/ AddStore(w)
  BY <1>5 DEF Mirror, AddStore, Fault
<1> QED BY <1>1, <1>2, <1>3, <1>4, <1>5 DEF Step

LEMMA CountedInit == Init => Counted
  BY DEF Init, Counted

LEMMA CountedNext == Counted /\ [Next]_vars => Counted'
<1> SUFFICES ASSUME Counted, [Next]_vars PROVE Counted'
  OBVIOUS
<1>1. ASSUME NEW w \in Writers, Request(w) \/ Step(w), cwd' = cwd PROVE Counted'
  BY <1>1, NothingForgotten DEF Counted
<1>2. CASE (Deploy \/ Edit \/ Restart) /\ cwd' = cwd
  BY <1>2 DEF Deploy, Edit, Restart, Counted
<1>3. CASE UNCHANGED vars
  BY <1>3 DEF vars, bounds, Counted
<1> QED BY <1>1, <1>2, <1>3 DEF Next

-----------------------------------------------------------------------------
(* The files of the history: a request that has one open is recording; as  *)
(* long as requests take turns the .tmp file holds what the one that wrote *)
(* it is to publish.                                                       *)

Opened ==
    /\ fd \in [Writers -> {"none", "tmp", "file", "gone", "done"}]
    /\ \A w \in Writers : fd[w] # "none" => Recording(w)

Alone(w) == \A v \in Writers \ {w} : pc[v] = "idle"

Orderly ==
    ~crossed =>
        \A w \in Writers :
            /\ pc[w] # "idle" => Alone(w)
            /\ Recording(w) => log[w] = history
            /\ fd[w] \in {"none", "tmp", "done"}
            /\ fd[w] = "tmp" => tmp = <<>>
            /\ fd[w] = "done" => tmp = Payload(w)

LogFilesGood == Opened /\ Orderly

\* No history is the absent one.
LEMMA NoneIsNoHistory == None \notin Histories
<1> DEFINE E == [version : Nat, config : [setting : Settings,
                    accounts : Seq([id : Ids, secret : Secrets \cup {Blank}])]]
<1>1. Entries \subseteq E
  BY GoodIsTyped DEF Entries, Configs, Lists
<1>2. Seq(Entries) \subseteq Seq(E)
  BY <1>1, SeqMonotonic
<1>3. None \notin Seq(E)
  BY ConfigAssumption
<1> QED BY <1>2, <1>3 DEF Histories

LEMMA OthersStay ==
    ASSUME WellFormed, Opened, NEW w \in Writers, Step(w)
    PROVE  pc[w] # "idle" /\ \A v \in Writers \ {w} : pc'[v] = pc[v]
<1>1. pc \in [Writers -> Places]
  BY DEF WellFormed, LocalsGood, HeldGood
<1>2. CASE WriteLog(w)
  <2>1. Recording(w)
    BY <1>2 DEF WriteLog, OpenLog, FillLog, ReplaceLog, Opened
  <2> QED BY <1>1, <1>2, <2>1, WriteLogEnds DEF Recording, Done, GoTo, locals
<1>3. CASE ~WriteLog(w)
  <2>1. pc[w] # "idle"
    BY <1>3 DEF Step, Seed, ReadLog, Save, AddSave, DeleteSave, Reload, Cache,
                Mirror, AddStore, AddCache, DeleteCache
  <2>2. \A v \in Writers \ {w} : pc'[v] = pc[v]
    BY <1>1, <1>3 DEF Step, Seed, ReadLog, Save, AddSave, DeleteSave, Write, Reload,
                Cache, Mirror, AddStore, AddCache, DeleteCache, Done, GoTo
  <2> QED BY <2>1, <2>2
<1> QED BY <1>2, <1>3

\* Every other step leaves the files of the history alone.
LEMMA LogFilesUntouched ==
    ASSUME WellFormed, NEW w \in Writers, Request(w) \/ (Step(w) /\ ~WriteLog(w))
    PROVE  /\ UNCHANGED logFiles
           /\ ~Recording(w)
           /\ Recording(w)' => log'[w] = history
<1>1. pc \in [Writers -> Places] /\ log \in [Writers -> Histories]
  BY DEF WellFormed, LocalsGood, HeldGood
<1>2. CASE Request(w)
  BY <1>1, <1>2 DEF Request, Put, Rollback, Get, Add, Delete, Begin, disk, logFiles, Recording
<1>3. CASE Seed(w) \/ ReadLog(w)
  BY <1>1, <1>3 DEF Seed, ReadLog, Done, GoTo, disk, logFiles, Recording
<1>4. CASE Save(w) \/ AddSave(w) \/ DeleteSave(w)
  BY <1>1, <1>4 DEF Save, AddSave, DeleteSave, Write, Done, GoTo, logFiles, Recording
<1>5. CASE Reload(w) \/ Cache(w) \/ AddCache(w) \/ DeleteCache(w)
  BY <1>1, <1>5 DEF Reload, Cache, AddCache, DeleteCache, Done, GoTo, disk, logFiles, Recording
<1>6. CASE Mirror(w) \/ AddStore(w)
  BY <1>1, <1>6 DEF Mirror, AddStore, Done, GoTo, logFiles, Recording
<1> QED BY <1>2, <1>3, <1>4, <1>5, <1>6 DEF Step

LEMMA OpenedNext == WellFormed /\ Opened /\ [Next]_vars => Opened'
<1> SUFFICES ASSUME WellFormed, Opened, [Next]_vars PROVE Opened'
  OBVIOUS
<1>1. pc \in [Writers -> Places]
  BY DEF WellFormed, LocalsGood, HeldGood
<1>2. ASSUME NEW w \in Writers, Request(w) \/ (Step(w) /\ ~WriteLog(w)) PROVE Opened'
  <2>1. UNCHANGED fd /\ fd[w] = "none"
    BY <1>2, LogFilesUntouched DEF logFiles, Opened
  <2>2. \A v \in Writers \ {w} : pc'[v] = pc[v]
    <3>1. Request(w) => \A v \in Writers \ {w} : pc'[v] = pc[v]
      BY <1>1 DEF Request, Put, Rollback, Get, Add, Delete, Begin
    <3> QED BY <1>2, <3>1, OthersStay
  <2> QED BY <2>1, <2>2 DEF Opened, Recording
<1>3. ASSUME NEW w \in Writers, WriteLog(w) PROVE Opened'
  <2>1. \A v \in Writers \ {w} : pc'[v] = pc[v]
    BY <1>3, OthersStay DEF Step
  <2>2. CASE OpenLog(w)
    BY <1>1, <2>1, <2>2 DEF OpenLog, LogFails, locals, Opened, Recording
  <2>3. CASE FillLog(w)
    BY <1>1, <2>1, <2>3 DEF FillLog, LogFails, locals, Opened, Recording
  <2>4. CASE ReplaceLog(w)
    BY <1>1, <2>1, <2>4 DEF ReplaceLog, LogFails, Renamed, Opened, Recording
  <2> QED BY <1>3, <2>2, <2>3, <2>4 DEF WriteLog
<1>4. CASE Deploy \/ Restart
  BY <1>4 DEF Deploy, Restart, Start, Opened
<1>5. CASE Edit \/ UNCHANGED vars
  BY <1>5 DEF Edit, vars, disk, logFiles, locals, Opened, Recording
<1> QED BY <1>2, <1>3, <1>4, <1>5 DEF Next

\* Until requests cross, whoever acts is alone.
LEMMA ActsAlone ==
    ASSUME WellFormed, LogFilesGood, ~crossed', NEW w \in Writers, Request(w) \/ Step(w)
    PROVE  ~crossed /\ (InTurn' => InTurn) /\ Alone(w) /\ Alone(w)'
<1>1. ~crossed /\ (InTurn' => InTurn)
  BY NothingForgotten DEF InTurn
<1>2. CASE Request(w)
  <2>1. \A v \in Writers : pc[v] = "idle"
    BY <1>2 DEF Request, Put, Rollback, Get, Add, Delete, Begin
  <2>2. \A v \in Writers \ {w} : pc'[v] = pc[v]
    BY <1>2 DEF Request, Put, Rollback, Get, Add, Delete, Begin,
                WellFormed, LocalsGood, HeldGood
  <2> QED BY <1>1, <2>1, <2>2 DEF Alone
<1>3. CASE Step(w)
  <2>1. pc[w] # "idle" /\ \A v \in Writers \ {w} : pc'[v] = pc[v]
    BY <1>3, OthersStay DEF LogFilesGood
  <2> QED BY <1>1, <2>1 DEF Alone, LogFilesGood, Orderly
<1> QED BY <1>2, <1>3

LEMMA LogFilesNext == WellFormed /\ LogFilesGood /\ [Next]_vars => LogFilesGood'
<1> SUFFICES ASSUME WellFormed, LogFilesGood, [Next]_vars PROVE LogFilesGood'
  OBVIOUS
<1>0. Opened'
  BY OpenedNext DEF LogFilesGood
<1> SUFFICES ASSUME ~crossed' PROVE Orderly'
  BY <1>0 DEF LogFilesGood, Orderly
<1>1. ASSUME NEW w \in Writers, Alone(w)',
             Recording(w)' => log'[w] = history',
             fd'[w] \in {"none", "tmp", "done"}, fd'[w] = "tmp" => tmp' = <<>>,
             fd'[w] = "done" => tmp' = Payload(w)'
      PROVE  Orderly'
  BY <1>0, <1>1 DEF Orderly, Opened, Alone, Recording
<1>2. ASSUME NEW w \in Writers, Request(w) \/ (Step(w) /\ ~WriteLog(w)) PROVE Orderly'
  <2>1. UNCHANGED logFiles /\ ~Recording(w) /\ (Recording(w)' => log'[w] = history)
    BY <1>2, LogFilesUntouched
  <2>2. Alone(w)'
    BY <1>2, ActsAlone
  <2> QED BY <1>1, <2>1, <2>2 DEF logFiles, LogFilesGood, Opened
<1>3. ASSUME NEW w \in Writers, WriteLog(w) PROVE Orderly'
  <2>1. ~crossed /\ Alone(w)'
    BY <1>3, ActsAlone DEF Step
  <2>2. /\ pc \in [Writers -> Places] /\ log \in [Writers -> Histories]
        /\ fd \in [Writers -> {"none", "tmp", "file", "gone", "done"}]
    BY DEF WellFormed, LocalsGood, HeldGood, LogFilesGood, Opened
  <2>3. /\ Recording(w) => log[w] = history
        /\ fd[w] \in {"none", "tmp", "done"}
        /\ fd[w] = "tmp" => tmp = <<>>
        /\ fd[w] = "done" => tmp = Payload(w)
    BY <2>1 DEF LogFilesGood, Orderly
  <2>4. CASE fd'[w] = "none" /\ ~Recording(w)'
    BY <1>1, <2>1, <2>4
  <2>5. Done(w) => ~Recording(w)'
    BY <2>2 DEF Done, Recording
  <2>6. CASE OpenLog(w)
    BY <1>1, <2>1, <2>2, <2>3, <2>4, <2>5, <2>6 DEF OpenLog, LogFails, locals, Recording
  <2>7. CASE FillLog(w)
    <3>1. CASE UNCHANGED locals
      <4>1. Payload(w)' = Payload(w)
        BY <3>1 DEF locals, Payload, Capped, Entry
      <4> QED BY <1>1, <2>1, <2>2, <2>3, <2>4, <2>5, <2>7, <3>1, <4>1
              DEF FillLog, LogFails, Overwritten, locals, Recording
    <3>2. CASE LogFails(w)
      BY <2>2, <2>4, <2>5, <3>2 DEF LogFails
    <3> QED BY <2>7, <3>1, <3>2 DEF FillLog
  <2>8. CASE ReplaceLog(w)
    BY <2>2, <2>4, <2>5, <2>8 DEF ReplaceLog, LogFails, GoTo, Recording
  <2> QED BY <1>3, <2>6, <2>7, <2>8 DEF WriteLog
<1>4. CASE Deploy \/ Restart
  BY <1>4 DEF Deploy, Restart, Start, Orderly, Recording
<1>5. CASE Edit \/ UNCHANGED vars
  <2>1. UNCHANGED <<logFiles, locals, crossed>>
    BY <1>5 DEF Edit, vars, disk, logFiles, locals, bounds
  <2>2. \A w \in Writers : Payload(w)' = Payload(w)
    BY <2>1 DEF locals, Payload, Capped, Entry
  <2> QED BY <2>1, <2>2 DEF LogFilesGood, Orderly, logFiles, locals, Recording, Alone
<1> QED BY <1>2, <1>3, <1>4, <1>5 DEF Next

LEMMA LogFilesInit == Init => LogFilesGood
  BY DEF Init, LogFilesGood, Opened, Orderly, Recording

\* TypeOK: every list has each account once, every version is positive, and
\* every request is at a place of its protocol.
THEOREM TypesHold == Spec => []TypeOK
<1>1. WellFormed /\ Counted /\ LogFilesGood => TypeOK
  <2> SUFFICES ASSUME WellFormed, Counted, LogFilesGood PROVE TypeOK
    OBVIOUS
  <2>1. /\ file.ok \in BOOLEAN /\ Stored \in Configs
        /\ \A j, k \in DOMAIN file.accounts :
              file.accounts[j].id = file.accounts[k].id => j = k
    <3>1. FileGood
      BY DEF WellFormed
    <3>2. Stored \in Configs
      BY <3>1, GoodIsTyped, LoadIsGood
    <3> QED BY <3>1, <3>2 DEF FileGood, OwnLists, Distinct
  <2>2. \A k \in DOMAIN history : history[k].version \in Nat \ {0}
    <3>1. history \in Seq(Entries)
      BY DEF WellFormed, Histories
    <3>2. \A k \in DOMAIN history : history[k] \in Entries
      BY <3>1
    <3> QED BY <3>2 DEF Entries
  <2>3. /\ before \in [Writers -> Configs] /\ after \in [Writers -> Configs]
        /\ left \in [Writers -> Lists(Secrets \cup {Blank})]
    BY GoodIsTyped DEF WellFormed, LocalsGood, HeldGood
  <2> QED BY <2>1, <2>2, <2>3
          DEF TypeOK, WellFormed, StoresGood, LocalsGood, HeldGood, Counted, LogFilesGood, Opened
<1> QED BY <1>1, WellFormedInit, WellFormedNext, CountedInit, CountedNext,
           LogFilesInit, LogFilesNext, PTL DEF Spec

\* A password stays with the account it was typed for, in the file and in the
\* settings stores, and the mask is never stored (_merge_list,
\* _with_real_secrets).
THEOREM SecretsStay == Spec => []SecretsStayWithTheirAccount
<1>1. WellFormed => SecretsStayWithTheirAccount
  <2> SUFFICES ASSUME WellFormed PROVE SecretsStayWithTheirAccount
    OBVIOUS
  <2>1. Own(file.accounts)
    <3>1. file.accounts \in Seq(Mine)
      BY DEF WellFormed, FileGood, OwnLists
    <3>2. \A k \in DOMAIN file.accounts : file.accounts[k] \in Mine
      BY <3>1
    <3> QED BY <3>2 DEF Own, Mine
  <2> QED BY <2>1 DEF SecretsStayWithTheirAccount, WellFormed, StoresGood
<1> QED BY <1>1, WellFormedInit, WellFormedNext, PTL DEF Spec

\* The versions of the history are consecutive and no more than are kept, also
\* when requests write the file over each other (ConfigVersionStore.record).
THEOREM HistoryStaysConsecutive == Spec => []HistoryConsecutive
<1>1. WellFormed => HistoryConsecutive
  BY DEF WellFormed, Histories, Consecutive, HistoryConsecutive
<1> QED BY <1>1, WellFormedInit, WellFormedNext, PTL DEF Spec

\* The newest version comes first, and at least one is kept.
LEMMA NewestFirst ==
    ASSUME NEW entries \in Histories, NEW e
    PROVE  Capped(<<e>> \o entries) # <<>> /\ Head(Capped(<<e>> \o entries)) = e
<1> DEFINE S == Entries \cup {e}
           all == <<e>> \o entries
           n == IF Len(all) < Retention THEN Len(all) ELSE Retention
<1>1. entries \in Seq(S) /\ Len(entries) \in Nat /\ <<e>> \in Seq(S)
  <2>1. Seq(Entries) \subseteq Seq(S)
    BY SeqMonotonic
  <2>2. e \in S
    OBVIOUS
  <2> HIDE DEF S
  <2> QED BY <2>1, <2>2, LenProperties DEF Histories
<1> HIDE DEF S
<1>2. all \in Seq(S) /\ Len(all) = Len(entries) + 1 /\ all[1] = e
  <2>1. Len(<<e>>) = 1 /\ <<e>>[1] = e
    OBVIOUS
  <2> QED BY <1>1, <2>1, ConcatProperties
<1> HIDE DEF all
<1>3. n \in Nat /\ 1 <= n /\ n <= Len(all)
  BY <1>1, <1>2, ConfigAssumption
<1> HIDE DEF n
<1>4. \A k \in 1..n : all[k] \in S
  BY <1>1, <1>2, <1>3, ElementOfSeq
<1>5. /\ SubSeq(all, 1, n) \in Seq(S)
      /\ Len(SubSeq(all, 1, n)) = n - 1 + 1
      /\ \A k \in 1..n - 1 + 1 : SubSeq(all, 1, n)[k] = all[1 + k - 1]
  BY <1>3, <1>4, SubSeqProperties
<1>6. SubSeq(all, 1, n)[1] = e /\ Len(SubSeq(all, 1, n)) >= 1
  BY <1>2, <1>3, <1>5
<1>7. SubSeq(all, 1, n) # <<>> /\ Head(SubSeq(all, 1, n)) = e
  <2>1. PICK kept \in Seq(S) : kept = SubSeq(all, 1, n)
    BY <1>5
  <2>2. kept[1] = e /\ Len(kept) >= 1
    BY <1>6, <2>1
  <2>3. kept # <<>>
    BY <2>2
  <2>4. Head(kept) = e
    BY <2>2, <2>3, HeadTailProperties
  <2> QED BY <2>1, <2>3, <2>4
<1> QED BY <1>7 DEF Capped, n, all

\* As long as requests take turns the history only grows, one version at a
\* time: no fault, no kill and no restart leaves it truncated or takes a
\* version back (ConfigVersionStore._write).
THEOREM HistoryGrows == Spec => HistoryOnlyGrows
<1>1. ASSUME WellFormed, LogFilesGood, [Next]_vars, ~crossed
      PROVE  \/ history' = history
             \/ history' # <<>> /\ history' = Capped(<<Head(history')>> \o history)
  <2> USE <1>1
  <2>1. ASSUME NEW w \in Writers, Request(w) \/ (Step(w) /\ ~WriteLog(w))
        PROVE  history' = history
    BY <2>1, LogFilesUntouched DEF logFiles
  <2>2. ASSUME NEW w \in Writers, WriteLog(w), history' # history
        PROVE  history' # <<>> /\ history' = Capped(<<Head(history')>> \o history)
    <3>1. /\ fd[w] # "file" /\ (fd[w] = "done" => tmp = Payload(w))
          /\ Recording(w) /\ log[w] = history /\ history \in Histories
      BY <2>2 DEF WellFormed, LogFilesGood, Opened, Orderly, WriteLog, OpenLog, FillLog, ReplaceLog
    <3>2. history' = Payload(w)
      BY <2>2, <3>1 DEF WriteLog, OpenLog, FillLog, ReplaceLog
    <3>3. PICK e : history' = Capped(<<e>> \o history)
      BY <3>1, <3>2 DEF Payload
    <3> QED BY <3>1, <3>3, NewestFirst
  <2>3. CASE Deploy \/ Edit \/ Restart \/ UNCHANGED vars
    BY <2>3 DEF Deploy, Edit, Restart, logFiles, disk, vars
  <2> QED BY <2>1, <2>2, <2>3 DEF Next, Step
<1>2. WellFormed /\ LogFilesGood /\ [Next]_vars =>
        [~crossed =>
            \/ history' = history
            \/ history' # <<>> /\ history' = Capped(<<Head(history')>> \o history)]_vars
  BY <1>1
<1> QED BY <1>2, WellFormedInit, WellFormedNext, LogFilesInit, LogFilesNext, PTL
        DEF Spec, HistoryOnlyGrows

-----------------------------------------------------------------------------
(* As long as requests take turns, on a file nobody edits by hand, what a   *)
(* request has read is what is stored when it writes.                       *)

\* Where a request has not written the file, and where it has but the copy or
\* the stores may not follow yet.
Pending == {"seed", "read", "seeding", "save", "add", "delete"}
Panel == {"put", "rollback"}

Prepared(w) ==
    /\ pc[w] \in Pending => before[w] = Stored
    /\ pc[w] \in Pending /\ op[w] \in Panel => after[w] = Merge(before[w], asked[w])
    /\ pc[w] \in {"seed", "read", "seeding"} => op[w] \in Panel \cup {"get"}
    /\ pc[w] \in {"save", "record", "recording", "reload", "cache", "mirror"} => op[w] \in Panel
    /\ pc[w] = "add" =>
         /\ op[w] = "add"
         /\ \E i \in Ids \ IdsOf(before[w].accounts) : \E s \in Typed(i) :
              /\ asked[w] = Config(None, <<Account(i, s)>>)
              /\ after[w] = Config(before[w].setting, Append(before[w].accounts, Account(i, s)))
    /\ pc[w] = "delete" =>
         /\ op[w] = "delete"
         /\ \E i \in IdsOf(before[w].accounts) :
              /\ asked[w] = Config(None, <<Account(i, Blank)>>)
              /\ after[w] = Config(before[w].setting, Without(before[w].accounts, i))

Undisturbed ==
    InTurn =>
        file.ok /\ \A w \in Writers : Prepared(w)

\* merge_updates: a key that was not submitted, and the password of an account
\* that came back blank or masked, stays what it is.
LEMMA MergeKeeps ==
    ASSUME NEW current \in Good, NEW updates \in Updates, Merge(current, updates) \in Good
    PROVE  LET merged == Merge(current, updates) IN
           /\ updates.setting = None => merged.setting = current.setting
           /\ updates.accounts = None => merged.accounts = current.accounts
           /\ updates.accounts # None =>
                 \A i \in IdsOf(updates.accounts) :
                    /\ i \in IdsOf(merged.accounts)
                    /\ SecretOf(updates.accounts, i) \in {Blank, Mask} =>
                          SecretOf(merged.accounts, i) = SecretOf(current.accounts, i)
<1>1. CASE updates.accounts = None
  BY <1>1 DEF Merge, Config
<1>2. CASE updates.accounts # None
  <2> DEFINE u == updates.accounts
             l == MergeAccounts(current.accounts, u)
  <2>1. u \in Seq(Wanted) /\ current.accounts \in Seq(Mine)
    BY <1>2 DEF Updates, Good, OwnLists
  <2>2. Merge(current, updates).accounts = l /\ l \in OwnLists
    BY <1>2 DEF Merge, Config, Good
  <2>3. /\ DOMAIN l = DOMAIN u
        /\ \A k \in DOMAIN u : l[k].id = u[k].id
    BY <2>1, MergedAccounts
  <2>4. \A k \in DOMAIN u : l[k].secret = Chosen(u[k].secret, SecretOf(current.accounts, u[k].id))
    BY DEF MergeAccounts, Account
  <2> HIDE DEF l, u
  <2>5. ASSUME NEW i \in IdsOf(u)
        PROVE  /\ i \in IdsOf(l)
               /\ SecretOf(u, i) \in {Blank, Mask} => SecretOf(l, i) = SecretOf(current.accounts, i)
    <3>1. PICK k \in DOMAIN u : u[k].id = i
      BY DEF IdsOf
    <3>2. i \in IdsOf(l) /\ SecretOf(l, i) = l[k].secret
      BY <2>2, <2>3, <3>1, SecretAt
    <3>3. SecretOf(u, i) = u[k].secret
      <4>1. \A j \in DOMAIN u : u[j].id = i => j = k
        BY <2>2, <2>3, <3>1 DEF OwnLists, Distinct
      <4> QED BY <3>1, <4>1 DEF SecretOf
    <3> QED BY <2>4, <3>1, <3>2, <3>3 DEF Chosen
  <2>6. updates.setting = None => Merge(current, updates).setting = current.setting
    BY DEF Merge, Config
  <2> QED BY <1>2, <2>2, <2>5, <2>6 DEF u
<1> QED BY <1>1, <1>2

LEMMA UndisturbedInit == Init => Undisturbed
  BY DEF Init, Undisturbed, Prepared, Pending, Alone

\* The history is written in turn as well: nobody renames the .tmp file away.
LEMMA LogInTurn ==
    ASSUME WellFormed, LogFilesGood, ~crossed', NEW w \in Writers, WriteLog(w)
    PROVE  /\ UNCHANGED <<file, stores, served>> /\ Recording(w)
           /\ \/ UNCHANGED locals
              \/ Done(w) /\ (Fault("log") \/ op[w] = "get")
              \/ GoTo(w, AfterLog(w)) /\ op[w] # "get"
<1>1. Recording(w)
  BY DEF WriteLog, OpenLog, FillLog, ReplaceLog, LogFilesGood, Opened
<1>2. fd[w] = "done" => tmp # None
  <2>1. ~crossed
    BY ActsAlone DEF Step
  <2>2. fd[w] = "done" => tmp = Payload(w)
    BY <2>1 DEF LogFilesGood, Orderly
  <2> QED BY <2>2, PayloadIsHistory, NoneIsNoHistory DEF WellFormed
<1> QED BY <1>1, <1>2, WriteLogEnds

\* The one that is at work decides.
LEMMA ByTheOne ==
    ASSUME NEW w \in Writers, Alone(w)', Prepared(w)', file'.ok
    PROVE  Undisturbed'
BY DEF Alone, Undisturbed, Prepared, Pending

LEMMA UndisturbedRequest ==
    ASSUME WellFormed, LogFilesGood, Undisturbed, NEW w \in Writers, Request(w), InTurn'
    PROVE  Undisturbed'
<1> USE DEF WellFormed
<1>1. Load = Stored /\ file.ok
  BY ActsAlone DEF Load, Undisturbed, InTurn
<1>2. ASSUME NEW kind, NEW updates, NEW next, NEW place,
             Begin(w, kind, updates, Load, next, place)
      PROVE  /\ file' = file /\ Stored' = Stored
             /\ pc'[w] = place /\ op'[w] = kind /\ asked'[w] = updates
             /\ before'[w] = Stored /\ after'[w] = next
  BY <1>1, <1>2 DEF Begin, disk, logFiles, LocalsGood, HeldGood, Stored
<1>3. ASSUME Prepared(w)', file' = file PROVE Undisturbed'
  BY <1>1, <1>3, ActsAlone, ByTheOne DEF InTurn
<1>4. ASSUME NEW updates \in Submitted, Put(w, updates) PROVE Undisturbed'
  BY <1>1, <1>2, <1>3, <1>4 DEF Put, Prepared, Pending, Panel
<1>5. ASSUME NEW k \in 1..Retention, Rollback(w, k) PROVE Undisturbed'
  BY <1>1, <1>2, <1>3, <1>5 DEF Rollback, Prepared, Pending, Panel
<1>6. CASE Get(w)
  BY <1>1, <1>2, <1>3, <1>6 DEF Get, Prepared, Pending, Panel
<1>7. ASSUME NEW i \in Ids, Delete(w, i) PROVE Undisturbed'
  <2>1. /\ Begin(w, "delete", Config(None, <<Account(i, Blank)>>), Load,
                 Config(file.setting, Without(file.accounts, i)), "delete")
        /\ i \in IdsOf(file.accounts)
    BY <1>7 DEF Delete
  <2>2. file.setting = Stored.setting /\ file.accounts = Stored.accounts
    BY DEF Stored, Config
  <2>3. Prepared(w)'
    BY <1>2, <2>1, <2>2 DEF Prepared, Pending, Panel
  <2> QED BY <1>2, <1>3, <2>1, <2>3
<1>8. ASSUME NEW i \in Ids, NEW secret \in Typed(i), Add(w, i, secret) PROVE Undisturbed'
  <2>1. /\ Begin(w, "add", Config(None, <<Account(i, secret)>>), Load,
                 Config(Load.setting, Append(Load.accounts, Account(i, secret))), "add")
        /\ i \notin IdsOf(Load.accounts)
    BY <1>8 DEF Add
  <2>2. Prepared(w)'
    BY <1>1, <1>2, <2>1 DEF Prepared, Pending, Panel
  <2> QED BY <1>2, <1>3, <2>1, <2>2
<1> QED BY <1>4, <1>5, <1>6, <1>7, <1>8 DEF Request

\* A request that answers, and one that goes on without writing the file.
LEMMA UndisturbedEnds ==
    ASSUME WellFormed, NEW w \in Writers, Alone(w)', Done(w), file'.ok
    PROVE  Undisturbed'
<1>1. pc'[w] = "idle"
  BY DEF Done, WellFormed, LocalsGood, HeldGood
<1> QED BY <1>1, ByTheOne DEF Prepared, Pending

LEMMA UndisturbedStep ==
    ASSUME WellFormed, LogFilesGood, Undisturbed, NEW w \in Writers, Step(w), InTurn'
    PROVE  Undisturbed'
<1>1. pc \in [Writers -> Places] /\ Prepared(w) /\ file.ok
  BY ActsAlone DEF WellFormed, LocalsGood, HeldGood, Undisturbed, InTurn
<1>0. Alone(w)'
  BY ActsAlone DEF InTurn
<1>2. ASSUME Done(w), UNCHANGED file PROVE Undisturbed'
  BY <1>0, <1>1, <1>2, UndisturbedEnds
<1>3. ASSUME NEW place, GoTo(w, place), file'.ok, place \notin Pending,
             place \in {"record", "recording", "reload", "cache", "mirror"} => op[w] \in Panel
      PROVE  Undisturbed'
  BY <1>0, <1>1, <1>3, ByTheOne DEF GoTo, Prepared, Pending
<1>4. CASE Seed(w)
  <2>1. CASE op[w] = "get" /\ history # <<>>
    BY <1>2, <1>4, <2>1 DEF Seed, disk, logFiles
  <2>2. CASE ~(op[w] = "get" /\ history # <<>>)
    <3>1. /\ GoTo(w, IF history = <<>> THEN "read" ELSE "save") /\ pc[w] = "seed"
          /\ file' = file /\ Stored' = Stored
      BY <1>4, <2>2 DEF Seed, disk, logFiles, Stored
    <3> QED BY <1>0, <1>1, <2>2, <3>1, ByTheOne DEF GoTo, Prepared, Pending
  <2> QED BY <2>1, <2>2
<1>5. CASE ReadLog(w)
  <2>1. /\ GoTo(w, IF pc[w] = "read" THEN "seeding" ELSE "recording")
        /\ pc[w] \in {"read", "record"} /\ file' = file /\ Stored' = Stored
    BY <1>5 DEF ReadLog, disk, logFiles, Stored
  <2> QED BY <1>0, <1>1, <2>1, ByTheOne DEF GoTo, Prepared, Pending
<1>6. CASE WriteLog(w)
  <2>1. /\ file' = file /\ Stored' = Stored /\ Recording(w)
        /\ UNCHANGED locals \/ Done(w) \/ (GoTo(w, AfterLog(w)) /\ op[w] # "get")
    BY <1>6, LogInTurn DEF InTurn, Stored
  <2>2. CASE UNCHANGED locals
    BY <1>0, <1>1, <2>1, <2>2, ByTheOne DEF locals, Prepared, Pending
  <2>3. CASE Done(w)
    BY <1>2, <2>1, <2>3
  <2>4. CASE GoTo(w, AfterLog(w)) /\ op[w] # "get"
    BY <1>0, <1>1, <2>1, <2>4, ByTheOne DEF GoTo, AfterLog, Recording, Prepared, Pending
  <2> QED BY <2>1, <2>2, <2>3, <2>4
<1>7. CASE Save(w) \/ AddSave(w) \/ DeleteSave(w)
  <2>1. CASE Done(w)
    BY <1>1, <1>2, <1>7, <2>1 DEF Save, AddSave, DeleteSave, Write, GoTo, Done
  <2>2. CASE ~Done(w)
    <3>1. \E next \in {"record", "store", "unpublish"} :
             GoTo(w, next) /\ (next = "record" => pc[w] = "save")
      BY <1>7, <2>2 DEF Save, AddSave, DeleteSave, Write
    <3>2. file'.ok
      BY <1>7, <2>2 DEF Save, AddSave, DeleteSave, Write
    <3> QED BY <1>0, <1>1, <1>3, <3>1, <3>2 DEF Prepared, Pending
  <2> QED BY <2>1, <2>2
<1>8. CASE Reload(w)
  BY <1>1, <1>2, <1>3, <1>8 DEF Reload, disk, logFiles, Prepared, Pending
<1>9. CASE Cache(w)
  BY <1>1, <1>2, <1>3, <1>9 DEF Cache, disk, logFiles, Prepared, Pending
<1>10. CASE Mirror(w)
  <2>1. CASE Done(w)
    BY <1>2, <1>10, <2>1 DEF Mirror
  <2>2. CASE ~Done(w)
    <3>1. UNCHANGED <<file, op, pc, asked, before, after>> /\ pc[w] = "mirror"
      BY <1>10, <2>2 DEF Mirror
    <3> QED BY <1>0, <1>1, <3>1, ByTheOne DEF Prepared, Pending
  <2> QED BY <2>1, <2>2
<1>11. CASE AddStore(w)
  BY <1>1, <1>3, <1>11 DEF AddStore, Pending
<1>12. CASE AddCache(w) \/ DeleteCache(w)
  BY <1>2, <1>12 DEF AddCache, DeleteCache, disk, logFiles
<1> QED BY <1>4, <1>5, <1>6, <1>7, <1>8, <1>9, <1>10, <1>11, <1>12 DEF Step

LEMMA UndisturbedNext ==
    ASSUME WellFormed, LogFilesGood, Counted, Undisturbed, [Next]_vars
    PROVE  Undisturbed'
<1>1. ASSUME Deploy \/ Restart, InTurn' PROVE Undisturbed'
  <2>1. \A w \in Writers : pc'[w] = "idle"
    BY <1>1 DEF Deploy, Restart, Start
  <2>2. file'.ok
    BY <1>1 DEF Deploy, Restart, disk, logFiles
  <2> QED BY <2>1, <2>2 DEF Undisturbed, Prepared, Pending
<1>2. Edit => ~InTurn'
  BY DEF Edit, InTurn, Counted
<1>3. CASE UNCHANGED vars
  BY <1>3 DEF vars, disk, logFiles, locals, bounds, Undisturbed, Prepared, Stored, InTurn, Alone
<1>4. ~InTurn' => Undisturbed'
  BY DEF Undisturbed
<1> QED BY <1>1, <1>2, <1>3, <1>4, UndisturbedRequest, UndisturbedStep DEF Next

\* What a request did not submit keeps its stored value (merge_updates,
\* _merge_list, handle_delete_account), as long as requests take turns.
THEOREM UnsubmittedStays == Spec => UnsubmittedKept
<1>1. ASSUME WellFormed, LogFilesGood, Undisturbed, [Next]_vars, NEW w \in Writers, InTurn,
             pc[w] \in {"save", "add", "delete"}, pc'[w] \in {"record", "store", "unpublish"}
      PROVE  Kept(w)
  <2> USE <1>1
  <2>0. pc[w] # "idle" /\ pc'[w] # "idle" /\ pc'[w] # pc[w]
    OBVIOUS
  <2>1. /\ Prepared(w) /\ Alone(w) /\ FileGood /\ before[w] = Stored
        /\ asked[w] \in Updates /\ after[w] \in Good /\ Stored \in Good
        /\ Stored.setting = file.setting /\ Stored.accounts = file.accounts
    BY LoadIsGood DEF Undisturbed, WellFormed, LocalsGood, HeldGood, Prepared, Pending, Stored,
                      Config, LogFilesGood, Orderly, InTurn
  <2>2. pc \in [Writers -> Places]
    BY DEF WellFormed, LocalsGood, HeldGood
  <2>3. Step(w)
    <3>1. \A v \in Writers \ {w} : ~Step(v)
      BY <2>1, OthersStay DEF Alone, LogFilesGood
    <3>2. \A v \in Writers : ~Request(v)
      BY <2>0, <2>2 DEF Request, Put, Rollback, Get, Add, Delete, Begin
    <3>3. ~Deploy /\ ~Restart
      BY DEF Deploy, Restart, Start
    <3>4. ~Edit /\ ~UNCHANGED vars
      BY DEF Edit, locals, vars
    <3> QED BY <3>1, <3>2, <3>3, <3>4 DEF Next
  <2>4. file'.setting = after[w].setting /\ file'.accounts = after[w].accounts
    <3>1. Save(w) \/ AddSave(w) \/ DeleteSave(w)
      <4>1. ~WriteLog(w)
        BY DEF WriteLog, OpenLog, FillLog, ReplaceLog, LogFilesGood, Opened, Recording
      <4> QED BY <2>3, <4>1
              DEF Step, Seed, ReadLog, Reload, Cache, Mirror, AddStore, AddCache, DeleteCache
    <3>2. ~Done(w)
      BY DEF Done, WellFormed, LocalsGood, HeldGood
    <3> QED BY <3>1, <3>2 DEF Save, AddSave, DeleteSave, Write
  <2>5. CASE pc[w] = "save"
    <3>1. op[w] \in Panel /\ after[w] = Merge(Stored, asked[w])
      BY <2>1, <2>5 DEF Prepared, Pending
    <3> QED BY <2>1, <2>4, <3>1, MergeKeeps DEF Kept, Untouched, Panel
  <2>6. CASE pc[w] = "add"
    <3>0. PICK i \in Ids \ IdsOf(file.accounts) : \E s \in Typed(i) :
             /\ asked[w] = Config(None, <<Account(i, s)>>)
             /\ after[w] = Config(file.setting, Append(file.accounts, Account(i, s)))
      BY <2>1, <2>6 DEF Prepared
    <3>1. PICK s \in Typed(i) :
             /\ asked[w] = Config(None, <<Account(i, s)>>)
             /\ after[w] = Config(file.setting, Append(file.accounts, Account(i, s)))
      BY <3>0
    <3>2. /\ file'.setting = file.setting
          /\ file'.accounts = Append(file.accounts, Account(i, s))
      BY <2>4, <3>1 DEF Config
    <3>3. file.accounts \in OwnLists
      BY <2>1 DEF FileGood
    <3> QED BY <3>2, <3>3, AddedIsGood DEF Kept
  <2>7. CASE pc[w] = "delete"
    <3>1. PICK i \in IdsOf(file.accounts) :
             /\ asked[w] = Config(None, <<Account(i, Blank)>>)
             /\ after[w] = Config(file.setting, Without(file.accounts, i))
      BY <2>1, <2>7 DEF Prepared
    <3>2. /\ file'.setting = file.setting /\ file'.accounts = Without(file.accounts, i)
      BY <2>4, <3>1 DEF Config
    <3>3. file.accounts \in OwnLists
      BY <2>1 DEF FileGood
    <3>4. /\ op[w] = "delete" /\ asked[w].accounts = <<Account(i, Blank)>>
      BY <2>1, <2>7, <3>1 DEF Prepared, Config
    <3>5. Untouched(w) \subseteq Ids \ {i}
      <4>1. i \in IdsOf(asked[w].accounts)
        BY <3>4 DEF IdsOf, Account
      <4>2. asked[w].accounts # None
        <5>1. i \in Ids /\ Account(i, Blank) \in [id : Ids, secret : Secrets \cup {Blank, Mask}]
          BY <3>3, IdsAreIds DEF Account, OwnLists
        <5> DEFINE S == [id : Ids, secret : Secrets \cup {Blank, Mask}]
        <5>2. None \notin Seq(S)
          BY ConfigAssumption
        <5> HIDE DEF S
        <5>3. <<Account(i, Blank)>> \in Seq(S)
          BY <5>1 DEF S
        <5> QED BY <3>4, <5>2, <5>3
      <4> QED BY <3>4, <4>1, <4>2 DEF Untouched
    <3> QED BY <3>2, <3>3, <3>5, OthersKept DEF Kept
  <2> QED BY <2>5, <2>6, <2>7
<1>2. WellFormed /\ LogFilesGood /\ Undisturbed /\ [Next]_vars =>
        [\A w \in Writers :
            (/\ InTurn
             /\ pc[w] \in {"save", "add", "delete"}
             /\ pc'[w] \in {"record", "store", "unpublish"}) => Kept(w)]_vars
  BY <1>1
<1>3. Undisturbed /\ WellFormed /\ LogFilesGood /\ Counted /\ [Next]_vars => Undisturbed'
  BY UndisturbedNext
<1> QED BY <1>2, <1>3, WellFormedInit, WellFormedNext, CountedInit, CountedNext,
           LogFilesInit, LogFilesNext, UndisturbedInit, PTL DEF Spec, UnsubmittedKept

-----------------------------------------------------------------------------
(* As long as the server is not restarted either, and the history can be   *)
(* written, the copy the server answers from follows the file as soon as a *)
(* request is over.                                                        *)

Written == {"record", "recording", "reload", "cache", "store", "publish", "unpublish"}

Published ==
    Reliable =>
        /\ (\A w \in Writers : pc[w] \notin Written) => served = IdsOf(file.accounts)
        /\ \A w \in Writers :
             /\ pc[w] = "cache" => left[w] = file.accounts
             /\ pc[w] \in {"store", "publish", "unpublish"} => after[w].accounts = file.accounts

LEMMA NothingElse ==
    ASSUME Counted, Reliable', [Next]_vars
    PROVE  \/ \E w \in Writers : Request(w) \/ Step(w)
           \/ UNCHANGED vars
<1>1. ~Deploy /\ ~Restart
  BY DEF Deploy, Restart, Reliable, Counted
<1>2. ~Edit
  BY DEF Edit, Reliable, InTurn, Counted
<1> QED BY <1>1, <1>2 DEF Next

LEMMA PublishedNext ==
    ASSUME WellFormed, LogFilesGood, Counted, Undisturbed, Published, [Next]_vars
    PROVE  Published'
<1> SUFFICES ASSUME Reliable' PROVE Published'
  BY DEF Published
<1>1. CASE UNCHANGED vars
  BY <1>1 DEF vars, disk, logFiles, locals, bounds, Published, Reliable, InTurn
<1>2. ASSUME NEW w \in Writers, Request(w) \/ Step(w)
      PROVE  Published'
  <2>0. Reliable /\ Alone(w) /\ Alone(w)'
    BY <1>2, ActsAlone, NothingForgotten DEF Reliable, InTurn
  <2>1. /\ pc \in [Writers -> Places] /\ left \in [Writers -> Seq(Mine)]
        /\ before \in [Writers -> Good] /\ after \in [Writers -> Good]
        /\ Prepared(w) /\ file.ok
        /\ pc[w] \notin Written => served = IdsOf(file.accounts)
        /\ pc[w] = "cache" => left[w] = file.accounts
        /\ pc[w] \in {"store", "publish", "unpublish"} => after[w].accounts = file.accounts
    BY <2>0 DEF WellFormed, LocalsGood, HeldGood, Published, Undisturbed, Reliable, Alone, Written
  <2>2. ASSUME /\ pc'[w] \notin Written => served' = IdsOf(file'.accounts)
               /\ pc'[w] = "cache" => left'[w] = file'.accounts
               /\ pc'[w] \in {"store", "publish", "unpublish"} => after'[w].accounts = file'.accounts
        PROVE  Published'
    BY <2>0, <2>1, <2>2 DEF Published, Alone, Written
  <2>3. ASSUME Done(w), served' = IdsOf(file'.accounts) PROVE Published'
    BY <2>1, <2>2, <2>3 DEF Done
  <2>4. CASE Request(w)
    <3>1. /\ pc[w] = "idle" /\ pc'[w] \in {"seed", "add", "delete"} /\ UNCHANGED <<file, served>>
      BY <2>1, <2>4 DEF Request, Put, Rollback, Get, Add, Delete, Begin, disk, logFiles
    <3> QED BY <2>1, <2>2, <3>1 DEF Written
  <2>5. CASE Seed(w) \/ ReadLog(w)
    <3>1. CASE Done(w)
      BY <2>1, <2>3, <2>5, <3>1 DEF Seed, ReadLog, GoTo, disk, logFiles, Written, Done
    <3>2. CASE ~Done(w)
      <4>1. /\ UNCHANGED <<file, served>> /\ pc'[w] \in {"read", "save", "seeding", "recording"}
            /\ pc'[w] # "recording" => pc[w] \notin Written
        BY <2>1, <2>5, <3>2 DEF Seed, ReadLog, GoTo, disk, logFiles, Written
      <4> QED BY <2>1, <2>2, <4>1 DEF Written
    <3> QED BY <3>1, <3>2
  <2>6. CASE WriteLog(w)
    <3>1. /\ UNCHANGED <<file, served>> /\ Recording(w) /\ ~Fault("log")
          /\ \/ UNCHANGED locals
             \/ Done(w) /\ op[w] = "get"
             \/ GoTo(w, AfterLog(w))
      BY <2>6, LogInTurn DEF Fault, Reliable, InTurn
    <3>2. CASE UNCHANGED locals
      BY <2>1, <2>2, <3>1, <3>2 DEF locals
    <3>3. CASE Done(w) /\ op[w] = "get"
      <4>1. pc[w] = "seeding"
        BY <2>1, <3>1, <3>3 DEF Recording, Prepared, Panel
      <4> QED BY <2>1, <2>3, <3>1, <3>3, <4>1 DEF Written
    <3>4. CASE GoTo(w, AfterLog(w))
      BY <2>1, <2>2, <3>1, <3>4 DEF GoTo, AfterLog, Recording, Written
    <3> QED BY <3>1, <3>2, <3>3, <3>4
  <2>7. CASE Save(w) \/ AddSave(w) \/ DeleteSave(w)
    <3>1. served' = served /\ pc[w] \notin Written
      BY <2>7 DEF Save, AddSave, DeleteSave, Write, Written
    <3>2. CASE Done(w)
      <4>1. UNCHANGED file
        BY <2>1, <2>7, <3>2 DEF Save, AddSave, DeleteSave, Write, GoTo, Done
      <4> QED BY <2>1, <2>3, <3>1, <3>2, <4>1
    <3>3. CASE ~Done(w)
      <4>1. /\ file'.accounts = after[w].accounts /\ after'[w] = after[w]
            /\ pc'[w] \in {"record", "store", "unpublish"}
        BY <2>1, <2>7, <3>3 DEF Save, AddSave, DeleteSave, Write, GoTo
      <4> QED BY <2>1, <2>2, <4>1 DEF Written
    <3> QED BY <3>2, <3>3
  <2>8. CASE Reload(w)
    <3>1. /\ left'[w] = file.accounts /\ file' = file /\ pc'[w] = "cache"
      BY <2>1, <2>8 DEF Reload, GoTo, disk, logFiles
    <3> QED BY <2>1, <2>2, <3>1 DEF Written
  <2>9. CASE Cache(w)
    <3>1. /\ served' = IdsOf(file'.accounts) /\ file' = file
      BY <2>1, <2>9 DEF Cache, disk, logFiles
    <3>2. CASE Done(w)
      BY <2>3, <3>1, <3>2
    <3>3. CASE ~Done(w)
      <4>1. pc'[w] = "mirror"
        BY <2>1, <2>9, <3>3 DEF Cache, GoTo
      <4> QED BY <2>2, <3>1, <4>1
    <3> QED BY <3>2, <3>3
  <2>10. CASE Mirror(w)
    <3>1. served' = IdsOf(file'.accounts)
      BY <2>1, <2>10 DEF Mirror, Written
    <3>2. CASE Done(w)
      BY <2>3, <3>1, <3>2
    <3>3. CASE ~Done(w)
      <4>1. pc'[w] = "mirror"
        BY <2>1, <2>10, <3>3 DEF Mirror
      <4> QED BY <2>2, <3>1, <4>1
    <3> QED BY <3>2, <3>3
  <2>11. CASE AddStore(w)
    <3>1. UNCHANGED <<file, after>> /\ pc'[w] = "publish" /\ pc[w] = "store"
      BY <2>1, <2>11 DEF AddStore, GoTo
    <3> QED BY <2>1, <2>2, <3>1 DEF Written
  <2>12. CASE AddCache(w) \/ DeleteCache(w)
    BY <2>1, <2>3, <2>12 DEF AddCache, DeleteCache, disk, logFiles
  <2> QED BY <1>2, <2>4, <2>5, <2>6, <2>7, <2>8, <2>9, <2>10, <2>11, <2>12 DEF Step
<1> QED BY <1>1, <1>2, NothingElse

\* When no request is under way the server answers for the accounts of the
\* file (_refresh_accounts_cache, the copies handle_add_account and
\* handle_delete_account make).
THEOREM CopyFollowsFile == Spec => []CacheFollowsFile
<1>1. Init => Published
  BY DEF Init, Published, Written
<1>2. WellFormed /\ LogFilesGood /\ Counted /\ Undisturbed /\ Published /\ [Next]_vars => Published'
  BY PublishedNext
<1>3. WellFormed /\ LogFilesGood /\ Counted /\ Undisturbed /\ [Next]_vars => Undisturbed'
  BY UndisturbedNext
<1>4. Published => CacheFollowsFile
  BY DEF Published, CacheFollowsFile, Quiet, Written
<1> QED BY <1>1, <1>2, <1>3, <1>4, WellFormedInit, WellFormedNext, CountedInit, CountedNext,
           LogFilesInit, LogFilesNext, UndisturbedInit, PTL DEF Spec

-----------------------------------------------------------------------------
(* As long as, besides, the processes run in mail_data_root and every store *)
(* could be written, the stores hold what a recovery should find.          *)

Current(i) == stores[Root][i] \in {None, SecretOf(file.accounts, i)}

\* Every account is current or still to be written, and only those are.
Following(list) ==
    /\ \A k \in DOMAIN file.accounts :
          \/ Current(file.accounts[k].id)
          \/ \E j \in DOMAIN list : list[j] = file.accounts[k]
    /\ \A j \in DOMAIN list : \E k \in DOMAIN file.accounts : file.accounts[k] = list[j]

Mirrored ==
    OneHome =>
        /\ (\A w \in Writers : pc[w] \in {"idle", "publish", "unpublish"} \cup Pending) =>
             \A i \in IdsOf(file.accounts) : Current(i)
        /\ \A w \in Writers :
             /\ pc[w] = "store" =>
                  LET new == asked[w].accounts[1] IN
                  /\ SecretOf(file.accounts, new.id) = new.secret
                  /\ \A i \in IdsOf(file.accounts) \ {new.id} : Current(i)
             /\ pc[w] = "mirror" => Following(left[w])

LEMMA MirroredNext ==
    ASSUME WellFormed, LogFilesGood, Counted, Undisturbed, Published, Mirrored, [Next]_vars
    PROVE  Mirrored'
<1> DEFINE Settled == {"idle", "publish", "unpublish"} \cup Pending
<1> SUFFICES ASSUME OneHome' PROVE Mirrored'
  BY DEF Mirrored
<1>0. Reliable' /\ {"seed", "mirror"} \cap failed' = {} /\ Root \in Dirs
  BY DEF OneHome, Dirs
<1>1. CASE UNCHANGED vars
  BY <1>1 DEF vars, disk, logFiles, locals, bounds, Mirrored, Following, Current, OneHome, Reliable, InTurn
<1>2. ASSUME NEW w \in Writers, Request(w) \/ Step(w), cwd' = cwd
      PROVE  Mirrored'
  <2>0. OneHome /\ Alone(w) /\ Alone(w)' /\ cwd = Root
    <3>1. InTurn /\ Alone(w) /\ Alone(w)'
      BY <1>0, <1>2, ActsAlone DEF Reliable, InTurn
    <3> QED BY <1>2, <3>1, NothingForgotten DEF OneHome, Reliable
  <2>1. /\ pc \in [Writers -> Places] /\ op \in [Writers -> Ops \cup {None}]
        /\ asked \in [Writers -> Updates] /\ left \in [Writers -> Seq(Mine)]
        /\ after \in [Writers -> Good]
        /\ Prepared(w) /\ file.ok /\ file.accounts \in OwnLists
        /\ stores \in [Dirs -> [Ids -> Secrets \cup {Blank, None}]]
    BY <2>0 DEF WellFormed, LocalsGood, HeldGood, FileGood, StoresGood, Undisturbed, OneHome, Reliable
  <2>2. /\ pc[w] \in Settled => \A i \in IdsOf(file.accounts) : Current(i)
        /\ pc[w] = "cache" => left[w] = file.accounts
    BY <2>0 DEF Mirrored, Published, OneHome, Alone
  <2>3. ASSUME /\ pc'[w] \in Settled => \A i \in IdsOf(file'.accounts) : Current(i)'
               /\ pc'[w] # "store" /\ pc'[w] # "mirror"
        PROVE  Mirrored'
    BY <2>0, <2>3 DEF Mirrored, Alone
  <2>4. ASSUME UNCHANGED <<file, stores>>, pc'[w] \in Settled => pc[w] \in Settled,
               pc'[w] # "store", pc'[w] # "mirror"
        PROVE  Mirrored'
    BY <2>2, <2>3, <2>4 DEF Current
  <2>5. CASE Request(w)
    <3>1. pc[w] = "idle" /\ pc'[w] \in {"seed", "add", "delete"} /\ UNCHANGED <<file, stores>>
      BY <2>1, <2>5 DEF Request, Put, Rollback, Get, Add, Delete, Begin, disk, logFiles
    <3> QED BY <2>4, <3>1
  <2>6. CASE Seed(w) \/ ReadLog(w)
    <3>1. /\ UNCHANGED <<file, stores>>
          /\ \/ pc[w] = "seed" /\ pc'[w] \in {"idle", "read", "save"}
             \/ pc[w] = "read" /\ pc'[w] = "seeding"
             \/ pc[w] = "record" /\ pc'[w] = "recording"
      BY <2>1, <2>6 DEF Seed, ReadLog, Done, GoTo, disk, logFiles
    <3> QED BY <2>4, <3>1 DEF Pending
  <2>7. CASE WriteLog(w)
    <3>1. /\ UNCHANGED <<file, stores>>
          /\ \/ pc[w] = "seeding" /\ pc'[w] \in {"seeding", "idle", "save"}
             \/ pc[w] = "recording" /\ pc'[w] \in {"recording", "reload"}
      <4>1. /\ UNCHANGED <<file, stores>> /\ Recording(w) /\ ~Fault("log")
            /\ \/ UNCHANGED locals
               \/ Done(w) /\ op[w] = "get"
               \/ GoTo(w, AfterLog(w))
        BY <1>0, <2>7, LogInTurn DEF Fault, Reliable, InTurn
      <4> QED BY <2>1, <4>1 DEF locals, Done, GoTo, AfterLog, Recording, Prepared, Panel
    <3> QED BY <2>4, <3>1 DEF Pending
  <2>8. CASE Save(w)
    <3>1. /\ stores' = stores /\ pc[w] = "save"
          /\ \/ pc'[w] = "record"
             \/ pc'[w] = "idle" /\ file' = file
      BY <2>1, <2>8 DEF Save, Write, Done, GoTo
    <3> QED BY <2>3, <2>4, <3>1 DEF Pending
  <2>9. CASE AddSave(w)
    <3>1. /\ stores' = stores /\ pc[w] = "add"
          /\ \/ /\ pc'[w] = "store" /\ asked'[w] = asked[w]
                /\ file'.accounts = after[w].accounts
             \/ pc'[w] = "idle" /\ file' = file
      BY <2>1, <2>9 DEF AddSave, Write, Done, GoTo
    <3>2. CASE pc'[w] = "store"
      <4>0. before[w].setting = file.setting /\ before[w].accounts = file.accounts
        BY <2>1, <3>1 DEF Prepared, Pending, Stored, Config
      <4>1. PICK i \in Ids \ IdsOf(file.accounts) : \E s \in Typed(i) :
               /\ asked[w] = Config(None, <<Account(i, s)>>)
               /\ after[w] = Config(file.setting, Append(file.accounts, Account(i, s)))
        BY <2>1, <3>1, <4>0 DEF Prepared
      <4>2. PICK s \in Typed(i) :
               /\ asked[w] = Config(None, <<Account(i, s)>>)
               /\ after[w] = Config(file.setting, Append(file.accounts, Account(i, s)))
        BY <4>1
      <4> DEFINE new == asked[w].accounts[1]
      <4>3. /\ new.id = i /\ new.secret = s /\ asked'[w].accounts[1] = new
            /\ file'.accounts = Append(file.accounts, Account(i, s))
        BY <3>1, <3>2, <4>2 DEF Config, Account
      <4> HIDE DEF new
      <4>4. SecretOf(file'.accounts, new.id) = new.secret
        BY <2>1, <4>3, AddedIsGood
      <4>5. \A x \in IdsOf(file'.accounts) \ {new.id} : Current(x)'
        <5>1. \A x \in IdsOf(file'.accounts) \ {new.id} :
                 /\ x \in IdsOf(file.accounts)
                 /\ SecretOf(file'.accounts, x) = SecretOf(file.accounts, x)
          BY <2>1, <4>3, AddedIsGood
        <5>2. \A x \in IdsOf(file.accounts) : Current(x)
          BY <2>2, <3>1 DEF Pending
        <5> QED BY <3>1, <5>1, <5>2 DEF Current
      <4>6. pc'[w] \notin Settled
        BY <3>2 DEF Pending
      <4> QED BY <2>0, <3>2, <4>3, <4>4, <4>5, <4>6 DEF Mirrored, Alone
    <3> QED BY <2>4, <3>1, <3>2 DEF Pending
  <2>10. CASE DeleteSave(w)
    <3>1. /\ stores' = stores /\ pc[w] = "delete"
          /\ \/ pc'[w] = "unpublish" /\ file'.accounts = after[w].accounts
             \/ pc'[w] = "idle" /\ file' = file
      BY <2>1, <2>10 DEF DeleteSave, Write, Done, GoTo
    <3>2. CASE pc'[w] = "unpublish"
      <4>0. before[w].setting = file.setting /\ before[w].accounts = file.accounts
        BY <2>1, <3>1 DEF Prepared, Pending, Stored, Config
      <4>1. PICK i \in IdsOf(file.accounts) :
               after[w] = Config(file.setting, Without(file.accounts, i))
        BY <2>1, <3>1, <4>0 DEF Prepared
      <4>2. file'.accounts = Without(file.accounts, i)
        BY <3>1, <3>2, <4>1 DEF Config
      <4>3. \A x \in IdsOf(file'.accounts) :
               /\ x \in IdsOf(file.accounts)
               /\ SecretOf(file'.accounts, x) = SecretOf(file.accounts, x)
        BY <2>1, <4>2, OthersOnly, OthersKept
      <4>4. \A x \in IdsOf(file.accounts) : Current(x)
        BY <2>2, <3>1 DEF Pending
      <4> QED BY <2>3, <3>1, <3>2, <4>3, <4>4 DEF Current
    <3> QED BY <2>4, <3>1, <3>2 DEF Pending
  <2>11. CASE Reload(w)
    <3>1. pc'[w] = "cache"
      BY <2>1, <2>11 DEF Reload, GoTo
    <3> QED BY <2>3, <3>1 DEF Pending
  <2>12. CASE Cache(w)
    <3>1. UNCHANGED <<file, stores>> /\ pc[w] = "cache" /\ left[w] = file.accounts
      BY <2>2, <2>12 DEF Cache, disk, logFiles
    <3>2. CASE left[w] = <<>>
      <4>1. pc'[w] = "idle" /\ IdsOf(file'.accounts) = {}
        BY <2>1, <2>12, <3>1, <3>2 DEF Cache, Done, IdsOf
      <4> QED BY <2>3, <4>1
    <3>3. CASE left[w] # <<>>
      <4>1. pc'[w] = "mirror" /\ left'[w] = left[w]
        BY <2>1, <2>12, <3>3 DEF Cache, GoTo
      <4>2. "mirror" \notin Settled
        BY DEF Pending
      <4>3. Following(left[w])'
        BY <3>1, <4>1 DEF Following
      <4> QED BY <2>0, <4>1, <4>2, <4>3 DEF Mirrored, Alone
    <3> QED BY <3>2, <3>3
  <2>13. CASE Mirror(w)
    <3>a. PICK rest \in Seq(Mine) : rest = left[w]
      BY <2>1
    <3>b. rest # <<>>
      BY <2>13, <3>a DEF Mirror, WellFormed, LocalsGood, Mirroring
    <3>c. PICK account \in Mine : account = Head(rest)
      BY <3>b
    <3>1. /\ pc[w] = "mirror" /\ file' = file
          /\ stores' = [stores EXCEPT ![Root][account.id] = account.secret]
      BY <1>0, <2>13, <3>a, <3>c DEF Mirror, Fault
    <3>2. /\ Len(rest) \in Nat \ {0} /\ DOMAIN rest = 1..Len(rest) /\ account = rest[1]
          /\ Tail(rest) \in Seq(Mine) /\ Len(Tail(rest)) = Len(rest) - 1
          /\ DOMAIN Tail(rest) = 1..Len(rest) - 1
          /\ \A j \in 1..Len(rest) - 1 : Tail(rest)[j] = rest[j + 1]
      BY <3>b, <3>c, HeadTailProperties, LenProperties
    <3>3. /\ \A k \in DOMAIN file.accounts :
                Current(file.accounts[k].id) \/ \E j \in 1..Len(rest) : rest[j] = file.accounts[k]
          /\ \A j \in 1..Len(rest) : \E k \in DOMAIN file.accounts : file.accounts[k] = rest[j]
      <4>1. Following(rest)
        BY <2>0, <3>a, <3>1 DEF Mirrored
      <4> QED BY <3>2, <4>1 DEF Following
    <3>4. SecretOf(file.accounts, account.id) = account.secret /\ account.id \in Ids
      BY <2>1, <3>2, <3>3, SecretAt DEF Mine
    <3>5. Current(account.id)' /\ \A x \in Ids : Current(x) => Current(x)'
      <4>1. /\ stores'[Root][account.id] = account.secret
            /\ \A x \in Ids \ {account.id} : stores'[Root][x] = stores[Root][x]
        BY <1>0, <2>1, <3>1, <3>4
      <4> QED BY <3>1, <3>4, <4>1 DEF Current
    <3>6. \A k \in DOMAIN file.accounts : file.accounts[k].id \in Ids
      <4>1. file.accounts \in Seq(Mine)
        BY <2>1 DEF OwnLists
      <4> QED BY <4>1 DEF Mine
    <3>7. CASE Len(rest) = 1
      <4>1. pc'[w] = "idle"
        BY <2>1, <2>13, <3>a, <3>7 DEF Mirror, Done
      <4>2. \A k \in DOMAIN file.accounts : Current(file.accounts[k].id)'
        BY <3>1, <3>2, <3>3, <3>5, <3>6, <3>7
      <4> QED BY <2>3, <3>1, <4>1, <4>2 DEF IdsOf
    <3>8. CASE Len(rest) # 1
      <4>1. pc'[w] = "mirror" /\ left'[w] = Tail(rest)
        BY <2>1, <2>13, <3>a, <3>1, <3>8 DEF Mirror
      <4>2. ASSUME NEW k \in DOMAIN file.accounts
            PROVE  \/ Current(file.accounts[k].id)'
                   \/ \E j \in DOMAIN Tail(rest) : Tail(rest)[j] = file.accounts[k]
        <5>1. CASE Current(file.accounts[k].id)
          BY <3>1, <3>5, <3>6, <5>1
        <5>2. ASSUME NEW j \in 1..Len(rest), rest[j] = file.accounts[k]
              PROVE  \/ Current(file.accounts[k].id)'
                     \/ \E l \in DOMAIN Tail(rest) : Tail(rest)[l] = file.accounts[k]
          <6>1. CASE j = 1
            BY <3>1, <3>2, <3>5, <5>2, <6>1
          <6>2. CASE j # 1
            <7>1. j - 1 \in 1..Len(rest) - 1 /\ (j - 1) + 1 = j
              BY <3>2, <6>2
            <7> QED BY <3>2, <5>2, <7>1
          <6> QED BY <6>1, <6>2
        <5> QED BY <3>3, <5>1, <5>2
      <4>3. ASSUME NEW j \in DOMAIN Tail(rest)
            PROVE  \E k \in DOMAIN file.accounts : file.accounts[k] = Tail(rest)[j]
        <5>1. j + 1 \in 1..Len(rest) /\ Tail(rest)[j] = rest[j + 1]
          BY <3>2
        <5> QED BY <3>3, <5>1
      <4>4. "mirror" \notin Settled
        BY DEF Pending
      <4>5. Following(Tail(rest))'
        BY <3>1, <4>2, <4>3 DEF Following
      <4> QED BY <2>0, <4>1, <4>4, <4>5 DEF Mirrored, Alone
    <3> QED BY <3>7, <3>8
  <2>14. CASE AddStore(w)
    <3> DEFINE new == asked[w].accounts[1]
    <3>1. /\ pc[w] = "store" /\ pc'[w] = "publish" /\ file' = file
          /\ stores' = [stores EXCEPT ![Root][new.id] = new.secret]
      BY <1>0, <2>0, <2>1, <2>14 DEF AddStore, Fault, GoTo
    <3>2. /\ SecretOf(file.accounts, new.id) = new.secret
          /\ \A x \in IdsOf(file.accounts) \ {new.id} : Current(x)
      BY <2>0, <3>1 DEF Mirrored
    <3>3. new.id \in Ids
      <4>1. \E i \in Ids : \E s \in Typed(i) : asked[w].accounts = <<Account(i, s)>>
        BY <3>1 DEF WellFormed, LocalsGood, Adding
      <4> QED BY <4>1 DEF Account
    <3> HIDE DEF new
    <3>4. IdsOf(file.accounts) \subseteq Ids
      BY <2>1, IdsAreIds DEF OwnLists
    <3>5. \A x \in IdsOf(file.accounts) : Current(x)'
      <4>1. /\ stores'[Root][new.id] = new.secret
            /\ \A x \in Ids \ {new.id} : stores'[Root][x] = stores[Root][x]
        BY <1>0, <2>1, <3>1, <3>3
      <4> QED BY <3>1, <3>2, <3>4, <4>1 DEF Current
    <3> QED BY <2>3, <3>1, <3>5
  <2>15. CASE AddCache(w) \/ DeleteCache(w)
    <3>1. UNCHANGED <<file, stores>> /\ pc[w] \in {"publish", "unpublish"} /\ pc'[w] = "idle"
      BY <2>1, <2>15 DEF AddCache, DeleteCache, Done, disk, logFiles
    <3> QED BY <2>4, <3>1
  <2> QED BY <1>2, <2>5, <2>6, <2>7, <2>8, <2>9, <2>10, <2>11, <2>12, <2>13, <2>14, <2>15 DEF Step
<1>3. UNCHANGED vars \/ cwd' = cwd
  BY DEF Next
<1> QED BY <1>0, <1>1, <1>2, <1>3, NothingElse

\* What discover_accounts_from_settings_stores would find of a configured
\* account is what the file says of it (_mirror_to_settings_stores,
\* handle_add_account), or nothing.
THEOREM RecoveryStaysCurrent == Spec => []RecoveryIsCurrent
<1>1. Init => Mirrored
  BY DEF Init, Mirrored, Current, Pending, Dirs, IdsOf, Account
<1>2. WellFormed /\ LogFilesGood /\ Counted /\ Undisturbed /\ Published /\ Mirrored /\ [Next]_vars => Mirrored'
  BY MirroredNext
<1>3. WellFormed /\ LogFilesGood /\ Counted /\ Undisturbed /\ Published /\ [Next]_vars => Published'
  BY PublishedNext
<1>4. WellFormed /\ LogFilesGood /\ Counted /\ Undisturbed /\ [Next]_vars => Undisturbed'
  BY UndisturbedNext
<1>5. Init => Published
  BY DEF Init, Published, Written
<1>6. Mirrored => RecoveryIsCurrent
  BY DEF Mirrored, Current, RecoveryIsCurrent, Quiet, OneHome
<1> QED BY <1>1, <1>2, <1>3, <1>4, <1>5, <1>6, WellFormedInit, WellFormedNext,
           CountedInit, CountedNext, LogFilesInit, LogFilesNext, UndisturbedInit, PTL DEF Spec
==============================================================================
