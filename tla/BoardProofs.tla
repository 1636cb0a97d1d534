---------------------------- MODULE BoardProofs ----------------------------
(***************************************************************************)
(* The board keeps apart what it must.  The runs of a background job: with *)
(* launches that do not overlap, a job guarded by its watermark runs once  *)
(* at a time, for any number of worker threads, failures and process       *)
(* reboots, and for every job but ingestion, whose loop ignores the flag. *)
(* And the accounts: a form acts on the account it was shown with, for any *)
(* number of accounts, mails and pages.                                    *)
(***************************************************************************)
EXTENDS SingleFlight, BoardPages, SequenceTheorems, TLAPS

-----------------------------------------------------------------------------
(* The runs of a job.                                                      *)

\* A thread at work is announced by the flag, and one launcher at most is on
\* its way, with no other run beside it.
Announced ==
    /\ OneAtATime
    /\ Active # {} => Running(flag)
    /\ \A l \in Launchers :
          /\ launching[l] # "idle" => Active = {}
          /\ launching[l] = "spawn" => Running(flag)
    /\ \A l, k \in Launchers :
          launching[l] # "idle" /\ launching[k] # "idle" => l = k

\* Of a job that is guarded by its flag, as long as no launches have crossed.
Uncrossed == Job # "ingest" /\ ~crossed

FlightInv == FlightTypeOK /\ (Uncrossed => Announced)

\* The flag, the threads and everyone's place in the code keep their types,
\* for every job: only a batch writes its progress into the flag, only an
\* ingest worker clears it twice.
THEOREM FlightTypeCorrect == FlightSpec => []FlightTypeOK
<1>1. FlightInit => FlightTypeOK
  <2>1. FlightInit => crossed \in BOOLEAN
    BY DEF FlightInit
  <2> QED
    BY <2>1, SingleFlightAssumption DEF FlightInit, FlightTypeOK
<1>2. FlightTypeOK /\ [FlightNext]_flightVars => FlightTypeOK'
  <2> SUFFICES ASSUME FlightTypeOK, [FlightNext]_flightVars PROVE FlightTypeOK'
    OBVIOUS
  <2>0. crossed' \in BOOLEAN
    <3>1. crossed \in BOOLEAN
      BY DEF FlightTypeOK
    <3>2. ASSUME NEW l \in Launchers, Check(l) PROVE crossed' \in BOOLEAN
      BY <3>2, Zenon DEF Check
    <3>3. CASE Reboot
      BY <3>3, Zenon DEF Reboot
    <3>4. CASE UNCHANGED crossed
      BY <3>1, <3>4
    <3> QED
      BY <3>2, <3>3, <3>4 DEF FlightNext, Worker, SetRunning, Spawn, Open, Mark,
         Work, Clear, ClearAgain, Progress, Loop, CycleStarts, CycleWorks,
         CycleEnds, flightVars
  <2> USE <2>0, SingleFlightAssumption DEF FlightTypeOK, At, Error, NoError
  <2>1. ASSUME NEW l \in Launchers, Check(l) PROVE FlightTypeOK'
    <3>1. /\ launching' = [launching EXCEPT ![l] = "set"]
          /\ UNCHANGED <<flag, thread, cycle, reboots, errors>>
      BY <2>1 DEF Check
    <3> QED
      BY <3>1
  <2>8. CASE \E l \in Launchers : SetRunning(l) \/ Spawn(l)
    BY <2>8 DEF SetRunning, Spawn
  <2>2. CASE \E t \in Threads : Open(t) \/ Work(t) \/ Progress(t)
    BY <2>2 DEF Open, Work, Progress
  <2>3. CASE \E t \in Threads : Mark(t)
    BY <2>3 DEF Mark
  <2>4. CASE \E t \in Threads : Clear(t) \/ ClearAgain(t)
    BY <2>4 DEF Clear, ClearAgain
  <2>5. CASE \E c \in Loops : Loop(c)
    BY <2>5 DEF Loop, CycleStarts, CycleWorks, CycleEnds
  <2>6. CASE Reboot
    BY <2>6 DEF Reboot, Running
  <2>7. CASE UNCHANGED flightVars
    BY <2>7 DEF flightVars
  <2> QED
    BY <2>1, <2>2, <2>3, <2>4, <2>5, <2>6, <2>7, <2>8 DEF FlightNext, Worker
<1> QED
  BY <1>1, <1>2, PTL DEF FlightSpec

\* A thread that only moves on leaves the set of active threads as it is.
LEMMA SameActive ==
    ASSUME FlightTypeOK, NEW t \in Threads, NEW label, At(t, label),
           thread[t] # "none", label # "none"
    PROVE  Active' = Active
BY DEF FlightTypeOK, At, Active

\* A thread that ends, when it was the only one, leaves none.
LEMMA NoneActive ==
    ASSUME FlightTypeOK, OneAtATime, NEW t \in Threads, At(t, "none"),
           thread[t] # "none"
    PROVE  Active' = {}
BY DEF FlightTypeOK, OneAtATime, At, Active

LEMMA AnnouncedStep ==
    ASSUME FlightInv, [FlightNext]_flightVars, Uncrossed'
    PROVE  Announced'
<1> USE DEF FlightInv, Announced, FlightTypeOK
<1> Job # "ingest"
  BY DEF Uncrossed
<1>1. ASSUME NEW l \in Launchers, Check(l) PROVE Announced'
  \* Whatever crossed before is over, and nobody else is on the way.
  <2>1. /\ \A k \in Launchers : k # l => launching[k] = "idle"
        /\ ~crossed \/ Active = {}
    BY <1>1 DEF Check, Uncrossed
  <2>2. Active = {} /\ UNCHANGED <<Active, flag>>
    BY <1>1, <2>1 DEF Check, Active, Uncrossed
  <2>3. \A k \in Launchers : launching'[k] = IF k = l THEN "set" ELSE "idle"
    BY <1>1, <2>1 DEF Check
  <2> QED
    BY <2>2, <2>3 DEF OneAtATime
<1> SUFFICES ASSUME ~\E l \in Launchers : Check(l)
             PROVE  Announced'
  BY <1>1
<1>2. CASE Reboot
  <2>1. Active' = {} /\ \A k \in Launchers : launching'[k] = "idle"
    BY <1>2 DEF Reboot, Active
  <2> QED
    BY <2>1 DEF OneAtATime
<1>3. CASE ~Reboot
  <2>1. UNCHANGED crossed /\ Announced
    BY <1>3 DEF FlightNext, Uncrossed, Worker, SetRunning, Spawn, Open, Mark,
                Work, Clear, ClearAgain, Progress, Loop, CycleStarts, CycleWorks,
                CycleEnds, flightVars
  <2>2. ASSUME NEW l \in Launchers, SetRunning(l) PROVE Announced'
    <3>1. Active = {} /\ UNCHANGED Active
      BY <2>1, <2>2 DEF SetRunning, Active
    <3>2. \A k \in Launchers :
             launching'[k] = IF k = l THEN launching'[l] ELSE "idle"
      BY <2>1, <2>2 DEF SetRunning
    <3>3. launching'[l] = "idle" \/ Running(flag')
      BY <2>2 DEF SetRunning, Running
    <3> QED
      BY <3>1, <3>2, <3>3 DEF OneAtATime, Running
  <2>3. ASSUME NEW l \in Launchers, Spawn(l) PROVE Announced'
    <3>1. Active = {} /\ flag' = flag /\ Running(flag)
      BY <2>1, <2>3 DEF Spawn
    <3>2. \A k \in Launchers : launching'[k] = "idle"
      BY <2>1, <2>3 DEF Spawn
    <3>3. CASE UNCHANGED thread
      BY <3>1, <3>2, <3>3 DEF Active, OneAtATime, Running
    <3>4. ASSUME NEW t \in Threads, thread' = [thread EXCEPT ![t] = "open"]
          PROVE  Announced'
      <4>1. Active' = {t}
        BY <3>1, <3>4 DEF Active
      <4> QED
        BY <3>1, <3>2, <4>1 DEF OneAtATime, Running
    <3> QED
      BY <2>3, <3>3, <3>4 DEF Spawn
  <2>4. ASSUME NEW t \in Threads, Worker(t) \/ Progress(t) PROVE Announced'
    <3>1. t \in Active /\ Running(flag) /\ thread[t] # "none"
      BY <2>1, <2>4 DEF Worker, Open, Mark, Work, Clear, ClearAgain, Progress, Active
    <3>2. \A k \in Launchers : launching'[k] = "idle"
      BY <2>1, <2>4, <3>1 DEF Worker, Open, Mark, Work, Clear, ClearAgain, Progress
    <3>3. CASE At(t, "none")
      <4>1. Active' = {}
        BY <2>1, <3>1, <3>3, NoneActive
      <4> QED
        BY <3>2, <4>1 DEF OneAtATime
    <3>4. CASE Running(flag') /\ \E label \in {"mark", "work", "clear"} : At(t, label)
      <4>1. Active' = Active
        BY <3>1, <3>4, SameActive
      <4> QED
        BY <2>1, <3>2, <3>4, <4>1 DEF OneAtATime, Running
    <3>5. CASE Running(flag') /\ UNCHANGED thread
      BY <2>1, <3>2, <3>5 DEF OneAtATime, Active, Running
    <3>6. \/ At(t, "none")
          \/ Running(flag') /\ \E label \in {"mark", "work", "clear"} : At(t, label)
          \/ Running(flag') /\ UNCHANGED thread
      <4>1. CASE Open(t)
        BY <3>1, <4>1 DEF Open, Running
      <4>2. CASE Mark(t)
        BY <3>1, <4>2 DEF Mark, Running
      <4>3. CASE Work(t)
        BY <3>1, <4>3 DEF Work, Running
      <4>4. CASE Clear(t)
        BY <4>4 DEF Clear
      <4>5. CASE ClearAgain(t)
        BY <4>5 DEF ClearAgain
      <4>6. CASE Progress(t)
        BY <4>6 DEF Progress, Running
      <4> QED
        BY <2>4, <4>1, <4>2, <4>3, <4>4, <4>5, <4>6 DEF Worker
    <3> QED
      BY <3>3, <3>4, <3>5, <3>6
  <2>5. Loops = {}
    BY SingleFlightAssumption
  <2>6. CASE UNCHANGED flightVars
    BY <2>1, <2>6 DEF flightVars, OneAtATime, Active, Running
  <2> QED
    BY <1>3, <2>2, <2>3, <2>4, <2>5, <2>6 DEF FlightNext
<1> QED
  BY <1>2, <1>3

\* Whatever statement or thread start fails and whenever the process restarts,
\* a job guarded by its flag runs twice at once only after launches that
\* crossed: the flag is set before a worker starts, every worker clears it, if
\* at all, as the last thing it does, and a launch by itself waits for both.
THEOREM OverlapsAreCrossings == FlightSpec => []OverlapExplained
<1>1. FlightInit => (Uncrossed => Announced)
  BY DEF FlightInit, Announced, OneAtATime, Active
<1>2. FlightInv /\ [FlightNext]_flightVars => (Uncrossed => Announced)'
  BY AnnouncedStep
<1>3. (Uncrossed => Announced) => OverlapExplained
  BY DEF Announced, OverlapExplained, Uncrossed
<1>4. FlightSpec => []FlightTypeOK
  BY FlightTypeCorrect
<1> QED
  BY <1>1, <1>2, <1>3, <1>4, PTL DEF FlightSpec, FlightInv

LEMMA ExplainedByWorker ==
    ASSUME FlightTypeOK, FlagExplained, NEW t \in Threads, Worker(t) \/ Progress(t)
    PROVE  FlagExplained'
<1> USE SingleFlightAssumption DEF FlightTypeOK
<1>1. thread[t] # "none" /\ UNCHANGED <<launching, cycle, reboots>>
  BY DEF Worker, Open, Mark, Work, Clear, ClearAgain, Progress
<1>2. CASE thread'[t] # "none"
  BY <1>2 DEF FlagExplained, Attended, Active
<1>3. CASE errors' > 0
  BY <1>3 DEF FlagExplained, Disturbed
<1>4. CASE ~Running(flag')
  BY <1>4 DEF FlagExplained, Running
<1>5. thread'[t] # "none" \/ errors' > 0 \/ ~Running(flag')
  <2>1. CASE Open(t)
    BY <2>1 DEF Open, At, Error
  <2>2. CASE Mark(t)
    BY <2>2 DEF Mark, At
  <2>3. CASE Work(t)
    BY <2>3 DEF Work, At
  <2>4. CASE Clear(t) \/ ClearAgain(t)
    BY <2>4 DEF Clear, ClearAgain, Error, Running
  <2>5. CASE Progress(t)
    BY <1>1, <2>5 DEF Progress
  <2> QED
    BY <2>1, <2>2, <2>3, <2>4, <2>5 DEF Worker
<1> QED
  BY <1>2, <1>3, <1>4, <1>5

\* However many launches overlap, a job that is shown as running is: a worker,
\* the loop or a launcher has the flag yet to clear.  Only a failed statement
\* or thread start, or a restart during ingestion, leaves the flag alone.
THEOREM FlagsAreExplained == FlightSpec => []FlagExplained
<1>1. FlightInit => FlagExplained
  BY DEF FlightInit, FlagExplained, Running
<1>2. FlightTypeOK /\ FlagExplained /\ [FlightNext]_flightVars => FlagExplained'
  <2> SUFFICES ASSUME FlightTypeOK, FlagExplained, [FlightNext]_flightVars
               PROVE  FlagExplained'
    OBVIOUS
  <2> USE SingleFlightAssumption
      DEF FlightTypeOK, FlagExplained, Attended, Active, Disturbed, Error, NoError
  <2>1. ASSUME NEW l \in Launchers, Check(l) PROVE FlagExplained'
    BY <2>1 DEF Check
  <2>2. ASSUME NEW l \in Launchers, SetRunning(l) PROVE FlagExplained'
    BY <2>2 DEF SetRunning, Running
  <2>3. ASSUME NEW l \in Launchers, Spawn(l) PROVE FlagExplained'
    BY <2>3 DEF Spawn
  <2>4. ASSUME NEW t \in Threads, Worker(t) \/ Progress(t)
        PROVE  FlagExplained'
    BY <2>4, ExplainedByWorker
  <2>5. ASSUME NEW c \in Loops, Loop(c) PROVE FlagExplained'
    BY <2>5 DEF Loop, CycleStarts, CycleWorks, CycleEnds, Running
  <2>6. CASE Reboot
    BY <2>6 DEF Reboot, Running
  <2>7. CASE UNCHANGED flightVars
    BY <2>7 DEF flightVars, Running
  <2> QED
    BY <2>1, <2>2, <2>3, <2>4, <2>5, <2>6, <2>7 DEF FlightNext
<1> QED
  BY <1>1, <1>2, FlightTypeCorrect, PTL DEF FlightSpec

-----------------------------------------------------------------------------
(* The accounts of forms.                                                  *)

\* A mailbox holds only mail that was delivered to it.
HeldAtHome == \A x \in Accounts, m \in Mail : Holds(x, m) => x \in home[m]

HasPanel(pg) == pg.panel \notin {None, Broken}
Items(pg) == pg.cards \cup (IF HasPanel(pg) THEN {pg.panel} ELSE {})

\* A card or a panel names accounts that have its mail; on a page with the
\* query of one account it names that one, and on the board of all mailboxes
\* every form names an account.
Honest(pg) ==
    /\ \A i \in Items(pg) : i.of \in home[i.mail] /\ i.form \in home[i.mail] \cup {None}
    /\ pg.qs \in Accounts =>
          /\ \A i \in Items(pg) : i.of = pg.qs
          /\ \A c \in pg.cards : c.form = None
          /\ HasPanel(pg) => pg.panel.form = pg.qs
    /\ pg.qs = AllMailboxes => \A c \in pg.cards : c.form # None

\* The account that a request without a query goes to.
Cur == Selected(None, cookie).current

\* A page of one account that was alone since it was loaded shows what the
\* cookie selects.
ShowsCurrent(pg) ==
    /\ Cur # AllMailboxes
    /\ pg.qs \in {None, Cur}
    /\ \A i \in Items(pg) : i.of = Cur /\ i.form \in {None, Cur}
    /\ \A c \in pg.cards : c.form = None

Alone(p) == \A x \in Pages \ {p} : page[x] = None /\ going[x] = Broken

PageInv(p) ==
    page[p] # None =>
        /\ Honest(page[p])
        /\ ~page[p].crossed =>
              Alone(p) /\ (page[p].qs # AllMailboxes => ShowsCurrent(page[p]))

PagesInv == PagesTypeOK /\ HeldAtHome /\ ActsWhereShown /\ \A p \in Pages : PageInv(p)

-----------------------------------------------------------------------------
(* What a query and a cookie select.                                       *)

LEMMA AccountFacts ==
    ASSUME PagesTypeOK
    PROVE  Ids \subseteq Accounts /\ Head(accounts) \in Ids /\ DefaultAccount \in Accounts
<1>1. Len(accounts) \in Nat /\ Len(accounts) # 0 /\ DOMAIN accounts = 1..Len(accounts)
  BY LenProperties, EmptySeq DEF PagesTypeOK
<1>2. \A i \in DOMAIN accounts : accounts[i] \in Accounts
  BY <1>1, ElementOfSeq DEF PagesTypeOK
<1>3. Head(accounts) = accounts[1]
  BY DEF PagesTypeOK, Head
<1>4. DefaultAccount \in Accounts
  BY BoardPagesAssumption, HeadTailProperties DEF DefaultAccount
<1> QED
  BY <1>1, <1>2, <1>3, <1>4 DEF Ids, ToSet

LEMMA Selection ==
    ASSUME PagesTypeOK, NEW q \in Queries, NEW c \in Queries, ~Refused(q)
    PROVE  LET ctx == Selected(q, c) IN
           /\ ctx.db \in Accounts
           /\ ctx.current # AllMailboxes => ctx.db \in Ids /\ ctx.current = ctx.db
           /\ ctx.current = AllMailboxes => q = AllMailboxes \/ (q = None /\ c = AllMailboxes)
           /\ q = AllMailboxes => ctx.current = AllMailboxes
           /\ q \in Accounts => ctx.db = q /\ ctx.current = q
           /\ ctx = Selected(None, Armed(q, c))
BY AccountFacts, BoardPagesAssumption DEF Selected, Armed, Refused, Queries

\* A request with the query of the account selected leaves it selected.
LEMMA CookieKept ==
    ASSUME PagesTypeOK, Cur # AllMailboxes, NEW q \in {None, Cur}
    PROVE  /\ Cur \in Ids /\ Cur \in Accounts /\ ~Refused(q)
           /\ Selected(q, cookie).db = Cur /\ Selected(q, cookie).current = Cur
           /\ Selected(None, After(q)).current = Cur
<1>1. Cur \in Ids /\ Cur \in Accounts
  BY AccountFacts DEF Cur, Selected
<1>2. ~Refused(q) /\ q \in Queries
  BY <1>1 DEF Refused, Queries
<1>3. Selected(q, cookie).db = Cur /\ Selected(q, cookie).current = Cur
  BY <1>1, AccountFacts, BoardPagesAssumption DEF Cur, Selected
<1>4. Selected(None, After(q)) = Selected(q, cookie)
  BY <1>2, Selection DEF After, PagesTypeOK
<1> QED
  BY <1>1, <1>2, <1>3, <1>4

-----------------------------------------------------------------------------
(* What a page shows.                                                      *)

LEMMA CardsShown ==
    ASSUME PagesTypeOK, HeldAtHome, NEW q \in Queries, NEW c \in Queries, ~Refused(q)
    PROVE  LET ctx == Selected(q, c)
               cs == Cards(ctx) IN
           /\ cs \subseteq CardStates
           /\ \A i \in cs : i.of \in home[i.mail] /\ i.form \in home[i.mail] \cup {None}
           /\ ctx.current = AllMailboxes => \A i \in cs : i.form # None
           /\ ctx.current # AllMailboxes => \A i \in cs : i.of = ctx.current /\ i.form = None
<1> DEFINE ctx == Selected(q, c)
<1>1. CASE ctx.current = AllMailboxes
  <2>1. ASSUME NEW i \in CardsOfAll
        PROVE  /\ i \in CardStates /\ i.of \in home[i.mail] /\ i.form \in home[i.mail]
               /\ i.form # None
    <3>1. PICK a \in Ids, m \in Mail, owner \in Ids : i = Card(a, m, owner)
      BY DEF CardsOfAll
    <3>2. Holds(a, m) /\ IsOwner(owner, m)
      BY <3>1 DEF CardsOfAll, Card
    <3>3. Holds(owner, m)
      BY <3>2 DEF IsOwner, Holders
    <3>4. a \in Accounts /\ owner \in Accounts
      BY AccountFacts
    <3>5. column[a][m] \in Column
      BY <3>2, <3>4 DEF Holds, PagesTypeOK
    <3> QED
      BY <3>1, <3>2, <3>3, <3>4, <3>5, BoardPagesAssumption DEF HeldAtHome, Card, CardStates
  <2> QED
    BY <1>1, <2>1 DEF Cards
<1>2. CASE ctx.current # AllMailboxes
  <2>1. ctx.db \in Accounts /\ ctx.current = ctx.db
    BY <1>2, Selection
  <2> DEFINE a == ctx.db
  <2>2. ASSUME NEW i \in CardsOfOne(a)
        PROVE  i \in CardStates /\ i.of \in home[i.mail] /\ i.form = None /\ i.of = a
    <3>1. PICK m \in Mail : i = Card(a, m, None) /\ Holds(a, m)
      BY DEF CardsOfOne
    <3>2. column[a][m] \in Column
      BY <2>1, <3>1 DEF Holds, PagesTypeOK
    <3> QED
      BY <2>1, <3>1, <3>2 DEF HeldAtHome, Card, CardStates
  <2> QED
    BY <1>2, <2>1, <2>2 DEF Cards
<1> QED
  BY <1>1, <1>2

LEMMA DetailShown ==
    ASSUME PagesTypeOK, HeldAtHome, NEW q \in Queries, NEW c \in Queries, ~Refused(q),
           NEW m \in Mail, NEW of \in Accounts, of \in home[m],
           Detail(Selected(q, c), of, m) # Broken
    PROVE  LET ctx == Selected(q, c)
               d == Detail(ctx, of, m) IN
           /\ d \in Panels /\ d.of = of /\ d.mail = m
           /\ d.form \in home[m] \cup {None}
           /\ ctx.current # AllMailboxes => d.form = ctx.current
           /\ d.form \in {None, ctx.current}
<1> DEFINE ctx == Selected(q, c)
           d == Detail(ctx, of, m)
<1>1. ctx.db \in Accounts /\ (ctx.current # AllMailboxes => ctx.current = ctx.db)
  BY Selection
<1>2. /\ Holds(ctx.db, m)
      /\ d = [of |-> of, mail |-> m,
              form |-> IF ctx.current = AllMailboxes THEN None ELSE ctx.current]
  BY DEF Detail
<1>3. ctx.db \in home[m]
  BY <1>1, <1>2 DEF HeldAtHome
<1> HIDE DEF ctx, d
<1>4. d.of = of /\ d.mail = m /\ d.form = IF ctx.current = AllMailboxes THEN None ELSE ctx.current
  BY <1>2
<1>5. d \in Panels
  BY <1>1, <1>2 DEF Panels
<1>6. d.form \in home[m] \cup {None}
  BY <1>1, <1>3, <1>4
<1> QED
  BY <1>4, <1>5, <1>6 DEF ctx, d

-----------------------------------------------------------------------------
(* Steps that open, poll and close.                                        *)

PagesBase == PagesTypeOK /\ HeldAtHome /\ \A p \in Pages : PageInv(p)

LEMMA SilentRight ==
    ASSUME Silent PROVE ActsWhereShown' /\ last' \in [meant : SUBSET Accounts, hit : SUBSET Accounts, excused : BOOLEAN]
BY DEF Silent, NoForm, ActsWhereShown

\* While page p is open, every other page is crossed, and stays as it is.
LEMMA OnePage ==
    ASSUME PagesBase, NEW p \in Pages, page[p] # None \/ going[p] # Broken,
           UNCHANGED home,
           \A x \in Pages \ {p} : page'[x] \in {page[x], None},
           PageInv(p)'
    PROVE  \A x \in Pages : PageInv(x)'
<1> SUFFICES ASSUME NEW x \in Pages \ {p}, page'[x] # None PROVE PageInv(x)'
  BY DEF PageInv
<1>1. page'[x] = page[x] /\ page[x] # None
  OBVIOUS
<1>2. Honest(page[x]) /\ page[x].crossed
  BY <1>1 DEF PagesBase, PageInv, Alone
<1>3. Honest(page[x])'
  BY <1>1, <1>2 DEF Honest, Items, HasPanel
<1> QED
  BY <1>1, <1>2, <1>3 DEF PageInv

LEMMA LoadKeeps ==
    ASSUME PagesBase, NEW p \in Pages, NEW q \in Queries, Load(p, q)
    PROVE  PagesBase' /\ ActsWhereShown'
<1> DEFINE ctx == Selected(q, cookie)
           pg == Loaded(ctx, Opened \ {p} # {})
<1> USE DEF PagesBase
<1>1. UNCHANGED <<accounts, column, home, events>> /\ Silent /\ cookie \in Queries
  BY DEF Load, PagesTypeOK
<1>2. /\ page' = [x \in Pages |-> IF x # p THEN Crossed(page[x])
                                 ELSE IF Refused(q) THEN None ELSE pg]
      /\ going' = [going EXCEPT ![p] = Broken]
      /\ cookie' = IF Refused(q) THEN cookie ELSE Armed(q, cookie)
  BY DEF Load
<1>3. ASSUME NEW x \in Pages \ {p}
      PROVE  page'[x] \in PageStates \cup {None} /\ PageInv(x)'
  <2>1. page'[x] = Crossed(page[x])
    BY <1>2
  <2>2. CASE page[x] = None
    BY <2>1, <2>2 DEF Crossed, PageInv
  <2>3. CASE page[x] # None
    <3>1. page[x] \in PageStates /\ Honest(page[x])
      BY <2>3 DEF PagesTypeOK, PageInv
    <3>2. page'[x] = [page[x] EXCEPT !.crossed = TRUE]
      BY <2>1, <2>3 DEF Crossed
    <3>3. page'[x] \in PageStates /\ page'[x].crossed
          /\ page'[x].qs = page[x].qs /\ page'[x].cards = page[x].cards
          /\ page'[x].panel = page[x].panel
      BY <3>1, <3>2 DEF PageStates
    <3>4. Honest(page[x])'
      BY <1>1, <3>1, <3>3 DEF Honest, Items, HasPanel
    <3> QED
      BY <3>3, <3>4 DEF PageInv
  <2> QED
    BY <2>2, <2>3
<1>4. CASE Refused(q)
  <2>1. page'[p] = None
    BY <1>2, <1>4
  <2> QED
    BY <1>1, <1>2, <1>3, <1>4, <2>1, SilentRight DEF PagesTypeOK, HeldAtHome, Holds, PageInv
<1>5. CASE ~Refused(q)
  <2>1. page'[p] = pg
    BY <1>2, <1>5
  <2>2. /\ pg.qs \in Queries /\ pg.cards = Cards(ctx) /\ pg.panel = None
        /\ pg.forced = FALSE /\ pg.crossed = (Opened \ {p} # {})
        /\ ctx.current = AllMailboxes => pg.qs = AllMailboxes
        /\ ctx.current # AllMailboxes => pg.qs \in {None, ctx.current}
        /\ pg = [qs |-> pg.qs, cards |-> pg.cards, panel |-> None,
                 forced |-> FALSE, crossed |-> pg.crossed]
    <3>1. ctx.db \in Accounts /\ (ctx.current # AllMailboxes => ctx.current = ctx.db)
      BY <1>1, <1>5, Selection
    <3> HIDE DEF ctx
    <3> QED
      BY <3>1 DEF Loaded, Cards, BoardOfAll, BoardOfOne, Queries
  <2>3. /\ pg.cards \subseteq CardStates
        /\ \A i \in pg.cards : i.of \in home[i.mail] /\ i.form \in home[i.mail] \cup {None}
        /\ ctx.current = AllMailboxes => \A i \in pg.cards : i.form # None
        /\ ctx.current # AllMailboxes => \A i \in pg.cards : i.of = ctx.current /\ i.form = None
    BY <1>1, <1>5, <2>2, CardsShown
  <2>4. ctx.current # AllMailboxes => ctx.current \in Accounts
    BY <1>1, <1>5, Selection
  <2>5. Cur' = ctx.current
    <3>1. cookie' = Armed(q, cookie) /\ ctx = Selected(None, Armed(q, cookie))
      BY <1>1, <1>2, <1>5, Selection
    <3> QED
      BY <1>1, <3>1 DEF Cur, Selected, Ids
  <2> HIDE DEF pg, ctx
  <2>6. pg \in PageStates
    BY <2>2, <2>3 DEF PageStates
  <2>7. Items(pg) = pg.cards
    BY <2>2 DEF Items, HasPanel
  <2>8. Honest(page[p])'
    <3>1. Items(page[p])' = pg.cards
      BY <2>1, <2>7 DEF Items, HasPanel
    <3> QED
      BY <1>1, <2>1, <2>2, <2>3, <2>4, <3>1, BoardPagesAssumption DEF Honest, HasPanel
  <2>9. ~pg.crossed => Alone(p)'
    BY <1>2, <2>2 DEF Alone, Opened, Crossed, PagesTypeOK
  <2>10. pg.qs # AllMailboxes => ShowsCurrent(page[p])'
    <3>1. Items(page[p])' = pg.cards
      BY <2>1, <2>7 DEF Items, HasPanel
    <3> QED
      BY <2>1, <2>2, <2>3, <2>5, <3>1 DEF ShowsCurrent
  <2>11. PageInv(p)'
    BY <2>1, <2>8, <2>9, <2>10 DEF PageInv
  <2>12. PagesTypeOK'
    <3>1. cookie' \in Queries
      BY <1>2, <1>5, <1>1 DEF Armed
    <3>2. page' \in [Pages -> PageStates \cup {None}]
      BY <1>2, <1>3, <2>1, <2>6
    <3> QED
      BY <1>1, <1>2, <3>1, <3>2, SilentRight DEF PagesTypeOK
  <2> QED
    BY <1>1, <1>3, <2>11, <2>12, SilentRight DEF HeldAtHome, Holds
<1> QED
  BY <1>4, <1>5

LEMMA CloseKeeps ==
    ASSUME PagesBase, NEW p \in Pages, Close(p)
    PROVE  PagesBase' /\ ActsWhereShown'
<1> USE DEF PagesBase
<1>1. UNCHANGED <<accounts, column, cookie, home, events>> /\ Silent /\ page'[p] = None
  BY DEF Close, PagesTypeOK
<1>2. \A x \in Pages : PageInv(x)'
  BY <1>1, OnePage DEF Close, Opened, PagesTypeOK, PageInv
<1>3. PagesTypeOK'
  BY <1>1, SilentRight DEF Close, PagesTypeOK
<1> QED
  BY <1>1, <1>2, <1>3, SilentRight DEF HeldAtHome, Holds

\* A step on an open page p that leaves what it shows honest: the rest stays.
LEMMA PageStays ==
    ASSUME PagesBase, NEW p \in Pages, page[p] # None,
           UNCHANGED <<home, going>>,
           NEW pg \in PageStates, page' = [page EXCEPT ![p] = pg],
           pg.crossed = page[p].crossed, pg.qs = page[p].qs, Honest(pg),
           ShowsCurrent(page[p]) => ShowsCurrent(pg) /\ Cur' = Cur
    PROVE  page' \in [Pages -> PageStates \cup {None}] /\ \A x \in Pages : PageInv(x)'
<1> USE DEF PagesBase
<1>1. page'[p] = pg /\ \A x \in Pages \ {p} : page'[x] = page[x]
  BY DEF PagesTypeOK
<1>2. Items(page[p])' = Items(pg)
  BY <1>1 DEF Items, HasPanel
<1>3. Honest(page[p])'
  BY <1>1, <1>2 DEF Honest, HasPanel
<1>4. ShowsCurrent(page[p]) => ShowsCurrent(page[p])'
  BY <1>1, <1>2 DEF ShowsCurrent
<1>5. PageInv(p)'
  BY <1>1, <1>3, <1>4 DEF PageInv, Alone
<1>6. \A x \in Pages : PageInv(x)'
  BY <1>1, <1>5, OnePage
<1> QED
  BY <1>6 DEF PagesTypeOK

LEMMA PageKeeps ==
    ASSUME PagesBase, NEW p \in Pages, page[p] # None,
           UNCHANGED <<accounts, column, home, going, events>>, Silent, cookie' \in Queries,
           NEW pg \in PageStates, page' = [page EXCEPT ![p] = pg],
           pg.crossed = page[p].crossed, pg.qs = page[p].qs, Honest(pg),
           ShowsCurrent(page[p]) => ShowsCurrent(pg) /\ Cur' = Cur
    PROVE  PagesBase' /\ ActsWhereShown'
<1>1. page' \in [Pages -> PageStates \cup {None}] /\ \A x \in Pages : PageInv(x)'
  BY PageStays
<1> QED
  BY <1>1, SilentRight DEF PagesBase, PagesTypeOK, HeldAtHome, Holds

LEMMA CurKept ==
    ASSUME UNCHANGED accounts, Selected(None, cookie').current = Cur
    PROVE  Cur' = Cur
BY DEF Cur, Selected, Ids

LEMMA PollKeeps ==
    ASSUME PagesBase, NEW p \in Pages, Poll(p)
    PROVE  PagesBase' /\ ActsWhereShown'
<1> USE DEF PagesBase
<1> DEFINE q == page[p].qs
           ctx == Selected(q, cookie)
<1>1. /\ page[p] # None /\ page[p] \in PageStates /\ Honest(page[p])
      /\ q \in Queries /\ cookie \in Queries
      /\ UNCHANGED <<accounts, column, home, going, events>> /\ Silent
  BY DEF Poll, PagesTypeOK, PageInv, PageStates
<1>2. CASE Refused(q)
  <2> DEFINE pg == [page[p] EXCEPT !.forced = FALSE]
  <2>1. pg \in PageStates /\ pg.crossed = page[p].crossed /\ pg.qs = q
        /\ pg.cards = page[p].cards /\ pg.panel = page[p].panel
    BY <1>1 DEF PageStates
  <2>2. page' = [page EXCEPT ![p] = pg] /\ cookie' = cookie
    BY <1>2 DEF Poll
  <2> HIDE DEF pg
  <2>3. Honest(pg) /\ (ShowsCurrent(page[p]) => ShowsCurrent(pg))
    BY <1>1, <2>1 DEF Honest, ShowsCurrent, Items, HasPanel
  <2>4. Cur' = Cur
    BY <1>1, <2>2, CurKept DEF Cur
  <2> QED
    BY <1>1, <2>1, <2>2, <2>3, <2>4, PageKeeps
<1>3. CASE ~Refused(q)
  <2> DEFINE pg == [page[p] EXCEPT !.forced = FALSE, !.cards = Cards(ctx)]
  <2>1. /\ Cards(ctx) \subseteq CardStates
        /\ \A i \in Cards(ctx) : i.of \in home[i.mail] /\ i.form \in home[i.mail] \cup {None}
        /\ ctx.current = AllMailboxes => \A i \in Cards(ctx) : i.form # None
        /\ ctx.current # AllMailboxes => \A i \in Cards(ctx) : i.of = ctx.current /\ i.form = None
    BY <1>1, <1>3, CardsShown
  <2>2. pg \in PageStates /\ pg.crossed = page[p].crossed /\ pg.qs = q
        /\ pg.cards = Cards(ctx) /\ pg.panel = page[p].panel
    BY <1>1, <2>1 DEF PageStates
  <2>3. page' = [page EXCEPT ![p] = pg] /\ cookie' = Armed(q, cookie)
    BY <1>3 DEF Poll
  <2>4. /\ q = AllMailboxes => ctx.current = AllMailboxes
        /\ q \in Accounts => ctx.current = q
    BY <1>1, <1>3, Selection
  <2>5. ShowsCurrent(page[p]) => ctx.current = Cur /\ Cur' = Cur
    BY <1>1, <2>3, CookieKept, CurKept DEF ShowsCurrent, After
  <2> HIDE DEF pg, ctx
  <2>6. Honest(pg)
    BY <1>1, <2>1, <2>2, <2>4, BoardPagesAssumption DEF Honest, Items, HasPanel
  <2>7. ShowsCurrent(page[p]) => ShowsCurrent(pg)
    BY <1>1, <2>1, <2>2, <2>5 DEF ShowsCurrent, Items, HasPanel
  <2>8. cookie' \in Queries
    BY <1>1, <2>3 DEF Armed
  <2> QED
    BY <1>1, <2>2, <2>3, <2>5, <2>6, <2>7, <2>8, PageKeeps
<1> QED
  BY <1>2, <1>3

LEMMA FetchKeeps ==
    ASSUME PagesBase, NEW p \in Pages, FetchFolders(p)
    PROVE  PagesBase' /\ ActsWhereShown'
<1> USE DEF PagesBase
<1>1. PICK card \in page[p].cards : cookie' = After(FolderQuery(p, card))
  BY DEF FetchFolders, After
<1>2. /\ page[p] # None /\ page[p] \in PageStates /\ Honest(page[p]) /\ cookie \in Queries
      /\ UNCHANGED <<accounts, column, home, going, events, page>> /\ Silent
  BY DEF FetchFolders, PagesTypeOK, PageInv
<1>3. FolderQuery(p, card) \in Queries
  BY <1>2 DEF FolderQuery, PageStates, CardStates, Queries
<1>4. ShowsCurrent(page[p]) => Cur' = Cur
  <2>1. ShowsCurrent(page[p]) => FolderQuery(p, card) \in {None, Cur} /\ Cur # AllMailboxes
    BY DEF ShowsCurrent, FolderQuery
  <2> QED
    BY <1>1, <1>2, <2>1, CookieKept, CurKept
<1>5. cookie' \in Queries
  BY <1>1, <1>2, <1>3 DEF After, Armed
<1>6. page' = [page EXCEPT ![p] = page[p]]
  BY <1>2 DEF PagesTypeOK
<1> QED
  BY <1>2, <1>4, <1>5, <1>6, PageKeeps

LEMMA OpenDetailKeeps ==
    ASSUME PagesBase, NEW p \in Pages, OpenDetail(p)
    PROVE  PagesBase' /\ ActsWhereShown'
<1> USE DEF PagesBase
<1>1. PICK card \in page[p].cards :
         LET q == DetailQuery(p, card)
             shown == IF Refused(q) THEN Broken
                      ELSE Detail(Selected(q, cookie), card.of, card.mail)
         IN page' = [page EXCEPT ![p].panel = shown, ![p].forced = shown # Broken]
  BY DEF OpenDetail
<1>2. /\ page[p] # None /\ page[p] \in PageStates /\ Honest(page[p]) /\ cookie \in Queries
      /\ UNCHANGED <<accounts, column, home, going, events, cookie>> /\ Silent
  BY DEF OpenDetail, PagesTypeOK, PageInv
<1> DEFINE q == DetailQuery(p, card)
           ctx == Selected(q, cookie)
           shown == IF Refused(q) THEN Broken ELSE Detail(ctx, card.of, card.mail)
           pg == [page[p] EXCEPT !.panel = shown, !.forced = shown # Broken]
<1>3. page' = [page EXCEPT ![p] = pg]
  BY <1>1
<1>4. /\ q \in Queries /\ card.of \in Accounts /\ card.mail \in Mail
      /\ card.of \in home[card.mail]
  BY <1>2 DEF DetailQuery, PageStates, CardStates, Queries, Honest, Items
<1>5. shown # Broken =>
        /\ shown \in Panels /\ shown.of = card.of /\ shown.mail = card.mail
        /\ shown.form \in home[card.mail] \cup {None}
        /\ shown.form \in {None, ctx.current}
        /\ ctx.current # AllMailboxes => shown.form = ctx.current
  BY <1>2, <1>4, DetailShown
<1>6. /\ q \in Accounts /\ ~Refused(q) => ctx.current = q
  BY <1>2, <1>4, Selection
<1>7. /\ page[p].qs \in Accounts => q = page[p].qs
      /\ ShowsCurrent(page[p]) => q \in {None, Cur} \/ page[p].qs = AllMailboxes
  BY BoardPagesAssumption DEF DetailQuery, ShowsCurrent
<1>8. ShowsCurrent(page[p]) => ctx.current = Cur
  BY <1>2, <1>7, CookieKept, BoardPagesAssumption DEF ShowsCurrent
<1>9. shown # Broken => ~Refused(q)
  OBVIOUS
<1> HIDE DEF q, ctx, shown
<1>10. pg \in PageStates /\ pg.crossed = page[p].crossed /\ pg.qs = page[p].qs
       /\ pg.cards = page[p].cards /\ pg.panel = shown
  BY <1>2, <1>5 DEF PageStates
<1> HIDE DEF pg
<1>11. Honest(pg)
  BY <1>2, <1>4, <1>5, <1>6, <1>7, <1>9, <1>10, BoardPagesAssumption DEF Honest, Items, HasPanel
<1>12. ShowsCurrent(page[p]) => ShowsCurrent(pg)
  BY <1>5, <1>8, <1>10 DEF ShowsCurrent, Items, HasPanel
<1>13. Cur' = Cur
  BY <1>2, CurKept DEF Cur
<1> QED
  BY <1>2, <1>3, <1>10, <1>11, <1>12, <1>13, PageKeeps

LEMMA CloseDetailKeeps ==
    ASSUME PagesBase, NEW p \in Pages, CloseDetail(p)
    PROVE  PagesBase' /\ ActsWhereShown'
<1> USE DEF PagesBase
<1> DEFINE pg == [page[p] EXCEPT !.panel = None]
<1>1. /\ page[p] # None /\ page[p] \in PageStates /\ Honest(page[p]) /\ cookie \in Queries
      /\ UNCHANGED <<accounts, column, home, going, events, cookie>> /\ Silent
      /\ page' = [page EXCEPT ![p] = pg]
  BY DEF CloseDetail, PagesTypeOK, PageInv
<1>2. pg \in PageStates /\ pg.crossed = page[p].crossed /\ pg.qs = page[p].qs
      /\ pg.cards = page[p].cards /\ pg.panel = None
  BY <1>1 DEF PageStates
<1> HIDE DEF pg
<1>3. Honest(pg) /\ (ShowsCurrent(page[p]) => ShowsCurrent(pg))
  BY <1>1, <1>2 DEF Honest, ShowsCurrent, Items, HasPanel
<1>4. Cur' = Cur
  BY <1>1, CurKept DEF Cur
<1> QED
  BY <1>1, <1>2, <1>3, <1>4, PageKeeps

-----------------------------------------------------------------------------
(* Forms.                                                                  *)

LastTypes == last' \in [meant : SUBSET Accounts, hit : SUBSET Accounts, excused : BOOLEAN]

\* A form on one mail changes the account it was meant for, if it is sent to the
\* account the cookie selects and that is the one shown, or names an account
\* that has the mail.
LEMMA ActRight ==
    ASSUME PagesBase, NEW path, NEW q \in Queries, NEW c \in Queries, NEW m \in Mail,
           NEW of \in Accounts, NEW excused \in BOOLEAN,
           Act(path, q, c, m, of, excused), UNCHANGED home, of \in home[m],
           excused \/ (q = None /\ Selected(None, c).db = of) \/ q \in home[m]
    PROVE  /\ ActsWhereShown' /\ LastTypes /\ HeldAtHome'
           /\ column' \in [Accounts -> [Mail -> Column \cup {"none"}]]
           /\ events' \in 0..MaxEvents
<1> USE DEF PagesBase
<1> DEFINE ctx == Selected(q, c)
           hit == IF Refused(q) THEN {} ELSE Found(path, ctx, m)
           meant == {a \in {of} : Holds(a, m)}
           pardon == \/ excused
                     \/ of \notin Ids
                     \/ Shared(m) /\ (path = "/delete" \/ q \notin {None, of})
<1>1. last' = [meant |-> meant, hit |-> hit, excused |-> pardon] /\ events' \in 0..MaxEvents
  BY BoardPagesAssumption DEF Act, Note, Event, PagesTypeOK
<1>2. PICK to \in Column \cup {"none"} :
          column' = [a \in Accounts |->
              IF a \in hit THEN [column[a] EXCEPT ![m] = to] ELSE column[a]]
  BY DEF Act
<1>3. ~Refused(q) => ctx.db \in Accounts
  BY Selection
<1>4. hit \subseteq Accounts /\ \A a \in hit : Holds(a, m)
  <2>1. \A i \in Holders(m) : accounts[i] \in Accounts /\ Holds(accounts[i], m)
    BY AccountFacts DEF Holders, Ids, ToSet
  <2> HIDE DEF ctx
  <2> QED
    BY <1>3, <2>1 DEF Found, Holders
<1>5. LastTypes
  BY <1>1, <1>4 DEF LastTypes
<1>6. column' \in [Accounts -> [Mail -> Column \cup {"none"}]]
  BY <1>2 DEF PagesTypeOK
<1>7. HeldAtHome'
  <2> SUFFICES ASSUME NEW a \in Accounts, NEW x \in Mail, Holds(a, x)' PROVE a \in home[x]
    BY DEF HeldAtHome
  <2> HIDE DEF hit
  <2>1. CASE a \in hit /\ x = m
    BY <1>4, <2>1 DEF HeldAtHome
  <2>2. CASE ~(a \in hit /\ x = m)
    <3>1. column'[a][x] = column[a][x]
      BY <1>2, <2>2 DEF PagesTypeOK
    <3> QED
      BY <3>1 DEF HeldAtHome, Holds
  <2> QED
    BY <2>1, <2>2
<1>8. ActsWhereShown'
  <2> SUFFICES ASSUME ~pardon PROVE hit = meant
    BY <1>1 DEF ActsWhereShown
  <2>1. of \in Ids /\ ~excused
    OBVIOUS
  <2>2. q \in home[m] => q = of \/ q \notin {None, of}
    BY BoardPagesAssumption DEF PagesTypeOK
  <2>3. q = None \/ q = of
    BY <2>1, <2>2 DEF Shared
  <2>4. ~Refused(q) /\ ctx.db = of
    <3>1. ~Refused(q)
      BY <2>1, <2>3 DEF Refused
    <3>2. q = of => ctx.db = of
      BY <3>1, Selection
    <3>3. q = None => Selected(None, c).db = of
      BY <2>1, BoardPagesAssumption DEF PagesTypeOK
    <3> QED
      BY <2>3, <3>1, <3>2, <3>3
  <2>5. hit = Found(path, ctx, m)
    BY <2>4
  <2>6. CASE Holds(of, m)
    BY <2>4, <2>5, <2>6 DEF Found
  <2>7. CASE ~Holds(of, m)
    <3>1. \A a \in hit : a \in home[m] /\ a # of
      BY <1>4, <2>7 DEF HeldAtHome
    <3>2. path = "/delete" => hit = {}
      BY <3>1 DEF Shared
    <3>3. path # "/delete" => hit = {}
      BY <2>4, <2>5, <2>7 DEF Found
    <3> QED
      BY <2>7, <3>2, <3>3
  <2> QED
    BY <2>6, <2>7
<1> QED
  BY <1>1, <1>5, <1>6, <1>7, <1>8

\* On a page nobody crossed, a form without a query goes to the account shown.
LEMMA AloneActsOnIt ==
    ASSUME PagesBase, NEW p \in Pages, page[p] # None, ~page[p].crossed,
           page[p].qs # AllMailboxes
    PROVE  /\ ShowsCurrent(page[p]) /\ Cur \in Ids
           /\ Selected(None, cookie).db = Cur /\ Selected(None, cookie).current = Cur
           /\ \A i \in Items(page[p]) : i.of = Cur
<1>1. ShowsCurrent(page[p])
  BY DEF PagesBase, PageInv
<1> QED
  BY <1>1, CookieKept DEF PagesBase, ShowsCurrent

LEMMA SubmitCardKeeps ==
    ASSUME PagesBase, NEW p \in Pages, SubmitCard(p)
    PROVE  PagesBase' /\ ActsWhereShown'
<1> USE DEF PagesBase
<1>1. PICK card \in page[p].cards, path \in CardPaths :
          /\ Act(path, card.form, cookie, card.mail, card.of, card.form = None /\ page[p].crossed)
          /\ going' = [going EXCEPT ![p] = IF last'.hit = {} THEN Broken
                                           ELSE IF card.form = None THEN None
                                           ELSE AllMailboxes]
          /\ cookie' = After(card.form)
  BY DEF SubmitCard
<1>2. /\ page[p] # None /\ page[p] \in PageStates /\ Honest(page[p]) /\ cookie \in Queries
      /\ UNCHANGED <<accounts, home>> /\ page' = [page EXCEPT ![p] = None]
  BY DEF SubmitCard, PagesTypeOK, PageInv
<1>3. /\ card.of \in Accounts /\ card.mail \in Mail /\ card.form \in Queries
      /\ card.of \in home[card.mail] /\ card.form \in home[card.mail] \cup {None}
      /\ page[p].crossed \in BOOLEAN
  BY <1>2 DEF PageStates, CardStates, Queries, Honest, Items
<1>4. ~page[p].crossed /\ card.form = None => Selected(None, cookie).db = card.of
  BY <1>2, AloneActsOnIt DEF Honest, Items
<1>5. /\ ActsWhereShown' /\ LastTypes /\ HeldAtHome'
      /\ column' \in [Accounts -> [Mail -> Column \cup {"none"}]]
      /\ events' \in 0..MaxEvents
  BY <1>1, <1>2, <1>3, <1>4, ActRight
<1>6. \A x \in Pages : PageInv(x)'
  BY <1>2, OnePage DEF PageInv, PagesTypeOK
<1>7. PagesTypeOK'
  <2>1. cookie' \in Queries
    BY <1>1, <1>2, <1>3 DEF After, Armed
  <2>2. going' \in [Pages -> {None, AllMailboxes, Broken}]
    BY <1>1 DEF PagesTypeOK
  <2> QED
    BY <1>2, <1>5, <2>1, <2>2 DEF PagesTypeOK, LastTypes
<1> QED
  BY <1>5, <1>6, <1>7

LEMMA PickFolderKeeps ==
    ASSUME PagesBase, NEW p \in Pages, PickFolder(p)
    PROVE  PagesBase' /\ ActsWhereShown'
<1> USE DEF PagesBase
<1>1. PICK card \in page[p].cards :
          /\ Act("/archive-proposal", FolderQuery(p, card), cookie, card.mail, card.of,
                 FolderQuery(p, card) = None /\ page[p].crossed)
          /\ page' = [page EXCEPT ![p].forced = @ \/ last'.hit # {}]
          /\ cookie' = After(FolderQuery(p, card))
  BY DEF PickFolder
<1> DEFINE q == FolderQuery(p, card)
           pg == [page[p] EXCEPT !.forced = @ \/ last'.hit # {}]
<1>2. /\ page[p] # None /\ page[p] \in PageStates /\ Honest(page[p]) /\ cookie \in Queries
      /\ UNCHANGED <<accounts, home, going>>
  BY DEF PickFolder, PagesTypeOK, PageInv
<1>3. /\ card.of \in Accounts /\ card.mail \in Mail /\ q \in Queries
      /\ card.of \in home[card.mail] /\ page[p].crossed \in BOOLEAN
  BY <1>2 DEF PageStates, CardStates, Queries, Honest, Items, FolderQuery
<1>4. q \in home[card.mail] \/ (q = None /\ page[p].qs # AllMailboxes)
  <2>1. CASE card.form # None
    BY <1>2, <2>1 DEF Honest, Items, FolderQuery
  <2>2. CASE card.form = None
    BY <1>2, <1>3, <2>2, BoardPagesAssumption DEF Honest, Items, FolderQuery, PageStates, Queries
  <2> QED
    BY <2>1, <2>2
<1>5. q = None /\ ~page[p].crossed => q \in home[card.mail] \/ Selected(None, cookie).db = card.of
  BY <1>2, <1>4, AloneActsOnIt DEF Items
<1>6. /\ ActsWhereShown' /\ LastTypes /\ HeldAtHome'
      /\ column' \in [Accounts -> [Mail -> Column \cup {"none"}]]
      /\ events' \in 0..MaxEvents
  BY <1>1, <1>2, <1>3, <1>4, <1>5, ActRight
<1>7. page' = [page EXCEPT ![p] = pg]
  BY <1>1
<1>8. pg \in PageStates /\ pg.crossed = page[p].crossed /\ pg.qs = page[p].qs
      /\ pg.cards = page[p].cards /\ pg.panel = page[p].panel
  BY <1>2 DEF PageStates
<1>9. ShowsCurrent(page[p]) => Cur' = Cur
  <2>1. ShowsCurrent(page[p]) => q \in {None, Cur} /\ Cur # AllMailboxes
    BY DEF ShowsCurrent, FolderQuery
  <2> QED
    BY <1>1, <1>2, <2>1, CookieKept, CurKept
<1>10. cookie' \in Queries
  BY <1>1, <1>2, <1>3 DEF After, Armed
<1> HIDE DEF q, pg
<1>11. Honest(pg) /\ (ShowsCurrent(page[p]) => ShowsCurrent(pg))
  BY <1>2, <1>8 DEF Honest, ShowsCurrent, Items, HasPanel
<1>12. page' \in [Pages -> PageStates \cup {None}] /\ \A x \in Pages : PageInv(x)'
  BY <1>2, <1>7, <1>8, <1>9, <1>11, PageStays
<1> QED
  BY <1>2, <1>6, <1>10, <1>12 DEF PagesTypeOK, LastTypes

LEMMA SubmitDetailKeeps ==
    ASSUME PagesBase, NEW p \in Pages, SubmitDetail(p)
    PROVE  PagesBase' /\ ActsWhereShown'
<1> USE DEF PagesBase
<1> DEFINE panel == page[p].panel
<1>1. PICK path \in {"/move", "/save-notes"} :
          LET q == IF path = "/move" THEN panel.form ELSE None
              again == IF Refused(panel.form) THEN Broken
                       ELSE Detail(Selected(panel.form, After(q)), panel.of, panel.mail)
          IN /\ Act(path, q, cookie, panel.mail, panel.of,
                    q = None /\ (page[p].crossed \/ page[p].qs = AllMailboxes))
             /\ page' = [page EXCEPT
                   ![p].panel = IF last'.hit = {} THEN Broken ELSE again,
                   ![p].forced = @ \/ (last'.hit # {} /\ again # Broken)]
             /\ cookie' = After(q)
  BY DEF SubmitDetail
<1> DEFINE q == IF path = "/move" THEN panel.form ELSE None
           ctx == Selected(panel.form, After(q))
           again == IF Refused(panel.form) THEN Broken ELSE Detail(ctx, panel.of, panel.mail)
           shown == IF last'.hit = {} THEN Broken ELSE again
           pg == [page[p] EXCEPT !.panel = shown,
                                 !.forced = @ \/ (last'.hit # {} /\ again # Broken)]
<1>2. /\ page[p] # None /\ page[p] \in PageStates /\ Honest(page[p]) /\ cookie \in Queries
      /\ HasPanel(page[p]) /\ UNCHANGED <<accounts, home, going>>
  BY DEF SubmitDetail, PagesTypeOK, PageInv, HasPanel
<1>3. /\ panel \in Panels /\ panel \in Items(page[p])
      /\ panel.of \in Accounts /\ panel.mail \in Mail /\ panel.form \in Accounts \cup {None}
      /\ page[p].crossed \in BOOLEAN
  BY <1>2 DEF PageStates, Panels, HasPanel, Items
<1>4. /\ q \in Queries /\ panel.form \in Queries /\ q \in {None, panel.form}
      /\ panel.of \in home[panel.mail] /\ panel.form \in home[panel.mail] \cup {None}
  BY <1>2, <1>3 DEF Queries, Honest
<1>5. q = None /\ ~page[p].crossed /\ page[p].qs # AllMailboxes
         => Selected(None, cookie).db = panel.of
  BY <1>2, <1>3, AloneActsOnIt
<1>6. Act(path, q, cookie, panel.mail, panel.of,
          q = None /\ (page[p].crossed \/ page[p].qs = AllMailboxes))
  BY <1>1
<1>7. page' = [page EXCEPT ![p] = pg] /\ cookie' = After(q)
  BY <1>1
<1>8. After(q) \in Queries
  BY <1>2, <1>4 DEF After, Armed
<1>9. again # Broken =>
        /\ again \in Panels /\ again.of = panel.of /\ again.mail = panel.mail
        /\ again.form \in home[panel.mail] \cup {None}
        /\ again.form \in {None, ctx.current}
        /\ ctx.current # AllMailboxes => again.form = ctx.current
        /\ ~Refused(panel.form)
  BY <1>3, <1>4, <1>8, DetailShown
<1>10. panel.form \in Accounts /\ ~Refused(panel.form) => ctx.current = panel.form
  BY <1>4, <1>8, Selection
<1>11. ShowsCurrent(page[p]) =>
         /\ q \in {None, Cur} /\ panel.form \in {None, Cur} /\ Cur # AllMailboxes
         /\ panel.of = Cur
  BY <1>3, <1>4 DEF ShowsCurrent
<1>12. ShowsCurrent(page[p]) => Cur' = Cur /\ ctx.current = Cur
  <2> SUFFICES ASSUME ShowsCurrent(page[p]) PROVE Cur' = Cur /\ ctx.current = Cur
    OBVIOUS
  <2>1. Selected(None, After(q)).current = Cur /\ Cur \in Accounts /\ ~Refused(Cur)
    BY <1>11, CookieKept
  <2>2. ctx.current = Cur
    BY <1>10, <1>11, <2>1
  <2>3. Cur' = Cur
    BY <1>2, <1>7, <2>1, CurKept
  <2> QED
    BY <2>2, <2>3
<1> HIDE DEF q, ctx, again, panel
<1>13. /\ ActsWhereShown' /\ LastTypes /\ HeldAtHome'
       /\ column' \in [Accounts -> [Mail -> Column \cup {"none"}]]
       /\ events' \in 0..MaxEvents
  BY <1>2, <1>3, <1>4, <1>5, <1>6, ActRight
<1>14. shown # Broken => shown = again /\ again # Broken
  OBVIOUS
<1> HIDE DEF shown
<1>15. pg \in PageStates /\ pg.crossed = page[p].crossed /\ pg.qs = page[p].qs
       /\ pg.cards = page[p].cards /\ pg.panel = shown
  BY <1>2, <1>9, <1>14 DEF PageStates
<1> HIDE DEF pg
<1>16. Honest(pg)
  <2>1. HasPanel(pg) => shown = again /\ again # Broken
    BY <1>14, <1>15 DEF HasPanel
  <2>2. page[p].qs \in Accounts => panel.of = page[p].qs /\ panel.form = page[p].qs
    BY <1>2, <1>3 DEF Honest, panel
  <2>3. HasPanel(pg) /\ page[p].qs \in Accounts => again.form = page[p].qs
    BY <1>9, <1>10, <2>1, <2>2, BoardPagesAssumption
  <2> QED
    BY <1>2, <1>4, <1>9, <1>15, <2>1, <2>2, <2>3 DEF Honest, Items
<1>17. ShowsCurrent(page[p]) => ShowsCurrent(pg)
  BY <1>9, <1>11, <1>12, <1>14, <1>15 DEF ShowsCurrent, Items, HasPanel
<1>18. page' \in [Pages -> PageStates \cup {None}] /\ \A x \in Pages : PageInv(x)'
  BY <1>2, <1>7, <1>12, <1>15, <1>16, <1>17, PageStays
<1> QED
  BY <1>2, <1>7, <1>8, <1>13, <1>18 DEF PagesTypeOK, LastTypes

\* Which query a form of a column is sent with.
LEMMA ColumnQuery ==
    ASSUME NEW pg \in PageStates, Honest(pg), NEW form \in ColumnForms(pg),
           NEW card \in pg.cards
    PROVE  /\ form.from \in Column \ {"INBOX"}
           /\ form.q = AllMailboxes => form.path = "/batch-delete"
           /\ form.q \in {AllMailboxes, None} \/ (form.q \in Accounts /\ form.q = pg.qs)
           /\ form.q = None => pg.qs # AllMailboxes
           /\ Emptied(form) \in Column \cup {"none"}
<1> DEFINE mixed == \E c \in pg.cards : c.form # None
           form0(path, from, q) == [path |-> path, from |-> from, q |-> q]
<1>1. pg.qs \in Queries
  BY DEF PageStates
<1>2. pg.qs = AllMailboxes => mixed
  BY DEF Honest
<1>3. \/ form = form0("/batch-delete", "TO_DELETE", IF mixed THEN AllMailboxes ELSE None)
      \/ ~mixed /\ form = form0("/batch-archive", "TO_ARCHIVE", None)
      \/ ~mixed /\ \E from \in Column \ {"INBOX"} :
                       form = form0("/force-triage-column", from, None)
      \/ pg.qs # AllMailboxes /\ form = form0("/batch-archive-folder", "TO_ARCHIVE", pg.qs)
  BY DEF ColumnForms
<1> HIDE DEF mixed
<1> QED
  BY <1>1, <1>2, <1>3, BoardPagesAssumption DEF Column, Emptied, Queries

LEMMA SubmitColumnKeeps ==
    ASSUME PagesBase, NEW p \in Pages, SubmitColumn(p)
    PROVE  PagesBase' /\ ActsWhereShown'
<1> USE DEF PagesBase
<1> DEFINE shownIn(form) ==
               {card.of : card \in {x \in page[p].cards : x.column = form.from}}
           hitBy(form) == IF Refused(form.q) THEN {}
                          ELSE Reached(form, Selected(form.q, cookie))
           meantBy(form) == IF form.q = AllMailboxes THEN Ids ELSE shownIn(form)
           pardon(form) == (form.q = None /\ page[p].crossed) \/ ~(shownIn(form) \subseteq Ids)
<1>1. PICK form \in ColumnForms(page[p]) :
          /\ shownIn(form) # {}
          /\ column' = [a \in Accounts |-> [m \in Mail |->
                IF a \in hitBy(form) /\ column[a][m] = form.from
                THEN Emptied(form) ELSE column[a][m]]]
          /\ Note(With(meantBy(form), form.from), hitBy(form), pardon(form))
          /\ cookie' = After(form.q)
          /\ going' = [going EXCEPT ![p] = IF Refused(form.q) THEN Broken ELSE None]
  BY DEF SubmitColumn
<1> DEFINE shown == shownIn(form)
           hit == hitBy(form)
           q == form.q
           ctx == Selected(q, cookie)
<1>2. /\ page[p] # None /\ page[p] \in PageStates /\ Honest(page[p]) /\ cookie \in Queries
      /\ UNCHANGED <<accounts, home>> /\ page' = [page EXCEPT ![p] = None]
  BY DEF SubmitColumn, PagesTypeOK, PageInv
<1>3. PICK card \in page[p].cards : card.column = form.from
  BY <1>1
<1>4. /\ form.from \in Column \ {"INBOX"}
      /\ q = AllMailboxes => form.path = "/batch-delete"
      /\ q \in {AllMailboxes, None} \/ (q \in Accounts /\ q = page[p].qs)
      /\ q = None => page[p].qs # AllMailboxes
      /\ Emptied(form) \in Column \cup {"none"}
  BY <1>2, ColumnQuery
<1>5. q \in Queries
  BY <1>4 DEF Queries
<1>6. /\ last' = [meant |-> With(meantBy(form), form.from), hit |-> hit,
                  excused |-> pardon(form)]
      /\ events' \in 0..MaxEvents
  BY <1>1, BoardPagesAssumption DEF Note, Event, PagesTypeOK
<1>7. shown \subseteq Accounts
  BY <1>2 DEF PageStates, CardStates
<1>8. hit \subseteq Accounts
  BY <1>2, <1>5, Selection, AccountFacts DEF Reached, With
<1>9. LastTypes
  BY <1>2, <1>6, <1>7, <1>8, AccountFacts DEF LastTypes, With, PageStates
<1>10. ASSUME ~pardon(form) PROVE hit = With(meantBy(form), form.from)
  <2>1. CASE q = AllMailboxes
    <3>1. ~Refused(q) /\ ctx.current = AllMailboxes
      BY <1>2, <1>5, <2>1, Selection DEF Refused
    <3> QED
      BY <1>4, <2>1, <3>1 DEF Reached
  <2>2. CASE q # AllMailboxes
    <3>1. /\ ~Refused(q) /\ ctx.current # AllMailboxes
          /\ \A c \in page[p].cards : c.of = ctx.db
      <4>1. CASE q = None
        <5>1. page[p].qs # AllMailboxes /\ ~page[p].crossed
          BY <1>4, <1>10, <4>1
        <5> QED
          BY <1>2, <4>1, <5>1, AloneActsOnIt DEF Refused, ShowsCurrent, Items
      <4>2. CASE q # None
        <5>1. q \in Accounts /\ q = page[p].qs
          BY <1>4, <2>2, <4>2
        <5>2. \A c \in page[p].cards : c.of = q
          BY <1>2, <5>1 DEF Honest, Items
        <5>3. q \in Ids
          BY <1>3, <1>10, <5>2
        <5> QED
          BY <1>2, <1>5, <5>1, <5>2, <5>3, Selection, BoardPagesAssumption DEF Refused
      <4> QED
        BY <4>1, <4>2
    <3>2. shown = {ctx.db}
      BY <1>3, <3>1
    <3>3. Reached(form, ctx) = With({ctx.db}, form.from)
      BY <3>1 DEF Reached
    <3> QED
      BY <2>2, <3>1, <3>2, <3>3
  <2> QED
    BY <2>1, <2>2
<1>11. ActsWhereShown'
  BY <1>6, <1>10 DEF ActsWhereShown
<1>12. column' \in [Accounts -> [Mail -> Column \cup {"none"}]]
  BY <1>1, <1>4 DEF PagesTypeOK
<1>13. HeldAtHome'
  <2> SUFFICES ASSUME NEW a \in Accounts, NEW m \in Mail, Holds(a, m)' PROVE a \in home[m]
    BY <1>2 DEF HeldAtHome
  <2>1. column'[a][m] = column[a][m] \/ column[a][m] = form.from
    BY <1>1
  <2>2. Holds(a, m)
    BY <1>4, <2>1 DEF Holds, Column
  <2> QED
    BY <2>2 DEF HeldAtHome
<1>14. cookie' \in Queries
  BY <1>1, <1>2, <1>5 DEF After, Armed
<1>15. going' \in [Pages -> {None, AllMailboxes, Broken}]
  BY <1>1 DEF PagesTypeOK
<1>16. \A x \in Pages : PageInv(x)'
  BY <1>2, OnePage DEF PageInv, PagesTypeOK
<1>17. PagesTypeOK'
  BY <1>2, <1>6, <1>9, <1>12, <1>14, <1>15 DEF PagesTypeOK, LastTypes
<1> QED
  BY <1>11, <1>13, <1>16, <1>17

\* A step that leaves the pages, what they can be, and the cookie alone.
LEMMA PagesStay ==
    ASSUME PagesBase, UNCHANGED <<accounts, cookie, page, going, home>>
    PROVE  \A x \in Pages : PageInv(x)'
<1> SUFFICES ASSUME NEW x \in Pages, page[x] # None PROVE PageInv(x)'
  BY DEF PageInv
<1>1. /\ Honest(page[x])
      /\ ~page[x].crossed => Alone(x) /\ (page[x].qs # AllMailboxes => ShowsCurrent(page[x]))
  BY DEF PagesBase, PageInv
<1>2. Honest(page[x])'
  BY <1>1 DEF Honest, Items, HasPanel
<1>3. Cur' = Cur
  BY CurKept DEF Cur
<1>4. ShowsCurrent(page[x]) => ShowsCurrent(page[x])'
  BY <1>3 DEF ShowsCurrent, Items, HasPanel
<1> QED
  BY <1>1, <1>2, <1>4 DEF PageInv, Alone

LEMMA ClientSubmitsKeeps ==
    ASSUME PagesBase, ClientSubmits
    PROVE  PagesBase' /\ ActsWhereShown'
<1> USE DEF PagesBase
<1>1. PICK card \in Listed, path \in CardPaths :
          Act(path, card.form, None, card.mail, card.of, FALSE)
  BY DEF ClientSubmits
<1>2. UNCHANGED <<accounts, cookie, page, going, home>>
  BY DEF ClientSubmits
<1>3. /\ card.of \in Accounts /\ card.mail \in Mail /\ card.form = card.of
      /\ card.of \in home[card.mail] /\ card.form \in Queries /\ None \in Queries
  BY DEF Listed, ListedOf, Queries
<1>4. /\ ActsWhereShown' /\ LastTypes /\ HeldAtHome'
      /\ column' \in [Accounts -> [Mail -> Column \cup {"none"}]]
      /\ events' \in 0..MaxEvents
  BY <1>1, <1>2, <1>3, ActRight
<1>5. PagesTypeOK'
  BY <1>2, <1>4 DEF PagesTypeOK, LastTypes
<1> QED
  BY <1>2, <1>4, <1>5, PagesStay

LEMMA ChangeKeeps ==
    ASSUME PagesBase, Change
    PROVE  PagesBase' /\ ActsWhereShown'
<1> USE DEF PagesBase
<1>1. PICK m \in Mail, to \in Column \cup {"none"} : \E a \in home[m] :
          column' = [column EXCEPT ![a][m] = to]
  BY DEF Change
<1>2. PICK a \in home[m] : column' = [column EXCEPT ![a][m] = to]
  BY <1>1
<1>3. UNCHANGED <<accounts, cookie, page, going, home>> /\ Silent /\ events' \in 0..MaxEvents
  BY BoardPagesAssumption DEF Change, Event, PagesTypeOK
<1>4. a \in Accounts
  BY DEF PagesTypeOK
<1>5. column' \in [Accounts -> [Mail -> Column \cup {"none"}]]
  BY <1>2, <1>4 DEF PagesTypeOK
<1>6. HeldAtHome'
  <2> SUFFICES ASSUME NEW b \in Accounts, NEW x \in Mail, Holds(b, x)' PROVE b \in home[x]
    BY <1>3 DEF HeldAtHome
  <2>1. CASE b = a /\ x = m
    BY <2>1
  <2>2. CASE ~(b = a /\ x = m)
    <3>1. column'[b][x] = column[b][x]
      BY <1>2, <2>2 DEF PagesTypeOK
    <3> QED
      BY <3>1 DEF HeldAtHome, Holds
  <2> QED
    BY <2>1, <2>2
<1>7. PagesTypeOK'
  BY <1>3, <1>5, SilentRight DEF PagesTypeOK
<1> QED
  BY <1>3, <1>6, <1>7, SilentRight, PagesStay

-----------------------------------------------------------------------------
(* The accounts change.                                                    *)

LEMMA Added ==
    ASSUME PagesTypeOK, NEW a \in Accounts \ Ids
    PROVE  LET as == Append(accounts, a) IN
           as \in Seq(Accounts) /\ as # <<>> /\ IsInjective(as)
<1> DEFINE as == Append(accounts, a)
           n == Len(accounts)
<1>1. /\ accounts \in Seq(Accounts) /\ n \in Nat /\ DOMAIN accounts = 1..n
      /\ \A i, j \in DOMAIN accounts : accounts[i] = accounts[j] => i = j
  BY LenProperties DEF PagesTypeOK, IsInjective
<1>2. \A i \in 1..n : accounts[i] # a
  BY <1>1 DEF Ids, ToSet
<1>3. /\ as \in Seq(Accounts) /\ Len(as) = n + 1 /\ as[n + 1] = a
      /\ \A i \in 1..n : as[i] = accounts[i]
  BY <1>1, AppendProperties
<1>4. DOMAIN as = 1..(n + 1)
  BY <1>3, LenProperties
<1> HIDE DEF as, n
<1>5. \A i, j \in 1..(n + 1) : as[i] = as[j] => i = j
  <2> SUFFICES ASSUME NEW i \in 1..(n + 1), NEW j \in 1..(n + 1), as[i] = as[j] PROVE i = j
    OBVIOUS
  <2>1. (i \in 1..n \/ i = n + 1) /\ (j \in 1..n \/ j = n + 1)
    BY <1>1
  <2> QED
    BY <1>1, <1>2, <1>3, <2>1
<1>6. as # <<>>
  <2>1. Len(as) # 0
    BY <1>1, <1>3
  <2> QED
    BY <1>3, <2>1, EmptySeq
<1> QED
  BY <1>3, <1>4, <1>5, <1>6 DEF IsInjective, as

LEMMA Removed ==
    ASSUME PagesTypeOK, Len(accounts) > 1, NEW k \in DOMAIN accounts
    PROVE  LET as == RemoveAt(accounts, k) IN
           as \in Seq(Accounts) /\ as # <<>> /\ IsInjective(as)
<1> DEFINE n == Len(accounts)
           before == SubSeq(accounts, 1, k - 1)
           after == SubSeq(accounts, k + 1, n)
           as == before \o after
<1>1. /\ accounts \in Seq(Accounts) /\ n \in Nat /\ DOMAIN accounts = 1..n
      /\ \A i, j \in DOMAIN accounts : accounts[i] = accounts[j] => i = j
  BY LenProperties DEF PagesTypeOK, IsInjective
<1>2. k \in 1..n /\ n > 1 /\ \A i \in 1..n : accounts[i] \in Accounts
  BY <1>1, ElementOfSeq
<1>3. /\ before \in Seq(Accounts) /\ Len(before) = k - 1
      /\ \A i \in 1..(k - 1) : before[i] = accounts[i]
  <2>1. \A i \in 1..(k - 1) : accounts[i] \in Accounts
    BY <1>1, <1>2
  <2>2. 1 \in Int /\ k - 1 \in Int
    BY <1>2
  <2>3. /\ before \in Seq(Accounts)
        /\ Len(before) = IF 1 <= k - 1 THEN (k - 1) - 1 + 1 ELSE 0
        /\ \A i \in 1..((k - 1) - 1 + 1) : before[i] = accounts[1 + i - 1]
    BY <2>1, <2>2, SubSeqProperties
  <2> QED
    BY <1>2, <2>3
<1>4. /\ after \in Seq(Accounts) /\ Len(after) = n - k
      /\ \A i \in 1..(n - k) : after[i] = accounts[k + i]
  <2>1. \A i \in (k + 1)..n : accounts[i] \in Accounts
    BY <1>1, <1>2
  <2>2. k + 1 \in Int /\ n \in Int
    BY <1>1, <1>2
  <2>3. /\ after \in Seq(Accounts)
        /\ Len(after) = IF k + 1 <= n THEN n - (k + 1) + 1 ELSE 0
        /\ \A i \in 1..(n - (k + 1) + 1) : after[i] = accounts[k + 1 + i - 1]
    BY <2>1, <2>2, SubSeqProperties
  <2> QED
    BY <1>1, <1>2, <2>3
<1> HIDE DEF before, after, n
<1>5. /\ as \in Seq(Accounts) /\ Len(as) = n - 1
      /\ \A i \in 1..(n - 1) : as[i] = IF i <= k - 1 THEN before[i] ELSE after[i - (k - 1)]
  <2>1. /\ as \in Seq(Accounts) /\ Len(as) = Len(before) + Len(after)
        /\ \A i \in 1..(Len(before) + Len(after)) :
              as[i] = IF i <= Len(before) THEN before[i] ELSE after[i - Len(before)]
    BY <1>3, <1>4, ConcatProperties, Zenon
  <2>2. Len(before) = k - 1 /\ Len(after) = n - k /\ (k - 1) + (n - k) = n - 1
    BY <1>1, <1>2, <1>3, <1>4
  <2> HIDE DEF as
  <2> QED
    BY <2>1, <2>2
<1> HIDE DEF as
<1>6. \A i \in 1..(n - 1) : as[i] = accounts[IF i < k THEN i ELSE i + 1]
  <2> SUFFICES ASSUME NEW i \in 1..(n - 1)
               PROVE  as[i] = accounts[IF i < k THEN i ELSE i + 1]
    OBVIOUS
  <2>1. CASE i < k
    <3>1. i \in 1..(k - 1) /\ i <= k - 1
      BY <1>2, <2>1
    <3>2. as[i] = before[i]
      BY <1>5, <3>1
    <3> QED
      BY <1>3, <2>1, <3>1, <3>2
  <2>2. CASE ~(i < k)
    <3>1. i - (k - 1) \in 1..(n - k) /\ k + (i - (k - 1)) = i + 1 /\ ~(i <= k - 1)
      BY <1>1, <1>2, <2>2
    <3>2. as[i] = after[i - (k - 1)]
      BY <1>5, <3>1
    <3>3. after[i - (k - 1)] = accounts[k + (i - (k - 1))]
      BY <1>4, <3>1
    <3> QED
      BY <2>2, <3>1, <3>2, <3>3
  <2> QED
    BY <2>1, <2>2
<1>7. \A i, j \in 1..(n - 1) : as[i] = as[j] => i = j
  <2> SUFFICES ASSUME NEW i \in 1..(n - 1), NEW j \in 1..(n - 1), as[i] = as[j] PROVE i = j
    OBVIOUS
  <2> DEFINE at(x) == IF x < k THEN x ELSE x + 1
  <2>1. at(i) \in DOMAIN accounts /\ at(j) \in DOMAIN accounts
    BY <1>1, <1>2
  <2>2. accounts[at(i)] = accounts[at(j)]
    BY <1>6
  <2>3. at(i) = at(j)
    BY <1>1, <2>1, <2>2
  <2> QED
    BY <1>1, <1>2, <2>3
<1>8. DOMAIN as = 1..(n - 1)
  BY <1>5, LenProperties
<1>9. as # <<>>
  <2>1. Len(as) # 0
    BY <1>1, <1>2, <1>5
  <2> QED
    BY <1>5, <2>1, EmptySeq
<1> QED
  BY <1>5, <1>7, <1>8, <1>9 DEF IsInjective, RemoveAt, as, before, after, n

LEMMA ReconfigureKeeps ==
    ASSUME PagesBase, Reconfigure
    PROVE  PagesBase' /\ ActsWhereShown'
<1> USE DEF PagesBase
<1>1. /\ UNCHANGED <<column, cookie, going, home>> /\ Silent /\ events' \in 0..MaxEvents
      /\ page' = [p \in Pages |-> Crossed(page[p])]
  BY BoardPagesAssumption DEF Reconfigure, Event, PagesTypeOK
<1>2. accounts' \in Seq(Accounts) /\ accounts' # <<>> /\ IsInjective(accounts')
  BY Added, Removed DEF Reconfigure
<1>3. ASSUME NEW x \in Pages
      PROVE  page'[x] \in PageStates \cup {None} /\ PageInv(x)'
  <2>1. CASE page[x] = None
    BY <1>1, <2>1 DEF Crossed, PageInv
  <2>2. CASE page[x] # None
    <3>1. page[x] \in PageStates /\ Honest(page[x])
      BY <2>2 DEF PagesTypeOK, PageInv
    <3>2. page'[x] = [page[x] EXCEPT !.crossed = TRUE]
      BY <1>1, <2>2 DEF Crossed
    <3>3. page'[x] \in PageStates /\ page'[x].crossed
          /\ page'[x].qs = page[x].qs /\ page'[x].cards = page[x].cards
          /\ page'[x].panel = page[x].panel
      BY <3>1, <3>2 DEF PageStates
    <3>4. Honest(page[x])'
      BY <1>1, <3>1, <3>3 DEF Honest, Items, HasPanel
    <3> QED
      BY <3>3, <3>4 DEF PageInv
  <2> QED
    BY <2>1, <2>2
<1>4. PagesTypeOK'
  BY <1>1, <1>2, <1>3, SilentRight DEF PagesTypeOK
<1> QED
  BY <1>1, <1>3, <1>4, SilentRight DEF HeldAtHome, Holds

-----------------------------------------------------------------------------
(* All steps.                                                              *)

LEMMA InitRight == PagesInit => PagesInv
<1> SUFFICES ASSUME PagesInit PROVE PagesInv
  OBVIOUS
<1>1. PagesTypeOK
  BY BoardPagesAssumption DEF PagesInit, PagesTypeOK, Queries, Column, NoForm
<1>2. HeldAtHome
  BY DEF PagesInit, HeldAtHome, Holds
<1>3. ActsWhereShown /\ \A p \in Pages : PageInv(p)
  BY DEF PagesInit, NoForm, ActsWhereShown, PageInv
<1> QED
  BY <1>1, <1>2, <1>3 DEF PagesInv

LEMMA StepRight == PagesInv /\ [PagesNext]_pagesVars => PagesInv'
<1> SUFFICES ASSUME PagesInv, [PagesNext]_pagesVars PROVE PagesInv'
  OBVIOUS
<1>1. PagesBase
  BY DEF PagesInv, PagesBase
<1>2. CASE UNCHANGED pagesVars
  <2>1. UNCHANGED <<accounts, cookie, page, going, home, column, last, events>>
    BY <1>2 DEF pagesVars
  <2>2. \A x \in Pages : PageInv(x)'
    BY <1>1, <2>1, PagesStay
  <2> QED
    BY <2>1, <2>2 DEF PagesInv, PagesTypeOK, HeldAtHome, Holds, ActsWhereShown
<1>3. ASSUME PagesNext PROVE PagesBase' /\ ActsWhereShown'
  <2>1. ASSUME NEW p \in Pages, OpenBoard(p) PROVE PagesBase' /\ ActsWhereShown'
    BY <1>1, <2>1, LoadKeeps DEF OpenBoard, Queries
  <2>2. ASSUME NEW p \in Pages, Follow(p) PROVE PagesBase' /\ ActsWhereShown'
    <3>1. going[p] \in Queries /\ Load(p, going[p])
      BY <1>1, <2>2 DEF Follow, PagesBase, PagesTypeOK, Queries
    <3> QED
      BY <1>1, <3>1, LoadKeeps
  <2>3. ASSUME NEW p \in Pages,
               \/ Close(p) \/ Poll(p) \/ FetchFolders(p) \/ OpenDetail(p) \/ CloseDetail(p)
        PROVE  PagesBase' /\ ActsWhereShown'
    BY <1>1, <2>3, CloseKeeps, PollKeeps, FetchKeeps, OpenDetailKeeps, CloseDetailKeeps
  <2>4. ASSUME NEW p \in Pages,
               \/ SubmitCard(p) \/ PickFolder(p) \/ SubmitDetail(p) \/ SubmitColumn(p)
        PROVE  PagesBase' /\ ActsWhereShown'
    BY <1>1, <2>4, SubmitCardKeeps, PickFolderKeeps, SubmitDetailKeeps, SubmitColumnKeeps
  <2>5. CASE ClientSubmits
    BY <1>1, <2>5, ClientSubmitsKeeps
  <2>6. CASE Change
    BY <1>1, <2>6, ChangeKeeps
  <2>7. CASE Reconfigure
    BY <1>1, <2>7, ReconfigureKeeps
  <2> QED
    BY <1>3, <2>1, <2>2, <2>3, <2>4, <2>5, <2>6, <2>7 DEF PagesNext
<1> QED
  BY <1>2, <1>3 DEF PagesInv, PagesBase

\* Pages, cookie and mailboxes keep their types: what a page shows names accounts
\* and mails there are, whatever is opened, sent, polled and reconfigured.
THEOREM PagesTypeCorrect == PagesSpec => []PagesTypeOK
<1>1. PagesInv => PagesTypeOK
  BY DEF PagesInv
<1> QED
  BY <1>1, InitRight, StepRight, PTL DEF PagesSpec

\* Whatever pages are open and however they, the mailboxes and the accounts
\* change: a form changes the account it was shown with, and nothing else,
\* except where the code is known to fail.
THEOREM FormsActWhereShown == PagesSpec => []ActsWhereShown
<1>1. PagesInv => ActsWhereShown
  BY DEF PagesInv
<1> QED
  BY <1>1, InitRight, StepRight, PTL DEF PagesSpec
=============================================================================
