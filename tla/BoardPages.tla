----------------------------- MODULE BoardPages -----------------------------
(***************************************************************************)
(* Which account a request acts on.  One server shows several accounts;    *)
(* the request says which by ?account=, by the browser's one cookie, or    *)
(* not at all (BoardHandler._select_account).  Board pages, their detail   *)
(* panels and their scripts send both kinds of request, while the pages    *)
(* poll, mail comes and goes and accounts are added and removed.  A client *)
(* of the JSON endpoints keeps no cookie.  A request that fails for        *)
(* another reason (the mail server, the database) changes nothing and is   *)
(* left out, and so is a server without any account.                       *)
(***************************************************************************)
EXTENDS Naturals, SequencesExt

CONSTANTS
    Accounts,
    FirstAccounts,  \* the configured accounts at the start, in their order
    Mail,
    Pages,          \* pages of one browser
    None, AllMailboxes,
    Broken,         \* a panel, or a way to a page, that came to nothing
    MaxEvents       \* bound on forms submitted, changes to a mailbox behind
                    \* the pages, and accounts added or removed, together

ASSUME BoardPagesAssumption ==
    /\ FirstAccounts \in Seq(Accounts) /\ FirstAccounts # <<>>
    /\ IsInjective(FirstAccounts)
    /\ None \notin Accounts /\ AllMailboxes \notin Accounts /\ Broken \notin Accounts
    /\ None # AllMailboxes /\ None # Broken /\ AllMailboxes # Broken
    /\ MaxEvents \in Nat

VARIABLES
    accounts,       \* the server's accounts, in configured order
    column,         \* per account and mail: the column of its card
    cookie,         \* the browser's account cookie
    page,           \* per page: what it shows, or None
    going,          \* per page: the query of the board it is redirected to
    home,           \* per mail: the accounts it is delivered to
    last,           \* history: the accounts a form just sent was meant for,
                    \* and those it changed
    events          \* how many of those there have been

pagesVars == <<accounts, column, cookie, page, going, home, last, events>>

Column == {"INBOX", "TO_DELETE", "TO_ARCHIVE"}
Ids == ToSet(accounts)
Holds(a, m) == column[a][m] # "none"

-----------------------------------------------------------------------------
(* BoardHandler: the account of a request.                                 *)

\* The database a handler is built with; the server never replaces it.
DefaultAccount == Head(FirstAccounts)

\* An explicit unknown account is not found; no cookie ever is refused.
Refused(q) == q \notin Ids \cup {AllMailboxes, None}

\* Mutant: the cookie goes before the query.
SelectedByCookie(q, c) ==
    LET named == IF c = None THEN q ELSE c IN
    CASE named = AllMailboxes -> [db |-> DefaultAccount, current |-> AllMailboxes]
      [] named \in Ids -> [db |-> named, current |-> named]
      [] OTHER -> [db |-> Head(accounts), current |-> Head(accounts)]

\* Query, then cookie, then the first account.  The view of all mailboxes
\* keeps the database the handler was built with.
Selected(q, c) ==
    LET named == IF q = None THEN c ELSE q IN
    CASE named = AllMailboxes -> [db |-> DefaultAccount, current |-> AllMailboxes]
      [] named \in Ids -> [db |-> named, current |-> named]
      [] OTHER -> [db |-> Head(accounts), current |-> Head(accounts)]

\* The cookie once the response has come: only a query sets it.
Armed(q, c) == IF q = None THEN c ELSE q

-----------------------------------------------------------------------------
(* What a board shows.                                                     *)

Card(a, m, form) == [of |-> a, mail |-> m, column |-> column[a][m], form |-> form]

\* On the board of one account no form names the account.
CardsOfOne(a) == {Card(a, m, None) : m \in {x \in Mail : Holds(a, x)}}

\* On the board of all, a form names the last account that has the mail.
Holders(m) == {i \in DOMAIN accounts : Holds(accounts[i], m)}
IsOwner(a, m) ==
    \E i \in Holders(m) : a = accounts[i] /\ \A j \in Holders(m) : j <= i
CardsOfAll ==
    {card \in {Card(a, m, owner) : a \in Ids, m \in Mail, owner \in Ids} :
        Holds(card.of, card.mail) /\ IsOwner(card.form, card.mail)}

Cards(ctx) == IF ctx.current = AllMailboxes THEN CardsOfAll ELSE CardsOfOne(ctx.db)

\* A board when it is loaded.  The query its own scripts send is fixed then,
\* and empty while there is only one account.
BoardOfOne(a) ==
    [qs |-> IF Len(accounts) >= 2 THEN a ELSE None, cards |-> CardsOfOne(a)]
BoardOfAll == [qs |-> AllMailboxes, cards |-> CardsOfAll]

\* crossed: another page was open, or the accounts changed, since the load.
Loaded(ctx, crossed) ==
    LET board == IF ctx.current = AllMailboxes THEN BoardOfAll ELSE BoardOfOne(ctx.db)
    IN [qs |-> board.qs, cards |-> board.cards,
        panel |-> None, forced |-> FALSE, crossed |-> crossed]

Opened == {p \in Pages : page[p] # None \/ going[p] # Broken}
Crossed(pg) == IF pg = None THEN None ELSE [pg EXCEPT !.crossed = TRUE]

-----------------------------------------------------------------------------
Shared(m) == \E a, b \in home[m] : a # b

NoForm == [meant |-> {}, hit |-> {}, excused |-> FALSE]
Silent == last' = NoForm

PagesInit ==
    /\ accounts = FirstAccounts
    /\ home \in [Mail -> (SUBSET Accounts) \ {{}}]
    /\ column = [a \in Accounts |-> [m \in Mail |->
          IF a \in home[m] THEN "TO_DELETE" ELSE "none"]]
    /\ cookie = None
    /\ page = [p \in Pages |-> None]
    /\ going = [p \in Pages |-> Broken]
    /\ last = NoForm
    /\ events = 0

Event == events < MaxEvents /\ events' = events + 1

\* GET /board on page p: rendered anew, or replaced by an error.
Load(p, q) ==
    /\ going' = [going EXCEPT ![p] = Broken]
    /\ cookie' = IF Refused(q) THEN cookie ELSE Armed(q, cookie)
    /\ page' = [x \in Pages |->
          IF x # p THEN Crossed(page[x])
          ELSE IF Refused(q) THEN None
          ELSE Loaded(Selected(q, cookie), Opened \ {p} # {})]
    /\ Silent /\ UNCHANGED <<accounts, column, home, events>>

\* The picker, a link, an address typed in; or the redirect after a form.
OpenBoard(p) == \E q \in Accounts \cup {None, AllMailboxes} : Load(p, q)
Follow(p) == going[p] # Broken /\ Load(p, going[p])

Close(p) ==
    /\ p \in Opened
    /\ page' = [page EXCEPT ![p] = None]
    /\ going' = [going EXCEPT ![p] = Broken]
    /\ Silent /\ UNCHANGED <<accounts, column, cookie, home, events>>

\* refreshBoard, every 30 s unless a panel is open, or forced by a script:
\* /board-content with the page's own query; an error leaves the page.
Poll(p) ==
    /\ page[p] # None
    /\ page[p].panel = None \/ page[p].forced
    /\ LET q == page[p].qs IN
       \/ /\ Refused(q)
          /\ page' = [page EXCEPT ![p].forced = FALSE]
          /\ UNCHANGED cookie
       \/ /\ ~Refused(q)
          /\ page' = [page EXCEPT ![p].forced = FALSE,
                                  ![p].cards = Cards(Selected(q, cookie))]
          /\ cookie' = Armed(q, cookie)
    /\ Silent /\ UNCHANGED <<accounts, column, going, home, events>>

\* getFolders: /archive-folders for the Browse button of a card, with the
\* account the card names, or else the page's query.
FolderQuery(p, card) == IF card.form # None THEN card.form ELSE page[p].qs

FetchFolders(p) ==
    /\ page[p] # None
    /\ \E card \in page[p].cards :
          /\ card.column = "TO_ARCHIVE"
          /\ ~Refused(FolderQuery(p, card))
          /\ cookie' = Armed(FolderQuery(p, card), cookie)
    /\ Silent /\ UNCHANGED <<accounts, column, page, going, home, events>>

\* The embedded detail of a mail as the request's account has it.  Its move
\* form names that account; the form for notes never does.
Detail(ctx, of, m) ==
    IF ~Holds(ctx.db, m) THEN Broken
    ELSE [of |-> of, mail |-> m,
          form |-> IF ctx.current = AllMailboxes THEN None ELSE ctx.current]

\* openDetail: /email/m?embed=1 sets no cookie, and has the page polled.
DetailQuery(p, card) ==
    IF page[p].qs = AllMailboxes THEN card.form ELSE page[p].qs

OpenDetail(p) ==
    /\ page[p] # None
    /\ \E card \in page[p].cards :
          LET q == DetailQuery(p, card)
              shown == IF Refused(q) THEN Broken
                       ELSE Detail(Selected(q, cookie), card.of, card.mail)
          IN page' = [page EXCEPT ![p].panel = shown, ![p].forced = shown # Broken]
    /\ Silent /\ UNCHANGED <<accounts, column, cookie, going, home, events>>

CloseDetail(p) ==
    /\ page[p] # None /\ page[p].panel # None
    /\ page' = [page EXCEPT ![p].panel = None]
    /\ Silent /\ UNCHANGED <<accounts, column, cookie, going, home, events>>

-----------------------------------------------------------------------------
(* Forms.                                                                  *)

\* handle_post_action: the account whose record of m is changed.  Only a
\* deletion looks at the other accounts.
Found(path, ctx, m) ==
    IF Holds(ctx.db, m) THEN {ctx.db}
    ELSE IF path = "/delete"
         THEN {accounts[i] : i \in {j \in Holders(m) : \A k \in Holders(m) : j <= k}}
    ELSE {}

\* What a form on one mail can make of its card; /archive-proposal and
\* /save-notes leave it where it is.
Becomes(path, old) ==
    CASE path = "/move" -> Column
      [] path \in {"/delete", "/archive"} -> {"none"}
      [] OTHER -> {old}

CardPaths == {"/move", "/delete", "/archive", "/archive-proposal"}
OfferedOn(card) ==
    {"/move"} \cup (IF card.column = "TO_DELETE" THEN {"/delete"} ELSE {})
              \cup (IF card.column = "TO_ARCHIVE"
                    THEN {"/archive", "/archive-proposal"} ELSE {})

Note(meant, hit, excused) ==
    /\ Event
    /\ last' = [meant |-> meant, hit |-> hit, excused |-> excused]

\* A request on mail m with query q and cookie c, meant for account of.
Act(path, q, c, m, of, excused) ==
    LET hit == IF Refused(q) THEN {} ELSE Found(path, Selected(q, c), m) IN
    /\ Note({a \in {of} : Holds(a, m)}, hit,
            \/ excused
            \/ of \notin Ids
            \/ Shared(m) /\ (path = "/delete" \/ q \notin {None, of}))
    /\ \E to \in Column \cup {"none"} :
          /\ \A a \in hit : to \in Becomes(path, column[a][m])
          /\ hit = {} => to = "none"
          /\ column' = [a \in Accounts |->
                IF a \in hit THEN [column[a] EXCEPT ![m] = to] ELSE column[a]]

After(q) == IF Refused(q) THEN cookie ELSE Armed(q, cookie)

\* A form on a card; the answer leads back to the board, or is an error.
SubmitCard(p) ==
    /\ page[p] # None
    /\ \E card \in page[p].cards, path \in CardPaths :
          LET q == card.form IN
          /\ path \in OfferedOn(card)
          /\ Act(path, q, cookie, card.mail, card.of, q = None /\ page[p].crossed)
          /\ going' = [going EXCEPT ![p] = IF last'.hit = {} THEN Broken
                                           ELSE IF q = None THEN None
                                           ELSE AllMailboxes]
          /\ cookie' = After(q)
    /\ page' = [page EXCEPT ![p] = None]
    /\ UNCHANGED <<accounts, home>>

\* A folder picked in the Browse popover: /archive-proposal by the script,
\* then a forced refresh, or a message.
PickFolder(p) ==
    /\ page[p] # None
    /\ \E card \in page[p].cards :
          LET q == FolderQuery(p, card) IN
          /\ card.column = "TO_ARCHIVE"
          /\ Act("/archive-proposal", q, cookie, card.mail, card.of,
                 q = None /\ page[p].crossed)
          /\ page' = [page EXCEPT ![p].forced = @ \/ last'.hit # {}]
          /\ cookie' = After(q)
    /\ UNCHANGED <<accounts, going, home>>

\* The forms of the detail panel, which is then shown again.  Its form for
\* notes does not say for which account on the board of all mailboxes.
SubmitDetail(p) ==
    /\ page[p] # None /\ page[p].panel \notin {None, Broken}
    /\ \E path \in {"/move", "/save-notes"} :
          LET panel == page[p].panel
              q == IF path = "/move" THEN panel.form ELSE None
              again == IF Refused(panel.form) THEN Broken
                       ELSE Detail(Selected(panel.form, After(q)), panel.of, panel.mail)
          IN /\ Act(path, q, cookie, panel.mail, panel.of,
                    q = None /\ (page[p].crossed \/ page[p].qs = AllMailboxes))
             /\ page' = [page EXCEPT
                   ![p].panel = IF last'.hit = {} THEN Broken ELSE again,
                   ![p].forced = @ \/ (last'.hit # {} /\ again # Broken)]
             /\ cookie' = After(q)
    /\ UNCHANGED <<accounts, going, home>>

\* The forms of the columns, with the query each is sent with: those of a
\* mixed board name all mailboxes or are left out, the groups of TO_ARCHIVE
\* are the script's.
ColumnForms(pg) ==
    LET mixed == \E card \in pg.cards : card.form # None
        form(path, from, q) == [path |-> path, from |-> from, q |-> q]
    IN {form("/batch-delete", "TO_DELETE", IF mixed THEN AllMailboxes ELSE None)}
       \cup (IF mixed THEN {}
             ELSE {form("/batch-archive", "TO_ARCHIVE", None)}
                  \cup {form("/force-triage-column", from, None) :
                           from \in Column \ {"INBOX"}})
       \cup (IF pg.qs = AllMailboxes THEN {}
             ELSE {form("/batch-archive-folder", "TO_ARCHIVE", pg.qs)})

With(as, from) == {a \in as : \E m \in Mail : column[a][m] = from}

\* Only a deletion of all mailboxes goes to every account.
Reached(form, ctx) ==
    With(IF form.path = "/batch-delete" /\ ctx.current = AllMailboxes
         THEN Ids ELSE {ctx.db}, form.from)

Emptied(form) == IF form.path = "/force-triage-column" THEN "INBOX" ELSE "none"

SubmitColumn(p) ==
    /\ page[p] # None
    /\ \E form \in ColumnForms(page[p]) :
          LET shown == {card.of : card \in {x \in page[p].cards : x.column = form.from}}
              meant == IF form.q = AllMailboxes THEN Ids ELSE shown
              hit == IF Refused(form.q) THEN {}
                     ELSE Reached(form, Selected(form.q, cookie))
          IN /\ shown # {}
             /\ column' = [a \in Accounts |-> [m \in Mail |->
                   IF a \in hit /\ column[a][m] = form.from
                   THEN Emptied(form) ELSE column[a][m]]]
             /\ Note(With(meant, form.from), hit,
                     (form.q = None /\ page[p].crossed) \/ ~(shown \subseteq Ids))
             /\ cookie' = After(form.q)
             /\ going' = [going EXCEPT ![p] = IF Refused(form.q) THEN Broken ELSE None]
    /\ page' = [page EXCEPT ![p] = None]
    /\ UNCHANGED <<accounts, home>>

-----------------------------------------------------------------------------
(* A client without a cookie: /board-cards and /board-content?format=json  *)
(* give it cards with their account, and it names that when it acts on one *)
(* later, wherever the mail is by then.                                    *)

ListedOf(a) == {[of |-> a, mail |-> m, form |-> a] : m \in {x \in Mail : a \in home[x]}}
Listed == UNION {ListedOf(a) : a \in Accounts}

ClientSubmits ==
    /\ \E card \in Listed, path \in CardPaths :
          Act(path, card.form, None, card.mail, card.of, FALSE)
    /\ UNCHANGED <<accounts, cookie, page, going, home>>

-----------------------------------------------------------------------------
\* Mail arrives, is triaged, or is removed, in any account.
Change ==
    /\ Event
    /\ \E m \in Mail, to \in Column \cup {"none"} : \E a \in home[m] :
          column' = [column EXCEPT ![a][m] = to]
    /\ Silent /\ UNCHANGED <<accounts, cookie, page, going, home>>

\* /add-account and /delete-account replace the server's accounts.
Reconfigure ==
    /\ Event
    /\ \/ \E a \in Accounts \ Ids : accounts' = Append(accounts, a)
       \/ /\ Len(accounts) > 1
          /\ \E i \in DOMAIN accounts : accounts' = RemoveAt(accounts, i)
    /\ page' = [p \in Pages |-> Crossed(page[p])]
    /\ Silent /\ UNCHANGED <<column, cookie, going, home>>

PagesNext ==
    \/ \E p \in Pages :
          \/ OpenBoard(p) \/ Follow(p) \/ Close(p) \/ Poll(p)
          \/ FetchFolders(p) \/ OpenDetail(p) \/ CloseDetail(p)
          \/ SubmitCard(p) \/ PickFolder(p) \/ SubmitDetail(p) \/ SubmitColumn(p)
    \/ ClientSubmits \/ Change \/ Reconfigure

PagesSpec == PagesInit /\ [][PagesNext]_pagesVars

-----------------------------------------------------------------------------
Queries == Accounts \cup {None, AllMailboxes}
CardStates == [of : Accounts, mail : Mail, column : Column, form : Accounts \cup {None}]
Panels == [of : Accounts, mail : Mail, form : Accounts \cup {None}]
PageStates == [qs : Queries, cards : SUBSET CardStates, panel : Panels \cup {None, Broken},
               forced : BOOLEAN, crossed : BOOLEAN]

PagesTypeOK ==
    /\ accounts \in Seq(Accounts) /\ accounts # <<>> /\ IsInjective(accounts)
    /\ column \in [Accounts -> [Mail -> Column \cup {"none"}]]
    /\ cookie \in Queries
    /\ page \in [Pages -> PageStates \cup {None}]
    /\ going \in [Pages -> {None, AllMailboxes, Broken}]
    /\ home \in [Mail -> (SUBSET Accounts) \ {{}}]
    /\ last \in [meant : SUBSET Accounts, hit : SUBSET Accounts, excused : BOOLEAN]
    /\ events \in 0..MaxEvents

\* A form changes what it was shown with, and nothing of another account: the
\* card of the account whose card it was on, if it is still there, or that
\* account's column.  Known to fail, and excused: a form that names no account,
\* on a page beside which another was open or the accounts changed, and the
\* notes of a card on the board of all mailboxes; the account is gone; a mail
\* of two accounts, when it is deleted or its form names the other.
ActsWhereShown == last.excused \/ last.hit = last.meant
=============================================================================
