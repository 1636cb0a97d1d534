# TLA+ models of robotsix-auto-mail

robotsix-auto-mail watches mailboxes over IMAP, keeps one *card* per message in
a SQLite database, lets an LLM agent and an operator sort the cards into
columns, and carries out what the columns mean (archive, delete, answer) on the
IMAP server. A board (a threaded HTTP server) and one ingest loop per account run
at the same time, often in different processes, and share nothing but the
databases, the JSON files of the configuration and the mailbox. None of the
three is locked across a whole operation, and the mailbox is also changed by
mail clients that know nothing of the board.

The modules here model that concurrent core. TLC checks them on small
instances, and TLAPS proves the most important invariants for every value of
the constants. `PROJECT.json` maps every definition to the lines it
translates, and lists runs, mutants, findings, hazards and theorems.

Paths below are relative to `src/robotsix_auto_mail/`.

1. [Inventory](#1-inventory)
2. [Modules and how they correspond to the code](#2-modules-and-how-they-correspond-to-the-code)
3. [Runs, bounds and results](#3-runs-bounds-and-results)
4. [Fairness](#4-fairness)
5. [Proofs](#5-proofs)
6. [Where the code and its documentation disagree](#6-where-the-code-and-its-documentation-disagree)
7. [What is only model-checked, what is not modelled](#7-what-is-only-model-checked-what-is-not-modelled)
8. [Plan](#8-plan)

## 1. Inventory

| Component | State it keeps | Operations | Interacts with |
|---|---|---|---|
| Ingestion (`pipeline/__init__.py`) | `mail_records`; watermarks `inbox:last_seen_uid`, `inbox:last_seen_uidvalidity` | guard UIDVALIDITY, fetch by UID or by date, insert / refresh, commit the watermarks | the mailbox (renumbered by the server), other ingest cycles, reconciliation after each cycle |
| Reconciliation (`pipeline/reconcile.py`, `imap/mailbox.py`) | `mail_records.imap_uid`, `imap_folder` | snapshot, verify UIDs, search by Message-ID, heal or prune, prune rows of vanished folders | ingestion, the board, mail clients |
| Card actions (`_mailbox_service.py`, `_archive_service.py`, `imap/client.py`) | the card, the messages of three folders | resolve, verify, COPY, STORE `\Deleted`, EXPUNGE, drop the card | each other, the batch, mail clients |
| Batch (`server/adapters.py`, `_batch_service.py`) | the rows collected, flag `batch_op:state` | collect a column, resolve each row, chunked commands, delete the rows | requests on the same cards |
| Background jobs (`_request_helpers.py`, `_*_service.py`, `commands_triage.py`) | one watermark per job: `idle` / `running` | launch, progress, end, reset at a start | the ingest loop writes the flag of a force-fetch |
| Triage (`triage/agent.py`, `triage/persistence.py`, `_action_service.py`) | `triage_decisions`: column and who decided | agent run, move by the operator, reset of a column | ingest process and board both run the agent |
| Sent replies (`sent_reconcile.py`, `_compose_service.py`, `db/queries.py`) | `compose_links` | compose a draft and link it, search Sent, archive the card | triage, the mail client that sends |
| Configuration (`config/service.py`, `config/versions.py`, `_settings_service.py`) | `config.json`, `config_versions.json`, the served copy in the handler factory | get, put, rollback | crossing requests, edits by hand, deploys |
| Accounts (`_account_service.py`, `config/settings/store.py`, `commands_serve.py`) | the same, and one settings store per account | add, delete, mirror into the store, recover from it | the ingest loops reload the file every cycle |
| Archive folders (`_archive_service.py`, `db/archive.py`, `imap/client.py`) | the folders below the archive root | list, create, rename, move, delete, sweep the empty ones; read, move and delete archived mail | archives from the board, triage, mail clients |
| Archive destinations (`db/archive.py`, `triage/classifier.py`, `_config_service.py`) | two JSON documents in the watermarks: the operator's overrides, the agent's hints | propose, override, read-change-write of the whole document | requests, triage runs, the cleanup |
| Sign-in (`oauth2/`, `_auth_service.py`, `smtp/`) | the token cache file of each account, `_AUTH_FLOWS` in memory | connect (load, refresh, persist), device-code login, status | loops, probe and logins of several processes; the provider revokes |
| Watch and serve loops, settings import, health (`cli/`, `config/settings/import_.py`, `core/health.py`) | the configuration each goes by, `account_health` | idle, reload, pick accounts, cycle, restart, seed the stores | edits and deploys of `config.json`, the board's probe |
| Migrations (`db/_migrate.py`, `db/__init__.py`) | tables and their CHECK, additive columns | `init_db`: five migrations at every open | containers of two versions at once, live requests |
| Auto-update (`dev/autoupdate.py`) | deploy tree, images, deployed-SHA marker, file lock | pin, fetch, compare, merge, build, recreate, record | cron, the operator in the same tree, the containers |
| Board pages (`server/handlers.py`, `board_adapter.py`, `views/`) | one account cookie per browser; what each open page shows | load, poll, redirect, detail panel, forms | several pages and accounts, JSON clients |
| SMTP, attachments, views, command line, LLM runs, observability | none of their own | | only where a modelled component uses them (section 7) |
| Autodiscovery, parsing and MIME, config-sync agent and CLI | none that outlives a call | | not modelled (section 7) |

What is hard about this code, and what a correct system owes its user:

* **Mail must reach the board.** The watermark is a promise that everything
  below it was seen. It is written by cycles that overlap, after fetches made
  under a UIDVALIDITY that may have changed, and in two commits.
* **A UID is not an identity.** It is a card's only pointer to its message, yet
  the server may reassign all of them, and a copy or move makes new ones.
* **Nothing is deleted that nobody asked to delete.** An archive or delete is
  six or more exchanges; threads die and exchanges fail between any two, and
  another request, a batch, or the user is at work on the same message.
* **Flags must fall.** A job marked as running when nothing runs blocks the
  button until a restart; a job that runs twice acts twice.
* **The operator outranks the agent.** The agent decides from records read
  before a long LLM call, and writes after it.
* **The configuration keeps what was not submitted,** passwords above all, which
  forms never carry. One file, its history, a copy per account and a copy in
  memory are written one after the other, and each write may fail.
* **A folder is a name.** Requests list the folders once and go by that listing
  while others rename, replace, fill and delete them.
* **A login is kept.** A token cache is a file that everybody loads, changes and
  writes back as a whole.
* **An upgrade runs beside the old version,** on one database, and any command of it
  may fail.
* **A form acts on what it shows.** The account is a cookie shared by all pages of
  a browser, unless the form names one.

`PROJECT.json` lists these hazards one by one at the line where each
bites, with the properties that cover it.

## 2. Modules and how they correspond to the code

Conventions. A process is a constant set of identifiers with a program counter
`pc` and locals as functions of the process. An action is what the code does
between two points where another process can be seen: one SQLite statement with
its commit, one IMAP exchange, one read or write of a file. A failure is an
action of its own, so it can fall between any two steps. Counters whose names
begin with `Max` bound the environment; nothing in the code refers to them.
*History* variables record what happened for a property to look at, and no
guard of a modelled operation reads them. Actions of the environment (mail
clients, the server, the operator) are marked external in the map.

### `MailSync` — ingestion and reconciliation of one account

State: `inbox` (messages with their UIDs), `uidNext` and `validity` on the
server; `records` with their pointers and the watermarks `watermark` and
`storedValidity` in the database; per worker its `pc`, the UIDVALIDITY it read,
its batch and its snapshot. Workers are `Ingesters` (which reconcile after
they ingest, as `_ingest_cycle` does) and `Reconcilers` (the board's button).
An ingest cycle is guard → fetch → per message *dedup, refresh or insert* →
watermark → UIDVALIDITY. A reconciliation is snapshot → prune drifted rows →
list UIDs → per row *search, then heal or prune*. `Stop(p)` ends a worker at any
point: a crash, a lost connection, an exception. `FaultKinds` selects the
failures that the code does *not* turn into a stop: a failed insert
(`"insert"`), a folder list that lacks a folder (`"list"`), a failed search
(`"search"`), one on the source folder (`"swallow"`), a server that reports no
UIDVALIDITY (`"novalidity"`). The environment delivers, removes, moves
messages, renumbers the folder, and takes cards off the board.

### `CardActions` — what one card or one batch does to the mailbox

State: three folders (inbox, archive, other) as sets of copies in `box`, and
which are `flagged`; `cards` with folder and UID, `decision` with their column;
locals of `Handlers` and of `Batches`. A handler goes Request → Resolve → (scan
the other folders and note where the message is) → Verify → Copy → Reverify →
Store → Expunge → Drop, where a delete leaves out the copy. A batch goes Collect → TakeRow / Resolve for
each row → in chunks: filter, copy, filter again, store, expunge → DropRow. EXPUNGE
removes every flagged message of the folder, whoever flagged it. Two history variables serve the properties: `asked`, the messages
whose removal somebody asked for, and `gone`, per worker the messages that left a
folder since it began. `Spec` is the system on a server that keeps its UIDs;
`SpecRenumbering` adds one that does not. Left out are rows without a UID, with the branch of
`_action_service.py:165-206` that deletes the draft of a composed answer for them, and the audit
log; the choice and creation of the destination folder and the search after a UID that is not
found are in `ArchiveHints` and `ArchiveFolders`.

### `SingleFlight` — the flag of a background job

One module for the four jobs (`Job` is `"batch"`, `"triage"`, `"reconcile"` or
`"ingest"`), because they share `launch_background_worker` and differ in who else
writes the flag. Launchers are the request threads of a `ThreadingHTTPServer`, several at once: they
check, set, spawn, each a step. Threads open the database, work,
write progress, clear; the loop of the ingest process sets and clears the same
flag without looking; `Reboot` kills everything and resets the flags that
`commands_triage.py` resets. History: `crossed`, whether the launches behind the runs at work
overlapped. `MCTriage` holds a board's triage and two instances, the batch and
ingest; `part` says which one a behaviour is of, and the variables of the others rest.

### `Columns`, `Triage` — who decides the column of a card

`Columns` is the abstract specification: a card has a column and its author, and
the one rule is that what the program decides never replaces what the operator
decided, other than by his own move or reset. `Triage` has the agents with their
snapshots and LLM calls, operator moves, resets of a column and forced runs,
deletions with their foreign-key consequence, and the life of a reply: composed,
appended as draft, linked, sent, found, archived. `Board == INSTANCE Columns WITH
column <- decision` is the refinement; the run `triage_board` checks it and
`TriageProofs` proves it. A Sent folder is assumed to exist.

### `ConfigStore` — the configuration and its copies

State: `file`, `history`, `stores` (per directory: the resolved data root and
another one), `cwd` (the directory the processes run in, either of the two) and `served`
(the accounts of the handler factory). Writers run *get*, *put*,
*rollback*, *add* and *delete* in the order of the code: read, merge, validate,
save, record, refresh, mirror. The merge of account lists entry by entry, with
passwords kept by account id, is the operator `MergeAccounts`; the fields of an
account other than id, password and path are one `setting`. A failed write, an edit
by hand (which may leave the file invalid) and a deploy are external.
The history is written as `_write` does it: the one `.tmp` file is opened (which truncates it),
filled, and renamed over the history, three steps with `tmp` for the file and `fd` for what each
writer has open; a writer whose `.tmp` another has renamed away writes into the history itself, or
finds nothing to rename.
`crossed` and `failed` note whether requests have overlapped and which kinds of writes have
failed, so that a property can say until when it holds: `InTurn` (no overlap and no edit by
hand so far), `Reliable` (nor a restart, nor a failed write of the history), `OneHome` (nor a
failed write of a store, and `cwd` is the data root).

### `ArchiveHints`, `ArchiveFolders` — the archive

`ArchiveHints` has the two JSON documents: each writer reads the whole document into
its `draft`, changes its entry and writes the whole back. `Normalize` is what the code
does with a proposed subfolder: a first segment that echoes the archive root and
segments that name an action are dropped. `ArchiveFolders` EXTENDS it with the
server: `named` maps a folder name to the mailbox it stands for (a name that was
deleted and created again stands for another one), `mail` holds the messages of
each mailbox, `rejects` says whether the server refuses to delete a folder with
mail. Threads are request handlers, one triage run (`Agent`) and the cleanup of the
reconcile job (`Cleaner`); a request is chosen in `Requesting`, and from
there every IMAP command is an action: list, find, make, select, copy, remove, expunge,
resolve, fetch, count, open, search, purge, drop, rename, sweep. A SEARCH that verifies a UID is one
step with the command it guards. Folders are created level by level (`MakeFolder`), so that a failure leaves the
upper ones; STORE and EXPUNGE are two steps, and EXPUNGE takes what anybody has `flagged`; a
forced deletion searches, flags and expunges each folder. An archive whose message is not where
the card says searches all folders (`ListForFallback`) and starts again. A session keeps the
mailbox it selected (`at`); RENAME, DELETE and COPY go by name. No folder of the
model is a waste folder, which that search leaves out. History: `asked`, `swept`
(what an unforced DELETE took along), `spare` (why a second copy is there), `aim` (what a
request meant to touch), `quiet` (a cleanup that nobody disturbed).

### `SignIn`, `WatchLoop` — tokens and the loops that fetch

A token is the number of the consent it stems from, so `revoked` kills all tokens up
to it. `SignIn` has `Connect`, in the order load the cache, refresh, persist,
authenticate, close; a connection ends `ok`, `failed` (an `ImapError` or `SmtpError`, which
`probe_account` answers) or `raised` (anything else, a timeout out of `login` among it, which
leaves `probe_account` and ends a probe request). History: `kept`, the newest consent
somebody has completed, and `exposed`, that a revocation has come between a refresh and the
write of its token. There are also the device-code logins of the board (whose outcome goes to
the dictionary `flow`) and of a terminal. `WatchLoop` EXTENDS it with the containers:
`ingest --watch` and `serve` read `config.json` before each cycle, idle without
accounts, go through the accounts one by one (`NextUp`, in configured order) with a
connection each and write `health`; `ProbeHealth` does the same once. The settings import seeds empty stores
at a start of the server. `Dies`, `EditFile`, `SaveAccount` and `Revoke` are external.

### `Migrations`, `AutoUpdate` — an upgrade over a live database

`Migrations` has `init_db` statement by statement, with the transactions the code really
gets: `CREATE TABLE triage_decisions_new` is a step, and a commit, of its own, and between the
INSERT (`copied`) and the swap the writer keeps others out (`Writable`). Three of
the seven columns stand for all. Live requests (`Decide`, `Reset`) use connections that
skip the migrations. `Predecessor` is the version before: its table takes `DRAFT_READY`
and lacks the newest action. `AutoUpdate` EXTENDS it with the updater under its file
lock: pin, check, fetch, compare, merge, build, recreate each container, record.
Recreating a container kills what its process does in `Migrations` and brings it
back with the version of the image. The updater does not look whether `git rev-parse` failed: an empty
remote (0) passes for a commit, is recorded as the marker when the run gets that far, and
equals an empty marker the next time it fails. Any command `Fails`; `Push` and `Operate` are
the remote and the operator.

### `BoardPages` — which account a request acts on

`Selected(q, c)` is `_select_account`: the account for a query `q` and a cookie `c`.
A page holds what it was rendered with: the account query of its scripts, its cards and,
per card, the account its form names, if any. Actions load, poll, follow a redirect, open and
close a detail panel and submit each kind of form, with the cookie as it is by then;
`ClientSubmits` is a client of the JSON endpoints without a cookie. `Change` and `Reconfigure`
are mail coming and going and accounts being added or removed. `last` notes, for the
form just sent, whose cards it was shown for and whose it changed.

`MC*` modules hold symmetry sets, the model values' definitions, in `MCTriage` the
choice between three parts, and in `MCConfigStore` the bound on what requests submit.
`*Proofs` modules hold theorems: `BoardProofs` those about `SingleFlight` and `BoardPages`,
each other one those about the component of its name.

## 3. Runs, bounds and results

Each run asks one question. A *pass* is an exhaustive search of the instance; in
a *violation* run TLC finds the behaviour in which the program does otherwise than
a comment or document of the repository says (section 6).

| Run | Instance | Checks |
|---|---|---|
| `mailsync_safety` | two ingesters (interchangeable), two messages of which one does not parse, UIDs 1–2, one renumbering, one stop, one failed search; 3.3 M states | `TypeOK`, `NothingBelowWatermark`, `PruneJustified`, `PointerNamesOwnMessage`, `WatermarkAdvances` |
| `mailsync_renumber` | one loop, two messages, UIDs 1–3, one renumbering, one failed insert, search or folder list, fair; 0.4 M states | `MailReachesBoard`, `GoneMailLeavesBoard`, `PointersConverge` |
| `mailsync_crash_renumber` | the same loop with one stop | *violates* `MailReachesBoard` |
| `cardactions_batch` | a batch in chunks of one and a handler, two messages, two requests, UIDs 1–4, one fault, one move or removal by a mail client; 1.2 M states | `TypeOK`, `NothingLostUnasked`, `DropJustified` |
| `cardactions_renumber` | one request, one renumbering, no fault | *violates* `NothingLostUnasked` |
| `flight_overlap` | the batch: two launchers, two threads, no failure and no restart | *violates* `OneAtATime` |
| `triage_board` | one of three: two cards, three columns (two of them for the agent), one board agent, request, composer and reconciler, one each of draft, move, deletion, reset, fault and restart; the batch, two launchers, two threads, one error, two restarts; ingest, two launchers, two threads, the loop, two errors, one restart; fair; 0.6 M states | `TypeOK`, `BoardRules`, `NoFalseArchive`, `SentIsNoticed`, `FlightTypeOK`, `OverlapExplained`, `FlagExplained` (of the batch), `FlagsRecover` (of both jobs) |
| `config` | two accounts, two passwords each, two settings, two writers, two requests of any kind, a history of two; in the data root requests take turns, with lists of up to two entries and one failed save; elsewhere they may cross, with one entry, one kind of failed write, one edit by hand and one deploy or restart; 0.2 M states | `TypeOK`, `SecretsStayWithTheirAccount`, `HistoryConsecutive`, `HistoryOnlyGrows`, `CacheFollowsFile`, `RecoveryIsCurrent`, `UnsubmittedKept` |
| `archive_folders` | two messages, one of them two levels down, two handlers, an agent and a cleaner, two requests, one trouble, UIDs 1–4, subfolders a, b, a/c, b/c, each name made up to twice, both kinds of server; 1.0 M states | `TypeOK`, `NothingLost`, `ActsOnNamed`, `SpareCopiesExplained`, `CleanupComplete` |
| `sign_in` | a password and a Microsoft account, either loop, the probe, two logins of the board and one of a terminal, two consents, two troubles, fair; 0.2 M states | `TypeOK`, `SignedInStays`, `FlowTellsTheTruth`, `AccountsFetched`, `HealthConverges` |
| `upgrade` | two containers, one card, two runs of the updater, two commits, two troubles, fair; 1.2 M states | `DecisionsSurvive`, `DatabasesOpen`, `SkipMeansDeployed` |
| `board_pages` | two accounts, one mail, two pages of a browser and a JSON client, three events; 1.0 M states | `ActsWhereShown` |

Why the bounds are enough. A watermark can hide a message only when another one
arrives after the fetch, so two messages and one UID beyond the first matter;
`mailsync_renumber` has a third UID so that a renumbering can move a message to a
UID never seen. Overlap needs two workers; one renumbering, stop or failure
at any of the points the code can be at covers each single disturbance
and its recovery, and several of them together up to one each. A chunk of one
makes a batch of two cards go through the chunk loop twice. Two launchers make the race between
the check of a flag and its setting; two threads are the two runs that come of it, and two restarts
cut one run and then the next. Each part of `triage_board` runs alone: triage and the jobs share no state in the model.
Two accounts are enough to swap passwords, and lists of two to reorder, repeat,
drop and add entries. A history of two is full after a seed and one write.
In `archive_folders` two requests and the cleanup are enough for a folder to be listed by
one, renamed or replaced by the next and used by the first again; a/c and b/c give a
subtree that a rename carries along and a parent that the sweep must take after its
child. In `sign_in` two consents make a login that replaces a revoked one, and two
troubles a revocation and a failure beside it; the two loops are checked one at a
time, since they share only what the board and the terminal already write. Both exports
`{"full", "absent"}` pass as well (0.7 M states). In `upgrade` one version over the
predecessor is one upgrade; decisions of different cards do not touch each other. In
`board_pages` three events are a change behind a page, a form and a change of the accounts.
Left out of the passing `MailSync` runs, and covered for safety by the
theorems: a message that returns to the folder (`Redelivery = TRUE`) and a server
that reports no UIDVALIDITY (`"novalidity"`). With either, mail may fail to reach
the board: a returning message can lose its card to a reconciliation that is between
search and delete, and a cycle without UIDVALIDITY cannot notice a renumbering.

Symmetry is used only where it is sound: ingesters in `mailsync_safety`, accounts
and writers in `config`, handlers in `archive_folders`, pages in `board_pages`, and none in a run with
a liveness property.
`CHECK_DEADLOCK FALSE` stands where the bounds let everything come to rest;
`MailSync` runs check for deadlock, since its loops never end.

Every property of a passing run has a mutant in `PROJECT.json`: a plausible
bug in one mapped definition that makes TLC find the property violated.

### What the properties say

* `NothingBelowWatermark`: no message in the folder at or below the watermark,
  in the namespace the watermark was written for, has gone unseen.
* `PruneJustified`: reconciliation removes a card only if its message was out of
  the folder at some moment of that very run.
* `PointerNamesOwnMessage`, `PointersConverge`: until a renumbering a stored UID
  is never that of another message, and after one it becomes right again.
* `MailReachesBoard`, `GoneMailLeavesBoard`: the board follows the folder. The
  first exempts a message whose insert failed (the code counts it and passes on),
  the second a card whose stored UID has become that of another message.
* `WatermarkAdvances`: the watermark goes back only by the hand of a cycle that was overtaken:
  another has moved the watermark it had read. Any other way back would fetch a completed batch again.
* `NothingLostUnasked`, `DropJustified`: archive, delete and batch lose neither
  a message nor the card of one that is still there.
* `OneAtATime` is what the batch service promises, and `flight_overlap` refutes it. `OverlapExplained`:
  nothing else makes a job run twice at once, no failed statement, failed thread start, kill or
  restart; only launches that were under way together.
* `FlagExplained`, `FlagsRecover`: a flag that says running is the flag of somebody at work who will
  clear it, or something failed; and it falls. Both also where two runs overlap.
* `BoardRules`: the refinement of `Columns`.
* `NoFalseArchive`, `SentIsNoticed`: an answered card is archived after, and
  only after, a reply to it is in Sent.
* `SecretsStayWithTheirAccount`: no password moves to another account and the mask is
  never stored, whether requests take turns or cross. `HistoryConsecutive`: nor does the
  history skip or repeat a version. `HistoryOnlyGrows`: until requests cross, a failed write or a
  kill in the middle of one neither truncates the history nor takes a version back.
* `UnsubmittedKept`, `CacheFollowsFile`, `RecoveryIsCurrent`: what a request left out is
  as it was, and the copies of the configuration agree once it is over, each until
  something happens that the code does not provide for (`InTurn`, `Reliable`, `OneHome`).
* `NothingLost`: archived mail disappears only when its deletion was asked for, or with a folder that
  was counted empty and then deleted by name, on a server that deletes folders with mail.
* `ActsOnNamed`: what a request copies, removes or shows is the message it named, though
  folders are renamed and UIDs reassigned meanwhile.
* `SpareCopiesExplained`: a message is in the archive twice only in the middle of a
  move, or because one was cut or beaten.
* `CleanupComplete`: a cleanup nobody disturbed leaves no folder without mail in it or below.
* `SignedInStays`, `FlowTellsTheTruth`: a completed login survives all connections and logins that
  load and write back the token, but for a revocation between a refresh and its write, and the
  board reports what happened.
* `AccountsFetched`, `HealthConverges`: the loops come round to each account again and
  again, and the health shown comes right.
* `DecisionsSurvive`, `DatabasesOpen`: no migration changes a decision, and every process gets
  its database open again.
* `SkipMeansDeployed`: when the updater finds nothing to do, every container runs that
  commit.
* `ActsWhereShown`: a form changes the account whose card or column it was shown for. The
  excuses in its definition are the known exceptions (section 6).

## 4. Fairness

* `MailSync!FairSpec`: weak fairness of `Work(p)` for each worker. `_ingest_loop`
  and `_reconcile_loop` in `commands_serve.py` are `while True`, and an exception
  ends a cycle, never the loop. `Stop` and the failures are not fair.
* `SingleFlight!FlightFairness`: weak fairness of `Runs`, the disjunction of what launchers do once
  they have passed the check, of the threads that were started and of the loops: the process makes
  progress, and nothing is said about which thread does. Nothing makes
  the operator click (`Check`) or the process restart.
* `Triage!Fairness`: weak fairness of `Reconcile(r)`, which the reconcile loop starts
  every interval. Agents, operator and mail client owe nothing.
* `MCTriage!BoardFairness`: the two above, and `FlightFairness` of the ingest job, for the part the
  behaviour is of.
* `WatchLoop!Fairness`: weak fairness of each step of the loops (`Start`, `Idle`, `Reload`,
  `ServeStarts`, `ServeReloads`), of each connection and of each login that is under
  way. The loops are `while True`, and the containers have `restart: unless-stopped`.
  Nothing makes a user log in, a file be edited or a process die.
* `Migrations`/`AutoUpdate!Fairness`: weak fairness of `InitDb(p)`, as every ingest cycle
  opens the database, and of the updater's steps, as cron starts it again and again.
  Failures, pushes and the operator are not fair.

`CardActions`, `ConfigStore`, `ArchiveFolders` and `BoardPages` have safety properties only.

## 5. Proofs

`tlapm` proves, for any sets of messages, workers, cards and threads and all values
of the bounds:

| Theorem | Says | Argument |
|---|---|---|
| `MailSyncProofs!TypeCorrect` | `Spec => []TypeOK` | `TypeInv` = `TypeOK` and `LocalsOK` (a worker in the middle of a message holds it) |
| `MailSyncProofs!NoMessageBelowWatermark` | `Spec => []NothingBelowWatermark` | `Coverage`, below |
| `MailSyncProofs!PruningIsJustified` | `Spec => []PruneJustified`, if `"swallow" \notin FaultKinds` | `AwayOK`: a row found missing, or still to be looked up, was seen away in this run |
| `MailSyncProofs!PointersAreOwn` | `Spec => []PointerNamesOwnMessage` | `PointersOK`: UIDs are unique, and every UID on its way to a row belongs to the row's message |
| `MailSyncProofs!WatermarkBackOnlyOvertaken` | `Spec => WatermarkAdvances` | what a cycle writes lies beyond the watermark it has read |
| `MailSyncProofs!WhatIsSkippedIsOnBoard` | `Spec => []SkippedIsOnBoard`, if `ComesOnce` | `KeptInv`, below |
| `BoardProofs!FlightTypeCorrect` | `FlightSpec => []FlightTypeOK` | directly inductive |
| `BoardProofs!OverlapsAreCrossings` | `FlightSpec => []OverlapExplained` | `Announced`: while no launches cross, one launcher at most is on its way and nobody works meanwhile, and the flag is set whenever somebody works or is about to be started |
| `BoardProofs!FlagsAreExplained` | `FlightSpec => []FlagExplained` | directly inductive, with `FlightTypeOK` |
| `BoardProofs!PagesTypeCorrect` | `PagesSpec => []PagesTypeOK` | first part of `PagesInv`, below |
| `BoardProofs!FormsActWhereShown` | `PagesSpec => []ActsWhereShown` | `Honest` and `ShowsCurrent`, below |
| `TriageProofs!TriageTypeCorrect` | `Spec => []TypeOK` | directly inductive; the foreign key is a conjunct of it |
| `TriageProofs!ColumnsFollowTheRules` | `Spec => Board!Spec` | every step is a step of `Columns` or leaves `decision` alone, under `TypeOK` |
| `TriageProofs!NeverFalseArchives` | `Spec => []NoFalseArchive` | `SeenInSent`: a link about to be stamped had a reply in Sent, and Sent only grows |
| `CardActionsProofs!CardTypesHold` | `Spec => []TypeOK` | first part of `IInv`, below |
| `CardActionsProofs!NothingIsLost` | `Spec => []NothingLostUnasked` | `Spared`, below |
| `CardActionsProofs!DropsAreJustified` | `Spec => []DropJustified` | `Accounted`, below |
| `ConfigStoreProofs!TypesHold` | `Spec => []TypeOK` | `WellFormed`, below |
| `ConfigStoreProofs!SecretsStay` | `Spec => []SecretsStayWithTheirAccount` | `WellFormed`, below |
| `ConfigStoreProofs!HistoryStaysConsecutive` | `Spec => []HistoryConsecutive` | a lemma on what `record` does to a history |
| `ConfigStoreProofs!HistoryGrows` | `Spec => HistoryOnlyGrows` | `LogFilesGood`: while nobody overlaps, no writer holds the history itself open, and a `.tmp` that was filled is the history to be |
| `ConfigStoreProofs!UnsubmittedStays` | `Spec => UnsubmittedKept` | `Undisturbed`, below |
| `ConfigStoreProofs!CopyFollowsFile` | `Spec => []CacheFollowsFile` | `Published`, below |
| `ConfigStoreProofs!RecoveryStaysCurrent` | `Spec => []RecoveryIsCurrent` | `Mirrored`, below |
| `ArchiveFoldersProofs!TypeCorrect` | `Spec => []TypeOK` | first part of `IInv`, below; that every folder has its parent is a conjunct of it |
| `ArchiveFoldersProofs!NoMessageLost` | `Spec => []NothingLost` | `SomeSpared` and `Refused`, below |
| `ArchiveFoldersProofs!ActsOnTheNamed` | `Spec => []ActsOnNamed` | `Remembers`: the UID a request goes by is, in the mailbox it was read from, of its message or of nothing |
| `ArchiveFoldersProofs!SparesExplained` | `Spec => []SpareCopiesExplained` | inductive with the rest of `IInv`: a COPY adds the one copy its move explains |
| `ArchiveFoldersProofs!CleanupLeavesNone` | `Spec => []CleanupComplete` | `Sweeping`, below |
| `SignInProofs!TypeCorrect` | `Spec => []TypeOK` | first part of `IInv`; that a token stems from a consent given is a conjunct of it |
| `SignInProofs!LoginsSurvive` | `Spec => []SignedInStays` | `Writes`, below |
| `SignInProofs!FlowsTellTheTruth` | `Spec => FlowTellsTheTruth` | `Flows`, below |
| `UpgradeProofs!DecisionsAreKept` | `Spec => []DecisionsSurvive` | `CopyIsCurrent`: until the swap, what was copied is what is stored, since the transaction keeps writers out |
| `UpgradeProofs!MarkerIsDeployed` | `Spec => []SkipMeansDeployed` | `MarkerInv`: at each step of a run under the lock, what it has fetched, merged and built |
| `UpgradeProofs!RebuildsKeepApart` | `Spec => []RebuildsApart` | first part of `SchemaInv`, below |
| `UpgradeProofs!OpenedIsMigrated` | `Spec => []OpenedMigrated` | the other part |

The assumptions are the named `ASSUME`s of the modules, which TLC evaluates in every run,
and the hypotheses the table names. The `ASSUME`s say of which kind the constants are, that
sets of processes are disjoint and that the markers `None`, `"all"` and the like are no
data (in `MailSync`, that `None` is no row either). Beyond that, `CardActions` assumes finitely many messages and room for the UIDs of
their first copies; `ArchiveFolders` that handlers are finitely many, that the names it
may use include the superiors of each, and that at first each message is in one folder;
`SignIn` that the bound on consents counts the one an account may have at the start.

The hypotheses are the conditions under which the code keeps what it says, and each is
needed: section 6 says what happens without it.

| Hypothesis | Means | Left open |
|---|---|---|
| `"swallow" \notin FaultKinds` | no failed search of the source folder is passed over | everything else |
| `ComesOnce` | no message returns to the folder, no Message-ID comes twice, and no failed search of the source folder is passed over | cycles that overlap, stops, the other faults, renumbering, removed cards |

`NothingBelowWatermark` is not inductive: whether a watermark is sound depends on
what the cycle that wrote it had fetched, and under which UIDVALIDITY.
`Coverage` follows the promise through the locals of a cycle. `Numbering`: UIDs of
the folder lie below `uidNext`. `WatermarkCovers`: the property itself.
`SinceCovers`: the same of the watermark a cycle has read, in the namespace it
read it for. `BatchCovers`: every message at or below the highest UID of a batch
is handled or still in the batch. An arrival keeps them since its UID is above
everything fetched; the fetch turns `SinceCovers` into `BatchCovers`; handling
a message moves it from one side to the other; writing the watermark turns
`BatchCovers` into `WatermarkCovers`; a renumbering opens a namespace for which
nothing has been promised. It holds however many cycles overlap, and also when a slower
one moves the watermark back.

`NothingBelowWatermark` says that a message was looked at. `SkippedIsOnBoard` says what came of
it: a message that is in the folder, at or below the watermark, has its card, unless it could not be
parsed or its INSERT failed and was recorded. Reconcilers and board actions delete cards while cycles insert them, so
`KeptInv` has to show that a card goes only with its message. `Arrivals`: cards, batches and
snapshots are of messages that came, and a row about to be pruned, or noted as moved, is of a message
that has gone. `HandedOut`: a UID in a batch of the current namespace is that message's alone.
`RefreshKnown`: a message whose card is about to be refreshed still has it, or has gone. `HandledStays` is
then the property for UIDs that were handled, and `Coverage` makes those at or below the watermark handled ones. It needs
`ComesOnce`, since a message that is moved out and back between a search and its delete
loses its card.

`NothingLostUnasked` is not inductive either: an archive in the middle has flagged
one copy of a message and relies on the other, which a batch may be about to flag
in turn. `CardActionsProofs!IInv` says where each message is kept. `Numbered`: a UID
is handed out once per folder, and flags lie below `uidNext`. `CardsTrue`: the UID of a
card names its own message. `Spared`: every message nobody asked to delete has a copy that is neither
flagged nor *condemned*, that is, about to be flagged by an archive whose copy is made.
`WorkerInv(w)` ties the locals of a worker to the mailbox: `Held` and `Phased` (what it
has at each step), `Claimed` (the UIDs it acts on are of its message), `Meant` (it deletes only
what was asked) and `Accounted` (its message is still where it acts, or flagged
there, or was seen to go; this gives `DropJustified`). A step of another worker keeps
`WorkerInv(w)` because the mailbox only `Evolves` (copies are added under new UIDs,
flagged, expunged when flagged, and every removal is noted in `gone`): that is
one lemma, `Bystander`, instead of one per pair of actions. The theorems are about `Spec`, the
server that does not renumber; `cardactions_renumber` shows that with renumbering the
property fails.

`ActsWhereShown` depends on what a page was rendered with long before its form is sent.
`BoardProofs!PagesInv` follows that. `HeldAtHome`: an account has cards only of mail
delivered to it. `Honest(pg)`: whatever a page shows, however old, it names accounts its
mail was delivered to; on the page of one account all of it is that account's, and on
the board of all mailboxes every form of a card names an account. So a form that names an account
can only go wrong for a mail of two accounts or an account that is gone. A form that names
none goes where the cookie points: `PageInv(p)` says that a page that is not `crossed` is alone,
and that what it shows is what the cookie selects (`ShowsCurrent`). Each request of a page that is
alone sends that account or none, and `CookieKept` says that this leaves the selection as it
is; a redirect loads the page anew. What a page that is `crossed` sends without a
name is one of the excuses, so of those only `Honest` is needed. That needs no bound on accounts, mails, pages or
events, and no assumption but the module's own.

`ConfigStoreProofs!WellFormed` says of every list of accounts anywhere (file,
history, stores, served copy, locals of a request) that each id occurs once and each
password is one of its own account. Lemmas on `MergeAccounts`, `Merge`, `Strip`, `Without` and `record`
carry it through a request; it holds for any number of requests that cross.

The other three properties of `ConfigStore` compare two places that one request writes one
after the other, so each needs to know what is still on its way. Under `InTurn`,
`Undisturbed`: whoever is at work is alone, the file is valid, a request that has not written it yet holds what the file says as `before`, and
what it will write, `after`, is the merge of that with what was submitted (or that with
one account more, or less). The lemma `MergeKeeps`, on `merge_updates` and `_merge_list`
for any lists, then gives `UnsubmittedKept`. Under `Reliable`, `Published`: the served accounts are those of the
file unless a request is between writing the file and publishing it, and then it holds
the list it will publish. Under `OneHome`, `Mirrored`: the store of each configured account is current
or absent, unless a request is between the two writes, and then every account that is not current is in
the list it has left to mirror. That list is the file's, so it needs `Published`,
and that needs `Undisturbed`. None of the six theorems has a hypothesis: what ends the
guarantees is in the properties, and `ActsAlone` shows that until then a request is alone.

`ArchiveFoldersProofs!IInv` is one invariant for the five safety properties, because each
leans on the others. A move relies on the copy it has just made while another
request may be about to remove that copy, rename its folder or delete it:
`SomeSpared` says that each message that nobody asked to delete, and that no DELETE took
along, has a copy in a listed folder that no move is about to remove. Whether a move may
remove its copy depends on what it remembers: `Remembers(t)` says that the UID it noted in a mailbox
is of its message or of nothing (`Knows`, kept because `Numbered` never hands a UID out
twice), that a move about to remove a copy has made another, and that what it is about to expunge is flagged.
`Equipped(t)` is what a thread has at each step. `Apart` says that no two names stand for one mailbox, so that RENAME
moves a subtree without merging folders. `Few`, that copies are finitely many, lets
`SpareCopiesExplained` count them. `Sweeping` is the cleanup: while nobody disturbs it, its
listing is the server's, and every folder below the root that it is done with has mail in
or below it; a folder it is about to drop is empty and has no subfolders. As the cleanup goes
from the deepest folder up, a parent is only looked at when its children are gone. The proof has one lemma
per action; the steps that do not touch the mailboxes share a lemma about what a thread
may change of its own.

`SignInProofs!IInv` is `TypeOK` with `SInv`. `Consents`: neither the file nor a login
holds a token of a consent that was not given. `Writes`: every token that a connection or login is about to
write works, unless `exposed`: a connection writes back only what the provider has just
refreshed, and a login what the user has just consented to. Whichever of them writes last,
`SignedInStays` follows; a write of a token of a dead consent is the exception, and only a revocation
in the middle makes one. `Flows`: a login of the board has written a token
exactly when it is between the write and its report, is alone with its account unless logins have
crossed, and then the entry of the account says that it is pending. What a login ends with
is then what it did.

`SchemaInv` ties the schema of a database to who is in the middle of `init_db`. A rebuild
is CREATE, COPY and a swap, and the CREATE fails when the spare table is there. So at most
one process is between CREATE and COPY, and the spare table stands alone only when a
process was cut (`RebuildsApart`); who is past the rebuild, or has the database open, has
the new table (`OpenedMigrated`).

Three of these theorems are safety halves of liveness properties that only TLC checks.
`SkippedIsOnBoard`: once the watermark has passed a message, `MailReachesBoard` has
nothing left to wait for. `FlagExplained`: a flag that `FlagsRecover` waits for belongs to someone
at work who will clear it, unless a statement or a thread start failed or ingestion was
restarted. `OpenedMigrated`: the database that `DatabasesOpen` waits for is one that the new version
can use.

TLC checked each of these invariants on a small instance before it was proved.

## 6. Where the code and its documentation disagree

Three runs show behaviours that a comment, docstring or document excludes
(quoted in `PROJECT.json` under `findings`).

1. **Watermark without UIDVALIDITY** (`mailsync_crash_renumber`). The two are
   two commits; after a crash between them on the very first cycle, a later
   renumbering goes unnoticed and new mail below the old watermark is never fetched.
2. **Another message is deleted** (`cardactions_renumber`).
   `resolve_uid_with_fallback` takes a stored UID for confirmed when any message
   has it. After a UIDVALIDITY change and before the next ingest refreshes the
   card, deleting the card expunges another message.
3. **Two batches at once** (`flight_overlap`). The check of the flag
   (`_request_helpers.py:166`) and its setting (line 171) are two statements without a lock, in the threads of a
   `ThreadingHTTPServer`; two requests may pass the check and start a worker each. The docstring
   `_batch_service.py:33-35` says that delete and archive cannot run concurrently on one account.

Further limits are behaviours of the code under which a property would fail. Each
property is stated for the conditions in which it holds: by the instance it is
checked on, or by an exemption named in its definition.

Ingestion and reconciliation:

* A message whose insertion fails is counted and the watermark passes it
  (documented, `docs/ingestion.md:216`); `MailReachesBoard` exempts it.
* Two overlapping ingest cycles (the serve loop, `ingest --watch` and a force-fetch run beside each other)
  move the watermark back; nothing is lost, a batch is fetched twice. `WatermarkAdvances` leaves
  that step to a cycle that was overtaken.
* A failed search of the source folder prunes the card of a message that never
  left (`"swallow"` in `FaultKinds`, `PruneJustified`), and a message moved out and back
  between a search and its delete loses its card (`Redelivery = TRUE`, `MailReachesBoard`).

Jobs and triage:

* A force-fetch runs beside the ingest loop, which asks nobody and clears its flag, so that the next one may start
  beside it (`OverlapExplained` leaves ingestion out). A flag other than ingest's stays up
  when its worker cannot start, open the database or write; the next restart clears it
  (`FlagsRecover` speaks of a job nothing failed in).
* A card deleted during the LLM call breaks the foreign key of its verdict, and the
  verdicts after it in the run are lost (`triage/agent.py:435`); they are made again by the next run.
* A verdict may land on a card that was answered meanwhile; a run under way does
  not look again at a column that is reset, and refuses the launch that the reset asks for; an earlier reply of the same thread closes
  a link; a crash between APPEND of a draft and `record_compose_link` leaves a
  reply that is never noticed.

Configuration:

* Two updates that cross lose the first one's keys (`UnsubmittedKept` without `~crossed`
  in `InTurn` fails).
* Two requests that cross write their histories through one `.tmp` file name: one may publish the
  truncated file of the other, overwrite the versions it recorded, or fail in `os.replace`
  (`HistoryOnlyGrows` without `~crossed` fails). The comment at `config/versions.py:107-108`
  says "Written atomically so a crash mid-write cannot truncate the history"; of a crash that is true.
* When the history cannot be written after the save, the served accounts stay old
  (`CacheFollowsFile` without the `"log"` of `Reliable`); without `restarts = 0` the same property
  shows a deleted account coming back from its settings store. Outside the data root the
  mirror writes a store that recovery does not read (`RecoveryIsCurrent` without `cwd = Root`).
* `_load` turns a file it cannot validate into an empty config, and an update of
  one key saves that (`config/service.py:265`).

Archive:

* A duplicate stays when a move is cut, or two cross, between COPY and removal
  (`SpareCopiesExplained` lists the reasons).
* On a server that deletes folders that hold mail, mail that arrives between
  the count and the DELETE goes with the folder (`swept` in `NothingLost`).
* A request that selects by name may meet a folder that was replaced by another of the
  same name (exempt in `ActsOnNamed`); an existing UID wins over the Message-ID.
* Overlapping override requests lose one of the two; hints lost between two triage
  runs cost another LLM call. A rename updates neither.
* `serve_message_body` also scans names marked `\Noselect`, though its docstring says
  "every selectable folder".

Sign-in and loops:

* Passwordless Microsoft accounts are skipped by every loop, as `docs/ingestion.md:67`
  says and `docs/connecting.md:316` denies; `AccountsFetched` is about accounts with a
  password.
* Two logins of one account at once share one dictionary entry, and a success may be
  reported as an error (`crossed`). A token refreshed before a revocation and written
  after it overwrites a new login (`exposed`).
* A connection that raises what is neither `ImapError` nor `SmtpError` (a `ConfigurationError` of the
  token, an `OSError` or timeout out of `login` or `authenticate`) ends `/probe-health` for the accounts behind
  it. `--account` is lost through the idle loop, and a removed one falls back to all.

Upgrade:

* `CREATE TABLE triage_decisions_new` commits outside the announced transaction
  (`db/_migrate.py:147`). A kill, a lock or a refused row before the copy leaves a
  database that no later start opens (`cut`; `DatabasesOpen` exempts it).
* The mirror migration runs at every open though its docstring says one-time.
* A branch checked out by the operator between merge and build is deployed under the wrong
  commit (`switched`).

Board pages (excuses of `ActsWhereShown`):

* A form that names no account goes to the cookie's, which another page, or the prefetch of
  `/archive-folders?account=…`, may have changed.
* The notes form on the board of all mailboxes names no account; a page loaded while
  there was one account never sends one.
* A message delivered to two accounts is one card on the board of all mailboxes.

## 7. What is only model-checked, what is not modelled

Only model-checked is every liveness property (`MailReachesBoard`, `GoneMailLeavesBoard`,
`PointersConverge`, `FlagsRecover`, `SentIsNoticed`, `AccountsFetched`, `HealthConverges`,
`DatabasesOpen`), since the prover handles neither fairness nor `ENABLED`. Each of the other
properties that the passing runs check is stated by a theorem.

Not modelled, and why:

* *Autodiscovery of servers*: a sequence of lookups without state, whose result is
  a form the operator confirms.
* *Parsing and MIME*: pure functions of one message. `MailSync` keeps that a
  message may fail to parse.
* *Config-sync agent and config CLI*: one-shot commands that propose text for a file
  the operator reviews.

Modelled only where another component uses them:

* *SMTP*: connect and authenticate (`SignIn`); one sequential session that sends one message.
* *Attachments*: where a message is looked for and which body is served (`ArchiveFolders`).
  The MIME walk and the upload are left out; the upload does not verify the Message-ID.
* *HTTP handlers and views*: the account a request acts on (`BoardPages`) and the
  handlers of the modelled operations; rendering is left out.
* *Command line*: which loop a command starts (`WatchLoop`).
* *LLM runs*: a call that takes time and answers with any verdict, or fails (`Triage`).
* *Observability*: the health row and the probe (`SignIn`, `WatchLoop`).

Abstracted inside modelled components: TLS and literals of IMAP; the audit log; rows
without a UID; accounts' fields other than id, password and data root; the
content of messages, drafts and prompts; the compose drafts that `/delete` removes for cards without a UID; waste folders; the requests of a board page are atomic with
respect to the cookie; rollbacks and force-pushes of origin; the additive-column helper
of the migrations, which is external.

## 8. Plan

What is left, in the order of what matters most:

1. `ArchiveFolders` composed with the cards of `CardActions`, so that a card's folder is renamed
   under a batch.
2. Both loops of `WatchLoop` in one instance, and a third consent.
3. A run of its own for each limit of section 6 whose wider instance is only
   described there.
