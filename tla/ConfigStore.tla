----------------------------- MODULE ConfigStore -----------------------------
(***************************************************************************)
(* The configuration of the service: the file config.json, its version     *)
(* history, the settings store of each account, which is what is left when *)
(* the deploy system overwrites the file, and the copy of the accounts the *)
(* server answers from.  Requests run in threads of their own; every read  *)
(* and every write of a file or of a store is an action.                   *)
(***************************************************************************)
EXTENDS Naturals, Sequences, FiniteSets

CONSTANTS
    Ids,            \* account ids
    Kinds,          \* how many passwords are ever typed for one account
    Settings,       \* values of a component-wide setting
    Default,        \* the value of the setting in an empty config
    Writers,        \* request threads
    Retention,      \* RETENTION
    Ops,            \* the requests that are made
    FaultKinds,     \* which writes may fail
    MaxListed,      \* bound on the accounts of a submitted list
    MaxWrites,      \* bound on requests
    MaxFaults,      \* bound on the kinds of writes that fail
    MaxRestarts,    \* bound on restarts, the file overwritten or not
    MaxEdits,       \* bound on edits by hand
    Blank,          \* no password
    Mask,           \* MASK: what a password reads as
    None

\* The passwords that are typed for account i, by the operator or by the
\* deploy system.
Typed(i) == {i} \X (1..Kinds)
Secrets == UNION {Typed(i) : i \in Ids}

\* An absent key is no list of accounts, an absent file no history.
ASSUME ConfigAssumption ==
    /\ Default \in Settings
    /\ None \notin Seq([id : Ids, secret : Secrets \cup {Blank, Mask}])
    /\ None \notin Seq([version : Nat, config : [setting : Settings,
                         accounts : Seq([id : Ids, secret : Secrets \cup {Blank}])]])
    /\ Retention \in Nat \ {0} /\ Kinds \in Nat \ {0}
    /\ Ops \subseteq {"get", "put", "rollback", "add", "delete"}
    /\ FaultKinds \subseteq {"save", "log", "seed", "mirror"}
    /\ {MaxListed, MaxWrites, MaxFaults, MaxRestarts, MaxEdits} \subseteq Nat

VARIABLES
    file,           \* config.json: valid, the setting, the accounts
    history,        \* config_versions.json, newest first; <<>> if unreadable
    tmp,            \* its .tmp file, or None
    fd,             \* per writer: the file it has open to write a history
    stores,         \* per directory and account: its settings store
    served,         \* the accounts of the server's copy
    op, pc,         \* per writer: the request, and how far it is
    asked,          \*   the update it asks for
    before, after,  \*   the config it read, the config it writes
    log,            \*   the history it read
    left,           \*   the accounts still to write to the copy and stores
    cwd,            \* the directory the processes run in
    writes, restarts, edits,
    \* History, read by the properties only.
    crossed,        \* a request began while another was under way
    failed          \* the kinds of writes that have failed

logFiles == <<history, tmp, fd>>
disk == <<file, logFiles, stores>>
locals == <<op, pc, asked, before, after, log, left>>
bounds == <<writes, restarts, edits, crossed, failed>>
vars == <<disk, served, locals, cwd, bounds>>

-----------------------------------------------------------------------------
(* Configurations.                                                         *)

Config(setting, accounts) == [setting |-> setting, accounts |-> accounts]
Account(i, secret) == [id |-> i, secret |-> secret]
Empty == Config(Default, <<>>)

IdsOf(accounts) == {accounts[k].id : k \in DOMAIN accounts}

SecretOf(accounts, i) ==
    IF i \in IdsOf(accounts)
    THEN accounts[CHOOSE k \in DOMAIN accounts : accounts[k].id = i].secret
    ELSE Blank

\* A password left blank, or sent back as it was masked, is the stored one.
Chosen(secret, stored) == IF secret \in {Blank, Mask} THEN stored ELSE secret

\* Mutant: entries are matched by position.
MergeByPosition(current, updates) ==
    [k \in DOMAIN updates |->
        Account(updates[k].id,
                Chosen(updates[k].secret,
                       IF k \in DOMAIN current THEN current[k].secret
                       ELSE Blank))]

\* _merge_list
MergeAccounts(current, updates) ==
    [k \in DOMAIN updates |->
        Account(updates[k].id,
                Chosen(updates[k].secret, SecretOf(current, updates[k].id)))]

\* Mutant: a key that was not submitted is reset.
MergeDefaults(current, updates) ==
    Config(IF updates.setting = None THEN Default ELSE updates.setting,
           IF updates.accounts = None THEN current.accounts
           ELSE MergeAccounts(current.accounts, updates.accounts))

\* merge_updates: a key that was not submitted keeps its value.
Merge(current, updates) ==
    Config(IF updates.setting = None THEN current.setting ELSE updates.setting,
           IF updates.accounts = None THEN current.accounts
           ELSE MergeAccounts(current.accounts, updates.accounts))

\* Mutant: nothing is refused.
AlwaysValid(config) == TRUE

\* MailAccountsConfig refuses two accounts with one id.
Valid(config) ==
    \A j, k \in DOMAIN config.accounts :
        config.accounts[j].id = config.accounts[k].id => j = k

\* load_accounts, with the passwords put back after the dump.
Stored == Config(file.setting, file.accounts)

\* strip_secrets, and the snapshot as the update a rollback makes of it.
Strip(config) ==
    Config(config.setting, [k \in DOMAIN config.accounts |->
                               Account(config.accounts[k].id, Blank)])

\* Mutant: the number of the newest version is used again.
RepeatedEntry(entries, config) ==
    [version |-> IF entries = <<>> THEN 1 ELSE Head(entries).version,
     config |-> Strip(config)]

\* ConfigVersionStore.record, on the entries it has read.
Entry(entries, config) ==
    [version |-> IF entries = <<>> THEN 1 ELSE Head(entries).version + 1,
     config |-> Strip(config)]

Capped(entries) ==
    SubSeq(entries, 1, IF Len(entries) < Retention THEN Len(entries)
                       ELSE Retention)

\* A relative db_path is resolved against mail_data_root when the file is
\* read; discover_accounts_from_settings_stores and the form that adds an
\* account use the working directory.
Root == "root"
Dirs == {Root, "elsewhere"}

Recovered == {i \in Ids : stores[cwd][i] # None}

-----------------------------------------------------------------------------
Init ==
    /\ \E i \in Ids : file = [ok |-> TRUE, setting |-> Default,
                              accounts |-> <<Account(i, <<i, 1>>)>>]
    /\ history = <<>> /\ tmp = None
    /\ fd = [w \in Writers |-> "none"]
    /\ stores = [d \in Dirs |-> [i \in Ids |-> None]]
    /\ served = IdsOf(file.accounts)
    /\ op = [w \in Writers |-> None]
    /\ pc = [w \in Writers |-> "idle"]
    /\ asked = [w \in Writers |-> Config(None, None)]
    /\ before = [w \in Writers |-> Empty]
    /\ after = [w \in Writers |-> Empty]
    /\ log = [w \in Writers |-> <<>>]
    /\ left = [w \in Writers |-> <<>>]
    /\ cwd \in Dirs
    /\ writes = 0 /\ restarts = 0 /\ edits = 0
    /\ crossed = FALSE /\ failed = {}

Fault(kind) ==
    /\ kind \in FaultKinds
    /\ failed' = failed \cup {kind} /\ Cardinality(failed') <= MaxFaults

Begin(w, kind, updates, current, next, place) ==
    /\ pc[w] = "idle"
    /\ kind \in Ops
    /\ writes < MaxWrites /\ writes' = writes + 1
    /\ op' = [op EXCEPT ![w] = kind]
    /\ asked' = [asked EXCEPT ![w] = updates]
    /\ before' = [before EXCEPT ![w] = current]
    /\ after' = [after EXCEPT ![w] = next]
    /\ pc' = [pc EXCEPT ![w] = place]
    /\ crossed' = (crossed \/ \E v \in Writers : pc[v] # "idle")
    /\ UNCHANGED <<disk, served, log, left>>
    /\ UNCHANGED <<restarts, edits, failed>>

\* The request answers; what it held is gone.
Done(w) ==
    /\ op' = [op EXCEPT ![w] = None]
    /\ pc' = [pc EXCEPT ![w] = "idle"]
    /\ asked' = [asked EXCEPT ![w] = Config(None, None)]
    /\ before' = [before EXCEPT ![w] = Empty]
    /\ after' = [after EXCEPT ![w] = Empty]
    /\ log' = [log EXCEPT ![w] = <<>>]
    /\ left' = [left EXCEPT ![w] = <<>>]

GoTo(w, place) ==
    /\ pc' = [pc EXCEPT ![w] = place]
    /\ UNCHANGED <<op, asked, before, after>>

-----------------------------------------------------------------------------
(* PUT /config, POST /config/rollback and GET /config.                     *)

\* _load: a file that cannot be read is an empty config.
Load == IF file.ok THEN Stored ELSE Empty

\* What the panel may submit: some keys; the accounts only as a list.
Submitted ==
    LET entry == {Account(i, s) : i \in Ids, s \in Secrets \cup {Mask}}
        own == {e \in entry : e.secret = Mask \/ e.secret \in Typed(e.id)}
    IN  {Config(s, a) : s \in Settings \cup {None},
                        a \in {None} \cup UNION {[1..n -> own] : n \in 1..MaxListed}}

\* A candidate that is not valid is refused, and nothing is written.
Put(w, updates) ==
    LET merged == Merge(Load, updates)
    IN  Valid(merged) /\ Begin(w, "put", updates, Load, merged, "seed")

Rollback(w, k) ==
    /\ k \in DOMAIN history
    /\ LET merged == Merge(Load, history[k].config)
       IN  Begin(w, "rollback", history[k].config, Load, merged, "seed")

\* A read of the config records the first version.
Get(w) ==
    /\ history = <<>>
    /\ Begin(w, "get", Config(None, None), Load, Load, "seed")

\* current_version() = 0
Seed(w) ==
    /\ pc[w] = "seed"
    /\ IF op[w] = "get" /\ history # <<>> THEN Done(w)
       ELSE /\ GoTo(w, IF history = <<>> THEN "read" ELSE "save")
            /\ UNCHANGED <<log, left>>
    /\ UNCHANGED <<disk, served, bounds>>

ReadLog(w) ==
    /\ pc[w] \in {"read", "record"}
    /\ log' = [log EXCEPT ![w] = history]
    /\ GoTo(w, IF pc[w] = "read" THEN "seeding" ELSE "recording")
    /\ UNCHANGED <<disk, served, left, bounds>>

\* ConfigVersionStore._write: every request writes its history to one .tmp file
\* and renames that to the history, wherever the two are by then.  Where a step
\* fails the request answers 500.
Recording(w) == pc[w] \in {"seeding", "recording"}
Payload(w) ==
    LET config == IF pc[w] = "seeding" THEN before[w] ELSE after[w]
    IN  Capped(<<Entry(log[w], config)>> \o log[w])

LogFails(w) ==
    Fault("log") /\ Done(w) /\ fd' = [fd EXCEPT ![w] = "none"]

\* Mutant: the history is written in place.
OpenInPlace(w) ==
    /\ Recording(w) /\ fd[w] = "none"
    /\ history' = <<>>
    /\ fd' = [fd EXCEPT ![w] = "file"]
    /\ UNCHANGED <<file, stores, served, locals, tmp, bounds>>

\* Opening the .tmp file truncates it, under whoever is writing it.
OpenLog(w) ==
    /\ Recording(w) /\ fd[w] = "none"
    /\ \/ tmp' = <<>> /\ fd' = [fd EXCEPT ![w] = "tmp"] /\ UNCHANGED <<locals, failed>>
       \/ LogFails(w) /\ UNCHANGED tmp
    /\ UNCHANGED <<file, stores, served, history, writes, restarts, edits, crossed>>

\* What a write leaves in a file: over a longer text, no JSON.
Overwritten(old, new) == IF old = <<>> THEN {new} ELSE {new, <<>>}

\* The file open may be the history by now, or one that was replaced.
FillLog(w) ==
    /\ fd[w] \in {"tmp", "file", "gone"}
    /\ \/ /\ IF fd[w] = "tmp" THEN tmp' \in Overwritten(tmp, Payload(w)) ELSE UNCHANGED tmp
          /\ IF fd[w] = "file" THEN history' \in Overwritten(history, Payload(w))
             ELSE UNCHANGED history
          /\ fd' = [fd EXCEPT ![w] = "done"]
          /\ UNCHANGED <<locals, failed>>
       \/ /\ LogFails(w)
          /\ tmp' \in IF fd[w] = "tmp" THEN {tmp, <<>>} ELSE {tmp}
          /\ history' \in IF fd[w] = "file" THEN {history, <<>>} ELSE {history}
    /\ UNCHANGED <<file, stores, served, writes, restarts, edits, crossed>>

\* Those that have the .tmp file open now have the history open.
Renamed(v) == CASE fd[v] = "tmp" -> "file" [] fd[v] = "file" -> "gone" [] OTHER -> fd[v]

ReplaceLog(w) ==
    /\ fd[w] = "done"
    /\ \/ /\ tmp # None
          /\ history' = tmp /\ tmp' = None
          /\ fd' = [v \in Writers |-> IF v = w THEN "none" ELSE Renamed(v)]
          /\ IF op[w] = "get" THEN Done(w)
             ELSE /\ GoTo(w, IF pc[w] = "seeding" THEN "save" ELSE "reload")
                  /\ log' = [log EXCEPT ![w] = <<>>]
                  /\ UNCHANGED left
          /\ UNCHANGED failed
       \/ /\ tmp = None
          /\ Done(w) /\ fd' = [fd EXCEPT ![w] = "none"]
          /\ UNCHANGED <<history, tmp, failed>>
       \/ LogFails(w) /\ UNCHANGED <<history, tmp>>
    /\ UNCHANGED <<file, stores, served, writes, restarts, edits, crossed>>

WriteLog(w) == OpenLog(w) \/ FillLog(w) \/ ReplaceLog(w)

\* save_accounts: the file is replaced, or the request answers 500.
Write(w, next) ==
    /\ \/ /\ file' = [ok |-> TRUE, setting |-> after[w].setting,
                      accounts |-> after[w].accounts]
          /\ GoTo(w, next)
          /\ UNCHANGED <<log, left, failed>>
       \/ Fault("save") /\ Done(w) /\ UNCHANGED file
    /\ UNCHANGED <<logFiles, stores, served, writes, restarts, edits, crossed>>

Save(w) == pc[w] = "save" /\ Write(w, "record")

\* _refresh_accounts_cache reads the file again.
Reload(w) ==
    /\ pc[w] = "reload"
    /\ IF file.ok
       THEN /\ left' = [left EXCEPT ![w] = file.accounts]
            /\ GoTo(w, "cache")
            /\ UNCHANGED log
       ELSE Done(w)
    /\ UNCHANGED <<disk, served, bounds>>

Cache(w) ==
    /\ pc[w] = "cache"
    /\ served' = IdsOf(left[w])
    /\ IF left[w] = <<>> THEN Done(w)
       ELSE GoTo(w, "mirror") /\ UNCHANGED <<log, left>>
    /\ UNCHANGED <<disk, bounds>>

\* Mutant: the stores keep what the account was created with.
MirrorNothing(w) ==
    /\ pc[w] = "mirror"
    /\ Done(w)
    /\ UNCHANGED <<disk, served, bounds>>

\* _mirror_to_settings_stores: one account after the other, best effort.
Mirror(w) ==
    /\ pc[w] = "mirror"
    /\ LET account == Head(left[w]) IN
          \/ /\ stores' = [stores EXCEPT ![Root][account.id] = account.secret]
             /\ UNCHANGED failed
          \/ Fault("mirror") /\ UNCHANGED stores
    /\ IF Len(left[w]) = 1 THEN Done(w)
       ELSE /\ left' = [left EXCEPT ![w] = Tail(@)]
            /\ UNCHANGED <<op, pc, asked, before, after, log>>
    /\ UNCHANGED <<file, logFiles, served>>
    /\ UNCHANGED <<writes, restarts, edits, crossed>>

-----------------------------------------------------------------------------
(* POST /add-account and POST /delete-account.                             *)

\* A file that cannot be read is taken for none: the account is the first.
Add(w, i, secret) ==
    /\ i \notin IdsOf(Load.accounts)
    /\ LET new == Account(i, secret)
       IN  Begin(w, "add", Config(None, <<new>>), Load,
                 Config(Load.setting, Append(Load.accounts, new)), "add")

AddSave(w) == pc[w] = "add" /\ Write(w, "store")

\* The settings store of the new account, relative to the working directory.
AddStore(w) ==
    /\ pc[w] = "store"
    /\ LET new == asked[w].accounts[1] IN
          \/ /\ stores' = [stores EXCEPT ![cwd][new.id] = new.secret]
             /\ UNCHANGED failed
          \/ Fault("seed") /\ UNCHANGED stores
    /\ GoTo(w, "publish")
    /\ UNCHANGED <<file, logFiles, served, log, left>>
    /\ UNCHANGED <<writes, restarts, edits, crossed>>

\* The copy is the config that was built, not the file.
AddCache(w) ==
    /\ pc[w] = "publish"
    /\ served' = IdsOf(after[w].accounts)
    /\ Done(w)
    /\ UNCHANGED <<disk, bounds>>

\* No two accounts have one id: the others are those before and after it.
Without(accounts, i) ==
    LET k == CHOOSE j \in DOMAIN accounts : accounts[j].id = i
    IN  SubSeq(accounts, 1, k - 1) \o SubSeq(accounts, k + 1, Len(accounts))

Delete(w, i) ==
    /\ file.ok /\ i \in IdsOf(file.accounts)
    /\ Begin(w, "delete", Config(None, <<Account(i, Blank)>>), Load,
             Config(file.setting, Without(file.accounts, i)), "delete")

DeleteSave(w) == pc[w] = "delete" /\ Write(w, "unpublish")

\* Mutant: the copy is not updated.
DeleteOnly(w) ==
    /\ pc[w] = "unpublish"
    /\ Done(w)
    /\ UNCHANGED <<disk, served, bounds>>

DeleteCache(w) ==
    /\ pc[w] = "unpublish"
    /\ served' = IdsOf(after[w].accounts)
    /\ Done(w)
    /\ UNCHANGED <<disk, bounds>>

-----------------------------------------------------------------------------
(* The deploy system, edits by hand, and restarts.                         *)

\* An edit by hand leaves the file invalid, or mends it.
Edit ==
    /\ edits < MaxEdits /\ edits' = edits + 1
    /\ file' = [file EXCEPT !.ok = ~@]
    /\ UNCHANGED <<logFiles, stores, served, locals>>
    /\ UNCHANGED <<writes, restarts, crossed, failed>>

\* The processes start again and take up what the file and the settings
\* stores hold; requests under way are gone.
Start(accounts) ==
    /\ op' = [w \in Writers |-> None]
    /\ pc' = [w \in Writers |-> "idle"]
    /\ asked' = [w \in Writers |-> Config(None, None)]
    /\ before' = [w \in Writers |-> Empty]
    /\ after' = [w \in Writers |-> Empty]
    /\ log' = [w \in Writers |-> <<>>]
    /\ left' = [w \in Writers |-> <<>>]
    /\ fd' = [w \in Writers |-> "none"]
    /\ served' = IdsOf(accounts) \cup Recovered

\* The server does not start without a config it can read.
Restart ==
    /\ restarts < MaxRestarts /\ restarts' = restarts + 1
    /\ file.ok
    /\ Start(file.accounts)
    /\ UNCHANGED <<file, history, tmp, stores, writes, edits, crossed, failed>>

\* The deploy system writes its own config and restarts the processes.
Deploy ==
    /\ restarts < MaxRestarts /\ restarts' = restarts + 1
    /\ \E accounts \in {<<>>} \cup {<<Account(i, <<i, 1>>)>> : i \in Ids} :
          /\ file' = [ok |-> TRUE, setting |-> Default, accounts |-> accounts]
          /\ Start(accounts)
    /\ UNCHANGED <<history, tmp, stores, writes, edits, crossed, failed>>

Request(w) ==
    \/ \E updates \in Submitted : Put(w, updates)
    \/ \E k \in 1..Retention : Rollback(w, k)
    \/ Get(w)
    \/ \E i \in Ids : Delete(w, i) \/ \E secret \in Typed(i) : Add(w, i, secret)

Step(w) ==
    \/ Seed(w) \/ ReadLog(w) \/ WriteLog(w) \/ Save(w)
    \/ Reload(w) \/ Cache(w) \/ Mirror(w)
    \/ AddSave(w) \/ AddStore(w) \/ AddCache(w)
    \/ DeleteSave(w) \/ DeleteCache(w)

Next ==
    /\ UNCHANGED cwd
    /\ \/ \E w \in Writers : Request(w) \/ Step(w)
       \/ Deploy
       \/ Edit
       \/ Restart

Spec == Init /\ [][Next]_vars

-----------------------------------------------------------------------------
Lists(secrets) == Seq([id : Ids, secret : secrets])
Configs == [setting : Settings, accounts : Lists(Secrets \cup {Blank})]
Places ==
    {"idle", "seed", "read", "seeding", "save", "record", "recording",
     "reload", "cache", "mirror", "add", "store", "publish", "delete",
     "unpublish"}

\* Types; the ids in the file are distinct.
TypeOK ==
    /\ file.ok \in BOOLEAN /\ Stored \in Configs
    /\ \A j, k \in DOMAIN file.accounts :
          file.accounts[j].id = file.accounts[k].id => j = k
    /\ \A k \in DOMAIN history : history[k].version \in Nat \ {0}
    /\ fd \in [Writers -> {"none", "tmp", "file", "gone", "done"}]
    /\ \A w \in Writers : fd[w] # "none" => Recording(w)
    /\ stores \in [Dirs -> [Ids -> Secrets \cup {Blank, None}]]
    /\ served \subseteq Ids /\ cwd \in Dirs /\ failed \subseteq FaultKinds
    /\ pc \in [Writers -> Places]
    /\ op \in [Writers -> Ops \cup {None}]
    /\ before \in [Writers -> Configs] /\ after \in [Writers -> Configs]
    /\ left \in [Writers -> Lists(Secrets \cup {Blank})]

Quiet == \A w \in Writers : pc[w] = "idle"

\* So far requests have taken turns, on a file nobody edited by hand.
InTurn == ~crossed /\ edits = 0

\* And the processes stayed up, and the history could be written.
Reliable == InTurn /\ restarts = 0 /\ "log" \notin failed

\* And the processes run in mail_data_root, where stores could be written.
OneHome == Reliable /\ cwd = Root /\ failed \cap {"seed", "mirror"} = {}

\* The password of one account never ends up on another, and the mask is never
\* stored, however lists are reordered and requests cross (_merge_list,
\* _with_real_secrets).
Own(accounts) ==
    \A k \in DOMAIN accounts :
        accounts[k].secret \in Typed(accounts[k].id) \cup {Blank}

SecretsStayWithTheirAccount ==
    /\ Own(file.accounts)
    /\ \A d \in Dirs, i \in Ids : stores[d][i] \in Typed(i) \cup {Blank, None}

\* The history stays a history, even when requests write it over each other:
\* consecutive versions, newest first, and no more of them than are kept.
HistoryConsecutive ==
    /\ Len(history) <= Retention
    /\ \A k \in 1..Len(history) - 1 :
          history[k].version = history[k + 1].version + 1

\* As long as requests take turns the history only grows, one version at a time:
\* no restart, no failed write and no request killed in the middle of one
\* truncates it or takes a version back (ConfigVersionStore._write).
HistoryOnlyGrows ==
    [][~crossed =>
          \/ history' = history
          \/ history' # <<>> /\ history' = Capped(<<Head(history')>> \o history)]_vars

\* What a request did not submit keeps its stored value: the setting, the
\* other accounts, and the passwords that were not typed; as long as requests
\* take turns (merge_updates, handle_delete_account).
Untouched(w) ==
    LET named == IF asked[w].accounts = None THEN {}
                 ELSE IdsOf(asked[w].accounts)
    IN  IF asked[w].accounts = None \/ op[w] \in {"add", "delete"}
        THEN Ids \ named
        ELSE {i \in named :
                 SecretOf(asked[w].accounts, i) \in {Blank, Mask}}

Kept(w) ==
    /\ asked[w].setting = None => file'.setting = file.setting
    /\ \A i \in Untouched(w) \cap IdsOf(file.accounts) :
          /\ i \in IdsOf(file'.accounts)
          /\ SecretOf(file'.accounts, i) = SecretOf(file.accounts, i)

UnsubmittedKept ==
    [][\A w \in Writers :
          (/\ InTurn
           /\ pc[w] \in {"save", "add", "delete"}
           /\ pc'[w] \in {"record", "store", "unpublish"}) => Kept(w)]_vars

\* When no request is under way the server answers for the accounts that are
\* configured, until requests cross, the file is edited, the processes restart
\* or the history cannot be written (_refresh_accounts_cache).
CacheFollowsFile ==
    Quiet /\ Reliable => served = IdsOf(file.accounts)

\* What would be recovered of an account is what it is configured with, under
\* the same conditions, where both roots are one and no store write has failed
\* (_mirror_to_settings_stores).
RecoveryIsCurrent ==
    Quiet /\ OneHome => \A i \in IdsOf(file.accounts) :
                 stores[cwd][i] \in {None, SecretOf(file.accounts, i)}
=============================================================================
