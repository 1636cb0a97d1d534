--------------------------- MODULE ArchiveFolders ---------------------------
(***************************************************************************)
(* The folders below the archive root.  Requests move, delete and read     *)
(* archived mail and create, rename and delete folders; an archive from    *)
(* the board makes the folder it needs; the reconcile job removes folders  *)
(* that are empty.  Every IMAP command is an action: a request lists the   *)
(* folders once and goes by that listing, a session keeps the mailbox it   *)
(* selected whatever the mailbox is called by then, and DELETE, RENAME and *)
(* COPY go by name.  A SEARCH that verifies a UID is one step with the     *)
(* command it guards.  None of the folders is a waste folder.              *)
(***************************************************************************)
EXTENDS ArchiveHints

CONSTANTS
    Handlers,       \* request threads
    Agent,          \* a triage run
    Cleaner,        \* the reconcile job, one at a time
    Inbox, Root,    \* folder names: sequences of segments
    Subfolders,     \* subfolders there may be, closed under prefixes
    Targets,        \* folders a request moves to, creates or renames to
    InitialMail,    \* the folders there are at first, with their messages
    MaxUid,         \* bound on the UIDs of a mailbox
    MaxMade,        \* bound on how often a name is created
    MaxTroubles     \* bound on failed exchanges and moves by the mail client

Names == {Inbox} \cup {Root \o s : s \in Subfolders}
Path == Seq(STRING)
Boxes == Names \X (1..MaxMade)      \* a mailbox: the name it was made under
Uids == 1..MaxUid
Entries == [uid : Uids, mid : Mids]

\* A folder is named below another by the segments that follow.
Below(n, f) == IsStrictPrefix(f, n)
Under(n, f) == IsPrefix(f, n)
Hierarchy(f) == {n \in Names : Under(f, n)}

\* Where a thread is, and what it was asked.
Labels == {"idle", "save override", "save hints", "choose", "hinted", "propose", "save hint",
           "reread", "respond", "list", "relist", "find", "make", "select", "copy", "remove",
           "expunge", "resolve", "fetch", "count", "open", "search", "purge", "drop", "rename",
           "sweep"}
Requests == {"override", "triage", "proposal", "archive", "move", "message delete", "read",
             "body", "delete", "rename", "create", "cleanup"}

ASSUME FoldersAssumption ==
    /\ Threads = Handlers \cup {Agent, Cleaner} /\ IsFiniteSet(Handlers)
    /\ Agent \notin Handlers /\ Cleaner \notin Handlers /\ Agent # Cleaner
    /\ MaxUid \in Nat /\ MaxMade \in Nat \ {0} /\ MaxTroubles \in Nat
    /\ MaxRequests \in Nat
    /\ Inbox \in Path /\ Root \in Path /\ Subfolders \subseteq Path
    /\ Chosen \subseteq Subfolders
    /\ \A n \in Names : Under(n, Root) => \A i \in Len(Root)..Len(n) : SubSeq(n, 1, i) \in Names
    /\ Targets \subseteq {n \in Names : Below(n, Root)}
    /\ None \notin Mids /\ None \notin Boxes /\ None \notin Names
    /\ None \notin Entered /\ None \notin Chosen /\ None \notin Requests

\* At first every folder has its superiors, and every message is in one folder.
ASSUME MailAssumption ==
    /\ DOMAIN InitialMail \subseteq Names
    /\ \A n \in DOMAIN InitialMail :
          /\ Hierarchy(n) \subseteq DOMAIN InitialMail
          /\ InitialMail[n] \in Seq(Mids) /\ Len(InitialMail[n]) <= MaxUid
    /\ \A m \in Mids : \E n \in DOMAIN InitialMail, i \in Uids :
          /\ i <= Len(InitialMail[n]) /\ InitialMail[n][i] = m
          /\ \A k \in DOMAIN InitialMail, j \in Uids :
                j <= Len(InitialMail[k]) /\ InitialMail[k][j] = m => k = n /\ j = i

VARIABLES
    \* The server.
    rejects,        \* does DELETE refuse a mailbox that holds mail?
    named,          \* the mailbox each name stands for
    made,           \* how often each name was created
    mail, uidNext,
    flagged,        \* the UIDs flagged \Deleted, which the next EXPUNGE takes
    \* Each thread's locals.
    src, dst,       \* folder names
    force,
    seen,           \* the names its LIST returned
    todo,           \* names it still has to deal with
    at,             \* the mailbox its commands will be about
    uid, doomed,    \* the UID to act on, those a forced deletion found
    troubles,
    \* History.
    copied,         \* the message a move has copied
    aim,            \* the mailbox in which the UID was found, and the message
    asked,          \* messages someone asked to have deleted
    swept,          \* messages that went with a deleted folder
    spare,          \* moves of each message cut between COPY and removal
    quiet           \* nothing changed the folders since the cleanup listed them

server == <<rejects, named, made, mail, uidNext, flagged>>
routing == <<op, mid, dest, src, dst, force>>
memo == <<uid, doomed, copied, aim>>
work == <<seen, todo, at, memo>>
bounds == <<requests, troubles>>
history == <<asked, swept, spare, quiet>>
vars == <<hintVars, pc, routing, server, work, bounds, history>>

NoAim == [box |-> None, mid |-> None]

There(b) == b[1] \in DOMAIN InitialMail /\ b[2] = 1

Init ==
    /\ HintsInit
    /\ pc = [t \in Threads |-> "idle"]
    /\ op = [t \in Threads |-> None] /\ mid = [t \in Threads |-> None]
    /\ dest = [t \in Threads |-> None]
    /\ src = [t \in Threads |-> None] /\ dst = [t \in Threads |-> None]
    /\ force = [t \in Threads |-> FALSE]
    /\ rejects \in BOOLEAN
    /\ named = [n \in Names |-> IF n \in DOMAIN InitialMail THEN <<n, 1>> ELSE None]
    /\ made = [n \in Names |-> IF n \in DOMAIN InitialMail THEN 1 ELSE 0]
    /\ mail = [b \in Boxes |-> IF There(b) THEN {[uid |-> i, mid |-> InitialMail[b[1]][i]] :
                                                   i \in 1..Len(InitialMail[b[1]])}
                                           ELSE {}]
    /\ uidNext = [b \in Boxes |-> IF There(b) THEN Len(InitialMail[b[1]]) + 1 ELSE 1]
    /\ flagged = [b \in Boxes |-> {}]
    /\ seen = [t \in Threads |-> {}] /\ todo = [t \in Threads |-> {}]
    /\ at = [t \in Threads |-> None]
    /\ uid = [t \in Threads |-> 0] /\ doomed = [t \in Threads |-> {}]
    /\ requests = 0 /\ troubles = 0
    /\ copied = [t \in Threads |-> None] /\ aim = [t \in Threads |-> NoAim]
    /\ asked = {} /\ swept = {} /\ spare = [m \in Mids |-> 0] /\ quiet = FALSE

-----------------------------------------------------------------------------
(* What the server does with a command.                                    *)

Listed == {n \in Names : named[n] # None}
Archived == {n \in Listed : Under(n, Root)}
Deepest(f, names) == f \in names /\ \A n \in names : Len(n) <= Len(f)
Topmost(f, names) == f \in names /\ \A n \in names : Len(f) <= Len(n)

HasUid(b, u) == \E e \in mail[b] : e.uid = u
Hits(b, m) == {e.uid : e \in {d \in mail[b] : d.mid = m}}
MidsIn(b) == {e.mid : e \in mail[b]}

\* Any change by another thread or client ends the quiet of a cleanup.
Disturb == quiet' = FALSE

\* CREATE makes the name and the superiors it lacks; a name that is there
\* already (ALREADYEXISTS) counts as made.
Created(names, n) == named[n] = None /\ n \in names
CreateFolders(names) ==
    /\ \A n \in Names : Created(names, n) => made[n] < MaxMade
    /\ named' = [n \in Names |-> IF Created(names, n) THEN <<n, made[n] + 1>>
                                 ELSE named[n]]
    /\ made' = [n \in Names |-> IF Created(names, n) THEN made[n] + 1 ELSE made[n]]

\* DELETE goes by name; a server may refuse a mailbox that holds mail, and
\* refuses one with folders below it.
DeleteAllowed(f) ==
    /\ f \in Listed
    /\ \A n \in Listed : ~Below(n, f)
    /\ rejects => mail[named[f]] = {}
DeleteFolder(f) ==
    /\ named' = [named EXCEPT ![f] = None]
    /\ mail' = [mail EXCEPT ![named[f]] = {}]

\* RENAME takes the folders below along; the mailboxes stay what they are.
Image(n, f, g) == g \o SubSeq(n, Len(f) + 1, Len(n))
RenameAllowed(f, g) ==
    /\ f \in Listed /\ ~Under(g, f)
    /\ \A n \in Listed : ~Under(n, g)
RenameFolder(f, g) ==
    /\ \A n \in Listed : Under(n, f) => Image(n, f, g) \in Names
    /\ \A n \in Names : Created(Hierarchy(g), n) /\ n # g => made[n] < MaxMade
    /\ named' = [n \in Names |->
                    IF Under(n, g) /\ Image(n, g, f) \in Names THEN named[Image(n, g, f)]
                    ELSE IF Under(n, f) THEN None
                    ELSE IF Created(Hierarchy(g), n) THEN <<n, made[n] + 1>>
                    ELSE named[n]]
    /\ made' = [n \in Names |-> IF Created(Hierarchy(g), n) /\ n # g THEN made[n] + 1
                                ELSE made[n]]

\* A message delivered gets the next UID of the mailbox, and keeps its flag.
NextEntry(b, m) == [uid |-> uidNext[b], mid |-> m]
Deliver(b, m, deleted) ==
    /\ uidNext[b] <= MaxUid
    /\ uidNext' = [uidNext EXCEPT ![b] = @ + 1]
    /\ flagged' = [flagged EXCEPT ![b] = IF deleted THEN @ \cup {uidNext[b]} ELSE @]

-----------------------------------------------------------------------------
(* A request starts, and ends.                                             *)

Begin(t, request) ==
    /\ t \in Handlers /\ pc[t] = "idle" /\ Request
    /\ op' = [op EXCEPT ![t] = request]
    /\ UNCHANGED <<hintVars, dest, server, seen, todo, at, doomed, copied, troubles,
                   asked, swept, spare, quiet>>

Select(t, f) == src' = [src EXCEPT ![t] = f]
Target(t, g) == dst' = [dst EXCEPT ![t] = g]

\* The request names a message by the folder and UID the operator was shown,
\* with its Message-ID or without, ...
ByUid(t, f, e, m) ==
    /\ m \in {e.mid, None}
    /\ Select(t, f) /\ uid' = [uid EXCEPT ![t] = e.uid] /\ mid' = [mid EXCEPT ![t] = m]
    /\ aim' = [aim EXCEPT ![t] = [box |-> named[f], mid |-> e.mid]]

\* ... or by its Message-ID, in the folder shown or wherever it is.
ByMid(t, f, m) ==
    /\ Select(t, f) /\ mid' = [mid EXCEPT ![t] = m]
    /\ aim' = [aim EXCEPT ![t] = [box |-> None, mid |-> m]]
    /\ UNCHANGED uid

Named(t) ==
    \/ \E f \in Listed : \E e \in mail[named[f]], m \in Mids \cup {None} : ByUid(t, f, e, m)
    \/ \E f \in Listed : \E m \in MidsIn(named[f]) : ByMid(t, f, m)

ForgetJob(t) ==
    /\ Finish(t)
    /\ src' = [src EXCEPT ![t] = None] /\ dst' = [dst EXCEPT ![t] = None]
    /\ force' = [force EXCEPT ![t] = FALSE]
    /\ seen' = [seen EXCEPT ![t] = {}] /\ todo' = [todo EXCEPT ![t] = {}]
    /\ at' = [at EXCEPT ![t] = None]
    /\ uid' = [uid EXCEPT ![t] = 0] /\ doomed' = [doomed EXCEPT ![t] = {}]
    /\ copied' = [copied EXCEPT ![t] = None] /\ aim' = [aim EXCEPT ![t] = NoAim]

\* 200, 404, 409 or 502: nothing more happens on the server.
Answer(t) == ForgetJob(t) /\ UNCHANGED <<hintVars, server, bounds, history>>

-----------------------------------------------------------------------------
(* POST /archive-move.                                                     *)

ArchiveMove(t) ==
    /\ Begin(t, "move")
    /\ \/ \E f \in Listed : \E e \in mail[named[f]] :
              Below(f, Root) /\ ByUid(t, f, e, None)
       \/ \E m \in Mids : ByMid(t, None, m)
    /\ \E g \in Targets : Target(t, g)
    /\ Goto(t, "list") /\ UNCHANGED force

\* _ensure_folder_hierarchy: the folders to create, from the top down.
ToMake(t, names) == todo' = [todo EXCEPT ![t] = names] /\ Goto(t, "make")

ListForMove(t) ==
    /\ pc[t] = "list" /\ op[t] = "move"
    /\ IF uid[t] # 0
       THEN ToMake(t, Hierarchy(dst[t]))
       ELSE todo' = [todo EXCEPT ![t] = Archived] /\ Goto(t, "find")
    /\ UNCHANGED <<hintVars, routing, server, seen, at, memo, bounds, history>>

\* The folders listed are searched one by one for the Message-ID (or, when a
\* folder and UID were given, that UID); the first match wins.
FindMatch(t, b) ==
    IF uid[t] # 0 /\ HasUid(b, uid[t]) THEN {uid[t]}
    ELSE IF mid[t] = None THEN {} ELSE Hits(b, mid[t])

FindIn(t, f) ==
    /\ pc[t] = "find" /\ f \in todo[t] /\ f \in Listed
    /\ FindMatch(t, named[f]) = {} /\ todo' = [todo EXCEPT ![t] = @ \ {f}]
    /\ UNCHANGED <<hintVars, pc, routing, server, seen, at, memo, bounds, history>>

Found(t, f, u) ==
    /\ pc[t] = "find" /\ f \in todo[t] /\ f \in Listed
    /\ u \in FindMatch(t, named[f]) /\ \A v \in FindMatch(t, named[f]) : u <= v
    /\ at' = [at EXCEPT ![t] = named[f]] /\ uid' = [uid EXCEPT ![t] = u]
    /\ src' = [src EXCEPT ![t] = f]
    /\ aim' = [aim EXCEPT ![t].box = IF u = uid[t] THEN @ ELSE named[f]]
    /\ IF op[t] = "move" THEN ToMake(t, Hierarchy(dst[t]))
       ELSE /\ todo' = [todo EXCEPT ![t] = {}]
            /\ Goto(t, IF op[t] = "archive" THEN "resolve" ELSE "select")
    /\ UNCHANGED <<hintVars, op, mid, dest, dst, force, server, seen, doomed, copied, bounds,
                   history>>

\* A folder listed is gone (502), or none is left to search: 404, and an
\* archive deletes its row all the same.
FindFails(t) ==
    /\ pc[t] = "find" /\ (todo[t] = {} \/ \E f \in todo[t] : f \notin Listed)
    /\ Answer(t)

\* A CREATE that fails leaves the folders made before it.
MakeFolder(t, f) ==
    /\ pc[t] = "make" /\ Topmost(f, todo[t]) /\ CreateFolders(Hierarchy(f)) /\ Disturb
    /\ IF todo[t] = {f} /\ op[t] = "create" THEN ForgetJob(t)
       ELSE /\ todo' = [todo EXCEPT ![t] = @ \ {f}]
            /\ Goto(t, IF todo[t] # {f} THEN "make"
                       ELSE IF op[t] = "move" THEN "select" ELSE "copy")
            /\ UNCHANGED <<routing, seen, at, memo>>
    /\ UNCHANGED <<hintVars, rejects, mail, uidNext, flagged, bounds, asked, swept, spare>>

\* The folder is selected again, by the name it had.
Reselect(t) ==
    /\ pc[t] = "select"
    /\ \/ src[t] \notin Listed /\ Answer(t)
       \/ /\ src[t] \in Listed
          /\ at' = [at EXCEPT ![t] = named[src[t]]]
          /\ Goto(t, IF op[t] = "move" THEN "copy" ELSE "fetch")
          /\ UNCHANGED <<hintVars, routing, server, seen, todo, memo, bounds,
                         history>>

\* Mutant: the COPY of nothing, or to nowhere, counts as success.
CopyUnchecked(t, e) ==
    /\ pc[t] = "copy" /\ e \in mail[at[t]] /\ e.uid = uid[t]
    /\ Goto(t, "remove")
    /\ UNCHANGED <<hintVars, routing, server, work, bounds, history>>

\* The UID is verified and copied, with its flags.
Copy(t, e) ==
    /\ pc[t] = "copy" /\ e \in mail[at[t]] /\ e.uid = uid[t] /\ dst[t] \in Listed
    /\ Deliver(named[dst[t]], e.mid, e.uid \in flagged[at[t]])
    /\ mail' = [mail EXCEPT ![named[dst[t]]] = @ \cup {NextEntry(named[dst[t]], e.mid)}]
    /\ copied' = [copied EXCEPT ![t] = e.mid]
    /\ Goto(t, "remove") /\ Disturb
    /\ UNCHANGED <<hintVars, routing, rejects, named, made, seen, todo, at, uid, doomed, aim,
                   bounds, asked, swept, spare>>

\* A move that ends here leaves the copy and the original.
Cut(t) == [m \in Mids |-> IF copied[t] = m THEN spare[m] + 1 ELSE spare[m]]

\* An archive whose message is not where it should be starts again in a new
\* session, once, and looks for the message everywhere.
FallsBack(t) == op[t] = "archive" /\ seen[t] = {}
SearchAgain(t) ==
    /\ Goto(t, "relist")
    /\ at' = [at EXCEPT ![t] = None] /\ uid' = [uid EXCEPT ![t] = 0]
    /\ copied' = [copied EXCEPT ![t] = None] /\ aim' = [aim EXCEPT ![t].box = None]
    /\ UNCHANGED <<routing, seen, todo, doomed>>

\* ImapMessageNotFoundError: 404 or, the second time, 502.
NotFound(t) ==
    /\ IF FallsBack(t) THEN SearchAgain(t) ELSE ForgetJob(t)
    /\ spare' = Cut(t)
    /\ UNCHANGED <<hintVars, server, bounds, asked, swept, quiet>>

\* A stale UID; a COPY to a folder that is gone is 502.
CopyFails(t) ==
    /\ pc[t] = "copy"
    /\ \/ ~HasUid(at[t], uid[t]) /\ NotFound(t)
       \/ HasUid(at[t], uid[t]) /\ dst[t] \notin Listed /\ Answer(t)

\* delete_message: the UID is verified again and flagged, ...
Flag(t, e) ==
    /\ pc[t] = "remove" /\ e \in mail[at[t]] /\ e.uid = uid[t]
    /\ flagged' = [flagged EXCEPT ![at[t]] = @ \cup {e.uid}]
    /\ asked' = IF op[t] = "message delete" THEN asked \cup {e.mid} ELSE asked
    /\ Goto(t, "expunge")
    /\ UNCHANGED <<hintVars, routing, rejects, named, made, mail, uidNext, work, bounds, swept,
                   spare, quiet>>

FlagFails(t) == pc[t] = "remove" /\ ~HasUid(at[t], uid[t]) /\ NotFound(t)

\* ... and EXPUNGE removes whatever is flagged by then, by anyone.
Expunged(b) ==
    /\ mail' = [mail EXCEPT ![b] = {e \in @ : e.uid \notin flagged[b]}]
    /\ flagged' = [flagged EXCEPT ![b] = {}]

\* Mutant: the EXPUNGE is forgotten.
ExpungeForgotten(t) ==
    /\ pc[t] = "expunge" /\ Disturb
    /\ IF op[t] = "delete" THEN Goto(t, "drop") /\ UNCHANGED <<routing, work>>
       ELSE ForgetJob(t)
    /\ UNCHANGED <<hintVars, server, bounds, asked, swept, spare>>

Expunge(t) ==
    /\ pc[t] = "expunge" /\ Expunged(at[t]) /\ Disturb
    /\ spare' = IF HasUid(at[t], uid[t]) THEN spare ELSE Cut(t)
    /\ IF op[t] = "delete" THEN Goto(t, "drop") /\ UNCHANGED <<routing, work>>
       ELSE ForgetJob(t)
    /\ UNCHANGED <<hintVars, rejects, named, made, uidNext, bounds, asked, swept>>

-----------------------------------------------------------------------------
(* POST /archive: the destination is chosen first (ArchiveHints), then the *)
(* stored UID is resolved, with the Message-ID as the fallback.            *)

Archive(t) ==
    /\ Begin(t, "archive")
    /\ Inbox \in Listed
    /\ \E e \in mail[named[Inbox]] : ByUid(t, Inbox, e, e.mid)
    /\ Goto(t, "choose") /\ UNCHANGED <<dst, force>>

\* Mutant: a UID that is stale is replaced by the first of the folder.
ResolvesToFirst(t, b, u) == HasUid(b, u) /\ \A e \in mail[b] : u <= e.uid

ResolvesTo(t, b, u) ==
    \/ HasUid(b, uid[t]) /\ u = uid[t]
    \/ ~HasUid(b, uid[t]) /\ mid[t] # None /\ u \in Hits(b, mid[t])
                          /\ \A v \in Hits(b, mid[t]) : u <= v

\* SELECT and the searches for the UID, then for the Message-ID.
Resolve(t, u) ==
    /\ pc[t] = "resolve" /\ src[t] \in Listed /\ ResolvesTo(t, named[src[t]], u)
    /\ at' = [at EXCEPT ![t] = named[src[t]]] /\ uid' = [uid EXCEPT ![t] = u]
    /\ aim' = [aim EXCEPT ![t].box = IF u = uid[t] THEN @ ELSE named[src[t]]]
    /\ Goto(t, CASE op[t] = "archive" -> "list"
                 [] op[t] = "message delete" -> "remove"
                 [] OTHER -> "fetch")
    /\ UNCHANGED <<hintVars, routing, server, seen, todo, doomed, copied, bounds, history>>

\* A folder that cannot be selected is 502.
ResolveFails(t) ==
    /\ pc[t] = "resolve"
    /\ \/ src[t] \notin Listed /\ Answer(t)
       \/ /\ src[t] \in Listed /\ \A u \in Uids : ~ResolvesTo(t, named[src[t]], u)
          /\ NotFound(t)

ListForArchive(t) ==
    /\ pc[t] = "list" /\ op[t] = "archive"
    /\ dst' = [dst EXCEPT ![t] = Root \o dest[t]]
    /\ ToMake(t, Hierarchy(Root \o dest[t]))
    /\ UNCHANGED <<hintVars, op, mid, dest, src, force, server, seen, at, memo, bounds, history>>

\* cross_folder_resolve: all folders are searched for the Message-ID.  Where
\* it is found becomes the card's folder and UID, and the move starts over.
ListForFallback(t) ==
    /\ pc[t] = "relist"
    /\ seen' = [seen EXCEPT ![t] = Listed] /\ todo' = [todo EXCEPT ![t] = Listed]
    /\ Goto(t, "find")
    /\ UNCHANGED <<hintVars, routing, server, at, memo, bounds, history>>

-----------------------------------------------------------------------------
(* Requests on one message of the archive, and the requests that read.     *)

\* POST /archive-message-delete.
ArchiveMessageDelete(t) ==
    /\ Begin(t, "message delete") /\ Named(t) /\ Below(src'[t], Root)
    /\ Goto(t, "resolve") /\ UNCHANGED <<dst, force>>

\* GET /archive/message.
ServeArchiveMessage(t) ==
    /\ Begin(t, "read") /\ Named(t) /\ Under(src'[t], Root)
    /\ Goto(t, "resolve") /\ UNCHANGED <<dst, force>>

\* POST /email/<id>/attachments/to-file-hub of an archived message.
PushArchived(t) ==
    /\ Begin(t, "read") /\ Named(t) /\ Below(src'[t], Root)
    /\ Goto(t, "resolve") /\ UNCHANGED <<dst, force>>

\* The same for a card: its stored folder and UID, unverified.
PushCard(t) ==
    /\ Begin(t, "read")
    /\ \E f \in Listed : \E e \in mail[named[f]] : ByUid(t, f, e, e.mid)
    /\ Goto(t, "select") /\ UNCHANGED <<dst, force>>

\* GET /message/body: one folder, or all of them for a Message-ID.
ServeMessageBody(t) ==
    /\ Begin(t, "body") /\ (Named(t) \/ \E m \in Mids : ByMid(t, None, m))
    /\ Goto(t, "list") /\ UNCHANGED <<dst, force>>

ListForBody(t) ==
    /\ pc[t] = "list" /\ op[t] = "body" /\ src[t] \in Listed \cup {None}
    /\ todo' = [todo EXCEPT ![t] = IF src[t] = None THEN Listed ELSE {src[t]}]
    /\ Goto(t, "find")
    /\ UNCHANGED <<hintVars, routing, server, seen, at, memo, bounds, history>>

Fetch(t) == pc[t] = "fetch" /\ Answer(t)

-----------------------------------------------------------------------------
(* Requests on folders.                                                    *)

\* POST /archive-delete.
ArchiveDelete(t) ==
    /\ Begin(t, "delete")
    /\ \E f \in Names : Below(f, Root) /\ Select(t, f)
    /\ \E forced \in BOOLEAN : force' = [force EXCEPT ![t] = forced]
    /\ Goto(t, "list") /\ UNCHANGED <<mid, dst, uid, aim>>

ListForDelete(t) ==
    /\ pc[t] = "list" /\ op[t] = "delete" /\ src[t] \in Listed
    /\ seen' = [seen EXCEPT ![t] = Listed]
    /\ todo' = [todo EXCEPT ![t] = {n \in Listed : Under(n, src[t])}]
    /\ Goto(t, IF force[t] THEN "open" ELSE "count")
    /\ UNCHANGED <<hintVars, routing, server, at, memo, bounds, history>>

\* Not forced: the folder must hold no mail, and have no folders below.
Disposable(t, f) == f \in Listed /\ mail[named[f]] = {} /\ ~\E n \in seen[t] : Below(n, f)

CountForDelete(t) ==
    /\ pc[t] = "count"
    /\ \/ /\ Disposable(t, src[t]) /\ Goto(t, "drop")
          /\ UNCHANGED <<hintVars, routing, server, work, bounds, history>>
       \/ ~Disposable(t, src[t]) /\ Answer(t)

\* Forced: the folders below, deepest first, then the folder itself.
OpenFolder(t, f) ==
    /\ pc[t] = "open" /\ Deepest(f, todo[t]) /\ f \in Listed
    /\ dst' = [dst EXCEPT ![t] = f] /\ at' = [at EXCEPT ![t] = named[f]]
    /\ Goto(t, "search")
    /\ UNCHANGED <<hintVars, op, mid, dest, src, force, server, seen, todo, memo,
                   bounds, history>>

OpenFails(t) ==
    /\ pc[t] = "open" /\ \E f \in todo[t] : Deepest(f, todo[t]) /\ f \notin Listed
    /\ Answer(t)

\* The messages found now are flagged and expunged: later mail is not.
SearchAll(t) ==
    /\ pc[t] = "search"
    /\ doomed' = [doomed EXCEPT ![t] = {e.uid : e \in mail[at[t]]}]
    /\ Goto(t, IF mail[at[t]] = {} THEN "drop" ELSE "purge")
    /\ UNCHANGED <<hintVars, routing, server, seen, todo, at, uid, copied, aim, bounds, history>>

StillThere(t) == {e \in mail[at[t]] : e.uid \in doomed[t]}
Purge(t) ==
    /\ pc[t] = "purge"
    /\ flagged' = [flagged EXCEPT ![at[t]] = @ \cup {e.uid : e \in StillThere(t)}]
    /\ asked' = asked \cup {e.mid : e \in StillThere(t)}
    /\ doomed' = [doomed EXCEPT ![t] = {}]
    /\ Goto(t, IF StillThere(t) = {} THEN "drop" ELSE "expunge")
    /\ UNCHANGED <<hintVars, routing, rejects, named, made, mail, uidNext, seen, todo, at, uid,
                   copied, aim, bounds, swept, spare, quiet>>

InHand(t) == IF op[t] = "delete" /\ force[t] THEN dst[t] ELSE src[t]

\* What DELETE takes along was asked for by force, or is swept away.
Drop(t) ==
    /\ pc[t] = "drop" /\ DeleteAllowed(InHand(t)) /\ DeleteFolder(InHand(t))
    /\ IF force[t] THEN /\ asked' = asked \cup MidsIn(named[InHand(t)])
                        /\ UNCHANGED swept
                   ELSE /\ swept' = swept \cup MidsIn(named[InHand(t)])
                        /\ UNCHANGED asked
    /\ quiet' = (quiet /\ t = Cleaner)
    /\ UNCHANGED <<hintVars, rejects, made, uidNext, flagged, bounds, spare>>
    /\ IF op[t] = "cleanup" \/ (force[t] /\ todo[t] # {InHand(t)})
       THEN /\ todo' = [todo EXCEPT ![t] = @ \ {InHand(t)}]
            /\ seen' = [seen EXCEPT ![t] = @ \ {InHand(t)}]
            /\ Goto(t, IF op[t] = "cleanup" THEN "sweep" ELSE "open")
            /\ UNCHANGED <<routing, at, memo>>
       ELSE ForgetJob(t)

DropFails(t) ==
    /\ pc[t] = "drop" /\ op[t] = "delete" /\ ~DeleteAllowed(InHand(t))
    /\ Answer(t)

\* POST /archive-rename.
ArchiveRename(t) ==
    /\ Begin(t, "rename")
    /\ \E f \in Names, g \in Targets :
           Below(f, Root) /\ Select(t, f) /\ Target(t, g)
    /\ Goto(t, "list") /\ UNCHANGED <<mid, force, uid, aim>>

ListForRename(t) ==
    /\ pc[t] = "list" /\ op[t] = "rename" /\ src[t] \in Listed /\ dst[t] \notin Listed
    /\ Goto(t, "rename")
    /\ UNCHANGED <<hintVars, routing, server, work, bounds, history>>

Rename(t) ==
    /\ pc[t] = "rename" /\ RenameAllowed(src[t], dst[t]) /\ RenameFolder(src[t], dst[t])
    /\ ForgetJob(t) /\ Disturb
    /\ UNCHANGED <<hintVars, rejects, mail, uidNext, flagged, bounds, asked, swept, spare>>

RenameFails(t) ==
    /\ pc[t] = "rename" /\ ~RenameAllowed(src[t], dst[t])
    /\ Answer(t)

\* POST /archive-create: the ancestors the listing lacks, then the folder.
ArchiveCreate(t) ==
    /\ Begin(t, "create")
    /\ \E g \in Targets : Target(t, g)
    /\ Goto(t, "list") /\ UNCHANGED <<mid, src, force, uid, aim>>

ListForCreate(t) ==
    /\ pc[t] = "list" /\ op[t] = "create" /\ dst[t] \notin Listed
    /\ ToMake(t, Hierarchy(dst[t]) \ Listed)
    /\ UNCHANGED <<hintVars, routing, server, seen, at, memo, bounds, history>>

\* 404 for a folder that is not listed, 409 for one that is.
ListRefuses(t) ==
    /\ pc[t] = "list"
    /\ \/ op[t] \in {"delete", "rename"} /\ src[t] \notin Listed
       \/ op[t] = "body" /\ src[t] \notin Listed \cup {None}
       \/ op[t] \in {"rename", "create"} /\ dst[t] \in Listed
    /\ Answer(t)

-----------------------------------------------------------------------------
(* cleanup_empty_archive_folders, at the end of a reconcile run.           *)

StartCleanup ==
    /\ pc[Cleaner] = "idle" /\ Request
    /\ op' = [op EXCEPT ![Cleaner] = "cleanup"]
    /\ seen' = [seen EXCEPT ![Cleaner] = Archived]
    /\ todo' = [todo EXCEPT ![Cleaner] = Archived \ {Root}]
    /\ quiet' = TRUE /\ Goto(Cleaner, "sweep")
    /\ UNCHANGED <<hintVars, mid, dest, src, dst, force, server, at, memo, troubles, asked,
                   swept, spare>>

\* Mutant: the folders are walked from the top.
TopFirst(f, names) == Topmost(f, names)

\* Deepest first: a folder that is empty and childless is counted, ...
NextToSweep(f, names) == Deepest(f, names)

SweepFolder(t, f) ==
    /\ pc[t] = "sweep" /\ NextToSweep(f, todo[t]) /\ Disposable(t, f)
    /\ src' = [src EXCEPT ![t] = f] /\ Goto(t, "drop")
    /\ UNCHANGED <<hintVars, op, mid, dest, dst, force, server, work, bounds, history>>

\* ... any other is left alone, and so is one that cannot be selected,
PassOver(t, f) ==
    /\ todo' = [todo EXCEPT ![t] = @ \ {f}] /\ Goto(t, "sweep")
    /\ UNCHANGED <<hintVars, routing, server, seen, at, memo, requests,
                   asked, swept, spare>>

SkipFolder(t, f) ==
    /\ pc[t] = "sweep" /\ NextToSweep(f, todo[t]) /\ ~Disposable(t, f)
    /\ PassOver(t, f) /\ UNCHANGED <<troubles, quiet>>

\* ... or whose DELETE is refused.
SkipRefused(t) ==
    /\ pc[t] = "drop" /\ op[t] = "cleanup" /\ ~DeleteAllowed(src[t])
    /\ PassOver(t, src[t]) /\ UNCHANGED <<troubles, quiet>>

SweepEnds(t) ==
    /\ pc[t] = "sweep" /\ todo[t] = {}
    /\ ForgetJob(t) /\ quiet' = FALSE
    /\ UNCHANGED <<hintVars, server, bounds, asked, swept, spare>>

-----------------------------------------------------------------------------
(* The user's mail client, and what fails.                                 *)

UserMoves(f, e, g) ==
    /\ troubles < MaxTroubles /\ troubles' = troubles + 1
    /\ f # g
    /\ Deliver(named[g], e.mid, e.uid \in flagged[named[f]])
    /\ mail' = [mail EXCEPT ![named[f]] = @ \ {e},
                            ![named[g]] = @ \cup {NextEntry(named[g], e.mid)}]
    /\ Disturb
    /\ UNCHANGED <<hintVars, pc, routing, rejects, named, made, work, requests, asked,
                   swept, spare>>

\* An exchange fails: the request ends with 502, the cleanup passes over the
\* folder in hand.
Fail(t) ==
    /\ troubles < MaxTroubles /\ troubles' = troubles + 1
    /\ \/ /\ t # Cleaner
          /\ pc[t] \in {"list", "relist", "find", "make", "select", "copy", "remove", "expunge",
                        "resolve", "fetch", "count", "open", "search", "purge", "drop", "rename"}
          /\ spare' = Cut(t) /\ ForgetJob(t)
          /\ UNCHANGED <<hintVars, server, requests, asked, swept, quiet>>
       \/ /\ t = Cleaner /\ quiet' = FALSE
          /\ \E f \in todo[t] : /\ NextToSweep(f, todo[t]) /\ (pc[t] = "drop" => f = src[t])
                                /\ pc[t] \in {"sweep", "drop"} /\ PassOver(t, f)

Requesting(t) ==
    \/ ArchiveMove(t) \/ Archive(t) \/ ArchiveMessageDelete(t) \/ ServeArchiveMessage(t)
    \/ PushArchived(t) \/ PushCard(t) \/ ServeMessageBody(t) \/ ArchiveDelete(t)
    \/ ArchiveRename(t) \/ ArchiveCreate(t)

MessageStep(t) ==
    \/ ListForMove(t) \/ ListForArchive(t) \/ ListForFallback(t) \/ ListForBody(t)
    \/ ListRefuses(t)
    \/ \E f \in Names : FindIn(t, f) \/ MakeFolder(t, f) \/ \E u \in Uids : Found(t, f, u)
    \/ FindFails(t) \/ Reselect(t) \/ CopyFails(t) \/ FlagFails(t) \/ Expunge(t)
    \/ \E e \in Entries : Copy(t, e) \/ Flag(t, e)
    \/ \E u \in Uids : Resolve(t, u)
    \/ ResolveFails(t) \/ Fetch(t)

FolderStep(t) ==
    \/ ListForDelete(t) \/ CountForDelete(t) \/ OpenFails(t) \/ SearchAll(t) \/ Purge(t)
    \/ Drop(t) \/ DropFails(t) \/ ListForRename(t) \/ Rename(t) \/ RenameFails(t)
    \/ ListForCreate(t) \/ SkipRefused(t) \/ SweepEnds(t)
    \/ \E f \in Names : OpenFolder(t, f) \/ SweepFolder(t, f) \/ SkipFolder(t, f)

Untouched == UNCHANGED <<server, src, dst, force, work, troubles, history>>

Hinting ==
    \/ \E t \in Handlers, m \in Mids, s \in Proposals \cup {<<>>} : LoadOverrides(t, m, s)
    \/ \E t \in Handlers, m \in Mids : ServeProposal(t, m)
    \/ LoadHints(Agent)
    \/ \E t \in Threads : HintSteps(t)

Next ==
    \/ Hinting /\ Untouched
    \/ StartCleanup
    \/ \E t \in Handlers : Requesting(t)
    \/ \E t \in Threads : MessageStep(t) \/ FolderStep(t) \/ Fail(t)
    \/ \E f, g \in Listed : \E e \in mail[named[f]] : UserMoves(f, e, g)

Spec == Init /\ [][Next]_vars

-----------------------------------------------------------------------------
(* Properties.                                                             *)

HintTypes ==
    /\ overrides \in Documents /\ hints \in Documents
    /\ draft \in [Threads -> Documents]
ThreadTypes ==
    /\ pc \in [Threads -> Labels] /\ op \in [Threads -> Requests \cup {None}]
    /\ mid \in [Threads -> Mids \cup {None}]
    /\ dest \in [Threads -> Entered \cup Chosen \cup {<<>>, None}]
    /\ src \in [Threads -> Names \cup {None}] /\ dst \in [Threads -> Names \cup {None}]
    /\ force \in [Threads -> BOOLEAN]
    /\ seen \in [Threads -> SUBSET Names] /\ todo \in [Threads -> SUBSET Names]
    /\ at \in [Threads -> Boxes \cup {None}]
    /\ uid \in [Threads -> 0..MaxUid] /\ doomed \in [Threads -> SUBSET Uids]
    /\ copied \in [Threads -> Mids \cup {None}]
    /\ aim \in [Threads -> [box : Boxes \cup {None}, mid : Mids \cup {None}]]
ServerTypes ==
    /\ rejects \in BOOLEAN
    /\ named \in [Names -> Boxes \cup {None}] /\ made \in [Names -> 0..MaxMade]
    /\ mail \in [Boxes -> SUBSET Entries] /\ uidNext \in [Boxes -> 1..MaxUid + 1]
    /\ flagged \in [Boxes -> SUBSET Uids]
HistoryTypes ==
    /\ requests \in 0..MaxRequests /\ troubles \in 0..MaxTroubles
    /\ asked \subseteq Mids /\ swept \subseteq Mids
    /\ spare \in [Mids -> Nat] /\ quiet \in BOOLEAN

\* A folder is there only below folders that are there: CREATE, RENAME and
\* DELETE never leave a folder without its parent.
Rooted == \A n \in Listed : Hierarchy(n) \subseteq Listed

TypeOK == HintTypes /\ ThreadTypes /\ ServerTypes /\ HistoryTypes /\ Rooted

Present(m) == \E n \in Listed : m \in MidsIn(named[n])

\* However moves, renames, forced and unforced deletions, the cleanup, the
\* mail client and failing exchanges interleave, a message disappears only
\* because its deletion was asked for, or with a folder that was empty when
\* it was counted, on a server that deletes folders that hold mail.
NothingLost ==
    /\ \A m \in Mids : Present(m) \/ m \in asked \cup swept
    /\ rejects => swept = {}

\* The message copied, removed or shown is the one the request named, by the
\* folder and UID the operator saw or by its Message-ID, except where the
\* folder was replaced by another of the same name since.
ActsOnNamed ==
    \A t \in Threads : pc[t] \in {"copy", "remove", "expunge", "fetch"} =>
        \A e \in mail[at[t]] :
            e.uid = uid[t] => e.mid = aim[t].mid \/ at[t] # aim[t].box

Copies(m) == {x \in Boxes \X Entries : x[2] \in mail[x[1]] /\ x[2].mid = m}
Moving(m) == {t \in Threads : copied[t] = m}

\* A message is in the archive twice only while it is moved, or because a
\* move was cut, or beaten by another, between its COPY and its removal.
SpareCopiesExplained ==
    \A m \in Mids : Cardinality(Copies(m)) <= 1 + Cardinality(Moving(m)) + spare[m]

\* A cleanup nobody disturbed leaves no folder below the root without mail
\* in it or below it.
CleanupComplete ==
    pc[Cleaner] = "sweep" /\ todo[Cleaner] = {} /\ quiet =>
        \A n \in Listed : Below(n, Root) =>
            \E k \in Listed : Under(k, n) /\ mail[named[k]] # {}
=============================================================================
