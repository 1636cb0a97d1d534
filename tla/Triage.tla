------------------------------- MODULE Triage -------------------------------
(***************************************************************************)
(* Who decides the column of a card, on one account: the operator, the     *)
(* triage agent (launched from the board, or by an ingest), and the        *)
(* reconciliation of sent replies, which archives the card a reply was     *)
(* composed for once the reply is in the Sent folder.  Each committed      *)
(* statement, LLM call and IMAP exchange is an action.                     *)
(***************************************************************************)
EXTENDS Naturals

CONSTANTS
    Mids,           \* cards, in the order of their row ids
    Actions,        \* columns other than the inbox
    AgentActions,   \* _AGENT_SELECTABLE_ACTIONS
    Boards,         \* threads of _run_triage_background
    Ingesters,      \* ingest cycles that triage what they stored
    Requests,       \* request threads of /run-triage and /force-triage-column
    Composers,      \* request threads of /compose-draft
    Reconcilers,    \* threads that run reconcile_sent_drafts
    MaxDrafts,      \* bound on the replies composed for one card
    MaxMoves,       \* bound on cards moved by hand
    MaxDeletes,     \* bound on cards deleted or archived
    MaxForces,      \* bound on columns reset by hand
    MaxFaults,      \* bound on failed exchanges
    MaxRestarts,    \* bound on process restarts
    None

Agents == Boards \cup Ingesters

ASSUME TriageAssumption ==
    /\ Mids \subseteq Nat
    /\ AgentActions \subseteq Actions
    /\ {"HUMAN_TRIAGE", "TO_ARCHIVE"} \subseteq AgentActions
    /\ {MaxDrafts, MaxMoves, MaxDeletes, MaxForces, MaxFaults, MaxRestarts}
          \subseteq Nat
    /\ Boards \cap Ingesters = {}

VARIABLES
    \* The database.
    cards,          \* mail_records
    decision,       \* triage_decisions
    running,        \* triage_run:state
    link,           \* compose_links
    \* The mailbox.
    drafts,         \* how many replies were composed for each card
    sent,           \* which of them are in the Sent folder
    \* Locals.
    agent, todo,            \* per agent: place, records still to decide
    request,                \* per request: place
    composer, replying,     \* per composer: place, the card replied to
    reconciler, pending,    \* per reconciler: place, links still to look at
    current,                \*   and the link in hand
    \* How often the environment interfered.
    moves, deletes, forces, faults, restarts,
    \* History.
    arrived         \* messages that were ever stored

database == <<cards, decision, running, link>>
mailbox == <<drafts, sent>>
agents == <<agent, todo>>
composers == <<composer, replying>>
reconcilers == <<reconciler, pending, current>>
bounds == <<moves, deletes, forces, faults, restarts>>
vars == <<database, mailbox, agents, request, composers, reconcilers,
          bounds, arrived>>

-----------------------------------------------------------------------------
Init ==
    /\ cards = {}
    /\ decision = [m \in Mids |-> None]
    /\ running = FALSE
    /\ link = [m \in Mids |-> "none"]
    /\ drafts = [m \in Mids |-> 0]
    /\ sent = [m \in Mids |-> {}]
    /\ agent = [a \in Agents |-> "idle"]
    /\ todo = [a \in Agents |-> {}]
    /\ request = [q \in Requests |-> "idle"]
    /\ composer = [c \in Composers |-> "idle"]
    /\ replying = [c \in Composers |-> None]
    /\ reconciler = [r \in Reconcilers |-> "idle"]
    /\ pending = [r \in Reconcilers |-> {}]
    /\ current = [r \in Reconcilers |-> None]
    /\ moves = 0 /\ deletes = 0 /\ forces = 0 /\ faults = 0 /\ restarts = 0
    /\ arrived = {}

Fault == faults < MaxFaults /\ faults' = faults + 1

\* Mutant: a plain upsert.
Overwrite(m, a, source) ==
    decision' = [decision EXCEPT ![m] = [action |-> a, source |-> source]]

\* set_triage_decision: an agent's upsert leaves an operator's row alone.
SetDecision(m, a, source) ==
    IF decision[m] # None /\ decision[m].source = "user" /\ source = "agent"
    THEN UNCHANGED decision
    ELSE decision' = [decision EXCEPT ![m] = [action |-> a, source |-> source]]

-----------------------------------------------------------------------------
(* Cards come, are moved by hand, and go.                                  *)

Arrive(m) ==
    /\ m \notin arrived
    /\ arrived' = arrived \cup {m}
    /\ cards' = cards \cup {m}
    /\ UNCHANGED <<decision, running, link, mailbox, agents, request,
                   composers, reconcilers, bounds>>

Move(m, a) ==
    /\ m \in cards
    /\ moves < MaxMoves /\ moves' = moves + 1
    /\ SetDecision(m, a, "user")
    /\ UNCHANGED <<cards, running, link, mailbox, agents, request, composers,
                   reconcilers, deletes, forces, faults, restarts, arrived>>

\* Mutant: the decision outlives the record.
DeleteRecordOnly(m) ==
    /\ m \in cards
    /\ deletes < MaxDeletes /\ deletes' = deletes + 1
    /\ cards' = cards \ {m}
    /\ UNCHANGED <<decision, running, link, mailbox, agents, request,
                   composers, reconcilers, moves, forces, faults, restarts,
                   arrived>>

\* delete_record_by_message_id takes the decision with the record; the
\* compose link stays.
DeleteCard(m) ==
    /\ m \in cards
    /\ deletes < MaxDeletes /\ deletes' = deletes + 1
    /\ cards' = cards \ {m}
    /\ decision' = [decision EXCEPT ![m] = None]
    /\ UNCHANGED <<running, link, mailbox, agents, request, composers,
                   reconcilers, moves, forces, faults, restarts, arrived>>

-----------------------------------------------------------------------------
(* POST /run-triage and POST /force-triage-column.                         *)

\* delete_triage_decisions_by_action, whoever took the decisions.
ForceColumn(q, a) ==
    /\ request[q] = "idle"
    /\ forces < MaxForces /\ forces' = forces + 1
    /\ decision' = [m \in Mids |->
                       IF decision[m] # None /\ decision[m].action = a
                       THEN None ELSE decision[m]]
    /\ request' = [request EXCEPT ![q] = "launch"]
    /\ UNCHANGED <<cards, running, link, mailbox, agents, composers,
                   reconcilers, moves, deletes, faults, restarts, arrived>>

\* _launch_triage.  Check and set of the flag are one step here; module
\* SingleFlight is about what happens between them.
Launch(q) ==
    /\ IF running
       THEN UNCHANGED <<running, agent>>
       ELSE /\ running' = TRUE
            /\ \E b \in Boards :
                  /\ agent[b] = "idle"
                  /\ agent' = [agent EXCEPT ![b] = "start"]
    /\ request' = [request EXCEPT ![q] = "idle"]
    /\ UNCHANGED <<cards, decision, link, mailbox, todo, composers,
                   reconcilers, bounds, arrived>>

RunTriage(q) == request[q] = "idle" /\ Launch(q)
ForceLaunches(q) == request[q] = "launch" /\ Launch(q)

-----------------------------------------------------------------------------
(* run_triage_agent                                                        *)

\* The run ends; a board thread clears the flag.
End(a) ==
    /\ agent' = [agent EXCEPT ![a] = "idle"]
    /\ todo' = [todo EXCEPT ![a] = {}]
    /\ running' = (running /\ a \notin Boards)

\* list_untriaged_records; with none the run is over.
Snapshot(a) ==
    /\ agent[a] = IF a \in Boards THEN "start" ELSE "idle"
    /\ LET untriaged == {m \in cards : decision[m] = None}
       IN  IF untriaged = {}
           THEN a \in Boards /\ End(a)
           ELSE /\ agent' = [agent EXCEPT ![a] = "llm"]
                /\ todo' = [todo EXCEPT ![a] = untriaged]
                /\ UNCHANGED running
    /\ UNCHANGED <<cards, decision, link, mailbox, request, composers,
                   reconcilers, bounds, arrived>>

\* The LLM answers, or the run ends with nothing decided.
AskModel(a) ==
    /\ agent[a] = "llm"
    /\ \/ /\ agent' = [agent EXCEPT ![a] = "persist"]
          /\ UNCHANGED <<todo, running, faults>>
       \/ End(a) /\ Fault
    /\ UNCHANGED <<cards, decision, link, mailbox, request, composers,
                   reconcilers, moves, deletes, forces, restarts,
                   arrived>>

IsNext(m, ms) == m \in ms /\ \A n \in ms : m <= n

\* _persist_llm_triage_results: what the agent may not choose, or the model
\* left out, goes to HUMAN_TRIAGE.
Verdict(answer) == IF answer \in AgentActions THEN answer ELSE "HUMAN_TRIAGE"

\* One upsert after the other, in row order.  A record that has gone breaks
\* the foreign key: the exception ends the run.
Persist(a) ==
    /\ agent[a] = "persist"
    /\ \E m \in todo[a] :
          /\ IsNext(m, todo[a])
          /\ IF m \in cards
             THEN /\ \E answer \in Actions :
                        SetDecision(m, Verdict(answer), "agent")
                  /\ IF todo[a] = {m}
                     THEN End(a)
                     ELSE /\ todo' = [todo EXCEPT ![a] = @ \ {m}]
                          /\ UNCHANGED <<agent, running>>
             ELSE End(a) /\ UNCHANGED decision
    /\ UNCHANGED <<cards, link, mailbox, request, composers, reconcilers,
                   bounds, arrived>>

-----------------------------------------------------------------------------
(* POST /compose-draft for a reply, and the mail client.                   *)

Compose(c, m) ==
    /\ composer[c] = "idle"
    /\ m \in cards
    /\ drafts[m] < MaxDrafts
    /\ composer' = [composer EXCEPT ![c] = "append"]
    /\ replying' = [replying EXCEPT ![c] = m]
    /\ UNCHANGED <<database, mailbox, agents, request, reconcilers, bounds,
                   arrived>>

\* APPEND to Drafts, or a 502.
AppendDraft(c) ==
    /\ composer[c] = "append"
    /\ \/ /\ drafts' = [drafts EXCEPT ![replying[c]] = @ + 1]
          /\ composer' = [composer EXCEPT ![c] = "link"]
          /\ UNCHANGED <<replying, faults>>
       \/ /\ composer' = [composer EXCEPT ![c] = "idle"]
          /\ replying' = [replying EXCEPT ![c] = None]
          /\ UNCHANGED drafts
          /\ Fault
    /\ UNCHANGED <<database, sent, agents, request, reconcilers, moves,
                   deletes, forces, restarts, arrived>>

\* record_compose_link
RecordLink(c) ==
    /\ composer[c] = "link"
    /\ link' = [link EXCEPT ![replying[c]] = "pending"]
    /\ composer' = [composer EXCEPT ![c] = "idle"]
    /\ replying' = [replying EXCEPT ![c] = None]
    /\ UNCHANGED <<cards, decision, running, mailbox, agents, request,
                   reconcilers, bounds, arrived>>

\* The operator sends a draft from the mail client.
Send(m, d) ==
    /\ d \in 1..drafts[m] \ sent[m]
    /\ sent' = [sent EXCEPT ![m] = @ \cup {d}]
    /\ UNCHANGED <<database, drafts, agents, request, composers, reconcilers,
                   bounds, arrived>>

-----------------------------------------------------------------------------
(* reconcile_sent_drafts                                                   *)

ListLinks(r) ==
    /\ reconciler[r] = "idle"
    /\ \E m \in Mids : link[m] = "pending"
    /\ reconciler' = [reconciler EXCEPT ![r] = "search"]
    /\ pending' = [pending EXCEPT ![r] = {m \in Mids : link[m] = "pending"}]
    /\ UNCHANGED <<database, mailbox, agents, request, composers, current,
                   bounds, arrived>>

\* Mutant: no hit is taken for a hit.
SearchAlwaysHits(r, m) ==
    /\ reconciler[r] = "search" /\ m \in pending[r]
    /\ pending' = [pending EXCEPT ![r] = @ \ {m}]
    /\ reconciler' = [reconciler EXCEPT ![r] = "read"]
    /\ current' = [current EXCEPT ![r] = m]
    /\ UNCHANGED <<database, mailbox, agents, request, composers, bounds,
                   arrived>>

\* In-Reply-To finds any reply that was sent; a failed search skips the link.
Search(r, m) ==
    /\ reconciler[r] = "search" /\ m \in pending[r]
    /\ pending' = [pending EXCEPT ![r] = @ \ {m}]
    /\ \/ /\ sent[m] # {}
          /\ reconciler' = [reconciler EXCEPT ![r] = "read"]
          /\ current' = [current EXCEPT ![r] = m]
          /\ UNCHANGED faults
       \/ /\ sent[m] = {}
          /\ UNCHANGED <<reconciler, current, faults>>
       \/ Fault /\ UNCHANGED <<reconciler, current>>
    /\ UNCHANGED <<database, mailbox, agents, request, composers, moves,
                   deletes, forces, restarts, arrived>>

\* get_record_by_message_id: a card that has gone only has its link stamped.
ReadCard(r) ==
    /\ reconciler[r] = "read"
    /\ reconciler' = [reconciler EXCEPT ![r] =
                         IF current[r] \in cards THEN "decide" ELSE "stamp"]
    /\ UNCHANGED <<database, mailbox, agents, request, composers, pending,
                   current, bounds, arrived>>

\* If the card goes between the two, the foreign key ends the pass.
ArchiveCard(r) ==
    /\ reconciler[r] = "decide"
    /\ IF current[r] \in cards
       THEN /\ SetDecision(current[r], "TO_ARCHIVE", "agent")
            /\ reconciler' = [reconciler EXCEPT ![r] = "stamp"]
            /\ UNCHANGED <<pending, current>>
       ELSE /\ reconciler' = [reconciler EXCEPT ![r] = "idle"]
            /\ pending' = [pending EXCEPT ![r] = {}]
            /\ current' = [current EXCEPT ![r] = None]
            /\ UNCHANGED decision
    /\ UNCHANGED <<cards, running, link, mailbox, agents, request, composers,
                   bounds, arrived>>

\* Mutant: the link is left as it is.
StampNothing(r) ==
    /\ reconciler[r] = "stamp"
    /\ reconciler' = [reconciler EXCEPT ![r] = "search"]
    /\ current' = [current EXCEPT ![r] = None]
    /\ UNCHANGED <<database, mailbox, agents, request, composers, pending,
                   bounds, arrived>>

\* mark_compose_link_reconciled
StampLink(r) ==
    /\ reconciler[r] = "stamp"
    /\ link' = [link EXCEPT ![current[r]] = "reconciled"]
    /\ reconciler' = [reconciler EXCEPT ![r] = "search"]
    /\ current' = [current EXCEPT ![r] = None]
    /\ UNCHANGED <<cards, decision, running, mailbox, agents, request,
                   composers, pending, bounds, arrived>>

PassEnds(r) ==
    /\ reconciler[r] = "search" /\ pending[r] = {}
    /\ reconciler' = [reconciler EXCEPT ![r] = "idle"]
    /\ UNCHANGED <<database, mailbox, agents, request, composers, pending,
                   current, bounds, arrived>>

Reconcile(r) ==
    \/ ListLinks(r)
    \/ \E m \in pending[r] : Search(r, m)
    \/ ReadCard(r)
    \/ ArchiveCard(r)
    \/ StampLink(r)
    \/ PassEnds(r)

-----------------------------------------------------------------------------
\* The process is killed; the next one clears triage_run:state.
Restart ==
    /\ restarts < MaxRestarts /\ restarts' = restarts + 1
    /\ agent' = [a \in Agents |-> "idle"]
    /\ todo' = [a \in Agents |-> {}]
    /\ running' = FALSE
    /\ request' = [q \in Requests |-> "idle"]
    /\ composer' = [c \in Composers |-> "idle"]
    /\ replying' = [c \in Composers |-> None]
    /\ reconciler' = [r \in Reconcilers |-> "idle"]
    /\ pending' = [r \in Reconcilers |-> {}]
    /\ current' = [r \in Reconcilers |-> None]
    /\ UNCHANGED <<cards, decision, link, mailbox, moves, deletes, forces,
                   faults, arrived>>

Next ==
    \/ \E m \in Mids : Arrive(m) \/ DeleteCard(m)
    \/ \E m \in Mids, a \in Actions : Move(m, a)
    \/ \E q \in Requests, a \in Actions : ForceColumn(q, a)
    \/ \E q \in Requests : RunTriage(q) \/ ForceLaunches(q)
    \/ \E a \in Agents : Snapshot(a) \/ AskModel(a) \/ Persist(a)
    \/ \E c \in Composers, m \in Mids : Compose(c, m)
    \/ \E c \in Composers : AppendDraft(c) \/ RecordLink(c)
    \/ \E m \in Mids, d \in 1..MaxDrafts : Send(m, d)
    \/ \E r \in Reconcilers : Reconcile(r)
    \/ Restart

\* The reconcile loop starts a pass every interval, and a pass runs on.
Fairness == \A r \in Reconcilers : WF_vars(Reconcile(r))

Spec == Init /\ [][Next]_vars /\ Fairness

-----------------------------------------------------------------------------
Decisions == [action : Actions, source : {"user", "agent"}]

\* Types; a decision belongs to a record that is there (the foreign key).
TypeOK ==
    /\ cards \subseteq arrived /\ arrived \subseteq Mids
    /\ decision \in [Mids -> Decisions \cup {None}]
    /\ \A m \in Mids : decision[m] # None => m \in cards
    /\ running \in BOOLEAN
    /\ link \in [Mids -> {"none", "pending", "reconciled"}]
    /\ drafts \in [Mids -> Nat]
    /\ sent \in [Mids -> SUBSET (Nat \ {0})]
    /\ \A m \in Mids : sent[m] \subseteq 1..drafts[m]
    /\ agent \in [Agents -> {"idle", "start", "llm", "persist"}]
    /\ todo \in [Agents -> SUBSET Mids]
    /\ request \in [Requests -> {"idle", "launch"}]
    /\ composer \in [Composers -> {"idle", "append", "link"}]
    /\ replying \in [Composers -> Mids \cup {None}]
    /\ reconciler \in [Reconcilers -> {"idle", "search", "read", "decide", "stamp"}]
    /\ pending \in [Reconcilers -> SUBSET Mids]
    /\ current \in [Reconcilers -> Mids \cup {None}]

\* The columns follow the rules of the board: what the operator placed, only
\* the operator moves, and the program keeps to the columns it may choose.
Board == INSTANCE Columns WITH column <- decision
BoardRules == Board!Spec

\* A card counts as answered only when a reply to it is in the Sent folder.
NoFalseArchive == \A m \in Mids : link[m] = "reconciled" => sent[m] # {}

\* A reply that was sent is noticed, through failed searches, deleted cards
\* and restarts.
SentIsNoticed ==
    \A m \in Mids : link[m] = "pending" /\ sent[m] # {} ~> link[m] = "reconciled"

=============================================================================
