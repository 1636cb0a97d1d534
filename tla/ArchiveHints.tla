---------------------------- MODULE ArchiveHints ----------------------------
(***************************************************************************)
(* Which archive folder a message goes to.  The operator's overrides and   *)
(* the hints of the LLM are two JSON documents in the watermark table; a   *)
(* writer reads the whole document, changes its entry and writes the whole *)
(* document back, and other threads run in between.                        *)
(***************************************************************************)
EXTENDS Naturals, FiniteSets, SequencesExt

CONSTANTS
    Threads,        \* request threads, triage runs and the cleanup
    Mids,           \* Message-IDs
    Proposals,      \* subfolders as the operator or the LLM writes them
    Rule,           \* propose_archive_subfolder of each message
    RootWords,      \* segments that echo the archive root
    ActionWords,    \* segments that name a triage action
    MaxRequests,    \* bound on requests and runs
    None

VARIABLES
    overrides, hints,   \* the two documents, message to subfolder
    pc, op, mid,        \* where each thread is, its request, its message
    dest,               \* the subfolder it chose
    draft,              \* the document it read and will write back
    requests

hintVars == <<overrides, hints, draft>>

NoDocument == [m \in Mids |-> None]

\* A root-like first segment and segments that name an action are dropped.
Normalize(s) ==
    LET relative == IF s # <<>> /\ Head(s) \in RootWords THEN Tail(s) ELSE s
    IN  SelectSeq(relative, LAMBDA word : word \notin ActionWords)

\* What the documents hold, the operator's words or words once normalized,
\* and what may be chosen for a message.
Once == {Normalize(s) : s \in Proposals}
Entered == Proposals \cup Once
Chosen == {Normalize(s) : s \in Entered} \cup {Normalize(Rule[m]) : m \in Mids}
Documents == [Mids -> Entered \cup {None}]

HintsInit ==
    /\ overrides = NoDocument /\ hints = NoDocument
    /\ draft = [t \in Threads |-> NoDocument]

Goto(t, label) == pc' = [pc EXCEPT ![t] = label]
Request == requests < MaxRequests /\ requests' = requests + 1
Finish(t) ==
    /\ Goto(t, "idle") /\ op' = [op EXCEPT ![t] = None]
    /\ mid' = [mid EXCEPT ![t] = None] /\ dest' = [dest EXCEPT ![t] = None]

-----------------------------------------------------------------------------
(* The operator: POST /archive-proposal.                                   *)

\* The override document is read ...
LoadOverrides(t, m, s) ==
    /\ pc[t] = "idle" /\ Request
    /\ op' = [op EXCEPT ![t] = "override"]
    /\ mid' = [mid EXCEPT ![t] = m] /\ dest' = [dest EXCEPT ![t] = s]
    /\ draft' = [draft EXCEPT ![t] = overrides]
    /\ Goto(t, "save override")
    /\ UNCHANGED <<overrides, hints>>

\* Mutant: an empty subfolder is kept as an override.
EditedEmpty(document, m, s) == [document EXCEPT ![m] = s]

\* ... and written back with one entry changed; an empty subfolder removes it.
Edited(document, m, s) == [document EXCEPT ![m] = IF s = <<>> THEN None ELSE s]

SaveOverride(t) ==
    /\ pc[t] = "save override"
    /\ overrides' = Edited(draft[t], mid[t], dest[t])
    /\ draft' = [draft EXCEPT ![t] = NoDocument] /\ Finish(t)
    /\ UNCHANGED <<hints, requests>>

-----------------------------------------------------------------------------
(* The triage agent: _update_archive_hints at the end of a run.  The hints *)
(* of the messages it decided otherwise go, new ones are written.          *)

LoadHints(t) ==
    /\ pc[t] = "idle" /\ Request
    /\ draft' = [draft EXCEPT ![t] = hints]
    /\ op' = [op EXCEPT ![t] = "triage"] /\ Goto(t, "save hints")
    /\ UNCHANGED <<overrides, hints, mid, dest>>

SaveHints(t, stale, m, s) ==
    /\ pc[t] = "save hints"
    /\ hints' = [n \in Mids |->
                    IF n \in stale THEN None
                    ELSE IF n = m /\ Normalize(s) # <<>> THEN Normalize(s)
                    ELSE draft[t][n]]
    /\ draft' = [draft EXCEPT ![t] = NoDocument] /\ Finish(t)
    /\ UNCHANGED <<overrides, requests>>

-----------------------------------------------------------------------------
(* get_archive_subfolder_with_source: override, hint, the LLM, the rule.   *)

\* An archive goes on to the mail; GET /archive-proposal is answered.
Settle(t, s) ==
    /\ dest' = [dest EXCEPT ![t] = s]
    /\ Goto(t, IF op[t] = "archive" THEN "resolve" ELSE "respond")

ServeProposal(t, m) ==
    /\ pc[t] = "idle" /\ Request
    /\ op' = [op EXCEPT ![t] = "proposal"] /\ mid' = [mid EXCEPT ![t] = m]
    /\ Goto(t, "choose")
    /\ UNCHANGED <<hintVars, dest>>

Respond(t) == pc[t] = "respond" /\ Finish(t) /\ UNCHANGED <<hintVars, requests>>

ReadOverride(t) ==
    /\ pc[t] = "choose"
    /\ IF overrides[mid[t]] # None THEN Settle(t, Normalize(overrides[mid[t]]))
       ELSE Goto(t, "hinted") /\ UNCHANGED dest
    /\ UNCHANGED <<hintVars, op, mid, requests>>

ReadHint(t) ==
    /\ pc[t] = "hinted"
    /\ IF hints[mid[t]] # None THEN Settle(t, Normalize(hints[mid[t]]))
       ELSE Goto(t, "propose") /\ UNCHANGED dest
    /\ UNCHANGED <<hintVars, op, mid, requests>>

\* No API key, a failed call or an empty answer: the rule decides.
ProposeNothing(t) ==
    /\ pc[t] = "propose"
    /\ Settle(t, Normalize(Rule[mid[t]]))
    /\ UNCHANGED <<hintVars, op, mid, requests>>

\* classify_archive_destination: the answer is kept as a hint.
Propose(t, s) ==
    /\ pc[t] = "propose" /\ Normalize(s) # <<>>
    /\ dest' = [dest EXCEPT ![t] = Normalize(s)]
    /\ draft' = [draft EXCEPT ![t] = hints]
    /\ Goto(t, "save hint")
    /\ UNCHANGED <<overrides, hints, op, mid, requests>>

SaveHint(t) ==
    /\ pc[t] = "save hint"
    /\ hints' = [draft[t] EXCEPT ![mid[t]] = dest[t]]
    /\ draft' = [draft EXCEPT ![t] = NoDocument]
    /\ Goto(t, "reread")
    /\ UNCHANGED <<overrides, op, mid, dest, requests>>

\* Another run may have written the document back without this hint.
RereadHint(t) ==
    /\ pc[t] = "reread"
    /\ Settle(t, Normalize(IF hints[mid[t]] # None THEN hints[mid[t]] ELSE Rule[mid[t]]))
    /\ UNCHANGED <<hintVars, op, mid, requests>>

HintSteps(t) ==
    \/ SaveOverride(t)
    \/ \E stale \in SUBSET Mids, m \in Mids, s \in Proposals : SaveHints(t, stale, m, s)
    \/ ReadOverride(t) \/ ReadHint(t) \/ ProposeNothing(t)
    \/ \E s \in Proposals : Propose(t, s)
    \/ SaveHint(t) \/ RereadHint(t) \/ Respond(t)

=============================================================================
