---------------------------- MODULE TriageProofs ----------------------------
(* The board's rules hold for any number of cards, agents, *)
(* composers and reconcilers.                                              *)
EXTENDS Triage, TLAPS

-----------------------------------------------------------------------------
(* Lemmas about the statements that write a column.                        *)

\* An upsert writes a decision that is well formed, to one card only.
LEMMA SetDecisionType ==
    ASSUME NEW m \in Mids, NEW a \in Actions, NEW source \in {"user", "agent"},
           decision \in [Mids -> Decisions \cup {None}],
           SetDecision(m, a, source)
    PROVE  /\ decision' \in [Mids -> Decisions \cup {None}]
           /\ \A n \in Mids : n # m => decision'[n] = decision[n]
  BY DEF SetDecision, Decisions

\* What the agent decides is a column it may choose.
LEMMA VerdictAllowed ==
    ASSUME NEW answer
    PROVE  Verdict(answer) \in AgentActions
  BY TriageAssumption DEF Verdict

\* An upsert by the operator or by the program is a step of the board.
LEMMA SetDecisionOnBoard ==
    ASSUME NEW m \in Mids, NEW a \in Actions, NEW source \in {"user", "agent"},
           decision \in [Mids -> Decisions \cup {None}],
           source = "agent" => a \in AgentActions,
           SetDecision(m, a, source)
    PROVE  [Board!Next]_decision
  <1>1. CASE source = "user"
    <2>1. Board!OperatorPlaces(m, a)
      BY <1>1 DEF SetDecision, Board!OperatorPlaces
    <2> QED BY <2>1 DEF Board!Next
  <1>2. CASE source = "agent"
    <2>1. CASE decision' = decision
      BY <2>1
    <2>2. CASE decision' # decision
      <3>1. decision[m] = None \/ decision[m].source = "agent"
        BY <1>2, <2>2 DEF SetDecision, Decisions
      <3>2. Board!ProgramPlaces(m, a)
        BY <1>2, <2>2, <3>1 DEF SetDecision, Board!ProgramPlaces
      <3> QED BY <1>2, <3>2 DEF Board!Next
    <2> QED BY <2>1, <2>2
  <1> QED BY <1>1, <1>2

-----------------------------------------------------------------------------
(* Types.                                                                  *)

\* Every variable keeps its type, a decision always belongs to a record that
\* is there, and only a reply that was composed is sent.
THEOREM TriageTypeCorrect == Spec => []TypeOK
<1>1. Init => TypeOK
  <2> SUFFICES ASSUME Init PROVE TypeOK
    OBVIOUS
  <2>1. \A m \in Mids : sent[m] \subseteq 1..drafts[m]
    <3> TAKE m \in Mids
    <3>1. sent[m] = {} /\ drafts[m] = 0
      BY DEF Init
    <3> QED BY <3>1
  <2>2. \A m \in Mids : decision[m] # None => m \in cards
    BY DEF Init
  <2> QED BY <2>1, <2>2 DEF Init, TypeOK
<1>2. TypeOK /\ [Next]_vars => TypeOK'
  <2> SUFFICES ASSUME TypeOK, [Next]_vars PROVE TypeOK'
    OBVIOUS
  <2> USE TriageAssumption
  <2>1. ASSUME NEW m \in Mids, Arrive(m) PROVE TypeOK'
    BY <2>1 DEF Arrive, TypeOK, database, mailbox, agents,
          composers, reconcilers, bounds, Agents
  <2>2. ASSUME NEW m \in Mids, DeleteCard(m) PROVE TypeOK'
    BY <2>2 DEF DeleteCard, TypeOK, database, mailbox, agents,
          composers, reconcilers, bounds, Agents
  <2>3. ASSUME NEW m \in Mids, NEW a \in Actions, Move(m, a) PROVE TypeOK'
    <3>1. /\ decision' \in [Mids -> Decisions \cup {None}]
          /\ \A n \in Mids : n # m => decision'[n] = decision[n]
      BY <2>3, SetDecisionType DEF Move, TypeOK
    <3> QED BY <2>3, <3>1 DEF Move, TypeOK, mailbox, agents, composers, reconcilers
  <2>4. ASSUME NEW q \in Requests, NEW a \in Actions, ForceColumn(q, a) PROVE TypeOK'
    BY <2>4 DEF ForceColumn, TypeOK, database, mailbox, agents,
          composers, reconcilers, bounds, Agents
  <2>5. ASSUME NEW q \in Requests, RunTriage(q) PROVE TypeOK'
    BY <2>5 DEF RunTriage, Launch, TypeOK, database, mailbox, agents,
          composers, reconcilers, bounds, Agents
  <2>6. ASSUME NEW q \in Requests, ForceLaunches(q) PROVE TypeOK'
    BY <2>6 DEF ForceLaunches, Launch, TypeOK, database, mailbox, agents,
          composers, reconcilers, bounds, Agents
  <2>7. ASSUME NEW a \in Agents, Snapshot(a) PROVE TypeOK'
    <3>1. agent' \in [Agents -> {"idle", "start", "llm", "persist"}]
      BY <2>7 DEF Snapshot, End, TypeOK
    <3>2. todo' \in [Agents -> SUBSET Mids]
      <4>1. {m \in cards : decision[m] = None} \in SUBSET Mids
        BY DEF TypeOK
      <4> QED BY <2>7, <4>1 DEF Snapshot, End, TypeOK
    <3>3. running' \in BOOLEAN
      BY <2>7 DEF Snapshot, End, TypeOK
    <3> QED BY <2>7, <3>1, <3>2, <3>3 DEF Snapshot, TypeOK, mailbox,
               composers, reconcilers
  <2>8. ASSUME NEW a \in Agents, AskModel(a) PROVE TypeOK'
    BY <2>8 DEF AskModel, End, Fault, TypeOK, database, mailbox, agents,
          composers, reconcilers, bounds, Agents
  <2>9. ASSUME NEW a \in Agents, Persist(a) PROVE TypeOK'
    <3> PICK m \in todo[a] :
          IF m \in cards
          THEN /\ \E answer \in Actions :
                     SetDecision(m, Verdict(answer), "agent")
               /\ IF todo[a] = {m}
                  THEN End(a)
                  ELSE /\ todo' = [todo EXCEPT ![a] = @ \ {m}]
                       /\ UNCHANGED <<agent, running>>
          ELSE End(a) /\ UNCHANGED decision
      BY <2>9 DEF Persist
    <3>1. m \in Mids
      BY DEF TypeOK
    <3>2. /\ decision' \in [Mids -> Decisions \cup {None}]
          /\ \A n \in Mids : decision'[n] # None => n \in cards
      <4>1. CASE m \in cards
        <5>1. PICK answer \in Actions : SetDecision(m, Verdict(answer), "agent")
          BY <4>1
        <5>2. Verdict(answer) \in Actions
          BY VerdictAllowed
        <5> QED BY <3>1, <4>1, <5>1, <5>2, SetDecisionType DEF TypeOK
      <4>2. CASE m \notin cards
        BY <4>2 DEF TypeOK
      <4> QED BY <4>1, <4>2
    <3>3. agent' \in [Agents -> {"idle", "start", "llm", "persist"}]
      BY DEF End, TypeOK
    <3>4. todo' \in [Agents -> SUBSET Mids]
      BY DEF End, TypeOK
    <3>5. running' \in BOOLEAN
      BY DEF End, TypeOK
    <3> QED BY <2>9, <3>2, <3>3, <3>4, <3>5 DEF Persist, TypeOK, mailbox,
               composers, reconcilers
  <2>10. ASSUME NEW c \in Composers, NEW m \in Mids, Compose(c, m) PROVE TypeOK'
    BY <2>10 DEF Compose, TypeOK, database, mailbox, agents,
          composers, reconcilers, bounds, Agents
  <2>11. ASSUME NEW c \in Composers, AppendDraft(c) PROVE TypeOK'
    BY <2>11 DEF AppendDraft, Fault, TypeOK, database, mailbox, agents,
          composers, reconcilers, bounds, Agents
  <2>12. ASSUME NEW c \in Composers, RecordLink(c) PROVE TypeOK'
    <3>1. link' \in [Mids -> {"none", "pending", "reconciled"}]
      BY <2>12 DEF RecordLink, TypeOK
    <3> QED BY <2>12, <3>1 DEF RecordLink, TypeOK, mailbox, agents,
               reconcilers
  <2>13. ASSUME NEW m \in Mids, NEW d \in 1..MaxDrafts, Send(m, d) PROVE TypeOK'
    BY <2>13 DEF Send, TypeOK, database, mailbox, agents,
          composers, reconcilers, bounds, Agents
  <2>14. ASSUME NEW r \in Reconcilers, ListLinks(r) PROVE TypeOK'
    BY <2>14 DEF ListLinks, TypeOK, database, mailbox, agents,
          composers, reconcilers, bounds, Agents
  <2>15. ASSUME NEW r \in Reconcilers, NEW m \in pending[r], Search(r, m) PROVE TypeOK'
    BY <2>15 DEF Search, Fault, TypeOK, database, mailbox, agents,
          composers, reconcilers, bounds, Agents
  <2>16. ASSUME NEW r \in Reconcilers, ReadCard(r) PROVE TypeOK'
    BY <2>16 DEF ReadCard, TypeOK, database, mailbox, agents,
          composers, reconcilers, bounds, Agents
  <2>17. ASSUME NEW r \in Reconcilers, ArchiveCard(r) PROVE TypeOK'
    <3>1. /\ decision' \in [Mids -> Decisions \cup {None}]
          /\ \A n \in Mids : decision'[n] # None => n \in cards
      <4>1. CASE current[r] \in cards
        <5>1. current[r] \in Mids /\ SetDecision(current[r], "TO_ARCHIVE", "agent")
          BY <2>17, <4>1 DEF ArchiveCard, TypeOK
        <5> QED BY <4>1, <5>1, SetDecisionType DEF TypeOK
      <4>2. CASE current[r] \notin cards
        BY <2>17, <4>2 DEF ArchiveCard, TypeOK
      <4> QED BY <4>1, <4>2
    <3> QED BY <2>17, <3>1 DEF ArchiveCard, TypeOK, mailbox, agents, composers
  <2>18. ASSUME NEW r \in Reconcilers, StampLink(r) PROVE TypeOK'
    BY <2>18 DEF StampLink, TypeOK, database, mailbox, agents,
          composers, reconcilers, bounds, Agents
  <2>19. ASSUME NEW r \in Reconcilers, PassEnds(r) PROVE TypeOK'
    BY <2>19 DEF PassEnds, TypeOK, database, mailbox, agents,
          composers, reconcilers, bounds, Agents
  <2>20. CASE Restart
    BY <2>20 DEF Restart, TypeOK, mailbox
  <2>21. CASE UNCHANGED vars
    BY <2>21 DEF vars, TypeOK, database, mailbox, agents, composers, reconcilers, bounds
  <2> QED
    BY <2>1, <2>2, <2>3, <2>4, <2>5, <2>6, <2>7, <2>8, <2>9, <2>10, <2>11, <2>12, <2>13, <2>14, <2>15, <2>16, <2>17, <2>18, <2>19, <2>20, <2>21 DEF Next, Reconcile
<1> QED BY <1>1, <1>2, PTL DEF Spec

-----------------------------------------------------------------------------
(* The detailed specification implements the board's.                      *)

\* Whoever writes the column of a card, and in whatever order, each change is
\* one the board allows: no verdict of the program replaces the operator's,
\* and the program keeps to the columns it may choose.
THEOREM ColumnsFollowTheRules == Spec => BoardRules
<1>1. Init => Board!Init
  BY DEF Init, Board!Init
<1>2. TypeOK /\ [Next]_vars => [Board!Next]_decision
  <2> SUFFICES ASSUME TypeOK, [Next]_vars PROVE [Board!Next]_decision
    OBVIOUS
  <2> USE TriageAssumption
  <2>1. ASSUME NEW m \in Mids, DeleteCard(m) PROVE Board!Next
    BY <2>1 DEF DeleteCard, Board!Next, Board!Leaves
  <2>2. ASSUME NEW m \in Mids, NEW a \in Actions, Move(m, a)
        PROVE  [Board!Next]_decision
    BY <2>2, SetDecisionOnBoard DEF Move, TypeOK
  <2>3. ASSUME NEW q \in Requests, NEW a \in Actions, ForceColumn(q, a)
        PROVE  Board!Next
    <3>1. Board!OperatorResets(a)
      BY <2>3 DEF ForceColumn, Board!OperatorResets
    <3> QED BY <3>1 DEF Board!Next
  <2>4. ASSUME NEW a \in Agents, Persist(a) PROVE [Board!Next]_decision
    <3>1. CASE UNCHANGED decision
      BY <3>1
    <3>2. CASE \E m \in Mids, answer \in Actions :
                  SetDecision(m, Verdict(answer), "agent")
      BY <3>2, SetDecisionOnBoard, VerdictAllowed DEF TypeOK
    <3> QED BY <2>4, <3>1, <3>2 DEF Persist, TypeOK
  <2>5. ASSUME NEW r \in Reconcilers, ArchiveCard(r)
        PROVE  [Board!Next]_decision
    <3>1. CASE UNCHANGED decision
      BY <3>1
    <3>2. CASE \E m \in Mids : SetDecision(m, "TO_ARCHIVE", "agent")
      BY <3>2, SetDecisionOnBoard DEF TypeOK
    <3> QED BY <2>5, <3>1, <3>2 DEF ArchiveCard, TypeOK
  <2>6. CASE UNCHANGED decision
    BY <2>6
  <2> QED
    BY <2>1, <2>2, <2>3, <2>4, <2>5, <2>6
    DEF Next, Reconcile, vars, database, Arrive, RunTriage, ForceLaunches,
        Launch, Snapshot, AskModel, Compose, AppendDraft, RecordLink, Send,
        ListLinks, Search, ReadCard, StampLink, PassEnds, Restart
<1> QED
  BY <1>1, <1>2, TriageTypeCorrect, PTL DEF Spec, BoardRules, Board!Spec

-----------------------------------------------------------------------------
(* Sent replies.                                                           *)

\* What a reconciler is about to archive or to stamp has been answered.
SeenInSent ==
    \A r \in Reconcilers : reconciler[r] \in {"read", "decide", "stamp"} =>
        current[r] \in Mids /\ sent[current[r]] # {}

AnswersSeen == TypeOK /\ SeenInSent /\ NoFalseArchive

\* However many replies, reconcilers, failures and restarts: a link is closed
\* only when a reply to its card is in the Sent folder.
THEOREM NeverFalseArchives == Spec => []NoFalseArchive
<1>1. Init => SeenInSent /\ NoFalseArchive
  BY DEF Init, SeenInSent, NoFalseArchive
<1>2. AnswersSeen /\ [Next]_vars => (SeenInSent /\ NoFalseArchive)'
  <2> SUFFICES ASSUME AnswersSeen, [Next]_vars
               PROVE  (SeenInSent /\ NoFalseArchive)'
    OBVIOUS
  <2> USE DEF AnswersSeen, SeenInSent, NoFalseArchive
  <2>1. ASSUME NEW c \in Composers, RecordLink(c)
        PROVE  (SeenInSent /\ NoFalseArchive)'
    BY <2>1 DEF RecordLink, TypeOK, mailbox, reconcilers
  <2>2. ASSUME NEW m \in Mids, NEW d \in 1..MaxDrafts, Send(m, d)
        PROVE  (SeenInSent /\ NoFalseArchive)'
    BY <2>2 DEF Send, TypeOK, database, reconcilers
  <2>3. ASSUME NEW r \in Reconcilers, Reconcile(r)
        PROVE  (SeenInSent /\ NoFalseArchive)'
    <3>1. CASE ListLinks(r)
      BY <3>1 DEF ListLinks, TypeOK, database, mailbox
    <3>2. ASSUME NEW m \in pending[r], Search(r, m)
          PROVE  (SeenInSent /\ NoFalseArchive)'
      BY <3>2 DEF Search, TypeOK, database, mailbox
    <3>3. CASE ReadCard(r)
      BY <3>3 DEF ReadCard, TypeOK, database, mailbox
    <3>4. CASE ArchiveCard(r)
      BY <3>4 DEF ArchiveCard, TypeOK, mailbox
    <3>5. CASE StampLink(r)
      BY <3>5 DEF StampLink, TypeOK, mailbox
    <3>6. CASE PassEnds(r)
      BY <3>6 DEF PassEnds, TypeOK, database, mailbox
    <3> QED BY <2>3, <3>1, <3>2, <3>3, <3>4, <3>5, <3>6 DEF Reconcile
  <2>4. CASE Restart
    BY <2>4 DEF Restart, TypeOK, mailbox
  <2>5. CASE UNCHANGED <<link, mailbox, reconcilers>>
    BY <2>5 DEF mailbox, reconcilers
  <2>6. ASSUME NEW c \in Composers, AppendDraft(c)
        PROVE  (SeenInSent /\ NoFalseArchive)'
    BY <2>6 DEF AppendDraft, database, reconcilers
  <2> QED
    BY <2>1, <2>2, <2>3, <2>4, <2>5, <2>6
    DEF Next, vars, database, Arrive, DeleteCard, Move, ForceColumn, RunTriage,
        ForceLaunches, Launch, Snapshot, AskModel, Persist, Compose
<1> QED
  BY <1>1, <1>2, TriageTypeCorrect, PTL DEF Spec, AnswersSeen

=============================================================================
