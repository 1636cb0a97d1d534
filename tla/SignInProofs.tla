---------------------------- MODULE SignInProofs ----------------------------
(***************************************************************************)
(* What the loops, the probe and the device-code logins keep, for any      *)
(* accounts, logins and numbers of consents and troubles.                  *)
(***************************************************************************)
EXTENDS WatchLoop, TLAPS

-----------------------------------------------------------------------------
(* The inductive invariant.                                                *)

\* No token stems from a consent that was not given.
Consents ==
    /\ \A m \in Microsoft : kept[m] <= granted[m]
    /\ \A t \in Logins : InProgress(t) => login[t].held <= granted[login[t].acct]

\* A login of the board is where its note of having written a token says, is
\* alone with its account unless logins have crossed, and the entry of an
\* account whose logins have not crossed says that its login is pending.
Alone(t) == \A u \in Board \ {t} : ~(InProgress(u) /\ login[u].acct = login[t].acct)
Flows ==
    \A t \in Board : InProgress(t) =>
        /\ login[t].wrote <=> login[t].pc \in {"probe", "report"}
        /\ ~crossed[login[t].acct] =>
              /\ Alone(t)
              /\ login[t].pc # "set" => flow[login[t].acct] \in Pending

\* What is about to be written to a token file works, unless a revocation came
\* between.
Writes ==
    /\ \A t \in Threads : conn[t].pc = "persist" /\ ~exposed[conn[t].acct] =>
          Live(conn[t].acct, conn[t].held)
    /\ \A t \in Logins : login[t].pc = "persist" /\ ~exposed[login[t].acct] =>
          Live(login[t].acct, login[t].held)

SInv == SignInTypeOK /\ Consents /\ SignedInStays /\ Writes /\ Flows
IInv == TypeOK /\ SInv

-----------------------------------------------------------------------------
(* Types of what SignIn keeps.                                             *)

LEMMA ThreadFacts ==
    /\ Connectors \subseteq Threads /\ Logins \subseteq Threads
    /\ \A t \in Logins : t \notin Connectors
    /\ Connectors = {"watch", "serve", "probe"}
    /\ MaxConsents \in Nat /\ 0 \in Tokens /\ Tokens \subseteq Nat
BY SignInAssumption, WatchAssumption DEF Threads, Loops, Watch, Serve, Probe, Tokens

\* The part of the types a connection step can disturb.
LEMMA ConnectionTypes ==
    ASSUME ConnTypes, NEW t \in Threads, NEW c \in Connections,
           conn' = [conn EXCEPT ![t] = c], Holds(c), UNCHANGED granted
    PROVE  ConnTypes'
BY DEF ConnTypes, Connections, Holds

LEMMA OpeningTypes ==
    /\ Off \in Connections /\ Holds(Off)
    /\ \A x \in Accounts, n \in 0..1, bad \in BOOLEAN, pc \in {"open", "ok", "failed"} :
          Fresh(pc, x, n, bad) \in Connections /\ Holds(Fresh(pc, x, n, bad))
BY ThreadFacts DEF Off, Fresh, Connections, Holds

LEMMA ResultTypes ==
    ASSUME ConnTypes, NEW t \in Threads, NEW bad \in BOOLEAN, Result(t, bad),
           conn[t].pc # "off", UNCHANGED granted
    PROVE  ConnTypes' /\ conn'[t].acct = conn[t].acct /\ conn'[t].pc # "off"
<1> DEFINE c == conn[t]
           d == IF c.left > 0 THEN Fresh("open", c.acct, c.left - 1, bad)
                ELSE Fresh(IF bad THEN "failed" ELSE "ok", c.acct, 0, FALSE)
<1>1. c \in Connections /\ c.acct \in Accounts
  BY DEF ConnTypes, Holds
<1>2. c.left > 0 => c.left - 1 \in 0..1
  BY <1>1 DEF Connections
<1>3. d \in Connections /\ Holds(d)
  <2>1. CASE c.left > 0
    BY <2>1, <1>1, <1>2, OpeningTypes
  <2>2. CASE ~(c.left > 0)
    BY <1>1, <2>2, ThreadFacts DEF Fresh, Connections, Holds
  <2> QED
    BY <2>1, <2>2
<1>4. d.acct = c.acct /\ d.pc # "off"
  BY DEF Fresh
<1>5. conn' = [conn EXCEPT ![t] = d]
  BY DEF Result
<1> HIDE DEF d
<1>6. conn'[t] = d
  BY <1>5 DEF ConnTypes
<1> QED
  BY <1>3, <1>4, <1>5, <1>6, ConnectionTypes

LEMMA LoadTypes ==
    ASSUME ConnTypes, TokenTypes, NEW t \in Threads, NEW forced \in BOOLEAN, LoadToken(t, forced),
           conn[t].acct \in Microsoft, UNCHANGED granted
    PROVE  ConnTypes' /\ conn'[t].acct = conn[t].acct /\ conn'[t].pc # "off"
<1> DEFINE token == cache[conn[t].acct]
<1>1. token \in Tokens /\ token \in Nat /\ token <= granted[conn[t].acct]
  BY ThreadFacts DEF TokenTypes
<1>2. conn[t] \in Connections
  BY DEF ConnTypes
<1>3. conn'[t] = [conn[t] EXCEPT !.held = token, !.forced = forced,
                                 !.pc = IF token = 0 THEN "raised" ELSE "acquire"]
  BY DEF ConnTypes, LoadToken
<1>4. conn'[t] = [pc |-> IF token = 0 THEN "raised" ELSE "acquire", acct |-> conn[t].acct,
                  left |-> conn[t].left, held |-> token, forced |-> forced, bad |-> conn[t].bad]
  BY <1>2, <1>3 DEF Connections
<1>5. conn'[t] \in Connections /\ Holds(conn'[t]) /\ conn'[t].acct = conn[t].acct /\ conn'[t].pc # "off"
  BY <1>1, <1>2, <1>4, SignInAssumption DEF Connections, Holds
<1>6. conn' = [conn EXCEPT ![t] = conn'[t]]
  BY DEF LoadToken, ConnTypes
<1> QED
  BY <1>5, <1>6, ConnectionTypes

\* A connection stays with its account until it ends.
LEMMA ConnectTypes ==
    ASSUME ConnTypes, TokenTypes, NEW t \in Threads, Connect(t)
    PROVE  /\ ConnTypes' /\ TokenTypes'
           /\ conn[t].pc # "off" /\ conn'[t].pc # "off" /\ conn'[t].acct = conn[t].acct
           /\ \A u \in Threads : u # t => conn'[u] = conn[u]
           /\ UNCHANGED <<granted, revoked, kept, exposed, flowVars, health>>
           /\ UNCHANGED troubles \/ Trouble
<1> DEFINE Connected ==
      /\ ConnTypes' /\ conn'[t].pc # "off" /\ conn'[t].acct = conn[t].acct
      /\ \A u \in Threads : u # t => conn'[u] = conn[u]
<1>1. conn[t].pc # "off" /\ conn[t].acct \in Accounts /\ conn[t] \in Connections
  BY DEF Connect, Open, Acquire, Persist, Present, ConnTypes, Holds
<1>2. ASSUME NEW bad \in BOOLEAN, Result(t, bad), UNCHANGED granted PROVE Connected
  <2>1. \A u \in Threads : u # t => conn'[u] = conn[u]
    BY <1>2 DEF Result, ConnTypes
  <2> QED
    BY <1>1, <1>2, <2>1, ResultTypes
<1>3. ASSUME NEW forced \in BOOLEAN, LoadToken(t, forced), UNCHANGED granted,
             conn[t].acct \in Microsoft
      PROVE  Connected
  <2>1. \A u \in Threads : u # t => conn'[u] = conn[u]
    BY <1>3 DEF LoadToken, ConnTypes
  <2> QED
    BY <1>1, <1>3, <2>1, LoadTypes
<1>4. ASSUME NEW pc \in {"persist", "present", "raised"}, Goes(t, pc), UNCHANGED granted,
             \/ conn[t].pc \in {"acquire", "persist", "present"}
             \/ conn[t].pc = "open" /\ pc = "raised"
      PROVE  Connected
  BY <1>4 DEF Goes, ConnTypes, Connections, Holds
<1>5. conn[t].bad \in BOOLEAN /\ TRUE \in BOOLEAN
  BY <1>1 DEF Connections
<1>6. CASE Open(t)
  <2>1. UNCHANGED tokenVars /\ UNCHANGED <<flowVars, health>>
    BY <1>6 DEF Open, flowVars
  <2>2. Connected /\ (UNCHANGED troubles \/ Trouble)
    BY <1>6, <1>2, <1>3, <1>4, <1>5, <2>1 DEF Open, Passes, Fails, tokenVars, NoTrouble
  <2> QED
    BY <1>1, <2>1, <2>2 DEF tokenVars, TokenTypes
<1>7. CASE Acquire(t)
  <2>1. UNCHANGED tokenVars /\ UNCHANGED <<flowVars, health>>
    BY <1>7 DEF Acquire, flowVars
  <2>2. Connected /\ (UNCHANGED troubles \/ Trouble)
    BY <1>7, <1>4, <2>1 DEF Acquire, tokenVars, NoTrouble
  <2> QED
    BY <1>1, <2>1, <2>2 DEF tokenVars, TokenTypes
<1>8. CASE Persist(t)
  <2>1. UNCHANGED <<granted, revoked, kept, exposed, flowVars, health>> /\ UNCHANGED troubles
    BY <1>8 DEF Persist, flowVars, NoTrouble
  <2>2. Connected
    BY <1>8, <1>4, <2>1 DEF Persist
  <2>3. TokenTypes'
    BY <1>1, <1>8, <2>1, ThreadFacts
    DEF Persist, ConnTypes, Holds, TokenTypes, Connections, Live
  <2> QED
    BY <1>1, <2>1, <2>2, <2>3
<1>9. CASE Present(t)
  <2>1. UNCHANGED tokenVars /\ UNCHANGED <<flowVars, health>>
    BY <1>9 DEF Present, flowVars
  <2>2. conn[t].acct \in Microsoft
    BY <1>9 DEF Present, ConnTypes, Holds
  <2>3. Connected /\ (UNCHANGED troubles \/ Trouble)
    BY <1>9, <1>2, <1>3, <1>4, <1>5, <2>1, <2>2 DEF Present, Passes, Fails, tokenVars, NoTrouble
  <2> QED
    BY <1>1, <2>1, <2>3 DEF tokenVars, TokenTypes
<1> QED
  BY <1>6, <1>7, <1>8, <1>9 DEF Connect

\* The part of the types a login step can disturb.
LEMMA LoginStateTypes ==
    ASSUME LoginTypes, NEW t \in Logins, NEW l \in LoginStates,
           l.pc # "off" => l.acct \in Microsoft,
           login' = [login EXCEPT ![t] = l]
    PROVE  LoginTypes'
BY DEF LoginTypes, LoginStates, InProgress

LEMMA NewLoginTypes ==
    /\ NoLogin \in LoginStates /\ NoLogin.pc = "off" /\ NoLogin.acct = "none"
    /\ \A m \in Microsoft, pc \in {"set", "initiate"} :
          /\ LoginAt(pc, m) \in LoginStates /\ LoginAt(pc, m).pc = pc
          /\ LoginAt(pc, m).acct = m /\ LoginAt(pc, m).held = 0 /\ ~LoginAt(pc, m).wrote
BY ThreadFacts DEF NoLogin, LoginAt, LoginStates

LEMMA TellTypes ==
    ASSUME FlowTypes, LoginTypes, NEW t \in Logins, InProgress(t),
           NEW status \in {"consent", "success", "error"}, Tell(t, status), UNCHANGED crossed
    PROVE  FlowTypes'
BY DEF FlowTypes, LoginTypes, Tell, Pending

\* What an ending login leaves behind.
LEMMA EndTypes ==
    ASSUME LoginTypes, NEW t \in Logins, Ends(t)
    PROVE  LoginTypes' /\ login'[t] = NoLogin /\ \A u \in Logins \ {t} : login'[u] = login[u]
BY NewLoginTypes, LoginStateTypes DEF Ends, LoginTypes

\* The state a login that goes on is in.
Login(t, pc, held, wrote) ==
    [pc |-> pc, acct |-> login[t].acct, held |-> held, wrote |-> wrote]

Moved(t, pc, held, wrote) ==
    \/ login' = [login EXCEPT ![t].pc = pc] /\ held = login[t].held /\ wrote = login[t].wrote
    \/ login' = [login EXCEPT ![t].pc = pc, ![t].held = held] /\ wrote = login[t].wrote
    \/ login' = [login EXCEPT ![t].held = held, ![t].pc = pc] /\ wrote = login[t].wrote
    \/ login' = [login EXCEPT ![t].pc = pc, ![t].wrote = wrote] /\ held = login[t].held

LEMMA LoginMoves ==
    ASSUME LoginTypes, NEW t \in Logins, InProgress(t), NEW pc, NEW held, NEW wrote,
           Moved(t, pc, held, wrote),
           pc \in {"initiate", "consent", "persist", "probe", "report"},
           held \in Tokens, wrote \in BOOLEAN
    PROVE  /\ LoginTypes' /\ login'[t] = Login(t, pc, held, wrote)
           /\ \A u \in Logins \ {t} : login'[u] = login[u]
<1> DEFINE l == Login(t, pc, held, wrote)
<1>1. login[t] \in LoginStates /\ login[t].acct \in Microsoft /\ login \in [Logins -> LoginStates]
  BY DEF LoginTypes
<1>2. \/ login'[t] = [login[t] EXCEPT !.pc = pc] /\ held = login[t].held /\ wrote = login[t].wrote
      \/ login'[t] = [login[t] EXCEPT !.pc = pc, !.held = held] /\ wrote = login[t].wrote
      \/ login'[t] = [login[t] EXCEPT !.held = held, !.pc = pc] /\ wrote = login[t].wrote
      \/ login'[t] = [login[t] EXCEPT !.pc = pc, !.wrote = wrote] /\ held = login[t].held
  BY <1>1 DEF Moved
<1>3. login'[t] = l
  BY <1>1, <1>2 DEF LoginStates, Login
<1>4. l \in LoginStates
  BY <1>1 DEF Login, LoginStates
<1>5. login' = [login EXCEPT ![t] = login'[t]] /\ \A u \in Logins \ {t} : login'[u] = login[u]
  BY <1>1 DEF Moved
<1>6. l.acct \in Microsoft
  BY <1>1 DEF Login
<1> HIDE DEF l
<1>7. LoginTypes'
  BY <1>3, <1>4, <1>5, <1>6, LoginStateTypes
<1> QED
  BY <1>3, <1>5, <1>7 DEF l

-----------------------------------------------------------------------------
(* What the steps of SignIn keep.                                          *)

\* A login that goes on, telling the board so or not.
LEMMA FlowsMove ==
    ASSUME LoginTypes, FlowTypes, Flows, NEW t \in Logins, InProgress(t),
           NEW pc \in {"initiate", "consent", "persist", "probe", "report"},
           NEW held \in Tokens, NEW wrote \in BOOLEAN,
           login'[t] = Login(t, pc, held, wrote),
           \A u \in Logins \ {t} : login'[u] = login[u],
           t \in Board => (wrote <=> pc \in {"probe", "report"}),
           \/ UNCHANGED flow /\ login[t].pc # "set"
           \/ flow' = [flow EXCEPT ![login[t].acct] = "prompt"]
           \/ flow' = [flow EXCEPT ![login[t].acct] = "consent"],
           UNCHANGED crossed
    PROVE  Flows'
<1> DEFINE m == login[t].acct
<1>1. m \in Microsoft /\ login'[t].acct = m /\ login'[t].pc = pc /\ login'[t].wrote = wrote /\ pc # "off"
  BY DEF LoginTypes, Login
<1>2. \A u \in Board : InProgress(u)' = InProgress(u) /\ login'[u].acct = login[u].acct
  BY <1>1 DEF InProgress, Logins
<1>3. \A x \in Microsoft : x # m => flow'[x] = flow[x]
  BY <1>1 DEF FlowTypes
<1>4. flow'[m] \in Pending \/ (flow'[m] = flow[m] /\ login[t].pc # "set")
  BY <1>1 DEF FlowTypes, Pending
<1> SUFFICES ASSUME NEW u \in Board, InProgress(u)
             PROVE  /\ (login'[u].wrote <=> login'[u].pc \in {"probe", "report"})
                    /\ ~crossed[login[u].acct] =>
                         /\ Alone(u)'
                         /\ login'[u].pc # "set" => flow'[login[u].acct] \in Pending
  BY <1>2 DEF Flows, Pending
<1>5. u \in Logins /\ login[u].acct \in Microsoft
  BY DEF LoginTypes, Logins
<1>6. Alone(u) => Alone(u)'
  BY <1>2 DEF Alone
<1>7. CASE u = t
  BY <1>1, <1>4, <1>7, <1>6 DEF Flows, Pending
<1>8. CASE u # t
  <2>1. login'[u] = login[u]
    BY <1>5, <1>8
  <2>2. flow[login[u].acct] \in Pending => flow'[login[u].acct] \in Pending
    BY <1>3, <1>4, <1>5
  <2> QED
    BY <1>6, <2>1, <2>2 DEF Flows
<1> QED
  BY <1>7, <1>8

\* A login that ends or has not begun.
LEMMA FlowsEnd ==
    ASSUME LoginTypes, FlowTypes, Flows, NEW t \in Logins, InProgress(t), Ends(t),
           NEW status, Tell(t, status), UNCHANGED crossed
    PROVE  Flows'
<1> DEFINE m == login[t].acct
<1>1. m \in Microsoft /\ login'[t] = NoLogin /\ \A u \in Logins \ {t} : login'[u] = login[u]
  BY EndTypes DEF LoginTypes
<1> SUFFICES ASSUME NEW u \in Board, InProgress(u)'
             PROVE  /\ (login'[u].wrote <=> login'[u].pc \in {"probe", "report"})
                    /\ ~crossed[login'[u].acct] =>
                         /\ Alone(u)'
                         /\ login'[u].pc # "set" => flow'[login'[u].acct] \in Pending
  BY DEF Flows, Pending
<1>2. u # t /\ u \in Logins
  BY <1>1, NewLoginTypes DEF InProgress, Logins
<1>3. login'[u] = login[u] /\ InProgress(u) /\ login[u].acct \in Microsoft
  BY <1>1, <1>2 DEF InProgress, LoginTypes
<1>4. Alone(u) => Alone(u)'
  BY <1>1, NewLoginTypes DEF Alone, InProgress, Logins
<1>5. t \in Board /\ login[u].acct = m => crossed[m]
  BY <1>2, <1>3 DEF Flows, Alone
<1>6. t \notin Board \/ login[u].acct # m => flow'[login[u].acct] = flow[login[u].acct]
  BY <1>1, <1>3 DEF Tell, FlowTypes
<1> QED
  BY <1>3, <1>4, <1>5, <1>6 DEF Flows

\* What a step of a login may do to the connections.
OthersStay(t) == \A u \in Threads \ {t} : conn'[u] = conn[u]

LEMMA Unwrittens ==
    /\ \A t \in Threads : conn[t].pc = "persist" => conn[t].held \in Unwritten(conn[t].acct)
    /\ \A t \in Logins : login[t].pc = "persist" => login[t].held \in Unwritten(login[t].acct)
BY DEF Unwritten

\* Only what works begins to be written.
LEMMA WritesStay ==
    ASSUME Writes, UNCHANGED <<revoked, exposed>>,
           \A t \in Threads : conn'[t].pc = "persist" =>
              conn'[t] = conn[t] \/ Live(conn'[t].acct, conn'[t].held),
           \A t \in Logins : login'[t].pc = "persist" =>
              login'[t] = login[t] \/ Live(login'[t].acct, login'[t].held)
    PROVE  Writes'
BY DEF Writes, Live

LEMMA ConnectSteps ==
    ASSUME SInv, NEW t \in Threads, Connect(t)
    PROVE  SInv' /\ OthersStay(t)
<1> USE DEF SInv
<1>1. /\ ConnTypes' /\ TokenTypes' /\ OthersStay(t)
      /\ UNCHANGED <<granted, revoked, kept, exposed, flowVars, health>>
      /\ UNCHANGED troubles \/ Trouble
  BY ConnectTypes DEF SignInTypeOK, OthersStay
<1>2. SignInTypeOK'
  BY <1>1, SignInAssumption DEF SignInTypeOK, flowVars, LoginTypes, FlowTypes, InProgress, Trouble
<1>3. Consents' /\ Flows'
  BY <1>1 DEF Consents, Flows, Alone, InProgress, flowVars, Pending
<1>4. SignedInStays'
  <2>1. CASE Persist(t)
    BY <1>1, <2>1 DEF Persist, Writes, SignedInStays, Live, SignInTypeOK, TokenTypes
  <2>2. CASE UNCHANGED tokenVars
    BY <2>2 DEF tokenVars, SignedInStays, Live
  <2> QED
    BY <2>1, <2>2 DEF Connect, Open, Acquire, Present
<1>5. conn'[t].pc = "persist" => Live(conn'[t].acct, conn'[t].held)
  <2>1. conn[t] \in Connections /\ conn \in [Threads -> Connections]
    BY DEF SignInTypeOK, ConnTypes
  <2>2. ASSUME NEW bad, Result(t, bad) PROVE conn'[t].pc # "persist"
    BY <2>1, <2>2 DEF Result, Fresh
  <2>3. ASSUME NEW forced, LoadToken(t, forced) PROVE conn'[t].pc # "persist"
    BY <2>1, <2>3 DEF LoadToken, Connections
  <2>4. ASSUME NEW pc, Goes(t, pc)
        PROVE  conn'[t].pc = pc /\ conn'[t].acct = conn[t].acct /\ conn'[t].held = conn[t].held
    BY <2>1, <2>4 DEF Goes, Connections
  <2>10. /\ Passes(t) \/ Fails(t) => conn'[t].pc # "persist"
         /\ LoadToken(t, TRUE) \/ LoadToken(t, FALSE) => conn'[t].pc # "persist"
         /\ Goes(t, "raised") => conn'[t].pc # "persist"
    <3>1. Result(t, conn[t].bad) => conn'[t].pc # "persist"
      BY <2>2
    <3>2. Result(t, TRUE) => conn'[t].pc # "persist"
      BY <2>2
    <3>3. LoadToken(t, TRUE) => conn'[t].pc # "persist"
      BY <2>3
    <3>4. LoadToken(t, FALSE) => conn'[t].pc # "persist"
      BY <2>3
    <3>5. Goes(t, "raised") => conn'[t].pc # "persist"
      BY <2>4
    <3> QED
      BY <3>1, <3>2, <3>3, <3>4, <3>5 DEF Passes, Fails
  <2>5. Open(t) => conn'[t].pc # "persist"
    BY <2>10 DEF Open
  <2>6. Acquire(t) /\ conn'[t].pc = "persist" => Live(conn[t].acct, conn[t].held)
    BY <2>4 DEF Acquire
  <2>7. Acquire(t) => conn'[t].acct = conn[t].acct /\ conn'[t].held = conn[t].held
    BY <2>4 DEF Acquire
  <2>8. Persist(t) => conn'[t].pc # "persist"
    BY <2>4 DEF Persist
  <2>9. Present(t) => conn'[t].pc # "persist"
    BY <2>10 DEF Present
  <2> QED
    BY <2>5, <2>6, <2>7, <2>8, <2>9 DEF Connect
<1>6. Writes'
  <2>1. revoked' = revoked /\ exposed' = exposed /\ login' = login
    BY <1>1 DEF flowVars
  <2>2. \A u \in Threads : conn'[u].pc = "persist" =>
           conn'[u] = conn[u] \/ Live(conn'[u].acct, conn'[u].held)
    BY <1>1, <1>5 DEF OthersStay
  <2> QED
    BY <2>1, <2>2, WritesStay
<1> QED
  BY <1>1, <1>2, <1>3, <1>4, <1>6

LEMMA LoginSteps ==
    ASSUME SInv, NEW t \in Logins, LoginStep(t)
    PROVE  SInv' /\ OthersStay(t)
<1> USE DEF SInv
<1>1. t \in Threads /\ Microsoft \subseteq Accounts /\ login[t] \in LoginStates
  BY ThreadFacts, SignInAssumption DEF SignInTypeOK, LoginTypes
<1>2. login[t].pc # "off" => InProgress(t) /\ login[t].acct \in Microsoft
  BY DEF InProgress, SignInTypeOK, LoginTypes
<1>3. login[t].held \in Tokens /\ login[t].wrote \in BOOLEAN
  BY <1>1 DEF LoginStates
\* The steps that only move the login.
<1>4. ASSUME UNCHANGED <<granted, revoked, cache, kept, exposed, conn, health>>,
             UNCHANGED troubles \/ Trouble,
             LoginTypes', FlowTypes', Flows',
             \A u \in Logins : InProgress(u)' =>
                \/ login'[u] = login[u]
                \/ /\ login'[u].pc # "persist" /\ login'[u].acct \in Microsoft
                   /\ login'[u].held <= granted[login'[u].acct]
      PROVE  SInv' /\ OthersStay(t)
  <2>1. SignInTypeOK'
    BY <1>4, SignInAssumption DEF SignInTypeOK, TokenTypes, ConnTypes, Holds, Trouble
  <2>2. Consents'
    BY <1>4 DEF Consents, InProgress
  <2>3. SignedInStays'
    BY <1>4 DEF SignedInStays, Live
  <2>4. Writes'
    BY <1>4, WritesStay DEF InProgress
  <2> QED
    BY <1>4, <2>1, <2>2, <2>3, <2>4 DEF OthersStay
<1>5. CASE AuthSet(t)
  <2>1. InProgress(t) /\ login[t].acct \in Microsoft
    BY <1>2, <1>5 DEF AuthSet
  <2>2. /\ LoginTypes' /\ login'[t] = Login(t, "initiate", login[t].held, login[t].wrote)
        /\ \A u \in Logins \ {t} : login'[u] = login[u]
    <3>1. Moved(t, "initiate", login[t].held, login[t].wrote)
      BY <1>5 DEF AuthSet, Moved
    <3> QED
      BY <1>3, <2>1, <3>1, LoginMoves DEF SignInTypeOK
  <2>3. FlowTypes'
    BY <1>5 DEF AuthSet, SignInTypeOK, FlowTypes, Pending
  <2>4. Flows'
    <3>1. t \in Board => ~login[t].wrote
      BY <1>5, <2>1 DEF AuthSet, Flows
    <3> QED
      BY <1>3, <1>5, <2>1, <2>2, <3>1, FlowsMove DEF AuthSet, SignInTypeOK
  <2>5. /\ login'[t].acct = login[t].acct /\ login'[t].held = login[t].held
        /\ login'[t].pc = "initiate"
    BY <2>2 DEF Login
  <2> QED
    BY <1>4, <1>5, <2>1, <2>2, <2>3, <2>4, <2>5 DEF AuthSet, tokenVars, Consents
<1>6. CASE Initiate(t)
  <2>1. InProgress(t) /\ login[t].acct \in Microsoft
    BY <1>2, <1>6 DEF Initiate
  <2>2. CASE EndInError(t) /\ Trouble
    <3>1. /\ LoginTypes' /\ login'[t] = NoLogin
          /\ \A u \in Logins \ {t} : login'[u] = login[u]
      BY <2>2, EndTypes DEF EndInError, SignInTypeOK
    <3>2. FlowTypes' /\ Flows'
      BY <1>6, <2>1, <2>2, TellTypes, FlowsEnd DEF Initiate, EndInError, SignInTypeOK
    <3> QED
      BY <1>4, <1>6, <2>2, <3>1, <3>2, NewLoginTypes DEF Initiate, tokenVars, InProgress
  <2>3. CASE /\ login' = [login EXCEPT ![t].pc = "consent", ![t].held = cache[login[t].acct]]
             /\ Tell(t, "consent") /\ NoTrouble
    <3>1. cache[login[t].acct] \in Tokens /\ cache[login[t].acct] <= granted[login[t].acct]
      BY <2>1 DEF SignInTypeOK, TokenTypes
    <3>2. /\ LoginTypes' /\ login'[t] = Login(t, "consent", cache[login[t].acct], login[t].wrote)
          /\ \A u \in Logins \ {t} : login'[u] = login[u]
      <4>1. Moved(t, "consent", cache[login[t].acct], login[t].wrote)
        BY <2>3 DEF Moved
      <4> QED
        BY <1>3, <2>1, <3>1, <4>1, LoginMoves DEF SignInTypeOK
    <3>3. FlowTypes'
      BY <1>6, <2>1, <2>3, TellTypes DEF Initiate, SignInTypeOK
    <3>4. Flows'
      <4>1. t \in Board => ~login[t].wrote
        BY <1>6, <2>1 DEF Initiate, Flows
      <4> QED
        BY <1>3, <1>6, <2>1, <2>3, <3>1, <3>2, <4>1, FlowsMove DEF Initiate, SignInTypeOK, Tell
    <3>5. /\ login'[t].acct = login[t].acct /\ login'[t].held = cache[login[t].acct]
          /\ login'[t].pc = "consent"
      BY <3>2 DEF Login
    <3> QED
      BY <1>4, <1>6, <2>1, <2>3, <3>1, <3>2, <3>3, <3>4, <3>5 DEF Initiate, tokenVars, NoTrouble
  <2> QED
    BY <1>6, <2>2, <2>3 DEF Initiate
<1>7. CASE Decline(t)
  <2>1. InProgress(t)
    BY <1>2, <1>7 DEF Decline
  <2>2. /\ LoginTypes' /\ login'[t] = NoLogin
        /\ \A u \in Logins \ {t} : login'[u] = login[u]
    BY <1>7, EndTypes DEF Decline, EndInError, SignInTypeOK
  <2>3. FlowTypes' /\ Flows'
    BY <1>7, <2>1, TellTypes, FlowsEnd DEF Decline, EndInError, SignInTypeOK
  <2> QED
    BY <1>4, <1>7, <2>2, <2>3, NewLoginTypes DEF Decline, tokenVars, NoTrouble, InProgress
<1>8. CASE Report(t)
  <2>1. InProgress(t)
    BY <1>2, <1>8 DEF Report
  <2>2. /\ LoginTypes' /\ login'[t] = NoLogin
        /\ \A u \in Logins \ {t} : login'[u] = login[u]
    BY <1>8, EndTypes DEF Report, SignInTypeOK
  <2>3. FlowTypes' /\ Flows'
    BY <1>8, <2>1, TellTypes, FlowsEnd DEF Report, SignInTypeOK
  <2> QED
    BY <1>4, <1>8, <2>2, <2>3, NewLoginTypes DEF Report, tokenVars, InProgress
<1>9. CASE Consent(t)
  <2> DEFINE m == login[t].acct
  <2>1. InProgress(t) /\ m \in Microsoft
    BY <1>2, <1>9 DEF Consent
  <2>2. granted[m] \in Nat /\ granted[m] + 1 \in Tokens
    BY <1>9, <2>1, ThreadFacts DEF Consent, SignInTypeOK, TokenTypes, Tokens
  <2>3. /\ granted' = [granted EXCEPT ![m] = @ + 1]
        /\ UNCHANGED <<revoked, cache, kept, exposed, conn, flow, crossed, health, troubles>>
    BY <1>9 DEF Consent, NoTrouble
  <2>4. /\ LoginTypes' /\ login'[t] = Login(t, "persist", granted[m] + 1, login[t].wrote)
        /\ \A u \in Logins \ {t} : login'[u] = login[u]
    <3>1. Moved(t, "persist", granted[m] + 1, login[t].wrote)
      BY <1>9 DEF Consent, Moved
    <3> QED
      BY <1>3, <2>1, <2>2, <3>1, LoginMoves DEF SignInTypeOK
  <2>5. Flows'
    <3>1. t \in Board => ~login[t].wrote
      BY <1>9, <2>1 DEF Consent, Flows
    <3> QED
      BY <1>3, <1>9, <2>1, <2>2, <2>3, <2>4, <3>1, FlowsMove DEF Consent, SignInTypeOK
  <2>6. \A x \in Microsoft :
          granted'[x] \in Tokens /\ granted'[x] \in Nat /\ granted[x] \in Nat /\ granted'[x] >= granted[x]
    <3>1. \A x \in Microsoft : granted[x] \in Tokens /\ granted[x] \in Nat
      BY ThreadFacts DEF SignInTypeOK, TokenTypes
    <3>2. \A x \in Microsoft : granted'[x] = IF x = m THEN granted[m] + 1 ELSE granted[x]
      BY <2>3 DEF SignInTypeOK, TokenTypes
    <3> QED
      BY <2>2, <3>1, <3>2
  <2>7. TokenTypes'
    <3>1. granted' \in [Microsoft -> Tokens]
      BY <2>3, <2>6 DEF SignInTypeOK, TokenTypes
    <3>2. \A x \in Microsoft : cache[x] \in Nat /\ revoked[x] \in Nat
      BY ThreadFacts DEF SignInTypeOK, TokenTypes
    <3> QED
      BY <2>3, <2>6, <3>1, <3>2 DEF SignInTypeOK, TokenTypes
  <2>8. ConnTypes'
    <3>1. \A u \in Threads : conn[u].held \in Nat
      BY ThreadFacts DEF SignInTypeOK, ConnTypes, Connections
    <3> QED
      BY <2>3, <2>6, <3>1 DEF SignInTypeOK, ConnTypes, Holds
  <2>9. SignInTypeOK'
    BY <2>3, <2>4, <2>7, <2>8 DEF SignInTypeOK, FlowTypes
  <2>10. Consents'
    <3>1. \A x \in Microsoft : kept'[x] <= granted'[x]
      <4>1. \A x \in Microsoft : kept[x] \in Nat
        BY ThreadFacts DEF SignInTypeOK, TokenTypes
      <4> QED
        BY <2>3, <2>6, <4>1 DEF Consents
    <3>2. login'[t].acct = m /\ login'[t].held = granted'[m]
      BY <2>1, <2>3, <2>4 DEF Login, SignInTypeOK, TokenTypes
    <3>3. ASSUME NEW u \in Logins, u # t, InProgress(u)
          PROVE  login[u].held <= granted'[login[u].acct]
      <4>1. login[u].held \in Nat /\ login[u].acct \in Microsoft
        BY <3>3, ThreadFacts DEF SignInTypeOK, LoginTypes, LoginStates
      <4> QED
        BY <2>6, <3>3, <4>1 DEF Consents
    <3> QED
      BY <2>1, <2>4, <2>6, <3>1, <3>2, <3>3 DEF Consents, InProgress
  <2>11. SignedInStays'
    BY <2>3 DEF SignedInStays, Live
  <2>12. Writes'
    <3>1. login'[t].acct = m /\ login'[t].held = granted[m] + 1
      BY <2>4 DEF Login
    <3>2. revoked[m] \in Nat /\ revoked[m] <= granted[m]
      BY <2>1, ThreadFacts DEF SignInTypeOK, TokenTypes
    <3>3. revoked' = revoked
      BY <2>3
    <3>4. Live(m, login'[t].held)
      BY <2>2, <3>1, <3>2 DEF Live
    <3> QED
      BY <2>3, <2>4, <3>1, <3>4, WritesStay
  <2> QED
    BY <2>3, <2>5, <2>9, <2>10, <2>11, <2>12 DEF OthersStay
<1>10. CASE PersistLogin(t)
  <2> DEFINE m == login[t].acct
  <2>1. InProgress(t) /\ m \in Microsoft /\ m \in Accounts /\ login[t].held <= granted[m]
    BY <1>1, <1>2, <1>10 DEF PersistLogin, Consents
  <2>2. /\ UNCHANGED <<granted, revoked, flow, crossed, health, troubles>>
        /\ cache' = [cache EXCEPT ![m] = login[t].held]
        /\ kept' = [kept EXCEPT ![m] = IF @ < login[t].held THEN login[t].held ELSE @]
        /\ exposed' = [exposed EXCEPT ![m] = @ /\ \E token \in Unwritten(m) : ~Live(m, token)]
    BY <1>10 DEF PersistLogin, NoTrouble
  <2>3. TokenTypes'
    <3>1. kept[m] \in Tokens /\ kept' \in [Microsoft -> Tokens]
      BY <1>3, <2>1, <2>2 DEF SignInTypeOK, TokenTypes
    <3>2. exposed' \in [Microsoft -> BOOLEAN]
      <4>1. (exposed[m] /\ \E token \in Unwritten(m) : ~Live(m, token)) \in BOOLEAN
        OBVIOUS
      <4> QED
        BY <2>2, <4>1 DEF SignInTypeOK, TokenTypes
    <3> QED
      BY <1>3, <2>1, <2>2, <3>1, <3>2, ThreadFacts DEF SignInTypeOK, TokenTypes
\* What stays about to be written works, unless a revocation still taints it.
  <2>4. ASSUME NEW x \in Microsoft, ~exposed'[x], NEW token \in Unwritten(x),
               ~exposed[x] => Live(x, token)
        PROVE  Live(x, token)
    BY <2>2, <2>4 DEF SignInTypeOK, TokenTypes
  <2>11. /\ \A u \in Threads : conn[u].pc = "persist" => conn[u].acct \in Microsoft
         /\ \A u \in Logins : login[u].pc = "persist" => login[u].acct \in Microsoft
    BY DEF SignInTypeOK, ConnTypes, Holds, LoginTypes, InProgress
  <2>12. /\ \A u \in Threads : conn[u].pc = "persist" /\ ~exposed'[conn[u].acct] =>
               Live(conn[u].acct, conn[u].held)
         /\ \A u \in Logins : login[u].pc = "persist" /\ ~exposed'[login[u].acct] =>
               Live(login[u].acct, login[u].held)
    BY <2>4, <2>11, Unwrittens DEF Writes
  <2>13. SignedInStays'
    <3> SUFFICES ASSUME NEW x \in Microsoft, kept'[x] > revoked[x], ~exposed'[x]
                 PROVE  cache'[x] > revoked[x]
      BY <2>2 DEF SignedInStays, Live
    <3>1. CASE x = m
      <4>1. Live(m, login[t].held)
        BY <1>10, <2>12, <3>1 DEF PersistLogin
      <4> QED
        BY <2>1, <2>2, <3>1, <4>1 DEF Live, SignInTypeOK, TokenTypes
    <3>2. CASE x # m
      BY <2>2, <3>2 DEF SignedInStays, Live, SignInTypeOK, TokenTypes
    <3> QED
      BY <3>1, <3>2
  <2>14. ASSUME \A u \in Threads : conn'[u].pc = "persist" => conn'[u] = conn[u],
                \A u \in Logins : login'[u].pc = "persist" => login'[u] = login[u]
         PROVE  Writes'
    BY <2>2, <2>12, <2>14 DEF Writes, Live
  <2>5. \A x \in Microsoft : kept'[x] <= granted'[x]
    BY <2>1, <2>2 DEF Consents, SignInTypeOK, TokenTypes
  <2>6. CASE t \in Board
    <3>1. /\ LoginTypes' /\ login'[t] = Login(t, "probe", login[t].held, TRUE)
          /\ \A u \in Logins \ {t} : login'[u] = login[u]
      <4>1. Moved(t, "probe", login[t].held, TRUE)
        BY <1>10, <2>6 DEF PersistLogin, Moved
      <4> QED
        BY <1>3, <2>1, <4>1, LoginMoves DEF SignInTypeOK
    <3>2. Flows'
      BY <1>3, <1>10, <2>1, <2>2, <3>1, FlowsMove DEF PersistLogin, SignInTypeOK
    <3>3. conn' = [conn EXCEPT ![t] = Opening(m, 1)]
      BY <1>10, <2>6 DEF PersistLogin
    <3>4. ConnTypes'
      <4>1. Opening(m, 1) \in Connections /\ Holds(Opening(m, 1))
        <5>1. 1 \in 0..1 /\ FALSE \in BOOLEAN /\ "open" \in {"open", "ok", "failed"}
          OBVIOUS
        <5> QED
          BY <2>1, <5>1, OpeningTypes DEF Opening
      <4> QED
        BY <1>1, <2>2, <3>3, <4>1, ConnectionTypes DEF SignInTypeOK
    <3>5. SignInTypeOK' /\ OthersStay(t)
      BY <2>2, <2>3, <3>1, <3>3, <3>4 DEF SignInTypeOK, FlowTypes, OthersStay, ConnTypes
    <3>6. Consents'
      <4>1. login'[t].acct = m /\ login'[t].held = login[t].held
        BY <3>1 DEF Login
      <4> QED
        BY <2>1, <2>2, <2>5, <3>1, <4>1 DEF Consents, InProgress
    <3>7. Writes'
      <4>1. login'[t].pc = "probe" /\ conn'[t].pc = "open"
        BY <1>1, <3>1, <3>3 DEF Login, Opening, Fresh, SignInTypeOK, ConnTypes
      <4> QED
        BY <2>14, <3>1, <3>5, <4>1 DEF OthersStay
    <3> QED
      BY <2>13, <3>2, <3>5, <3>6, <3>7
  <2>7. CASE t \notin Board
    <3>1. Ends(t) /\ UNCHANGED conn
      BY <1>10, <2>7 DEF PersistLogin
    <3>2. /\ LoginTypes' /\ login'[t] = NoLogin
          /\ \A u \in Logins \ {t} : login'[u] = login[u]
      BY <3>1, EndTypes DEF SignInTypeOK
    <3>3. Flows'
      BY <2>1, <2>2, <2>7, <3>1, FlowsEnd DEF Tell, SignInTypeOK
    <3>4. SignInTypeOK' /\ OthersStay(t)
      BY <2>2, <2>3, <3>1, <3>2 DEF SignInTypeOK, FlowTypes, OthersStay, ConnTypes, Holds
    <3>5. Consents'
      BY <2>2, <2>5, <3>2, NewLoginTypes DEF Consents, InProgress
    <3>6. Writes'
      BY <2>14, <3>1, <3>2, NewLoginTypes
    <3> QED
      BY <2>13, <3>3, <3>4, <3>5, <3>6
  <2> QED
    BY <2>6, <2>7
<1>11. CASE ProbeEnds(t)
  <2>1. InProgress(t) /\ login[t].acct \in Microsoft /\ login[t].acct \in Accounts
    BY <1>1, <1>2, <1>11 DEF ProbeEnds
  <2>2. /\ UNCHANGED <<granted, revoked, cache, kept, exposed, flow, crossed>>
        /\ conn' = [conn EXCEPT ![t] = Off]
        /\ UNCHANGED troubles \/ Trouble
        /\ UNCHANGED health
           \/ (conn[t].pc \in {"ok", "failed"} /\ WriteHealth(login[t].acct, conn[t].pc))
    BY <1>11 DEF ProbeEnds, tokenVars, NoTrouble
  <2>3. /\ LoginTypes' /\ login'[t] = Login(t, "report", login[t].held, login[t].wrote)
        /\ \A u \in Logins \ {t} : login'[u] = login[u]
    <3>1. Moved(t, "report", login[t].held, login[t].wrote)
      BY <1>11 DEF ProbeEnds, Moved
    <3> QED
      BY <1>3, <2>1, <3>1, LoginMoves DEF SignInTypeOK
  <2>4. Flows'
    <3>1. t \in Board => login[t].wrote
      BY <1>11, <2>1 DEF ProbeEnds, Flows
    <3> QED
      BY <1>3, <1>11, <2>1, <2>2, <2>3, <3>1, FlowsMove DEF ProbeEnds, SignInTypeOK
  <2>5. ConnTypes'
    BY <1>1, <2>2, OpeningTypes, ConnectionTypes DEF SignInTypeOK
  <2>6. health' \in [Accounts -> {"none", "ok", "failed"}] /\ troubles' \in 0..MaxTroubles
    BY <2>1, <2>2, SignInAssumption DEF SignInTypeOK, WriteHealth, Trouble
  <2>7. SignInTypeOK' /\ OthersStay(t)
    BY <2>2, <2>3, <2>5, <2>6 DEF SignInTypeOK, TokenTypes, FlowTypes, OthersStay, ConnTypes
  <2>8. Consents'
    <3>1. login'[t].acct = login[t].acct /\ login'[t].held = login[t].held
      BY <2>3 DEF Login
    <3> QED
      BY <2>1, <2>2, <2>3, <3>1 DEF Consents, InProgress
  <2>9. SignedInStays'
    BY <2>2 DEF SignedInStays, Live
  <2>10. Writes'
    <3>1. login'[t].pc = "report" /\ conn'[t].pc = "off"
      BY <1>1, <2>2, <2>3 DEF Login, Off, Fresh, SignInTypeOK, ConnTypes
    <3> QED
      BY <2>2, <2>3, <2>7, <3>1, WritesStay DEF OthersStay
  <2> QED
    BY <2>4, <2>7, <2>8, <2>9, <2>10
<1>12. CASE Connect(t)
  BY <1>1, <1>12, ConnectSteps
<1> QED
  BY <1>5, <1>6, <1>7, <1>8, <1>9, <1>10, <1>11, <1>12 DEF LoginStep

\* The sign-ins do not touch the connections of the loops and of the probe.
LEMMA SignInsSteps ==
    ASSUME SInv, SignIns
    PROVE  SInv' /\ \A t \in Connectors : conn'[t] = conn[t]
<1> USE DEF SInv
\* A login that begins.
<1>1. ASSUME NEW t \in Logins, NEW m \in Microsoft, NEW pc \in {"set", "initiate"},
             login' = [login EXCEPT ![t] = LoginAt(pc, m)], ~InProgress(t), Trouble,
             UNCHANGED <<tokenVars, conn, flow, health>>,
             crossed' \in [Microsoft -> BOOLEAN],
             \A x \in Microsoft : crossed[x] => crossed'[x],
             t \in Board => /\ pc = "set"
                            /\ ~crossed'[m] => \A u \in Board : login[u].acct # m
      PROVE  SInv' /\ UNCHANGED conn
  <2>1. LoginTypes'
    BY <1>1, NewLoginTypes, LoginStateTypes DEF SignInTypeOK
  <2>2. login'[t] = LoginAt(pc, m) /\ \A u \in Logins \ {t} : login'[u] = login[u]
    BY <1>1 DEF SignInTypeOK, LoginTypes
  <2>3. SignInTypeOK'
    BY <1>1, <2>1, SignInAssumption
    DEF SignInTypeOK, tokenVars, TokenTypes, ConnTypes, Holds, FlowTypes, Trouble
  <2>4. Consents'
    <3>1. granted[m] \in Nat
      BY ThreadFacts DEF SignInTypeOK, TokenTypes
    <3> QED
      BY <1>1, <2>2, <3>1, NewLoginTypes DEF Consents, InProgress, tokenVars
  <2>5. SignedInStays'
    BY <1>1 DEF SignedInStays, Live, tokenVars
  <2>6. Flows'
    <3> SUFFICES ASSUME NEW u \in Board, InProgress(u)'
                 PROVE  /\ (login'[u].wrote <=> login'[u].pc \in {"probe", "report"})
                        /\ ~crossed'[login'[u].acct] =>
                             /\ Alone(u)'
                             /\ login'[u].pc # "set" => flow'[login'[u].acct] \in Pending
      BY DEF Flows, Pending
    <3>1. u \in Logins
      BY DEF Logins
    <3>2. CASE u = t
      <4>1. login'[u].pc = "set" /\ ~login'[u].wrote /\ login'[u].acct = m
        BY <1>1, <2>2, <3>2, NewLoginTypes
      <4>2. ~crossed'[m] => Alone(u)'
        BY <1>1, <2>2, <3>2, <4>1 DEF Alone, Logins
      <4> QED
        BY <4>1, <4>2
    <3>3. CASE u # t
      <4>1. login'[u] = login[u] /\ InProgress(u) /\ login[u].acct \in Microsoft
        BY <2>2, <3>1, <3>3 DEF InProgress, SignInTypeOK, LoginTypes
      <4>2. ~crossed'[login[u].acct] => ~crossed[login[u].acct]
        BY <1>1, <4>1
      <4>3. t \in Board /\ ~crossed'[login[u].acct] => login[u].acct # m
        BY <1>1
      <4>4. ~crossed'[login[u].acct] /\ Alone(u) => Alone(u)'
        BY <2>2, <4>1, <4>3, NewLoginTypes DEF Alone, InProgress, Logins
      <4> QED
        BY <1>1, <4>1, <4>2, <4>4 DEF Flows
    <3> QED
      BY <3>2, <3>3
  <2>7. Writes'
    <3>1. login'[t].pc # "persist"
      BY <1>1, <2>2, NewLoginTypes
    <3> QED
      BY <1>1, <2>2, <3>1, WritesStay DEF tokenVars
  <2> QED
    BY <1>1, <2>3, <2>4, <2>5, <2>6, <2>7
<1>2. ASSUME NEW t \in Board, NEW m \in Microsoft, AuthStart(t, m)
      PROVE  SInv' /\ UNCHANGED conn
  <2>1. t \in Logins
    BY DEF Logins
  <2>2. /\ crossed' \in [Microsoft -> BOOLEAN]
        /\ \A x \in Microsoft : crossed[x] => crossed'[x]
        /\ ~crossed'[m] => \A u \in Board : login[u].acct # m
    BY <1>2 DEF AuthStart, SignInTypeOK, FlowTypes
  <2> QED
    BY <1>1, <1>2, <2>1, <2>2 DEF AuthStart
<1>3. ASSUME NEW t \in Terminal, NEW m \in Microsoft, AuthLogin(t, m)
      PROVE  SInv' /\ UNCHANGED conn
  <2>1. t \in Logins /\ t \notin Board
    BY SignInAssumption DEF Logins
  <2>2. crossed' \in [Microsoft -> BOOLEAN] /\ UNCHANGED crossed
    BY <1>3 DEF AuthLogin, SignInTypeOK, FlowTypes
  <2> QED
    BY <1>1, <1>3, <2>1, <2>2 DEF AuthLogin
<1>4. ASSUME NEW m \in Microsoft, AuthStatus(m)
      PROVE  SInv' /\ UNCHANGED conn
  <2>1. /\ flow[m] = "success" /\ flow' = [flow EXCEPT ![m] = "none"]
        /\ UNCHANGED <<tokenVars, conn, login, crossed, health, troubles>>
    BY <1>4 DEF AuthStatus
  <2>2. SignInTypeOK'
    BY <2>1 DEF SignInTypeOK, tokenVars, TokenTypes, ConnTypes, Holds, LoginTypes, InProgress, FlowTypes
  <2>3. Consents' /\ SignedInStays' /\ Writes'
    BY <2>1, WritesStay DEF Consents, SignedInStays, Live, tokenVars, InProgress
  <2>4. Flows'
    BY <2>1 DEF Flows, Alone, InProgress, Pending, SignInTypeOK, LoginTypes, FlowTypes, Logins
  <2> QED
    BY <2>1, <2>2, <2>3, <2>4
<1>5. ASSUME NEW m \in Microsoft, Revoke(m)
      PROVE  SInv' /\ UNCHANGED conn
  <2>1. /\ revoked' = [revoked EXCEPT ![m] = granted[m]] /\ Trouble
        /\ exposed' = [exposed EXCEPT ![m] = @ \/ Unwritten(m) # {}]
        /\ UNCHANGED <<granted, cache, kept, conn, flowVars, health>>
    BY <1>5 DEF Revoke
  <2>2. granted[m] \in Nat /\ kept[m] \in Nat
    BY ThreadFacts DEF SignInTypeOK, TokenTypes
  <2>6. /\ \A x \in Microsoft : ~exposed'[x] => ~exposed[x] /\ (x # m \/ Unwritten(x) = {})
        /\ exposed' \in [Microsoft -> BOOLEAN]
    <3>1. (exposed[m] \/ Unwritten(m) # {}) \in BOOLEAN
      BY DEF SignInTypeOK, TokenTypes
    <3> QED
      BY <2>1, <3>1 DEF SignInTypeOK, TokenTypes
  <2>3. SignInTypeOK'
    BY <2>1, <2>2, <2>6, SignInAssumption
    DEF SignInTypeOK, TokenTypes, ConnTypes, Holds, LoginTypes, InProgress, FlowTypes, flowVars, Trouble
  <2>4. Consents' /\ Flows'
    BY <2>1 DEF Consents, Flows, Alone, InProgress, flowVars, Pending
  <2>5. SignedInStays'
    BY <2>1, <2>2, <2>6 DEF SignedInStays, Live, Consents, SignInTypeOK, TokenTypes
  <2>7. Writes'
    <3>1. /\ \A u \in Threads : conn[u].pc = "persist" => conn[u].acct \in Microsoft
          /\ \A u \in Logins : login[u].pc = "persist" => login[u].acct \in Microsoft
      BY DEF SignInTypeOK, ConnTypes, Holds, LoginTypes, InProgress
    <3>2. \A x \in Microsoft : x # m => revoked'[x] = revoked[x]
      BY <2>1 DEF SignInTypeOK, TokenTypes
    <3>3. conn' = conn /\ login' = login
      BY <2>1 DEF flowVars
    <3>4. ASSUME NEW u \in Threads, conn[u].pc = "persist", ~exposed'[conn[u].acct]
          PROVE  conn[u].held > revoked'[conn[u].acct]
      BY <2>6, <3>1, <3>2, <3>4, Unwrittens DEF Writes, Live
    <3>5. ASSUME NEW u \in Logins, login[u].pc = "persist", ~exposed'[login[u].acct]
          PROVE  login[u].held > revoked'[login[u].acct]
      BY <2>6, <3>1, <3>2, <3>5, Unwrittens DEF Writes, Live
    <3> QED
      BY <3>3, <3>4, <3>5 DEF Writes, Live
  <2> QED
    BY <2>1, <2>3, <2>4, <2>5, <2>7
<1>6. ASSUME NEW t \in Logins, LoginStep(t)
      PROVE  SInv' /\ \A u \in Connectors : conn'[u] = conn[u]
  BY <1>6, LoginSteps, ThreadFacts DEF OthersStay
<1> QED
  BY <1>2, <1>3, <1>4, <1>5, <1>6 DEF SignIns

\* What the loops leave alone unless they say so.
LEMMA SignInStays ==
    ASSUME SInv, UNCHANGED <<tokenVars, flowVars>>, ConnTypes',
           \A t \in Threads : conn'[t].pc = "persist" => conn'[t] = conn[t],
           health' \in [Accounts -> {"none", "ok", "failed"}],
           UNCHANGED troubles \/ Trouble
    PROVE  SInv'
<1>1. SignInTypeOK'
  BY SignInAssumption
  DEF SInv, SignInTypeOK, tokenVars, TokenTypes, flowVars, LoginTypes, InProgress, FlowTypes, Trouble
<1>2. Consents' /\ SignedInStays' /\ Flows'
  BY DEF SInv, Consents, SignedInStays, Flows, Alone, InProgress, Live, Pending, tokenVars, flowVars
<1>3. Writes'
  BY WritesStay DEF SInv, tokenVars, flowVars
<1> QED
  BY <1>1, <1>2, <1>3 DEF SInv

-----------------------------------------------------------------------------
(* What the loops keep.                                                    *)

\* A connector that turns to other work, or none.
LEMMA AtTypes ==
    ASSUME JobTypes, NEW t \in Connectors,
           NEW pc \in {"down", "idle", "probe", "reload", "cycle", "off"},
           NEW todo \in SUBSET Accounts, At(t, pc, todo),
           (todo # {}) <=> (pc \in {"probe", "cycle"}),
           \A u \in Connectors \ {t} : conn'[u] = conn[u],
           conn'[t].pc # "off" => conn'[t].acct \in todo
    PROVE  JobTypes'
BY DEF JobTypes, JobStates, At, Working

LEMMA IdleAtRest ==
    ASSUME JobTypes, NEW t \in Connectors, job[t].pc \notin {"probe", "cycle"}
    PROVE  conn[t].pc = "off"
BY DEF JobTypes, JobStates, Working

LEMMA MergedTypes ==
    ASSUME FileTypes, NEW f \in Configurations
    PROVE  Merged(f) \in [Accounts -> Entry]
BY DEF FileTypes, Merged, Configurations

LEMMA ActiveTypes == \A a, pick : Active(a, pick) \subseteq Accounts
BY DEF Active

LEMMA StartTypes == IInv /\ Start => IInv'
<1> SUFFICES ASSUME IInv, Start PROVE IInv'
  OBVIOUS
<1> USE DEF IInv, TypeOK
<1>1. UNCHANGED signInVars /\ UNCHANGED <<deployed, file, stored, only>>
  BY DEF Start
<1>2. SInv'
  BY <1>1, SignInStays DEF SInv, SignInTypeOK, signInVars, ConnTypes, Holds, tokenVars
<1>3. Watch \in Connectors /\ conn[Watch].pc = "off" /\ conn' = conn
  BY <1>1, WatchAssumption, IdleAtRest DEF Start, Loops, signInVars
<1>4. file \in Configurations
  BY DEF Start, FileTypes
<1>5. FileTypes'
  BY <1>1, <1>4, MergedTypes DEF Start, FileTypes, ToIdle
<1>6. JobTypes'
  BY <1>3, AtTypes, ActiveTypes DEF Start, ToIdle
<1> QED
  BY <1>2, <1>5, <1>6 DEF SInv

LEMMA IdleTypes == IInv /\ Idle => IInv'
<1> SUFFICES ASSUME IInv, Idle PROVE IInv'
  OBVIOUS
<1> USE DEF IInv, TypeOK
<1>1. UNCHANGED signInVars /\ UNCHANGED <<deployed, file, stored, only, picked>>
  BY DEF Idle
<1>2. SInv'
  BY <1>1, SignInStays DEF SInv, SignInTypeOK, signInVars, ConnTypes, Holds, tokenVars
<1>3. Watch \in Connectors /\ conn[Watch].pc = "off" /\ conn' = conn
  BY <1>1, WatchAssumption, IdleAtRest DEF Idle, Loops, signInVars
<1>4. file \in Configurations
  BY DEF Idle, FileTypes
<1>5. FileTypes'
  BY <1>1, <1>4, MergedTypes DEF Idle, FileTypes
<1>6. JobTypes'
  BY <1>3, AtTypes, ActiveTypes DEF Idle
<1> QED
  BY <1>2, <1>5, <1>6 DEF SInv

LEMMA ReloadTypes == IInv /\ Reload => IInv'
<1> SUFFICES ASSUME IInv, Reload PROVE IInv'
  OBVIOUS
<1> USE DEF IInv, TypeOK
<1>1. UNCHANGED signInVars /\ UNCHANGED <<deployed, file, stored, only>>
  BY DEF Reload
<1>2. SInv'
  BY <1>1, SignInStays DEF SInv, SignInTypeOK, signInVars, ConnTypes, Holds, tokenVars
<1>3. Watch \in Connectors /\ Watch \in Loops /\ conn[Watch].pc = "off" /\ conn' = conn
  BY <1>1, WatchAssumption, IdleAtRest DEF Reload, Loops, signInVars
<1>4. Reloaded(snap[Watch]) \in [Accounts -> Entry]
  BY <1>3, MergedTypes DEF Reloaded, FileTypes
<1>5. FileTypes'
  BY <1>1, <1>4 DEF Reload, FileTypes, ToIdle
<1>6. JobTypes'
  BY <1>3, AtTypes, ActiveTypes DEF Reload, ToIdle
<1> QED
  BY <1>2, <1>5, <1>6 DEF SInv

LEMMA ServeStartsTypes == IInv /\ ServeStarts => IInv'
<1> SUFFICES ASSUME IInv, ServeStarts PROVE IInv'
  OBVIOUS
<1> USE DEF IInv, TypeOK
<1>1. UNCHANGED signInVars /\ UNCHANGED <<deployed, file, only, picked>>
  BY DEF ServeStarts
<1>2. SInv'
  BY <1>1, SignInStays DEF SInv, SignInTypeOK, signInVars, ConnTypes, Holds, tokenVars
<1>3. Serve \in Connectors /\ Serve \in Loops /\ conn[Serve].pc = "off" /\ conn' = conn
  BY <1>1, WatchAssumption, IdleAtRest DEF ServeStarts, Loops, signInVars
<1>4. file \in Configurations
  BY DEF ServeStarts, FileTypes
<1>5. stored' \in [Accounts -> Entry]
  BY <1>4, WatchAssumption DEF ServeStarts, FileTypes, Imported
<1>6. FileTypes'
  BY <1>1, <1>4, <1>5, MergedTypes DEF ServeStarts, FileTypes
<1>7. JobTypes'
  BY <1>3, AtTypes DEF ServeStarts
<1> QED
  BY <1>2, <1>6, <1>7 DEF SInv

LEMMA ServeReloadsTypes == IInv /\ ServeReloads => IInv'
<1> SUFFICES ASSUME IInv, ServeReloads PROVE IInv'
  OBVIOUS
<1> USE DEF IInv, TypeOK
<1>1. UNCHANGED signInVars /\ UNCHANGED <<deployed, file, stored, only, picked>>
  BY DEF ServeReloads
<1>2. SInv'
  BY <1>1, SignInStays DEF SInv, SignInTypeOK, signInVars, ConnTypes, Holds, tokenVars
<1>3. Serve \in Connectors /\ Serve \in Loops /\ conn[Serve].pc = "off" /\ conn' = conn
  BY <1>1, WatchAssumption, IdleAtRest DEF ServeReloads, Loops, signInVars
<1>4. Reloaded(snap[Serve]) \in [Accounts -> Entry]
  BY <1>3, MergedTypes DEF Reloaded, FileTypes
<1>5. FileTypes'
  BY <1>1, <1>4 DEF ServeReloads, FileTypes
<1>6. JobTypes'
  <2>1. CASE UNCHANGED job
    BY <1>3, <2>1 DEF JobTypes, Working
  <2>2. CASE ~UNCHANGED job
    BY <1>3, <2>2, AtTypes, ActiveTypes DEF ServeReloads
  <2> QED
    BY <2>1, <2>2
<1> QED
  BY <1>2, <1>5, <1>6 DEF SInv

LEMMA ProbeHealthTypes == IInv /\ ProbeHealth => IInv'
<1> SUFFICES ASSUME IInv, ProbeHealth PROVE IInv'
  OBVIOUS
<1> USE DEF IInv, TypeOK
<1>1. /\ UNCHANGED <<tokenVars, conn, flowVars, health>> /\ Trouble
      /\ UNCHANGED <<deployed, file, stored, only, snap, picked>>
  BY DEF ProbeHealth
<1>2. SInv'
  BY <1>1, SignInStays DEF SInv, SignInTypeOK, ConnTypes, Holds, tokenVars
<1>3. Probe \in Connectors /\ conn[Probe].pc = "off" /\ conn' = conn
  BY <1>1, WatchAssumption, IdleAtRest DEF ProbeHealth
<1>4. FileTypes'
  BY <1>1 DEF FileTypes
<1>5. JobTypes'
  <2>1. PICK known \in (SUBSET Accounts) \ {{}} : At(Probe, "probe", known)
    BY DEF ProbeHealth
  <2>2. known \in SUBSET Accounts /\ (known # {} <=> "probe" \in {"probe", "cycle"})
    OBVIOUS
  <2> QED
    BY <1>3, <2>1, <2>2, AtTypes
<1> QED
  BY <1>2, <1>4, <1>5 DEF SInv

LEMMA TurnTypes == IInv /\ (\E t \in Connectors : Turn(t)) => IInv'
<1> SUFFICES ASSUME IInv, NEW t \in Connectors, Turn(t) PROVE IInv'
  OBVIOUS
<1> USE DEF IInv, TypeOK
<1>1. t \in Threads
  BY ThreadFacts
<1>2. UNCHANGED <<tokenVars, flowVars, health, troubles>> /\ UNCHANGED loopVars
  BY DEF Turn
<1>3. PICK x \in Accounts : NextUp(t, x) /\ conn' = [conn EXCEPT ![t] = Opening(x, Both(t))]
  BY DEF Turn
<1>4. /\ Opening(x, Both(t)) \in Connections /\ Holds(Opening(x, Both(t)))
      /\ Opening(x, Both(t)).acct = x
  <2>1. Both(t) \in 0..1 /\ FALSE \in BOOLEAN /\ "open" \in {"open", "ok", "failed"}
    BY DEF Both
  <2> QED
    BY <2>1, OpeningTypes DEF Opening, Fresh
<1>5. SInv'
  <2>1. ConnTypes'
    BY <1>1, <1>2, <1>3, <1>4, ConnectionTypes DEF SInv, SignInTypeOK, tokenVars
  <2>2. \A u \in Threads : conn'[u].pc = "persist" => conn'[u] = conn[u]
    BY <1>1, <1>3 DEF Opening, Fresh, SInv, SignInTypeOK, ConnTypes
  <2> QED
    BY <1>2, <2>1, <2>2, SignInStays DEF SInv, SignInTypeOK
<1>6. FileTypes'
  BY <1>2 DEF FileTypes, loopVars
<1>7. JobTypes'
  BY <1>1, <1>2, <1>3, <1>4, ThreadFacts
  DEF JobTypes, Working, NextUp, loopVars, SignInTypeOK, ConnTypes
<1> QED
  BY <1>5, <1>6, <1>7 DEF SInv

LEMMA DoneTypes == IInv /\ (\E t \in Connectors : Done(t)) => IInv'
<1> SUFFICES ASSUME IInv, NEW t \in Connectors, Done(t) PROVE IInv'
  OBVIOUS
<1> USE DEF IInv, TypeOK
<1>1. t \in Threads /\ conn[t].pc # "off"
  BY ThreadFacts DEF Done
<1>2. /\ conn' = [conn EXCEPT ![t] = Off] /\ UNCHANGED <<tokenVars, flowVars>>
      /\ UNCHANGED <<deployed, file, stored, only, snap, picked>>
      /\ UNCHANGED troubles \/ Trouble
      /\ UNCHANGED health \/ WriteHealth(conn[t].acct, Verdict(conn[t].pc))
  BY DEF Done, NoTrouble
<1>3. conn'[t] = Off /\ Off.pc = "off" /\ \A u \in Connectors \ {t} : conn'[u] = conn[u]
  BY <1>1, <1>2, ThreadFacts DEF SignInTypeOK, ConnTypes, Off, Fresh
<1>4. SInv'
  <2>1. ConnTypes'
    BY <1>1, <1>2, OpeningTypes, ConnectionTypes DEF SInv, SignInTypeOK, tokenVars
  <2>2. health' \in [Accounts -> {"none", "ok", "failed"}]
    BY <1>1, <1>2 DEF SignInTypeOK, ConnTypes, Holds, WriteHealth, Verdict
  <2>3. \A u \in Threads : conn'[u].pc = "persist" => conn'[u] = conn[u]
    BY <1>1, <1>2 DEF Off, Fresh, SInv, SignInTypeOK, ConnTypes
  <2> QED
    BY <1>2, <2>1, <2>2, <2>3, SignInStays DEF SInv, SignInTypeOK
<1>5. FileTypes'
  BY <1>2 DEF FileTypes
<1>6. JobTypes'
  <2>1. CASE At(t, "off", {})
    BY <1>3, <2>1, AtTypes
  <2>2. CASE Advance(t)
    <3> DEFINE rest == job[t].todo \ {conn[t].acct}
               pc == IF rest = {} THEN AfterLast(t) ELSE job[t].pc
    <3>1. job[t] \in JobStates /\ job[t].pc \in {"probe", "cycle"}
      BY <1>1 DEF JobTypes, Working
    <3>2. rest \in SUBSET Accounts /\ At(t, pc, rest)
      BY <2>2, <3>1 DEF Advance, JobStates
    <3>3. /\ pc \in {"down", "idle", "probe", "reload", "cycle", "off"}
          /\ (rest # {}) <=> (pc \in {"probe", "cycle"})
      BY <3>1 DEF AfterLast
    <3> HIDE DEF rest, pc
    <3> QED
      BY <1>3, <3>2, <3>3, AtTypes
  <2> QED
    BY <2>1, <2>2 DEF Done
<1> QED
  BY <1>4, <1>5, <1>6 DEF SInv

LEMMA ConnectingTypes ==
    IInv /\ (\E t \in Connectors : Connect(t) /\ UNCHANGED loopVars) => IInv'
<1> SUFFICES ASSUME IInv, NEW t \in Connectors, Connect(t), UNCHANGED loopVars PROVE IInv'
  OBVIOUS
<1> USE DEF IInv, TypeOK
<1>1. t \in Threads
  BY ThreadFacts
<1>2. SInv' /\ OthersStay(t)
  BY <1>1, ConnectSteps
<1>3. conn[t].pc # "off" /\ conn'[t].acct = conn[t].acct
  BY <1>1, ConnectTypes DEF SInv, SignInTypeOK
<1>4. FileTypes'
  BY DEF FileTypes, loopVars
<1>5. JobTypes'
  BY <1>2, <1>3, ThreadFacts DEF JobTypes, Working, loopVars, OthersStay
<1> QED
  BY <1>2, <1>4, <1>5 DEF SInv

\* The server takes its logins and its probe with it.
LEMMA DiesTypes == IInv /\ (\E l \in Loops : Dies(l)) => IInv'
<1> SUFFICES ASSUME IInv, NEW l \in Loops, Dies(l) PROVE IInv'
  OBVIOUS
<1> USE DEF IInv, TypeOK
<1>1. /\ UNCHANGED <<tokenVars, crossed, health>> /\ Trouble
      /\ UNCHANGED <<deployed, file, stored, only, snap, picked>>
  BY DEF Dies
<1>2. l \in Connectors /\ l \in Threads /\ Serve # Watch /\ Probe \in Connectors /\ Probe # l
  BY ThreadFacts, WatchAssumption DEF Loops, Serve, Watch, Probe
<1>3. FileTypes'
  BY <1>1 DEF FileTypes
<1>4. Off.pc = "off"
  BY DEF Off, Fresh
<1>5. CASE l = Serve
  <2>1. /\ job' = [job EXCEPT ![l] = [pc |-> "down", todo |-> {}],
                              ![Probe] = [pc |-> "off", todo |-> {}]]
        /\ conn' = [t \in Threads |-> IF t \in {l, Probe} \cup Board THEN Off ELSE conn[t]]
        /\ login' = [t \in Logins |-> IF t \in Board THEN NoLogin ELSE login[t]]
        /\ flow' = [m \in Microsoft |-> "none"]
    BY <1>5 DEF Dies, ForgetLogins
  <2>2. \A t \in Board : ~InProgress(t)'
    BY <2>1, NewLoginTypes DEF InProgress, Logins
  <2>3. ConnTypes'
    BY <1>1, <2>1, OpeningTypes DEF SInv, SignInTypeOK, ConnTypes, Holds, tokenVars
  <2>4. LoginTypes'
    BY <2>1, NewLoginTypes DEF SInv, SignInTypeOK, LoginTypes, InProgress
  <2>5. SignInTypeOK'
    BY <1>1, <2>1, <2>3, <2>4, SignInAssumption
    DEF SInv, SignInTypeOK, TokenTypes, FlowTypes, tokenVars, Trouble
  <2>6. Flows'
    BY <2>2 DEF Flows
  <2>7. Consents' /\ SignedInStays'
    BY <1>1, <2>1, NewLoginTypes DEF SInv, Consents, SignedInStays, Live, InProgress, tokenVars
  <2>9. Writes'
    <3>1. \A t \in Threads : conn'[t].pc = "persist" => conn'[t] = conn[t]
      BY <1>4, <2>1
    <3>2. \A t \in Logins : login'[t].pc = "persist" => login'[t] = login[t]
      BY <2>1, NewLoginTypes
    <3> QED
      BY <1>1, <3>1, <3>2, WritesStay DEF SInv, tokenVars
  <2>8. JobTypes'
    <3>1. \A t \in Connectors : t \notin Board
      BY ThreadFacts DEF Logins
    <3>2. \A t \in Connectors : conn'[t] = IF t \in {l, Probe} THEN Off ELSE conn[t]
      BY <2>1, <3>1, ThreadFacts
    <3>3. /\ job' \in [Connectors -> JobStates]
          /\ job'[l] = [pc |-> "down", todo |-> {}] /\ job'[Probe] = [pc |-> "off", todo |-> {}]
          /\ \A t \in Connectors \ {l, Probe} : job'[t] = job[t]
      BY <1>2, <2>1 DEF JobTypes, JobStates
    <3> QED
      BY <1>2, <1>4, <3>2, <3>3 DEF JobTypes, Working
  <2> QED
    BY <1>3, <2>5, <2>6, <2>7, <2>8, <2>9 DEF SInv
<1>6. CASE l # Serve
  <2>1. At(l, "down", {}) /\ conn' = [conn EXCEPT ![l] = Off] /\ UNCHANGED <<login, flow>>
    BY <1>6 DEF Dies
  <2>2. ConnTypes'
    BY <1>1, <1>2, <2>1, OpeningTypes, ConnectionTypes DEF SInv, SignInTypeOK, tokenVars
  <2>6. \A u \in Threads : conn'[u].pc = "persist" => conn'[u] = conn[u]
    BY <1>2, <1>4, <2>1 DEF SInv, SignInTypeOK, ConnTypes
  <2>3. SInv'
    BY <1>1, <2>1, <2>2, <2>6, SignInStays DEF SInv, SignInTypeOK, flowVars
  <2>4. conn'[l].pc = "off" /\ \A u \in Connectors \ {l} : conn'[u] = conn[u]
    BY <1>2, <1>4, <2>1, ThreadFacts DEF SInv, SignInTypeOK, ConnTypes
  <2>5. JobTypes'
    BY <1>2, <2>1, <2>4, AtTypes
  <2> QED
    BY <1>3, <2>3, <2>5 DEF SInv
<1> QED
  BY <1>5, <1>6

LEMMA EditTypes ==
    IInv /\ (EditFile \/ \E x \in Accounts, e \in {"bare", "full"} : SaveAccount(x, e)) => IInv'
<1> SUFFICES ASSUME IInv, EditFile \/ \E x \in Accounts, e \in {"bare", "full"} : SaveAccount(x, e)
             PROVE  IInv'
  OBVIOUS
<1> USE DEF IInv, TypeOK
<1>1. /\ UNCHANGED <<tokenVars, conn, flowVars, health>> /\ Trouble
      /\ UNCHANGED <<deployed, only, job, snap, picked>>
  BY DEF EditFile, SaveAccount
<1>2. SInv'
  BY <1>1, SignInStays DEF SInv, SignInTypeOK, ConnTypes, Holds, tokenVars
<1>3. FileTypes'
  <2>1. CASE EditFile
    BY <1>1, <2>1, WatchAssumption DEF EditFile, FileTypes
  <2>2. ASSUME NEW x \in Accounts, NEW e \in {"bare", "full"}, SaveAccount(x, e) PROVE FileTypes'
    <3>1. file \in Configurations /\ file' = [file EXCEPT !.has[x] = e]
          /\ stored' = [stored EXCEPT ![x] = e] /\ e \in Entry
      BY <2>2 DEF SaveAccount, FileTypes, Entry
    <3>2. file' = [file EXCEPT !.has = [file.has EXCEPT ![x] = e]]
      BY <3>1
    <3>3. file' \in Configurations
      BY <3>1, <3>2 DEF Configurations
    <3> QED
      BY <1>1, <3>1, <3>3 DEF FileTypes
  <2> QED
    BY <2>1, <2>2
<1>4. JobTypes'
  BY <1>1 DEF JobTypes, Working
<1> QED
  BY <1>2, <1>3, <1>4 DEF SInv

-----------------------------------------------------------------------------
(* The theorems.                                                           *)

LEMMA InitIInv == Init => IInv
<1> SUFFICES ASSUME Init PROVE IInv
  OBVIOUS
<1> USE DEF Init
<1>1. SignInTypeOK
  <2>1. TokenTypes
    <3>1. 0..1 \subseteq Tokens /\ \A n \in 0..1 : n \in Nat
      BY SignInAssumption DEF Tokens
    <3>2. \A m \in Microsoft : granted[m] \in 0..1
      BY DEF SignInInit
    <3>3. granted \in [Microsoft -> Tokens] /\ cache = granted /\ kept = granted
      BY <3>1 DEF SignInInit
    <3>4. revoked \in [Microsoft -> Tokens] /\ \A m \in Microsoft : revoked[m] = 0
      BY ThreadFacts DEF SignInInit
    <3> QED
      BY <3>1, <3>2, <3>3, <3>4 DEF SignInInit, TokenTypes
  <2>2. ConnTypes
    BY OpeningTypes DEF SignInInit, ConnTypes
  <2>3. LoginTypes
    BY NewLoginTypes DEF SignInInit, LoginTypes, InProgress
  <2> QED
    BY <2>1, <2>2, <2>3, SignInAssumption DEF SignInInit, SignInTypeOK, FlowTypes
<1>2. \A t \in Logins : ~InProgress(t)
  BY NewLoginTypes DEF SignInInit, InProgress
<1>3. Consents /\ Flows /\ SignedInStays
  BY <1>2, ThreadFacts DEF SignInInit, Consents, Flows, SignedInStays, Logins
<1>6. Writes
  BY <1>2, ThreadFacts DEF SignInInit, Writes, InProgress, Off, Fresh, NoLogin, LoginAt
<1>4. FileTypes
  BY WatchAssumption DEF FileTypes, Entry
<1>5. JobTypes
  BY ThreadFacts DEF SignInInit, JobTypes, JobStates, Working, Off, Fresh
<1> QED
  BY <1>1, <1>3, <1>4, <1>5, <1>6 DEF IInv, SInv, TypeOK

LEMMA NextIInv == IInv /\ [Next]_vars => IInv'
<1> SUFFICES ASSUME IInv, [Next]_vars PROVE IInv'
  OBVIOUS
<1>1. CASE SignIns /\ UNCHANGED loopVars
  <2>1. SInv' /\ \A t \in Connectors : conn'[t] = conn[t]
    BY <1>1, SignInsSteps DEF IInv
  <2>2. FileTypes' /\ JobTypes'
    BY <1>1, <2>1 DEF IInv, TypeOK, FileTypes, JobTypes, Working, loopVars
  <2> QED
    BY <2>1, <2>2 DEF IInv, TypeOK, SInv
<1>2. CASE Start
  BY <1>2, StartTypes
<1>3. CASE Idle
  BY <1>3, IdleTypes
<1>4. CASE Reload
  BY <1>4, ReloadTypes
<1>5. CASE ServeStarts
  BY <1>5, ServeStartsTypes
<1>6. CASE ServeReloads
  BY <1>6, ServeReloadsTypes
<1>7. CASE ProbeHealth
  BY <1>7, ProbeHealthTypes
<1>8. CASE \E t \in Connectors : ConnectorStep(t)
  BY <1>8, TurnTypes, DoneTypes, ConnectingTypes DEF ConnectorStep
<1>9. CASE \E l \in Loops : Dies(l)
  BY <1>9, DiesTypes
<1>10. CASE EditFile \/ \E x \in Accounts, e \in {"bare", "full"} : SaveAccount(x, e)
  BY <1>10, EditTypes
<1>11. CASE UNCHANGED vars
  BY <1>11 DEF IInv, TypeOK, SInv, SignInTypeOK, TokenTypes, ConnTypes, LoginTypes, FlowTypes,
     Holds, InProgress, Consents, SignedInStays, Writes, Live, Flows, Alone, Pending, FileTypes,
     JobTypes, Working, vars, signInVars, tokenVars, flowVars, loopVars
<1> QED
  BY <1>1, <1>2, <1>3, <1>4, <1>5, <1>6, <1>7, <1>8, <1>9, <1>10, <1>11 DEF Next

LEMMA Invariance == Spec => []IInv
<1> QED
  BY InitIInv, NextIInv, PTL DEF Spec

\* Whatever connections, logins, loops, restarts and edits of the configuration
\* do at once, every one of them holds a token of a consent that was given, and
\* connects to an account that is its turn.
THEOREM TypeCorrect == Spec => []TypeOK
<1>1. IInv => TypeOK
  BY DEF IInv
<1> QED
  BY <1>1, Invariance, PTL

\* A completed login stays in the token file, for any number of connections and
\* logins that load it, refresh it and write it back, in any order: what any of
\* them writes stems from a consent that is not revoked, unless a revocation came
\* between its refresh and its write.
THEOREM LoginsSurvive == Spec => []SignedInStays
<1>1. IInv => SignedInStays
  BY DEF IInv, SInv
<1> QED
  BY <1>1, Invariance, PTL

LEMMA EndsTruly ==
    ASSUME SInv, NEW t \in Board, InProgress(t), login'[t].pc = "off", LoginStep(t),
           ~crossed[login[t].acct]
    PROVE  flow'[login[t].acct] = "success" <=> login[t].wrote
<1> USE DEF SInv
<1> DEFINE m == login[t].acct
<1>1. t \in Logins /\ m \in Microsoft /\ login[t] \in LoginStates
  BY DEF Logins, SignInTypeOK, LoginTypes
<1>2. (login[t].wrote <=> login[t].pc \in {"probe", "report"})
      /\ (login[t].pc # "set" => flow[m] \in Pending)
  BY DEF Flows
<1>3. ~AuthSet(t) /\ ~Consent(t) /\ ~PersistLogin(t) /\ ~ProbeEnds(t) /\ ~Connect(t)
  <2>1. ASSUME NEW pc \in {"initiate", "consent", "persist", "probe", "report"}, NEW held, NEW wrote,
               held \in Tokens, wrote \in BOOLEAN, Moved(t, pc, held, wrote)
        PROVE  FALSE
    <3>1. login'[t] = Login(t, pc, held, wrote)
      BY <1>1, <2>1, LoginMoves DEF SignInTypeOK
    <3> QED
      BY <3>1 DEF Login
  <2>2. login[t].held \in Tokens /\ login[t].wrote \in BOOLEAN
    BY <1>1 DEF LoginStates
  <2>3. ~AuthSet(t)
    <3>1. AuthSet(t) => Moved(t, "initiate", login[t].held, login[t].wrote)
      BY DEF AuthSet, Moved
    <3> QED
      BY <2>1, <2>2, <3>1
  <2>4. ~Consent(t)
    <3>1. Consent(t) => Moved(t, "persist", granted[m] + 1, login[t].wrote)
      BY DEF Consent, Moved
    <3>2. Consent(t) => granted[m] + 1 \in Tokens
      BY <1>1, ThreadFacts DEF Consent, SignInTypeOK, TokenTypes, Tokens
    <3> QED
      BY <2>1, <2>2, <3>1, <3>2
  <2>5. ~PersistLogin(t)
    <3>1. PersistLogin(t) => Moved(t, "probe", login[t].held, TRUE)
      BY DEF PersistLogin, Moved
    <3> QED
      BY <2>1, <2>2, <3>1
  <2>6. ~ProbeEnds(t)
    <3>1. ProbeEnds(t) => Moved(t, "report", login[t].held, login[t].wrote)
      BY DEF ProbeEnds, Moved
    <3> QED
      BY <2>1, <2>2, <3>1
  <2>7. ~Connect(t)
    <3>1. Connect(t) => UNCHANGED login
      BY <1>1, ThreadFacts, ConnectTypes DEF SignInTypeOK, flowVars
    <3> QED
      BY <3>1 DEF InProgress
  <2> QED
    BY <2>3, <2>4, <2>5, <2>6, <2>7
<1>4. CASE Initiate(t)
  <2>1. login[t].pc = "initiate" /\ EndInError(t)
    <3>1. ~Moved(t, "consent", cache[m], login[t].wrote)
      <4>1. cache[m] \in Tokens /\ login[t].wrote \in BOOLEAN
        BY <1>1 DEF SignInTypeOK, TokenTypes, LoginStates
      <4>2. Moved(t, "consent", cache[m], login[t].wrote) => login'[t] = Login(t, "consent", cache[m], login[t].wrote)
        BY <1>1, <4>1, LoginMoves DEF SignInTypeOK
      <4> QED
        BY <4>2 DEF Login
    <3> QED
      BY <1>4, <3>1 DEF Initiate, Moved
  <2> QED
    BY <1>1, <1>2, <2>1 DEF EndInError, Tell, SignInTypeOK, FlowTypes
<1>5. CASE Decline(t)
  BY <1>1, <1>2, <1>5 DEF Decline, EndInError, Tell, SignInTypeOK, FlowTypes
<1>6. CASE Report(t)
  BY <1>1, <1>2, <1>6 DEF Report, Tell, SignInTypeOK, FlowTypes, Pending
<1> QED
  BY <1>3, <1>4, <1>5, <1>6 DEF LoginStep

\* What a login of the board ends with is what it did, for any number of them.
THEOREM FlowsTellTheTruth == Spec => FlowTellsTheTruth
<1> DEFINE Truth ==
      \A t \in Board :
         InProgress(t) /\ login'[t].pc = "off" =>
             LET m == login[t].acct IN
             flow'[m] # "none" /\ ~crossed[m] =>
                 (flow'[m] = "success" <=> login[t].wrote)
<1>1. IInv /\ [Next]_vars => [Truth]_signInVars
  <2> SUFFICES ASSUME IInv, [Next]_vars, NEW t \in Board, InProgress(t), login'[t].pc = "off",
                      flow'[login[t].acct] # "none", ~crossed[login[t].acct]
               PROVE  flow'[login[t].acct] = "success" <=> login[t].wrote
    OBVIOUS
  <2>1. t \in Logins /\ login[t].acct \in Microsoft /\ login[t].pc # "off" /\ login'[t] # login[t]
    BY DEF IInv, SInv, SignInTypeOK, LoginTypes, InProgress, Logins
  <2>2. ASSUME NEW u \in Logins, LoginStep(u) PROVE u = t
    <3>1. Connect(u) => UNCHANGED login
      BY <2>2, ThreadFacts, ConnectTypes DEF IInv, SInv, SignInTypeOK, flowVars
    <3> QED
      BY <2>1, <2>2, <3>1
      DEF LoginStep, AuthSet, Initiate, EndInError, Ends, Consent, Decline, PersistLogin, ProbeEnds,
          Report, IInv, SInv, SignInTypeOK, LoginTypes
  <2>3. ASSUME NEW l \in Loops, Dies(l) PROVE FALSE
    BY <2>1, <2>3 DEF Dies, ForgetLogins
  <2>4. ~UNCHANGED <<login, flow>>
    BY <2>1
  <2>5. SignIns
    <3>1. ~(\E u \in Connectors : ConnectorStep(u))
      BY <2>4, ThreadFacts, ConnectTypes
      DEF ConnectorStep, Turn, Done, flowVars, IInv, SInv, SignInTypeOK
    <3> QED
      BY <2>3, <2>4, <3>1
      DEF Next, vars, signInVars, flowVars, Start, Idle, Reload, ServeStarts, ServeReloads,
          ProbeHealth, EditFile, SaveAccount
  <2>6. ~(\E m \in Microsoft : AuthStatus(m) \/ Revoke(m))
    BY <2>1 DEF AuthStatus, Revoke, flowVars
  <2>7. ~(\E u \in Logins, m \in Microsoft : AuthStart(u, m) \/ AuthLogin(u, m))
    BY <2>1 DEF AuthStart, AuthLogin, InProgress, IInv, SInv, SignInTypeOK, LoginTypes
  <2>8. LoginStep(t)
    BY <2>2, <2>5, <2>6, <2>7 DEF SignIns, Logins
  <2> QED
    BY <2>8, EndsTruly DEF IInv
<1> QED
  BY <1>1, Invariance, PTL DEF Spec, FlowTellsTheTruth
=============================================================================
