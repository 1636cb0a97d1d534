------------------------------- MODULE SignIn -------------------------------
(***************************************************************************)
(* Signing in to a mail server.  A password account logs in; a Microsoft   *)
(* account presents a token from its cache file, which every connection    *)
(* and every device-code login loads, changes and writes back as a whole,  *)
(* in several threads and processes at once.  The device-code logins the   *)
(* board starts report through one dictionary in the server's memory.      *)
(*                                                                         *)
(* A token is the number of the consent it stems from: refreshing replaces *)
(* it by another of the same consent, and revoking kills the tokens of all *)
(* consents so far.                                                        *)
(***************************************************************************)
EXTENDS Naturals, Sequences

CONSTANTS
    Accounts, Microsoft,    \* all accounts, and those that sign in by token
    Connectors,             \* the loops and the probe request
    Board, Terminal,        \* device-code logins: of the board, of a terminal
    MaxConsents,            \* bound on how often consent is given
    MaxTroubles             \* bound on all that is not a step of the program

Logins == Board \cup Terminal
Threads == Connectors \cup Logins
Tokens == 0..MaxConsents    \* 0 is the empty cache

ASSUME SignInAssumption ==
    /\ Microsoft \subseteq Accounts
    /\ Connectors \cap Logins = {} /\ Board \cap Terminal = {}
    /\ MaxConsents \in Nat \ {0} /\ MaxTroubles \in Nat

VARIABLES
    granted, revoked,   \* Microsoft: consents given, and how many are revoked
    cache,              \* the token in the cache file of each account
    conn,               \* the connection each thread is opening
    login,              \* the device-code login each thread is running
    flow,               \* _AUTH_FLOWS; "none" is no entry
    health,             \* the row account_health of each account
    troubles,
    \* History.
    kept,               \* the newest consent a login wrote to the file
    exposed,            \* a revocation met a token about to be written, and no
                        \* login has been written since such tokens were
    crossed             \* two logins of the board ran at once

tokenVars == <<granted, revoked, cache, kept, exposed>>
flowVars == <<login, flow, crossed>>
signInVars == <<tokenVars, conn, flowVars, health, troubles>>

Live(m, token) == token > revoked[m]
Pending == {"prompt", "consent"}

\* No connection, and a new one to account x; left counts the protocols that
\* a probe tries afterwards (IMAP, then SMTP).
Fresh(pc, x, left, bad) ==
    [pc |-> pc, acct |-> x, left |-> left, held |-> 0, forced |-> FALSE, bad |-> bad]
Off == Fresh("off", "none", 0, FALSE)
Opening(x, left) == Fresh("open", x, left, FALSE)
LoginAt(pc, m) == [pc |-> pc, acct |-> m, held |-> 0, wrote |-> FALSE]
NoLogin == LoginAt("off", "none")

SignInInit ==
    /\ granted \in [Microsoft -> 0..1] /\ cache = granted /\ kept = granted
    /\ revoked = [m \in Microsoft |-> 0]
    /\ exposed = [m \in Microsoft |-> FALSE]
    /\ crossed = [m \in Microsoft |-> FALSE]
    /\ conn = [t \in Threads |-> Off]
    /\ login = [t \in Logins |-> NoLogin]
    /\ flow = [m \in Microsoft |-> "none"]
    /\ health = [x \in Accounts |-> "none"]
    /\ troubles = 0

Trouble == troubles < MaxTroubles /\ troubles' = troubles + 1
NoTrouble == UNCHANGED troubles

-----------------------------------------------------------------------------
(* One connection: ImapClient.__enter__ or SmtpClient.__enter__, and       *)
(* probe_account, which tries both.  It ends as "ok", as "failed" (an      *)
(* ImapError or SmtpError) or as "raised" (a ConfigurationError of the     *)
(* token provider or an OSError out of the authentication, which nothing   *)
(* below the caller catches).                                              *)

Goes(t, pc) == conn' = [conn EXCEPT ![t].pc = pc]

\* This protocol is done; the probe goes on to the next whatever came out.
Result(t, bad) ==
    LET c == conn[t] IN
    conn' = [conn EXCEPT ![t] =
        IF c.left > 0 THEN Fresh("open", c.acct, c.left - 1, bad)
        ELSE Fresh(IF bad THEN "failed" ELSE "ok", c.acct, 0, FALSE)]
Passes(t) == Result(t, conn[t].bad)
Fails(t) == Result(t, TRUE)

\* build_msal_app loads the cache file; without an account there is no token.
LoadToken(t, forced) ==
    LET token == cache[conn[t].acct] IN
    conn' = [conn EXCEPT ![t].held = token, ![t].forced = forced,
                         ![t].pc = IF token = 0 THEN "raised" ELSE "acquire"]

Open(t) ==
    /\ conn[t].pc = "open"
    /\ \/ conn[t].acct \in Microsoft /\ LoadToken(t, FALSE) /\ NoTrouble
       \/ conn[t].acct \notin Microsoft /\ Passes(t) /\ NoTrouble
       \/ Fails(t) /\ Trouble
       \/ Goes(t, "raised") /\ Trouble
    /\ UNCHANGED <<tokenVars, flowVars, health>>

\* Mutant: what is written back does not depend on has_state_changed.
AcquireAndSave(t) ==
    LET c == conn[t] IN
    /\ c.pc = "acquire"
    /\ \/ Goes(t, "persist") /\ NoTrouble
       \/ Goes(t, "raised") /\ Trouble
    /\ UNCHANGED <<tokenVars, flowVars, health>>

\* acquire_token_silent: unless it is forced to refresh, it may return the
\* access token in the cache and change nothing.
Acquire(t) ==
    LET c == conn[t] IN
    /\ c.pc = "acquire"
    /\ \/ ~c.forced /\ Goes(t, "present") /\ NoTrouble
       \/ Live(c.acct, c.held) /\ Goes(t, "persist") /\ NoTrouble
       \/ ~Live(c.acct, c.held) /\ Goes(t, "raised") /\ NoTrouble
       \/ Goes(t, "raised") /\ Trouble
    /\ UNCHANGED <<tokenVars, flowVars, health>>

\* The file becomes what this thread read, refreshed: whatever another has
\* written since is gone.
Persist(t) ==
    /\ conn[t].pc = "persist"
    /\ cache' = [cache EXCEPT ![conn[t].acct] = conn[t].held]
    /\ Goes(t, "present")
    /\ UNCHANGED <<granted, revoked, kept, exposed, flowVars, health>>
    /\ NoTrouble

\* A first rejection forces one refresh and a second attempt on a new
\* connection; a second one is final.
Present(t) ==
    LET c == conn[t] IN
    /\ c.pc = "present"
    /\ \/ Live(c.acct, c.held) /\ Passes(t) /\ NoTrouble
       \/ ~Live(c.acct, c.held) /\ ~c.forced /\ LoadToken(t, TRUE) /\ NoTrouble
       \/ ~Live(c.acct, c.held) /\ c.forced /\ Fails(t) /\ NoTrouble
       \/ Trouble /\ (IF c.forced THEN Fails(t) ELSE LoadToken(t, TRUE))
       \/ Trouble /\ Passes(t)      \* a revoked token may serve a while
       \/ Trouble /\ Goes(t, "raised")
    /\ UNCHANGED <<tokenVars, flowVars, health>>

\* A session of SmtpClient is made of the same steps as one of ImapClient.
Connect(t) == Open(t) \/ Acquire(t) \/ Persist(t) \/ Present(t)

\* The health a caller writes that takes every exception for a failure.
Verdict(pc) == IF pc = "ok" THEN "ok" ELSE "failed"
WriteHealth(x, verdict) == health' = [health EXCEPT ![x] = verdict]

-----------------------------------------------------------------------------
(* Device-code logins: handle_auth_start, handle_auth_status and           *)
(* device_code_login; `auth login` in a terminal runs the last alone.      *)

InProgress(t) == login[t].pc # "off"
Ends(t) == login' = [login EXCEPT ![t] = NoLogin]

\* The tokens that connections and logins are about to write.
Unwritten(m) ==
    {conn[t].held : t \in {u \in Threads : conn[u].acct = m /\ conn[u].pc = "persist"}}
    \cup {login[t].held : t \in {u \in Logins : login[u].acct = m /\ login[u].pc = "persist"}}

\* A request finds no flow of the account pending ...
AuthStart(t, m) ==
    /\ t \in Board /\ ~InProgress(t)
    /\ flow[m] \notin Pending
    /\ login' = [login EXCEPT ![t] = LoginAt("set", m)]
    /\ crossed' = [crossed EXCEPT ![m] = @ \/ \E u \in Board : login[u].acct = m]
    /\ Trouble
    /\ UNCHANGED <<tokenVars, conn, flow, health>>

\* ... and then says that one is, and starts its thread.
AuthSet(t) ==
    /\ login[t].pc = "set"
    /\ flow' = [flow EXCEPT ![login[t].acct] = "prompt"]
    /\ login' = [login EXCEPT ![t].pc = "initiate"]
    /\ UNCHANGED <<tokenVars, conn, crossed, health, troubles>>

AuthLogin(t, m) ==
    /\ t \in Terminal /\ ~InProgress(t)
    /\ login' = [login EXCEPT ![t] = LoginAt("initiate", m)]
    /\ Trouble
    /\ UNCHANGED <<tokenVars, conn, flow, crossed, health>>

\* What the board will answer from now on; a terminal prints.
Tell(t, status) ==
    IF t \in Board THEN flow' = [flow EXCEPT ![login[t].acct] = status]
    ELSE UNCHANGED flow

EndInError(t) == Ends(t) /\ Tell(t, "error")

Initiate(t) ==
    /\ login[t].pc = "initiate"
    /\ \/ /\ login' = [login EXCEPT ![t].pc = "consent",
                                    ![t].held = cache[login[t].acct]]
          /\ Tell(t, "consent")
          /\ NoTrouble
       \/ EndInError(t) /\ Trouble
    /\ UNCHANGED <<tokenVars, conn, crossed, health>>

\* The user consents, and the token joins what the thread had loaded ...
Consent(t) ==
    LET m == login[t].acct IN
    /\ login[t].pc = "consent" /\ granted[m] < MaxConsents
    /\ granted' = [granted EXCEPT ![m] = @ + 1]
    /\ login' = [login EXCEPT ![t].held = granted[m] + 1, ![t].pc = "persist"]
    /\ UNCHANGED <<revoked, cache, kept, exposed, conn, flow, crossed, health>>
    /\ NoTrouble

\* ... or refuses, or lets the code expire: nothing is written.
Decline(t) ==
    /\ login[t].pc = "consent"
    /\ EndInError(t)
    /\ UNCHANGED <<tokenVars, conn, crossed, health>>
    /\ NoTrouble

PersistLogin(t) ==
    LET m == login[t].acct IN
    /\ login[t].pc = "persist"
    /\ cache' = [cache EXCEPT ![m] = login[t].held]
    /\ kept' = [kept EXCEPT ![m] = IF @ < login[t].held THEN login[t].held ELSE @]
    /\ exposed' = [exposed EXCEPT ![m] = @ /\ \E token \in Unwritten(m) : ~Live(m, token)]
    /\ IF t \in Board
       THEN /\ login' = [login EXCEPT ![t].pc = "probe", ![t].wrote = TRUE]
            /\ conn' = [conn EXCEPT ![t] = Opening(m, 1)]
       ELSE Ends(t) /\ UNCHANGED conn
    /\ UNCHANGED <<granted, revoked, flow, crossed, health>>
    /\ NoTrouble

\* Mutant: a probe that raises fails the login.
ProbeRaises(t) ==
    /\ login[t].pc = "probe"
    /\ \/ /\ conn[t].pc \in {"ok", "failed"}
          /\ WriteHealth(login[t].acct, conn[t].pc)
          /\ login' = [login EXCEPT ![t].pc = "report"]
          /\ UNCHANGED flow
       \/ conn[t].pc = "raised" /\ EndInError(t) /\ UNCHANGED health
    /\ conn' = [conn EXCEPT ![t] = Off]
    /\ UNCHANGED <<tokenVars, crossed>>
    /\ NoTrouble

\* The probe after a login records what it finds; where it raises, or its row
\* cannot be written, the login goes on all the same.
ProbeEnds(t) ==
    /\ login[t].pc = "probe"
    /\ \/ /\ conn[t].pc \in {"ok", "failed"}
          /\ WriteHealth(login[t].acct, conn[t].pc)
          /\ NoTrouble
       \/ conn[t].pc = "raised" /\ UNCHANGED health /\ NoTrouble
       \/ conn[t].pc \in {"ok", "failed"} /\ UNCHANGED health /\ Trouble
    /\ conn' = [conn EXCEPT ![t] = Off]
    /\ login' = [login EXCEPT ![t].pc = "report"]
    /\ UNCHANGED <<tokenVars, flow, crossed>>

\* The entry may be gone by now: another login of the account has succeeded
\* and was polled.  The KeyError is then reported as a failed login.
Report(t) ==
    /\ login[t].pc = "report"
    /\ Tell(t, IF flow[login[t].acct] = "none" THEN "error" ELSE "success")
    /\ Ends(t)
    /\ UNCHANGED <<tokenVars, conn, crossed, health, troubles>>

\* A poll is told of a success once.
AuthStatus(m) ==
    /\ flow[m] = "success"
    /\ flow' = [flow EXCEPT ![m] = "none"]
    /\ UNCHANGED <<tokenVars, conn, login, crossed, health, troubles>>

LoginStep(t) ==
    AuthSet(t) \/ Initiate(t) \/ Consent(t) \/ Decline(t) \/ PersistLogin(t)
    \/ Connect(t) \/ ProbeEnds(t) \/ Report(t)

\* The user withdraws the consents given so far.
Revoke(m) ==
    /\ revoked[m] < granted[m]
    /\ revoked' = [revoked EXCEPT ![m] = granted[m]]
    /\ exposed' = [exposed EXCEPT ![m] = @ \/ Unwritten(m) # {}]
    /\ Trouble
    /\ UNCHANGED <<granted, cache, kept, conn, flowVars, health>>

\* The server dies: its logins and what it knew of them are gone.
ForgetLogins ==
    /\ login' = [t \in Logins |-> IF t \in Board THEN NoLogin ELSE login[t]]
    /\ flow' = [m \in Microsoft |-> "none"]

-----------------------------------------------------------------------------
(* What the rest of the system may rely on.                                *)

Connections == [pc : {"off", "open", "acquire", "persist", "present", "ok", "failed", "raised"},
                acct : Accounts \cup {"none"}, left : 0..1, held : Tokens,
                forced : BOOLEAN, bad : BOOLEAN]
LoginStates == [pc : {"off", "set", "initiate", "consent", "persist", "probe", "report"},
                acct : Microsoft \cup {"none"}, held : Tokens, wrote : BOOLEAN]

\* A connection past its opening has a token, and no consent is made up.
Holds(c) ==
    /\ c.pc # "off" => c.acct \in Accounts
    /\ c.pc \in {"acquire", "persist", "present"} =>
         c.acct \in Microsoft /\ 0 < c.held /\ c.held <= granted[c.acct]

TokenTypes ==
    /\ granted \in [Microsoft -> Tokens] /\ revoked \in [Microsoft -> Tokens]
    /\ cache \in [Microsoft -> Tokens] /\ kept \in [Microsoft -> Tokens]
    /\ \A m \in Microsoft : cache[m] <= granted[m] /\ revoked[m] <= granted[m]
    /\ exposed \in [Microsoft -> BOOLEAN]
ConnTypes == conn \in [Threads -> Connections] /\ \A t \in Threads : Holds(conn[t])
LoginTypes ==
    /\ login \in [Logins -> LoginStates]
    /\ \A t \in Logins : InProgress(t) => login[t].acct \in Microsoft
FlowTypes ==
    /\ flow \in [Microsoft -> {"none", "success", "error"} \cup Pending]
    /\ crossed \in [Microsoft -> BOOLEAN]

SignInTypeOK ==
    /\ TokenTypes /\ ConnTypes /\ LoginTypes /\ FlowTypes
    /\ health \in [Accounts -> {"none", "ok", "failed"}]
    /\ troubles \in 0..MaxTroubles

\* A login that was completed stays: as long as its consent is not revoked, the
\* file holds a token that works, whichever connections and logins load it and
\* write it back, and however late -- but for a revocation that comes between a
\* refresh and the write of what it returned (oauth2/__init__.py:420-421).
SignedInStays ==
    \A m \in Microsoft :
        Live(m, kept[m]) /\ ~exposed[m] => Live(m, cache[m])

\* What a device-code login of the board ends with is what it did: it is called
\* a success exactly if its token was written -- unless two of the account ran
\* at once and share one entry.
FlowTellsTheTruth ==
    [][\A t \in Board :
         InProgress(t) /\ login'[t].pc = "off" =>
             LET m == login[t].acct IN
             flow'[m] # "none" /\ ~crossed[m] =>
                 (flow'[m] = "success" <=> login[t].wrote)]_signInVars
=============================================================================
