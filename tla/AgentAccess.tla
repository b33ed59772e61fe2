------------------------------ MODULE AgentAccess ------------------------------
(***************************************************************************)
(* Signing in and asking: the login gate of Control (ControlLoginGate.tsx, *)
(* station-auth.ts), the queries of the page (station-api.ts), the session *)
(* a turn is sent in (agent-stream-client.ts, AgentStreamingWorkbench.tsx) *)
(* and the routes of the Control server that answer them                   *)
(* (control-auth.ts, app/api/v1).  The page keeps its token and its        *)
(* session in sessionStorage, which a reload keeps; the server keeps       *)
(* nothing and signs both with a secret that another deployment changes.   *)
(* The station's own API is another service, not in the repository: it     *)
(* answers the queries, and the request for a token that the telemetry and *)
(* the trend make when none is stored (stationAuthClient.js).              *)
(*                                                                         *)
(* The follower of an accepted turn is AgentWorkbench's.                   *)
(***************************************************************************)
EXTENDS Integers

CONSTANTS
  Users,        \* names the panel may be configured with
  Queries,      \* the page's queries that run at once
  ChangeBound,  \* bound: deployments with another secret, and lifetimes of a token passed
  ReloadBound,   \* bound: reloads of the page
  FailBound     \* bound: requests that fail on the way

ASSUME AccessAssumption ==
  /\ Users # {} /\ ChangeBound \in Nat /\ ReloadBound \in Nat /\ FailBound \in Nat

VARIABLES
  server,   \* CONTROL_PANEL_USERNAME, JWT_SECRET, and how many lifetimes have passed
  token,    \* sessionStorage: the access token
  session,  \* sessionStorage: the agent session
  gate,     \* the gate's state, "submitting" while credentials are under way
  query,    \* the queries under way
  boot,     \* bootstrapPromise: the requests for a token under way
  runtime,  \* runtimeBootstrapToken
  ask,      \* the turn under way: how far, its token, and whether it was sent again
  result,   \* how the last turn was answered, and whether it had been sent again
  reloads, fails

accVars ==
  <<server, token, session, gate, query, boot, runtime, ask, result, reloads, fails>>
bootVars == <<boot, runtime>>

None == [user |-> "nobody"]
Answer(status, code) == [status |-> status, code |-> code]
Accepted == Answer(202, "")
Idle == [pc |-> "idle", token |-> None, again |-> FALSE]

-----------------------------------------------------------------------------
(***************************************************************************)
(* The server.                                                             *)
(***************************************************************************)
\* A token names the user and its lifetime, a session the user of the token.
NewToken == server
NewSession(t) == [user |-> t.user, secret |-> server.secret]

\* authenticateControlRequest: a token is taken as it was signed, whoever it names.
Authenticated(t) == t # None /\ t.secret = server.secret /\ t.issued = server.issued

\* authorizeControlSession.
SessionRefusal(t, s) ==
  CASE s.secret # server.secret -> Answer(404, "session_not_found")
    [] s.user # t.user -> Answer(403, "session_forbidden")
    [] OTHER -> Accepted

\* The login route.
LoginAnswer(right) == IF right THEN Answer(200, "ok") ELSE Answer(401, "1001")

\* turnInputSchema: a text of more than 8000 characters is refused.
Malformed(outcome) == outcome = "long"

\* validationErrorResponse.
InvalidInput == Answer(422, "validation_error")

\* unaryCall: StartTurn's errors, with which the promise rejects.
StartErrors == {"invalid", "model", "down"}

\* projectRuntimeStartError.
StartRefusal(failure) ==
  CASE failure = "invalid" -> Answer(400, "runtime_request_invalid")
    [] failure = "model" -> Answer(502, "model_provider_unavailable")
    [] failure = "down" -> Answer(502, "runtime_unavailable")

\* The turns' route: authenticated, authorized, parsed, then started by the Agent Runtime.
TurnAnswer(t, s, outcome) ==
  CASE ~Authenticated(t) -> Answer(401, "auth_invalid")
    [] SessionRefusal(t, s) # Accepted -> SessionRefusal(t, s)
    [] Malformed(outcome) -> InvalidInput
    [] outcome \in StartErrors -> StartRefusal(outcome)
    [] OTHER -> Accepted

\* The server is deployed with another secret, and perhaps another user.
Deploy ==
  /\ server.secret + server.issued < ChangeBound
  /\ \E u \in Users : server' = [server EXCEPT !.user = u, !.secret = @ + 1]
  /\ UNCHANGED <<token, session, gate, query, bootVars, ask, result, reloads, fails>>

\* The lifetime of the tokens passes; sessions have none.
Expire ==
  /\ server.secret + server.issued < ChangeBound
  /\ server' = [server EXCEPT !.issued = @ + 1]
  /\ UNCHANGED <<token, session, gate, query, bootVars, ask, result, reloads, fails>>

-----------------------------------------------------------------------------
(***************************************************************************)
(* The gate.                                                               *)
(***************************************************************************)
\* The page is loaded: the gate's effect has a stored token validated.
LoadPage ==
  /\ reloads < ReloadBound
  /\ reloads' = reloads + 1
  /\ gate' = IF token = None THEN "login" ELSE "checking"
  /\ query' = {} /\ boot' = 0 /\ runtime' = None
  /\ ask' = Idle
  /\ UNCHANGED <<server, token, session, result, fails>>

\* validateStationToken answers: a token that is not valid is removed.
Validated ==
  /\ gate = "checking"
  /\ IF Authenticated(token) THEN gate' = "authenticated" /\ UNCHANGED token
                             ELSE gate' = "login" /\ token' = None
  /\ UNCHANGED <<server, session, query, bootVars, ask, result, reloads, fails>>

\* It fails.
ValidationFails ==
  /\ gate = "checking" /\ fails < FailBound
  /\ fails' = fails + 1
  /\ gate' = "login" /\ token' = None
  /\ UNCHANGED <<server, session, query, bootVars, ask, result, reloads>>

\* The form is submitted, its button disabled.
Submit ==
  /\ gate = "login"
  /\ gate' = "submitting"
  /\ UNCHANGED <<server, token, session, query, bootVars, ask, result, reloads, fails>>

\* authenticateStation answers: the credentials are right or wrong.
LoggedIn ==
  /\ gate = "submitting"
  /\ \E right \in BOOLEAN :
       IF LoginAnswer(right).status = 200
       THEN gate' = "authenticated" /\ token' = NewToken
       ELSE gate' = "login" /\ UNCHANGED token
  /\ UNCHANGED <<server, session, query, bootVars, ask, result, reloads, fails>>

-----------------------------------------------------------------------------
(***************************************************************************)
(* The queries.                                                            *)
(***************************************************************************)
\* fetchStationApi: without a token nothing is sent.
Query(q) ==
  /\ gate = "authenticated" /\ q \notin query /\ token # None
  /\ query' = query \cup {q}
  /\ UNCHANGED <<server, token, session, gate, bootVars, ask, result, reloads, fails>>

\* The station, which has rules of its own, takes the token of a query or refuses it with
\* 401.  That removes the stored token, whichever it is by then; read right after for the
\* second attempt it is not there, so the attempt is never made.
QueryAnswered(q) ==
  /\ q \in query
  /\ query' = query \ {q}
  /\ token' \in {token, None}
  /\ UNCHANGED <<server, session, gate, bootVars, ask, result, reloads, fails>>

\* The tokens the station may hand out: one the Control server takes, or one of its own.
StationTokens == {NewToken, [user |-> "station", secret |-> -1, issued |-> 0]}

\* Mutant: every caller asks for itself, where the code shares one promise.
AskBootstrapEach ==
  /\ gate = "authenticated" /\ token = None /\ runtime = None
  /\ boot < 2
  /\ boot' = boot + 1
  /\ UNCHANGED <<server, token, session, gate, query, runtime, ask, result, reloads, fails>>

\* resolveStationToken, for the telemetry's socket or the trend: with no token stored or
\* kept from before, one is asked for, and whoever comes meanwhile shares the answer.
AskBootstrap ==
  /\ gate = "authenticated" /\ token = None /\ runtime = None
  /\ boot = 0
  /\ boot' = 1
  /\ UNCHANGED <<server, token, session, gate, query, runtime, ask, result, reloads, fails>>

\* A token comes: it is kept and stored, without a look at what is stored by then.
BootstrapAnswered ==
  /\ boot > 0
  /\ boot' = boot - 1
  /\ \E t \in StationTokens : token' = t /\ runtime' = t
  /\ UNCHANGED <<server, session, gate, query, ask, result, reloads, fails>>

\* The request fails, or is answered without a token.
BootstrapFails ==
  /\ boot > 0 /\ fails < FailBound
  /\ boot' = boot - 1 /\ fails' = fails + 1
  /\ UNCHANGED <<server, token, session, gate, query, runtime, ask, result, reloads>>

-----------------------------------------------------------------------------
(***************************************************************************)
(* The turn.                                                               *)
(***************************************************************************)
\* ensureAgentSession: a stored session is taken as it is.
SessionStep(s) == IF s = None THEN "session" ELSE "turn"

\* isStaleSessionError.
IsStaleSessionError(r) == r.status = 404 /\ r.code = "agent_session_not_found"

\* The answer the message is left with.
Final(answer) == [answer |-> answer, again |-> ask.again]

\* runMessage: without a token the message fails at once.
Send ==
  /\ gate = "authenticated" /\ ask.pc = "idle"
  /\ IF token = None
     THEN result' = Final(Answer(0, "no_token")) /\ UNCHANGED ask
     ELSE /\ ask' = [pc |-> SessionStep(session), token |-> token, again |-> FALSE]
          /\ UNCHANGED result
  /\ UNCHANGED <<server, token, session, gate, query, bootVars, reloads, fails>>

\* The sessions' route answers.
SessionAnswered ==
  /\ ask.pc = "session"
  /\ IF Authenticated(ask.token)
     THEN /\ session' = NewSession(ask.token)
          /\ ask' = [ask EXCEPT !.pc = "turn"]
          /\ UNCHANGED result
     ELSE /\ ask' = Idle
          /\ result' = Final(Answer(401, "auth_invalid"))
          /\ UNCHANGED session
  /\ UNCHANGED <<server, token, gate, query, bootVars, reloads, fails>>

\* The turns' route answers; a session it does not know is left once for a new one.
TurnAnswered ==
  /\ ask.pc = "turn"
  /\ \E outcome \in {"started", "long"} \cup StartErrors :
       LET answer == TurnAnswer(ask.token, session, outcome)
       IN /\ outcome # "started" => fails < FailBound
          /\ fails' = IF outcome = "started" THEN fails ELSE fails + 1
          /\ IF IsStaleSessionError(answer) /\ ~ask.again
             THEN /\ session' = None
                  /\ ask' = [ask EXCEPT !.pc = "session", !.again = TRUE]
                  /\ UNCHANGED result
             ELSE /\ ask' = Idle /\ result' = Final(answer)
                  /\ UNCHANGED session
  /\ UNCHANGED <<server, token, gate, query, bootVars, reloads>>

-----------------------------------------------------------------------------
AccInit ==
  /\ \E u \in Users : server = [user |-> u, secret |-> 0, issued |-> 0]
  /\ token = None /\ session = None
  /\ gate = "login"
  /\ query = {} /\ boot = 0 /\ runtime = None
  /\ ask = Idle /\ result = [answer |-> Accepted, again |-> FALSE]
  /\ reloads = 0 /\ fails = 0

AccNext ==
  \/ Deploy \/ Expire \/ LoadPage \/ Validated \/ ValidationFails \/ Submit \/ LoggedIn
  \/ \E q \in Queries : Query(q) \/ QueryAnswered(q)
  \/ AskBootstrap \/ BootstrapAnswered \/ BootstrapFails
  \/ Send \/ SessionAnswered \/ TurnAnswered

AccSpec == AccInit /\ [][AccNext]_accVars

-----------------------------------------------------------------------------
\* A stored token gives way to none but the empty store: neither an answer to the
\* telemetry's request for a token nor a sign-in, however late and in whatever order they
\* come, puts another token where one is stored (stationAuthClient.js, station-auth.ts).
TokenNotReplaced == [][token # None => token' \in {token, None}]_accVars

\* agent-stream-client.test.ts:106: stale sessions are recovered automatically.  A turn
\* whose session the server does not know fails only after a new one was asked for.
StaleSessionRecovered == result.answer.code = "session_not_found" => result.again
=============================================================================
