---------------------------- MODULE AccessControl ----------------------------
(***************************************************************************)
(* The request path of the secure-data backend: the audit middleware       *)
(* (backend/app/audit/middleware), the token endpoint (api/routes/auth.py),*)
(* authentication of a bearer token and the permission check               *)
(* (backend/app/identity), and the routes behind them.                     *)
(*                                                                         *)
(* Requests are served at the same time.  A request's AuditContext lives   *)
(* in a context variable: steps run in worker threads with a copy of the   *)
(* context, but the object in it is the request's own.  The accounts and   *)
(* the signing secret are read from the configuration; they change only    *)
(* with a restart, which tokens already issued outlive.                    *)
(*                                                                         *)
(* An account is [username, password, principal_id, roles, is_active]; a   *)
(* token, [sub, secret, exp]: who it is for, what it is signed with and    *)
(* when it expires.                                                        *)
(*                                                                         *)
(* A definition named X_Y is the definition X with a plausible bug, Y; no  *)
(* specification uses it.                                                  *)
(***************************************************************************)
EXTENDS Naturals, FiniteSets, BagsExt, PrivacyPolicy

CONSTANTS
  Requests,        \* requests one life of the server serves
  RequestIds,      \* well-formed ids the callers put into X-Request-ID
  Configurations,  \* DEV_AUTH_USERS: sequences of accounts and malformed items
  Malformed,       \* an item, or an id, that is not
  Secrets,         \* JWT signing secrets
  NoSecret,        \* none configured, or an unsupported algorithm
  Logins,          \* [username, password] pairs callers try
  NoToken,         \* no Authorization header
  Garbage,         \* a token this backend never issued
  Lifetime,        \* access_token_expire_minutes, in ticks
  MaxTime,         \* bound: ticks
  MaxRestarts,     \* bound: restarts
  IngestErrors,    \* statuses of the ApiIngestionErrors that occur
  Entities,        \* KYC records a principal may look at
  EmptyId,         \* the empty principal_id
  LongIds,         \* principal_ids of more than 200 characters
  None

ASSUME LifetimeAssumption == Lifetime \in Nat \ {0}
ASSUME BoundsAssumption == MaxTime \in Nat /\ MaxRestarts \in Nat
\* _STATUS_FOR.
ASSUME IngestErrorsAssumption == IngestErrors \subseteq {400, 404, 409, 422, 502, 503, 504}
ASSUME NamesAssumption ==
  /\ NoSecret \notin Secrets
  /\ \A tried \in Logins : tried \notin {NoToken, Garbage, None}
  /\ None \notin 100..599
ASSUME RequestsAssumption == IsFiniteSet(Requests)

VARIABLES
  directory,  \* _provider: place in the configuration |-> account
  secret,     \* settings.jwt_secret_key
  now,
  tokens,     \* tokens issued, whoever holds them
  route,      \* request |-> route
  given,      \* request |-> the credential presented
  request_id, \* request |-> its id
  length,     \* request |-> "long_path": its path, or "long_source": its source id too,
              \* has more than 500 characters
  stage,      \* request |-> what is done for it next
  actor,      \* request |-> AuditContext.actor
  principal,  \* request |-> the account resolved for it
  status,     \* request |-> status of the response; None: an exception
  trail,      \* bag of the audit events written since the start
  restarts

server == <<directory, secret, restarts>>
asked == <<route, given, request_id, length>>
vars == <<server, now, tokens, asked, stage, actor, principal, status, trail>>

\* A resource is named in at most 500 characters.
Lengths == {"short", "long_path", "long_source"}

Routes == {"token", "me", "data_quality", "ingest", "live", "unknown"}

\* What CORSMiddleware answers a preflight with.
PreflightAnswers == {200, 400}

\* The permission a route requires.
Required == [data_quality |-> "DATA_QUALITY_READ", ingest |-> "KYC_INGEST"]
Authenticated == {"me"} \cup DOMAIN Required

-----------------------------------------------------------------------------
\* Items that are no valid record are skipped; the others keep their places.
build_dev_provider_from_config(items) ==
  [i \in {j \in DOMAIN items : items[j] # Malformed} |-> items[i]]

\* The last of the accounts at the given places; the dicts keep the last.
LastOf(places) ==
  LET last == {i \in places : \A j \in places : j <= i}
  IN IF last = {} THEN None ELSE directory[CHOOSE i \in last : TRUE]

get_by_id(id) == LastOf({i \in DOMAIN directory : directory[i].principal_id = id})

\* The account of the username, if the password is its own.
authenticate(login) ==
  LET record == LastOf({i \in DOMAIN directory : directory[i].username = login.username})
  IN IF record # None /\ record.password = login.password THEN record ELSE None

\* No token is issued or read without a secret to sign with.
HasSecret == secret # NoSecret

\* A token is valid before it expires, under the secret it was signed with.
decode_access_token(token) ==
  IF ~HasSecret THEN "AuthConfigError"
  ELSE IF token \in tokens /\ token.secret = secret /\ now < token.exp THEN "valid"
  ELSE "InvalidTokenError"

outcome_for_status(code) ==
  CASE code = None -> "ERROR"
    [] code \in 200..399 -> "SUCCESS"
    [] code \in {401, 403} -> "DENIED"
    [] code \in 400..499 \ {401, 403} -> "FAILURE"
    [] code \in 500..599 -> "ERROR"

\* ApiIngestionService.run: done, an ApiIngestionError of each status, or an
\* exception of another kind.
IngestResults == {200, None} \cup IngestErrors

Event(action, outcome, who, about, id) ==
  [action |-> action, outcome |-> outcome, actor |-> who, about |-> about, request_id |-> id]

\* A caller's id is kept if it is well-formed; another gets an id of its own, which
\* is told by the request.
resolve_request_id(r, incoming) == IF incoming \in RequestIds THEN incoming ELSE r

\* One context for all requests.
current_actor_Shared(r) ==
  IF \E q \in Requests : actor[q] # "anonymous"
  THEN actor[CHOOSE q \in Requests : actor[q] # "anonymous"]
  ELSE "anonymous"

\* The context's actor, for an event that names none.
current_actor(r) == actor[r]

\* A record of the configuration may have any id; a Principal's is not empty and an
\* Actor's not long either: making one of another record raises.
IsPrincipal(record) == record.principal_id # EmptyId
HasActor(record) == IsPrincipal(record) /\ record.principal_id \notin LongIds

\* The actor of an account that can have one, and the context of a request.
actor_from_principal(record) == record.principal_id
set_actor(r, who) == actor' = [actor EXCEPT ![r] = who]

\* AuditService.emit: the trail with one more event.  (What becomes of an event the
\* sink does not take is JsonlAuditSink's matter.)
emit(r, action, outcome, who, about) ==
  BagAdd(trail, Event(action, outcome, who, about, request_id[r]))

\* How the credential of a request is checked.
Mechanism(r) == IF route[r] = "token" THEN "password" ELSE "bearer_token"

-----------------------------------------------------------------------------
NoEvents == [event \in {} |-> 0]

Start(items) ==
  /\ directory = build_dev_provider_from_config(items)
  /\ stage = [r \in Requests |-> "idle"]
  /\ route = [r \in Requests |-> "live"]
  /\ given = [r \in Requests |-> NoToken]
  /\ request_id = [r \in Requests |-> None]
  /\ length = [r \in Requests |-> "short"]
  /\ actor = [r \in Requests |-> "anonymous"]
  /\ principal = [r \in Requests |-> None]
  /\ status = [r \in Requests |-> None]
  /\ trail = NoEvents

Init ==
  /\ \E items \in Configurations : Start(items)
  /\ secret \in Secrets \cup {NoSecret}
  /\ now = 0
  /\ tokens = {}
  /\ restarts = 0

\* What a request for a route does first.
FirstStage(path) ==
  IF path = "token" THEN "login" ELSE IF path \in Authenticated THEN "bearer" ELSE "handle"

\* A request arrives: the middleware sets an anonymous context.
Arrive(r, path, credential, incoming, size) ==
  /\ stage[r] = "idle"
  /\ path = "token" <=> credential \in Logins
  /\ path \in {"live", "unknown"} => credential = NoToken
  /\ size # "short" => path = "ingest" \/ (path = "unknown" /\ size = "long_path")
  /\ route' = [route EXCEPT ![r] = path]
  /\ given' = [given EXCEPT ![r] = credential]
  /\ request_id' = [request_id EXCEPT ![r] = resolve_request_id(r, incoming)]
  /\ length' = [length EXCEPT ![r] = size]
  /\ stage' = [stage EXCEPT ![r] = FirstStage(path)]
  /\ UNCHANGED <<server, now, tokens, actor, principal, status, trail>>

\* A CORS preflight.  CORSMiddleware is added last, so it is outermost, and answers
\* without the audit middleware inside it.
Preflight(r, code) ==
  /\ stage[r] = "idle"
  /\ route' = [route EXCEPT ![r] = "preflight"]
  /\ status' = [status EXCEPT ![r] = code]
  /\ stage' = [stage EXCEPT ![r] = "done"]
  /\ UNCHANGED <<server, now, tokens, given, request_id, length, actor, principal, trail>>

\* The request is answered; the middleware unwinds next.
Respond(r, code) ==
  /\ status' = [status EXCEPT ![r] = code]
  /\ stage' = [stage EXCEPT ![r] = "unwind"]

\* An AUTHENTICATION_FAILED event, and a refusal.
Refuse(r, code, outcome) ==
  /\ trail' = emit(r, "authentication.failed", outcome, current_actor(r), Mechanism(r))
  /\ Respond(r, code)
  /\ UNCHANGED <<server, now, tokens, asked, actor, principal>>

\* Minutes taken for hours.
expires_at_Hours == now + 60 * Lifetime

expires_at == now + Lifetime

\* issue_token: the password is checked ...
Authenticate(r) ==
  /\ stage[r] = "login"
  /\ LET record == authenticate(given[r]) IN
       IF record = None \/ (record # None /\ ~record.is_active)
       THEN Refuse(r, 401, "FAILURE")
       ELSE /\ principal' = [principal EXCEPT ![r] = record]
            /\ stage' = [stage EXCEPT ![r] = "issue"]
            /\ UNCHANGED <<server, now, tokens, asked, actor, status, trail>>

\* A handler raises: nothing of what it was about to set or to tell comes about.
Raise(r) ==
  /\ Respond(r, None)
  /\ UNCHANGED <<server, now, tokens, asked, actor, principal, trail>>

\* ... and a token is issued.  Without an actor to name, the caller does not get it.
Issue(r) ==
  /\ stage[r] = "issue"
  /\ \/ IsPrincipal(principal[r]) /\ ~HasSecret /\ Refuse(r, 503, "ERROR")
     \/ /\ ~IsPrincipal(principal[r]) \/ (HasSecret /\ ~HasActor(principal[r]))
        /\ Raise(r)
     \/ /\ HasSecret /\ HasActor(principal[r])
        /\ tokens' = tokens \cup {[sub |-> principal[r].principal_id, secret |-> secret,
                                  exp |-> expires_at]}
        /\ set_actor(r, actor_from_principal(principal[r]))
        /\ trail' = emit(r, "authentication.succeeded", "SUCCESS",
                         actor_from_principal(principal[r]), Mechanism(r))
        /\ Respond(r, 200)
        /\ UNCHANGED <<server, now, asked, principal>>

\* The account found for a token's subject may act.
Usable_Known(record) == record # None

Usable(record) == IF record = None THEN FALSE ELSE record.is_active

\* get_current_principal.
Bearer(r) ==
  /\ stage[r] = "bearer"
  /\ IF given[r] = NoToken
     THEN Respond(r, 401) /\ UNCHANGED <<server, now, tokens, asked, actor, principal, trail>>
     ELSE CASE decode_access_token(given[r]) = "AuthConfigError" ->
                 Refuse(r, 503, "ERROR")
            [] decode_access_token(given[r]) = "InvalidTokenError" ->
                 Refuse(r, 401, "FAILURE")
            [] decode_access_token(given[r]) = "valid" ->
                 LET record == get_by_id(given[r].sub) IN
                   IF ~Usable(record)
                   THEN Refuse(r, 401, "FAILURE")
                   ELSE IF ~HasActor(record) THEN Raise(r)
                   ELSE /\ principal' = [principal EXCEPT ![r] = record]
                        /\ set_actor(r, actor_from_principal(record))
                        /\ stage' = [stage EXCEPT ![r] =
                             IF route[r] \in DOMAIN Required THEN "authorize" ELSE "handle"]
                        /\ UNCHANGED <<server, now, tokens, asked, status, trail>>

\* require_permission: the decision is audited, then enforced.
Authorize(r) ==
  /\ stage[r] = "authorize"
  /\ LET permission == Required[route[r]]
         allowed == has_permission(principal[r], permission)
     IN /\ trail' = emit(r, IF allowed THEN "authorization.allowed" ELSE "authorization.denied",
                         IF allowed THEN "SUCCESS" ELSE "DENIED",
                         actor_from_principal(principal[r]), permission)
        /\ IF allowed
           THEN stage' = [stage EXCEPT ![r] = "handle"] /\ UNCHANGED status
           ELSE Respond(r, 403)
  /\ UNCHANGED <<server, now, tokens, asked, actor, principal>>

\* The routes that only answer.
Handle(r) ==
  /\ stage[r] = "handle"
  /\ route[r] # "ingest"
  /\ Respond(r, IF route[r] = "unknown" THEN 404 ELSE 200)
  /\ UNCHANGED <<server, now, tokens, asked, actor, principal, trail>>

\* A run begins; naming a source of more than 500 characters raises.
StartIngest(r) ==
  /\ stage[r] = "handle"
  /\ route[r] = "ingest"
  /\ IF length[r] = "long_source"
     THEN Respond(r, None) /\ UNCHANGED trail
     ELSE /\ trail' = emit(r, "ingestion.api.started", "SUCCESS", current_actor(r), "source")
          /\ stage' = [stage EXCEPT ![r] = "ingesting"]
          /\ UNCHANGED status
  /\ UNCHANGED <<server, now, tokens, asked, actor, principal>>

\* The run returns, reports an error, or raises.
EndIngest(r, code) ==
  /\ stage[r] = "ingesting"
  /\ trail' = CASE code = 200 -> emit(r, "ingestion.api.completed", "SUCCESS",
                                      current_actor(r), "source")
                [] code = None -> trail
                [] code \notin {200, None} -> emit(r, "ingestion.api.failed", "FAILURE",
                                                   current_actor(r), "source")
  /\ Respond(r, code)
  /\ UNCHANGED <<server, now, tokens, asked, actor, principal>>

\* The middleware's finally.  Naming a path of more than 500 characters raises
\* before there is an event to emit.
Unwind(r) ==
  /\ stage[r] = "unwind"
  /\ trail' = IF length[r] # "short" THEN trail
              ELSE emit(r, "request.completed", outcome_for_status(status[r]),
                        current_actor(r), route[r])
  /\ stage' = [stage EXCEPT ![r] = "done"]
  /\ UNCHANGED <<server, now, tokens, asked, actor, principal, status>>

Serve(r) ==
  \/ Authenticate(r)
  \/ Issue(r)
  \/ Bearer(r)
  \/ Authorize(r)
  \/ Handle(r)
  \/ StartIngest(r)
  \/ \E code \in IngestResults : EndIngest(r, code)
  \/ Unwind(r)

Tick == now < MaxTime /\ now' = now + 1
        /\ UNCHANGED <<server, tokens, asked, stage, actor, principal, status, trail>>

\* The server is restarted, perhaps with another configuration; requests in
\* progress are lost, tokens are not.
Restart(items, key) ==
  /\ restarts < MaxRestarts
  /\ restarts' = restarts + 1
  /\ directory' = build_dev_provider_from_config(items)
  /\ secret' = key
  /\ stage' = [r \in Requests |-> "idle"]
  /\ route' = [r \in Requests |-> "live"]
  /\ given' = [r \in Requests |-> NoToken]
  /\ request_id' = [r \in Requests |-> None]
  /\ length' = [r \in Requests |-> "short"]
  /\ actor' = [r \in Requests |-> "anonymous"]
  /\ principal' = [r \in Requests |-> None]
  /\ status' = [r \in Requests |-> None]
  /\ trail' = NoEvents
  /\ UNCHANGED <<now, tokens>>

Next ==
  \/ \E r \in {q \in Requests : stage[q] = "idle"}, path \in Routes, size \in Lengths :
       \E credential \in tokens \cup Logins \cup {NoToken, Garbage},
          incoming \in RequestIds \cup {Malformed} :
         Arrive(r, path, credential, incoming, size)
  \/ \E r \in Requests, code \in PreflightAnswers : Preflight(r, code)
  \/ \E r \in Requests : Serve(r)
  \/ Tick
  \/ \E items \in Configurations, key \in Secrets \cup {NoSecret} :
       Restart(items, key)

Spec == Init /\ [][Next]_vars

-----------------------------------------------------------------------------
Accounts ==
  {account \in UNION {{items[i] : i \in DOMAIN items} : items \in Configurations} :
     account # Malformed}
Ids == {account.principal_id : account \in Accounts}
Tokens == [sub : Ids, secret : Secrets, exp : Lifetime..(MaxTime + Lifetime)]
Stages == {"idle", "login", "issue", "bearer", "authorize", "handle", "ingesting",
           "unwind", "done"}

Statuses == IngestResults \cup {401, 403, 404, 503} \cup PreflightAnswers

Typed ==
  /\ directory \in {build_dev_provider_from_config(items) : items \in Configurations}
  /\ secret \in Secrets \cup {NoSecret}
  /\ now \in 0..MaxTime
  /\ tokens \subseteq Tokens
  /\ route \in [Requests -> Routes \cup {"preflight"}]
  /\ given \in [Requests -> Tokens \cup Logins \cup {NoToken, Garbage}]
  /\ request_id \in [Requests -> RequestIds \cup Requests \cup {None}]
  /\ length \in [Requests -> Lengths]
  /\ stage \in [Requests -> Stages]
  /\ actor \in [Requests -> Ids \cup {"anonymous"}]
  /\ principal \in [Requests -> Accounts \cup {None}]
  /\ status \in [Requests -> Statuses]
  /\ restarts \in 0..MaxRestarts

\* A request is past the check of its rights only with an account resolved, and has
\* an answer only when it is through.
Staged(r) ==
  /\ stage[r] \in {"issue", "authorize", "ingesting"} => principal[r] # None
  /\ stage[r] = "handle" /\ route[r] \in Authenticated => principal[r] # None
  /\ stage[r] \notin {"unwind", "done"} => status[r] = None

\* Type invariant.
TypeOK == Typed /\ \A r \in Requests : Staged(r)

\* A protected route is only ever run, and answers 200, for an account the
\* configuration in force still lists, active and with the permission, and for
\* a token the running server's own secret signed: accounts changed since the
\* token was issued count as they are now.
RightsAreCurrent ==
  \A r \in Requests :
    (route[r] \in Authenticated /\ (stage[r] \in {"handle", "ingesting"} \/ status[r] = 200)) =>
      /\ principal[r] # None
      /\ principal[r] \in {directory[i] : i \in DOMAIN directory}
      /\ principal[r].is_active
      /\ given[r].sub = principal[r].principal_id
      /\ given[r].secret = secret
      /\ \A i \in DOMAIN directory :
           directory[i].principal_id = given[r].sub =>
             \E j \in DOMAIN directory : j >= i /\ directory[j] = principal[r]
      /\ route[r] \in DOMAIN Required =>
           Required[route[r]] \in resolve_permissions(principal[r].roles)

\* Who a request turns out to be acting as.
ActsAs(r) == IF principal[r] = None \/ (route[r] = "token" /\ status[r] # 200)
             THEN "anonymous" ELSE principal[r].principal_id

\* The permission on which a request was decided, and whether it then ran.
Decided(r) == route[r] \in DOMAIN Required /\ principal[r] # None /\ stage[r] # "authorize"
Ran(r) ==
  /\ Decided(r) /\ route[r] = "ingest" /\ length[r] # "long_source"
  /\ status[r] # 403 /\ stage[r] # "handle"

\* Requests that end with no event of their own, against docs/audit-logging.md:167-168
\* ("as the request unwinds ... it emits one request.completed event") and :173-177:
\* a path of more than 500 characters cannot be named in one (asgi.py:136), and a
\* preflight never reaches the middleware (main.py:34).
Untold(r) == length[r] # "short" \/ route[r] = "preflight"

Told(r, happened, action, outcome, about) ==
  IF happened THEN {Event(action, outcome, ActsAs(r), about, request_id[r])} ELSE {}

\* The events a request leaves, told from what became of it.
Owed(r) ==
  LET refused == (principal[r] = None \/ route[r] = "token") /\ given[r] # NoToken
      ended == Ran(r) /\ stage[r] # "ingesting"
  IN UNION {
       Told(r, refused /\ status[r] = 401, "authentication.failed", "FAILURE", Mechanism(r)),
       Told(r, refused /\ status[r] = 503, "authentication.failed", "ERROR", Mechanism(r)),
       Told(r, route[r] = "token" /\ status[r] = 200,
            "authentication.succeeded", "SUCCESS", Mechanism(r)),
       Told(r, Decided(r) /\ status[r] = 403,
            "authorization.denied", "DENIED", Required[route[r]]),
       Told(r, Decided(r) /\ status[r] # 403,
            "authorization.allowed", "SUCCESS", Required[route[r]]),
       Told(r, Ran(r), "ingestion.api.started", "SUCCESS", "source"),
       Told(r, ended /\ status[r] = 200, "ingestion.api.completed", "SUCCESS", "source"),
       Told(r, ended /\ status[r] \notin {200, None},
            "ingestion.api.failed", "FAILURE", "source"),
       Told(r, stage[r] = "done" /\ ~Untold(r),
            "request.completed", outcome_for_status(status[r]), route[r])}

\* How often the trail has an event.
Copies(event) == IF event \in DOMAIN trail THEN trail[event] ELSE 0

\* The trail is what became of the requests, no more and no less: every credential
\* presented and rejected, every decision on a permission, every run and, but for
\* the two kinds of request the code loses (Untold), every request that ended,
\* once, and attributed to the account it was made for and to no other request's,
\* however the requests overlap.
TrailTellsWhoDidWhat ==
  \A event \in DOMAIN trail \cup UNION {Owed(r) : r \in Requests} :
    Copies(event) = Cardinality({r \in Requests : event \in Owed(r)})

\* A principal without KYC_VIEW_SENSITIVE is shown no word of a person's name or
\* of an alias in full, unless it is a letter; one with it sees the whole record.
ViewWithinRights ==
  \A r \in Requests, entity \in Entities :
    principal[r] # None =>
      \A field \in {"client_name", "aliases"} :
        \A name \in IF field = "aliases" THEN entity.aliases ELSE {entity.client_name} :
          LET shown == ShownOf(kyc_context_for(principal[r]), field, name, entity)
          IN IF "KYC_VIEW_SENSITIVE" \in resolve_permissions(principal[r].roles)
             THEN \A i \in DOMAIN name : shown[i] = "whole"
             ELSE IsPerson(entity) =>
                    \A i \in DOMAIN name : name[i] = "word" => shown[i] # "whole"
=============================================================================
