------------------------- MODULE AccessControlProofs -------------------------
(***************************************************************************)
(* What the request path of the secure-data backend promises, for any      *)
(* configurations, secrets, callers and number of requests: the safety     *)
(* properties of AccessControl.                                            *)
(*                                                                         *)
(* Why they are kept: what a request has come to is told by its stage, its *)
(* rights are those of the directory in force, which changes only with a   *)
(* restart that ends the request, and each step adds to the trail just the *)
(* event it adds to what the request owes.                                 *)
(***************************************************************************)
EXTENDS AccessControl, FiniteSetTheorems, TLAPS

\* What the stage of a request says of it.
Progress(r) ==
  /\ stage[r] = "idle" => route[r] = "live"
  /\ stage[r] # "done" => route[r] # "preflight"
  /\ stage[r] \in {"idle", "login", "bearer"} => principal[r] = None
  /\ stage[r] \notin {"unwind", "done"} => status[r] = None
  /\ stage[r] \in {"login", "issue"} => route[r] = "token"
  /\ stage[r] = "issue" => principal[r] # None
  /\ stage[r] = "bearer" => route[r] \in Authenticated
  /\ stage[r] = "authorize" => route[r] \in DOMAIN Required
  /\ stage[r] = "handle" => route[r] # "token"
  /\ stage[r] = "ingesting" => route[r] = "ingest" /\ length[r] # "long_source"
  /\ route[r] = "token" => given[r] \in Logins
  /\ route[r] \in {"live", "unknown", "preflight"} => principal[r] = None
  /\ (route[r] \in Authenticated /\ stage[r] \in {"authorize", "handle", "ingesting"})
       => principal[r] # None
  /\ actor[r] = ActsAs(r)

\* The account of a request is the one the directory in force has for its token, which
\* the secret in force has signed.
Current(r) ==
  /\ principal[r] \in {directory[i] : i \in DOMAIN directory}
  /\ principal[r].is_active
  /\ given[r].sub = principal[r].principal_id
  /\ given[r].secret = secret
  /\ \A i \in DOMAIN directory :
       directory[i].principal_id = given[r].sub =>
         \E j \in DOMAIN directory : j >= i /\ directory[j] = principal[r]

\* A request that is past a check has passed it.
Entitled(r) ==
  /\ (route[r] \in Authenticated
        /\ (stage[r] \in {"authorize", "handle", "ingesting"} \/ status[r] = 200)) =>
       principal[r] # None /\ Current(r)
  /\ (route[r] \in DOMAIN Required
        /\ (stage[r] \in {"handle", "ingesting"} \/ status[r] = 200)) =>
       Required[route[r]] \in resolve_permissions(principal[r].roles)

\* The trail has each event as often as requests owe it.
Owing(event) == {r \in Requests : event \in Owed(r)}
TrailExact == \A event : Copies(event) = Cardinality(Owing(event))

IInv ==
  /\ Typed
  /\ \A r \in Requests : Progress(r)
  /\ \A r \in Requests : Entitled(r)
  /\ TrailExact

-----------------------------------------------------------------------------
\* The trail, with nothing owed, with nothing new and with one event more.
LEMMA OwingFinite == \A event : IsFiniteSet(Owing(event)) /\ Cardinality(Owing(event)) \in Nat
<1> SUFFICES ASSUME NEW event
             PROVE  IsFiniteSet(Owing(event)) /\ Cardinality(Owing(event)) \in Nat
  OBVIOUS
<1>1. Owing(event) \subseteq Requests
  BY DEF Owing
<1>2. IsFiniteSet(Owing(event))
  BY <1>1, RequestsAssumption, FS_Subset
<1> QED BY <1>2, FS_CardinalityType

LEMMA NothingOwed ==
  ASSUME trail = NoEvents, \A r \in Requests : Owed(r) = {}
  PROVE  TrailExact
<1> SUFFICES ASSUME NEW event PROVE Copies(event) = Cardinality(Owing(event))
  BY DEF TrailExact
<1>1. Owing(event) = {}
  BY DEF Owing
<1>2. Copies(event) = 0
  BY DEF Copies, NoEvents
<1> QED BY <1>1, <1>2, FS_EmptySet

LEMMA NothingNew ==
  ASSUME TrailExact, trail' = trail, \A q \in Requests : Owed(q)' = Owed(q)
  PROVE  TrailExact'
<1>1. ASSUME NEW event PROVE Owing(event)' = Owing(event)
  BY DEF Owing
<1> QED BY <1>1 DEF TrailExact, Copies

LEMMA OneEventMore ==
  ASSUME TrailExact, NEW r \in Requests, NEW new, new \notin Owed(r),
         Owed(r)' = Owed(r) \cup {new},
         \A q \in Requests : q # r => Owed(q)' = Owed(q),
         trail' = BagAdd(trail, new)
  PROVE  TrailExact'
<1> SUFFICES ASSUME NEW event
             PROVE  Copies(event)' = Cardinality(Owing(event)')
  BY DEF TrailExact
<1>1. Copies(event) = Cardinality(Owing(event)) /\ Cardinality(Owing(event)) \in Nat
  BY OwingFinite DEF TrailExact
<1>2. CASE event = new
  <2>1. Owing(event)' = Owing(event) \cup {r} /\ r \notin Owing(event)
    BY <1>2 DEF Owing
  <2>2. IsFiniteSet(Owing(event))
    BY OwingFinite
  <2>3. Cardinality(Owing(event)') = Cardinality(Owing(event)) + 1
    BY <2>1, <2>2, FS_AddElement
  <2>4. Copies(event)' = Copies(event) + 1
    BY <1>1, <1>2 DEF Copies, BagAdd
  <2> QED BY <1>1, <2>3, <2>4
<1>3. CASE event # new
  <2>1. Owing(event)' = Owing(event)
    BY <1>3 DEF Owing
  <2>2. Copies(event)' = Copies(event)
    BY <1>3 DEF Copies, BagAdd
  <2> QED BY <1>1, <2>1, <2>2
<1> QED BY <1>2, <1>3

-----------------------------------------------------------------------------
\* What a request owes, one kind of event after the other.
LEMMA EventAction ==
  ASSUME NEW action, NEW outcome, NEW who, NEW about, NEW id
  PROVE  Event(action, outcome, who, about, id).action = action
BY DEF Event

\* What is known of a request stays, and what it owes, while nothing happens to it.
Alone(q) ==
  /\ route'[q] = route[q] /\ given'[q] = given[q] /\ request_id'[q] = request_id[q]
  /\ length'[q] = length[q] /\ stage'[q] = stage[q] /\ actor'[q] = actor[q]
  /\ principal'[q] = principal[q] /\ status'[q] = status[q]

LEMMA AloneKeeps ==
  ASSUME NEW q \in Requests, Alone(q), UNCHANGED <<directory, secret>>
  PROVE  /\ Owed(q)' = Owed(q)
         /\ Progress(q)' <=> Progress(q)
         /\ Entitled(q)' <=> Entitled(q)
<1>1. ActsAs(q)' = ActsAs(q) /\ (Decided(q)' <=> Decided(q)) /\ (Ran(q)' <=> Ran(q))
      /\ Mechanism(q)' = Mechanism(q)
  BY DEF Alone, ActsAs, Decided, Ran, Mechanism
<1>2. Owed(q)' = Owed(q)
  BY <1>1 DEF Alone, Owed, Told, Untold
<1>3. Progress(q)' <=> Progress(q)
  BY <1>1 DEF Alone, Progress
<1>4. Current(q)' <=> Current(q)
  BY DEF Alone, Current
<1>5. Entitled(q)' <=> Entitled(q)
  BY <1>4 DEF Alone, Entitled
<1> QED BY <1>2, <1>3, <1>5

\* A step of one request, which adds an event to the trail or none.
LEMMA RequestStep ==
  ASSUME IInv, Typed', NEW r \in Requests, UNCHANGED <<directory, secret>>,
         \A q \in Requests : q # r => Alone(q),
         Progress(r)', Entitled(r)',
         \/ trail' = trail /\ Owed(r)' = Owed(r)
         \/ \E new : /\ new \notin Owed(r) /\ Owed(r)' = Owed(r) \cup {new}
                     /\ trail' = BagAdd(trail, new)
  PROVE  IInv'
<1>1. \A q \in Requests : q # r => Owed(q)' = Owed(q) /\ Progress(q)' /\ Entitled(q)'
  BY AloneKeeps DEF IInv
<1>2. TrailExact'
  <2>1. CASE trail' = trail /\ Owed(r)' = Owed(r)
    BY <1>1, <2>1, NothingNew DEF IInv
  <2>2. ASSUME NEW new, new \notin Owed(r), Owed(r)' = Owed(r) \cup {new},
               trail' = BagAdd(trail, new)
        PROVE  TrailExact'
    BY <1>1, <2>2, OneEventMore DEF IInv
  <2> QED BY <2>1, <2>2
<1>3. (\A q \in Requests : Progress(q))' /\ (\A q \in Requests : Entitled(q))'
  BY <1>1
<1> QED BY <1>2, <1>3 DEF IInv

\* Nothing is owed before a permission is decided on or an answer given.
Undecided(r) ==
  /\ status[r] = None
  /\ stage[r] \notin {"done", "ingesting"}
  /\ route[r] \in DOMAIN Required /\ principal[r] # None => stage[r] = "authorize"

LEMMA UndecidedOwes ==
  ASSUME NEW r
  PROVE  /\ Undecided(r) => Owed(r) = {}
         /\ Undecided(r)' => Owed(r)' = {}
<1>1. None \notin {200, 401, 403, 503}
  BY NamesAssumption
<1>2. ASSUME Undecided(r) PROVE Owed(r) = {}
  <2>1. /\ status[r] = None /\ stage[r] \notin {"done", "ingesting"}
        /\ ~Decided(r) /\ ~Ran(r)
    BY <1>2 DEF Undecided, Decided, Ran
  <2> QED BY <1>1, <2>1 DEF Owed, Told
<1>3. ASSUME Undecided(r)' PROVE Owed(r)' = {}
  <2>1. /\ status'[r] = None /\ stage'[r] \notin {"done", "ingesting"}
        /\ ~Decided(r)' /\ ~Ran(r)'
    BY <1>3 DEF Undecided, Decided, Ran
  <2> QED BY <1>1, <2>1 DEF Owed, Told
<1> QED BY <1>2, <1>3

-----------------------------------------------------------------------------
\* What the directory gives.
LEMMA LastOfProperties ==
  ASSUME NEW places \in SUBSET DOMAIN directory, NEW record, record = LastOf(places), record # None
  PROVE  \E i \in places : directory[i] = record /\ \A j \in places : j <= i
BY DEF LastOf

LEMMA DirectoryTyped ==
  ASSUME Typed
  PROVE  \A i \in DOMAIN directory : directory[i] \in Accounts /\ directory[i].principal_id \in Ids
<1> SUFFICES ASSUME NEW i \in DOMAIN directory
             PROVE  directory[i] \in Accounts /\ directory[i].principal_id \in Ids
  OBVIOUS
<1>1. PICK items \in Configurations : directory = build_dev_provider_from_config(items)
  BY DEF Typed
<1>2. i \in DOMAIN items /\ items[i] # Malformed /\ directory[i] = items[i]
  BY <1>1 DEF build_dev_provider_from_config
<1>3. directory[i] \in Accounts
  BY <1>2 DEF Accounts
<1> QED BY <1>3 DEF Ids

-----------------------------------------------------------------------------
LEMMA ArriveKeeps ==
  ASSUME IInv, NEW r \in Requests, NEW path \in Routes, NEW size \in Lengths,
         NEW credential \in tokens \cup Logins \cup {NoToken, Garbage},
         NEW incoming \in RequestIds \cup {Malformed},
         Arrive(r, path, credential, incoming, size)
  PROVE  IInv'
<1>1. /\ Typed /\ stage[r] = "idle" /\ (path = "token" <=> credential \in Logins)
      /\ route' = [route EXCEPT ![r] = path]
      /\ given' = [given EXCEPT ![r] = credential]
      /\ request_id' = [request_id EXCEPT ![r] = resolve_request_id(r, incoming)]
      /\ length' = [length EXCEPT ![r] = size]
      /\ stage' = [stage EXCEPT ![r] = FirstStage(path)]
      /\ UNCHANGED <<server, now, tokens, actor, principal, status, trail>>
  BY DEF IInv, Arrive
<1>2. /\ route \in [Requests -> Routes \cup {"preflight"}] /\ stage \in [Requests -> Stages]
      /\ given \in [Requests -> Tokens \cup Logins \cup {NoToken, Garbage}]
      /\ request_id \in [Requests -> RequestIds \cup Requests \cup {None}]
      /\ length \in [Requests -> Lengths] /\ tokens \subseteq Tokens
  BY <1>1 DEF Typed
<1>3. FirstStage(path) \in {"login", "bearer", "handle"}
  BY DEF FirstStage
<1>4. Typed'
  <2>1. /\ route' \in [Requests -> Routes \cup {"preflight"}] /\ length' \in [Requests -> Lengths]
        /\ given' \in [Requests -> Tokens \cup Logins \cup {NoToken, Garbage}]
    BY <1>1, <1>2
  <2>2. request_id' \in [Requests -> RequestIds \cup Requests \cup {None}]
    BY <1>1, <1>2 DEF resolve_request_id
  <2>3. stage' \in [Requests -> Stages]
    BY <1>1, <1>2, <1>3 DEF Stages
  <2> QED BY <1>1, <2>1, <2>2, <2>3 DEF Typed, server
<1>5. /\ route'[r] = path /\ given'[r] = credential /\ stage'[r] = FirstStage(path)
      /\ \A q \in Requests : q # r => Alone(q)
  BY <1>1, <1>2 DEF Alone
<1>6. status[r] = None /\ principal[r] = None /\ actor[r] = "anonymous"
  BY <1>1 DEF IInv, Progress, ActsAs
<1>7. Progress(r)'
  BY <1>1, <1>3, <1>5, <1>6 DEF Progress, FirstStage, ActsAs, Routes, Authenticated, Required
<1>8. Entitled(r)'
  BY <1>1, <1>3, <1>5, <1>6, NamesAssumption DEF Entitled, FirstStage, Authenticated
<1>9. Undecided(r) /\ Undecided(r)'
  BY <1>1, <1>3, <1>5, <1>6 DEF Undecided
<1> QED BY <1>1, <1>4, <1>5, <1>7, <1>8, <1>9, RequestStep, UndecidedOwes DEF server

\* A credential presented and rejected is told on its own.
LEMMA RefuseKeeps ==
  ASSUME IInv, NEW r \in Requests, stage[r] \in {"login", "issue", "bearer"},
         given[r] # NoToken, NEW code, NEW outcome,
         (code = 401 /\ outcome = "FAILURE") \/ (code = 503 /\ outcome = "ERROR"),
         Refuse(r, code, outcome)
  PROVE  IInv'
<1> PICK new : new = Event("authentication.failed", outcome, "anonymous", Mechanism(r),
                           request_id[r])
  OBVIOUS
<1>1. /\ Typed /\ Progress(r)
      /\ status' = [status EXCEPT ![r] = code] /\ stage' = [stage EXCEPT ![r] = "unwind"]
      /\ UNCHANGED <<server, now, tokens, asked, actor, principal>>
      /\ trail' = emit(r, "authentication.failed", outcome, current_actor(r), Mechanism(r))
  BY DEF IInv, Refuse, Respond
<1>2. /\ status \in [Requests -> Statuses]
      /\ stage \in [Requests -> Stages]
  BY <1>1 DEF Typed
<1>3. Typed'
  <2>1. stage' \in [Requests -> Stages]
    BY <1>1, <1>2 DEF Stages
  <2>2. status' \in [Requests -> Statuses]
    BY <1>1, <1>2 DEF Statuses
  <2> QED BY <1>1, <2>1, <2>2 DEF Typed, server, asked
<1>4. /\ status'[r] = code /\ stage'[r] = "unwind"
      /\ \A q \in Requests : q # r => Alone(q)
  BY <1>1, <1>2 DEF Alone, asked
<1>5. /\ status[r] = None /\ actor[r] = "anonymous" /\ (principal[r] = None \/ route[r] = "token")
      /\ route[r] \in {"token"} \cup Authenticated
      /\ route[r] \in DOMAIN Required => principal[r] = None
  BY <1>1, NamesAssumption DEF Progress, ActsAs, Required
<1>6. Progress(r)'
  <2>1. ActsAs(r)' = "anonymous"
    BY <1>1, <1>4, <1>5 DEF ActsAs, asked
  <2> QED BY <1>1, <1>4, <1>5, <2>1 DEF Progress, asked, Authenticated, Required
<1>7. Entitled(r)'
  BY <1>4 DEF Entitled
<1>8. Owed(r) = {}
  <2>1. Undecided(r)
    BY <1>5 DEF Undecided
  <2> QED BY <2>1, UndecidedOwes
<1>9. Owed(r)' = {new}
  <2>1. ~Decided(r)' /\ ~Ran(r)' /\ ActsAs(r)' = "anonymous" /\ Mechanism(r)' = Mechanism(r)
    BY <1>1, <1>4, <1>5 DEF Decided, Ran, ActsAs, Mechanism, asked
  <2>2. /\ principal'[r] = None \/ route'[r] = "token"
        /\ given'[r] # NoToken /\ request_id'[r] = request_id[r]
    BY <1>1, <1>5 DEF asked
  <2> QED BY <1>4, <2>1, <2>2 DEF Owed, Told
<1>10. trail' = BagAdd(trail, new)
  BY <1>1, <1>5 DEF emit, current_actor
<1> QED BY <1>1, <1>3, <1>4, <1>6, <1>7, <1>8, <1>9, <1>10, RequestStep DEF server

LEMMA AuthenticateKeeps ==
  ASSUME IInv, NEW r \in Requests, Authenticate(r)
  PROVE  IInv'
<1> PICK record : record = authenticate(given[r])
  OBVIOUS
<1>1. Typed /\ Progress(r) /\ stage[r] = "login"
  BY DEF IInv, Authenticate
<1>2. CASE record = None \/ (record # None /\ ~record.is_active)
  <2>1. Refuse(r, 401, "FAILURE")
    BY <1>2 DEF Authenticate
  <2>2. given[r] # NoToken
    BY <1>1, NamesAssumption DEF Progress
  <2> QED BY <1>1, <2>1, <2>2, RefuseKeeps
<1>3. CASE ~(record = None \/ (record # None /\ ~record.is_active))
  <2>1. /\ principal' = [principal EXCEPT ![r] = record]
        /\ stage' = [stage EXCEPT ![r] = "issue"]
        /\ UNCHANGED <<server, now, tokens, asked, actor, status, trail>>
    BY <1>3 DEF Authenticate
  <2>2. record # None /\ record \in Accounts
    <3> PICK places : places = {i \in DOMAIN directory : directory[i].username = given[r].username}
      OBVIOUS
    <3>1. record = LastOf(places) /\ record # None
      BY <1>3 DEF authenticate
    <3>2. \E i \in places : directory[i] = record
      BY <3>1, LastOfProperties
    <3> QED BY <1>1, <3>1, <3>2, DirectoryTyped
  <2>3. principal \in [Requests -> Accounts \cup {None}] /\ stage \in [Requests -> Stages]
    BY <1>1 DEF Typed
  <2>4. Typed'
    <3>1. principal' \in [Requests -> Accounts \cup {None}] /\ stage' \in [Requests -> Stages]
      BY <2>1, <2>2, <2>3 DEF Stages
    <3> QED BY <1>1, <2>1, <3>1 DEF Typed, server, asked
  <2>5. /\ principal'[r] = record /\ stage'[r] = "issue"
        /\ \A q \in Requests : q # r => Alone(q)
    BY <2>1, <2>3 DEF Alone, asked
  <2>6. route[r] = "token" /\ status[r] = None /\ actor[r] = "anonymous"
    BY <1>1 DEF Progress, ActsAs
  <2>7. Progress(r)' /\ Entitled(r)'
    <3>1. ActsAs(r)' = "anonymous"
      BY <2>1, <2>6, NamesAssumption DEF ActsAs, asked
    <3>2. Progress(r)'
      BY <1>1, <2>1, <2>2, <2>5, <2>6, <3>1 DEF Progress, asked
    <3> QED BY <2>1, <2>6, <3>2 DEF Entitled, asked, Authenticated, Required
  <2>8. Undecided(r) /\ Undecided(r)'
    BY <1>1, <2>1, <2>5, <2>6 DEF Undecided, asked, Required
  <2> QED BY <2>1, <2>4, <2>5, <2>7, <2>8, RequestStep, UndecidedOwes DEF server
<1> QED BY <1>2, <1>3

\* What raises answers nothing, and nobody is told of.
LEMMA RaiseKeeps ==
  ASSUME IInv, NEW r \in Requests, stage[r] \in {"issue", "bearer"}, Raise(r)
  PROVE  IInv'
<1>1. /\ Typed /\ Progress(r)
      /\ status' = [status EXCEPT ![r] = None] /\ stage' = [stage EXCEPT ![r] = "unwind"]
      /\ UNCHANGED <<server, now, tokens, asked, actor, principal, trail>>
  BY DEF IInv, Raise, Respond
<1>2. status \in [Requests -> Statuses] /\ stage \in [Requests -> Stages]
  BY <1>1 DEF Typed
<1>3. Typed'
  <2>1. stage' \in [Requests -> Stages]
    BY <1>1, <1>2 DEF Stages
  <2>2. status' \in [Requests -> Statuses]
    BY <1>1, <1>2 DEF IngestResults, Statuses
  <2> QED BY <1>1, <2>1, <2>2 DEF Typed, server, asked
<1>4. /\ status'[r] = None /\ stage'[r] = "unwind"
      /\ \A q \in Requests : q # r => Alone(q)
  BY <1>1, <1>2 DEF Alone, asked
<1>5. /\ status[r] = None /\ (principal[r] = None \/ route[r] = "token")
      /\ route[r] \in DOMAIN Required => principal[r] = None
  BY <1>1 DEF Progress, Required
<1>6. None \notin {200, 401, 403, 503}
  BY NamesAssumption
<1>7. Progress(r)'
  <2>1. ActsAs(r)' = ActsAs(r)
    BY <1>1, <1>4, <1>5 DEF ActsAs, asked
  <2> QED BY <1>1, <1>4, <1>5, <2>1 DEF Progress, asked
<1>8. Entitled(r)'
  BY <1>4, <1>6 DEF Entitled
<1>9. Undecided(r) /\ Undecided(r)'
  BY <1>1, <1>4, <1>5 DEF Undecided, asked
<1> QED BY <1>1, <1>3, <1>4, <1>7, <1>8, <1>9, RequestStep, UndecidedOwes DEF server

LEMMA IssueKeeps ==
  ASSUME IInv, NEW r \in Requests, Issue(r)
  PROVE  IInv'
<1>1. /\ Typed /\ Progress(r) /\ stage[r] = "issue" /\ route[r] = "token" /\ principal[r] # None
      /\ status[r] = None
  BY DEF IInv, Issue, Progress
<1>2. CASE Refuse(r, 503, "ERROR")
  <2>2. given[r] # NoToken
    BY <1>1, NamesAssumption DEF Progress
  <2> QED BY <1>1, <1>2, <2>2, RefuseKeeps
<1>4. CASE Raise(r)
  BY <1>1, <1>4, RaiseKeeps
<1>3. CASE /\ HasSecret
           /\ tokens' = tokens \cup {[sub |-> principal[r].principal_id, secret |-> secret,
                                     exp |-> expires_at]}
           /\ set_actor(r, actor_from_principal(principal[r]))
           /\ trail' = emit(r, "authentication.succeeded", "SUCCESS",
                            actor_from_principal(principal[r]), Mechanism(r))
           /\ Respond(r, 200)
           /\ UNCHANGED <<server, now, asked, principal>>
  <2> PICK who : who = principal[r].principal_id
    OBVIOUS
  <2> PICK new : new = Event("authentication.succeeded", "SUCCESS", who, Mechanism(r), request_id[r])
    OBVIOUS
  <2> PICK token : token = [sub |-> who, secret |-> secret, exp |-> now + Lifetime]
    OBVIOUS
  <2>1. /\ tokens' = tokens \cup {token}
        /\ actor' = [actor EXCEPT ![r] = who]
        /\ status' = [status EXCEPT ![r] = 200] /\ stage' = [stage EXCEPT ![r] = "unwind"]
        /\ trail' = BagAdd(trail, new)
        /\ UNCHANGED <<server, now, asked, principal>>
    BY <1>3 DEF set_actor, actor_from_principal, Respond, expires_at, emit
  <2>2. /\ status \in [Requests -> Statuses]
        /\ stage \in [Requests -> Stages] /\ actor \in [Requests -> Ids \cup {"anonymous"}]
        /\ principal[r] \in Accounts /\ tokens \subseteq Tokens
        /\ secret \in Secrets \cup {NoSecret} /\ now \in 0..MaxTime
    BY <1>1 DEF Typed
  <2>3. who \in Ids
    BY <2>2 DEF Ids
  <2>4. token \in Tokens
    <3>1. now + Lifetime \in Lifetime..(MaxTime + Lifetime)
      BY <2>2, LifetimeAssumption, BoundsAssumption
    <3>2. secret \in Secrets
      BY <1>3, <2>2 DEF HasSecret
    <3> QED BY <2>3, <3>1, <3>2 DEF Tokens
  <2>5. Typed'
    <3>1. stage' \in [Requests -> Stages] /\ actor' \in [Requests -> Ids \cup {"anonymous"}]
      BY <2>1, <2>2, <2>3 DEF Stages
    <3>2. status' \in [Requests -> Statuses]
      BY <2>1, <2>2 DEF IngestResults, Statuses
    <3>3. tokens' \subseteq Tokens
      BY <2>1, <2>2, <2>4
    <3>4. given' \in [Requests -> Tokens \cup Logins \cup {NoToken, Garbage}]
      BY <1>1, <2>1 DEF Typed, asked
    <3> QED BY <1>1, <2>1, <3>1, <3>2, <3>3, <3>4 DEF Typed, server, asked
  <2>6. /\ status'[r] = 200 /\ stage'[r] = "unwind" /\ actor'[r] = who
        /\ \A q \in Requests : q # r => Alone(q)
    BY <2>1, <2>2 DEF Alone, asked
  <2>7. ActsAs(r)' = who
    BY <1>1, <2>1, <2>6 DEF ActsAs, asked
  <2>8. Progress(r)' /\ Entitled(r)'
    <3>1. Progress(r)'
      BY <1>1, <2>1, <2>6, <2>7 DEF Progress, asked
    <3> QED BY <1>1, <2>1, <3>1 DEF Entitled, asked, Authenticated, Required
  <2>9. Owed(r) = {}
    <3>1. Undecided(r)
      BY <1>1 DEF Undecided, Required
    <3> QED BY <3>1, UndecidedOwes
  <2>10. Owed(r)' = {new}
    <3>1. /\ ~Decided(r)' /\ ~Ran(r)' /\ Mechanism(r)' = Mechanism(r)
          /\ route'[r] = "token" /\ request_id'[r] = request_id[r]
      BY <1>1, <2>1 DEF Decided, Ran, Mechanism, asked, Required
    <3> QED BY <2>6, <2>7, <3>1 DEF Owed, Told
  <2> QED BY <2>1, <2>5, <2>6, <2>8, <2>9, <2>10, RequestStep DEF server
<1> QED BY <1>2, <1>3, <1>4 DEF Issue

\* A bearer of a valid token gets the account and the rights it has now.
LEMMA BearerKeeps ==
  ASSUME IInv, NEW r \in Requests, Bearer(r)
  PROVE  IInv'
<1>1. /\ Typed /\ Progress(r) /\ stage[r] = "bearer" /\ route[r] \in Authenticated
      /\ principal[r] = None /\ status[r] = None /\ actor[r] = "anonymous"
  BY DEF IInv, Bearer, Progress, ActsAs
<1> PICK record : record = get_by_id(given[r].sub)
  OBVIOUS
<1>2. CASE given[r] = NoToken
  <2>1. /\ status' = [status EXCEPT ![r] = 401] /\ stage' = [stage EXCEPT ![r] = "unwind"]
        /\ UNCHANGED <<server, now, tokens, asked, actor, principal, trail>>
    BY <1>2 DEF Bearer, Respond
  <2>2. /\ status \in [Requests -> Statuses]
        /\ stage \in [Requests -> Stages]
    BY <1>1 DEF Typed
  <2>3. Typed'
    <3>1. stage' \in [Requests -> Stages]
      BY <2>1, <2>2 DEF Stages
    <3>2. status' \in [Requests -> Statuses]
      BY <2>1, <2>2 DEF Statuses
    <3> QED BY <1>1, <2>1, <3>1, <3>2 DEF Typed, server, asked
  <2>4. /\ status'[r] = 401 /\ stage'[r] = "unwind"
        /\ \A q \in Requests : q # r => Alone(q)
    BY <2>1, <2>2 DEF Alone, asked
  <2>5. Progress(r)' /\ Entitled(r)'
    BY <1>1, <2>1, <2>4 DEF Progress, ActsAs, Entitled, asked, Authenticated, Required
  <2>6. Owed(r) = {}
    <3>1. Undecided(r)
      BY <1>1 DEF Undecided
    <3> QED BY <3>1, UndecidedOwes
  <2>7. Owed(r)' = {}
    <3>1. ~Decided(r)' /\ ~Ran(r)' /\ given'[r] = NoToken /\ route'[r] # "token"
      BY <1>1, <1>2, <2>1 DEF Decided, Ran, asked, Authenticated, Required
    <3> QED BY <2>4, <3>1 DEF Owed, Told
  <2> QED BY <2>1, <2>3, <2>4, <2>5, <2>6, <2>7, RequestStep DEF server
<1>3. CASE given[r] # NoToken /\ decode_access_token(given[r]) = "AuthConfigError"
  <2>1. Refuse(r, 503, "ERROR")
    BY <1>3 DEF Bearer
  <2> QED BY <1>1, <1>3, <2>1, RefuseKeeps
<1>4. CASE \/ given[r] # NoToken /\ decode_access_token(given[r]) = "InvalidTokenError"
           \/ given[r] # NoToken /\ decode_access_token(given[r]) = "valid" /\ ~Usable(record)
  <2>1. Refuse(r, 401, "FAILURE")
    BY <1>4 DEF Bearer
  <2> QED BY <1>1, <1>4, <2>1, RefuseKeeps
<1>6. CASE /\ given[r] # NoToken /\ decode_access_token(given[r]) = "valid" /\ Usable(record)
           /\ ~HasActor(record)
  <2>1. Raise(r)
    BY <1>6 DEF Bearer
  <2> QED BY <1>1, <2>1, RaiseKeeps
<1>5. CASE /\ given[r] # NoToken /\ decode_access_token(given[r]) = "valid" /\ Usable(record)
           /\ HasActor(record)
  <2> PICK next : next = IF route[r] \in DOMAIN Required THEN "authorize" ELSE "handle"
    OBVIOUS
  <2>1. /\ principal' = [principal EXCEPT ![r] = record]
        /\ actor' = [actor EXCEPT ![r] = record.principal_id]
        /\ stage' = [stage EXCEPT ![r] = next]
        /\ UNCHANGED <<server, now, tokens, asked, status, trail>>
    BY <1>5 DEF Bearer, set_actor, actor_from_principal
  <2>2. given[r].secret = secret /\ given[r] \in tokens
    BY <1>5 DEF decode_access_token
  <2>3. record # None /\ record.is_active
    BY <1>5 DEF Usable
  <2>4. PICK i \in DOMAIN directory :
          /\ directory[i] = record /\ directory[i].principal_id = given[r].sub
          /\ \A j \in DOMAIN directory : directory[j].principal_id = given[r].sub => j <= i
    <3> PICK places : places = {i \in DOMAIN directory : directory[i].principal_id = given[r].sub}
      OBVIOUS
    <3>1. record = LastOf(places)
      BY DEF get_by_id
    <3>2. \E i \in places : directory[i] = record /\ \A j \in places : j <= i
      BY <2>3, <3>1, LastOfProperties
    <3> QED BY <3>2
  <2>5. record \in Accounts /\ record.principal_id \in Ids
    BY <1>1, <2>4, DirectoryTyped
  <2>6. /\ principal \in [Requests -> Accounts \cup {None}] /\ stage \in [Requests -> Stages]
        /\ actor \in [Requests -> Ids \cup {"anonymous"}]
    BY <1>1 DEF Typed
  <2>7. Typed'
    <3>1. stage' \in [Requests -> Stages]
      BY <2>1, <2>6 DEF Stages
    <3>2. /\ principal' \in [Requests -> Accounts \cup {None}]
          /\ actor' \in [Requests -> Ids \cup {"anonymous"}]
      BY <2>1, <2>5, <2>6
    <3> QED BY <1>1, <2>1, <3>1, <3>2 DEF Typed, server, asked
  <2>8. /\ principal'[r] = record /\ actor'[r] = record.principal_id /\ stage'[r] = next
        /\ \A q \in Requests : q # r => Alone(q)
    BY <2>1, <2>6 DEF Alone, asked
  <2>9. Progress(r)'
    <3>1. ActsAs(r)' = record.principal_id
      BY <1>1, <2>1, <2>3, <2>8 DEF ActsAs, asked, Authenticated, Required
    <3> QED BY <1>1, <2>1, <2>3, <2>8, <3>1 DEF Progress, asked, Authenticated, Required
  <2>10. Entitled(r)'
    <3>1. Current(r)'
      BY <2>1, <2>2, <2>3, <2>4, <2>8 DEF Current, server, asked
    <3>2. route'[r] = route[r] /\ status'[r] # 200
      BY <1>1, <2>1, NamesAssumption DEF asked
    <3> QED BY <2>3, <2>8, <3>1, <3>2 DEF Entitled
  <2>11. Undecided(r) /\ Undecided(r)'
    BY <1>1, <2>1, <2>8 DEF Undecided, asked
  <2> QED BY <2>1, <2>7, <2>8, <2>9, <2>10, <2>11, RequestStep, UndecidedOwes DEF server
<1> QED BY <1>2, <1>3, <1>4, <1>5, <1>6 DEF decode_access_token

-----------------------------------------------------------------------------
LEMMA AuthorizeKeeps ==
  ASSUME IInv, NEW r \in Requests, Authorize(r)
  PROVE  IInv'
<1> PICK permission : permission = Required[route[r]]
  OBVIOUS
<1> PICK allowed \in BOOLEAN : allowed <=> has_permission(principal[r], permission)
  OBVIOUS
<1> PICK who : who = principal[r].principal_id
  OBVIOUS
<1> PICK new : new = IF allowed
                     THEN Event("authorization.allowed", "SUCCESS", who, permission, request_id[r])
                     ELSE Event("authorization.denied", "DENIED", who, permission, request_id[r])
  OBVIOUS
<1>1. /\ Typed /\ Progress(r) /\ stage[r] = "authorize"
      /\ stage' = [stage EXCEPT ![r] = IF allowed THEN "handle" ELSE "unwind"]
      /\ status' = IF allowed THEN status ELSE [status EXCEPT ![r] = 403]
      /\ trail' = BagAdd(trail, new)
      /\ UNCHANGED <<server, now, tokens, asked, actor, principal>>
  BY DEF IInv, Authorize, Respond, emit, actor_from_principal
<1>2. /\ status \in [Requests -> Statuses]
      /\ stage \in [Requests -> Stages]
  BY <1>1 DEF Typed
<1>3. /\ route[r] \in DOMAIN Required /\ route[r] \in Authenticated /\ principal[r] # None
      /\ route[r] # "token" /\ status[r] = None /\ ActsAs(r) = who
  BY <1>1 DEF Progress, ActsAs, Authenticated, Required
<1>4. Typed'
  <2>1. stage' \in [Requests -> Stages]
    BY <1>1, <1>2 DEF Stages
  <2>2. status' \in [Requests -> Statuses]
    BY <1>1, <1>2 DEF Statuses
  <2> QED BY <1>1, <2>1, <2>2 DEF Typed, server, asked
<1>5. /\ stage'[r] = IF allowed THEN "handle" ELSE "unwind"
      /\ status'[r] = IF allowed THEN None ELSE 403
      /\ \A q \in Requests : q # r => Alone(q)
  BY <1>1, <1>2, <1>3 DEF Alone, asked
<1>6. ActsAs(r)' = who
  BY <1>1, <1>3 DEF ActsAs, asked
<1>7. Progress(r)'
  BY <1>1, <1>3, <1>5, <1>6 DEF Progress, asked
<1>8. Entitled(r)'
  <2>1. Current(r)
    BY <1>1, <1>3 DEF IInv, Entitled
  <2>2. Current(r)'
    BY <1>1, <2>1 DEF Current, server, asked
  <2>3. allowed => permission \in resolve_permissions(principal[r].roles)
    BY DEF has_permission
  <2>4. principal' = principal /\ route' = route
    BY <1>1 DEF asked
  <2> QED BY <1>3, <1>5, <2>2, <2>3, <2>4, NamesAssumption DEF Entitled
<1>9. Owed(r) = {}
  <2>1. Undecided(r)
    BY <1>1, <1>3 DEF Undecided
  <2> QED BY <2>1, UndecidedOwes
<1>10. Owed(r)' = {new}
  <2>1. /\ Decided(r)' /\ ~Ran(r)' /\ principal'[r] # None /\ route'[r] = route[r]
        /\ request_id'[r] = request_id[r]
    BY <1>1, <1>3, <1>5 DEF Decided, Ran, asked
  <2> QED BY <1>3, <1>5, <1>6, <2>1, NamesAssumption DEF Owed, Told
<1> QED BY <1>1, <1>4, <1>5, <1>7, <1>8, <1>9, <1>10, RequestStep DEF server

LEMMA HandleKeeps ==
  ASSUME IInv, NEW r \in Requests, Handle(r)
  PROVE  IInv'
<1> PICK code : code = IF route[r] = "unknown" THEN 404 ELSE 200
  OBVIOUS
<1>1. /\ Typed /\ Progress(r) /\ stage[r] = "handle" /\ route[r] # "ingest"
      /\ stage' = [stage EXCEPT ![r] = "unwind"]
      /\ status' = [status EXCEPT ![r] = code]
      /\ UNCHANGED <<server, now, tokens, asked, actor, principal, trail>>
  BY DEF IInv, Handle, Respond
<1>2. /\ status \in [Requests -> Statuses]
      /\ stage \in [Requests -> Stages]
  BY <1>1 DEF Typed
<1>3. status[r] = None /\ route[r] # "token" /\ None \notin {200, 401, 403, 404, 503}
  BY <1>1, NamesAssumption DEF Progress
<1>4. Typed'
  <2>1. stage' \in [Requests -> Stages]
    BY <1>1, <1>2 DEF Stages
  <2>2. status' \in [Requests -> Statuses]
    BY <1>1, <1>2 DEF IngestResults, Statuses
  <2> QED BY <1>1, <2>1, <2>2 DEF Typed, server, asked
<1>5. /\ stage'[r] = "unwind" /\ status'[r] = code
      /\ \A q \in Requests : q # r => Alone(q)
  BY <1>1, <1>2 DEF Alone, asked
<1>6. ActsAs(r)' = ActsAs(r)
  BY <1>1, <1>3 DEF ActsAs, asked
<1>7. Progress(r)'
  BY <1>1, <1>3, <1>5, <1>6 DEF Progress, asked
<1>8. Entitled(r)'
  <2>1. route[r] \in Authenticated => Current(r) /\ principal[r] # None
    BY <1>1 DEF IInv, Entitled
  <2>2. Current(r)' <=> Current(r)
    BY <1>1 DEF Current, server, asked
  <2>3. route[r] \in DOMAIN Required => Required[route[r]] \in resolve_permissions(principal[r].roles)
    BY <1>1 DEF IInv, Entitled
  <2>4. principal' = principal /\ route' = route
    BY <1>1 DEF asked
  <2> QED BY <2>1, <2>2, <2>3, <2>4 DEF Entitled
<1>9. Owed(r)' = Owed(r)
  <2>1. /\ Decided(r)' <=> Decided(r)
        /\ ~Ran(r)' /\ ~Ran(r) /\ route' = route /\ request_id' = request_id
    BY <1>1, <1>5 DEF Decided, Ran, asked
  <2> QED BY <1>1, <1>3, <1>5, <1>6, <2>1 DEF Owed, Told
<1> QED BY <1>1, <1>4, <1>5, <1>7, <1>8, <1>9, RequestStep DEF server

LEMMA StartIngestKeeps ==
  ASSUME IInv, NEW r \in Requests, StartIngest(r)
  PROVE  IInv'
<1> PICK long \in BOOLEAN : long <=> length[r] = "long_source"
  OBVIOUS
<1> PICK new : new = Event("ingestion.api.started", "SUCCESS", ActsAs(r), "source", request_id[r])
  OBVIOUS
<1>1. /\ Typed /\ Progress(r) /\ stage[r] = "handle" /\ route[r] = "ingest"
      /\ stage' = [stage EXCEPT ![r] = IF long THEN "unwind" ELSE "ingesting"]
      /\ status' = IF long THEN [status EXCEPT ![r] = None] ELSE status
      /\ trail' = IF long THEN trail
                  ELSE emit(r, "ingestion.api.started", "SUCCESS", actor[r], "source")
      /\ UNCHANGED <<server, now, tokens, asked, actor, principal>>
  BY DEF IInv, StartIngest, Respond, current_actor
<1>2. /\ status \in [Requests -> Statuses]
      /\ stage \in [Requests -> Stages]
  BY <1>1 DEF Typed
<1>3. /\ route[r] \in DOMAIN Required /\ route[r] \in Authenticated /\ principal[r] # None
      /\ status[r] = None /\ ActsAs(r) = actor[r] /\ None \notin {200, 401, 403, 404, 503}
  BY <1>1, NamesAssumption DEF Progress, Authenticated, Required
<1>4. Typed'
  <2>1. stage' \in [Requests -> Stages]
    BY <1>1, <1>2 DEF Stages
  <2>2. status' \in [Requests -> Statuses]
    BY <1>1, <1>2 DEF IngestResults, Statuses
  <2> QED BY <1>1, <2>1, <2>2 DEF Typed, server, asked
<1>5. /\ stage'[r] = IF long THEN "unwind" ELSE "ingesting"
      /\ status'[r] = None
      /\ \A q \in Requests : q # r => Alone(q)
  BY <1>1, <1>2, <1>3 DEF Alone, asked
<1>6. ActsAs(r)' = ActsAs(r)
  BY <1>1 DEF ActsAs, asked
<1>7. Progress(r)'
  BY <1>1, <1>3, <1>5, <1>6 DEF Progress, asked
<1>8. Entitled(r)'
  <2>1. Current(r) /\ Required[route[r]] \in resolve_permissions(principal[r].roles)
    BY <1>1, <1>3 DEF IInv, Entitled
  <2>2. Current(r)'
    BY <1>1, <2>1 DEF Current, server, asked
  <2>3. principal' = principal /\ route' = route
    BY <1>1 DEF asked
  <2> QED BY <1>3, <2>1, <2>2, <2>3 DEF Entitled
<1>9. /\ Decided(r) /\ Decided(r)' /\ ~Ran(r) /\ (Ran(r)' <=> ~long)
      /\ route' = route /\ request_id' = request_id
  BY <1>1, <1>3, <1>5 DEF Decided, Ran, asked
<1>10. \A event \in Owed(r) : event.action = "authorization.allowed"
  BY <1>1, <1>3, <1>9, EventAction DEF Owed, Told
<1>11. CASE long
  <2>1. Owed(r)' = Owed(r)
    BY <1>1, <1>3, <1>5, <1>6, <1>9, <1>11 DEF Owed, Told
  <2> QED BY <1>1, <1>4, <1>5, <1>7, <1>8, <1>11, <2>1, RequestStep DEF server
<1>12. CASE ~long
  <2>1. Owed(r)' = Owed(r) \cup {new}
    BY <1>1, <1>3, <1>5, <1>6, <1>9, <1>12 DEF Owed, Told
  <2>2. new \notin Owed(r)
    BY <1>10, EventAction
  <2>3. trail' = BagAdd(trail, new)
    BY <1>1, <1>3, <1>12 DEF emit
  <2> QED BY <1>1, <1>4, <1>5, <1>7, <1>8, <2>1, <2>2, <2>3, RequestStep DEF server
<1> QED BY <1>11, <1>12

LEMMA EndIngestKeeps ==
  ASSUME IInv, NEW r \in Requests, NEW code \in IngestResults, EndIngest(r, code)
  PROVE  IInv'
<1> PICK new : new = IF code = 200
                     THEN Event("ingestion.api.completed", "SUCCESS", ActsAs(r), "source", request_id[r])
                     ELSE Event("ingestion.api.failed", "FAILURE", ActsAs(r), "source", request_id[r])
  OBVIOUS
<1>1. /\ Typed /\ Progress(r) /\ stage[r] = "ingesting"
      /\ stage' = [stage EXCEPT ![r] = "unwind"]
      /\ status' = [status EXCEPT ![r] = code]
      /\ UNCHANGED <<server, now, tokens, asked, actor, principal>>
  BY DEF IInv, EndIngest, Respond
<1>2. /\ status \in [Requests -> Statuses]
      /\ stage \in [Requests -> Stages]
  BY <1>1 DEF Typed
<1>3. /\ route[r] = "ingest" /\ length[r] # "long_source"
      /\ route[r] \in DOMAIN Required /\ route[r] \in Authenticated /\ principal[r] # None
      /\ status[r] = None /\ ActsAs(r) = actor[r]
  BY <1>1 DEF Progress, Authenticated, Required
<1>4. None \notin {200, 401, 403, 404, 503} /\ code # 403
  BY NamesAssumption, IngestErrorsAssumption DEF IngestResults, Statuses
<1>5. Typed'
  <2>1. stage' \in [Requests -> Stages]
    BY <1>1, <1>2 DEF Stages
  <2>2. status' \in [Requests -> Statuses]
    BY <1>1, <1>2 DEF Statuses
  <2> QED BY <1>1, <2>1, <2>2 DEF Typed, server, asked
<1>6. /\ stage'[r] = "unwind" /\ status'[r] = code
      /\ \A q \in Requests : q # r => Alone(q)
  BY <1>1, <1>2 DEF Alone, asked
<1>7. ActsAs(r)' = ActsAs(r)
  BY <1>1, <1>3 DEF ActsAs, asked
<1>8. Progress(r)'
  BY <1>1, <1>3, <1>6, <1>7 DEF Progress, asked
<1>9. Entitled(r)'
  <2>1. Current(r) /\ Required[route[r]] \in resolve_permissions(principal[r].roles)
    BY <1>1, <1>3 DEF IInv, Entitled
  <2>2. Current(r)'
    BY <1>1, <2>1 DEF Current, server, asked
  <2>3. principal' = principal /\ route' = route
    BY <1>1 DEF asked
  <2> QED BY <1>3, <2>1, <2>2, <2>3 DEF Entitled
<1>10. /\ Decided(r) /\ Decided(r)' /\ Ran(r) /\ Ran(r)'
       /\ route' = route /\ request_id' = request_id
  BY <1>1, <1>3, <1>4, <1>6 DEF Decided, Ran, asked
<1>11. \A event \in Owed(r) : event.action \in {"authorization.allowed", "ingestion.api.started"}
  BY <1>1, <1>3, <1>4, <1>10, EventAction DEF Owed, Told
<1>12. CASE code = None
  <2>1. trail' = trail
    BY <1>4, <1>12 DEF EndIngest
  <2>2. Owed(r)' = Owed(r)
    BY <1>1, <1>3, <1>4, <1>6, <1>7, <1>10, <1>12 DEF Owed, Told
  <2> QED BY <1>1, <1>5, <1>6, <1>8, <1>9, <2>1, <2>2, RequestStep DEF server
<1>13. CASE code # None
  <2>1. trail' = BagAdd(trail, new)
    BY <1>3, <1>13 DEF EndIngest, emit, current_actor
  <2>2. Owed(r)' = Owed(r) \cup {new}
    BY <1>1, <1>3, <1>4, <1>6, <1>7, <1>10, <1>13 DEF Owed, Told
  <2>3. new \notin Owed(r)
    BY <1>11, EventAction
  <2> QED BY <1>1, <1>5, <1>6, <1>8, <1>9, <2>1, <2>2, <2>3, RequestStep DEF server
<1> QED BY <1>12, <1>13

LEMMA PreflightKeeps ==
  ASSUME IInv, NEW r \in Requests, NEW code \in PreflightAnswers, Preflight(r, code)
  PROVE  IInv'
<1>1. /\ Typed /\ Progress(r) /\ stage[r] = "idle" /\ route[r] = "live"
      /\ route' = [route EXCEPT ![r] = "preflight"]
      /\ status' = [status EXCEPT ![r] = code]
      /\ stage' = [stage EXCEPT ![r] = "done"]
      /\ UNCHANGED <<server, now, tokens, given, request_id, length, actor, principal, trail>>
  BY DEF IInv, Preflight, Progress
<1>2. /\ status \in [Requests -> Statuses] /\ stage \in [Requests -> Stages]
      /\ route \in [Requests -> Routes \cup {"preflight"}]
  BY <1>1 DEF Typed
<1>3. Typed'
  <2>1. stage' \in [Requests -> Stages]
    BY <1>1, <1>2 DEF Stages
  <2>2. status' \in [Requests -> Statuses] /\ route' \in [Requests -> Routes \cup {"preflight"}]
    BY <1>1, <1>2 DEF Statuses
  <2> QED BY <1>1, <2>1, <2>2 DEF Typed, server
<1>4. /\ route'[r] = "preflight" /\ status'[r] = code /\ stage'[r] = "done"
      /\ \A q \in Requests : q # r => Alone(q)
  BY <1>1, <1>2 DEF Alone
<1>5. principal[r] = None /\ status[r] = None /\ code \notin {401, 403, 503}
  BY <1>1 DEF Progress, PreflightAnswers
<1>6. Progress(r)'
  <2>1. ActsAs(r)' = ActsAs(r)
    BY <1>1, <1>4, <1>5 DEF ActsAs
  <2> QED BY <1>1, <1>4, <1>5, <2>1 DEF Progress, Authenticated, Required
<1>7. Entitled(r)'
  BY <1>4 DEF Entitled, Authenticated, Required
<1>8. Owed(r) = {}
  <2>1. Undecided(r)
    BY <1>1, <1>5 DEF Undecided, Required
  <2> QED BY <2>1, UndecidedOwes
<1>9. Owed(r)' = {}
  <2>1. ~Decided(r)' /\ ~Ran(r)' /\ Untold(r)'
    BY <1>4 DEF Decided, Ran, Untold, Required
  <2> QED BY <1>4, <1>5, <2>1 DEF Owed, Told
<1> QED BY <1>1, <1>3, <1>4, <1>6, <1>7, <1>8, <1>9, RequestStep DEF server

LEMMA UnwindKeeps ==
  ASSUME IInv, NEW r \in Requests, Unwind(r)
  PROVE  IInv'
<1> PICK new : new = Event("request.completed", outcome_for_status(status[r]), ActsAs(r), route[r],
                           request_id[r])
  OBVIOUS
<1>1. /\ Typed /\ Progress(r) /\ stage[r] = "unwind"
      /\ stage' = [stage EXCEPT ![r] = "done"]
      /\ UNCHANGED <<server, now, tokens, asked, actor, principal, status>>
  BY DEF IInv, Unwind
<1>2. stage \in [Requests -> Stages]
  BY <1>1 DEF Typed
<1>3. Typed'
  <2>1. stage' \in [Requests -> Stages]
    BY <1>1, <1>2 DEF Stages
  <2> QED BY <1>1, <2>1 DEF Typed, server, asked
<1>4. stage'[r] = "done" /\ \A q \in Requests : q # r => Alone(q)
  BY <1>1, <1>2 DEF Alone, asked
<1>5. ActsAs(r)' = ActsAs(r) /\ ActsAs(r) = actor[r]
  BY <1>1 DEF ActsAs, asked, Progress
<1>6. Progress(r)'
  BY <1>1, <1>4, <1>5 DEF Progress, asked
<1>7. Entitled(r)'
  <2>1. Current(r)' <=> Current(r)
    BY <1>1 DEF Current, server, asked
  <2>2. Entitled(r)
    BY DEF IInv
  <2>3. principal' = principal /\ route' = route /\ status' = status
    BY <1>1 DEF asked
  <2> QED BY <1>1, <1>4, <2>1, <2>2, <2>3 DEF Entitled
<1>8. /\ Decided(r)' <=> Decided(r)
      /\ Ran(r)' <=> Ran(r)
      /\ Mechanism(r)' = Mechanism(r)
      /\ route' = route /\ request_id' = request_id /\ status' = status /\ given' = given
      /\ principal' = principal /\ length' = length
  BY <1>1, <1>4 DEF Decided, Ran, Mechanism, asked
<1>9. \A event \in Owed(r) : event.action # "request.completed"
  BY <1>1, EventAction DEF Owed, Told
<1>10. CASE length[r] # "short"
  <2>1. trail' = trail
    BY <1>10 DEF Unwind
  <2>2. Owed(r)' = Owed(r)
    BY <1>1, <1>4, <1>5, <1>8, <1>10 DEF Owed, Told, Untold
  <2> QED BY <1>1, <1>3, <1>4, <1>6, <1>7, <2>1, <2>2, RequestStep DEF server
<1>11. CASE length[r] = "short"
  <2>1. trail' = BagAdd(trail, new)
    BY <1>5, <1>11 DEF Unwind, emit, current_actor
  <2>4. ~Untold(r)'
    BY <1>1, <1>8, <1>11 DEF Untold, Progress
  <2>2. Owed(r)' = Owed(r) \cup {new}
    BY <1>1, <1>4, <1>5, <1>8, <2>4 DEF Owed, Told
  <2>3. new \notin Owed(r)
    BY <1>9, EventAction
  <2> QED BY <1>1, <1>3, <1>4, <1>6, <1>7, <2>1, <2>2, <2>3, RequestStep DEF server
<1> QED BY <1>10, <1>11

-----------------------------------------------------------------------------
\* A server that has just been started has no request and no event.
LEMMA InitInv == Init => IInv
<1> SUFFICES ASSUME Init PROVE IInv
  OBVIOUS
<1>1. PICK items \in Configurations : Start(items)
  BY DEF Init
<1>2. /\ directory = build_dev_provider_from_config(items)
      /\ stage = [r \in Requests |-> "idle"] /\ route = [r \in Requests |-> "live"]
      /\ given = [r \in Requests |-> NoToken] /\ request_id = [r \in Requests |-> None]
      /\ length = [r \in Requests |-> "short"] /\ actor = [r \in Requests |-> "anonymous"]
      /\ principal = [r \in Requests |-> None] /\ status = [r \in Requests |-> None]
      /\ trail = NoEvents
  BY <1>1 DEF Start
<1>3. secret \in Secrets \cup {NoSecret} /\ now = 0 /\ tokens = {} /\ restarts = 0
  BY DEF Init
<1>4. Typed
  <2>1. 0 \in 0..MaxTime /\ 0 \in 0..MaxRestarts
    BY BoundsAssumption
  <2>2. /\ stage \in [Requests -> Stages] /\ route \in [Requests -> Routes \cup {"preflight"}]
        /\ length \in [Requests -> Lengths]
    BY <1>2 DEF Stages, Routes, Lengths
  <2>3. status \in [Requests -> Statuses]
    BY <1>2 DEF IngestResults, Statuses
  <2> QED BY <1>2, <1>3, <2>1, <2>2, <2>3 DEF Typed
<1>5. \A r \in Requests : Progress(r) /\ Entitled(r) /\ Owed(r) = {}
  <2> SUFFICES ASSUME NEW r \in Requests PROVE Progress(r) /\ Entitled(r) /\ Owed(r) = {}
    OBVIOUS
  <2>1. Progress(r)
    BY <1>2 DEF Progress, ActsAs
  <2>2. Entitled(r)
    BY <1>2 DEF Entitled, Authenticated, Required
  <2>3. Undecided(r)
    BY <1>2 DEF Undecided
  <2> QED BY <2>1, <2>2, <2>3, UndecidedOwes
<1> QED BY <1>2, <1>4, <1>5, NothingOwed DEF IInv

LEMMA RestartKeeps ==
  ASSUME IInv, NEW items \in Configurations, NEW key \in Secrets \cup {NoSecret},
         Restart(items, key)
  PROVE  IInv'
<1>1. /\ Typed
      /\ directory' = build_dev_provider_from_config(items) /\ secret' = key
      /\ stage' = [r \in Requests |-> "idle"] /\ route' = [r \in Requests |-> "live"]
      /\ given' = [r \in Requests |-> NoToken] /\ request_id' = [r \in Requests |-> None]
      /\ length' = [r \in Requests |-> "short"] /\ actor' = [r \in Requests |-> "anonymous"]
      /\ principal' = [r \in Requests |-> None] /\ status' = [r \in Requests |-> None]
      /\ trail' = NoEvents /\ restarts < MaxRestarts /\ restarts' = restarts + 1
      /\ UNCHANGED <<now, tokens>>
  BY DEF IInv, Restart
<1>2. Typed'
  <2>1. restarts' \in 0..MaxRestarts
    <3>1. restarts \in 0..MaxRestarts
      BY <1>1 DEF Typed
    <3> QED BY <1>1, <3>1, BoundsAssumption
  <2>2. /\ stage' \in [Requests -> Stages] /\ route' \in [Requests -> Routes \cup {"preflight"}]
        /\ length' \in [Requests -> Lengths]
    BY <1>1 DEF Stages, Routes, Lengths
  <2>3. status' \in [Requests -> Statuses]
    BY <1>1 DEF IngestResults, Statuses
  <2> QED BY <1>1, <2>1, <2>2, <2>3 DEF Typed
<1>3. \A r \in Requests : Progress(r)' /\ Entitled(r)' /\ Owed(r)' = {}
  <2> SUFFICES ASSUME NEW r \in Requests PROVE Progress(r)' /\ Entitled(r)' /\ Owed(r)' = {}
    OBVIOUS
  <2>1. Progress(r)'
    BY <1>1 DEF Progress, ActsAs
  <2>2. Entitled(r)'
    BY <1>1 DEF Entitled, Authenticated, Required
  <2>3. Undecided(r)'
    BY <1>1 DEF Undecided
  <2> QED BY <2>1, <2>2, <2>3, UndecidedOwes
<1>4. TrailExact'
  <2> SUFFICES ASSUME NEW event PROVE Copies(event)' = Cardinality(Owing(event)')
    BY DEF TrailExact
  <2>1. Owing(event)' = {}
    BY <1>3 DEF Owing
  <2>2. Copies(event)' = 0
    BY <1>1 DEF Copies, NoEvents
  <2> QED BY <2>1, <2>2, FS_EmptySet
<1> QED BY <1>2, <1>3, <1>4 DEF IInv

\* Time passes, or nothing does.
LEMMA NoRequestKeeps ==
  ASSUME IInv, Typed', UNCHANGED <<directory, secret, asked, stage, actor, principal, status, trail>>
  PROVE  IInv'
<1>1. \A q \in Requests : Alone(q)
  BY DEF Alone, asked
<1>2. \A q \in Requests : Owed(q)' = Owed(q) /\ Progress(q)' /\ Entitled(q)'
  BY <1>1, AloneKeeps DEF IInv
<1>3. TrailExact'
  BY <1>2, NothingNew DEF IInv
<1> QED BY <1>2, <1>3 DEF IInv

\* The invariant holds throughout.
LEMMA InductiveInv == Spec => []IInv
<1>1. IInv /\ [Next]_vars => IInv'
  <2> SUFFICES ASSUME IInv, [Next]_vars PROVE IInv'
    OBVIOUS
  <2>1. CASE UNCHANGED vars
    <3>1. UNCHANGED <<directory, secret, restarts, now, tokens, asked, stage, actor, principal,
                      status, trail>>
      BY <2>1 DEF vars, server
    <3>2. Typed'
      BY <3>1 DEF IInv, Typed, asked
    <3> QED BY <3>1, <3>2, NoRequestKeeps
  <2>2. ASSUME NEW r \in Requests, NEW path \in Routes, NEW size \in Lengths,
               NEW credential \in tokens \cup Logins \cup {NoToken, Garbage},
               NEW incoming \in RequestIds \cup {Malformed},
               Arrive(r, path, credential, incoming, size)
        PROVE  IInv'
    BY <2>2, ArriveKeeps
  <2>6. ASSUME NEW r \in Requests, NEW code \in PreflightAnswers, Preflight(r, code)
        PROVE  IInv'
    BY <2>6, PreflightKeeps
  <2>3. ASSUME NEW r \in Requests, Serve(r) PROVE IInv'
    BY <2>3, AuthenticateKeeps, IssueKeeps, BearerKeeps, AuthorizeKeeps, HandleKeeps,
       StartIngestKeeps, EndIngestKeeps, UnwindKeeps DEF Serve
  <2>4. CASE Tick
    <3>1. /\ now < MaxTime /\ now' = now + 1
          /\ UNCHANGED <<directory, secret, restarts, tokens, asked, stage, actor, principal,
                         status, trail>>
      BY <2>4 DEF Tick, server
    <3>2. now' \in 0..MaxTime
      <4>1. now \in 0..MaxTime
        BY DEF IInv, Typed
      <4> QED BY <3>1, <4>1, BoundsAssumption
    <3>3. Typed'
      BY <3>1, <3>2 DEF IInv, Typed, asked
    <3> QED BY <3>1, <3>3, NoRequestKeeps
  <2>5. ASSUME NEW items \in Configurations, NEW key \in Secrets \cup {NoSecret},
               Restart(items, key)
        PROVE  IInv'
    BY <2>5, RestartKeeps
  <2> QED BY <2>1, <2>2, <2>3, <2>4, <2>5, <2>6 DEF Next
<1> QED BY InitInv, <1>1, PTL DEF Spec

-----------------------------------------------------------------------------
\* Type correctness; the tokens issued are for accounts of the configurations and
\* expire within the lifetime (create_access_token).
THEOREM RequestPathTyped == Spec => []TypeOK
<1>1. IInv => TypeOK
  BY DEF IInv, Progress, Staged, TypeOK, Authenticated, Required
<1> QED BY InductiveInv, <1>1, PTL

\* A protected route runs only for an account that is active and has the permission
\* now, and for a token of this server's secret (get_current_principal,
\* require_permission), however long ago the token was issued.
THEOREM RightsStayCurrent == Spec => []RightsAreCurrent
<1>1. IInv => RightsAreCurrent
  BY DEF IInv, Entitled, Current, RightsAreCurrent
<1> QED BY InductiveInv, <1>1, PTL

\* The trail tells each thing that happened once, of the account it happened for
\* (AuditContext and the emitters of the routes), however the requests overlap.
THEOREM TrailIsExact == Spec => []TrailTellsWhoDidWhat
<1>1. IInv => TrailTellsWhoDidWhat
  BY DEF IInv, TrailExact, Owing, TrailTellsWhoDidWhat
<1> QED BY InductiveInv, <1>1, PTL

\* Who lacks the permission for sensitive data sees no more of a person's name than
\* initials, and who has it sees all of it (kyc_context_for, minimize_kyc_entity).
THEOREM ViewsKeepWithinRights == Spec => []ViewWithinRights
<1>1. ViewWithinRights
  <2> SUFFICES ASSUME NEW r \in Requests, NEW entity \in Entities,
                      NEW field \in {"client_name", "aliases"}, NEW name
               PROVE  LET shown == ShownOf(kyc_context_for(principal[r]), field, name, entity)
                      IN IF "KYC_VIEW_SENSITIVE" \in resolve_permissions(principal[r].roles)
                         THEN \A i \in DOMAIN name : shown[i] = "whole"
                         ELSE IsPerson(entity) =>
                                \A i \in DOMAIN name : name[i] = "word" => shown[i] # "whole"
    BY DEF ViewWithinRights
  <2>1. field \in CanonicalFields
    BY DEF CanonicalFields
  <2>2. CASE "KYC_VIEW_SENSITIVE" \in resolve_permissions(principal[r].roles)
    <3>1. minimize_kyc_entity(kyc_context_for(principal[r]))[field] = "raw"
      BY <2>1, <2>2 DEF minimize_kyc_entity, kyc_context_for, treatment, Raw
    <3> QED BY <2>2, <3>1 DEF ShownOf
  <2>3. CASE "KYC_VIEW_SENSITIVE" \notin resolve_permissions(principal[r].roles)
    <3>1. kyc_context_for(principal[r]) = "HUMAN_REVIEW"
      BY <2>3 DEF kyc_context_for
    <3>2. treatment("HUMAN_REVIEW", field) = "MASK"
      BY DEF treatment, Raw, Masked, CanonicalFields
    <3>3. minimize_kyc_entity("HUMAN_REVIEW")[field] = "masked"
      BY <2>1, <3>2 DEF minimize_kyc_entity, apply_mask, default_mask
    <3>4. ShownOf("HUMAN_REVIEW", field, name, entity) = mask_name(name, IsPerson(entity))
      BY <3>3 DEF ShownOf
    <3>5. IsPerson(entity) =>
            \A i \in DOMAIN name : name[i] = "word" => mask_name(name, IsPerson(entity))[i] = "initial"
      BY DEF mask_name, initial
    <3> QED BY <2>3, <3>1, <3>4, <3>5
  <2> QED BY <2>2, <2>3
<1> QED BY <1>1, PTL
=============================================================================
