-------------------------- MODULE ScreeningService --------------------------
(***************************************************************************)
(* From the sanctions lists to a risk score: the process-wide registry     *)
(* that loads the lists (services.py), the API that screens against it     *)
(* (api.py), the bridge through which the risk engine may screen its own   *)
(* clients (risk_bridge.py), and the engine that scores what it is given.  *)
(*                                                                         *)
(* The registry lives in one of two hosts.  The API loads it before it     *)
(* serves, and does not start if that fails.  In the risk engine the first *)
(* client that is screened loads it, under a lock; if that fails the       *)
(* half-loaded registry stays and later calls use it.                      *)
(*                                                                         *)
(* A definition named X_Y is the definition X with a plausible bug, Y; no  *)
(* specification uses it.                                                  *)
(***************************************************************************)
EXTENDS ReferenceData, RiskScoring

CONSTANTS
  SdnRows, AltRows, OpenSanctionsRows,     \* rows of the real lists
  FixtureSdnRows, FixtureTargetRows,       \* rows of the demo fixtures
  ClientRows,     \* the client book
  OwnershipFile,  \* one ownership structure
  FileStates,     \* which files may be "good", "absent" or "broken"
  Modes,          \* values of PROJECTTECHM_SANCTIONS_MODE
  RowLimits,      \* values of PROJECTTECHM_OPENSANCTIONS_LIMIT
  Queries,        \* ad-hoc queries
  Asked,          \* the clients that requests are about
  Words,          \* the words of names
  Payloads,       \* what a caller of the engine may submit
  Findings,       \* what an analysis of an article may find
  MatchLimits,    \* the limits a request may ask for
  Depths,         \* the depths a trace may ask for
  MaxFindings     \* bound: findings stored

Files == {"sdn", "opensanctions", "fixtures", "clients", "ubo"}

ASSUME FilesAssumption == FileStates \subseteq [Files -> {"good", "absent", "broken"}]
ASSUME ModesAssumption == Modes \subseteq {"both", "real", "sample"}
ASSUME LimitsAssumption ==
  /\ MatchLimits \cup Depths \subseteq Nat \ {0} /\ MaxFindings \in Nat
  /\ RowLimits \ {Unknown} \subseteq Int

\* A file is read row by row; what is listed has a letter or a digit in each of its
\* names; and an ownership file tells of the parties its edges are between.
IsRows(rows) == rows \in Seq(ToSet(rows))
ASSUME RowsAssumption ==
  /\ IsRows(SdnRows) /\ IsRows(AltRows) /\ IsRows(OpenSanctionsRows)
  /\ IsRows(FixtureSdnRows) /\ IsRows(FixtureTargetRows)

Listed ==
  load_ofac_sdn(SdnRows, AltRows) \cup load_opensanctions(OpenSanctionsRows, Unknown)
  \cup load_ofac_sdn(FixtureSdnRows, <<>>) \cup load_opensanctions(FixtureTargetRows, Unknown)
NamesOf(entity) == {entity.name} \cup entity.aliases
ASSUME ListedAssumption ==
  \A e \in Listed :
    IsFiniteSet(e.aliases) /\ \A name \in NamesOf(e) : name \in Seq(Words) /\ name # <<>>
ASSUME OwnershipAssumption ==
  LET ids == {e.entity_id : e \in OwnershipFile.entities} IN
  IsFiniteSet(OwnershipFile.entities) /\ OwnershipFile.ownership_edges \subseteq ids \X ids

\* The matchers answer with a percentage (scoring.py:57-78, 261-275).
Parties == Queries \cup ClientRows \cup OwnershipFile.entities
ASSUME MatchersAssumption ==
  \A e \in Listed :
    /\ \A query \in Queries \cup OwnershipFile.entities : \A name \in NamesOf(e) :
         Likeness(query.name, name) \in 0..100
    /\ \A row \in ClientRows : \A name \in NamesOf(e) : Likeness(row.client_name, name) \in 0..100
    /\ \A party \in Parties : ContextLikeness(party.context, e.context) \in 0..100

\* Confidences and counts are numbers where they are not missing.
ASSUME MissingAssumption == None \notin Int
Number == Int \cup {None}
Scorable(payload) ==
  /\ payload.kyc.confidence \in Number /\ payload.sanctions.match_confidence \in Number
  /\ payload.ownership.confidence \in Number /\ payload.media.confidence \in Number
  /\ payload.transactions.suspicious_probability \in Number
  /\ payload.transactions.typology_hits \in Int
  /\ payload.jurisdiction_confidence \in Number
ASSUME PayloadsAssumption == \A payload \in Payloads : Scorable(payload)
ASSUME ClientsAssumption ==
  \A row \in ClientRows :
    row.opacity \in Nat /\ row.stats \in [{"count", "avg_amount", "max_amount", "ofac_matches",
                                           "fatf_hits", "typology_hits"} -> Nat]
ASSUME FindingsAssumption ==
  Findings \subseteq [entity_id : {None}, claims : SUBSET (0..100),
                      injection_attempt_detected : BOOLEAN]

VARIABLES
  host,         \* the process the registry is in: "api" or "risk"
  files, mode, row_limit,  \* what the process finds on disk and in its environment
  step,         \* how far load() has come
  sanctions,    \* entities loaded so far
  index,        \* the candidate index
  truncated,    \* lists whose load was cut off by the row limit
  clients,      \* the client book, as loaded
  graphs,       \* the ownership structures, as loaded
  media_store,  \* findings by the id they were made under, oldest first
  caller,       \* the client whose screening triggered the load
  answer        \* the last answer given

environment == <<host, files, mode, row_limit>>
registry == <<step, sanctions, index, truncated, clients, graphs, caller>>
vars == <<environment, registry, media_store, answer>>

RequestIds == {"full", "short"} \X Asked
NoAnswer == [kind |-> "none"]

Init ==
  /\ host \in {"api", "risk"}
  /\ files \in FileStates
  /\ mode \in Modes
  /\ row_limit \in RowLimits
  /\ step = "none"
  /\ sanctions = {}
  /\ index = {}
  /\ truncated = {}
  /\ clients = {}
  /\ graphs = <<>>
  /\ media_store = [id \in RequestIds |-> <<>>]
  /\ caller = None
  /\ answer = NoAnswer

-----------------------------------------------------------------------------
\* Loading.
WantReal == mode \in {"both", "real"}
WantFixtures == mode \in {"both", "sample"}

\* The next file is read; a file that is absent, or not wanted, is skipped, and
\* one that is broken raises.
Reads(file, wanted) == wanted /\ files[file] # "absent"
Loaded(file, wanted, from, to) ==
  /\ step = from
  /\ Reads(file, wanted) => files[file] # "broken"
  /\ step' = to

LoadSdn ==
  /\ Loaded("sdn", WantReal, "sdn", "opensanctions")
  /\ sanctions' = sanctions \cup
       IF Reads("sdn", WantReal) THEN load_ofac_sdn(SdnRows, AltRows) ELSE {}
  /\ UNCHANGED <<environment, index, truncated, clients, graphs, caller, media_store, answer>>

\* `truncated`: as many entities were loaded as may be.
CutOff == row_limit # Unknown /\ Cardinality(RowsKept(OpenSanctionsRows, row_limit)) >= row_limit

LoadOpenSanctions ==
  /\ Loaded("opensanctions", WantReal, "opensanctions", "fixtures")
  /\ sanctions' = sanctions \cup
       IF Reads("opensanctions", WantReal) THEN load_opensanctions(OpenSanctionsRows, row_limit) ELSE {}
  /\ truncated' = IF Reads("opensanctions", WantReal) /\ CutOff THEN {"opensanctions"} ELSE {}
  /\ UNCHANGED <<environment, index, clients, graphs, caller, media_store, answer>>

\* The fixtures are tagged, so that they cannot pass as real listings.
LoadFixtures ==
  /\ Loaded("fixtures", WantFixtures, "fixtures", "index")
  /\ sanctions' = sanctions \cup
       IF Reads("fixtures", WantFixtures)
       THEN {Fixture(e) : e \in load_ofac_sdn(FixtureSdnRows, <<>>)
                               \cup load_opensanctions(FixtureTargetRows, Unknown)}
       ELSE {}
  /\ UNCHANGED <<environment, index, truncated, clients, graphs, caller, media_store, answer>>

BuildIndex ==
  /\ step = "index"
  /\ step' = "clients"
  /\ index' = sanctions
  /\ UNCHANGED <<environment, sanctions, truncated, clients, graphs, caller, media_store, answer>>

LoadClients ==
  /\ Loaded("clients", TRUE, "clients", "ubo")
  /\ clients' = IF Reads("clients", TRUE) THEN ClientRows ELSE {}
  /\ UNCHANGED <<environment, sanctions, index, truncated, graphs, caller, media_store, answer>>

LoadGraphs ==
  /\ Loaded("ubo", TRUE, "ubo", "articles")
  /\ graphs' = IF Reads("ubo", TRUE) THEN <<OwnershipGraph(OwnershipFile)>> ELSE <<>>
  /\ UNCHANGED <<environment, sanctions, index, truncated, clients, caller, media_store, answer>>

\* What a client is answered when it is screened.
client_query(row) ==
  [entity_id |-> <<"full", row.client_id>>, name |-> row.client_name, dob |-> Unknown,
   nationality |-> row.country,
   company |-> IF row.client_type = "individual" THEN <<>> ELSE row.client_name,
   context |-> row.context]

\* The bridge: the best match, if there is one, takes the place of the section the
\* caller had.
Section(row, kept) ==
  IF kept = {} THEN payload_for_client(row).sanctions
  ELSE to_risk_sanctions_signal(CHOOSE r \in kept : TRUE)

Enriched(row, kept) ==
  [kind |-> "enriched", client |-> row, records |-> kept,
   assessment |-> Assess([payload_for_client(row) EXCEPT !.sanctions = Section(row, kept)])]

Screened(row) == Resolutions(client_query(row), index, 1)

\* The last file, and the answer to the screening that was waiting.
LoadArticles ==
  /\ step = "articles"
  /\ step' = "loaded"
  /\ caller' = None
  /\ IF caller = None THEN UNCHANGED answer
     ELSE \E kept \in Screened(caller) : answer' = Enriched(caller, kept)
  /\ UNCHANGED <<environment, sanctions, index, truncated, clients, graphs, media_store>>

\* A loader raises: the API does not start, the bridge falls back.
Wanted(file) ==
  CASE file \in {"sdn", "opensanctions"} -> WantReal
    [] file = "fixtures" -> WantFixtures [] OTHER -> TRUE
LoadRaises_CallerWaits ==
  /\ step \in Files
  /\ Wanted(step) /\ files[step] = "broken"
  /\ step' = "failed"
  /\ UNCHANGED <<environment, sanctions, index, truncated, clients, graphs, caller, media_store, answer>>
LoadRaises ==
  /\ step \in Files
  /\ Wanted(step) /\ files[step] = "broken"
  /\ step' = "failed"
  /\ caller' = None
  /\ answer' = IF caller = None THEN NoAnswer ELSE Enriched(caller, {})
  /\ UNCHANGED <<environment, sanctions, index, truncated, clients, graphs, media_store>>

Startup ==
  /\ host = "api" /\ step = "none"
  /\ step' = "sdn"
  /\ UNCHANGED <<environment, sanctions, index, truncated, clients, graphs, caller, media_store, answer>>

-----------------------------------------------------------------------------
\* The API.
Serving == host = "api" /\ step = "loaded"
Answers(a) ==
  /\ answer' = a
  /\ UNCHANGED <<environment, registry, media_store>>

\* GET /health
Health ==
  /\ Serving
  /\ Answers([kind |-> "health", sanctions_coverage_complete |-> truncated = {}])

\* POST /screen
Screen(query, limit) ==
  /\ Serving
  /\ \E records \in Resolutions(query, index, limit) :
       Answers([kind |-> "matches", query |-> query, limit |-> limit, records |-> records])

\* Both "7" and "CLIENT-7" name a client; a client's record is its query.
normalize_customer_id(id) ==
  IF id[2] \in {c.client_id : c \in clients} THEN <<"full", id[2]>> ELSE id
ClientsNamed(id) == {c \in clients : normalize_customer_id(id) = <<"full", c.client_id>>}

\* GET /customers/{id}/sanctions-matches
SanctionsMatches(id, limit) ==
  /\ Serving
  /\ IF ClientsNamed(id) = {} THEN Answers([kind |-> "not_found"])
     ELSE \E c \in ClientsNamed(id) :
          \E records \in Resolutions(ClientRecord(c), index, limit) :
            Answers([kind |-> "matches", query |-> ClientRecord(c), limit |-> limit,
                     records |-> records])

StoredFor(id) == media_store[normalize_customer_id(id)]

\* POST /adverse-media/analyze: the finding is stored under the id as sent.
Analyze(id, finding) ==
  /\ Serving
  /\ \A i \in RequestIds : Len(media_store[i]) < MaxFindings
  /\ media_store' = [media_store EXCEPT ![id] = Append(@, [finding EXCEPT !.entity_id = id])]
  /\ answer' = [kind |-> "finding"]
  /\ UNCHANGED <<environment, registry>>

\* GET /customers/{id}/entity-intelligence
EntityIntelligence(id, limit) ==
  /\ Serving
  /\ LET media == {adverse_media_to_result(StoredFor(id)[i]) : i \in DOMAIN StoredFor(id)} IN
       IF ClientsNamed(id) = {}
       THEN Answers(IF media = {} THEN [kind |-> "not_found"]
                    ELSE [kind |-> "results", results |-> media])
       ELSE \E c \in ClientsNamed(id) :
            \E records \in Resolutions(ClientRecord(c), index, limit) :
              Answers([kind |-> "results",
                       results |-> {evidence_to_result(r) : r \in records} \cup media])

\* GET /customers/{id}/risk-signals: the best match and the latest finding, and
\* what the engine makes of the two.
SilentMedia == [negative_news_found |-> FALSE, mentions_sanctions |-> FALSE, confidence |-> None]
SignalPayload(row, records, finding) ==
  [payload_for_client(row) EXCEPT
     !.sanctions = IF records = {}
                   THEN [has_match |-> FALSE, confirmed |-> FALSE, match_confidence |-> None,
                         relationship |-> "", source |-> ""]
                   ELSE to_risk_sanctions_signal(CHOOSE r \in records : TRUE),
     !.media = IF finding = None THEN SilentMedia ELSE to_risk_media_signal(finding)]
RiskSignals(id) ==
  /\ Serving
  /\ IF ClientsNamed(id) = {} THEN Answers([kind |-> "not_found"])
     ELSE \E c \in ClientsNamed(id) : \E records \in Resolutions(ClientRecord(c), index, 1) :
       LET latest == IF StoredFor(id) = <<>> THEN None ELSE Last(StoredFor(id)) IN
         Answers([kind |-> "signals", client |-> c, records |-> records, finding |-> latest,
                  assessment |-> Assess(SignalPayload(c, records, latest))])

\* POST /ubo/trace from the first of the roots.
TraceUbo(max_depth) ==
  /\ Serving
  /\ IF graphs = <<>> THEN Answers([kind |-> "not_found"])
     ELSE \E root \in Roots(graphs[1]) :
          \E found \in ChainResolutions(graphs[1], root, index, max_depth) :
            Answers([kind |-> "chain", root |-> root, max_depth |-> max_depth,
                     findings |-> {n \in DOMAIN found : found[n] # {}}])

-----------------------------------------------------------------------------
\* The risk engine: POST /risk/assess, and top_cases, which scores the clients of
\* the engine's own dataset.
Idle == host = "risk" /\ step \in {"none", "loaded", "failed"}
AssessPayload(payload) ==
  /\ Idle
  /\ Answers([kind |-> "assessment", payload |-> payload, assessment |-> Assess(payload)])
AssessClient(row) == AssessPayload(payload_for_client(row))

\* screen_client: a row without a client type raises, one without a name is not
\* screened; the first call loads the registry.
EnrichSection(row) ==
  /\ Idle
  /\ IF row.client_type = Unknown THEN Answers([kind |-> "raised"])
     ELSE IF row.client_name = <<>> THEN Answers(Enriched(row, {}))
     ELSE IF step = "none"
     THEN /\ step' = "sdn"
          /\ caller' = row
          /\ UNCHANGED <<environment, sanctions, index, truncated, clients, graphs,
                         media_store, answer>>
     ELSE \E kept \in Screened(row) : Answers(Enriched(row, kept))

Next ==
  \/ Startup \/ LoadSdn \/ LoadOpenSanctions \/ LoadFixtures \/ BuildIndex \/ LoadClients
  \/ LoadGraphs \/ LoadArticles \/ LoadRaises
  \/ Health
  \/ \E query \in Queries, limit \in MatchLimits : Screen(query, limit)
  \/ \E id \in RequestIds, limit \in MatchLimits :
       SanctionsMatches(id, limit) \/ EntityIntelligence(id, limit)
  \/ \E id \in RequestIds : RiskSignals(id) \/ \E finding \in Findings : Analyze(id, finding)
  \/ \E max_depth \in Depths : TraceUbo(max_depth)
  \/ \E payload \in Payloads : AssessPayload(payload)
  \/ \E row \in ClientRows : AssessClient(row) \/ EnrichSection(row)

Spec == Init /\ [][Next]_vars

-----------------------------------------------------------------------------
\* Types: the files decide what can be in the registry, and an answer never
\* comes before there is something to answer it.
TypeOK ==
  /\ host \in {"api", "risk"} /\ files \in FileStates /\ mode \in Modes /\ row_limit \in RowLimits
  /\ step \in Files \cup {"none", "index", "articles", "loaded", "failed"}
  /\ index \subseteq sanctions
  /\ truncated \subseteq {"opensanctions"}
  /\ clients \subseteq ClientRows
  /\ Len(graphs) <= 1
  /\ \A id \in RequestIds : \A i \in DOMAIN media_store[id] :
       /\ media_store[id][i].entity_id = id
       /\ [media_store[id][i] EXCEPT !.entity_id = None] \in Findings
  /\ caller \in ClientRows \cup {None}
  /\ caller # None => host = "risk" /\ step \notin {"none", "loaded", "failed"}
  /\ host = "api" /\ answer # NoAnswer => step = "loaded"

\* What the lists in force publish: an entity's id and one of its names.
SdnPublished(rows, alts) ==
  {<<r.ent_num, NormalizedSdnName(r.sdn_name)>> : r \in {r \in rows : SdnUsable(r)}}
  \cup (UNION {{<<r.ent_num, n>> : n \in r.remarks.akas} : r \in {r \in rows : SdnUsable(r)}})
  \cup {<<a.ent_num, a.alt_name>> : a \in {a \in alts :
           a.alt_name # Unknown /\ \E r \in rows : SdnUsable(r) /\ r.ent_num = a.ent_num}}
TargetsPublished(rows) ==
  UNION {{<<r.id, n>> : n \in {r.name} \cup r.aliases} : r \in {r \in rows : OpenSanctionsUsable(r)}}
Published ==
  (IF Reads("sdn", WantReal)
   THEN SdnPublished(ToSet(SdnRows) \ {HeaderRow}, ToSet(AltRows) \ {HeaderRow}) ELSE {})
  \cup (IF Reads("opensanctions", WantReal) THEN TargetsPublished(ToSet(OpenSanctionsRows)) ELSE {})
  \cup (IF Reads("fixtures", WantFixtures)
        THEN SdnPublished(ToSet(FixtureSdnRows) \ {HeaderRow}, {})
             \cup TargetsPublished(ToSet(FixtureTargetRows)) ELSE {})
EveryNameIndexed ==
  \A p \in Published : \E e \in Retrieve(index, p[2]) : e.entity_id[2] = p[1]

\* Who is told that coverage is complete can screen for every name that the
\* lists in force publish (services.py:60-71, api.py:119-121); and a bridge that
\* found a match after a load that failed had all of the lists as well
\* (services.py:164-191, risk_bridge.py:53-57).
CoverageHonest ==
  /\ answer.kind = "health" /\ answer.sanctions_coverage_complete => EveryNameIndexed
  /\ (answer.kind = "enriched" /\ answer.records # {} /\ row_limit = Unknown) => EveryNameIndexed

\* Nothing that would be a match is kept from the caller: an entity that was
\* retrieved and would be one with its description compared is among the answers,
\* unless the limit is full of answers at least as good (resolution.py:114-121)...
ScreeningComplete ==
  answer.kind = "matches" =>
    \A e \in Retrieve(index, answer.query.name) :
      LET full == weighted_match_score(FullScores(answer.query, e)) IN
      \/ full < POSSIBLE_THRESHOLD
      \/ \E r \in answer.records : r.matched_against = e.entity_id
      \/ /\ Cardinality(answer.records) = answer.limit
         /\ \A r \in answer.records : r.match_score >= full

\* ... and a party at the end of any chain of ownership that is not too long is
\* reported (ubo_graph.py:44-48).
ChainComplete ==
  answer.kind = "chain" =>
    \A k \in 1..answer.max_depth : \A chain \in [0..k -> DOMAIN graphs[1].nodes] :
      (/\ chain[0] = answer.root /\ chain[k] # answer.root
       /\ \A i \in 1..k : <<chain[i - 1], chain[i]>> \in graphs[1].edges
       /\ {} \notin Resolutions(graphs[1].nodes[chain[k]], index, 1))
      => chain[k] \in answer.findings

\* No listed party is withheld: not by a registry that says it is complete, nor from
\* a screening or a trace.
NoMatchWithheld == CoverageHonest /\ ScreeningComplete /\ ChainComplete

\* Points are earned: the bonus for an authoritative list by a match that is not
\* a demo fixture (contracts.py:236-250), points for news by a finding with claims
\* whose article tried to give no instructions (contracts.py:286-293).
PointsEarned ==
  answer.kind = "signals" =>
    LET named == {f.name : f \in answer.assessment.factors} IN
    /\ "trusted_sanctions_source" \in named => \A r \in answer.records : ~r.source.fixture
    /\ "media_severity" \in named =>
         /\ answer.finding # None
         /\ ~answer.finding.injection_attempt_detected /\ answer.finding.claims # {}
    /\ answer.assessment.sar_recommended => answer.assessment.trigger_investigation

\* "A confirmed sanctions hit cannot be diluted by otherwise clean behavior", with a
\* floor of 85 for a confidence of 0.85 and one of 65 for 0.60 (memory_risk_engine.md:58,
\* :61-62): whatever the other sections of a payload say of the customer's owners,
\* payments or news.  It is of the payload as it comes to the engine: a section that
\* screening has replaced no longer says "confirmed" (risk_bridge.py:76).
ConfirmedNeverDiluted ==
  LET submitted == answer.payload.sanctions
      confidence == numeric(submitted.match_confidence, 0)
  IN answer.kind = "assessment" /\ submitted.confirmed =>
       /\ confidence >= 60 => answer.assessment.risk_score >= Thresholds.medium_floor
       /\ confidence >= 85 => /\ answer.assessment.risk_score >= Thresholds.high_floor
                             /\ answer.assessment.risk_level = "CRITICAL"

\* A score is deserved: points have their cause, and a hit that the engine is told is
\* confirmed is not diluted.
ScoresDeserved == PointsEarned /\ ConfirmedNeverDiluted

\* The docstring of retrieve: "a reordered query ("Rashid, Mohammed" vs "Mohammed
\* Al Rashid") still retrieves" (resolution.py:74-75).
ReorderedRetrieved ==
  answer.kind = "matches" =>
    \A e \in index : SameWords(answer.query.name, e.name) => e \in Retrieve(index, answer.query.name)
=============================================================================
