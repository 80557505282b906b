------------------------ MODULE InvestigationPipeline ------------------------
(***************************************************************************)
(* POST and GET /investigate/{client_id} (backend/app/routers/             *)
(* investigation.py) and the pipeline they run (services/orchestrator.py): *)
(* investigation agent, grounding guardrail, debate, guardrail, SAR agent  *)
(* with its guardrail.                                                     *)
(*                                                                         *)
(* Handlers share one event loop: a handler runs undisturbed up to its     *)
(* next await, which is always a call to the language model.  A call is    *)
(* answered or fails (as does an answer that does not validate); a handler *)
(* may also be cancelled while it waits.  _running keeps a client's runs   *)
(* apart, _results_cache keeps its last result; both die with the process. *)
(*                                                                         *)
(* Of an answer of the model only the citations matter, and of a SAR draft *)
(* its text as well (PrivacyGuardrail).  An id names a record of a dataset *)
(* (DatasetLoaders), or does not, or is of a type with nothing to check    *)
(* against.  Datasets are read without an await, at their first use.       *)
(* The judge's key_deciding_evidence, which nothing verifies, is left out. *)
(*                                                                         *)
(* In demo mode (agents/demo_pipeline.py) no model is called: every stage  *)
(* is computed from the profile, without an await.                         *)
(*                                                                         *)
(* A definition named X_Y is the definition X with a plausible bug, Y; no  *)
(* specification uses it.                                                  *)
(***************************************************************************)
EXTENDS Naturals, Sequences, FiniteSets, PrivacyGuardrail, DatasetLoaders

CONSTANTS
  Requests,      \* POST handlers that may be open at a time
  Strangers,     \* ids without a profile in the KYC file
  Deployments,   \* the states the datasets' files may be in
  Unchecked,     \* citations of a type without ground truth
  Citings,       \* the sets of citations that answers of the model may hold
  Overlaps,      \* pairs of citations, one a substring of the other
  Accounts,      \* citations of a transaction: they hold an account number
  Indicators,    \* demo mode: client |-> its risk indicators, with their citations
  Baseline,      \* demo mode: the citation of a client without any, "client_id"
  Drafts,        \* texts the model drafts
  MaxPosts,      \* bound: POST requests
  MaxRestarts    \* bound: restarts of the server

\* What _verify_source_id makes of a citation.
Citations == Resolvable \cup Unresolvable \cup Unchecked

ASSUME CitationsAssumption ==
  /\ Resolvable \cap Unresolvable = {}
  /\ Unchecked \cap (Resolvable \cup Unresolvable) = {}
  /\ Overlaps \subseteq Citations \X Citations
  /\ Citings \subseteq SUBSET Citations
ASSUME ClientsAssumption == Clients \cap Strangers = {} /\ BuiltIn \subseteq Clients \cup Strangers
ASSUME DeploymentsAssumption == Deployments \subseteq [Datasets -> Files]
\* The demo cites fields of the profile and accounts of the client, which resolve.
ASSUME DemoAssumption ==
  /\ Indicators \in [Clients \cup BuiltIn ->
                       SUBSET [severity : {"medium", "high", "critical"}, cites : Resolvable]]
  /\ \A c \in Clients \cup BuiltIn : \A i \in Indicators[c] :
       i.cites \in Accounts \/ DatasetOf[i.cites] = "clients"
  /\ Baseline \in Resolvable /\ DatasetOf[Baseline] = "clients"
  /\ Accounts \subseteq Citations
ASSUME DraftsAssumption ==
  Drafts \subseteq [subject : Seq(Pieces), narrative : Seq(Pieces), flags : SUBSET Pieces,
                    basis : SUBSET {"generic", "article5", "article9"}]
ASSUME BoundsAssumption == MaxPosts \in Nat /\ MaxRestarts \in Nat

VARIABLES
  running,        \* _running: clients with a run in progress
  results_cache,  \* _results_cache: client |-> result, for the clients in it
  request,        \* what each POST handler is doing
  posts,          \* number of POSTs so far; a run is named by its POST
  llm_mode,       \* settings.llm_mode
  files,          \* the datasets' files
  caches,         \* the loaders' globals
  failed,         \* ghost: datasets whose loading failed a request of this process
  restarts

settings == <<llm_mode, files>>
vars == <<running, results_cache, request, posts, settings, caches, failed, restarts>>

Verdicts == {"escalate_to_sar", "further_investigation", "false_positive_clear"}
Modes == {"demo", "provider"}
None == [drafted |-> FALSE]

\* An answer of which a citation can be verified is kept whole.
Verified_AllOrNothing(held, evidence) ==
  IF \E cite \in evidence : Resolves(held, cite) THEN evidence ELSE {}

\* verify_finding keeps what resolves and what cannot be checked; verify_sar does
\* the same to the evidence appendix of a draft.
Verified(held, evidence) == {cite \in evidence : cite \in Unchecked \/ Resolves(held, cite)}

\* Genuine citations that are not kept.
Lost(held, evidence) == (evidence \cap Resolvable) \ Verified(held, evidence)

\* Verifying looks the citations up, in any order; a loader may raise.
Verification(evidence) == Consulted(files, caches, evidence \ Unchecked)

\* demo_sar: the narrative names every source id, the account of a transaction
\* among them.
demo_sar(evidence) ==
  [subject |-> <<"word">>,
   narrative |-> <<"word">> \o (IF evidence \cap Accounts = {} THEN <<>> ELSE <<"digits">>),
   flags |-> {"word"}, basis |-> {"generic"}]

\* Every draft with the text that redact_sar makes of it.
AllDrafts == Drafts \cup {demo_sar(evidence) : evidence \in SUBSET Citations}
Redacted == [draft \in AllDrafts |-> redact_sar(draft)]

\* Redacting asks for the articles of the GDPR, if anything is redacted.
Redaction(memory, draft) ==
  IF AsksForArticles(Redacted[draft]) THEN Load(files, memory, "gdpr") ELSE memory

\* What draft_sar returns: the appendix verified, then the text redacted.  The draft
\* itself is kept for the properties.
Sar(held, appendix, draft) ==
  [drafted |-> TRUE, appendix |-> Verified(held, appendix), text |-> Redacted[draft],
   draft |-> draft]

\* verify_debate_argument keeps a reference that is, contains or is contained
\* in a source id of the verified finding.
VerifiedRefs(refs, evidence) ==
  {ref \in refs : \E id \in evidence :
     ref = id \/ <<ref, id>> \in Overlaps \/ <<id, ref>> \in Overlaps}

Result(r, verdict, sar) ==
  LET run == request[r] IN
    [run |-> run.run, outcome |-> verdict, evidence |-> run.evidence, lost |-> run.lost,
     prosecution |-> VerifiedRefs(run.prosecution, run.evidence),
     defense |-> VerifiedRefs(run.defense, run.evidence), sar |-> sar]

\* Handlers inside run_pipeline, and their runs.
InPipeline(r) == request[r].pc \in {"investigating", "debating", "judging", "drafting"}
RunOf(r) == IF request[r].pc = "drafting" THEN request[r].pending.run ELSE request[r].run

-----------------------------------------------------------------------------
Idle == [pc |-> "idle"]

Init ==
  /\ running = {}
  /\ results_cache = [c \in {} |-> None]
  /\ request = [r \in Requests |-> Idle]
  /\ posts = 0
  /\ llm_mode \in Modes
  /\ files \in Deployments
  /\ caches = Unset
  /\ failed = {}
  /\ restarts = 0

\* Loading has left memory; the request that asked for it is answered with an error if
\* a loader raised.
Remember(memory) ==
  /\ caches' = memory.caches
  /\ failed' = failed \cup memory.raised

\* get_client_profile, then _gather_context.
ProfileLookup == Load(files, Memory(caches), "clients")
Gathered(c) == Load(files, ClientTransactions(files, ProfileLookup, c), "sanctions")

Begun(r, c) ==
  [request EXCEPT ![r] = [pc |-> "investigating", client |-> c, run |-> posts + 1]]

\* GET /clients asks for the profiles.
ListClients ==
  /\ Remember(ProfileLookup)
  /\ UNCHANGED <<running, results_cache, request, posts, settings, restarts>>

\* No 409 for a client whose run is in progress.
Post_NoConflict(r, c) ==
  /\ llm_mode = "provider"
  /\ request[r].pc = "idle"
  /\ posts < MaxPosts
  /\ posts' = posts + 1
  /\ IF Profiled(ProfileLookup.caches, c)
     THEN /\ Remember(Gathered(c))
          /\ IF Gathered(c).raised = {}
             THEN running' = running \cup {c} /\ request' = Begun(r, c)
             ELSE UNCHANGED <<running, request>>
     ELSE Remember(ProfileLookup) /\ UNCHANGED <<running, request>>
  /\ UNCHANGED <<results_cache, settings, restarts>>

\* The profile is not looked up.
Post_AnyClient(r, c) ==
  /\ llm_mode = "provider"
  /\ request[r].pc = "idle"
  /\ posts < MaxPosts
  /\ posts' = posts + 1
  /\ IF c \notin running
     THEN running' = running \cup {c} /\ request' = Begun(r, c)
     ELSE UNCHANGED <<running, request>>
  /\ UNCHANGED <<results_cache, settings, caches, failed, restarts>>

\* A POST arrives: an error, a 404, a 409, or a run, which gathers the client's records;
\* if a loader raises the run is over (a 502), else the model is called.
Post(r, c) ==
  /\ llm_mode = "provider"
  /\ request[r].pc = "idle"
  /\ posts < MaxPosts
  /\ posts' = posts + 1
  /\ IF ProfileLookup.raised = {} /\ Profiled(ProfileLookup.caches, c) /\ c \notin running
     THEN /\ Remember(Gathered(c))
          /\ IF Gathered(c).raised = {}
             THEN running' = running \cup {c} /\ request' = Begun(r, c)
             ELSE UNCHANGED <<running, request>>
     ELSE Remember(ProfileLookup) /\ UNCHANGED <<running, request>>
  /\ UNCHANGED <<results_cache, settings, restarts>>

\* investigate answers and the guardrail strips its evidence; the prosecutor
\* and the defender are called together.
FindingArrives(r, evidence) ==
  /\ request[r].pc = "investigating"
  /\ \E memory \in Verification(evidence) :
       /\ memory.raised = {}
       /\ Remember(memory)
       /\ request' = [request EXCEPT ![r] =
            [pc |-> "debating", client |-> request[r].client, run |-> request[r].run,
             evidence |-> Verified(memory.caches, evidence),
             lost |-> Lost(memory.caches, evidence),
             awaited |-> {"prosecution", "defense"}, prosecution |-> {}, defense |-> {}]]
  /\ UNCHANGED <<running, results_cache, posts, settings, restarts>>

\* gather returns when both have answered, in either order; then the judge is
\* called with both arguments as they came.
ArgumentArrives(r, side, refs) ==
  /\ request[r].pc = "debating"
  /\ side \in request[r].awaited
  /\ request' = [request EXCEPT ![r] =
       LET run == request[r] IN
         [pc |-> IF run.awaited = {side} THEN "judging" ELSE "debating",
          client |-> run.client, run |-> run.run, evidence |-> run.evidence, lost |-> run.lost,
          awaited |-> run.awaited \ {side},
          prosecution |-> IF side = "prosecution" THEN refs ELSE run.prosecution,
          defense |-> IF side = "defense" THEN refs ELSE run.defense]]
  /\ UNCHANGED <<running, results_cache, posts, settings, caches, failed, restarts>>

\* The pipeline returns: the result is cached and the client is free again.
Complete(r, result) ==
  /\ results_cache' = [c \in DOMAIN results_cache \cup {request[r].client} |->
       IF c = request[r].client THEN result ELSE results_cache[c]]
  /\ running' = running \ {request[r].client}
  /\ request' = [request EXCEPT ![r] = Idle]
  /\ UNCHANGED <<posts, settings, restarts>>

\* The verdict arrives, the arguments are stripped, and only an escalation goes
\* on to the SAR agent.
VerdictArrives(r, verdict) ==
  /\ request[r].pc = "judging"
  /\ IF verdict = "escalate_to_sar"
     THEN /\ request' = [request EXCEPT ![r] =
               [pc |-> "drafting", client |-> request[r].client,
                pending |-> Result(r, verdict, None)]]
          /\ UNCHANGED <<running, results_cache, posts, settings, restarts>>
     ELSE Complete(r, Result(r, verdict, None))
  /\ UNCHANGED <<caches, failed>>

\* The draft arrives: its appendix is verified, its text redacted.
SarArrives(r, appendix, draft) ==
  /\ request[r].pc = "drafting"
  /\ \E memory \in Verification(appendix) :
       /\ Redaction(memory, draft).raised = {}
       /\ Remember(Redaction(memory, draft))
       /\ Complete(r, [request[r].pending EXCEPT
            !.lost = @ \cup Lost(memory.caches, appendix),
            !.sar = Sar(memory.caches, appendix, draft)])

\* Only Exception is handled: a cancelled handler leaves its client locked.
Stops_NoFinally(r) ==
  /\ InPipeline(r)
  /\ running' \in {running, running \ {request[r].client}}
  /\ request' = [request EXCEPT ![r] = Idle]
  /\ UNCHANGED <<results_cache, posts, settings, restarts>>

\* A call fails, an answer does not validate (a 502), or the handler is cancelled:
\* finally frees the client, and nothing is cached.
Stops(r) ==
  /\ InPipeline(r)
  /\ running' = running \ {request[r].client}
  /\ request' = [request EXCEPT ![r] = Idle]
  /\ UNCHANGED <<results_cache, posts, settings, restarts>>

\* An answer cites what a loader raises for.
Unverifiable(r, evidence) ==
  /\ request[r].pc = "investigating"
  /\ \E memory \in Verification(evidence) : memory.raised # {} /\ Remember(memory)
  /\ Stops(r)

\* So does the appendix of a draft, or there is no gdpr.json for what must be redacted.
Unservable(r, appendix, draft) ==
  /\ request[r].pc = "drafting"
  /\ \E memory \in Verification(appendix) :
       Redaction(memory, draft).raised # {} /\ Remember(Redaction(memory, draft))
  /\ Stops(r)

\* The demo's _transactions goes on without what FileNotFoundError stands for, a missing
\* file; the next call finds the global set.
DemoGathered(c) ==
  LET memory == ClientTransactions(files, ProfileLookup, c)
  IN [memory EXCEPT !.raised = {d \in @ : files[d] # "absent"}]

\* The indicators of a client: those about transactions need a transaction.
Indicated(held, c) ==
  {i \in Indicators[c] :
     i.cites \in Accounts => HasAccount(held, c) /\ Resolves(held, i.cites)}

\* demo_finding: a citation for each indicator, and one when there is none.
demo_finding(held, c) ==
  IF Indicated(held, c) = {} THEN {Baseline} ELSE {i.cites : i \in Indicated(held, c)}

Elevated(held, c) == \E i \in Indicated(held, c) : i.severity \in {"high", "critical"}

\* demo_debate: the prosecution cites every id, the defense the first one; the judge
\* escalates when an indicator is high or critical.
DemoResult(held, c, first) ==
  LET evidence == Verified(held, demo_finding(held, c))
      elevated == Elevated(held, c)
  IN [run |-> posts + 1, evidence |-> evidence, lost |-> Lost(held, demo_finding(held, c)),
      outcome |-> IF elevated THEN "escalate_to_sar" ELSE "false_positive_clear",
      prosecution |-> VerifiedRefs(evidence, evidence),
      defense |-> VerifiedRefs({first}, evidence),
      sar |-> IF elevated THEN Sar(held, evidence, demo_sar(evidence)) ELSE None]

\* What the run has loaded by its end: an escalated client's SAR is redacted as well.
DemoLoaded(c) ==
  LET memory == DemoGathered(c)
      held == memory.caches
  IN IF memory.raised = {} /\ Elevated(held, c)
     THEN Redaction(memory, demo_sar(Verified(held, demo_finding(held, c)))) ELSE memory

\* A POST in demo mode, from beginning to end.
PostDemo(c) ==
  /\ llm_mode = "demo"
  /\ posts < MaxPosts
  /\ posts' = posts + 1
  /\ IF ProfileLookup.raised = {} /\ Profiled(ProfileLookup.caches, c) /\ c \notin running
     THEN LET held == DemoGathered(c).caches IN
       /\ Remember(DemoLoaded(c))
       /\ IF DemoLoaded(c).raised = {}
          THEN \E first \in demo_finding(held, c) :
                 results_cache' = [d \in DOMAIN results_cache \cup {c} |->
                   IF d = c THEN DemoResult(held, c, first) ELSE results_cache[d]]
          ELSE UNCHANGED results_cache
     ELSE Remember(ProfileLookup) /\ UNCHANGED results_cache
  /\ UNCHANGED <<running, request, settings, restarts>>

\* The server is restarted; everything was in memory.
Restart ==
  /\ restarts < MaxRestarts
  /\ running' = {}
  /\ results_cache' = [c \in {} |-> None]
  /\ request' = [r \in Requests |-> Idle]
  /\ llm_mode' \in Modes
  /\ files' \in Deployments
  /\ caches' = Unset
  /\ failed' = {}
  /\ restarts' = restarts + 1
  /\ UNCHANGED posts

\* GET .../status.
Status(c) ==
  IF c \in running THEN "running"
  ELSE IF c \notin DOMAIN results_cache THEN "not_started"
  ELSE IF results_cache[c].outcome = "error" THEN "error"
  ELSE "completed"

Answer(r) ==
  \/ \E cited \in Citings :
       \/ FindingArrives(r, cited)
       \/ \E side \in {"prosecution", "defense"} : ArgumentArrives(r, side, cited)
       \/ \E draft \in Drafts : SarArrives(r, cited, draft) \/ Unservable(r, cited, draft)
       \/ Unverifiable(r, cited)
  \/ \E verdict \in Verdicts : VerdictArrives(r, verdict)
  \/ Stops(r) /\ UNCHANGED <<caches, failed>>

Next ==
  \/ \E r \in Requests, c \in Clients \cup Strangers : Post(r, c)
  \/ \E r \in Requests : Answer(r)
  \/ \E c \in Clients \cup Strangers : PostDemo(c)
  \/ ListClients
  \/ Restart

Spec == Init /\ [][Next]_vars

\* Every call of the model ends: with an answer, an error or a time-out of the
\* client library.
FairSpec == Spec /\ \A r \in Requests : WF_vars(Answer(r))

-----------------------------------------------------------------------------
\* Type invariant.
TextType ==
  [subject : Seq(Pieces), narrative : Seq(Pieces), flags : SUBSET Pieces,
   basis : SUBSET {"generic", "article5", "article9"}, redactions : Nat]
SarType ==
  [drafted : {TRUE}, appendix : SUBSET Citations, text : TextType,
   draft : AllDrafts]
ResultType ==
  [run : 1..MaxPosts, outcome : Verdicts, evidence : SUBSET Citations,
   lost : SUBSET Resolvable, prosecution : SUBSET Citations, defense : SUBSET Citations,
   sar : {None} \cup SarType]
RequestType ==
  {Idle}
    \cup [pc : {"investigating"}, client : Clients \cup BuiltIn, run : 1..MaxPosts]
    \cup [pc : {"debating", "judging"}, client : Clients \cup BuiltIn, run : 1..MaxPosts,
          evidence : SUBSET Citations, lost : SUBSET Resolvable, prosecution : SUBSET Citations,
          defense : SUBSET Citations, awaited : SUBSET {"prosecution", "defense"}]
    \cup [pc : {"drafting"}, client : Clients \cup BuiltIn, pending : ResultType]
TypeOK ==
  /\ running \subseteq Clients \cup BuiltIn
  /\ DOMAIN results_cache \subseteq Clients \cup BuiltIn
  /\ \A c \in DOMAIN results_cache : results_cache[c] \in ResultType
  /\ request \in [Requests -> RequestType]
  /\ posts \in 0..MaxPosts
  /\ llm_mode \in Modes
  /\ files \in Deployments
  /\ caches \in [Datasets -> Contents]
  /\ failed \subseteq Datasets
  /\ restarts \in 0..MaxRestarts

\* A client has at most one run in progress; status says "running" exactly while it
\* has one, so that no failure, cancellation or answer leaves it locked; and that run
\* is later than the one whose result is cached, which it will replace.
OneRunPerClient ==
  /\ \A q, r \in Requests :
       InPipeline(q) /\ InPipeline(r) /\ request[q].client = request[r].client => q = r
  /\ \A c \in Clients \cup BuiltIn :
       Status(c) = "running" <=> \E r \in Requests : InPipeline(r) /\ request[r].client = c
  /\ \A r \in {q \in Requests : InPipeline(q)} :
       \A c \in DOMAIN results_cache \cap {request[r].client} :
         results_cache[c].run < RunOf(r)

\* A date with 40 characters before it at most, back to the start of a birth word.
Birthday(text, i) ==
  /\ text[i] = "date"
  /\ \E j \in 1..(i - 1) :
       /\ text[j] \in DOMAIN Signals
       /\ MapThenSumSet(LAMBDA k : Length[text[k]] + 1, j..(i - 1)) <= 40 + Signals[text[j]]

Personal(text, i) ==
  text[i] \in {"ssn", "passport", "mixed", "email", "phone", "digits"} \/ Birthday(text, i)

PersonalIn(draft) ==
  {p \in {"subject", "narrative"} \X (1..(Len(draft.subject) + Len(draft.narrative))) :
     p[2] \in DOMAIN draft[p[1]] /\ Personal(draft[p[1]], p[2])}

\* The text of a draft in which exactly what identifies a person without need is masked
\* (client ids and other dates stay), each masking counted and its article cited, and
\* whose red flags hold no account number.
WellRedacted(draft, text) ==
  LET personal == PersonalIn(draft)
      article9 == {p \in personal : draft[p[1]][p[2]] \in {"ssn", "passport", "mixed"}}
  IN
  /\ \A field \in {"subject", "narrative"} : \A i \in DOMAIN draft[field] :
       IF <<field, i>> \in personal
       THEN text[field][i] \in Placeholders ELSE text[field][i] = draft[field][i]
  /\ text.redactions = Cardinality(personal)
  /\ text.basis = draft.basis \cup (IF article9 = {} THEN {} ELSE {"article9"})
                              \cup (IF personal = article9 THEN {} ELSE {"article5"})
  /\ "digits" \notin text.flags

\* A result is fit for an officer to review: no citation that does not resolve survives
\* in its evidence or its SAR; a genuine one is missing only if the file it names is, or
\* if loading that file failed a request of this process; each citation of the arguments
\* is, holds or is held by one of the evidence that was kept; and a SAR is drafted for an
\* escalation and nothing else.
ResultFitForReview ==
  \A c \in DOMAIN results_cache :
    LET result == results_cache[c] IN
      /\ result.evidence \cap Unresolvable = {}
      /\ \A cite \in result.lost :
           DatasetOf[cite] \in failed \/ files[DatasetOf[cite]] = "absent"
      /\ \A ref \in result.prosecution \cup result.defense :
           \E id \in result.evidence : ref = id \/ {<<ref, id>>, <<id, ref>>} \cap Overlaps # {}
      /\ result.sar.drafted <=> result.outcome = "escalate_to_sar"
      /\ result.sar.drafted => result.sar.appendix \cap Unresolvable = {}

\* No SAR is served but well redacted, nor without the articles that its redactions
\* cite: a run that cannot read them serves nothing.
ServedRedacted ==
  \A c \in DOMAIN results_cache :
    LET sar == results_cache[c].sar IN
      sar.drafted =>
        /\ WellRedacted(sar.draft, sar.text)
        /\ sar.text.redactions > 0 => caches["gdpr"] = "whole"

\* Every run ends and frees its client for the next one.
ClientFreed == \A c \in Clients \cup BuiltIn : c \in running ~> c \notin running
=============================================================================
