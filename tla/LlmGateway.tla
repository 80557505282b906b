----------------------------- MODULE LlmGateway -----------------------------
(***************************************************************************)
(* How an article is read with a language model: analyze_article           *)
(* (services.py) asks the environment for a backend (llm_providers.py),    *)
(* sends the article to it twice, to extract claims and then to guard them *)
(* (llm_agent.py), lets no identifier leave for a third party              *)
(* (egress.py), looks for injected instructions itself (injection.py), and *)
(* reads the article with a heuristic whenever that does not work out.     *)
(*                                                                         *)
(* A text is the set of the identifiers in it; a model may answer          *)
(* anything, late answers and lost connections being exceptions.           *)
(* A definition named X_Y is X with a plausible bug, Y; it is not used.    *)
(***************************************************************************)
EXTENDS Naturals, FiniteSets

CONSTANTS
  Articles,      \* articles, see ArticlesAssumption
  Claims,        \* what may be claimed
  Carries,       \* the identifiers in the text of each claim
  Identifiers,   \* kinds of identifiers, those no pattern knows included
  Nothing

\* An injected phrase, by what it asks for and how it is hidden (injection.py).
Phrases == [asks : {"override", "do_not_follow", "role", "marker", "impersonation",
                    "control", "verdict", "field", "action"},
            hidden : {"no", "zero_width", "homoglyph", "spaced", "punctuated"}]

ASSUME ArticlesAssumption ==
  Articles \subseteq [identifiers : SUBSET Identifiers, phrases : SUBSET Phrases,
                      alleges : SUBSET Claims]
ASSUME CarriesAssumption == Carries \in [Claims -> SUBSET Identifiers]

VARIABLES
  environ,    \* the variables of the environment
  pc,
  article,
  backend,    \* the backend that was built
  extraction, \* what the first pass answered
  outgoing,   \* the identifiers in the text to send, after the policy
  attempt,    \* which request of the pass comes next
  sent,       \* what was sent, to this host or to a third party
  calls,      \* in how many requests
  guard,      \* what the second pass answered
  finding

gatewayVars == <<environ, pc, article, backend, extraction, outgoing, attempt, sent, calls, guard, finding>>

-----------------------------------------------------------------------------
\* A URL leads to a server on this host or to a third party's, and holds, wherever in
\* its text, "localhost", an address of this host ("127.0.0.1" or "://0.0.0.0") or
\* neither.  The two need not agree: a server here may be called "::1", and a host
\* elsewhere "localhost.example.org".
Urls == [here : BOOLEAN, holds : {"", "localhost", "address"}]

\* The environment: provider "" is unset, and base_url Nothing too.
Providers == {"", "none", "anthropic", "ollama", "nvidia", "mistyped"}
Environments ==
  [provider : Providers, anthropic_key : BOOLEAN, base_url : Urls \cup {Nothing},
   api_key : BOOLEAN, policy : {"block", "redact", "allow", "mistyped"}, library : BOOLEAN]

Elsewhere == [here |-> FALSE, holds |-> ""]
Presets == [ollama |-> [here |-> TRUE, holds |-> "localhost"], nvidia |-> Elsewhere]
DEFAULT_PRESET == "ollama"

is_disabled == environ.provider = "none"
UsesAnthropic == environ.provider = "anthropic" \/ (environ.provider = "" /\ environ.anthropic_key)
PresetName == IF environ.provider = "" THEN DEFAULT_PRESET ELSE environ.provider
BaseUrl == IF environ.base_url = Nothing THEN Presets[PresetName] ELSE environ.base_url

\* Inference on this host is no disclosure.  Whether it is on this host is told from
\* the text of the URL, whichever preset was asked for and wherever the URL leads.
Local_ByPreset(name, url) == name = "ollama"
Local(name, url) == url.holds # ""

Anthropic == [name |-> "anthropic", preset |-> Nothing, url |-> Elsewhere, local |-> FALSE]
OpenAICompat(name, url) ==
  [name |-> "openai_compat", preset |-> name, url |-> url, local |-> Local(name, url)]

\* Local servers need no key; only the name "localhost" is known for one here.
HasKey == environ.api_key \/ PresetName = "ollama" \/ BaseUrl.holds = "localhost"

build_backend ==
  IF is_disabled \/ ~environ.library THEN Nothing
  ELSE IF UsesAnthropic THEN Anthropic
  ELSE IF PresetName \notin DOMAIN Presets THEN Nothing
  ELSE IF ~HasKey THEN Nothing
  ELSE OpenAICompat(PresetName, BaseUrl)

describe ==
  IF is_disabled THEN [provider |-> "disabled", preset |-> Nothing, base_url |-> Nothing]
  ELSE IF UsesAnthropic THEN [provider |-> "anthropic", preset |-> Nothing, base_url |-> Nothing]
  ELSE IF PresetName \in DOMAIN Presets
  THEN [provider |-> "openai_compat", preset |-> PresetName, base_url |-> BaseUrl]
  ELSE [provider |-> PresetName, preset |-> Nothing, base_url |-> Nothing]

\* A local server is asked for its models, `reachable` being its answer.
is_configured(reachable) ==
  build_backend # Nothing /\ (build_backend.local => reachable)

-----------------------------------------------------------------------------
\* The kinds that are looked for; scan finds those, and redact takes them out.
PII_PATTERNS ==
  {"internal_id", "email", "card_number", "iban", "ssn", "aadhaar", "passport", "phone", "swift"}
scan(text) == text \cap PII_PATTERNS
redact(text) == text \ scan(text)

\* current_policy and enforce: the identifiers that leave, or Nothing to refuse.
current_policy == IF environ.policy = "mistyped" THEN "block" ELSE environ.policy
enforce(text, local) ==
  IF local \/ scan(text) = {} \/ current_policy = "allow" THEN text
  ELSE IF current_policy = "redact" THEN redact(text) ELSE Nothing

\* detect_injection: spaced letters are joined, across words too, and then, as with
\* punctuation, only the patterns for text without spaces can match, but for a
\* marker, which is one word.
Detected(phrase) ==
  \/ phrase.hidden \in {"no", "zero_width", "homoglyph"}
  \/ phrase.asks \in {"override", "role"}
  \/ phrase.asks = "marker" /\ phrase.hidden = "spaced"
detect_injection(a) == \E phrase \in a.phrases : Detected(phrase)

-----------------------------------------------------------------------------
\* What becomes of an article.
HeuristicFinding(llm_error) ==
  [claims |-> article.alleges, dropped |-> {}, flagged |-> detect_injection(article),
   method |-> "heuristic", model |-> Nothing, llm_error |-> llm_error]

Ends(f) ==
  /\ pc' = "done"
  /\ finding' = f
  /\ outgoing' = {}
  /\ attempt' = 0

\* Any exception ends in the heuristic.
Fallback_Raises ==
  /\ pc' = "idle"
  /\ outgoing' = {}
  /\ attempt' = 0
  /\ UNCHANGED finding
Fallback == Ends(HeuristicFinding(TRUE))

GatewayInit ==
  /\ environ \in Environments
  /\ pc = "idle"
  /\ article = Nothing
  /\ backend = Nothing
  /\ extraction = Nothing
  /\ outgoing = {}
  /\ attempt = 0
  /\ sent = {}
  /\ calls = 0
  /\ guard = Nothing
  /\ finding = Nothing

\* analyze_article; use_llm is None when the environment is to decide.
Begin(a, use_llm) ==
  /\ pc \in {"idle", "done"}
  /\ article' = a
  /\ pc' = IF use_llm = "unsaid" THEN "probe" ELSE IF use_llm = "yes" THEN "build" ELSE "heuristic"
  /\ backend' = Nothing
  /\ extraction' = Nothing
  /\ outgoing' = {}
  /\ attempt' = 0
  /\ sent' = {}
  /\ calls' = 0
  /\ guard' = Nothing
  /\ finding' = Nothing
  /\ UNCHANGED environ

Probe(reachable) ==
  /\ pc = "probe"
  /\ pc' = IF is_configured(reachable) THEN "build" ELSE "heuristic"
  /\ UNCHANGED <<environ, article, backend, extraction, outgoing, attempt, sent, calls, guard, finding>>

Heuristic ==
  /\ pc = "heuristic"
  /\ Ends(HeuristicFinding(FALSE))
  /\ UNCHANGED <<environ, article, backend, extraction, sent, calls, guard>>

\* analyze builds a backend of its own, after the probe.
Build_AsProbed ==
  /\ pc = "build"
  /\ backend' = build_backend
  /\ pc' = "extract"
  /\ UNCHANGED <<environ, article, extraction, outgoing, attempt, sent, calls, guard, finding>>
Build ==
  /\ pc = "build"
  /\ backend' = build_backend
  /\ IF build_backend = Nothing THEN Fallback
     ELSE pc' = "extract" /\ UNCHANGED <<outgoing, attempt, finding>>
  /\ UNCHANGED <<environ, article, extraction, sent, calls, guard>>

\* complete_json: the text of a pass crosses the policy once.
TextOf(pass) ==
  article.identifiers \cup
  IF pass = "guard" THEN UNION {Carries[c] : c \in extraction.claims} ELSE {}
Enforce(pass) ==
  /\ pc = pass
  /\ LET leaves == enforce(TextOf(pass), backend.local) IN
     IF leaves = Nothing THEN Fallback
     ELSE /\ pc' = IF pass = "extract" THEN "ask_extract" ELSE "ask_guard"
          /\ outgoing' = leaves
          /\ attempt' = 1
          /\ UNCHANGED finding
  /\ UNCHANGED <<environ, article, backend, extraction, sent, calls, guard>>

\* One request.  An OpenAI-compatible server is asked for a JSON object first, and
\* without that when it raises (attempts 1 and 2); an answer that cannot be used
\* costs one retry of both (3 and 4).  Anthropic is asked once.
Request ==
  /\ sent' = sent \cup {[to |-> backend.url, identifiers |-> outgoing]}
  /\ calls' = calls + 1
Asking == pc \in {"ask_extract", "ask_guard"}

AfterRaise == IF backend.name = "openai_compat" /\ attempt \in {1, 3} THEN attempt + 1 ELSE Nothing
AfterUnusable == IF backend.name = "openai_compat" /\ attempt \in {1, 2} THEN 3 ELSE Nothing

Retry(next) ==
  IF next = Nothing THEN Fallback
  ELSE attempt' = next /\ UNCHANGED <<pc, outgoing, finding>>

Raises ==
  /\ Asking
  /\ Request
  /\ Retry(AfterRaise)
  /\ UNCHANGED <<environ, article, backend, extraction, guard>>
Unusable ==
  /\ Asking
  /\ Request
  /\ Retry(AfterUnusable)
  /\ UNCHANGED <<environ, article, backend, extraction, guard>>
\* A JSON object with the keys, whose parts cannot be read: not lists of objects, or
\* objects without a key that is asked of them.
Misshapen ==
  /\ Asking
  /\ Request
  /\ Fallback
  /\ UNCHANGED <<environ, article, backend, extraction, guard>>

\* What the guard says of a claim in "supported": true, false (or nothing, zero, an
\* empty text), or something else, which Python takes for true: the text "false" too.
Rulings == {"true", "false", "else"}
Truthy(ruling) == ruling # "false"

\* A claim stays when a verdict upholds it; one without a verdict does not.
Kept_Blocklist(e, verdicts) ==
  {c \in e.claims : c \in DOMAIN verdicts => Truthy(verdicts[c])}
Kept(e, verdicts) == {c \in e.claims : c \in DOMAIN verdicts /\ Truthy(verdicts[c])}
GuardedFinding(e, verdicts) ==
  [claims |-> Kept(e, verdicts), dropped |-> e.claims \ Kept(e, verdicts),
   flagged |-> detect_injection(article) \/ e.suspected,
   method |-> "llm_two_pass", model |-> backend.name, llm_error |-> FALSE]

NoVerdicts == [c \in {} |-> "true"]

\* guard_claims makes no call when there is nothing to verify.
Extracted(e) ==
  /\ pc = "ask_extract"
  /\ Request
  /\ extraction' = e
  /\ IF e.claims = {} THEN Ends(GuardedFinding(e, NoVerdicts))
     ELSE pc' = "guard" /\ outgoing' = {} /\ attempt' = 0 /\ UNCHANGED finding
  /\ UNCHANGED <<environ, article, backend, guard>>

Guarded(verdicts) ==
  /\ pc = "ask_guard"
  /\ Request
  /\ guard' = verdicts
  /\ Ends(GuardedFinding(extraction, verdicts))
  /\ UNCHANGED <<environ, article, backend, extraction>>

Extractions == [claims : SUBSET Claims, suspected : BOOLEAN]
Verdicts == UNION {[ruled -> Rulings] : ruled \in SUBSET Claims}

Step ==
  \/ \E reachable \in BOOLEAN : Probe(reachable)
  \/ Heuristic \/ Build
  \/ Enforce("extract") \/ Enforce("guard")
  \/ Raises \/ Unusable \/ Misshapen
  \/ \E e \in Extractions : Extracted(e)
  \/ \E v \in Verdicts : Guarded(v)
GatewayNext == Step \/ \E a \in Articles, use_llm \in {"unsaid", "yes", "no"} : Begin(a, use_llm)

\* The clients give up on a request after their timeout.
GatewaySpec == GatewayInit /\ [][GatewayNext]_gatewayVars /\ WF_gatewayVars(Step)

-----------------------------------------------------------------------------
InFlight == {"ask_extract", "ask_guard"}
Backends ==
  [name : {"anthropic", "openai_compat"}, preset : DOMAIN Presets \cup {Nothing}, url : Urls,
   local : BOOLEAN]
ArticleFindings ==
  [claims : SUBSET Claims, dropped : SUBSET Claims, flagged : BOOLEAN, method : {"heuristic", "llm_two_pass"},
   model : {"anthropic", "openai_compat", Nothing}, llm_error : BOOLEAN]

\* Nothing is none of the things it stands in for.
ASSUME NothingAssumption ==
  /\ Nothing \notin Articles /\ Nothing \notin Backends /\ Nothing \notin ArticleFindings
  /\ Nothing \notin Verdicts /\ Nothing \notin Urls /\ \A text \in SUBSET Identifiers : text # Nothing

GatewayTypeOK ==
  /\ environ \in Environments
  /\ pc \in {"idle", "probe", "heuristic", "build", "extract", "guard", "done"} \cup InFlight
  /\ article \in Articles \cup {Nothing}
  /\ backend \in Backends \cup {Nothing}
  /\ finding \in ArticleFindings \cup {Nothing}
  /\ pc \notin {"idle", "done"} => article # Nothing
  /\ outgoing \in SUBSET Identifiers /\ attempt \in 0..4 /\ calls \in Nat
  /\ pc \in {"extract", "guard"} \cup InFlight => backend # Nothing
  /\ pc \in {"guard", "ask_guard"} => extraction \in Extractions
  /\ guard \in Verdicts \cup {Nothing}
  /\ pc \in InFlight <=> attempt # 0
  /\ pc = "done" <=> finding # Nothing

\* "every outbound string is scanned before it leaves, and the policy decides"
\* (egress.py:13): in either pass, and in every retry, a server elsewhere is sent
\* identifiers that are looked for only when the policy allows it, with one exception
\* that the words do not have: a server elsewhere whose URL holds a name of this host
\* is taken for one here (llm_providers.py:212-214) and sent everything.  Whichever
\* preset led to it does not matter.  Nothing at all is sent when the model is switched
\* off (llm_providers.py:288-290); one article costs at most four requests a pass ("one
\* retry is spent", llm_providers.py:191); and what is sent goes where /health says
\* (llm_providers.py:299-324, :376-408).
LeavesOnlyAsAllowed ==
  /\ \A text \in sent :
       ~text.to.here /\ text.identifiers \cap PII_PATTERNS # {} =>
         environ.policy = "allow" \/ text.to.holds # ""
  /\ \A text \in sent :
       describe.provider \in {"anthropic", "openai_compat"}
       /\ text.to = IF describe.provider = "anthropic" THEN Elsewhere ELSE describe.base_url
  /\ is_disabled => sent = {}
  /\ calls <= 8 /\ (backend # Nothing /\ backend.name = "anthropic" => calls <= 2)

\* A two-pass finding accounts for every claim of the first pass: it was kept, and then
\* the second pass ruled on it and did not say false, or it is counted as dropped, and
\* then there was no ruling on it or that it is false (llm_agent.py:217-230,
\* services.py:318).  A ruling in other words, "false" as a text included, keeps a claim.
\* When either pass fails nothing that a model claimed is in the finding.
OnlyUpheld ==
  pc = "done" =>
    IF finding.method = "llm_two_pass"
    THEN /\ finding.claims \cup finding.dropped = extraction.claims
         /\ \A c \in finding.claims : guard # Nothing /\ c \in DOMAIN guard /\ guard[c] # "false"
         /\ \A c \in finding.dropped : guard # Nothing /\ (c \in DOMAIN guard => guard[c] = "false")
    ELSE finding.claims = article.alleges /\ finding.dropped = {}

\* Every article is answered with a finding, whatever the model does
\* (services.py:353-358).
EveryArticleAnswered == (pc = "probe" \/ pc = "build" \/ pc = "heuristic") ~> pc = "done"
=============================================================================
