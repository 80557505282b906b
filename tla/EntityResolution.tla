-------------------------- MODULE EntityResolution --------------------------
(***************************************************************************)
(* What projecttechm computes of a name: the candidates the index of the   *)
(* sanctions lists has for it, the six component scores of a candidate and *)
(* their weighted sum (scoring.py, resolution.py), the walk down an        *)
(* ownership graph (ubo_graph.py), and the records handed to the other     *)
(* parts of the system (contracts.py).  No state.                          *)
(*                                                                         *)
(* A name is a sequence of words.  Words are told apart by their first     *)
(* letters; a Short word has fewer than the four letters of a key and makes*)
(* them up with the word after it.  Likeness and ContextLikeness are what  *)
(* the fuzzy and the semantic matcher answer for texts that differ.        *)
(* Component scores are in hundredths, match scores in ten-thousandths.    *)
(***************************************************************************)
EXTENDS Integers, Sequences, FiniteSets, FiniteSetsExt

CONSTANTS
  Short,                  \* words of fewer than four letters
  Likeness(_, _),         \* fuzzy similarity of two names that differ in words
  ContextLikeness(_, _),  \* similarity of two descriptions
  IsoCode(_),             \* normalize_country of a spelling of a country
  Unknown                 \* a field that is missing

CONFIRMED_THRESHOLD == 8500
POSSIBLE_THRESHOLD == 5500
CONTEXT_WEIGHT == 15
CONTEXT_UNKNOWN == 30
CORROBORATION_FLOOR == 55

-----------------------------------------------------------------------------
\* The index: the key of a name is its first four letters, an entity stands
\* under the keys of its name and of its aliases, and a query is looked up by
\* its own key and by the keys of its words.
WordsOf(name) == {name[i] : i \in DOMAIN name}
candidate_retrieval_key(name) ==
  IF Len(name) > 1 /\ name[1] \in Short THEN <<name[1], name[2]>>
  ELSE SubSeq(name, 1, Min({1, Len(name)}))

IndexKeys(entity) ==
  {candidate_retrieval_key(n) : n \in {entity.name} \cup entity.aliases}

QueryKeys(name) ==
  {candidate_retrieval_key(n) : n \in {name} \cup {<<w>> : w \in WordsOf(name)}} \ {<<>>}

Retrieve(index, name) == {e \in index : IndexKeys(e) \cap QueryKeys(name) # {}}

-----------------------------------------------------------------------------
\* Component scores.
SameWords(a, b) ==
  /\ Len(a) = Len(b)
  /\ \A w \in WordsOf(a) \cup WordsOf(b) :
       Cardinality({i \in DOMAIN a : a[i] = w}) = Cardinality({i \in DOMAIN b : b[i] = w})
normalized_similarity(a, b) ==
  IF a = <<>> \/ b = <<>> THEN 0 ELSE IF SameWords(a, b) THEN 100 ELSE Likeness(a, b)
alias_similarity(name, aliases) ==
  IF aliases = {} THEN 0 ELSE Max({normalized_similarity(name, a) : a \in aliases})
fuzzy_or_unknown_match(a, b) ==
  IF a = <<>> \/ b = <<>> THEN 50 ELSE normalized_similarity(a, b)

country_match(a, b) ==
  IF Unknown \in {a, b} THEN 50 ELSE IF IsoCode(a) = IsoCode(b) THEN 100 ELSE 0

\* Dates of birth are compared part by part, a part that is 0 on either side
\* being unknown.
dob_match(a, b) ==
  IF Unknown \in {a, b} THEN 50
  ELSE IF \A i \in 1..3 : 0 \in {a[i], b[i]} \/ a[i] = b[i] THEN 100 ELSE 0

contextual_similarity(a, b) ==
  IF Unknown \in {a, b} THEN CONTEXT_UNKNOWN ELSE ContextLikeness(a, b)

weighted_match_score(s) ==
  30 * s.name + 15 * s.alias + 15 * s.dob + 10 * s.nationality + 15 * s.company
    + CONTEXT_WEIGHT * s.context

classify(score) ==
  IF score >= CONFIRMED_THRESHOLD THEN "CONFIRMED_MATCH"
  ELSE IF score >= POSSIBLE_THRESHOLD THEN "POSSIBLE_MATCH" ELSE "LIKELY_FALSE_POSITIVE"

ScoresWith(query, entity, context) ==
  [name |-> normalized_similarity(query.name, entity.name),
   alias |-> alias_similarity(query.name, entity.aliases),
   dob |-> dob_match(query.dob, entity.dob),
   nationality |-> country_match(query.nationality, entity.nationality),
   company |-> fuzzy_or_unknown_match(query.company, entity.company),
   context |-> context]
FullScores(query, entity) ==
  ScoresWith(query, entity, contextual_similarity(query.context, entity.context))

\* The description is compared only where it could make a difference.
build_component_scores_Hasty(query, entity) ==
  IF weighted_match_score(ScoresWith(query, entity, CONTEXT_UNKNOWN)) < POSSIBLE_THRESHOLD
  THEN ScoresWith(query, entity, CONTEXT_UNKNOWN) ELSE FullScores(query, entity)
build_component_scores(query, entity) ==
  LET cheap == ScoresWith(query, entity, CONTEXT_UNKNOWN)
      best_possible == weighted_match_score(cheap) + CONTEXT_WEIGHT * (100 - CONTEXT_UNKNOWN)
  IN IF best_possible < POSSIBLE_THRESHOLD THEN cheap ELSE FullScores(query, entity)

resolve_entity(query, entity) ==
  LET scores == build_component_scores(query, entity)
      score == weighted_match_score(scores)
  IN [entity_id |-> query.entity_id, matched_against |-> entity.entity_id,
      match_score |-> score, component_scores |-> scores,
      classification |-> classify(score), source |-> entity.source_list]

\* The answers to a query: its best `limit` matches.  Candidates come in the
\* order of a set of keys, so which of two equal scores is cut off is open.
Resolutions(query, index, limit) ==
  LET matches == {r \in {resolve_entity(query, e) : e \in Retrieve(index, query.name)} :
                    r.classification # "LIKELY_FALSE_POSITIVE"}
  IN {kept \in SUBSET matches :
        /\ Cardinality(kept) = Min({limit, Cardinality(matches)})
        /\ \A r \in kept, cut \in matches \ kept : r.match_score >= cut.match_score}

-----------------------------------------------------------------------------
\* The ownership graph: the nodes at most n edges below the root.
Within(edges, root, n) ==
  LET reach[k \in 0..n] ==
        IF k = 0 THEN {root}
        ELSE reach[k - 1] \cup {e[2] : e \in {e \in edges : e[1] \in reach[k - 1]}}
  IN reach[n]
Descendants(nodes, edges, root) == Within(edges, root, Cardinality(nodes)) \ {root}

\* Each node below the root and not too deep is screened; the best match counts.
ChainResolutions(graph, root, index, max_depth) ==
  LET screened == {n \in Descendants(DOMAIN graph.nodes, graph.edges, root) :
                     n \in Within(graph.edges, root, max_depth)}
      choices[n \in screened] == Resolutions(graph.nodes[n], index, 1)
  IN {f \in [screened -> UNION {choices[n] : n \in screened}] :
        \A n \in screened : f[n] \in choices[n]}

-----------------------------------------------------------------------------
\* contracts.py: a score of 0.85 confirms only what something beyond the name
\* corroborates.  The weights never let the first case happen (RegistryAndGatewayProofs).
Corroborating == {"dob", "nationality", "company", "context"}
Corroborated(record) ==
  \E f \in Corroborating : record.component_scores[f] >= CORROBORATION_FLOOR
DecisionFor(record) ==
  IF record.match_score >= CONFIRMED_THRESHOLD
  THEN IF Corroborated(record) THEN "confirmed_match" ELSE "needs_review"
  ELSE IF record.match_score >= POSSIBLE_THRESHOLD THEN "likely_match" ELSE "likely_false_positive"

MatchedAttributes(record) ==
  {f \in DOMAIN record.component_scores : record.component_scores[f] >= CORROBORATION_FLOOR}

\* A source is the name of a list, the word in it that the code looks for, and
\* whether the entity is a demo fixture.
SourceType(source) ==
  IF source.mentions \in {"ofac", "opensanction", "sanction"} THEN "sanctions" ELSE "watchlist"

evidence_to_result(record) ==
  [client_id |-> record.entity_id, source_type |-> SourceType(record.source),
   match_confidence |-> record.match_score, decision |-> DecisionFor(record),
   matched_attributes |-> MatchedAttributes(record)]

adverse_media_to_result(finding) ==
  [client_id |-> finding.entity_id, source_type |-> "adverse_media",
   match_confidence |-> IF finding.claims = {} THEN 0 ELSE 100 * Max(finding.claims),
   decision |-> IF finding.injection_attempt_detected THEN "needs_review"
                ELSE IF finding.claims = {} THEN "no_match" ELSE "likely_match",
   matched_attributes |-> IF finding.claims = {} THEN {} ELSE {"adverse_media"}]

\* The strings the risk engine tests a source for; a fixture keeps its marker.
Publisher(source) ==
  CASE source.mentions = "ofac" -> "ofac sdn" [] source.mentions = "opensanction" -> "opensanctions"
    [] OTHER -> source.name
RiskSource(source) == IF source.fixture THEN "sample fixture" ELSE Publisher(source)
to_risk_sanctions_signal(record) ==
  [has_match |-> TRUE, confirmed |-> FALSE, match_confidence |-> record.match_score \div 100,
   relationship |-> "", source |-> RiskSource(record.source)]

MediaSilent(finding) == finding.injection_attempt_detected \/ finding.claims = {}
to_risk_media_signal(finding) ==
  [negative_news_found |-> ~MediaSilent(finding),
   confidence |-> IF MediaSilent(finding) THEN 0 ELSE Max(finding.claims),
   severity |-> "", source |-> "article", source_count |-> 1,
   days_since_event |-> 999, mentions_sanctions |-> FALSE]
=============================================================================
