---------------------------- MODULE RiskScoring ----------------------------
(***************************************************************************)
(* The risk engine's arithmetic (risk_engine/scoring.py, engine.py): the   *)
(* factors each section of a payload gives rise to, the five components    *)
(* they add up to, and the assessment made of the components.  No state.   *)
(*                                                                         *)
(* Confidences are in hundredths and points in halves, so a contribution   *)
(* is in two-hundredths of a point.  A section of a payload is a record;   *)
(* None is a field that is missing.  Texts, reasons and rates of change    *)
(* that only a display reads are left out.                                 *)
(***************************************************************************)
EXTENDS Integers, Sequences, FiniteSets, FiniteSetsExt

CONSTANT None

HIGH_RISK_SECTORS == {"crypto", "gambling", "arms", "defense", "precious metals", "money services"}
HIGH_RISK_COUNTRIES == {"iran", "north korea", "myanmar", "syria", "russia"}
FATF_HIGH_RISK_COUNTRIES == {"iran", "north korea", "myanmar"}
TRUSTED_SOURCES ==
  {"ofac sdn", "opensanctions", "government registry", "regulator", "reuters", "ap"}
UBO_RELATIONSHIPS == {"ubo", "beneficial owner", "director", "signatory", "shareholder"}

\* RiskWeights and RiskThresholds.
Weights == [kyc |-> 25, sanctions |-> 30, transactions |-> 25, media |-> 15, jurisdiction |-> 5]
Thresholds == [medium |-> 31, high |-> 61, critical |-> 81, investigation |-> 61, sar |-> 81,
               minimum_sar_confidence |-> 70, high_floor |-> 85, medium_floor |-> 65]

numeric(value, default) == IF value = None THEN default ELSE value
clamp(value, low, high) == Max({low, Min({high, value})})
Lesser(a, b) == Min({a, b})

make_factor(name, half_points, confidence) ==
  {[name |-> name, points |-> half_points, confidence |-> clamp(confidence, 0, 100)]}
When(condition, factors) == IF condition THEN factors ELSE {}
Contribution(f) == f.points * f.confidence

\* What goes with the first bound that a value reaches; bounds descend.
Graded(value, grades, otherwise) ==
  LET reached == {i \in DOMAIN grades : value >= grades[i][1]} IN
  IF reached = {} THEN otherwise ELSE grades[Min(reached)][2]

ComponentScore(factors, max_score) ==
  clamp(MapThenSumSet(Contribution, factors), 0, 200 * max_score)

-----------------------------------------------------------------------------
\* The factors of each component.
kyc_factors(kyc) ==
  LET confidence == numeric(kyc.confidence, 80)
      rating == CASE kyc.existing_kyc_risk = "high" -> 20 [] kyc.existing_kyc_risk = "medium" -> 12
                  [] kyc.existing_kyc_risk = "low" -> 4 [] OTHER -> 0
  IN When(rating > 0, make_factor("existing_kyc", rating, confidence))
     \cup When(kyc.pep_flag, make_factor("pep_flag", 14, confidence))
     \cup When(kyc.sector \in HIGH_RISK_SECTORS, make_factor("high_risk_sector", 10, confidence))
     \cup When(kyc.kyc_incomplete, make_factor("incomplete_kyc", 6, confidence))

sanctions_factors(sanctions, ownership, media) ==
  LET confidence == numeric(sanctions.match_confidence, 50) IN
  When(sanctions.has_match,
       IF sanctions.relationship \in UBO_RELATIONSHIPS
       THEN make_factor("ubo_chain_sanctions_match", 24, confidence)
       ELSE make_factor("direct_entity_sanctions_match", 36, confidence))
  \cup When(sanctions.has_match /\ sanctions.source \in {"ofac sdn", "opensanctions"},
            make_factor("trusted_sanctions_source", 8, Lesser(confidence, 95)))
  \cup When(ownership.sanctioned_ubo,
            make_factor("ownership_chain_sanctions_hit", 16, numeric(ownership.confidence, 75)))
  \cup When(media.negative_news_found /\ media.mentions_sanctions,
            make_factor("adverse_media_sanctions_mention", 8, numeric(media.confidence, 55)))

transaction_factors(tx) ==
  LET probability == numeric(tx.suspicious_probability, 0)
      spike == Graded(tx.monthly_volume_change, <<<<30, 8>>, <<20, 6>>, <<15, 4>>>>, 0)
      transfers == Graded(tx.high_risk_country_transfers, <<<<10, 8>>, <<3, 4>>>>, 0)
  IN When(probability # 0, make_factor("transaction_model_probability", 28, probability))
     \cup When(spike > 0, make_factor("volume_spike", spike, 85))
     \cup When(transfers > 0, make_factor("high_risk_jurisdiction_transfers", transfers, 85))
     \cup When(tx.typology_hits # 0,
               make_factor("aml_typology_hits", Lesser(6, 3 * tx.typology_hits), 80))

media_factors(media) ==
  LET confidence == numeric(media.confidence, 65)
      severity == CASE media.severity = "low" -> 10 [] media.severity = "medium" -> 16
                    [] media.severity = "high" -> 22 [] media.severity = "critical" -> 24
                    [] OTHER -> 12
  IN When(media.negative_news_found,
       make_factor("media_severity", severity, confidence)
       \cup When(media.source \in TRUSTED_SOURCES,
                 make_factor("trusted_media_source", 2, Lesser(confidence, 95)))
       \cup When(media.source_count >= 2, make_factor("media_corroboration", 2, confidence))
       \cup When(media.days_since_event <= 30, make_factor("recent_media_event", 2, confidence)))

jurisdiction_factors(payload) ==
  LET confidence == numeric(payload.jurisdiction_confidence, 85) IN
  IF payload.kyc.country \in FATF_HIGH_RISK_COUNTRIES \/ payload.fatf_high_risk
  THEN make_factor("fatf_high_risk_jurisdiction", 10, confidence)
  ELSE When(payload.kyc.country \in HIGH_RISK_COUNTRIES \/ payload.high_risk_country,
            make_factor("high_risk_jurisdiction", 6, confidence))

Components(payload) ==
  [kyc |-> kyc_factors(payload.kyc),
   sanctions |-> sanctions_factors(payload.sanctions, payload.ownership, payload.media),
   transactions |-> transaction_factors(payload.transactions),
   media |-> media_factors(payload.media),
   jurisdiction |-> jurisdiction_factors(payload)]

-----------------------------------------------------------------------------
\* A confirmed direct match speaks before a sanctioned owner does.
confirmed_sanctions_confidence_OwnerFirst(sanctions, ownership) ==
  IF ownership.sanctioned_ubo THEN numeric(ownership.confidence, 0)
  ELSE IF sanctions.confirmed THEN numeric(sanctions.match_confidence, 0) ELSE 0
confirmed_sanctions_confidence(sanctions, ownership) ==
  IF sanctions.confirmed THEN numeric(sanctions.match_confidence, 0)
  ELSE IF ownership.sanctioned_ubo THEN numeric(ownership.confidence, 0) ELSE 0

EscalationFloor(sanctions, ownership) ==
  Graded(confirmed_sanctions_confidence(sanctions, ownership),
         <<<<85, Thresholds.high_floor>>, <<60, Thresholds.medium_floor>>>>, None)

\* round() to whole points: a half goes to the even neighbour.
Rounded(units) ==
  LET whole == units \div 200 rest == units % 200 IN
  IF rest > 100 \/ (rest = 100 /\ whole % 2 = 1) THEN whole + 1 ELSE whole

\* Is the mean of the weighted confidences, and a tenth, at least the bound?
ConfidenceAtLeast(factors, bound) ==
  LET telling == {f \in factors : Contribution(f) > 0}
      Squared(f) == f.confidence * f.confidence
  IN IF telling = {} THEN bound <= 85
     ELSE MapThenSumSet(Squared, telling) >= 100 * (bound - 10) * Cardinality(telling)

RiskLevel(score) ==
  Graded(score, <<<<Thresholds.critical, "CRITICAL">>, <<Thresholds.high, "HIGH">>,
                  <<Thresholds.medium, "MEDIUM">>>>, "LOW")
RiskTrend(delta) == CASE delta >= 5 -> "RISING" [] delta <= -5 -> "FALLING" [] OTHER -> "STABLE"

\* The scores of the components, added up, in points; there are at most a hundred.
HundredPoints == 200 * 100
BaseScore(components) ==
  LET Score(c) == ComponentScore(components[c], Weights[c]) IN
  Rounded(Lesser(HundredPoints, MapThenSumSet(Score, DOMAIN components)))

Assess(payload) ==
  LET components == Components(payload)
      base_score == BaseScore(components)
      floor == EscalationFloor(payload.sanctions, payload.ownership)
      risk_score == IF floor = None THEN base_score ELSE Max({base_score, floor})
      \* the component goes with the factor: names of factors are unique
      factors == UNION {components[c] : c \in DOMAIN components}
  IN [risk_score |-> risk_score, base_score |-> base_score,
      risk_level |-> RiskLevel(risk_score),
      risk_trend |-> RiskTrend(risk_score - payload.previous_score),
      escalation_floor |-> floor,
      trigger_investigation |-> risk_score >= Thresholds.investigation,
      sar_recommended |-> /\ risk_score >= Thresholds.sar
                          /\ ConfidenceAtLeast(factors, Thresholds.minimum_sar_confidence),
      factors |-> factors]

-----------------------------------------------------------------------------
\* data_repository.py: the payload made of a client's row and its transactions.
VolumeChange(stats) ==
  IF stats.count = 0 THEN 10
  ELSE IF stats.max_amount > Max({4 * stats.avg_amount, 10000}) THEN 30
  ELSE IF 2 * stats.max_amount > Max({5 * stats.avg_amount, 10000}) THEN 20 ELSE 12

\* Percentages that the code does not round are cut to whole ones.
payload_for_client(client) ==
  LET stats == client.stats
      previous == CASE client.sector_risk = "medium" -> 32 [] client.sector_risk = "high" -> 48
                    [] OTHER -> 18
      rating == IF client.sector_risk = "" THEN "low" ELSE client.sector_risk
      confidence == IF client.sanctions_flag THEN 92 ELSE IF stats.ofac_matches > 0 THEN 78 ELSE 0
  IN [previous_score |-> previous,
      kyc |-> [sector |-> client.sector, country |-> client.country, existing_kyc_risk |-> rating,
               pep_flag |-> client.pep_flag, confidence |-> 88, kyc_incomplete |-> FALSE],
      sanctions |->
        [has_match |-> client.sanctions_flag \/ client.ofac_country_flag \/ stats.ofac_matches > 0,
         confirmed |-> client.sanctions_flag, match_confidence |-> confidence,
         relationship |-> "entity", source |-> "local kyc sanctions flags"],
      transactions |->
        [suspicious_probability |->
           Lesser(95, (180 * stats.typology_hits) \div Max({stats.count, 1}) + 10 * stats.ofac_matches),
         monthly_volume_change |-> VolumeChange(stats),
         high_risk_country_transfers |-> stats.ofac_matches + stats.fatf_hits,
         typology_hits |-> stats.typology_hits],
      media |-> [negative_news_found |-> client.sectoral_flag,
                 severity |-> IF client.sectoral_flag THEN "high" ELSE "low",
                 source |-> "sectoral sanctions signal", source_count |-> 1, confidence |-> 72,
                 days_since_event |-> 14, mentions_sanctions |-> client.sectoral_flag],
      ownership |-> [sanctioned_ubo |-> client.sanctions_flag /\ client.opacity >= 65,
                     confidence |-> Lesser(95, 55 + (40 * client.opacity) \div 100)],
      fatf_high_risk |-> client.fatf_flag, high_risk_country |-> client.ofac_country_flag,
      jurisdiction_confidence |-> 90]
=============================================================================
