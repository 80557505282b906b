------------------------- MODULE MCScreeningService -------------------------
(* ScreeningService with two real lists, one of each kind of row, demo      *)
(* fixtures, an ownership chain of three layers, and clients for which the  *)
(* rows of the dataset take each branch of the score.                       *)
EXTENDS ScreeningService, TLC

Common(a, b) == WordsOf(a) \cap WordsOf(b)
MCLikeness(a, b) == (85 * Cardinality(Common(a, b))) \div Max({Len(a), Len(b)})
MCContextLikeness(a, b) == IF a = b THEN 100 ELSE 20
MCIsoCode(c) == CASE c \in {"ru", "russia"} -> "RU" [] c \in {"kp", "north korea"} -> "KP" [] OTHER -> c

NoRemarks == [akas |-> {}, dob |-> Unknown, nationality |-> Unknown]
MCSdnRows ==
  << HeaderRow,
     [ent_num |-> 1, sdn_name |-> [before_comma |-> <<"lim">>, after_comma |-> <<"un", "pae">>],
      remarks |-> [akas |-> {}, dob |-> <<1975, 3, 15>>, nationality |-> "north korea"],
      context |-> "shipping director"],
     [ent_num |-> 2, sdn_name |-> Unknown, remarks |-> NoRemarks, context |-> Unknown] >>
MCAltRows ==
  << [ent_num |-> 1, alt_name |-> <<"pacific", "shipping">>], [ent_num |-> 1, alt_name |-> Unknown] >>

Target(id, name, schema, aliases, birth_date, countries, dataset) ==
  [id |-> id, name |-> name, schema |-> schema, aliases |-> aliases, birth_date |-> birth_date,
   countries |-> countries, dataset |-> dataset]
MCOpenSanctionsRows ==
  << Target(11, <<"viktor", "petrov">>, "Person", {<<"petrov", "vitya">>}, <<1980, 0, 0>>, <<"ru">>,
            Source("us ofac sdn", "ofac")),
     Target(12, <<"sea", "star">>, "Vessel", {}, Unknown, <<>>, Unknown),
     Target(13, <<"orion", "trading">>, "Company", {<<"orion", "group">>}, Unknown, <<"cy", "ru">>,
            Source("eu fsf", "")) >>
MCFixtureSdnRows ==
  << [ent_num |-> 21, sdn_name |-> [before_comma |-> <<"rashid">>, after_comma |-> <<"mohammed">>],
      remarks |-> [akas |-> {<<"mohammed", "rashid">>}, dob |-> <<1975, 0, 0>>, nationality |-> "ae"],
      context |-> "shipping director"] >>
MCFixtureTargetRows ==
  << Target(22, <<"abc", "holdings">>, "Company", {<<"abc", "holding">>}, Unknown, <<"ae">>, Unknown) >>

Query(name, dob, nationality, context) ==
  [entity_id |-> "ADHOC-001", name |-> name, dob |-> dob, nationality |-> nationality,
   company |-> <<>>, context |-> context]
MCQueries ==
  {Query(<<"un", "pae", "lim">>, <<1975, 0, 0>>, "kp", "shipping director"),
   Query(<<"un", "pae", "choe">>, <<1975, 3, 15>>, "kp", "shipping director"),
   Query(<<"petrov", "viktor">>, Unknown, Unknown, Unknown),
   Query(<<"mohammed", "rashid">>, <<1975, 6, 1>>, "ae", "shipping director"),
   Query(<<"orion", "trading">>, Unknown, Unknown, Unknown)}
MCWords ==
  {"un", "pae", "lim", "choe", "pacific", "shipping", "viktor", "petrov", "vitya", "sea", "star",
   "orion", "trading", "group", "rashid", "mohammed", "abc", "holdings", "holding"}
MCReordered == {Query(<<"lim", "un", "pae">>, <<1975, 3, 15>>, "kp", Unknown)}

Quiet == [count |-> 2, avg_amount |-> 100, max_amount |-> 150, ofac_matches |-> 0, fatf_hits |-> 0,
          typology_hits |-> 0]
Busy == [count |-> 4, avg_amount |-> 3000, max_amount |-> 12500, ofac_matches |-> 3, fatf_hits |-> 8,
         typology_hits |-> 2]
Client(id, name, type, country, flag, opacity, rating, stats) ==
  [client_id |-> id, client_name |-> name, client_type |-> type, sector |-> "trade",
   country |-> country, context |-> Unknown, sector_risk |-> rating, pep_flag |-> FALSE,
   sanctions_flag |-> flag, ofac_country_flag |-> country = "russia", fatf_flag |-> FALSE,
   sectoral_flag |-> FALSE, opacity |-> opacity, stats |-> stats]
MCClientRows ==
  {Client(1, <<"viktor", "petrov">>, "individual", "russia", TRUE, 70, "high", Quiet),
   Client(2, <<"orion", "group">>, "company", "cy", FALSE, 20, "", Quiet),
   [Client(3, <<"mohammed", "rashid">>, "individual", "ae", FALSE, 40, "medium", Busy)
      EXCEPT !.sectoral_flag = TRUE, !.pep_flag = TRUE, !.sector = "crypto"],
   Client(4, <<>>, "company", "myanmar", TRUE, 50, "low", Quiet),
   Client(5, <<"north", "mill">>, Unknown, "de", FALSE, 0, "low", Quiet)}

MCPayloads ==
  LET flagged == payload_for_client(Client(6, <<"delta">>, "company", "de", TRUE, 90, "low", Quiet))
  IN {[flagged EXCEPT !.sanctions = [@ EXCEPT !.match_confidence = c, !.relationship = r, !.source = s],
                      !.kyc.kyc_incomplete = TRUE, !.kyc.confidence = None,
                      !.media = [@ EXCEPT !.negative_news_found = TRUE, !.severity = "critical",
                                          !.source = "reuters", !.source_count = 2]]
        : c \in {None, 84, 85}, r \in {"entity", "director"}, s \in {"ofac sdn", "a list"}}

MCOwnershipFile ==
  [entities |-> {[Query(<<"clean", "corp">>, Unknown, "ae", Unknown) EXCEPT !.entity_id = "corp"],
                 [Query(<<"abc", "holdings">>, Unknown, "ae", Unknown) EXCEPT !.entity_id = "hold"],
                 [Query(<<"viktor", "petrov">>, <<1980, 0, 0>>, "ru", Unknown) EXCEPT !.entity_id = "ind"]},
   ownership_edges |-> {<<"corp", "hold">>, <<"hold", "ind">>}]

AllGood == [f \in Files |-> "good"]
MCFileStates ==
  {AllGood, [AllGood EXCEPT !["sdn"] = "absent"], [AllGood EXCEPT !["clients"] = "absent"],
   [AllGood EXCEPT !["ubo"] = "absent"]}
  \cup {[AllGood EXCEPT ![f] = "broken"] : f \in Files}
MCModes == {"both", "real", "sample"}
MCRowLimits == {Unknown, 1, 2}
MCFindings ==
  {[entity_id |-> None, claims |-> {80}, injection_attempt_detected |-> FALSE],
   [entity_id |-> None, claims |-> {60}, injection_attempt_detected |-> TRUE],
   [entity_id |-> None, claims |-> {}, injection_attempt_detected |-> FALSE]}
=============================================================================
