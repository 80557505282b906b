---------------------------- MODULE MCIngestion ----------------------------
(* Ingestion with the rows and sources that take each of its branches. *)
EXTENDS Ingestion
CONSTANTS c1, c2, long_id

Good == [f \in TextFields \cup BooleanFields \cup {"sector_risk"} |-> "good"]
RowOf(id, cells) == [client_id |-> id, cells |-> cells]

MCRows ==
  {RowOf(c1, Good),
   RowOf(c2, Good),
   RowOf(c1, [Good EXCEPT !["client_name"] = "long", !["pep_flag"] = "odd"]),
   RowOf(c2, [Good EXCEPT !["sector"] = "refused"]),
   RowOf(long_id, Good),
   RowOf(Blank, [f \in DOMAIN Good |-> "blank"])}

Https(host) ==
  [well_formed |-> TRUE, scheme |-> "https", userinfo |-> FALSE, fragment |-> FALSE, host |-> host]
SourceOf(enabled, url, allow_insecure, auth, complete) ==
  [known |-> TRUE, enabled |-> enabled, url |-> url, allow_insecure |-> allow_insecure,
   auth |-> auth, complete |-> complete]

MCSources ==
  {NoSource,
   SourceOf(FALSE, Https("public_ip"), FALSE, TRUE, TRUE),
   SourceOf(TRUE, Https("internal_ip"), FALSE, TRUE, TRUE),
   SourceOf(TRUE, [Https("blocked") EXCEPT !.scheme = "http"], TRUE, FALSE, TRUE),
   SourceOf(TRUE, Https("named"), FALSE, TRUE, TRUE),
   SourceOf(TRUE, Https("public_ip"), FALSE, TRUE, FALSE)}
=============================================================================
