--------------------------- MODULE MCAccessControl ---------------------------
\* AccessControl for TLC.  A restart may deactivate an account, change another's
\* password, or list two accounts with one principal_id; the first configuration also
\* has accounts with the empty principal_id and with one of more than 200 characters.
EXTENDS AccessControl, TLC

CONSTANT malformed

Account(username, password, id, roles, is_active) ==
  [username |-> username, password |-> password, principal_id |-> id, roles |-> roles,
   is_active |-> is_active]

Engineer == Account("eve", "pe", "P1", {"DATA_ENGINEER", "SERVICE_ACCOUNT"}, TRUE)
EngineerOff == Account("eve", "pe", "P1", {"DATA_ENGINEER"}, FALSE)
Analyst == Account("ann", "pa", "P2", {"COMPLIANCE_ANALYST"}, TRUE)
AnalystChanged == [Analyst EXCEPT !.password = "px"]
Twin == Account("tom", "pt", "P2", {"AUDITOR"}, TRUE)

Nameless == Account("nil", "pn", "", {"AUDITOR"}, TRUE)
Lengthy == Account("lou", "pl", "P3...", {"AUDITOR"}, TRUE)

MCConfigurations ==
  {<<Engineer, malformed, Analyst, Nameless, Lengthy>>, <<EngineerOff, AnalystChanged, Twin>>}
MCLogins == {[username |-> who.username, password |-> who.password] :
               who \in {Engineer, Analyst, Nameless, Lengthy}}

MCEntities ==
  {[client_type |-> kind, client_name |-> <<"word", "word">>, aliases |-> {<<"letter", "word">>}] :
     kind \in {"individual", "corporate"}}

Symmetry == Permutations(Requests) \cup Permutations(Secrets)
=============================================================================
