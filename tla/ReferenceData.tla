--------------------------- MODULE ReferenceData ---------------------------
(***************************************************************************)
(* The loaders of the reference data (data_loader.py): what each row of a  *)
(* sanctions list, of the client book and of an ownership file becomes.    *)
(* A row is a record of the cells that matter; Unknown is a cell that is   *)
(* empty or holds OFAC's null marker.  No state.                           *)
(***************************************************************************)
EXTENDS EntityResolution, SequencesExt

CONSTANT HeaderRow  \* the row of column names

KYC_SCHEMAS == {"Person", "Company", "LegalEntity", "Organization"}

\* A file may start with a row of column names, or not.
DataRows(rows) == IF rows # <<>> /\ Head(rows) = HeaderRow THEN Tail(rows) ELSE rows

\* "LAST, First Middle" becomes "First Middle Last".
NormalizedSdnName(name) == name.after_comma \o name.before_comma

Source(name, mentions) == [name |-> name, mentions |-> mentions, fixture |-> FALSE]

SdnUsable(row) == row.ent_num # Unknown /\ row.sdn_name # Unknown
\* Aliases come from the ALT file and from the remarks.
SdnEntity(row, alt_rows) ==
  [entity_id |-> <<"OFAC_SDN", row.ent_num>>, name |-> NormalizedSdnName(row.sdn_name),
   aliases |-> row.remarks.akas \cup
     {alt.alt_name : alt \in {alt \in alt_rows :
        alt.ent_num = row.ent_num /\ alt.ent_num # Unknown /\ alt.alt_name # Unknown}},
   dob |-> row.remarks.dob, nationality |-> row.remarks.nationality, company |-> <<>>,
   source_list |-> Source("ofac sdn", "ofac"), context |-> row.context]

load_ofac_sdn(rows, alt_rows) ==
  {SdnEntity(row, ToSet(DataRows(alt_rows))) : row \in {r \in ToSet(DataRows(rows)) : SdnUsable(r)}}

\* Only what a client can be is screened; the first country stands for all, and
\* there is never a description.
OpenSanctionsUsable(row) ==
  row.id # Unknown /\ row.name # Unknown /\ row.schema \in KYC_SCHEMAS
OpenSanctionsEntity(row) ==
  [entity_id |-> <<"opensanctions", row.id>>, name |-> row.name, aliases |-> row.aliases,
   dob |-> row.birth_date,
   nationality |-> IF row.countries = <<>> THEN Unknown ELSE Head(row.countries),
   company |-> <<>>,
   source_list |-> IF row.dataset = Unknown THEN Source("opensanctions", "opensanction")
                   ELSE row.dataset,
   context |-> Unknown]

\* At most `limit` entities, not rows; NoLimit is Unknown.
UsableUpTo(rows, i) == {j \in 1..i : OpenSanctionsUsable(rows[j])}
RowsKept(rows, limit) ==
  {i \in DOMAIN rows :
     /\ OpenSanctionsUsable(rows[i])
     /\ limit # Unknown => Cardinality(UsableUpTo(rows, i)) <= limit}
load_opensanctions(rows, limit) == {OpenSanctionsEntity(rows[i]) : i \in RowsKept(rows, limit)}

Fixture(entity) == [entity EXCEPT !.source_list.fixture = TRUE]

\* A client is named by its number in the file and by CLIENT-number elsewhere.
ClientRecord(row) ==
  [entity_id |-> <<"full", row.client_id>>, name |-> row.client_name,
   dob |-> Unknown, nationality |-> row.country, company |-> row.client_name,
   context |-> row.context]

\* An ownership file: entities by id, and edges from owner to owned.
OwnershipGraph(file) ==
  [nodes |-> [n \in {e.entity_id : e \in file.entities} |->
                CHOOSE e \in file.entities : e.entity_id = n],
   edges |-> file.ownership_edges]
Roots(graph) == {n \in DOMAIN graph.nodes : \A e \in graph.edges : e[2] # n}
=============================================================================
