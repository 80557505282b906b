---------------------------- MODULE PrivacyPolicy ----------------------------
(***************************************************************************)
(* What of a KYC record is shown for which purpose: the classification of  *)
(* its fields, the treatment each processing context gives them, the masks *)
(* (backend/app/privacy), and the choice of the context from a principal's *)
(* rights (backend/app/identity).  Operators only.                         *)
(*                                                                         *)
(* A name is a sequence of words, each one "letter" or "word" long; what   *)
(* is shown of it is the sequence of what is shown of its words.  Of any   *)
(* other value it matters only how it is shown.                            *)
(*                                                                         *)
(* A definition named X_Y is the definition X with a plausible bug, Y; no  *)
(* specification uses it.                                                  *)
(***************************************************************************)
EXTENDS Sequences

Roles == {"ADMIN", "COMPLIANCE_ANALYST", "COMPLIANCE_REVIEWER", "DATA_ENGINEER",
          "AUDITOR", "SERVICE_ACCOUNT"}

Permissions == {"KYC_READ", "KYC_INGEST", "KYC_VIEW_SENSITIVE", "DATA_QUALITY_READ",
                "PII_CLASSIFICATION_READ", "AUDIT_READ", "SECURITY_ADMIN"}

ROLE_PERMISSIONS ==
  [ADMIN |-> {"SECURITY_ADMIN", "AUDIT_READ", "PII_CLASSIFICATION_READ"},
   COMPLIANCE_ANALYST |-> {"KYC_READ", "KYC_VIEW_SENSITIVE",
                           "PII_CLASSIFICATION_READ", "DATA_QUALITY_READ"},
   COMPLIANCE_REVIEWER |-> {"KYC_READ", "PII_CLASSIFICATION_READ"},
   DATA_ENGINEER |-> {"KYC_INGEST", "DATA_QUALITY_READ", "KYC_READ"},
   AUDITOR |-> {"AUDIT_READ", "PII_CLASSIFICATION_READ"},
   SERVICE_ACCOUNT |-> {}]

resolve_permissions(roles) == UNION {ROLE_PERMISSIONS[role] : role \in roles}

has_permission(principal, permission) ==
  principal.is_active /\ permission \in resolve_permissions(principal.roles)

\* Reading KYC data is enough to see all of it.
kyc_context_for_ReadSuffices(principal) ==
  IF "KYC_READ" \in resolve_permissions(principal.roles)
  THEN "INTERNAL_PROCESSING" ELSE "HUMAN_REVIEW"

\* The context a principal's rights call for.
kyc_context_for(principal) ==
  IF "KYC_VIEW_SENSITIVE" \in resolve_permissions(principal.roles)
  THEN "INTERNAL_PROCESSING" ELSE "HUMAN_REVIEW"

-----------------------------------------------------------------------------
CanonicalFields ==
  {"client_id", "client_name", "client_type", "country", "sector", "sector_risk",
   "pep_flag", "sanctions_flag", "fatf_country_flag", "aliases", "created_at",
   "updated_at"}

\* The default mask of a field; what is not classified is redacted.
default_mask(field) ==
  CASE field = "client_id" -> "PSEUDONYMIZE"
    [] field \in {"client_name", "aliases"} -> "MASK_NAME"
    [] field \in {"pep_flag", "sanctions_flag"} -> "REDACT"
    [] field \in {"client_type", "country", "sector", "sector_risk",
                  "fatf_country_flag", "created_at", "updated_at"} -> "NONE"
    [] OTHER -> "REDACT"

\* CONTEXT_POLICIES: the fields each context shows as they are, and masked.
Raw ==
  [INTERNAL_PROCESSING |-> CanonicalFields,
   LOGGING |-> {"client_type", "country", "sector_risk"},
   ENTITY_SCREENING |-> {"client_id", "client_name", "client_type", "country", "aliases"},
   HUMAN_REVIEW |-> CanonicalFields \ {"client_id", "client_name", "aliases"},
   AGENT_CONTEXT |-> {"client_type", "country", "sector_risk"},
   EXTERNAL_RESPONSE |-> {"client_type"}]

Masked ==
  [INTERNAL_PROCESSING |-> {},
   LOGGING |-> {"client_id"},
   ENTITY_SCREENING |-> {},
   HUMAN_REVIEW |-> {"client_id", "client_name", "aliases"},
   AGENT_CONTEXT |-> {"client_id"},
   EXTERNAL_RESPONSE |-> {"client_id"}]

Contexts == DOMAIN Raw

\* A field no policy lists is left out.
treatment(context, field) ==
  IF field \in Raw[context] THEN "RAW"
  ELSE IF field \in Masked[context] THEN "MASK"
  ELSE "OMIT"

-----------------------------------------------------------------------------
\* The first letter of a word is kept: all of it, when it has no other.
initial(word) == IF word = "letter" THEN "whole" ELSE "initial"

\* An organisation keeps the first word of its name.
mask_name(name, is_person) ==
  [i \in DOMAIN name |-> IF i = 1 /\ ~is_person THEN "whole" ELSE initial(name[i])]

\* entity: [client_type, client_name, aliases], aliases a set of names.
IsPerson(entity) == entity.client_type = "individual"

\* How a masked field is shown.  A mask of NONE still redacts.
apply_mask(field) ==
  CASE default_mask(field) = "PSEUDONYMIZE" -> "pseudonym"
    [] default_mask(field) = "MASK_NAME" -> "masked"
    [] default_mask(field) \in {"REDACT", "NONE"} -> "redacted"

\* How every field of a record is shown in a context; "absent" when left out.
minimize_kyc_entity(context) ==
  [field \in CanonicalFields |->
     CASE treatment(context, field) = "RAW" -> "raw"
       [] treatment(context, field) = "MASK" -> apply_mask(field)
       [] treatment(context, field) = "OMIT" -> "absent"]

\* What a context shows of a name that stands in the field.
ShownOf(context, field, name, entity) ==
  LET how == minimize_kyc_entity(context)[field] IN
    IF how = "raw" THEN [i \in DOMAIN name |-> "whole"]
    ELSE IF how = "masked" THEN mask_name(name, IsPerson(entity))
    ELSE [i \in DOMAIN name |-> "hidden"]
=============================================================================
