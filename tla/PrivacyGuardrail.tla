--------------------------- MODULE PrivacyGuardrail ---------------------------
(***************************************************************************)
(* redact_sar (backend/app/agents/privacy_guardrail.py): the regular       *)
(* expressions run over the free text of a SAR draft before it is served.  *)
(*                                                                         *)
(* A text is a sequence of pieces, each of which a rule matches whole, in  *)
(* part or not at all; a piece has a length, since a date is taken for one *)
(* of birth by what stands in the 40 characters before it.                 *)
(*                                                                         *)
(* A definition named X_Y is the definition X with a plausible bug, Y; no  *)
(* specification uses it.                                                  *)
(***************************************************************************)
EXTENDS Naturals, Sequences, FiniteSets, FiniteSetsExt

\* The pieces and their lengths, the placeholders with their brackets.  "digits" has
\* seven or more, "client_id" the same after "client_id="; "mixed" is an e-mail address
\* whose local part reads like a passport number.
Length ==
  [word |-> 12, born |-> 4, date |-> 10, ssn |-> 11, passport |-> 8, email |-> 16,
   phone |-> 15, digits |-> 10, client_id |-> 20, mixed |-> 20,
   DOB_REDACTED |-> 14, NATIONAL_ID_REDACTED |-> 22, PASSPORT_REDACTED |-> 19,
   EMAIL_REDACTED |-> 16, PHONE_REDACTED |-> 16, ACCT_REDACTED |-> 15]
Pieces == DOMAIN Length

\* The pieces that hold a word of _DOB_SIGNALS, and what comes before it: the
\* placeholder of a date of birth holds "dob", after its bracket.
Signals == [born |-> 0, DOB_REDACTED |-> 1]

\* _REDACTION_RULES, in their order: what a rule matches, what it puts there, and
\* the article it cites.  Of a mixed piece the passport rule leaves the domain.
Rules ==
  <<[matches |-> {"date"}, replacement |-> "DOB_REDACTED", article |-> "article5"],
    [matches |-> {"ssn"}, replacement |-> "NATIONAL_ID_REDACTED", article |-> "article9"],
    [matches |-> {"passport", "mixed"}, replacement |-> "PASSPORT_REDACTED", article |-> "article9"],
    [matches |-> {"email", "mixed"}, replacement |-> "EMAIL_REDACTED", article |-> "article5"],
    [matches |-> {"phone"}, replacement |-> "PHONE_REDACTED", article |-> "article5"],
    [matches |-> {"digits"}, replacement |-> "ACCT_REDACTED", article |-> "article5"]>>

Placeholders == {Rules[k].replacement : k \in DOMAIN Rules}

\* Where each piece of a text of known pieces ends.
Offsets(text) ==
  LET end[n \in 0..Len(text)] == IF n = 0 THEN 0 ELSE end[n - 1] + Length[text[n]] + 1
  IN end

\* The piece just before says it.
OfBirth_Adjacent(text, i) == i > 1 /\ text[i - 1] = "born"

\* A birth word stands in the 40 characters before the i-th piece.
OfBirth(text, i) ==
  \E j \in 1..(i - 1) :
    /\ text[j] \in DOMAIN Signals
    /\ Offsets(text)[i - 1] - Offsets(text)[j - 1] <= 40 + Signals[text[j]]

\* The rules that match the i-th piece; dates, the first rule, are looked at in the
\* text as it came.
Matching(text, i) ==
  {k \in DOMAIN Rules : text[i] \in Rules[k].matches /\ (text[i] = "date" => OfBirth(text, i))}

\* The rules run one after the other over the whole text, so the first that matches a
\* piece replaces it; no rule matches a placeholder.
redact_text(text) ==
  [i \in DOMAIN text |->
     IF Matching(text, i) = {} THEN text[i] ELSE Rules[Min(Matching(text, i))].replacement]

\* Digits in a red flag are masked too, client ids among them, but not counted.
mask_account_in_list(flags) ==
  {IF flag \in {"digits", "client_id"} THEN "ACCT_REDACTED" ELSE flag : flag \in flags}

\* Where the text of a draft was changed, and the articles of the rules that did it.
Changed(before, after) == {i \in DOMAIN before : after[i] # before[i]}
ArticlesFor(before, after) ==
  {Rules[k].article :
     k \in {n \in DOMAIN Rules : \E i \in Changed(before, after) : after[i] = Rules[n].replacement}}

\* A draft with its subject, narrative and red flags redacted, the articles added to
\* its regulatory basis, and the redactions of the text counted.
redact_sar(draft) ==
  LET subject == redact_text(draft.subject)
      narrative == redact_text(draft.narrative)
  IN [subject |-> subject, narrative |-> narrative,
      flags |-> mask_account_in_list(draft.flags),
      basis |-> draft.basis \cup ArticlesFor(draft.subject, subject)
                            \cup ArticlesFor(draft.narrative, narrative),
      redactions |-> Cardinality(Changed(draft.subject, subject))
                       + Cardinality(Changed(draft.narrative, narrative))]

\* _gdpr_ref and _gdpr_title ask the loader for the article of each redaction, and for
\* nothing else: a masked flag cites none.
AsksForArticles(redacted) == redacted.redactions # 0
=============================================================================
