---------------------- MODULE MCInvestigationPipeline ----------------------
(* InvestigationPipeline with a citation that is a part of another, a client *)
(* the demo escalates, drafts at the borders of the redaction rules, and     *)
(* files that are missing or end in the middle.                              *)
EXTENDS InvestigationPipeline
CONSTANTS c1, c9, c0, real, field, fake

\* The unresolvable citation is a substring of the resolvable one.
MCOverlaps == {<<fake, real>>}

\* A transaction, a field of the profile, and an article that does not exist.
MCDatasetOf ==
  [cite \in {real, field, fake} |->
     CASE cite = real -> "transactions" [] cite = field -> "clients" [] OTHER -> "gdpr"]
MCCitings == {{}, {real, field}, {real, fake}}

MCIndicators ==
  [c \in {c1, c9} |->
     IF c = c9 THEN {}
     ELSE {[severity |-> "medium", cites |-> real], [severity |-> "critical", cites |-> field]}]

\* All files good; then each way for a file to be missing or to end in the middle.
Good == [d \in Datasets |-> "good"]
MCDeployments ==
  {Good,
   [Good EXCEPT !["transactions"] = "broken"],
   [Good EXCEPT !["gdpr"] = "broken"],
   [Good EXCEPT !["clients"] = "absent", !["sanctions"] = "absent", !["gdpr"] = "absent"],
   [Good EXCEPT !["clients"] = "broken", !["accounts"] = "absent", !["sanctions"] = "broken"]}

\* A date 40 characters after "born", one 44 after, and one 40 after the "dob" of a
\* placeholder; a date elsewhere; every kind of number, with an account among the flags.
Text(subject, narrative, flags) ==
  [subject |-> subject, narrative |-> narrative, flags |-> flags, basis |-> {"generic"}]
MCDrafts ==
  {Text(<<"born", "word", "word", "passport", "date">>,
        <<"born", "word", "word", "word", "date", "client_id", "mixed">>, {"word"}),
   Text(<<"date", "born", "date", "DOB_REDACTED", "word", "word", "date">>, <<"ssn", "email", "phone", "digits", "ACCT_REDACTED">>,
        {"digits", "word"})}
=============================================================================
