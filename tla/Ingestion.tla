------------------------------ MODULE Ingestion ------------------------------
(***************************************************************************)
(* KYC ingestion (backend/app/ingestion): a run over an API source         *)
(* (services/api_ingestion_service.py, api/client.py) or over a file       *)
(* (pipelines/kyc_ingestion_pipeline.py, validators/, connectors/), both   *)
(* ending in the shared normalize_batch, and the plain artifact the file   *)
(* job may write afterwards (jobs/run_kyc_ingestion.py).                   *)
(*                                                                         *)
(* Runs share nothing in memory, so one is followed at a time; runs        *)
(* succeed one another and share the artifact on disk.  What a run meets   *)
(* is another party's choice: the upstream's answers, attempt by attempt   *)
(* and chunk by chunk, and the input file, which somebody may replace or   *)
(* remove between any two system calls.  The process may die anywhere.     *)
(*                                                                         *)
(* Of a row, only what the normalizers tell apart is kept: which client id *)
(* it carries and, of every other cell, whether it is good, blank, too     *)
(* long, not in the field's vocabulary, or a text the entity's model       *)
(* refuses (a lone surrogate, which JSON can carry and a file cannot).     *)
(*                                                                         *)
(* A definition named X_Y is the definition X with a plausible bug, Y; no  *)
(* specification uses it.                                                  *)
(***************************************************************************)
EXTENDS Naturals, Sequences, FiniteSets

CONSTANTS
  Ids,         \* client ids
  LongIds,     \* those of more than 64 characters
  Rows,        \* the rows a batch is made of
  Sources,     \* what api_sources_json makes of a source id
  MaxRetries,  \* settings.api_max_retries
  MaxBytes,    \* the byte cap of a response, in units of the smallest chunk
  MaxChunk,    \* bound: units one chunk brings
  MaxRows,     \* bound: rows of a batch
  MaxRuns      \* bound: runs one after the other

\* REQUIRED_CANONICAL_FIELDS, BOOLEAN_FIELDS and sector_risk: the columns of
\* COLUMN_MAP, all of which are required.
TextFields == {"client_name", "client_type", "country", "sector"}
BooleanFields == {"pep_flag", "sanctions_flag", "fatf_country_flag"}
Cells == {"good", "blank", "long", "odd", "refused"}
Blank == "blank"
Row == [client_id : Ids \cup {Blank},
        cells : [TextFields \cup BooleanFields \cup {"sector_risk"} -> Cells]]
Url == [well_formed : BOOLEAN, scheme : {"https", "http", "other"}, userinfo : BOOLEAN,
        fragment : BOOLEAN, host : {"none", "blocked", "public_ip", "internal_ip", "named"}]
Source == [known : BOOLEAN, enabled : BOOLEAN, url : Url, allow_insecure : BOOLEAN, auth : BOOLEAN,
           complete : BOOLEAN]

ASSUME IdsAssumption == LongIds \subseteq Ids /\ Blank \notin Ids
ASSUME RowsAssumption == Rows \subseteq Row
ASSUME SourcesAssumption == Sources \subseteq Source
ASSUME BoundsAssumption ==
  /\ MaxRetries \in Nat
  /\ MaxBytes \in Nat
  /\ MaxChunk \in Nat \ {0}
  /\ MaxRows \in Nat
  /\ MaxRuns \in Nat

VARIABLES
  stage,     \* where the run is
  channel,   \* "api", "csv" or "xlsx"
  source,    \* the source of an API run
  attempt,   \* fetch's loop variable
  received,  \* bytes read of the response at hand
  answers,   \* ghost: what each attempt came to
  events,    \* the audit events of the run
  outcome,   \* what the run returned or raised
  rows,      \* the batch normalize_batch was given
  result,    \* IngestionResult
  file,      \* the input file, as it is now
  handed,    \* entities whose line the job has given to the artifact's buffers
  artifact,  \* <stem>.normalized.jsonl, as a reader finds it
  runs       \* number of runs so far; a run is named by its number

apiVars == <<source, attempt, received, answers>>
batchVars == <<rows, result>>
diskVars == <<file, handed, artifact>>
vars == <<stage, channel, apiVars, events, outcome, batchVars, diskVars, runs>>

Stages == {"idle", "sending", "reading", "backoff", "is_file", "stat", "open",
           "read", "export", "writing", "ended"}
Resting == {"idle", "ended"}

-----------------------------------------------------------------------------
(* normalize_batch *)

\* normalize_row: the issues of one row, by field.
NormalizeRow(row) ==
  [client_id |-> row.client_id,
   issues |->
     {<<f, "missing_required_field">> : f \in {g \in TextFields : row.cells[g] = "blank"}}
     \cup {<<f, "value_too_long">> : f \in {g \in TextFields : row.cells[g] = "long"}}
     \cup (IF row.client_id = Blank THEN {<<"client_id", "missing_required_field">>} ELSE {})
     \cup (IF row.client_id \in LongIds THEN {<<"client_id", "value_too_long">>} ELSE {})
     \cup {<<f, "invalid_boolean">> : f \in {g \in BooleanFields : row.cells[g] # "good"}}
     \cup (IF row.cells["sector_risk"] # "good"
             THEN {<<"sector_risk", "invalid_sector_risk">>} ELSE {})]

\* Only rows that could be emitted are compared.
DuplicateIds_AmongCandidates(batch) ==
  {id \in Ids :
     Cardinality({i \in DOMAIN batch : /\ batch[i].client_id = id
                                       /\ NormalizeRow(batch[i]).issues = {}}) > 1}

\* duplicate_ids: counted over every row that has an id, usable or not.
DuplicateIds(batch) ==
  {id \in Ids : Cardinality({i \in DOMAIN batch : batch[i].client_id = id}) > 1}

RowIssues(batch, i) ==
  LET outcome_i == NormalizeRow(batch[i]) IN
    outcome_i.issues
      \cup (IF outcome_i.client_id \in DuplicateIds(batch)
              THEN {<<"client_id", "duplicate_client_id">>} ELSE {})

\* The numbers of a set, in their order.
InOrder(S) ==
  CHOOSE s \in [1..Cardinality(S) -> S] : \A i, j \in DOMAIN s : i < j => s[i] < s[j]

\* entities, each as the number of the row it was made from.
Entities(batch) == InOrder({i \in DOMAIN batch : RowIssues(batch, i) = {}})

IssueCodes == {"missing_required_field", "value_too_long", "invalid_boolean",
               "invalid_sector_risk", "duplicate_client_id"}

\* The issues of the batch: a row number with a field and a code.
Issues(batch) ==
  UNION {{<<i, issue[1], issue[2]>> : issue \in RowIssues(batch, i)} : i \in DOMAIN batch}

\* _build_report
Report(batch, entities, issues) ==
  [total_rows |-> Len(batch),
   valid_rows |-> Len(entities),
   invalid_rows |-> Len(batch) - Len(entities),
   duplicate_client_ids |-> Cardinality(DuplicateIds(batch)),
   issue_counts |-> [c \in IssueCodes |-> Cardinality({x \in issues : x[3] = c})]]

NormalizeBatch(batch) ==
  LET entities == Entities(batch)
      issues == Issues(batch)
  IN  [entities |-> entities, issues |-> issues,
       report |-> Report(batch, entities, issues)]

\* NormalizedKYCEntity refuses a text of a row that has no issue.
Refused(batch) ==
  \E i \in DOMAIN batch :
    /\ RowIssues(batch, i) = {}
    /\ \E f \in TextFields : batch[i].cells[f] = "refused"

\* What the file can be: missing, zero bytes, not of its format, of its format
\* with a fault further on, of more rows than MAX_XLSX_ROWS, without the required
\* columns, or whole; and over the size limit or not.
Forms == {"absent", "empty", "garbled", "broken", "overlong", "headless", "whole"}
FileState == [form : Forms, over : BOOLEAN]
Absent == [form |-> "absent", over |-> FALSE]
FileStates == {f \in FileState : f.over => f.form \notin {"absent", "empty"}}

NoUrl == [well_formed |-> FALSE, scheme |-> "other", userinfo |-> FALSE, fragment |-> FALSE,
          host |-> "none"]
NoSource == [known |-> FALSE, enabled |-> FALSE, url |-> NoUrl, allow_insecure |-> FALSE,
             auth |-> FALSE, complete |-> FALSE]

NoResult == [entities |-> <<>>, issues |-> {}, report |-> <<>>]
Batches == UNION {[1..n -> Rows] : n \in 0..MaxRows}

\* What a file can hold, and what read_xlsx_rows keeps of it: rows with a cell.
FromFile(batch) ==
  \A i \in DOMAIN batch :
    \A f \in DOMAIN batch[i].cells : batch[i].cells[f] # "refused"
HasCell(row) ==
  row.client_id # Blank \/ \E f \in DOMAIN row.cells : row.cells[f] # "blank"

-----------------------------------------------------------------------------
(* How a run ends; "so_far" are its events up to here. *)

\* An error of the run's own family: audited, then raised again.
Fail(so_far, code) ==
  /\ stage' = "ended"
  /\ outcome' = code
  /\ events' = Append(so_far, "failed")

\* Any other exception passes the handler by.
Escape(so_far) ==
  /\ stage' = "ended"
  /\ outcome' = "escaped"
  /\ events' = so_far

\* normalize_batch and the COMPLETED event.
Normalize(batch, next_stage) ==
  /\ rows' = batch
  /\ IF Refused(batch)
       THEN Escape(events) /\ UNCHANGED result
       ELSE /\ result' = NormalizeBatch(batch)
            /\ outcome' = "completed"
            /\ events' = Append(events, "completed")
            /\ stage' = next_stage

NewRun(kind) ==
  /\ stage \in Resting
  /\ runs < MaxRuns
  /\ runs' = runs + 1
  /\ channel' = kind
  /\ attempt' = 0
  /\ received' = 0
  /\ answers' = <<>>
  /\ rows' = <<>>
  /\ result' = NoResult
  /\ handed' = 0
  /\ UNCHANGED artifact

-----------------------------------------------------------------------------
(* API runs *)

\* The addresses of a host: its own, or those its name resolves to at the moment.
Addresses == {"public", "internal"}
_ip_is_disallowed(ip) == ip # "public"
_resolve_safe(host, resolved) ==
  CASE host = "public_ip" -> {"public"}
    [] host = "internal_ip" -> {"internal"}
    [] host = "named" -> resolved

validate_destination(url, allow_insecure, resolved) ==
  /\ url.well_formed /\ ~url.userinfo /\ ~url.fragment /\ url.host # "none"
  /\ url.scheme = "https" \/ (allow_insecure /\ url.scheme = "http")
  /\ \/ allow_insecure
     \/ /\ url.host # "blocked"
        /\ _resolve_safe(url.host, resolved) # {}
        /\ \A ip \in _resolve_safe(url.host, resolved) : ~_ip_is_disallowed(ip)

\* ApiIngestionService.run up to its first await: resolve, validate_destination,
\* _auth_headers, in that order.  The secret provider may hold the secret, not
\* hold it, or raise.
SecretAnswers == {"held", "missing", "raises"}

StartApi(s, secret, resolved) ==
  /\ NewRun("api")
  /\ source' = s
  /\ file' = Absent
  /\ IF ~s.known THEN Fail(<<"started">>, "unknown_source")
     ELSE IF ~s.enabled THEN Fail(<<"started">>, "source_disabled")
     ELSE IF ~validate_destination(s.url, s.allow_insecure, resolved)
       THEN Fail(<<"started">>, "unsafe_destination")
     ELSE IF s.auth /\ secret = "missing"
       THEN Fail(<<"started", "secret_failed">>, "authentication_configuration_error")
     ELSE IF s.auth /\ secret = "raises" THEN Escape(<<"started", "secret_failed">>)
     ELSE /\ stage' = "sending"
          /\ outcome' = "none"
          /\ events' = IF s.auth THEN <<"started", "secret_succeeded">> ELSE <<"started">>

\* The codes raised with retryable=True.
Transient == {"upstream_timeout", "upstream_unavailable", "upstream_rate_limited"}

\* The last attempt sleeps as well.
Raised_OneTooMany(code) ==
  /\ answers' = Append(answers, code)
  /\ UNCHANGED <<channel, source, attempt, received, batchVars, diskVars, runs>>
  /\ IF code \in Transient /\ attempt <= MaxRetries
       THEN stage' = "backoff" /\ UNCHANGED <<events, outcome>>
       ELSE Fail(events, code)

\* An attempt raised ApiIngestionError: fetch sleeps and tries again, or gives up.
Raised(code) ==
  /\ answers' = Append(answers, code)
  /\ UNCHANGED <<channel, source, attempt, received, batchVars, diskVars, runs>>
  /\ IF code \in Transient /\ attempt < MaxRetries
       THEN stage' = "backoff" /\ UNCHANGED <<events, outcome>>
       ELSE Fail(events, code)

\* The time-outs of httpx and its transport errors, before or within a response.
ConnectionFails ==
  /\ stage \in {"sending", "reading"}
  /\ \E code \in {"upstream_timeout", "upstream_unavailable"} : Raised(code)

\* httpx.DecodingError, which is neither, while the body is decompressed.
BodyUndecodable ==
  /\ stage = "reading"
  /\ answers' = Append(answers, "undecodable")
  /\ Escape(events)
  /\ UNCHANGED <<channel, source, attempt, received, batchVars, diskVars, runs>>

\* _check_status: what a status that is not 2xx comes to.
StatusError ==
  [rate_limited |-> "upstream_rate_limited", server_error |-> "upstream_unavailable",
   other |-> "upstream_client_error"]

\* A response begins: _check_status, _check_content_length, _check_content_type.
\* A length that is absent or no number is let through.
ResponseBegins(status, length, json) ==
  /\ stage = "sending"
  /\ IF status # "ok" THEN Raised(StatusError[status])
     ELSE IF length = "beyond" THEN Raised("response_too_large")
     ELSE IF ~json THEN Raised("invalid_content_type")
     ELSE /\ stage' = "reading"
          /\ received' = 0
          /\ UNCHANGED <<channel, source, attempt, answers, events, outcome,
                         batchVars, diskVars, runs>>

\* Each chunk is measured alone.
ChunkArrives_Forgets(size) ==
  /\ stage = "reading"
  /\ IF size > MaxBytes THEN Raised("response_too_large")
     ELSE /\ received' = size
          /\ UNCHANGED <<stage, channel, source, attempt, answers, events, outcome,
                         batchVars, diskVars, runs>>

\* _read_bounded, one chunk that has bytes in it.  The chunk that goes beyond the cap has
\* joined the others when they are measured.
ChunkArrives(size) ==
  /\ stage = "reading"
  /\ IF received + size > MaxBytes THEN Raised("response_too_large")
     ELSE /\ received' = received + size
          /\ UNCHANGED <<stage, channel, source, attempt, answers, events, outcome,
                         batchVars, diskVars, runs>>

\* The body is whole: _parse_json, the last step of an attempt.
BodyMalformed ==
  /\ stage = "reading"
  /\ Raised("malformed_json")

\* extract_records, or the check of the mapped header, refuses what fetch returned.
PayloadUnusable(code) ==
  /\ stage = "reading"
  /\ received > 0
  /\ code = "schema_validation_failed" => ~source.complete
  /\ answers' = Append(answers, "ok")
  /\ Fail(events, code)
  /\ UNCHANGED <<channel, source, attempt, received, batchVars, diskVars, runs>>

PayloadUsable ==
  /\ stage = "reading"
  /\ received > 0
  /\ source.complete
  /\ answers' = Append(answers, "ok")
  /\ \E batch \in Batches : Normalize(batch, "ended")
  /\ UNCHANGED <<channel, source, attempt, received, diskVars, runs>>

\* The headers, and the secret, are asked for again.
BackoffEnds_AsksAgain ==
  /\ stage = "backoff"
  /\ stage' = "sending"
  /\ attempt' = attempt + 1
  /\ events' = IF source.auth THEN Append(events, "secret_succeeded") ELSE events
  /\ UNCHANGED <<channel, source, received, answers, outcome, batchVars, diskVars, runs>>

\* The sleep ends and fetch's loop goes round: same headers, same destination.
BackoffEnds ==
  /\ stage = "backoff"
  /\ stage' = "sending"
  /\ attempt' = attempt + 1
  /\ UNCHANGED <<channel, source, received, answers, events, outcome, batchVars,
                 diskVars, runs>>

-----------------------------------------------------------------------------
(* File runs *)

\* ingest_kyc_file up to the file system: resolve_kyc_path, the extension.
StartFile(format, contained) ==
  /\ NewRun(format)
  /\ source' = NoSource
  /\ file' \in FileStates
  /\ IF ~contained THEN Fail(<<"started">>, "KycPathError")
     ELSE IF format = "other" THEN Fail(<<"started">>, "UnsupportedFileTypeError")
     ELSE /\ stage' = "is_file"
          /\ outcome' = "none"
          /\ events' = <<"started">>

\* is_file, in validate_kyc_file and again in the reader.
IsFile ==
  /\ stage \in {"is_file", "open"}
  /\ IF file.form = "absent" THEN Fail(events, "MissingFileError")
     ELSE /\ stage' = IF stage = "is_file" THEN "stat" ELSE "read"
          /\ UNCHANGED <<events, outcome>>
  /\ UNCHANGED <<channel, apiVars, batchVars, diskVars, runs>>

\* stat().st_size against the limit; stat itself raises if the file is gone.
Stat ==
  /\ stage = "stat"
  /\ IF file.form = "absent" THEN Escape(events)
     ELSE IF file.form = "empty" THEN Fail(events, "EmptyFileError")
     ELSE IF file.over THEN Fail(events, "FileTooLargeError")
     ELSE stage' = "open" /\ UNCHANGED <<events, outcome>>
  /\ UNCHANGED <<channel, apiVars, batchVars, diskVars, runs>>

\* What read_kyc_rows and check_source_schema make of a file: only load_workbook
\* is guarded, so open, the decoder, the csv parser and a sheet's XML raise as they
\* are.
ReadError ==
  [csv  |-> [absent |-> "escaped", empty |-> "SourceSchemaError", garbled |-> "escaped",
             broken |-> "escaped", overlong |-> "none", headless |-> "SourceSchemaError",
             whole |-> "none"],
   xlsx |-> [absent |-> "CorruptFileError", empty |-> "CorruptFileError",
             garbled |-> "CorruptFileError", broken |-> "escaped",
             overlong |-> "CorruptFileError", headless |-> "SourceSchemaError",
             whole |-> "none"]]

FileUnreadable ==
  /\ stage = "read"
  /\ ReadError[channel][file.form] # "none"
  /\ IF ReadError[channel][file.form] = "escaped" THEN Escape(events)
     ELSE Fail(events, ReadError[channel][file.form])
  /\ UNCHANGED <<channel, apiVars, batchVars, diskVars, runs>>

\* read_xlsx_rows skips the rows without a cell; the csv reader keeps them.
WithCells(batch) ==
  LET kept == InOrder({i \in DOMAIN batch : HasCell(batch[i])})
  IN  [k \in DOMAIN kept |-> batch[kept[k]]]

FileReadable ==
  /\ stage = "read"
  /\ ReadError[channel][file.form] = "none"
  /\ \E batch \in {b \in Batches : FromFile(b)} :
       Normalize(IF channel = "xlsx" THEN WithCells(batch) ELSE batch, "export")
  /\ UNCHANGED <<channel, apiVars, diskVars, runs>>

\* The job without --write-jsonl, or whose artifact cannot be opened.
NoExport ==
  /\ stage = "export"
  /\ stage' = "ended"
  /\ UNCHANGED <<channel, apiVars, events, outcome, batchVars, diskVars, runs>>

\* write_processed_jsonl: open("w") empties the artifact, then a line an entity.
OpenArtifact ==
  /\ stage = "export"
  /\ stage' = "writing"
  /\ artifact' = <<>>
  /\ UNCHANGED <<channel, apiVars, events, outcome, batchVars, file, handed, runs>>

\* The file after n lines and, when it is torn, a part of the next, which is no JSON and
\* is read as no entity: a line is a JSON object, and lacks its last brace until it is
\* all there.
Written(n, torn) ==
  [i \in 1..(IF torn THEN n + 1 ELSE n) |->
     [run |-> runs, row |-> result.entities[i], whole |-> i <= n]]

\* A text file is buffered: of the first h lines, anything from what is on disk already
\* to all of it may get there.
Flush(h) ==
  \E n \in 0..h, torn \in BOOLEAN :
    /\ torn => n < h
    /\ Len(artifact) <= IF torn THEN n + 1 ELSE n
    /\ \A i \in DOMAIN artifact : artifact[i].whole => i <= n
    /\ artifact' = Written(n, torn)

WriteLine ==
  /\ stage = "writing"
  /\ handed < Len(result.entities)
  /\ handed' = handed + 1
  /\ Flush(handed + 1)
  /\ UNCHANGED <<stage, channel, apiVars, events, outcome, batchVars, file, runs>>

\* A write or the close fails, on a full disk: what got there stays, and the job ends in
\* the exception, after the run's events.
ExportFails ==
  /\ stage = "writing"
  /\ result.entities # <<>>
  /\ \E h \in {handed, handed + 1} : h <= Len(result.entities) /\ Flush(h)
  /\ stage' = "ended"
  /\ outcome' = "unwritten"
  /\ UNCHANGED <<channel, apiVars, events, batchVars, file, handed, runs>>

\* close flushes the rest.
CloseArtifact ==
  /\ stage = "writing"
  /\ handed = Len(result.entities)
  /\ artifact' = Written(handed, FALSE)
  /\ stage' = "ended"
  /\ outcome' = "exported"
  /\ UNCHANGED <<channel, apiVars, events, batchVars, file, handed, runs>>

-----------------------------------------------------------------------------
(* The surroundings *)

\* Somebody puts another file in place, or takes the file away.  Outside these
\* stages nobody looks: a run finds whatever is there when it starts.
FileChanges ==
  /\ stage \in {"is_file", "stat", "open", "read"}
  /\ file' \in FileStates
  /\ UNCHANGED <<stage, channel, apiVars, events, outcome, batchVars, handed, artifact, runs>>

\* The process dies, and what was only in its buffers with it.
Crash ==
  /\ stage \notin Resting
  /\ stage' = "ended"
  /\ outcome' = "crashed"
  /\ UNCHANGED <<channel, apiVars, events, batchVars, diskVars, runs>>

Init ==
  /\ stage = "idle"
  /\ channel = "other"
  /\ source = NoSource
  /\ attempt = 0
  /\ received = 0
  /\ answers = <<>>
  /\ events = <<>>
  /\ outcome = "none"
  /\ rows = <<>>
  /\ result = NoResult
  /\ file = Absent
  /\ handed = 0
  /\ artifact = <<>>
  /\ runs = 0

Start ==
  \/ \E s \in Sources, secret \in SecretAnswers, resolved \in SUBSET Addresses :
       StartApi(s, secret, resolved)
  \/ \E format \in {"csv", "xlsx", "other"}, contained \in BOOLEAN :
       StartFile(format, contained)

\* A step of the run itself.
Step ==
  \/ ConnectionFails
  \/ \E status \in {"ok"} \cup DOMAIN StatusError, length \in {"unknown", "within", "beyond"},
        json \in BOOLEAN : ResponseBegins(status, length, json)
  \/ \E size \in 1..MaxChunk : ChunkArrives(size)
  \/ BodyUndecodable
  \/ BodyMalformed
  \/ \E code \in {"invalid_payload_shape", "schema_validation_failed"} : PayloadUnusable(code)
  \/ PayloadUsable
  \/ BackoffEnds
  \/ IsFile
  \/ Stat
  \/ FileUnreadable
  \/ FileReadable
  \/ NoExport
  \/ OpenArtifact
  \/ WriteLine
  \/ ExportFails
  \/ CloseArtifact

Next == Start \/ Step \/ FileChanges \/ Crash

Spec == Init /\ [][Next]_vars

\* Every await of a run is bounded: httpx.Timeout bounds the connection, each
\* read and write, asyncio.sleep the pause; the rest runs without waiting.
FairSpec == Spec /\ WF_vars(Step)

-----------------------------------------------------------------------------
(* Properties *)

FileErrors == {"KycPathError", "MissingFileError", "UnsupportedFileTypeError",
               "EmptyFileError", "FileTooLargeError", "SourceSchemaError",
               "CorruptFileError"}
FetchErrors == Transient \cup
  {"upstream_client_error", "response_too_large", "invalid_content_type",
   "malformed_json"}
ApiErrors == FetchErrors \cup
  {"unknown_source", "source_disabled", "unsafe_destination",
   "authentication_configuration_error", "invalid_payload_shape",
   "schema_validation_failed"}
\* A run whose batch was normalized, whatever became of the artifact.
Done == {"completed", "exported", "unwritten"}
Outcomes == {"none", "escaped", "crashed"} \cup Done \cup FileErrors \cup ApiErrors
Events == {"started", "completed", "failed", "secret_succeeded", "secret_failed"}

\* Every variable has a value of its type; in particular fetch makes no attempt
\* beyond max_retries + 1 and no more than the cap is held of a response
\* (api/client.py:88-100 and 172-180).
TypeOK ==
  /\ stage \in Stages
  /\ channel \in {"api", "csv", "xlsx", "other"}
  /\ source \in Sources \cup {NoSource}
  /\ attempt \in 0..MaxRetries
  /\ received \in 0..MaxBytes
  /\ \A i \in DOMAIN answers : answers[i] \in FetchErrors \cup {"ok", "undecodable"}
  /\ \A i \in DOMAIN events : events[i] \in Events
  /\ outcome \in Outcomes
  /\ Len(rows) <= MaxRows /\ \A i \in DOMAIN rows : rows[i] \in Rows
  /\ \A i \in DOMAIN result.entities : result.entities[i] \in DOMAIN rows
  /\ file \in FileStates
  /\ handed \in 0..MaxRows
  /\ \A i \in DOMAIN artifact :
       artifact[i] \in [run : 1..MaxRuns, row : 1..MaxRows, whole : BOOLEAN]
  /\ runs \in 0..MaxRuns

\* No silent winner: of the rows of a batch that carry one client id, none is
\* emitted when there are several, whatever else is wrong with any of them, and
\* each is reported as a duplicate (normalize_batch,
\* kyc_ingestion_pipeline.py:65-88).
NoSilentWinner ==
  outcome \in Done =>
    \A i, j \in DOMAIN rows :
      (i # j /\ rows[i].client_id = rows[j].client_id /\ rows[i].client_id # Blank) =>
        /\ \A k \in DOMAIN result.entities : result.entities[k] # i
        /\ <<i, "client_id", "duplicate_client_id">> \in result.issues

\* The report accounts for every row: a row is emitted, in its place, exactly when
\* it has no issue, invalid_rows is the number of rows with an issue
\* (reports.py:71), and an emitted row has nothing wrong with any cell
\* (normalize_row, normalize_batch, _build_report).
ReportAccounts ==
  outcome \in Done =>
    LET emitted == {result.entities[k] : k \in DOMAIN result.entities}
        flagged == {x[1] : x \in result.issues}
    IN /\ emitted \cup flagged = DOMAIN rows
       /\ emitted \cap flagged = {}
       /\ \A k \in 1..(Len(result.entities) - 1) :
            result.entities[k] < result.entities[k + 1]
       /\ result.report.total_rows = Len(rows)
       /\ result.report.valid_rows = Cardinality(emitted)
       /\ result.report.invalid_rows = Cardinality(flagged)
       /\ \A i \in emitted :
            /\ rows[i].client_id \in Ids \ LongIds
            /\ \A f \in TextFields : rows[i].cells[f] \in {"good", "odd"}
            /\ \A f \in BooleanFields \cup {"sector_risk"} : rows[i].cells[f] = "good"

\* The artifact is one run's: its lines are the first entities of one result in their
\* order, only the last of them can be torn, and once the job has exported they are all
\* there and whole, after any crash, failing write and earlier run
\* (write_processed_jsonl, kyc_ingestion_pipeline.py:192-203).  That an artifact was cut
\* off between two lines shows nowhere in it.
ArtifactOfOneRun ==
  /\ \A i \in DOMAIN artifact : artifact[i].run = artifact[1].run
  /\ \A i \in 1..(Len(artifact) - 1) :
       artifact[i].whole /\ artifact[i].row < artifact[i + 1].row
  /\ (artifact # <<>> /\ artifact[1].run = runs) =>
       /\ Len(artifact) <= Len(result.entities)
       /\ \A i \in DOMAIN artifact : artifact[i].row = result.entities[i]
  /\ outcome = "exported" =>
       /\ Len(artifact) = Len(result.entities)
       /\ \A i \in DOMAIN artifact : artifact[i].run = runs /\ artifact[i].whole

\* No row is lost, doubled or put among another run's on its way from the file to the
\* report and the artifact.
RowsAccounted == NoSilentWinner /\ ReportAccounts /\ ArtifactOfOneRun

\* What may pass is retried and nothing else: every attempt but the last failed for
\* a passing reason, a run fails with a passing reason only after its last
\* attempt, and an error of fetch that the run ends with is its last attempt's (ApiConnector.fetch,
\* client.py:88-100).
RetriesAreTransient ==
  /\ \A i \in 1..(Len(answers) - 1) : answers[i] \in Transient
  /\ Len(answers) <= MaxRetries + 1
  /\ stage = "ended" /\ outcome \in Transient => Len(answers) = MaxRetries + 1
  /\ stage = "ended" /\ outcome \in FetchErrors => outcome = answers[Len(answers)]

\* The audit log tells how each run ended: STARTED, then what became of the secret,
\* asked for once however many attempts follow, then one terminal event that says
\* what the run did.  Only an exception outside the run's family of errors ends it
\* without one (ApiIngestionService.run, ingest_kyc_file, _auth_headers).  And what it
\* says has its cause in the attempts.
EndIsAudited ==
  /\ RetriesAreTransient
  /\ stage = "ended" /\ outcome # "crashed" =>
       LET asked == channel = "api" /\ source.auth
                    /\ outcome \notin {"unknown_source", "source_disabled", "unsafe_destination"}
           secret == IF ~asked THEN <<>>
                     ELSE IF answers = <<>> THEN <<"secret_failed">> ELSE <<"secret_succeeded">>
           terminal == IF outcome = "escaped" THEN <<>>
                       ELSE IF outcome \in Done THEN <<"completed">> ELSE <<"failed">>
       IN  events = <<"started">> \o secret \o terminal

\* Every run ends: the byte cap bounds a response that never does, max_retries an
\* upstream that never answers (client.py:88-100, 172-180).  A chunk is one that has
\* bytes once decompressed; others are not counted (client.py:173), nor here.
RunsEnd == stage \notin Resting ~> stage \in Resting
=============================================================================
