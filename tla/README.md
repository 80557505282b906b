# A verification development for the KYC risk platform

The repository is a platform for continuous know-your-customer monitoring made of
three services and their libraries. This directory models the parts of it that
keep state, decide something, and can be interrupted while they do: the audit
logs, the investigation pipeline, the screening service and the scores, ingestion, the
protected store, access control, the gateway to the language model, and the officer's
workbench. The modules are written
from the code; `PROJECT.json` names, for every definition, the lines it models.

## The system

| part | where | state it keeps | operations |
| --- | --- | --- | --- |
| governance console | `risk_engine/governance.py`, `api.py` | audit log, reviews, SAR sign-offs, cases once listed (memory); audit table (SQLite) | live news look-up, review, sign-off, verify, reload at start |
| backend audit log | `backend/app/audit/` | default service, one pointer and lock per sink (memory); one JSON-lines file | emit, verify, restart |
| investigation | `backend/app/routers/investigation.py`, `services/orchestrator.py`, `agents/` | clients with a run in progress, last results, datasets as far as they were read (memory) | start a run, ask for its status, list the clients |
| entity intelligence | `src/projecttechm/` | registry of lists and clients, findings per customer, evidence-id counter, bounded audit sink (memory) | load, screen, look a customer up, trace owners, analyze an article, read and verify the log |
| model gateway | `src/projecttechm/llm_*.py`, `egress.py`, `injection.py` | none between calls | choose a backend, check what leaves, ask, retry, fall back |
| risk engine | `risk_engine/engine.py`, `scoring.py`, `risk_bridge.py` | the shared registry, loaded at the first call | assess a payload, assess its own clients |
| ingestion | `backend/app/ingestion/` | one run's progress (memory); input file, plain artifact, audit events (disk) | ingest a file, ingest from an API, write the artifact |
| data protection | `backend/app/encryption`, `secrets` | encrypted artifacts on disk, a cached provider | resolve a key, seal and store, read and open |
| access | `backend/app/identity`, `privacy`, `audit/middleware` | accounts and a secret (configuration), an actor per request | log in, resolve a token, check a permission, choose what is shown, one event per request |
| workbench | `frontend/src/App.jsx`, `api.js` | session, selection, panels, fetches on their way (a page) | select, run checks, decide, verify the chain |

How they interact. The console calls the risk engine and its own store, on the threads of
the server's pool. The backend's endpoints, its ingestion services and its HTTP middleware
emit into one process-wide `AuditService`. The investigation endpoints run on one event loop
and wait at every call to a language model; their results pass through the grounding
guardrail, which reads the dataset loaders' caches, and the SAR through the privacy
guardrail. Entity intelligence runs on pool threads, emits into its own sink, and hands
match and media records to the risk engine through contracts. The workbench calls all three
services and holds nothing they do not, except what is on the screen.

Where it is hard.

* *Threads without a lock*: `record_audit` reads the tail, numbers and appends in
  separate steps; `get_audit_service` tests and sets a global; the media store is a
  plain dictionary; an event id is taken under one lock and used under another.
* *State read and used later*: `verify_chain` of the bounded sink copies the events
  under the lock and reads `dropped` after it; a page of the log reads three counts
  one by one.
* *Awaits*: a run may fail or be cancelled at every call to the model, while other
  requests for the same client come in.
* *Failure and crash*: a process may die between memory and disk; inserts and
  reloads swallow exceptions; a line may reach the file although its write failed.
* *State that outlives its cause*: a token issued under an earlier configuration, a
  cached Vault provider with the token of its construction, a page that puts an
  answer under another selection than it was asked for.
* *Another party's pace*: an upstream that answers late, never, or without end; an
  input file replaced between the check and the reading.
* *Limits*: the bounded sink at its limit, a text column cut at 500 characters, a
  score just under a threshold, a date 40 characters behind the word that makes it
  one of birth.

What makes each part correct. Every decision has an entry, no entry disappears or
changes, a chain that verifies deserves it and damage is confined and visible
(audit logs); one run per client, the newest result, nothing ungrounded, a SAR for
an escalation and nothing else, no client locked for ever (investigation);
supported claims, unique evidence ids, readers that are not misled by truncation
(entity intelligence); bounded retries of what may pass and of nothing else, no
winner among duplicates, a report that accounts for every row, a run that ends and
an audit log that says how (ingestion); no listed party withheld from a caller who is
told that coverage is complete, no score without its cause (screening, scores); whole
artifacts, reads that give what was written, audited (protected store); identifiers
that leave the host only as the policy allows, claims that were upheld (gateway);
rights as they are now, a trail that names the right actor, masks that mask (access);
decisions that were pressed for, once (workbench).

## Modules

| module | models | composed with |
| --- | --- | --- |
| `AuditTrail` | what an audit log promises: record, store, crash, reopen | abstract specification of `GovernanceStore` |
| `GovernanceStore` | the console's store and the threads that call it | refines `AuditTrail` |
| `GovernanceStoreProofs` | theorems about `GovernanceStore` | extends it |
| `JsonlAuditSink` | the backend's `AuditService`, its file sink and `verify.py` | |
| `JsonlAuditSinkProofs` | theorems about `JsonlAuditSink` | extends it |
| `PrivacyGuardrail` | the redaction of a SAR, as operators | used by `InvestigationPipeline` |
| `DatasetLoaders` | the backend's datasets, read at their first use and kept, as operators | extended by `InvestigationPipeline` |
| `InvestigationPipeline` | the investigation endpoints, the orchestrator, its agents, both guardrails, the demo mode | extends `PrivacyGuardrail` and `DatasetLoaders` |
| `InvestigationPipelineProofs` | theorems about `InvestigationPipeline` | extends it |
| `EntityIntelligence` | article analysis as the store and the log see it, evidence ids, the bounded sink and its readers | |
| `EntityIntelligenceProofs` | theorems about `EntityIntelligence` | extends it |
| `EntityResolution` | keys, retrieval, component scores, thresholds, ownership walk, records, as operators | extended by `ReferenceData` |
| `ReferenceData` | the loaders of lists, clients and ownership files, as operators | extends `EntityResolution` |
| `RiskScoring` | the risk engine's arithmetic, as operators | used by `ScreeningService` |
| `ScreeningService` | the registry's loading and every look-up of the API and of the risk bridge | extends `ReferenceData` and `RiskScoring` |
| `LlmGateway` | one article on its way through providers, egress policy, two passes and the fallback | |
| `RegistryAndGatewayProofs` | theorems about `ScreeningService`, the match score and `LlmGateway` | extends both, which share no name |
| `Ingestion` | API and file runs, the shared batch, the plain artifact | |
| `ProtectedData` | encrypted artifacts, keys, the cached Vault provider, crashes | |
| `BackendDataProofs` | theorems about `Ingestion` and `ProtectedData` | extends both, which share no name |
| `PrivacyPolicy` | classification, purposes, masks, roles and permissions, as operators | used by `AccessControl` |
| `AccessControl` | accounts, tokens, routes, the middleware and its audit events | extends `PrivacyPolicy` |
| `AccessControlProofs` | theorems about `AccessControl` | extends it |
| `CaseWorkbench` | the officer's page, its fetches, and the decisions the console records | |
| `CaseWorkbenchProofs` | theorems about `CaseWorkbench` | extends it |
| `MC...` | the instances TLC checks | extend the module of their name |

In every module a definition `X_Y` is the definition `X` with a plausible bug `Y`:
no specification uses it; replacing `X` by it shows that the property listed with
it in `PROJECT.json` would notice.

### GovernanceStore

One action per step of `record_audit` that another thread can come between:
`Begin` (the endpoint), `Submit` (the append to `reviews` or `sar_signoffs`),
`ReadTail`, `Build` (number and hash), `AppendEntry`, `Persist`. `Load` is
`__post_init__`; an empty log makes the booting thread `Main` record
`DATASET_LOADED`. `Persist(t, FALSE)` and `Load(FALSE)` are the swallowed
exceptions. A digest is the position, in `digests`, of the content it was computed
from: contents carry a timestamp, so that no two calls hash the same content, and
SHA-256 is taken to be free of collisions. `verify_chain` and `audit` change
nothing; the verdict is the operator `VerifyChain`.

`faults` is a history variable: it records that two requests overlapped, that an
insert or a reload failed, that a row was edited. The properties say under which
faults they hold; without the overlap, for example, the chain always verifies.

### JsonlAuditSink

The file is a sequence of lines, the last of which may lack its newline; what is
appended to an unterminated line becomes part of it and neither can be read
(`AfterAppend`). A thread goes through `get_audit_service` (`Emit`, `BuildSink`,
`SetDefault`, `ReturnDefault`), then through the sink's `write` (`Lock`, `Write`,
`Fsync`, or a failure of either). `BuildSink` may find the directory missing
(events are discarded from then on) or the file unreadable (the sink starts at
genesis). `Crash` may also lose power: of the unsynced lines a prefix survives,
the next one possibly torn. `Tamper` removes, swaps or alters lines between two
runs of the program. `damage` and `clean` are history variables: what has gone
wrong, and how many lines were in the file before it did.

### InvestigationPipeline

A handler runs undisturbed between awaits, so an action is what happens from one
answer of the model to the next call: `Post`, `FindingArrives`,
`ArgumentArrives` (twice, in either order: `gather`), `VerdictArrives`,
`SarArrives`. `Stops` is an exception at any of them, or a cancellation. Of an
answer only its citations matter, and of a SAR its text. A citation resolves, does not
resolve, or is of a type the guardrail has nothing to check against; debate references
are kept if they are, contain or are contained in a verified id, which `Overlaps` says.
`PostDemo` is a POST in demo mode: nothing is awaited, so it is one action, from the
indicators of the client to the cached result or the 502.

`DatasetLoaders` is what a request finds of its evidence. A loader keeps what it read in a
global, and all but one set that global before they read: a file that cannot be read to its
end fails the first request that needs it (`Post`, `Unverifiable`, `Unservable`,
`ListClients`) and leaves every later one with the rows before the fault. `files` is what is
on the disk while the process runs, `caches` the globals, and `failed`, a history variable,
the datasets that failed a request. A missing file fails a request once, is skipped
(sanctions) or is replaced (clients). `lost` records, in each result, the genuine citations
the guardrail did not find a record for. Citations are looked up one after the other until a
loader raises; since that order decides only which datasets are read before it, `Consulted`
is the set of the memories it can leave.

`PrivacyGuardrail` is the redaction. A text is a sequence of pieces that a rule matches
or not, each with its length; `redact_text` runs the rules one after the other over the
changing text, and `OfBirth` looks back 40 characters for a word of birth: "born", or the
"dob" that the placeholder of a date of birth holds. `redact_sar` treats subject,
narrative, flags and articles as the code does. The articles come from `gdpr.json`, which
is opened when something in the subject or the narrative is redacted (`Redaction`): when
it is missing or broken such a run ends in a 502 once the model has drafted the SAR
(`Unservable`, `DemoLoaded`), and so does the next, since this loader keeps nothing of a
file it could not read. The titles the guardrail keeps for itself come from the loader's
articles and last as long, so they are no state of their own.

### EntityIntelligence

Each locked block of the id generator and of the sink is one action; what happens
between two of them interleaves. `Analyze` reads an article in one of the ways
`analyze_article` can end up with: both passes answered (`GuardedReading`), or no
model, a refusal of the egress policy, or a failure of either pass
(`HeuristicReading`). The models may claim anything. `StoreFinding`, `NextEventId`
and `Write` follow. `Screen`, `Score` and `Rank` are a screening. `BeginVerify`,
`Anchor`, `Verdict` are `verify_chain`, with its two reads of `dropped`;
`BeginPage`, `ReadCount`, `ReadDropped` are `GET /audit/events`. What a screening finds
and how an article is read are left to the two modules below.

### ScreeningService, EntityResolution, ReferenceData, RiskScoring

The state is a process: the files it finds, the registry as far as it is loaded, the
findings stored, and the last answer. `LoadSdn`, `LoadOpenSanctions`, `LoadFixtures`,
`BuildIndex`, `LoadClients`, `LoadGraphs`, `LoadArticles` are the steps of `load` in
their order; `LoadRaises` is a file that fails, after which the API does not start but
the risk engine's bridge goes on with what there is. The look-ups are one action each
(`Screen`, `SanctionsMatches`, `Analyze`, `EntityIntelligence`, `RiskSignals`,
`TraceUbo`, `AssessPayload`, `AssessClient`): they share nothing that changes but the
stored findings, and what threads do to those is `EntityIntelligence`'s subject.

The rest is operators. A name is a sequence of words; a key is a word, or a `Short` word
with the one after it. Component scores are whole hundredths and weights whole percents,
so that match scores are exact; the likeness of two texts is a table that the instance
gives. `RiskScoring` keeps the factors, their points, the caps and floors, and leaves
out their wording.

### LlmGateway

One article at a time, as `analyze_article` is synchronous: `Begin` (whether to ask a model
at all), `Probe`, `Build` (a backend, described for `/health`), `Enforce` (the egress
policy), `Request`, then `Raises`, `Unusable`, `Misshapen`, `Extracted` or `Guarded`, and
`Fallback` to the heuristic. `environ` is chosen once: provider, keys, base URL, policy. A
URL has two sides: where it leads (`here`) and what its text holds (`holds`), which is all
that `Local` goes by. A ruling of the guard is true, false or something else, which is
truthy (`Rulings`). An article has identifiers, phrases of injection, each hidden in some
way, and the claims it alleges; `detect_injection` says which phrases fire in which form of
the text.


### Ingestion

Runs share nothing in memory (the sink their events go to is `JsonlAuditSink`), so the
module follows one after another; what is left between them is the artifact. `StartApi` is
everything before the first await: source, destination, secret, in that order.
`validate_destination` looks at a URL's form, scheme, host and at the addresses its name
resolves to at that moment, which may be any. `ResponseBegins`, `ChunkArrives`,
`BodyMalformed`, `PayloadUnusable` and `PayloadUsable` are the checks of a response in the
order the client makes them, `ConnectionFails` a time-out or transport error at any point,
`Raised` the retry decision of `fetch`, `BackoffEnds` its loop. `StartFile`, `IsFile`,
`Stat`, `IsFile` again and `FileReadable` or `FileUnreadable` are the system calls of a file
run, between any two of which `FileChanges` may put another file in place. Both channels end
in `Normalize`: `normalize_batch` as the operators `NormalizeRow`, `DuplicateIds`,
`RowIssues`, `Entities` and `Report`, then the COMPLETED event. `Escape` is an exception
outside the run's family of errors. `OpenArtifact`, `WriteLine`, `CloseArtifact` write the
artifact. Its lines go through a buffer: at each step anything from what is on disk already
to all that was handed over may get there (`Flush`), the last line perhaps in part, and that
is what a `Crash` or a failing write (`ExportFails`) leaves. Nothing syncs the file; a loss
of power is not modelled for it. Of a cell, only what the normalizers tell apart is kept.

### ProtectedData

`Begin` is `write_bytes` or `write_json`, `read_bytes` or `read_json`; `ResolveProvider` and
`Construct` are the factory, between which two threads may each find no provider; `Seal`
resolves the key and encrypts; `CreateTemp`, `WriteTemp`, `Fsync`, `Replace` are
`_write_envelope`, each of which may fail (`WriteFails`); `Open` and `Decrypt` are a read,
and `read_json` may find after the decryption that it is no JSON. `stood` remembers, for a
read, what writes have left under its name since it began. Vault may be out of reach at any
request. `PowerLoss` may undo renames that the disk has not settled and tear a file that was
not synced; `Damage` alters what an envelope would decrypt to, or its key id. The tag binds
neither key id nor name: files that are moved are not modelled. AES-GCM is taken to be
ideal: an envelope opens with the material that sealed it, unaltered, and with nothing else.

### AccessControl, PrivacyPolicy

A request goes through the middleware (`Arrive`, `Unwind`), a log-in (`Authenticate`,
`Issue`), the token (`Bearer`), the permission (`Authorize`) and its route (`Handle`,
`StartIngest`, `EndIngest`); `Preflight` is answered outside it, and a step that cannot
make an actor raises (`Raise`). The two requests overlap between any two of these steps; the
actor is kept per request, as a context variable is. `Restart` brings another
configuration and perhaps another secret while tokens stay with their holders; `Tick`
lets them expire. `PrivacyPolicy` is the classification, the six purposes, the masks over
names of words and letters, and `kyc_context_for`.

### CaseWorkbench

A click is an action (`Select`, `PressCheck`, `PressReview`, `PressAudit`, `Write`,
`Leave`, `SignIn`); a fetch is an element of `calls` that is settled whenever its answer
comes: `Record` is the service doing its part, `Answered` the handler that runs, `Fail`
a fetch that fails, before or after the service did its part. JavaScript runs a handler
to its next await undisturbed. `MakeCases` is somebody listing the cases, after which the
case of a customer the console does not know is that of `TopCase`. A call remembers whom
it was about and whether the selection has changed since; the program does not, and the
properties say what follows.

## Runs

| run | checks | instance and why it is enough |
| --- | --- | --- |
| `governance` | `TypeOK`, `VerdictRight`, `AckedDurable`, `ValidMeansNumbered`, `DecisionsRecorded`, `ImplementsTrail` | two threads and `Main`, one customer, four calls, one crash, all disk faults. Two threads race, the crash falls between any two steps, and two entries are left to record after the reload |
| `jsonl` | `TypeOK`, `DamageConfined`, `AckedReadable` | two threads, three events, one crash, all file faults: a damaged line with one before it and one after it, two sinks over the file, an edit of a chain of three |
| `investigation` | `TypeOK`, `OneRunPerClient`, `ResultFitForReview`, `ServedRedacted`, `ClientFreed` | two handlers, one client whose indicators escalate, one that is a stranger to the file but built in, one that is in neither, two POSTs, one restart, the files in five conditions between which each loader meets each way it treats a fault, one of them without articles for a client that escalates; citations of a transaction, of the profile, and of an article that is none and a substring of the first; two drafts with every kind of piece, a date on either side of the 40 characters, and one at their end behind a placeholder |
| `entity_intelligence` | `TypeOK`, `WindowAccounted`, `FindingsAudited`, `VerdictHonest` | two threads, a log of two events, two evidence ids, one claim, an honest article and one with an injection attempt, one altered event: up to four events, so that eviction happens twice |
| `screening` | `TypeOK`, `NoMatchWithheld`, `ScoresDeserved` | two real lists and the fixtures, each file absent, broken or good, cut off after one row, two or none; an ownership chain of three; clients and payloads on both sides of each threshold |
| `llm_gateway` | `GatewayTypeOK`, `LeavesOnlyAsAllowed`, `OnlyUpheld`, `EveryArticleAnswered` | every environment the gateway tells apart, URLs here and elsewhere that hold "localhost", an address of this host or neither, two articles (with a name, which no pattern knows, and a hidden injection; with a number and an injection that is found), two claims of which one carries a number, every ruling on none, one or both |
| `ingestion` | `TypeOK`, `RowsAccounted`, `EndIsAudited`, `RunsEnd` | two runs, two retries, a cap of two units, batches of up to three of six rows (two good ones, one wrong in two fields, one the entity refuses, one with too long an id, an empty one): three occurrences of an id, duplicates of which one is unusable, an artifact over an earlier one; six sources, one for each way to be turned away and each way to go on, one of them a test source on a blocked host |
| `protected_data` | `DataTypeOK`, `ArtifactWhole`, `ReadRight`, `AuditTells` | two threads, one name inside the directory and one outside, two values of which one is no JSON, one key id, two keys, a Vault token that is accepted or not, one rename at a time not settled: a rotation, an expired token, a race of two writers, a reader between them, a damaged value and the one that was written |
| `access` | `TypeOK`, `RightsAreCurrent`, `TrailTellsWhoDidWhat`, `ViewWithinRights` | two requests, six routes and preflights, two configurations of which the first has an account with an empty id and one with too long an id, the second deactivates one account, changes the password of another and lists two under one id, two secrets, tokens that live one tick, one restart |
| `workbench` | `TypeOK`, `DecisionsIntended`, `OnlyCrossedIsStale` | two officers, two customers of whom the console knows one, three presses, one change of selection, two pages: an answer that crosses a change, a lost answer followed by a second press, a fetch that outlives its page |

What a compound property says.

* `DamageConfined`: without damage the file verifies; with it the lines before the
  damage still do; an edit of what was acknowledged shows for ever.
* `OneRunPerClient`: a client has one run at most, is marked exactly while it has one,
  its status is what it should be, and a run under way is later than the cached result.
* `ResultFitForReview`: grounded evidence, arguments that cite only what overlaps it, a
  SAR for an escalation and nothing else; a genuine citation is stripped only after its
  file was missing or had failed a request. `ServedRedacted`: in a SAR exactly what
  identifies a person without need is masked, counted, and its article cited, from a file
  that this process has read.
* `OnlyCrossedIsStale`: a panel is about the selected customer unless its answer crossed a
  change of selection, or the console knows no such customer, or it is the map of owners,
  traced from the first root. `DecisionsIntended` excepts a sign-off over a draft that
  crossed. Both say that these are the only ways, not that they are right.
* `WindowAccounted`, `FindingsAudited`: the bounded log and its pages account for what
  was dropped; evidence ids are unique and each stored finding has its event.
* `RowsAccounted`: of duplicates none silently wins, the report adds up, an artifact is
  the beginning of one run's entities, its last line perhaps torn, and is whole and
  complete once the job has exported it. That it was cut between two lines shows nowhere.
  `EndIsAudited`: one terminal event that says how, and retries of what may pass only.
* `NoMatchWithheld`: who is told that coverage is complete can screen for every name the
  lists publish; pruning and limits withhold nothing that would match; owners within the
  depth are reported. `ScoresDeserved`: points have their cause, a hit that the payload
  says is confirmed gives at least the floor of its confidence (85 from 0.85 on, 65 from
  0.60).

Two runs expect a violation: each checks one sentence of the code's documentation
against what the code does.

| run | property | what TLC shows |
| --- | --- | --- |
| `governance_restart` | `ChainContinues` | the later of two overlapping calls writes its row first, a crash comes before the earlier one's, and the reloaded chain links to an entry that is missing |
| `screening_reorder` | `ReorderedRetrieved` | a listed "Un Pae LIM" is not retrieved for "Lim Un Pae": words of fewer than four letters make no key of their own |

Bounds. `MaxCalls`, `MaxEvents`, `MaxPosts`, `MaxEvidence`, `MaxMatches`, `MaxFindings`,
`MaxPresses`, `MaxSelections`, `MaxPages` and `MaxTime` bound counters that only grow;
`MaxUnderWay` bounds the checks one page has on their way; `MaxCrashes` and `MaxRestarts`
bound crashes; `MaxRuns`, `MaxRows` and `MaxChunk` bound ingestion runs, batches and
chunks (`MaxRetries` and `MaxBytes` are settings of the program, not bounds of the
model); `MaxUndone` bounds what a loss of power may bring back under a name.
`LlmGateway` has no bound: its state is finite. One edit
of the table, of the file and of the log in memory is allowed. All of them are guards of
the action they bound. When a bound is reached the system stops, so most runs do
not check for deadlock; that nobody waits for ever is `EveryArticleAnswered`,
`ClientFreed` and `RunsEnd`. Threads, requests, officers, keys and tokens are
interchangeable, and are symmetry sets in the runs that check no liveness property.

Fairness. `InvestigationPipeline!FairSpec`: every call to the model ends, with an answer
or an exception; the client library has a time-out of its own. `Ingestion!FairSpec`:
every await of a run is bounded, by `httpx.Timeout` or by the length of a sleep; that a
response ends is not assumed, it follows from the byte cap, which counts the chunks that
have bytes once decompressed: a response of chunks that have none is left out.
`LlmGateway`: weak fairness
of the one thread's steps; each request ends, since the clients give up after their
time-out, and nothing is assumed of what it ends with. The other modules state no
liveness.

## Proofs

`GovernanceStoreProofs` proves, for any set of threads and customers, any faults
and any bounds (the module's assumptions on its constants are that the pool is finite
and `Main` not one of its threads, that the faults are those the model knows, and that
the ids stay below 100000, where text order is the order of the numbers):

| theorem | property |
| --- | --- |
| `TypeCorrect` | `TypeOK` |
| `HistoryKept` | `AppendOnly`, checked by TLC as part of `ImplementsTrail` but for the rows' ids |
| `VerdictIsRight` | `VerdictRight` |
| `AcknowledgedIsDurable` | `AckedDurable` |
| `ValidIsNumbered` | `ValidMeansNumbered` |
| `DecisionsAreRecorded` | `DecisionsRecorded` |
| `StoreImplementsTrail` | `ImplementsTrail` |

The argument is four inductive invariants, each proved to hold initially and to be
kept by every action.

* `EntriesInv`: a digest is carried by at most one entry of the log, one row and one
  call under way; an entry being persisted is in the log and in no row; a row is
  filed under its own event id. It is why what is recorded is always new, what is
  stored is something the log shows, and a stored row is never replaced.
* `SerialInv`: as long as requests come one at a time and nothing but an edit has
  gone wrong, the log is in order (each entry linked to the one before it and
  numbered by its place), the call under way holds the current tail, the table is the
  log minus the entry under way, and has no gaps while the process is down.
  `VerdictRight` alone is not inductive: the link of an entry is right only because
  the tail was still the tail when it was appended.
* `FirstLifeInv`: in the first process, an entry's number is at least that of the
  entry it links to plus one, as the log only grows between reading the tail and
  reading its length; with the links verified, the numbers are then exactly the
  places.
* `DecisionsInv`: for each kind of decision and each customer, the occurrences in the
  list are no more than the entries in the log and the handlers still to append one,
  taken together. Each step moves one element from one of these finite sets to the
  next; while the process is down the lists are empty.

`JsonlAuditSinkProofs`, for any set of threads, any file faults and any number of events
and crashes (assumptions: `NoSink` is no thread, the faults are those the model knows, the
bounds are numbers):

| theorem | property |
| --- | --- |
| `AuditLogTyped` | `TypeOK` |
| `DamageStaysConfined` | `DamageConfined` |
| `AckedStaysReadable` | `AckedReadable` |

`IInv` joins what the sinks hold to what the file holds. `SinksBuilt` and `LocksHeld`: a
sink is built before it is used, and a line is written under its sink's lock.
`PendingOnce` and `LinesOnce`: an event is with one thread, or in one line, or gone, so a
digest names a line. `Undamaged`: while nothing has gone wrong there is one sink, its
pointer is the hash the file ends in except between the write and the fsync, and the line
being written links to it. `Torn`, `CleanAccepted` and `EditShows`: afterwards steps only
append or spoil a last line that was torn already, which is neither clean nor accepted; a
line put in the place of an edited one does not link to the line before it, as lines that
verified have different digests. `AckedSynced`: acknowledged events are among the synced
lines, which a loss of power keeps. That the reader checks at least the clean lines
(`CheckedReaches`) needs a greatest element of a bounded set of numbers; `GreatestExists`
gets it from the pigeonhole principle for finite sets.

`BackendDataProofs` proves `Ingestion` correct for any rows, sources, retries and sizes
(assumptions: rows and sources are among those the module describes, long ids are ids, a
blank is none, and a chunk has at least one unit):

| theorem | property |
| --- | --- |
| `IngestionTypeOK` | `TypeOK` |
| `IngestionRowsAccounted` | `RowsAccounted` |
| `IngestionEndIsAudited` | `EndIsAudited` |

How a run ended is judged by what led to it, so `FetchInv` and `FileInv` say, stage by
stage, what channel, attempts, answers and events are while it is under way: every answer so
far has passed, and one more attempt has begun unless the client sleeps. `DoneInv` ties the
result of a run that is done to its rows, and the lemma `BatchNormalized` says of
`normalize_batch` what `RowsAccounted` asks: which rows are emitted, in which order, which
are flagged, and that the counts of the report add up to the rows. `LinesInv` is about the
artifact: until this run writes, every line in it is an earlier run's; `WrittenKept` then
says of any part of the lines, torn or not, that it is the beginning of the entities. That a
selected row is the n-th of the rows selected is an induction on n; `UpTo` and `LeastExists`
make such an argument on a set of numbers, through the well-foundedness of `<`.

The same module proves `ProtectedData` correct for any set of threads, names, keys,
tokens and values, any number of crashes and losses of power, and any damage (its
assumptions: the names that leave the directory are names, and `None` is no value).

| theorem | property |
| --- | --- |
| `Typed` | `DataTypeOK` |
| `ArtifactsAreWhole` | `ArtifactWhole` |
| `ReadsAreRight` | `ReadRight` |
| `AuditIsTold` | `AuditTells` |

`ArtifactWhole` speaks of what a loss of power may leave, which is not inductive: that
needs every file under a name, and every file it may fall back to, to be synced
(`Storage`), and that in turn needs a thread about to replace an artifact to hold a
synced envelope. `Calls` ties each reply to its events; its part `Seen` says that a read
has been told of all that stands under its name until it opens the file, and then of what
the envelope it opened was made of, so that what authenticates is what was written.

`RegistryAndGatewayProofs`, for the screening service: any lists, clients, ownership file,
findings, payloads, queries, limits and depths.

| theorem | property |
| --- | --- |
| `ScreeningTyped` | `TypeOK` |
| `NothingIsWithheld` | `NoMatchWithheld` |
| `ScoresAreDeserved` | `ScoresDeserved` |

The assumptions are on the constants: a file is a sequence of rows, so it has finitely
many; what is listed has finitely many aliases and at least one word in each of its names
(`load_opensanctions` skips a row without a name, an alias is kept only when something is
left of it, `data_loader.py:207`, `:216`); an ownership file tells of the parties its edges
are between (`load_ubo_structure`); the matchers answer with a percentage
(`scoring.py:57-78`, `261-275`); confidences are numbers or missing, counts are numbers. TLC
evaluates them all on the instance.

An answer is right when it is given and must be so still, and the lists are loaded in seven
steps any of which may fail. `IInv` says how far loading has come by what is there
(`LoadedSoFar`): before `BuildIndex` the index is empty and after it the index holds the
lists in force, also when the load failed later, which is what a bridge goes on with;
coverage is called complete only when the row limit cut nothing off. `StoreOk` says whose
the findings stored under an id are, and `AnswerOk` that the last answer is one that the
registry as it stands may give. From there on the properties are about operators:

* `InForceIsPublished`: each name a row in force publishes is a name of an entity in the
  index, below the row limit, and by `FoundByName` an entity is found by any of its names.
* `ScreeningIsComplete`: an entity that would match with its description compared is
  classified so without it (`PruningIsHarmless`), and is among the best `limit`
  (`KeptAreBest`) unless those are all at least as good.
* `ChainIsComplete`: the layers below a root stop growing after as many steps as there are
  nodes (`LayersClose`), so that a chain of any length stays within `Descendants`.
* `PointsAreEarned`: a factor of a component of the assessment has its cause in the payload;
  `ConfirmedIsCritical`: a confirmed hit sets the floor of its confidence, whatever the sum
  of the points (`FoldIsInt`: it is a number, being one over finitely many factors).
* `NameAloneNeverConfirms`: a match that nothing but the name and the aliases corroborates
  is never a confirmed one, so that the case of `_decision_for` written for it is never
  taken.

Sums over a set and layers of a graph are recursive functions; that they exist and what
they are is shown on sets of numbers with `UpTo`, and in that form induction is within
reach of the prover, for functions that have a name.

The same module, for the gateway, for any articles, claims and identifiers (its assumption
on them, `NothingAssumption`: `Nothing` is no article, URL, backend or finding):

| theorem | property |
| --- | --- |
| `GatewayTyped` | `GatewayTypeOK` |
| `NothingLeavesUnallowed` | `LeavesOnlyAsAllowed` |
| `ClaimsAreUpheld` | `OnlyUpheld` |

The policy is asked about a text for the backend in use, and the text is sent later, up to
four times. `GatewayInv` therefore ties the backend to what the environment calls for
(`BackendAsConfigured`), clears not only what was sent but what is about to be
(`Cleared`), and bounds the requests made by the attempt that is next (`CallsCounted`).
That a server is here is what the text of its URL says (`BuiltAsDescribed`), which is why
the theorem has the exception it has.

`EntityIntelligenceProofs`, for any threads, entities and articles and any size of the
log:

| theorem | property |
| --- | --- |
| `ServiceTyped` | `TypeOK` |
| `LogAccounted` | `WindowAccounted` |
| `FindingsAreAudited` | `FindingsAudited` |
| `VerdictsAreHonest` | `VerdictHonest` (a step property) |

What a reader copied may have been evicted since, and it reads the count of dropped events
afterwards: `ReadersHoldWindows` says that each reader holds a window of the chain, where it
begins, and how that lies to the counts it has read. `Chained` is the log itself, the newest
`maxlen` events of a history that is numbered and linked by place. For the findings,
`NoClash` and `IdsTakenOnce` follow an evidence id from the counter through the thread
that holds it to the event, and `StoredReported` follows the event a thread owes to the
log. `LastOfProperties` is the lemma about the end of a sequence they rest on.

`CaseWorkbenchProofs`, for any officers, customers and ownership structures and any number
of presses, reloads and changes of selection:

| theorem | property |
| --- | --- |
| `WorkbenchTyped` | `TypeOK` |
| `DecisionsAreIntended` | `DecisionsIntended` |
| `OnlyCrossedAnswersAreStale` | `OnlyCrossedIsStale` |

Handlers do not look again at what they were sent for, so each conjunct is about the
fetches under way: a button is disabled just while one fetch of the open page works for it
(`OneFetchPerButton`); a fetch that has not been crossed is about the selected customer
(`CallsAboutSelected`), and so is what it showed (`ShownAboutSelected`); a press is either
a request the service has not seen or one decision (`RequestsKept`, `DecisionsKept`).

`AccessControlProofs`, for any configurations, secrets, callers, durations and number of
requests at a time (assumptions: the requests are finitely many, and `None` is neither a
name nor a status code):

| theorem | property |
| --- | --- |
| `RequestPathTyped` | `TypeOK` |
| `RightsStayCurrent` | `RightsAreCurrent` |
| `TrailIsExact` | `TrailTellsWhoDidWhat` |
| `ViewsKeepWithinRights` | `ViewWithinRights` |

`Progress` says what each stage of a request has come to; `Entitled` that what a request
holds of an account is what the directory in force says, which only a restart changes, and
a restart ends the request. The trail is a bag, and `TrailExact` says that it holds of each
event just as many as the requests owe: `emit` and the change of stage are one step, so
each step adds the same event on both sides. It is finite-set arithmetic, for which the
requests must be finitely many.

`InvestigationPipelineProofs`, for any handlers, clients, citations and drafts and any
files (assumptions: a citation resolves, does not or cannot be checked, and only one of
these; the demo cites the profile or an account; a built-in client the file has not is a
stranger to it):

| theorem | property |
| --- | --- |
| `EndpointsTyped` | `TypeOK` |
| `OneRunAtATime` | `OneRunPerClient` |
| `ResultsAreFit` | `ResultFitForReview` |
| `SarsAreRedacted` | `ServedRedacted` |

`RunningListed` is why the 409 works: `_running` is just the clients of the handlers that
are in the pipeline, through every way a handler leaves it. `Numbered` orders a run in
progress and the result it will replace. `LoadsAccounted` is about the loaders: a dataset
that is known in part has a file that is missing or has failed a request, so what the
guardrail strips from an answer (`LostAccounted`) is not genuine or is accounted for; that
a look-up that did not raise has read every dataset it needed is `VerificationTold`.
`StageFit` carries this through the debate, between the answers, to the result.

`SarsAreRedacted` needs of the pipeline only that a cached SAR holds what `redact_sar` made
of its draft (`SarsRedacted`), and was cached with the articles in memory
(`ArticlesRead`), which stay there until the process ends (`RememberedStay`) and are never
there in part (`LoadsAccounted`); the rest is about `redact_sar`, for a draft of any length
(`RedactsWell`). The code looks at where pieces end, `Offsets`, a recursive function; the
property adds up what stands between, a fold whose `CHOOSE` takes the pieces in no known
order. `AnyFirst` shows that the order does not matter to a sum, `Between` that the two
agree, and `BirthdaySeen` that the window is as wide as it should be. `RedactedAt` decides
the other rules, `ChangedPlaces` the articles, and `PersonalPieces` the count.

Only model-checked, and why:

* `ClientFreed`, `EveryArticleAnswered` and `RunsEnd` are liveness, which the proof system
  does not do.
* What the recursive definitions compute for data of any size is proved only where it takes
  an induction on a set of numbers, as above, and not as a theorem for every recursion.

## Differences met

Reading the code against its own words showed more than the two runs above say. These
need no model to be seen, or are seen in one of the modules without a run of their own.

Audit and governance
* The sink's pointer "never diverges" from the file (`jsonl.py:9-11`); after a failing
  fsync it stays behind it (`jsonl.py:70-71`).
* `request.completed` is promised for every request (`docs/audit-logging.md:167-168`);
  naming a path of more than 500 characters raises before it is emitted (`asgi.py:136`),
  and a CORS preflight is answered outside the middleware, which is not the outermost as
  the document has it (`:173-177`, `main.py:34`). `TrailTellsWhoDidWhat` names both
  (`Untold`) and shows that they are all.
* A principal id is not bounded where it is configured (`provider.py:30`), but where an
  actor is made of it (`models.py:56`): an account with a longer one cannot sign in; each
  attempt ends in a 500 without an authentication event.
* A customer the console does not know is answered with the first cached case
  (`governance.py:70`); a review's id may be given twice (`:125`); ids are ordered as
  text (`:244`); reviews and sign-offs do not survive a restart though their events do
  (`:35`); a sign-off needs neither a draft nor a review (`:141`).

Investigation
* `key_deciding_evidence` is served as the judge gave it (`orchestrator.py:189`), though
  the guardrail is said to be mandatory (`grounding_guardrail.py:5-6`).
* Status is never "error" (`investigation.py:163`): a failed run reads as not started.
* The judge reads the arguments before their citations are stripped
  (`debate_agent.py:198`); the demo judge escalates by indicators while it speaks of
  surviving evidence.
* The loaders set their global before they read (`sanctions_loader.py:100`): a run that
  fails on a broken file is followed by one that succeeds without the evidence in it.
* Without `gdpr.json` a run fails after its last call to the model, if the draft holds
  anything to redact (`privacy_guardrail.py:39`), and passes otherwise; the titles it is
  opened for are wording only.
* The privacy guardrail treats subject, narrative and flags, not the evidence appendix
  nor the articles' text; its redactions keep the original snippet.

Entity intelligence
* A finding is stored under the id as sent (`services.py:370`) and looked up under the
  normalized one (`:293`, `:296`).
* A heuristic finding keeps no suspicion the model raised (`services.py:353`,
  `llm_agent.py:236`).
* A bridge "never weakens" a section (`risk_bridge.py:70`) that it replaces (`:76-84`):
  the new one does not say "confirmed", so the floor is gone with the old one.
* The root of an ownership graph is not screened, and only the first root is traced
  (`services.py:412-418`). Risk signals use the last finding only.
* An exact name with nothing else scores 0.545, under the 0.55 of a possible match.
* "Inference on this host" is told by a search for "localhost", "127.0.0.1" or
  "://0.0.0.0" anywhere in the URL (`llm_providers.py:211-214`): a host elsewhere whose
  URL holds one is exempt from the policy that scans "every outbound string"
  (`egress.py:13`, `:116`). `LeavesOnlyAsAllowed` names the exception.
* A guard that answers `"supported": "false"` keeps the claim (`llm_agent.py:225`): an
  open model's answer is not checked against the schema.
* `_call` repeats a request after any exception (`llm_providers.py:229`); a key is
  dispensed with for "localhost" but not for 127.0.0.1 (`:212`, `:400`).
* `screen_client` raises for a client without a type.

Ingestion, protected store, access
* A file that cannot be decoded ends a run with an untyped exception and no terminal
  event (`kyc_ingestion_pipeline.py:105`, `:128`).
* The size is checked before the file is opened again (`file_validator.py:57`).
* A plain artifact whose writing failed ends the job after its run was reported
  completed (`run_kyc_ingestion.py:65`), and one that was cut off is not marked as such.
* `ENCRYPT_SUCCEEDED` is emitted before the artifact exists, `DECRYPT_SUCCEEDED` before
  `decrypt_json` finds no JSON in the text (`service.py:138-143`) and raises the very
  `DecryptionFailedError` of a failed decryption, `SECRET_ACCESS` before the key is
  decoded; a Vault provider keeps the token of its construction.
* Of accounts with one user name, or one id, the last wins, each in its own table
  (`provider.py:55-57`); `kyc_context_for` does not ask whether a principal is active.
* `HUMAN_REVIEW` shows the PEP and sanctions flags; a mask keeps an organisation of one
  word whole.

Workbench
* A lost answer to a decision looks like a failure; pressing again records it twice.
* An answer that crosses a change of selection is shown for the new customer.
* A failed verification of the console's chain is answered with that of the entity
  service's log (`App.jsx:359`); the map of owners is traced from the first root.

## What is not modelled

The texts themselves: parsing of citations and rows, the characters a pattern matches,
prompt wording, fuzzy and semantic likeness (tables here). Cryptography, password hashing
and signatures (ideal here). The HTTP layer beyond the order of the handlers' steps, and
TLS. The data quality assessor, the sanitizing of audit metadata, the inspection job, the
live news, scripts, deployment and rendering: pure functions over data, single calls, or
wiring. `src/app` is an earlier copy of `backend/app`; the models are of the latter.

## Plan

1. Done: every component that keeps state or decides something, with its runs; proofs of
   every safety invariant the runs check.
2. Compositions worth having: `EntityIntelligence` with `ScreeningService` (a shared
   finding store under threads), `Ingestion` with `ProtectedData` (the encrypted
   artifact at the end of a run).
