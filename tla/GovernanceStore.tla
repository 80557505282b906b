--------------------------- MODULE GovernanceStore ---------------------------
(***************************************************************************)
(* The governance console's store (risk_engine/governance.py) and the      *)
(* thread-pool endpoints that call it (risk_engine/api.py): human reviews, *)
(* SAR sign-offs and news look-ups, each of which appends one entry to a   *)
(* hash-chained audit log and inserts it into a SQLite table.              *)
(*                                                                         *)
(* The endpoints are synchronous, so the server runs each request on a     *)
(* thread of its pool, and the store has no lock: record_audit reads the   *)
(* tail, numbers the entry, appends it and persists it in steps that other *)
(* threads interleave with.  The process may crash anywhere; a restart     *)
(* reloads the table.  Inserting and reloading swallow every exception.    *)
(*                                                                         *)
(* SHA-256 is modelled as a random oracle: a digest is the position, in    *)
(* digests, of the content it was computed from.  Contents carry the time  *)
(* of the call to the microsecond, so that no two calls hash the same      *)
(* content, and recomputing a digest looks the content up.                 *)
(*                                                                         *)
(* A definition named X_Y is the definition X with a plausible bug, Y; no  *)
(* specification uses it.                                                  *)
(***************************************************************************)
EXTENDS Naturals, Sequences, FiniteSets

CONSTANTS
  Threads,        \* threads of the server's pool
  Main,           \* the thread that runs create_app
  Customers,      \* customer ids of the loaded dataset
  Strangers,      \* ids a client can send that are not in the dataset
  StorageFaults,  \* what the disk may do: "persist" (an insert fails),
                  \* "read" (a reload fails), "edit" (a row is altered by hand)
  MaxCalls,       \* bound: record_audit calls over the whole behaviour
  MaxCrashes      \* bound: crashes of the process

\* Event ids are "AUD-%05d" and the table is read ORDER BY event_id, as text:
\* text order is numeric order only up to five digits.
ASSUME MaxCallsAssumption == MaxCalls \in 1..99999
ASSUME MaxCrashesAssumption == MaxCrashes \in Nat
ASSUME ThreadsAssumption == Main \notin Threads /\ IsFiniteSet(Threads)
ASSUME FaultsAssumption == StorageFaults \subseteq {"persist", "read", "edit"}

VARIABLES
  state,          \* "down", "booting" (create_app runs) or "serving"
  audit_log,      \* the entries in memory, oldest first
  reviews,        \* customers of the human reviews in memory
  sar_signoffs,   \* customers of the SAR sign-offs in memory
  request,        \* what each thread is doing
  db,             \* the audit table: event id |-> row
  digests,        \* every content hashed so far; a digest is an index into it
  acked,          \* ghost: digests of the entries whose caller has returned
  faults,         \* ghost: what has gone wrong so far
  crashes         \* number of crashes so far

vars == <<state, audit_log, reviews, sar_signoffs, request, db, digests,
          acked, faults, crashes>>

Genesis == 0
Actors == Threads \cup {Main}
ListActions == {"HUMAN_REVIEW_SUBMITTED", "SAR_DRAFT_SIGNED_OFF"}
Dataset == [action |-> "DATASET_LOADED", resource |-> "LOCAL_DATASET"]

\* What an entry says: an action and the resource it is about.
Body ==
  {Dataset}
    \cup [action : ListActions, resource : Customers \cup Strangers]
    \cup [action : {"LIVE_NEWS_LOOKUP"}, resource : Customers]

Content == [event_id : Nat, body : Body, previous_hash : Nat]
AuditEntry == [event_id : Nat, body : Body, previous_hash : Nat, hash : Nat]

\* The part of an entry its digest is computed from.
ContentOf(e) == [event_id |-> e.event_id, body |-> e.body,
                 previous_hash |-> e.previous_hash]

\* Recomputing the digest of e gives the digest e carries.
DigestMatches(e) ==
  /\ e.hash \in DOMAIN digests
  /\ digests[e.hash] = ContentOf(e)

TailHash_Head(s) == IF s = <<>> THEN Genesis ELSE s[1].hash
TailHash(s) == IF s = <<>> THEN Genesis ELSE s[Len(s)].hash

\* verify_chain: every link and every digest, from GENESIS on.
LinkHolds(s, i) ==
  s[i].previous_hash = IF i = 1 THEN Genesis ELSE s[i - 1].hash
VerifyChain_DigestsOnly == \A i \in DOMAIN audit_log : DigestMatches(audit_log[i])
VerifyChain ==
  \A i \in DOMAIN audit_log :
    LinkHolds(audit_log, i) /\ DigestMatches(audit_log[i])

\* SELECT ... ORDER BY event_id: the k-th row is the one of rank k.
Orderings_FirstRow ==
  {order \in [{1} -> DOMAIN db] : \A i \in DOMAIN db : order[1] <= i}
Orderings ==
  {order \in [1..Cardinality(DOMAIN db) -> DOMAIN db] :
     \A k \in DOMAIN order :
       Cardinality({i \in DOMAIN db : i <= order[k]}) = k}

-----------------------------------------------------------------------------
\* A thread is outside the store ("idle"), about to append to its list
\* ("submitting"), or inside record_audit: entered ("call"), with the tail's
\* hash in hand ("linked"), with its entry built ("built") or appended.
Idle == [pc |-> "idle"]
RequestState ==
  {Idle}
    \cup [pc : {"submitting"}, body : [action : ListActions,
                                      resource : Customers \cup Strangers]]
    \cup [pc : {"call"}, body : Body]
    \cup [pc : {"linked"}, body : Body, previous_hash : Nat]
    \cup [pc : {"built", "appended"}, entry : AuditEntry]

Busy(t) == request[t].pc # "idle"

\* Calls that have not computed their digest yet.
Unhashed == {t \in Actors : request[t].pc \in {"submitting", "call", "linked"}}

Init ==
  /\ state = "down"
  /\ audit_log = <<>>
  /\ reviews = <<>>
  /\ sar_signoffs = <<>>
  /\ request = [t \in Actors |-> Idle]
  /\ db = <<>>
  /\ digests = <<>>
  /\ acked = {}
  /\ faults = {}
  /\ crashes = 0

\* GovernanceStore.__post_init__: reload the table (an unreadable one counts
\* as empty), and have Main record DATASET_LOADED if nothing was loaded.
Load(readable) ==
  /\ state = "down"
  /\ Len(digests) < MaxCalls
  /\ \/ /\ readable
        /\ \E order \in Orderings : audit_log' = [k \in DOMAIN order |-> db[order[k]]]
        /\ UNCHANGED faults
     \/ /\ ~readable /\ "read" \in StorageFaults
        /\ audit_log' = <<>>
        /\ faults' = faults \cup {"read"}
  /\ \/ /\ audit_log' = <<>>
        /\ state' = "booting"
        /\ request' = [request EXCEPT ![Main] = [pc |-> "call", body |-> Dataset]]
     \/ /\ audit_log' # <<>>
        /\ state' = "serving"
        /\ UNCHANGED request
  /\ UNCHANGED <<reviews, sar_signoffs, db, digests, acked, crashes>>

\* A request enters a handler.  Reviews and sign-offs take any customer id,
\* a look-up only a known one; an empty reason is refused before any change.
Begin(t, body) ==
  /\ state = "serving"
  /\ ~Busy(t)
  /\ body # Dataset
  /\ Len(digests) + Cardinality(Unhashed) < MaxCalls
  /\ \/ /\ body.action \in ListActions
        /\ request' = [request EXCEPT ![t] = [pc |-> "submitting", body |-> body]]
     \/ /\ body.action \notin ListActions
        /\ request' = [request EXCEPT ![t] = [pc |-> "call", body |-> body]]
  /\ faults' = IF \E u \in Actors : Busy(u) THEN faults \cup {"overlap"} ELSE faults
  /\ UNCHANGED <<state, audit_log, reviews, sar_signoffs, db, digests, acked, crashes>>

\* submit_review and signoff_sar append to their list, then call record_audit.
Submit(t) ==
  /\ request[t].pc = "submitting"
  /\ LET body == request[t].body IN
       \/ /\ body.action = "HUMAN_REVIEW_SUBMITTED"
          /\ reviews' = Append(reviews, body.resource)
          /\ UNCHANGED sar_signoffs
       \/ /\ body.action = "SAR_DRAFT_SIGNED_OFF"
          /\ sar_signoffs' = Append(sar_signoffs, body.resource)
          /\ UNCHANGED reviews
  /\ request' = [request EXCEPT ![t] = [pc |-> "call", body |-> request[t].body]]
  /\ UNCHANGED <<state, audit_log, db, digests, acked, faults, crashes>>

\* record_audit reads the hash of the log's last entry.
ReadTail(t) ==
  /\ request[t].pc = "call"
  /\ request' = [request EXCEPT ![t] =
       [pc |-> "linked", body |-> request[t].body,
        previous_hash |-> TailHash(audit_log)]]
  /\ UNCHANGED <<state, audit_log, reviews, sar_signoffs, db, digests, acked,
                 faults, crashes>>

\* It numbers the entry by the log's length and hashes it.
Build(t) ==
  /\ request[t].pc = "linked"
  /\ LET content == [event_id |-> Len(audit_log) + 1, body |-> request[t].body,
                     previous_hash |-> request[t].previous_hash]
     IN /\ digests' = Append(digests, content)
        /\ request' = [request EXCEPT ![t] =
             [pc |-> "built",
              entry |-> [event_id |-> content.event_id, body |-> content.body,
                         previous_hash |-> content.previous_hash,
                         hash |-> Len(digests) + 1]]]
  /\ UNCHANGED <<state, audit_log, reviews, sar_signoffs, db, acked, faults, crashes>>

AppendEntry_RepliesEarly(t) ==
  /\ request[t].pc = "built"
  /\ audit_log' = Append(audit_log, request[t].entry)
  /\ request' = [request EXCEPT ![t].pc = "appended"]
  /\ acked' = acked \cup {request[t].entry.hash}
  /\ UNCHANGED <<state, reviews, sar_signoffs, db, digests, faults, crashes>>

AppendEntry_OncePerId(t) ==
  /\ request[t].pc = "built"
  /\ audit_log' = IF \E i \in DOMAIN audit_log :
                       audit_log[i].event_id = request[t].entry.event_id
                   THEN audit_log ELSE Append(audit_log, request[t].entry)
  /\ request' = [request EXCEPT ![t].pc = "appended"]
  /\ UNCHANGED <<state, reviews, sar_signoffs, db, digests, acked, faults, crashes>>

AppendEntry(t) ==
  /\ request[t].pc = "built"
  /\ audit_log' = Append(audit_log, request[t].entry)
  /\ request' = [request EXCEPT ![t].pc = "appended"]
  /\ UNCHANGED <<state, reviews, sar_signoffs, db, digests, acked, faults, crashes>>

InsertOrIgnore_NoHashColumn(e) ==
  IF e.event_id \in DOMAIN db THEN db
  ELSE [i \in DOMAIN db \cup {e.event_id} |->
          IF i = e.event_id THEN ContentOf(e) ELSE db[i]]

\* INSERT OR IGNORE: the row is kept only if its event id is free.
InsertOrIgnore(e) ==
  IF e.event_id \in DOMAIN db THEN db
  ELSE [i \in DOMAIN db \cup {e.event_id} |-> IF i = e.event_id THEN e ELSE db[i]]

\* _persist, whose every failure is swallowed; then the call returns.
Persist(t, ok) ==
  /\ request[t].pc = "appended"
  /\ ok \/ "persist" \in StorageFaults
  /\ LET e == request[t].entry IN
       /\ db' = IF ok THEN InsertOrIgnore(e) ELSE db
       /\ acked' = acked \cup {e.hash}
  /\ faults' = IF ok THEN faults ELSE faults \cup {"persist"}
  /\ request' = [request EXCEPT ![t] = Idle]
  /\ state' = "serving"
  /\ UNCHANGED <<audit_log, reviews, sar_signoffs, digests, crashes>>

\* The process dies: everything in memory is gone.
Crash ==
  /\ state # "down"
  /\ crashes < MaxCrashes
  /\ state' = "down"
  /\ audit_log' = <<>>
  /\ reviews' = <<>>
  /\ sar_signoffs' = <<>>
  /\ request' = [t \in Actors |-> Idle]
  /\ crashes' = crashes + 1
  /\ UNCHANGED <<db, digests, acked, faults>>

\* Environment: somebody alters what one row says while the process is down.
EditRow(i, body) ==
  /\ state = "down"
  /\ "edit" \in StorageFaults
  /\ "edit" \notin faults            \* bound: one edit
  /\ body # db[i].body
  /\ db' = [db EXCEPT ![i].body = body]
  /\ faults' = faults \cup {"edit"}
  /\ UNCHANGED <<state, audit_log, reviews, sar_signoffs, request, digests,
                 acked, crashes>>

Next ==
  \/ \E readable \in BOOLEAN : Load(readable)
  \/ \E t \in Threads, body \in Body : Begin(t, body)
  \/ \E t \in Actors : Submit(t) \/ ReadTail(t) \/ Build(t) \/ AppendEntry(t)
  \/ \E t \in Actors, ok \in BOOLEAN : Persist(t, ok)
  \/ Crash
  \/ \E i \in DOMAIN db, body \in Body : EditRow(i, body)

Spec == Init /\ [][Next]_vars

-----------------------------------------------------------------------------
\* Type invariant.
TypeOK ==
  /\ state \in {"down", "booting", "serving"}
  /\ audit_log \in Seq(AuditEntry)
  /\ reviews \in Seq(Customers \cup Strangers)
  /\ sar_signoffs \in Seq(Customers \cup Strangers)
  /\ request \in [Actors -> RequestState]
  /\ DOMAIN db \in SUBSET Nat /\ IsFiniteSet(DOMAIN db)
  /\ \A i \in DOMAIN db : db[i] \in AuditEntry
  /\ digests \in Seq(Content)
  /\ acked \subseteq Nat
  /\ faults \subseteq {"overlap"} \cup StorageFaults
  /\ crashes \in 0..MaxCrashes

\* verify_chain gives the right verdict, at every moment of every process and
\* across crashes, as long as requests came one at a time and the disk never
\* failed: it raises no false alarm, and it reports every row altered by hand.
VerdictRight ==
  faults \subseteq {"edit"} =>
    (VerifyChain <=> \A i \in DOMAIN audit_log : DigestMatches(audit_log[i]))

\* What a client was told is done is in the table, under the same conditions:
\* a crash loses no acknowledged review, sign-off or look-up.
AckedDurable ==
  faults \subseteq {"edit"} => acked \subseteq {db[i].hash : i \in DOMAIN db}

\* A chain that verifies is numbered 1, 2, 3, ... with no id used twice, however
\* the threads of the first process interleaved: a race that numbers two
\* entries alike also forks their links, so verification does not miss it.
ValidMeansNumbered ==
  (crashes = 0 /\ VerifyChain) =>
    \A i \in DOMAIN audit_log : audit_log[i].event_id = i

\* No human decision goes unrecorded: in whatever order the threads run, each
\* review (sign-off) in memory has an audit entry of its own in the log, except
\* those whose handler has not appended it yet.
EntriesFor(body) == {i \in DOMAIN audit_log : audit_log[i].body = body}
Unappended(body) ==
  {t \in Actors : \/ request[t].pc \in {"call", "linked"} /\ request[t].body = body
                  \/ request[t].pc = "built" /\ request[t].entry.body = body}
DecisionsRecorded ==
  \A c \in Customers \cup Strangers, action \in ListActions :
    LET list == IF action = "HUMAN_REVIEW_SUBMITTED" THEN reviews ELSE sar_signoffs
        body == [action |-> action, resource |-> c]
    IN  Cardinality({i \in DOMAIN list : list[i] = c})
          <= Cardinality(EntriesFor(body)) + Cardinality(Unappended(body))

\* A running process never removes, reorders or alters an entry of its log, and
\* the program never drops or overwrites a row, whatever races and failures.
LogExtends == /\ Len(audit_log) <= Len(audit_log')
              /\ \A i \in DOMAIN audit_log : audit_log'[i] = audit_log[i]
RowsKept == \A i \in DOMAIN db : i \in DOMAIN db' /\ db'[i] = db[i]
KeepsHistory ==
  /\ (state # "down" /\ state' # "down") => LogExtends
  /\ ~(\E i \in DOMAIN db, body \in Body : EditRow(i, body)) => RowsKept
AppendOnly == [][KeepsHistory]_vars

\* The store implements the abstract trail under every interleaving, crash and
\* fault: it records only new entries, stores only what it shows, and reopens
\* with exactly the stored rows.
Trail == INSTANCE AuditTrail
  WITH running <- state # "down",
       shown <- audit_log,
       stored <- {db[i] : i \in DOMAIN db}
ImplementsTrail == Trail!TrailSpec

\* What a restart reloads is a chain that verifies: the docstring of
\* _load_persisted ("Reload the chain from the database so it continues across
\* restarts").  The code breaks it when an entry's row is in the table and the
\* one it links to never gets there: a later call's row is written first and a
\* crash comes before the earlier one's.
ChainContinues == [][(state = "down" /\ state' # "down") => VerifyChain']_vars
=============================================================================
