------------------------- MODULE EntityIntelligence -------------------------
(***************************************************************************)
(* The entity-intelligence service (projecttechm): screening and adverse-  *)
(* media requests on the threads of the server's pool (api.py), the        *)
(* registry's store of findings (services.py), the two-pass agent that     *)
(* reads articles (llm_agent.py), the generator of evidence ids            *)
(* (evidence.py) and the bounded, hash-chained audit sink (audit.py).      *)
(*                                                                         *)
(* The generator and the sink have a lock each and every locked block is   *)
(* one step; the store has none.  What a request does between two locked   *)
(* blocks interleaves with the other threads: an event's id is taken       *)
(* before the event is written, and the number of events dropped is read   *)
(* after the events are.  Reading an article touches nothing shared and is *)
(* one step with taking the id that follows it.                            *)
(*                                                                         *)
(* Of an article only the claims its text supports matter and whether the  *)
(* pattern matcher finds an injection attempt in it; the models may claim  *)
(* anything, and the guard is taken to uphold supported claims only.  The  *)
(* number of an event stands for its digest.                               *)
(*                                                                         *)
(* A definition named X_Y is the definition X with a plausible bug, Y; no  *)
(* specification uses it.                                                  *)
(***************************************************************************)
EXTENDS Naturals, Sequences, FiniteSets

CONSTANTS
  Threads,      \* threads of the server's pool
  Customers,    \* customers of the client book
  Strangers,    \* entities that are not in it
  Claims,       \* what an article may support and a model may claim
  Articles,     \* the articles sent
  maxlen,       \* events the sink retains
  MaxEvidence,  \* bound: evidence ids taken
  MaxMatches    \* bound: candidates scored for one screening

ASSUME EntitiesAssumption == Customers \cap Strangers = {}
ASSUME ArticlesAssumption ==
  Articles \subseteq [supports : SUBSET Claims, hit : BOOLEAN]
ASSUME maxlenAssumption == maxlen \in Nat \ {0}
ASSUME BoundsAssumption == MaxEvidence \in Nat /\ MaxMatches \in Nat

VARIABLES
  media_store,    \* _media_store: the findings, by the id they were made under
  next_evidence,  \* the evidence id generator's counter
  events,         \* the sink's deque, oldest first
  counter,        \* events written so far
  last_hash,      \* digest of the last event
  dropped,        \* events evicted from the deque
  altered,        \* digests of events that somebody changed in memory
  task,           \* what each thread is doing
  history         \* ghost: every event ever written

sinkVars == <<events, counter, last_hash, dropped, history>>
vars == <<media_store, next_evidence, sinkVars, altered, task>>

GENESIS_HASH == 0

\* A customer may be named by its entity id, "CLIENT-7", or by the number in it.
EntityIds == ({"full", "short"} \X Customers) \cup ({"full"} \X Strangers)
normalize_customer_id(id) == IF id[2] \in Customers THEN <<"full", id[2]>> ELSE id

Finding == [evidence_id : Nat, entity_id : EntityIds, claims : SUBSET Claims,
            injection_attempt_detected : BOOLEAN, article : Articles]
Actions == {"ENTITY_MATCH_CALCULATED", "ADVERSE_MEDIA_AGENT_RUN",
            "PROMPT_INJECTION_DETECTED"}
Entry == [action : Actions, evidence_id : Nat]
Event == [event_id : Nat, action : Actions, evidence_id : Nat,
          previous_hash : Nat, event_hash : Nat]

LastOf(s, n) == IF Len(s) <= n THEN s ELSE SubSeq(s, Len(s) - n + 1, Len(s))

-----------------------------------------------------------------------------
Idle == [pc |-> "idle"]

Init ==
  /\ media_store = [id \in EntityIds |-> <<>>]
  /\ next_evidence = 1
  /\ events = <<>>
  /\ counter = 0
  /\ last_hash = GENESIS_HASH
  /\ dropped = 0
  /\ altered = {}
  /\ task = [t \in Threads |-> Idle]
  /\ history = <<>>

\* Steps that change nothing but what their thread is doing.
Goes(t, to) ==
  /\ task' = [task EXCEPT ![t] = to]
  /\ UNCHANGED <<media_store, next_evidence, sinkVars, altered>>

\* What is made of an article: claims, and is it flagged as an injection attempt?
\* Without a model, or when either pass fails (refused by the egress policy,
\* unreachable, unusable after its retry): its own allegations, whatever a model
\* said before it failed.
HeuristicReading(article) == [claims |-> article.supports, flagged |-> article.hit]

\* The two passes: the first claims and suspects what it will, the guard rules on
\* some of the claims, and those it did not uphold are dropped.
GuardedReading(article, extraction, ruled, upheld) ==
  [claims |-> extraction.claims \cap upheld,
   flagged |-> article.hit \/ extraction.suspected]

Readings(article) ==
  {HeuristicReading(article)} \cup
  UNION {{GuardedReading(article, extraction, ruled, upheld) :
            upheld \in SUBSET (ruled \cap article.supports)} :
          extraction \in [claims : SUBSET Claims, suspected : BOOLEAN],
          ruled \in SUBSET Claims}

\* The generator's counter once an id has been taken.
Advanced_LostUpdate ==
  IF \E t \in Threads : task[t].pc = "storing" THEN next_evidence ELSE next_evidence + 1
Advanced == next_evidence + 1

\* analyze_article reads the article and takes an evidence id for the finding.
Analyze(t, id, article, reading) ==
  /\ task[t].pc = "idle"
  /\ next_evidence <= MaxEvidence
  /\ next_evidence' = Advanced
  /\ task' = [task EXCEPT ![t] =
       [pc |-> "storing",
        finding |-> [evidence_id |-> next_evidence, entity_id |-> id,
                     claims |-> reading.claims,
                     injection_attempt_detected |-> reading.flagged,
                     article |-> article]]]
  /\ UNCHANGED <<media_store, sinkVars, altered>>

\* The events that follow a finding.
ReportOf(finding) ==
  << [action |-> "ADVERSE_MEDIA_AGENT_RUN", evidence_id |-> finding.evidence_id] >>
    \o IF finding.injection_attempt_detected
       THEN << [action |-> "PROMPT_INJECTION_DETECTED",
                evidence_id |-> finding.evidence_id] >>
       ELSE <<>>

\* The finding is stored under the id of the request, as it came.
StoreFinding(t) ==
  /\ task[t].pc = "storing"
  /\ LET finding == task[t].finding IN
       /\ media_store' = [media_store EXCEPT ![finding.entity_id] = Append(@, finding)]
       /\ task' = [task EXCEPT ![t] = [pc |-> "emitting", todo |-> ReportOf(finding)]]
  /\ UNCHANGED <<next_evidence, sinkVars, altered>>

-----------------------------------------------------------------------------
\* A screening scores its candidates one by one, each with an evidence id, and
\* reports the ones it returns.
Screen(t) ==
  /\ task[t].pc = "idle"
  /\ next_evidence <= MaxEvidence
  /\ Goes(t, [pc |-> "scoring", scored |-> 0, todo |-> <<>>])

Score(t, returned) ==
  /\ task[t].pc = "scoring"
  /\ task[t].scored < MaxMatches
  /\ next_evidence <= MaxEvidence
  /\ next_evidence' = Advanced
  /\ LET match == [action |-> "ENTITY_MATCH_CALCULATED", evidence_id |-> next_evidence] IN
       task' = [task EXCEPT ![t] =
         [pc |-> "scoring", scored |-> task[t].scored + 1,
          todo |-> IF returned THEN Append(task[t].todo, match) ELSE task[t].todo]]
  /\ UNCHANGED <<media_store, sinkVars, altered>>

Rank(t) ==
  /\ task[t].pc = "scoring"
  /\ Goes(t, IF task[t].todo = <<>> THEN Idle
             ELSE [pc |-> "emitting", todo |-> task[t].todo])

-----------------------------------------------------------------------------
\* emit takes an id for the event: one more than the number written so far.
NextEventId(t) ==
  /\ task[t].pc = "emitting"
  /\ Goes(t, [pc |-> "writing", todo |-> task[t].todo, event_id |-> counter + 1])

\* The deque's events, and how many it drops to make room for one more.
Retained_Unbounded(s) == s
Retained(s) == LastOf(s, maxlen)
Evicted_Early == IF Len(events) + 1 = maxlen THEN 1 ELSE 0
Evicted == IF Len(events) = maxlen THEN 1 ELSE 0

\* write: the event is linked to the last one and appended, the oldest event
\* making room for it.
Write(t) ==
  /\ task[t].pc = "writing"
  /\ LET event == [event_id |-> task[t].event_id, action |-> Head(task[t].todo).action,
                   evidence_id |-> Head(task[t].todo).evidence_id,
                   previous_hash |-> last_hash, event_hash |-> counter + 1]
     IN /\ events' = Retained(Append(events, event))
        /\ history' = Append(history, event)
  /\ last_hash' = counter + 1
  /\ counter' = counter + 1
  /\ dropped' = dropped + Evicted
  /\ task' = [task EXCEPT ![t] = IF Len(task[t].todo) = 1 THEN Idle
                                 ELSE [pc |-> "emitting", todo |-> Tail(task[t].todo)]]
  /\ UNCHANGED <<media_store, next_evidence, altered>>

-----------------------------------------------------------------------------
\* verify_chain takes the events under the lock.
BeginVerify(t) ==
  /\ task[t].pc = "idle"
  /\ Goes(t, [pc |-> "verifying", items |-> events])

Anchor_Genesis(t) ==
  /\ task[t].pc = "verifying"
  /\ Goes(t, [pc |-> "anchored", items |-> task[t].items, previous |-> GENESIS_HASH])

\* Without the lock it reads how many were dropped, to know where to start.
Anchor(t) ==
  /\ task[t].pc = "verifying"
  /\ LET items == task[t].items IN
       Goes(t, [pc |-> "anchored", items |-> items,
                previous |-> IF dropped = 0 \/ items = <<>> THEN GENESIS_HASH
                             ELSE items[1].previous_hash])

\* The loop over the events, and dropped once more for the answer.
Verdict(t) ==
  /\ task[t].pc = "anchored"
  /\ LET items == task[t].items IN
       Goes(t, [pc |-> "verdict", items |-> items,
                valid |-> \A i \in DOMAIN items :
                  /\ items[i].event_hash \notin altered
                  /\ items[i].previous_hash = IF i = 1 THEN task[t].previous
                                              ELSE items[i - 1].event_hash,
                verified_from_genesis |-> items = <<>> \/ dropped = 0])

\* GET /audit/events: the last events, then the counts, one by one.
BeginPage(t, limit) ==
  /\ task[t].pc = "idle"
  /\ Goes(t, [pc |-> "paging", page |-> LastOf(events, limit)])

ReadCount(t) ==
  /\ task[t].pc = "paging"
  /\ Goes(t, [pc |-> "counting", page |-> task[t].page, total |-> counter])

ReadDropped(t) ==
  /\ task[t].pc = "counting"
  /\ Goes(t, [pc |-> "page", page |-> task[t].page, total |-> task[t].total,
              dropped |-> dropped])

\* The answer is sent.
Respond(t) ==
  /\ task[t].pc \in {"verdict", "page"}
  /\ Goes(t, Idle)

\* Environment: somebody changes a retained event in memory (bound: one).
Alter ==
  /\ altered = {}
  /\ \E i \in DOMAIN events : altered' = {events[i].event_hash}
  /\ UNCHANGED <<media_store, next_evidence, sinkVars, task>>

\* get_adverse_media.
AdverseMedia(customer_id) == media_store[normalize_customer_id(customer_id)]

Request(t) ==
  \/ \E id \in EntityIds, article \in Articles : \E reading \in Readings(article) :
       Analyze(t, id, article, reading)
  \/ StoreFinding(t)
  \/ Screen(t)
  \/ \E returned \in BOOLEAN : Score(t, returned)
  \/ Rank(t)
  \/ NextEventId(t)
  \/ Write(t)
  \/ BeginVerify(t)
  \/ Anchor(t)
  \/ Verdict(t)
  \/ \E limit \in 1..maxlen : BeginPage(t, limit)
  \/ ReadCount(t)
  \/ ReadDropped(t)
  \/ Respond(t)

Next == (\E t \in Threads : Request(t)) \/ Alter

Spec == Init /\ [][Next]_vars

-----------------------------------------------------------------------------
\* Type invariant.
TaskState ==
  {Idle}
    \cup [pc : {"storing"}, finding : Finding]
    \cup [pc : {"scoring"}, scored : Nat, todo : Seq(Entry)]
    \cup [pc : {"emitting"}, todo : Seq(Entry)]
    \cup [pc : {"writing"}, todo : Seq(Entry), event_id : Nat]
    \cup [pc : {"verifying"}, items : Seq(Event)]
    \cup [pc : {"anchored"}, items : Seq(Event), previous : Nat]
    \cup [pc : {"verdict"}, items : Seq(Event), valid : BOOLEAN,
          verified_from_genesis : BOOLEAN]
    \cup [pc : {"paging"}, page : Seq(Event)]
    \cup [pc : {"counting"}, page : Seq(Event), total : Nat]
    \cup [pc : {"page"}, page : Seq(Event), total : Nat, dropped : Nat]
TypeOK ==
  /\ media_store \in [EntityIds -> Seq(Finding)]
  /\ next_evidence \in Nat
  /\ events \in Seq(Event) /\ Len(events) <= maxlen
  /\ history \in Seq(Event)
  /\ counter \in Nat /\ last_hash \in Nat /\ dropped \in Nat
  /\ altered \subseteq Nat
  /\ task \in [Threads -> TaskState]

\* The sink shows the newest end of everything ever written, chained, and its
\* counts account for the rest, whatever threads wrote and in whatever order; and a
\* page that says it holds all the events emitted, none dropped, does hold them all,
\* although it reads the counts one by one after the events.
WindowAccounted ==
  /\ events = LastOf(history, maxlen)
  /\ counter = Len(history) /\ counter = Len(events) + dropped
  /\ \A i \in DOMAIN history : history[i].event_hash = i /\ history[i].previous_hash = i - 1
  /\ \A t \in Threads :
       (task[t].pc = "page" /\ Len(task[t].page) = task[t].total /\ task[t].dropped = 0)
         => \A i \in 1..task[t].total : task[t].page[i].event_hash = i

\* verify_chain raises no false alarm and misses no altered event, and claims to
\* have verified from genesis only if it did, although writers drop events
\* between its locked copy and its two reads of dropped.
VerdictHonest ==
  [][\A t \in Threads :
       (task[t].pc = "anchored" /\ task'[t].pc = "verdict") =>
         LET items == task'[t].items IN
           /\ task'[t].valid <=> \A i \in DOMAIN items : items[i].event_hash \notin altered
           /\ (task'[t].verified_from_genesis /\ items # <<>>)
                => items[1].previous_hash = GENESIS_HASH]_vars

\* Every finding anybody can read has its events in the log, or a thread that is
\* about to write them: the run, and the injection attempt if it is flagged.  They are
\* found by its evidence id, which no two events of an action share.
StoredFindings == UNION {{media_store[id][i] : i \in DOMAIN media_store[id]} :
                           id \in EntityIds}
Emitted == {[action |-> history[i].action, evidence_id |-> history[i].evidence_id] :
              i \in DOMAIN history}
ToEmit == UNION {{task[t].todo[i] : i \in DOMAIN task[t].todo} :
                   t \in {u \in Threads : task[u].pc \in {"emitting", "writing"}}}
FindingsAudited ==
  /\ \A finding \in StoredFindings :
       /\ [action |-> "ADVERSE_MEDIA_AGENT_RUN", evidence_id |-> finding.evidence_id]
            \in Emitted \cup ToEmit
       /\ finding.injection_attempt_detected =>
            [action |-> "PROMPT_INJECTION_DETECTED", evidence_id |-> finding.evidence_id]
              \in Emitted \cup ToEmit
  /\ \A i, j \in DOMAIN history :
       (history[i].evidence_id = history[j].evidence_id
         /\ (history[i].action = history[j].action
             \/ "ENTITY_MATCH_CALCULATED" \in {history[i].action, history[j].action}))
       => i = j
=============================================================================
