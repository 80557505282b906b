---------------------- MODULE EntityIntelligenceProofs ----------------------
(***************************************************************************)
(* What the entity-intelligence service promises, for any threads,         *)
(* entities and articles and any size of the audit log:                    *)
(* EntityIntelligence's safety properties.                                 *)
(*                                                                         *)
(* Why they are kept: whatever a reader holds is a piece of the chain that *)
(* begins no later than the events dropped so far end, an evidence id is   *)
(* one finding's or one candidate's from the moment it is taken, and an    *)
(* event that is owed moves from its thread to the log.                    *)
(***************************************************************************)
EXTENDS EntityIntelligence, SequenceTheorems, TLAPS

\* The log, and its newest events in the deque.
Chained ==
  /\ events = LastOf(history, maxlen)
  /\ counter = Len(history) /\ counter = Len(events) + dropped
  /\ last_hash = counter
  /\ \A i \in DOMAIN history : history[i].event_hash = i /\ history[i].previous_hash = i - 1

\* Items are the events after the k-th, of the first n.
Window(items, k, n) ==
  /\ k + Len(items) <= n
  /\ \A i \in DOMAIN items : items[i].event_hash = k + i /\ items[i].previous_hash = k + i - 1

\* What a reader holds.
HoldsWindow(t) ==
  /\ task[t].pc = "verifying" => \E k \in 0..dropped : Window(task[t].items, k, counter)
  /\ task[t].pc = "anchored" =>
       \E k \in 0..dropped :
         /\ Window(task[t].items, k, counter)
         /\ task[t].items # <<>> => task[t].previous = k
  /\ task[t].pc = "paging" => \E k \in 0..counter : Window(task[t].page, k, counter)
  /\ task[t].pc \in {"counting", "page"} =>
       \E k \in 0..task[t].total : Window(task[t].page, k, task[t].total)
ReadersHoldWindows == \A t \in Threads : HoldsWindow(t)

\* The events a thread will write, and the id of the finding it will store.
Pending(t) == IF task[t].pc \in {"scoring", "emitting", "writing"} THEN task[t].todo ELSE <<>>
Taken(t) == IF task[t].pc = "storing" THEN {task[t].finding.evidence_id} ELSE {}

NeverIdleToEmit ==
  \A t \in Threads : task[t].pc \in {"emitting", "writing"} => task[t].todo # <<>>

\* Two events that evidence ids do not tell apart.
Clash(e, f) ==
  /\ e.evidence_id = f.evidence_id
  /\ e.action = f.action \/ "ENTITY_MATCH_CALCULATED" \in {e.action, f.action}

NoClash ==
  /\ \A i, j \in DOMAIN history : Clash(history[i], history[j]) => i = j
  /\ \A t \in Threads : \A i \in DOMAIN Pending(t) :
       /\ \A j \in DOMAIN history : ~Clash(history[j], Pending(t)[i])
       /\ \A u \in Threads : \A j \in DOMAIN Pending(u) :
            Clash(Pending(t)[i], Pending(u)[j]) => t = u /\ i = j

\* An id is taken once: the ids in use are old ones, and that of a finding not yet
\* stored is nowhere else.
IdsTakenOnce ==
  /\ \A i \in DOMAIN history : history[i].evidence_id < next_evidence
  /\ \A t \in Threads :
       /\ \A i \in DOMAIN Pending(t) : Pending(t)[i].evidence_id < next_evidence
       /\ \A id \in Taken(t) :
            /\ id < next_evidence
            /\ \A i \in DOMAIN history : history[i].evidence_id # id
            /\ \A u \in Threads :
                 /\ \A i \in DOMAIN Pending(u) : Pending(u)[i].evidence_id # id
                 /\ id \in Taken(u) => t = u

\* The events of a finding are in the log or on their way.
Reported(finding) ==
  /\ [action |-> "ADVERSE_MEDIA_AGENT_RUN", evidence_id |-> finding.evidence_id]
       \in Emitted \cup ToEmit
  /\ finding.injection_attempt_detected =>
       [action |-> "PROMPT_INJECTION_DETECTED", evidence_id |-> finding.evidence_id]
         \in Emitted \cup ToEmit
StoredReported ==
  \A id \in EntityIds : \A i \in DOMAIN media_store[id] : Reported(media_store[id][i])

IInv ==
  /\ TypeOK
  /\ Chained
  /\ ReadersHoldWindows
  /\ NeverIdleToEmit
  /\ NoClash
  /\ IdsTakenOnce
  /\ StoredReported

-----------------------------------------------------------------------------
\* The last n of a sequence: how many they are, and which.
LEMMA LastOfProperties ==
  ASSUME NEW S, NEW s \in Seq(S), NEW n \in Nat
  PROVE  /\ LastOf(s, n) \in Seq(S)
         /\ Len(LastOf(s, n)) = IF Len(s) <= n THEN Len(s) ELSE n
         /\ \A i \in 1..Len(LastOf(s, n)) : LastOf(s, n)[i] = s[Len(s) - Len(LastOf(s, n)) + i]
<1>1. CASE Len(s) <= n
  BY <1>1, LenProperties DEF LastOf
<1>2. CASE ~(Len(s) <= n)
  <2>1. Len(s) \in Nat /\ Len(s) - n + 1 \in 1..(Len(s) + 1) /\ LastOf(s, n) = SubSeq(s, Len(s) - n + 1, Len(s))
    BY <1>2, LenProperties DEF LastOf
  <2>2. /\ LastOf(s, n) \in Seq(S)
        /\ Len(LastOf(s, n)) = n
        /\ \A i \in 1..n : LastOf(s, n)[i] = s[Len(s) - n + 1 + i - 1]
    BY <2>1, <1>2, SubSeqProperties
  <2> QED BY <2>1, <2>2, <1>2
<1> QED BY <1>1, <1>2

\* A deque that holds the last n of a sequence holds them still once both have grown
\* by the same element.
LEMMA DequeFollows ==
  ASSUME NEW S, NEW s \in Seq(S), NEW n \in Nat \ {0}, NEW e \in S
  PROVE  LastOf(Append(LastOf(s, n), e), n) = LastOf(Append(s, e), n)
<1> DEFINE d == LastOf(s, n)
           dd == Append(d, e)
           ss == Append(s, e)
           x == LastOf(dd, n)
           y == LastOf(ss, n)
<1>1. /\ d \in Seq(S) /\ Len(d) \in Nat /\ Len(s) \in Nat /\ n \in Nat /\ n >= 1
      /\ Len(d) = IF Len(s) <= n THEN Len(s) ELSE n
      /\ \A i \in 1..Len(d) : d[i] = s[Len(s) - Len(d) + i]
  BY LastOfProperties, LenProperties
<1> HIDE DEF d
<1>2. /\ dd \in Seq(S) /\ Len(dd) = Len(d) + 1
      /\ \A i \in 1..Len(d) : dd[i] = d[i]
      /\ dd[Len(d) + 1] = e
  BY <1>1, AppendProperties
<1>3. /\ ss \in Seq(S) /\ Len(ss) = Len(s) + 1
      /\ \A i \in 1..Len(s) : ss[i] = s[i]
      /\ ss[Len(s) + 1] = e
  BY <1>1, AppendProperties
<1> HIDE DEF dd, ss
<1>4. /\ x \in Seq(S)
      /\ Len(x) = IF Len(dd) <= n THEN Len(dd) ELSE n
      /\ \A i \in 1..Len(x) : x[i] = dd[Len(dd) - Len(x) + i]
  BY <1>1, <1>2, LastOfProperties
<1>5. /\ y \in Seq(S)
      /\ Len(y) = IF Len(ss) <= n THEN Len(ss) ELSE n
      /\ \A i \in 1..Len(y) : y[i] = ss[Len(ss) - Len(y) + i]
  BY <1>1, <1>3, LastOfProperties
<1> HIDE DEF x, y
<1>6. Len(x) = Len(y) /\ Len(x) \in 1..(Len(d) + 1)
  BY <1>1, <1>2, <1>3, <1>4, <1>5
<1>7. ASSUME NEW i \in 1..Len(x) PROVE x[i] = y[i]
  <2> DEFINE a == Len(d) + 1 - Len(x) + i
             b == Len(s) + 1 - Len(x) + i
  <2>1. x[i] = dd[a] /\ y[i] = ss[b]
    <3>1. i \in 1..Len(y) /\ Len(dd) - Len(x) + i = a /\ Len(ss) - Len(y) + i = b
      BY <1>2, <1>3, <1>6
    <3> QED BY <1>4, <1>5, <3>1
  <2>2. CASE i = Len(x)
    <3>1. a = Len(d) + 1 /\ b = Len(s) + 1
      BY <1>1, <1>6, <2>2
    <3> QED BY <1>2, <1>3, <2>1, <3>1
  <2>3. CASE i # Len(x)
    <3>1. Len(d) <= Len(s)
      BY <1>1
    <3>2. i \in 1..(Len(x) - 1)
      BY <1>6, <2>3
    <3>3. a \in 1..Len(d)
      BY <1>1, <1>6, <3>2
    <3>4. b = Len(s) - Len(d) + a
      <4>1. Len(d) \in Int /\ Len(s) \in Int /\ Len(x) \in Int /\ i \in Int
        BY <1>1, <1>6, <3>2
      <4> QED BY <4>1
    <3>5. b \in 1..Len(s)
      BY <1>1, <3>1, <3>3, <3>4
    <3>6. x[i] = d[a] /\ y[i] = s[b]
      BY <1>2, <1>3, <2>1, <3>3, <3>5
    <3> QED BY <1>1, <3>3, <3>4, <3>6
  <2> QED BY <2>2, <2>3
<1>8. x = y
  BY <1>4, <1>5, <1>6, <1>7, SeqEqual
<1> QED BY <1>8 DEF x, y, d, dd, ss

\* What a thread holds, by what it is doing.
LEMMA TaskShapes ==
  ASSUME NEW s \in TaskState
  PROVE  /\ s.pc = "storing" => s.finding \in Finding
         /\ s.pc = "scoring" => s.scored \in Nat
         /\ s.pc \in {"scoring", "emitting", "writing"} => s.todo \in Seq(Entry)
         /\ s.pc = "writing" => s.event_id \in Nat
         /\ s.pc \in {"verifying", "anchored", "verdict"} => s.items \in Seq(Event)
         /\ s.pc = "anchored" => s.previous \in Nat
         /\ s.pc \in {"paging", "counting", "page"} => s.page \in Seq(Event)
         /\ s.pc \in {"counting", "page"} => s.total \in Nat
BY DEF TaskState, Idle

\* A reading claims what the article supports or less, and flags it or does not.
LEMMA ReadingsTyped ==
  ASSUME NEW article \in Articles, NEW reading \in Readings(article)
  PROVE  reading.claims \in SUBSET Claims /\ reading.flagged \in BOOLEAN
<1>1. article.supports \in SUBSET Claims /\ article.hit \in BOOLEAN
  BY ArticlesAssumption
<1>2. CASE reading = HeuristicReading(article)
  BY <1>1, <1>2 DEF HeuristicReading
<1>3. CASE reading # HeuristicReading(article)
  <2>1. PICK extraction \in [claims : SUBSET Claims, suspected : BOOLEAN],
             ruled \in SUBSET Claims :
               \E upheld \in SUBSET (ruled \cap article.supports) :
                 reading = GuardedReading(article, extraction, ruled, upheld)
    BY <1>3 DEF Readings
  <2>2. PICK upheld \in SUBSET (ruled \cap article.supports) :
          reading = GuardedReading(article, extraction, ruled, upheld)
    BY <2>1
  <2>3. PICK flagged \in BOOLEAN : flagged <=> (article.hit \/ extraction.suspected)
    OBVIOUS
  <2>4. (article.hit \/ extraction.suspected) = flagged
    BY <1>1, <2>3
  <2>5. reading.flagged = flagged
    BY <2>2, <2>4 DEF GuardedReading
  <2>6. reading.claims = extraction.claims \cap upheld
    BY <2>2 DEF GuardedReading
  <2> QED BY <2>5, <2>6
<1> QED BY <1>2, <1>3

\* A finding is reported by the run, and by the attempt if it is flagged.
LEMMA ReportProperties ==
  ASSUME NEW finding \in Finding
  PROVE  LET report == ReportOf(finding) IN
           /\ report \in Seq(Entry) /\ report # <<>>
           /\ Len(report) = IF finding.injection_attempt_detected THEN 2 ELSE 1
           /\ report[1] = [action |-> "ADVERSE_MEDIA_AGENT_RUN",
                           evidence_id |-> finding.evidence_id]
           /\ finding.injection_attempt_detected =>
                report[2] = [action |-> "PROMPT_INJECTION_DETECTED",
                             evidence_id |-> finding.evidence_id]
<1> DEFINE run == [action |-> "ADVERSE_MEDIA_AGENT_RUN", evidence_id |-> finding.evidence_id]
           attempt == [action |-> "PROMPT_INJECTION_DETECTED",
                       evidence_id |-> finding.evidence_id]
<1>1. run \in Entry /\ attempt \in Entry
  BY DEF Finding, Entry, Actions
<1> HIDE DEF run, attempt
<1>2. CASE finding.injection_attempt_detected
  <2>1. ReportOf(finding) = <<run>> \o <<attempt>>
    BY <1>2 DEF ReportOf, run, attempt
  <2>2. /\ <<run>> \in Seq(Entry) /\ <<attempt>> \in Seq(Entry)
        /\ Len(<<run>>) = 1 /\ Len(<<attempt>>) = 1
    BY <1>1
  <2>3. /\ ReportOf(finding) \in Seq(Entry) /\ Len(ReportOf(finding)) = 2
        /\ ReportOf(finding)[1] = run /\ ReportOf(finding)[2] = attempt
    BY <2>1, <2>2, ConcatProperties
  <2>4. ReportOf(finding) # <<>>
    <3>1. Len(<<>>) = 0
      OBVIOUS
    <3> QED BY <2>3, <3>1
  <2> QED BY <1>2, <2>3, <2>4 DEF run, attempt
<1>3. CASE ~finding.injection_attempt_detected
  <2>1. ReportOf(finding) = <<run>> \o <<>>
    BY <1>3 DEF ReportOf, run
  <2>2. ReportOf(finding) = <<run>>
    BY <2>1
  <2> QED BY <1>1, <1>3, <2>2 DEF run, attempt
<1> QED BY <1>2, <1>3

-----------------------------------------------------------------------------
\* The first state.
LEMMA InitInv == Init => IInv
<1> SUFFICES ASSUME Init PROVE IInv
  OBVIOUS
<1>1. /\ history = <<>> /\ events = <<>> /\ Len(history) = 0 /\ DOMAIN history = {}
      /\ \A t \in Threads : task[t] = Idle /\ task[t].pc = "idle"
      /\ \A t \in Threads : DOMAIN Pending(t) = {} /\ Taken(t) = {}
  BY DEF Init, Idle, Pending, Taken
<1>2. TypeOK
  <2>1. Idle \in TaskState
    BY DEF TaskState
  <2>2. events \in Seq(Event) /\ Len(events) <= maxlen
    BY <1>1, maxlenAssumption
  <2> QED BY <1>1, <2>1, <2>2 DEF Init, TypeOK, GENESIS_HASH
<1>3. Chained
  <2>1. LastOf(history, maxlen) = <<>>
    BY <1>1, maxlenAssumption DEF LastOf
  <2> QED BY <1>1, <2>1 DEF Init, Chained, GENESIS_HASH
<1>4. ReadersHoldWindows /\ NeverIdleToEmit
  BY <1>1 DEF ReadersHoldWindows, HoldsWindow, NeverIdleToEmit
<1>5. NoClash /\ IdsTakenOnce
  BY <1>1 DEF NoClash, IdsTakenOnce
<1>6. StoredReported
  BY DEF Init, StoredReported
<1> QED BY <1>2, <1>3, <1>4, <1>5, <1>6 DEF IInv

-----------------------------------------------------------------------------
\* A thread that moves on to a proper state, with events to write if it is to emit,
\* leaves the types as they were.
LEMMA GoesTyped ==
  ASSUME TypeOK, NeverIdleToEmit, NEW t \in Threads, NEW to \in TaskState,
         to.pc \in {"emitting", "writing"} => to.todo # <<>>, Goes(t, to)
  PROVE  TypeOK' /\ NeverIdleToEmit'
<1>1. TypeOK'
  BY DEF TypeOK, Goes, sinkVars
<1>2. \A u \in Threads : task'[u] = IF u = t THEN to ELSE task[u]
  BY DEF TypeOK, Goes
<1>3. NeverIdleToEmit'
  BY <1>2 DEF NeverIdleToEmit
<1> QED BY <1>1, <1>3

\* What write appends.
Written(t) ==
  [event_id |-> task[t].event_id, action |-> Head(task[t].todo).action,
   evidence_id |-> Head(task[t].todo).evidence_id,
   previous_hash |-> last_hash, event_hash |-> counter + 1]
AfterWriting(t) ==
  IF Len(task[t].todo) = 1 THEN Idle ELSE [pc |-> "emitting", todo |-> Tail(task[t].todo)]

LEMMA WriteProperties ==
  ASSUME TypeOK, NeverIdleToEmit, NEW t \in Threads, Write(t)
  PROVE  /\ task[t].todo \in Seq(Entry) /\ task[t].todo # <<>> /\ Len(task[t].todo) >= 1
         /\ Head(task[t].todo) = task[t].todo[1] /\ Head(task[t].todo) \in Entry
         /\ Written(t) \in Event
         /\ AfterWriting(t) \in TaskState
         /\ AfterWriting(t).pc \in {"idle", "emitting"}
         /\ AfterWriting(t).pc = "idle" => Len(task[t].todo) = 1
         /\ AfterWriting(t).pc = "emitting" =>
              AfterWriting(t).todo = Tail(task[t].todo) /\ AfterWriting(t).todo # <<>>
         /\ task' = [task EXCEPT ![t] = AfterWriting(t)]
         /\ history' = Append(history, Written(t))
         /\ events' = LastOf(Append(events, Written(t)), maxlen)
<1>1. task[t] \in TaskState /\ task[t].pc = "writing"
  BY DEF TypeOK, Write
<1>2. task[t].todo \in Seq(Entry) /\ task[t].todo # <<>> /\ task[t].event_id \in Nat
  BY <1>1, TaskShapes DEF NeverIdleToEmit
<1>3. /\ Len(task[t].todo) \in Nat /\ Len(task[t].todo) >= 1
      /\ Head(task[t].todo) = task[t].todo[1] /\ Head(task[t].todo) \in Entry
      /\ Tail(task[t].todo) \in Seq(Entry)
      /\ Len(Tail(task[t].todo)) = Len(task[t].todo) - 1
  BY <1>2, EmptySeq, LenProperties, HeadTailProperties
<1>4. Written(t) \in Event
  BY <1>2, <1>3 DEF Written, Event, Entry, TypeOK
<1>5. CASE Len(task[t].todo) = 1
  <2>1. AfterWriting(t) = Idle
    BY <1>5 DEF AfterWriting
  <2> QED BY <1>2, <1>3, <1>4, <1>5, <2>1 DEF Write, Written, AfterWriting, Retained, Idle, TaskState
<1>6. CASE Len(task[t].todo) # 1
  <2>1. AfterWriting(t) = [pc |-> "emitting", todo |-> Tail(task[t].todo)]
    BY <1>6 DEF AfterWriting
  <2>2. Tail(task[t].todo) # <<>>
    <3>1. Len(Tail(task[t].todo)) # 0 /\ Len(<<>>) = 0
      BY <1>3, <1>6
    <3> QED BY <3>1
  <2>3. AfterWriting(t) \in TaskState
    BY <1>3, <2>1 DEF TaskState
  <2> QED BY <1>2, <1>3, <1>4, <1>6, <2>1, <2>2, <2>3 DEF Write, Written, AfterWriting, Retained
<1> QED BY <1>5, <1>6

\* The types, and that a thread about to emit has something to emit.
LEMMA TypeStep ==
  ASSUME TypeOK, NeverIdleToEmit, [Next]_vars
  PROVE  TypeOK' /\ NeverIdleToEmit'
<1> DEFINE Kept == TypeOK' /\ NeverIdleToEmit'
<1>0. ASSUME NEW t \in Threads PROVE task[t] \in TaskState
  BY DEF TypeOK
<1>1. ASSUME NEW t \in Threads, NEW id \in EntityIds, NEW article \in Articles,
             NEW reading \in Readings(article), Analyze(t, id, article, reading)
      PROVE  Kept
  <2> DEFINE finding == [evidence_id |-> next_evidence, entity_id |-> id,
                         claims |-> reading.claims,
                         injection_attempt_detected |-> reading.flagged,
                         article |-> article]
             to == [pc |-> "storing", finding |-> finding]
  <2>1. finding \in Finding
    BY ReadingsTyped DEF Finding, TypeOK
  <2>2. to \in TaskState /\ to.pc = "storing"
    BY <2>1 DEF TaskState
  <2>3. /\ task' = [task EXCEPT ![t] = to] /\ next_evidence' = next_evidence + 1
        /\ UNCHANGED <<media_store, sinkVars, altered>>
    BY <1>1 DEF Analyze, Advanced
  <2> HIDE DEF to
  <2>4. \A u \in Threads : task'[u] = IF u = t THEN to ELSE task[u]
    BY <2>3 DEF TypeOK
  <2>5. TypeOK'
    BY <2>2, <2>3 DEF TypeOK, sinkVars
  <2> QED BY <2>2, <2>4, <2>5 DEF NeverIdleToEmit
<1>2. ASSUME NEW t \in Threads, StoreFinding(t) PROVE Kept
  <2> DEFINE finding == task[t].finding
             to == [pc |-> "emitting", todo |-> ReportOf(finding)]
  <2>1. finding \in Finding /\ finding.entity_id \in EntityIds
    BY <1>0, <1>2, TaskShapes DEF StoreFinding, Finding
  <2>2. ReportOf(finding) \in Seq(Entry) /\ ReportOf(finding) # <<>>
    BY <2>1, ReportProperties
  <2>3. to \in TaskState
    BY <2>2 DEF TaskState
  <2>4. /\ media_store' = [media_store EXCEPT ![finding.entity_id] = Append(@, finding)]
        /\ task' = [task EXCEPT ![t] = to]
        /\ UNCHANGED <<next_evidence, sinkVars, altered>>
    BY <1>2 DEF StoreFinding
  <2>5. to.pc = "emitting" /\ to.todo # <<>>
    BY <2>2
  <2> HIDE DEF to, finding
  <2>6. \A u \in Threads : task'[u] = IF u = t THEN to ELSE task[u]
    BY <2>4 DEF TypeOK
  <2>7. Append(media_store[finding.entity_id], finding) \in Seq(Finding)
    BY <2>1, AppendProperties DEF TypeOK
  <2>8. TypeOK'
    BY <2>1, <2>3, <2>4, <2>7 DEF TypeOK, sinkVars
  <2> QED BY <2>5, <2>6, <2>8 DEF NeverIdleToEmit
<1>3. ASSUME NEW t \in Threads, Screen(t) PROVE Kept
  <2> DEFINE to == [pc |-> "scoring", scored |-> 0, todo |-> <<>>]
  <2>1. to \in TaskState /\ to.pc = "scoring" /\ Goes(t, to)
    BY <1>3 DEF TaskState, Screen
  <2> HIDE DEF to
  <2> QED BY <2>1, GoesTyped
<1>4. ASSUME NEW t \in Threads, NEW returned \in BOOLEAN, Score(t, returned) PROVE Kept
  <2> DEFINE e == [action |-> "ENTITY_MATCH_CALCULATED", evidence_id |-> next_evidence]
             todo == IF returned THEN Append(task[t].todo, e) ELSE task[t].todo
             to == [pc |-> "scoring", scored |-> task[t].scored + 1, todo |-> todo]
  <2>1. task[t].scored \in Nat /\ task[t].todo \in Seq(Entry)
    BY <1>0, <1>4, TaskShapes DEF Score
  <2>2. e \in Entry
    BY DEF Entry, Actions, TypeOK
  <2>3. todo \in Seq(Entry)
    BY <2>1, <2>2, AppendProperties
  <2>4. to \in [pc : {"scoring"}, scored : Nat, todo : Seq(Entry)] /\ to.pc = "scoring"
    <3> HIDE DEF todo
    <3> QED BY <2>1, <2>3
  <2>5. to \in TaskState
    BY <2>4 DEF TaskState
  <2>6. /\ task' = [task EXCEPT ![t] = to] /\ next_evidence' = next_evidence + 1
        /\ UNCHANGED <<media_store, sinkVars, altered>>
    BY <1>4 DEF Score, Advanced
  <2> HIDE DEF to
  <2>7. \A u \in Threads : task'[u] = IF u = t THEN to ELSE task[u]
    BY <2>6 DEF TypeOK
  <2>8. TypeOK'
    BY <2>5, <2>6 DEF TypeOK, sinkVars
  <2> QED BY <2>4, <2>7, <2>8 DEF NeverIdleToEmit
<1>5. ASSUME NEW t \in Threads, Rank(t) PROVE Kept
  <2>1. task[t].todo \in Seq(Entry)
    BY <1>0, <1>5, TaskShapes DEF Rank
  <2>2. CASE task[t].todo = <<>>
    <3>1. Idle \in TaskState /\ Idle.pc = "idle" /\ Goes(t, Idle)
      BY <1>5, <2>2 DEF Rank, TaskState, Idle
    <3> QED BY <3>1, GoesTyped
  <2>3. CASE task[t].todo # <<>>
    <3> DEFINE to == [pc |-> "emitting", todo |-> task[t].todo]
    <3>1. to \in TaskState /\ to.todo # <<>> /\ Goes(t, to)
      BY <1>5, <2>1, <2>3 DEF Rank, TaskState
    <3> HIDE DEF to
    <3> QED BY <3>1, GoesTyped
  <2> QED BY <2>2, <2>3
<1>6. ASSUME NEW t \in Threads, NextEventId(t) PROVE Kept
  <2> DEFINE to == [pc |-> "writing", todo |-> task[t].todo, event_id |-> counter + 1]
  <2>1. task[t].todo \in Seq(Entry) /\ task[t].todo # <<>> /\ counter + 1 \in Nat
    BY <1>0, <1>6, TaskShapes DEF NextEventId, NeverIdleToEmit, TypeOK
  <2>2. to \in TaskState /\ to.todo # <<>> /\ Goes(t, to)
    BY <1>6, <2>1 DEF NextEventId, TaskState
  <2> HIDE DEF to
  <2> QED BY <2>2, GoesTyped
<1>7. ASSUME NEW t \in Threads, Write(t) PROVE Kept
  <2> DEFINE to == AfterWriting(t)
             e == Written(t)
  <2>1. /\ to \in TaskState /\ to.pc \in {"idle", "emitting"}
        /\ to.pc = "emitting" => to.todo # <<>>
        /\ e \in Event
        /\ task' = [task EXCEPT ![t] = to] /\ history' = Append(history, e)
        /\ events' = LastOf(Append(events, e), maxlen)
    BY <1>7, WriteProperties
  <2>2. /\ counter' = counter + 1 /\ last_hash' = counter + 1
        /\ dropped' = dropped + Evicted /\ Evicted \in Nat
        /\ UNCHANGED <<media_store, next_evidence, altered>>
    BY <1>7 DEF Write, Evicted
  <2> HIDE DEF to, e
  <2>3. Append(history, e) \in Seq(Event) /\ Append(events, e) \in Seq(Event)
    BY <2>1, AppendProperties DEF TypeOK
  <2>4. events' \in Seq(Event) /\ Len(events') <= maxlen
    <3> DEFINE s == Append(events, e)
    <3>1. /\ s \in Seq(Event) /\ maxlen \in Nat /\ events' = LastOf(s, maxlen)
          /\ Len(s) \in Nat
      BY <2>1, <2>3, maxlenAssumption, LenProperties
    <3> HIDE DEF s
    <3> QED BY <3>1, LastOfProperties
  <2>5. \A u \in Threads : task'[u] = IF u = t THEN to ELSE task[u]
    BY <2>1 DEF TypeOK
  <2>6. counter' \in Nat /\ last_hash' \in Nat /\ dropped' \in Nat
    BY <2>2 DEF TypeOK
  <2>7. TypeOK'
    BY <2>1, <2>2, <2>3, <2>4, <2>6 DEF TypeOK
  <2> QED BY <2>1, <2>5, <2>7 DEF NeverIdleToEmit
<1>8. ASSUME NEW t \in Threads, BeginVerify(t) PROVE Kept
  <2> DEFINE to == [pc |-> "verifying", items |-> events]
  <2>1. to \in TaskState /\ to.pc = "verifying" /\ Goes(t, to)
    BY <1>8 DEF BeginVerify, TaskState, TypeOK
  <2> HIDE DEF to
  <2> QED BY <2>1, GoesTyped
<1>9. ASSUME NEW t \in Threads, Anchor(t) PROVE Kept
  <2> DEFINE items == task[t].items
             previous == IF dropped = 0 \/ items = <<>> THEN GENESIS_HASH
                         ELSE items[1].previous_hash
             to == [pc |-> "anchored", items |-> items, previous |-> previous]
  <2>1. items \in Seq(Event)
    BY <1>0, <1>9, TaskShapes DEF Anchor
  <2>2. previous \in Nat
    <3>1. CASE items = <<>>
      BY <3>1 DEF GENESIS_HASH
    <3>2. CASE items # <<>>
      <4>1. items[1] \in Event
        BY <2>1, <3>2, HeadTailProperties
      <4> QED BY <4>1 DEF Event, GENESIS_HASH
    <3> QED BY <3>1, <3>2
  <2>3. to \in TaskState /\ to.pc = "anchored"
    BY <2>1, <2>2 DEF TaskState
  <2>4. Goes(t, to)
    BY <1>9 DEF Anchor
  <2> HIDE DEF to
  <2> QED BY <2>3, <2>4, GoesTyped
<1>10. ASSUME NEW t \in Threads, Verdict(t) PROVE Kept
  <2> DEFINE items == task[t].items
             Valid == \A i \in DOMAIN items :
                        /\ items[i].event_hash \notin altered
                        /\ items[i].previous_hash = IF i = 1 THEN task[t].previous
                                                    ELSE items[i - 1].event_hash
             FromGenesis == items = <<>> \/ dropped = 0
             to == [pc |-> "verdict", items |-> items, valid |-> Valid,
                    verified_from_genesis |-> FromGenesis]
  <2>1. items \in Seq(Event)
    BY <1>0, <1>10, TaskShapes DEF Verdict
  <2>2. Valid \in BOOLEAN /\ FromGenesis \in BOOLEAN
    OBVIOUS
  <2>3. Goes(t, to)
    BY <1>10 DEF Verdict
  <2> HIDE DEF Valid, FromGenesis
  <2>4. to \in TaskState /\ to.pc = "verdict"
    BY <2>1, <2>2 DEF TaskState
  <2> HIDE DEF to
  <2> QED BY <2>3, <2>4, GoesTyped
<1>11. ASSUME NEW t \in Threads, NEW limit \in 1..maxlen, BeginPage(t, limit) PROVE Kept
  <2> DEFINE to == [pc |-> "paging", page |-> LastOf(events, limit)]
  <2>1. LastOf(events, limit) \in Seq(Event)
    BY LastOfProperties, maxlenAssumption DEF TypeOK
  <2>2. to \in TaskState /\ to.pc = "paging" /\ Goes(t, to)
    BY <1>11, <2>1 DEF BeginPage, TaskState
  <2> HIDE DEF to
  <2> QED BY <2>2, GoesTyped
<1>12. ASSUME NEW t \in Threads, ReadCount(t) PROVE Kept
  <2> DEFINE to == [pc |-> "counting", page |-> task[t].page, total |-> counter]
  <2>1. task[t].page \in Seq(Event) /\ counter \in Nat
    BY <1>0, <1>12, TaskShapes DEF ReadCount, TypeOK
  <2>2. to \in TaskState /\ to.pc = "counting" /\ Goes(t, to)
    BY <1>12, <2>1 DEF ReadCount, TaskState
  <2> HIDE DEF to
  <2> QED BY <2>2, GoesTyped
<1>13. ASSUME NEW t \in Threads, ReadDropped(t) PROVE Kept
  <2> DEFINE to == [pc |-> "page", page |-> task[t].page, total |-> task[t].total,
                    dropped |-> dropped]
  <2>1. task[t].page \in Seq(Event) /\ task[t].total \in Nat /\ dropped \in Nat
    BY <1>0, <1>13, TaskShapes DEF ReadDropped, TypeOK
  <2>2. to \in TaskState /\ to.pc = "page" /\ Goes(t, to)
    BY <1>13, <2>1 DEF ReadDropped, TaskState
  <2> HIDE DEF to
  <2> QED BY <2>2, GoesTyped
<1>14. ASSUME NEW t \in Threads, Respond(t) PROVE Kept
  <2>1. Idle \in TaskState /\ Idle.pc = "idle" /\ Goes(t, Idle)
    BY <1>14 DEF Respond, TaskState, Idle
  <2> QED BY <2>1, GoesTyped
<1>15. CASE Alter
  <2>1. \A i \in DOMAIN events : events[i].event_hash \in Nat
    <3>1. \A i \in DOMAIN events : events[i] \in Event
      BY DEF TypeOK
    <3> QED BY <3>1 DEF Event
  <2> QED BY <1>15, <2>1 DEF Alter, TypeOK, NeverIdleToEmit, sinkVars
<1>16. CASE UNCHANGED vars
  BY <1>16 DEF vars, sinkVars, TypeOK, NeverIdleToEmit
<1> QED BY <1>1, <1>2, <1>3, <1>4, <1>5, <1>6, <1>7, <1>8, <1>9, <1>10, <1>11, <1>12, <1>13,
           <1>14, <1>15, <1>16 DEF Next, Request

-----------------------------------------------------------------------------
\* A step of a thread is no other thread's, and only write touches the sink.
LEMMA OneThread ==
  ASSUME TypeOK, NEW t \in Threads, Request(t)
  PROVE  /\ \A u \in Threads : u # t => task'[u] = task[u]
         /\ Write(t) \/ UNCHANGED sinkVars
<1>1. \A u \in Threads : u # t => task'[u] = task[u]
  BY DEF Request, TypeOK, Goes, Analyze, StoreFinding, Screen, Score, Rank, NextEventId, Write,
         BeginVerify, Anchor, Verdict, BeginPage, ReadCount, ReadDropped, Respond
<1>2. Write(t) \/ UNCHANGED sinkVars
  BY DEF Request, Goes, Analyze, StoreFinding, Screen, Score, Rank, NextEventId,
         BeginVerify, Anchor, Verdict, BeginPage, ReadCount, ReadDropped, Respond
<1> QED BY <1>1, <1>2

\* The deque holds the events that follow the dropped ones.
LEMMA EventsAreAWindow ==
  ASSUME TypeOK, Chained
  PROVE  Window(events, dropped, counter) /\ dropped \in 0..counter
<1>1. /\ events = LastOf(history, maxlen) /\ history \in Seq(Event) /\ maxlen \in Nat
      /\ Len(history) \in Nat /\ Len(events) \in Nat /\ dropped \in Nat
      /\ counter = Len(history) /\ counter = Len(events) + dropped
  BY maxlenAssumption, LenProperties DEF TypeOK, Chained
<1>2. \A i \in 1..Len(events) : events[i] = history[Len(history) - Len(events) + i]
  <2>1. \A i \in 1..Len(LastOf(history, maxlen)) :
          LastOf(history, maxlen)[i]
            = history[Len(history) - Len(LastOf(history, maxlen)) + i]
    <3> QED BY <1>1, LastOfProperties
  <2> QED BY <1>1, <2>1
<1>3. ASSUME NEW i \in 1..Len(events)
      PROVE  events[i].event_hash = dropped + i /\ events[i].previous_hash = dropped + i - 1
  <2>1. events[i] = history[dropped + i] /\ dropped + i \in DOMAIN history
    <3>1. DOMAIN history = 1..Len(history)
      BY LenProperties DEF TypeOK
    <3>2. Len(history) - Len(events) = dropped
      <4>1. Len(history) = Len(events) + dropped /\ Len(events) \in Nat /\ dropped \in Nat
        BY <1>1
      <4> QED BY <4>1
    <3>3. dropped + i \in 1..Len(history)
      BY <1>1, <3>2
    <3> QED BY <1>2, <3>1, <3>2, <3>3
  <2> QED BY <1>1, <2>1 DEF Chained
<1>4. DOMAIN events = 1..Len(events)
  BY LenProperties DEF TypeOK
<1> QED BY <1>1, <1>3, <1>4 DEF Window

\* The log stays chained, and its counts only grow.
LEMMA ChainStep ==
  ASSUME TypeOK, NeverIdleToEmit, Chained, [Next]_vars
  PROVE  Chained' /\ dropped' \in Nat /\ counter' \in Nat /\ dropped' >= dropped /\ counter' >= counter
<1>1. ASSUME NEW t \in Threads, Write(t)
      PROVE  Chained' /\ dropped' \in Nat /\ counter' \in Nat /\ dropped' >= dropped /\ counter' >= counter
  <2> DEFINE e == Written(t)
  <2>1. /\ e \in Event /\ history' = Append(history, e)
        /\ events' = LastOf(Append(events, e), maxlen)
        /\ e.event_hash = counter + 1 /\ e.previous_hash = last_hash
    BY <1>1, WriteProperties DEF Written
  <2>2. /\ counter' = counter + 1 /\ last_hash' = counter + 1
        /\ dropped' = dropped + IF Len(events) = maxlen THEN 1 ELSE 0
    BY <1>1 DEF Write, Evicted
  <2> HIDE DEF e
  <2>3. /\ events = LastOf(history, maxlen) /\ history \in Seq(Event) /\ events \in Seq(Event)
        /\ maxlen \in Nat /\ maxlen >= 1 /\ Len(events) <= maxlen
        /\ Len(history) \in Nat /\ Len(events) \in Nat /\ dropped \in Nat
        /\ counter = Len(history) /\ counter = Len(events) + dropped /\ last_hash = counter
    BY maxlenAssumption, LenProperties DEF TypeOK, Chained
  <2>4. events' = LastOf(history', maxlen)
    BY <2>1, <2>3, DequeFollows, maxlenAssumption
  <2> DEFINE h == Append(history, e)
  <2>5. /\ h \in Seq(Event) /\ Len(h) = Len(history) + 1
        /\ \A i \in 1..Len(history) : h[i] = history[i]
        /\ h[Len(history) + 1] = e
        /\ DOMAIN h = 1..(Len(history) + 1) /\ DOMAIN history = 1..Len(history)
        /\ h = history'
    <3>1. /\ h \in Seq(Event) /\ Len(h) = Len(history) + 1
          /\ \A i \in 1..Len(history) : h[i] = history[i]
          /\ h[Len(history) + 1] = e
      <4>1. history \in Seq(Event) /\ e \in Event
        BY <2>1, <2>3
      <4> QED BY <4>1, AppendProperties
    <3>2. DOMAIN h = 1..Len(h) /\ DOMAIN history = 1..Len(history)
      <4> HIDE DEF h
      <4>1. history \in Seq(Event) /\ h \in Seq(Event)
        BY <2>3, <3>1
      <4> QED BY <4>1, LenProperties
    <3> QED BY <2>1, <3>1, <3>2
  <2> HIDE DEF h
  <2>6. Len(events') = IF Len(h) <= maxlen THEN Len(h) ELSE maxlen
    <3>1. events' = LastOf(h, maxlen)
      BY <2>4, <2>5
    <3>2. Len(LastOf(h, maxlen)) = IF Len(h) <= maxlen THEN Len(h) ELSE maxlen
      BY <2>3, <2>5, LastOfProperties
    <3> QED BY <3>1, <3>2
  <2>7. Len(events) = IF Len(history) <= maxlen THEN Len(history) ELSE maxlen
    <3>1. Len(LastOf(history, maxlen))
            = IF Len(history) <= maxlen THEN Len(history) ELSE maxlen
      <4>1. history \in Seq(Event) /\ maxlen \in Nat
        BY <2>3
      <4> QED BY <4>1, LastOfProperties
    <3>2. events = LastOf(history, maxlen)
      BY <2>3
    <3> QED BY <3>1, <3>2
  <2>8. counter' = Len(events') + dropped'
    <3>1. /\ Len(history) \in Nat /\ maxlen \in Nat /\ maxlen >= 1 /\ dropped \in Nat
          /\ counter = Len(history) /\ counter = Len(events) + dropped
          /\ Len(h) = Len(history) + 1
      BY <2>3, <2>5
    <3>2. CASE Len(history) < maxlen
      <4>1. /\ Len(events) = Len(history) /\ Len(events) # maxlen
            /\ Len(events') = Len(history) + 1
        BY <2>6, <2>7, <3>1, <3>2
      <4> QED BY <2>2, <3>1, <4>1
    <3>3. CASE ~(Len(history) < maxlen)
      <4>1. Len(events) = maxlen /\ Len(events') = maxlen
        BY <2>6, <2>7, <3>1, <3>3
      <4> QED BY <2>2, <3>1, <4>1
    <3> QED BY <3>2, <3>3
  <2>9. ASSUME NEW i \in DOMAIN h
        PROVE  h[i].event_hash = i /\ h[i].previous_hash = i - 1
    <3>1. CASE i \in 1..Len(history)
      BY <2>5, <3>1 DEF Chained
    <3>2. CASE i = Len(history) + 1
      BY <2>1, <2>3, <2>5, <3>2
    <3> QED BY <2>3, <2>5, <3>1, <3>2
  <2>10. counter' = Len(history')
    BY <2>2, <2>3, <2>5
  <2>11. Chained'
    BY <2>2, <2>4, <2>5, <2>8, <2>9, <2>10 DEF Chained
  <2>12. /\ dropped \in Nat /\ counter \in Nat
         /\ counter' = counter + 1
         /\ (dropped' = dropped \/ dropped' = dropped + 1)
    BY <2>2, <2>3
  <2> QED BY <2>11, <2>12
<1>2. CASE UNCHANGED sinkVars
  <2>1. dropped \in Nat /\ counter \in Nat
    BY DEF TypeOK
  <2>2. Chained' /\ dropped' = dropped /\ counter' = counter
    BY <1>2 DEF sinkVars, Chained
  <2> QED BY <2>1, <2>2
<1>3. (\E t \in Threads : Write(t)) \/ UNCHANGED sinkVars
  BY OneThread DEF Next, Alter, vars
<1> QED BY <1>1, <1>2, <1>3

\* A window of the first n events is one of the first m, if there are more of them.
LEMMA WindowGrows ==
  ASSUME NEW items, Len(items) \in Nat, NEW k \in Nat, NEW n \in Nat, NEW m \in Nat,
         Window(items, k, n), n <= m
  PROVE  Window(items, k, m)
BY DEF Window

\* What a reader holds it may go on holding.
LEMMA StillHolds ==
  ASSUME TypeOK, NEW t \in Threads, HoldsWindow(t), task'[t] = task[t],
         dropped' \in Nat, counter' \in Nat, dropped' >= dropped, counter' >= counter
  PROVE  HoldsWindow(t)'
<1>1. task[t] \in TaskState /\ dropped \in Nat /\ counter \in Nat
  BY DEF TypeOK
<1>2. CASE task[t].pc = "verifying"
  <2>1. PICK k \in 0..dropped : Window(task[t].items, k, counter)
    BY <1>2 DEF HoldsWindow
  <2>2. Len(task[t].items) \in Nat
    BY <1>1, <1>2, TaskShapes, LenProperties
  <2>3. Window(task[t].items, k, counter') /\ k \in 0..dropped'
    <3>1. k \in Nat /\ k \in 0..dropped'
      BY <1>1, <2>1
    <3> DEFINE items == task[t].items
    <3>2. Window(items, k, counter) /\ Len(items) \in Nat
      BY <2>1, <2>2
    <3>3. counter \in Nat /\ counter' \in Nat /\ counter <= counter'
      BY <1>1
    <3> HIDE DEF items
    <3>4. Window(items, k, counter')
      BY <3>1, <3>2, <3>3, WindowGrows
    <3> QED BY <3>1, <3>4 DEF items
  <2> QED BY <1>2, <2>3 DEF HoldsWindow, Window
<1>3. CASE task[t].pc = "anchored"
  <2>1. PICK k \in 0..dropped :
          /\ Window(task[t].items, k, counter)
          /\ task[t].items # <<>> => task[t].previous = k
    BY <1>3 DEF HoldsWindow
  <2>2. Len(task[t].items) \in Nat
    BY <1>1, <1>3, TaskShapes, LenProperties
  <2>3. Window(task[t].items, k, counter') /\ k \in 0..dropped'
    <3>1. k \in Nat /\ k \in 0..dropped'
      BY <1>1
    <3> DEFINE items == task[t].items
    <3>2. Window(items, k, counter) /\ Len(items) \in Nat
      <4>1. Window(task[t].items, k, counter)
        BY <2>1, Zenon
      <4> QED BY <2>2, <4>1
    <3>3. counter \in Nat /\ counter' \in Nat /\ counter <= counter'
      BY <1>1
    <3> HIDE DEF items
    <3>4. Window(items, k, counter')
      BY <3>1, <3>2, <3>3, WindowGrows
    <3> QED BY <3>1, <3>4 DEF items
  <2> QED BY <1>3, <2>1, <2>3 DEF HoldsWindow, Window
<1>4. CASE task[t].pc = "paging"
  <2>1. PICK k \in 0..counter : Window(task[t].page, k, counter)
    BY <1>4 DEF HoldsWindow
  <2>2. Len(task[t].page) \in Nat
    BY <1>1, <1>4, TaskShapes, LenProperties
  <2>3. Window(task[t].page, k, counter') /\ k \in 0..counter'
    BY <1>1, <2>1, <2>2, WindowGrows
  <2> QED BY <1>4, <2>3 DEF HoldsWindow, Window
<1>5. CASE task[t].pc \notin {"verifying", "anchored", "paging"}
  BY <1>5 DEF HoldsWindow, Window
<1> QED BY <1>2, <1>3, <1>4, <1>5

\* A page of the newest events is a window.
LEMMA PagesAreWindows ==
  ASSUME TypeOK, Chained, NEW limit \in 1..maxlen
  PROVE  \E k \in 0..counter : Window(LastOf(events, limit), k, counter)
<1> DEFINE page == LastOf(events, limit)
           k == counter - Len(page)
<1>1. /\ Window(events, dropped, counter) /\ dropped \in 0..counter
      /\ events \in Seq(Event) /\ Len(events) \in Nat /\ limit \in Nat
      /\ counter = Len(events) + dropped /\ counter \in Nat
  BY EventsAreAWindow, maxlenAssumption, LenProperties DEF TypeOK, Chained
<1>2. /\ page \in Seq(Event) /\ Len(page) = IF Len(events) <= limit THEN Len(events) ELSE limit
      /\ \A i \in 1..Len(page) : page[i] = events[Len(events) - Len(page) + i]
  BY <1>1, LastOfProperties
<1> HIDE DEF page
<1>3. k \in 0..counter /\ Len(page) \in 0..Len(events)
  <2>1. Len(page) \in 0..Len(events)
    BY <1>1, <1>2
  <2>2. Len(page) \in 0..counter
    BY <1>1, <2>1
  <2> QED BY <1>1, <2>1, <2>2
<1>4. ASSUME NEW i \in 1..Len(page)
      PROVE  page[i].event_hash = k + i /\ page[i].previous_hash = k + i - 1
  <2> DEFINE j == Len(events) - Len(page) + i
  <2>1. j \in 1..Len(events) /\ dropped + j = k + i
    BY <1>1, <1>3
  <2>2. page[i] = events[j]
    BY <1>2
  <2> HIDE DEF j
  <2>3. events[j].event_hash = dropped + j /\ events[j].previous_hash = dropped + j - 1
    <3>1. DOMAIN events = 1..Len(events)
      BY LenProperties DEF TypeOK
    <3>2. j \in DOMAIN events
      BY <2>1, <3>1
    <3>3. Window(events, dropped, counter)
      BY <1>1
    <3> QED BY <3>2, <3>3 DEF Window
  <2>4. dropped \in Int /\ j \in Int /\ k \in Int /\ i \in Int
    BY <1>1, <1>3, <2>1
  <2> HIDE DEF k
  <2>5. page[i].event_hash = k + i
    BY <2>1, <2>2, <2>3
  <2>6. page[i].previous_hash = k + i - 1
    <3>1. dropped + j - 1 = k + i - 1
      BY <2>1, <2>4
    <3> QED BY <2>2, <2>3, <3>1
  <2> QED BY <2>5, <2>6
<1>5. Window(page, k, counter)
  <2>1. DOMAIN page = 1..Len(page)
    BY <1>2, LenProperties
  <2>2. k + Len(page) <= counter
    BY <1>1, <1>3
  <2> HIDE DEF k
  <2> QED BY <1>4, <2>1, <2>2 DEF Window
<1> HIDE DEF k
<1>6. \E w \in 0..counter : Window(page, w, counter)
  BY <1>3, <1>5
<1> QED BY <1>6 DEF page

\* A thread's step leaves it holding a window, if it holds events at all.
LEMMA MoverHolds ==
  ASSUME TypeOK, Chained, NEW t \in Threads, HoldsWindow(t), Request(t)
  PROVE  HoldsWindow(t)'
<1> DEFINE Elsewhere(s) ==
      s.pc \notin {"verifying", "anchored", "paging", "counting", "page"}
<1>1. task[t] \in TaskState /\ counter \in Nat /\ dropped \in Nat
  BY DEF TypeOK
<1>2. ASSUME Elsewhere(task'[t]) PROVE HoldsWindow(t)'
  BY <1>2 DEF HoldsWindow
<1>3. ASSUME NEW id \in EntityIds, NEW article \in Articles,
             NEW reading \in Readings(article), Analyze(t, id, article, reading)
      PROVE  Elsewhere(task'[t])
  BY <1>3 DEF Analyze, TypeOK
<1>4. ASSUME StoreFinding(t) PROVE Elsewhere(task'[t])
  BY <1>4 DEF StoreFinding, TypeOK
<1>5. ASSUME Screen(t) PROVE Elsewhere(task'[t])
  BY <1>5 DEF Screen, Goes, TypeOK
<1>6. ASSUME NEW returned \in BOOLEAN, Score(t, returned) PROVE Elsewhere(task'[t])
  BY <1>6 DEF Score, TypeOK
<1>7. ASSUME Rank(t) PROVE Elsewhere(task'[t])
  BY <1>7 DEF Rank, Goes, TypeOK, Idle
<1>8. ASSUME NextEventId(t) PROVE Elsewhere(task'[t])
  BY <1>8 DEF NextEventId, Goes, TypeOK
<1>9. ASSUME Write(t) PROVE Elsewhere(task'[t])
  BY <1>9 DEF Write, TypeOK, Idle
<1>10. ASSUME BeginVerify(t) PROVE HoldsWindow(t)'
  <2>1. /\ task'[t] = [pc |-> "verifying", items |-> events]
        /\ counter' = counter /\ dropped' = dropped
    BY <1>10 DEF BeginVerify, Goes, TypeOK, sinkVars
  <2>2. Window(events, dropped, counter) /\ dropped \in 0..dropped
    BY <1>1, EventsAreAWindow
  <2>3. Window(task'[t].items, dropped, counter') /\ dropped \in 0..dropped'
    BY <2>1, <2>2
  <2>4. task'[t].pc = "verifying"
    BY <2>1
  <2> QED BY <2>3, <2>4 DEF HoldsWindow, Window
<1>11. ASSUME Anchor(t) PROVE HoldsWindow(t)'
  <2> DEFINE items == task[t].items
             previous == IF dropped = 0 \/ items = <<>> THEN GENESIS_HASH
                         ELSE items[1].previous_hash
  <2>1. /\ task[t].pc = "verifying"
        /\ task'[t] = [pc |-> "anchored", items |-> items, previous |-> previous]
        /\ counter' = counter /\ dropped' = dropped
    BY <1>11 DEF Anchor, Goes, TypeOK, sinkVars
  <2>2. PICK k \in 0..dropped : Window(items, k, counter)
    BY <2>1 DEF HoldsWindow
  <2>3. items \in Seq(Event)
    BY <1>1, <2>1, TaskShapes
  <2>4. ASSUME items # <<>> PROVE previous = k
    <3>1. 1 \in DOMAIN items
      BY <2>3, <2>4, EmptySeq, LenProperties
    <3>2. items[1].previous_hash = k + 1 - 1
      BY <2>2, <3>1 DEF Window
    <3>3. items[1].previous_hash = k
      BY <1>1, <3>2
    <3> QED BY <1>1, <2>4, <3>3 DEF GENESIS_HASH
  <2> HIDE DEF items, previous
  <2>5. /\ task'[t].pc = "anchored" /\ task'[t].items = items
        /\ task'[t].previous = previous
    BY <2>1
  <2>6. /\ Window(task'[t].items, k, counter') /\ k \in 0..dropped'
        /\ task'[t].items # <<>> => task'[t].previous = k
    BY <2>1, <2>2, <2>4, <2>5
  <2> QED BY <2>5, <2>6 DEF HoldsWindow, Window
<1>12. ASSUME Verdict(t) PROVE Elsewhere(task'[t])
  BY <1>12 DEF Verdict, Goes, TypeOK
<1>13. ASSUME NEW limit \in 1..maxlen, BeginPage(t, limit) PROVE HoldsWindow(t)'
  <2> DEFINE page == LastOf(events, limit)
  <2>1. task'[t] = [pc |-> "paging", page |-> page] /\ counter' = counter
    BY <1>13 DEF BeginPage, Goes, TypeOK, sinkVars
  <2>2. PICK k \in 0..counter : Window(page, k, counter)
    BY PagesAreWindows
  <2> HIDE DEF page
  <2>3. task'[t].pc = "paging" /\ Window(task'[t].page, k, counter') /\ k \in 0..counter'
    BY <2>1, <2>2
  <2> QED BY <2>3 DEF HoldsWindow, Window
<1>14. ASSUME ReadCount(t) PROVE HoldsWindow(t)'
  <2> DEFINE page == task[t].page
  <2>1. /\ task[t].pc = "paging"
        /\ task'[t] = [pc |-> "counting", page |-> page, total |-> counter]
    BY <1>14 DEF ReadCount, Goes, TypeOK
  <2>2. PICK k \in 0..counter : Window(page, k, counter)
    BY <2>1 DEF HoldsWindow
  <2> HIDE DEF page
  <2>3. /\ task'[t].pc = "counting" /\ Window(task'[t].page, k, task'[t].total)
        /\ k \in 0..task'[t].total
    BY <2>1, <2>2
  <2> QED BY <2>3 DEF HoldsWindow, Window
<1>15. ASSUME ReadDropped(t) PROVE HoldsWindow(t)'
  <2> DEFINE page == task[t].page
             total == task[t].total
  <2>1. /\ task[t].pc = "counting"
        /\ task'[t] = [pc |-> "page", page |-> page, total |-> total, dropped |-> dropped]
    BY <1>15 DEF ReadDropped, Goes, TypeOK
  <2>2. PICK k \in 0..total : Window(page, k, total)
    BY <2>1 DEF HoldsWindow
  <2> HIDE DEF page, total
  <2>3. /\ task'[t].pc = "page" /\ Window(task'[t].page, k, task'[t].total)
        /\ k \in 0..task'[t].total
    BY <2>1, <2>2
  <2> QED BY <2>3 DEF HoldsWindow, Window
<1>16. ASSUME Respond(t) PROVE Elsewhere(task'[t])
  BY <1>16 DEF Respond, Goes, TypeOK, Idle
<1> HIDE DEF Elsewhere
<1> QED BY <1>2, <1>3, <1>4, <1>5, <1>6, <1>7, <1>8, <1>9, <1>10, <1>11, <1>12, <1>13, <1>14,
           <1>15, <1>16 DEF Request

LEMMA ReadersStep ==
  ASSUME TypeOK, NeverIdleToEmit, Chained, ReadersHoldWindows, [Next]_vars
  PROVE  ReadersHoldWindows'
<1>1. dropped' \in Nat /\ counter' \in Nat /\ dropped' >= dropped /\ counter' >= counter
  BY ChainStep
<1>2. ASSUME NEW t \in Threads, NEW u \in Threads, Request(t) PROVE HoldsWindow(u)'
  <2>1. HoldsWindow(u) /\ HoldsWindow(t)
    BY DEF ReadersHoldWindows
  <2>2. CASE u = t
    <3>1. HoldsWindow(t)'
      BY <1>2, <2>1, MoverHolds
    <3> QED BY <2>2, <3>1
  <2>3. CASE u # t
    <3>1. task'[u] = task[u]
      BY <1>2, <2>3, OneThread
    <3> QED BY <1>1, <2>1, <3>1, StillHolds
  <2> QED BY <2>2, <2>3
<1>3. ASSUME UNCHANGED task, NEW u \in Threads PROVE HoldsWindow(u)'
  BY <1>1, <1>3, StillHolds DEF ReadersHoldWindows
<1> QED BY <1>2, <1>3 DEF Next, Alter, vars, ReadersHoldWindows

-----------------------------------------------------------------------------
\* Nothing happens to the ids in use, and no event that is owed is forgotten.
LEMMA EvidenceKept ==
  ASSUME NoClash, IdsTakenOnce, StoredReported,
         UNCHANGED <<history, next_evidence, media_store>>,
         \A u \in Threads : Pending(u)' = Pending(u) /\ Taken(u)' = Taken(u),
         ToEmit \subseteq ToEmit'
  PROVE  NoClash' /\ IdsTakenOnce' /\ StoredReported'
<1>1. NoClash'
  BY DEF NoClash, Clash
<1>2. IdsTakenOnce'
  BY DEF IdsTakenOnce
<1>3. Emitted' = Emitted
  BY DEF Emitted
<1>4. StoredReported'
  BY <1>3 DEF StoredReported, Reported
<1> QED BY <1>1, <1>2, <1>4

\* Such is a step of a thread that neither holds a finding nor comes to hold one, and
\* owes what it owed.
LEMMA GoesKeepsEvidence ==
  ASSUME TypeOK, NoClash, IdsTakenOnce, StoredReported,
         NEW t \in Threads, NEW to, Goes(t, to), task[t].pc # "storing", to.pc # "storing",
         (IF to.pc \in {"scoring", "emitting", "writing"} THEN to.todo ELSE <<>>) = Pending(t),
         task[t].pc \in {"emitting", "writing"} => to.pc \in {"emitting", "writing"}
  PROVE  NoClash' /\ IdsTakenOnce' /\ StoredReported'
<1>1. /\ \A u \in Threads : task'[u] = IF u = t THEN to ELSE task[u]
      /\ UNCHANGED <<history, next_evidence, media_store>>
  BY DEF TypeOK, Goes, sinkVars
<1>2. ASSUME NEW u \in Threads
      PROVE  Pending(u)' = Pending(u) /\ Taken(u)' = Taken(u)
  BY <1>1 DEF Pending, Taken
<1>3. ASSUME NEW u \in Threads, task[u].pc \in {"emitting", "writing"}
      PROVE  task'[u].pc \in {"emitting", "writing"} /\ task'[u].todo = task[u].todo
  BY <1>1, <1>3 DEF Pending
<1>4. ToEmit \subseteq ToEmit'
  BY <1>3 DEF ToEmit
<1> QED BY <1>1, <1>2, <1>4, EvidenceKept

\* An id is taken for a finding.
LEMMA AnalyzeKeepsEvidence ==
  ASSUME TypeOK, NoClash, IdsTakenOnce, StoredReported, NEW t \in Threads,
         NEW id \in EntityIds, NEW article \in Articles, NEW reading \in Readings(article),
         Analyze(t, id, article, reading)
  PROVE  NoClash' /\ IdsTakenOnce' /\ StoredReported'
<1>1. /\ task[t].pc = "idle" /\ task'[t].pc = "storing"
      /\ task'[t].finding.evidence_id = next_evidence
      /\ \A u \in Threads : u # t => task'[u] = task[u]
      /\ next_evidence \in Nat /\ next_evidence' = next_evidence + 1
      /\ UNCHANGED <<history, media_store>>
  BY DEF Analyze, Advanced, TypeOK, sinkVars
<1>2. /\ \A u \in Threads : Pending(u)' = Pending(u)
      /\ \A u \in Threads : u # t => Taken(u)' = Taken(u)
      /\ Taken(t) = {} /\ Taken(t)' = {next_evidence}
  BY <1>1 DEF Pending, Taken
<1>3. /\ \A i \in DOMAIN history : history[i].evidence_id \in Nat
      /\ \A u \in Threads :
           /\ \A i \in DOMAIN Pending(u) : Pending(u)[i].evidence_id \in Nat
           /\ \A e \in Taken(u) : e \in Nat
  <2>1. \A i \in DOMAIN history : history[i] \in Event
    BY DEF TypeOK
  <2>2. ASSUME NEW u \in Threads PROVE Pending(u) \in Seq(Entry) /\ Taken(u) \subseteq Nat
    BY TaskShapes, EmptySeq DEF TypeOK, Pending, Taken, Finding
  <2>3. \A u \in Threads : \A i \in DOMAIN Pending(u) : Pending(u)[i] \in Entry
    BY <2>2
  <2> QED BY <2>1, <2>2, <2>3 DEF Event, Entry
<1>4. NoClash'
  BY <1>1, <1>2 DEF NoClash, Clash
<1>5. IdsTakenOnce'
  <2>1. \A i \in DOMAIN history' : /\ history'[i].evidence_id < next_evidence'
                                   /\ history'[i].evidence_id # next_evidence
    BY <1>1, <1>3 DEF IdsTakenOnce
  <2>2. ASSUME NEW u \in Threads, NEW i \in DOMAIN Pending(u)'
        PROVE  /\ Pending(u)'[i].evidence_id < next_evidence'
               /\ Pending(u)'[i].evidence_id # next_evidence
    BY <1>1, <1>2, <1>3 DEF IdsTakenOnce
  <2>3. ASSUME NEW u \in Threads, NEW e \in Taken(u)
        PROVE  /\ e < next_evidence' /\ e # next_evidence
               /\ \A i \in DOMAIN history : history[i].evidence_id # e
               /\ \A v \in Threads : /\ \A i \in DOMAIN Pending(v) : Pending(v)[i].evidence_id # e
                                     /\ e \in Taken(v) => u = v
    BY <1>1, <1>3 DEF IdsTakenOnce
  <2> QED BY <1>1, <1>2, <2>1, <2>2, <2>3 DEF IdsTakenOnce
<1>6. ToEmit \subseteq ToEmit' /\ Emitted' = Emitted
  <2>1. \A u \in Threads : task[u].pc \in {"emitting", "writing"} => task'[u] = task[u]
    BY <1>1
  <2> QED BY <1>1, <2>1 DEF ToEmit, Emitted
<1>7. StoredReported'
  BY <1>1, <1>6 DEF StoredReported, Reported
<1> QED BY <1>4, <1>5, <1>7

\* The finding's id passes to the events that report it.
LEMMA StoreKeepsEvidence ==
  ASSUME TypeOK, NoClash, IdsTakenOnce, StoredReported, NEW t \in Threads, StoreFinding(t)
  PROVE  NoClash' /\ IdsTakenOnce' /\ StoredReported'
<1>0. task[t].pc = "storing" /\ task[t].finding \in Finding
  BY TaskShapes DEF StoreFinding, TypeOK
<1> PICK finding \in Finding : finding = task[t].finding
  BY <1>0
<1> DEFINE id == finding.evidence_id
           report == ReportOf(finding)
<1>1. /\ task[t].pc = "storing" /\ finding.entity_id \in EntityIds
      /\ task[t].finding = finding
  BY <1>0 DEF Finding
<1>2. /\ report \in Seq(Entry)
      /\ Len(report) = IF finding.injection_attempt_detected THEN 2 ELSE 1
      /\ report[1] = [action |-> "ADVERSE_MEDIA_AGENT_RUN", evidence_id |-> id]
      /\ finding.injection_attempt_detected =>
           report[2] = [action |-> "PROMPT_INJECTION_DETECTED", evidence_id |-> id]
  BY <1>1, ReportProperties
<1>3. /\ task'[t] = [pc |-> "emitting", todo |-> report]
      /\ \A u \in Threads : u # t => task'[u] = task[u]
      /\ media_store' = [media_store EXCEPT ![finding.entity_id] = Append(@, finding)]
      /\ UNCHANGED <<history, next_evidence>>
  BY DEF StoreFinding, TypeOK, sinkVars
<1> HIDE DEF id, report
<1>4. /\ Pending(t) = <<>> /\ Taken(t) = {id} /\ Pending(t)' = report /\ Taken(t)' = {}
      /\ \A u \in Threads : u # t => Pending(u)' = Pending(u) /\ Taken(u)' = Taken(u)
  <2>1. task'[t].pc = "emitting" /\ task'[t].todo = report
    BY <1>3
  <2>2. Pending(t)' = report /\ Taken(t)' = {}
    BY <2>1 DEF Pending, Taken
  <2>3. Pending(t) = <<>> /\ Taken(t) = {id}
    BY <1>1 DEF Pending, Taken, id
  <2>4. \A u \in Threads : u # t => Pending(u)' = Pending(u) /\ Taken(u)' = Taken(u)
    BY <1>3 DEF Pending, Taken
  <2> QED BY <2>2, <2>3, <2>4
<1>5. /\ DOMAIN report \subseteq {1, 2} /\ 1 \in DOMAIN report
      /\ finding.injection_attempt_detected => 2 \in DOMAIN report
      /\ 2 \in DOMAIN report => finding.injection_attempt_detected
      /\ \A i \in DOMAIN report :
           report[i].evidence_id = id /\ report[i].action # "ENTITY_MATCH_CALCULATED"
      /\ \A i, j \in DOMAIN report : report[i].action = report[j].action => i = j
  <2>1. DOMAIN report = 1..Len(report)
    BY <1>2, LenProperties
  <2>2. CASE finding.injection_attempt_detected
    <3>1. DOMAIN report = {1, 2}
      BY <1>2, <2>1, <2>2
    <3> QED BY <1>2, <2>2, <3>1
  <2>3. CASE ~finding.injection_attempt_detected
    <3>1. DOMAIN report = {1}
      BY <1>2, <2>1, <2>3
    <3> QED BY <1>2, <2>3, <3>1
  <2> QED BY <2>2, <2>3
<1>6. /\ id < next_evidence
      /\ \A i \in DOMAIN history : history[i].evidence_id # id
      /\ \A u \in Threads : /\ \A i \in DOMAIN Pending(u) : Pending(u)[i].evidence_id # id
                            /\ id \in Taken(u) => t = u
  BY <1>4 DEF IdsTakenOnce
<1>7. NoClash'
  <2>1. \A i, j \in DOMAIN history' : Clash(history'[i], history'[j]) => i = j
    BY <1>3 DEF NoClash
  <2>2. ASSUME NEW u \in Threads, NEW i \in DOMAIN Pending(u)'
        PROVE  /\ \A j \in DOMAIN history' : ~Clash(history'[j], Pending(u)'[i])
               /\ \A v \in Threads : \A j \in DOMAIN Pending(v)' :
                    Clash(Pending(u)'[i], Pending(v)'[j]) => u = v /\ i = j
    <3>1. CASE u = t
      <4>1. \A j \in DOMAIN history' : ~Clash(history'[j], Pending(u)'[i])
        BY <1>3, <1>4, <1>5, <1>6, <3>1 DEF Clash
      <4>2. ASSUME NEW v \in Threads, NEW j \in DOMAIN Pending(v)',
                   Clash(Pending(u)'[i], Pending(v)'[j])
            PROVE  u = v /\ i = j
        <5>1. CASE v = t
          BY <1>4, <1>5, <3>1, <4>2, <5>1 DEF Clash
        <5>2. CASE v # t
          BY <1>4, <1>5, <1>6, <3>1, <4>2, <5>2 DEF Clash
        <5> QED BY <5>1, <5>2
      <4> QED BY <4>1, <4>2
    <3>2. CASE u # t
      <4>1. \A j \in DOMAIN history' : ~Clash(history'[j], Pending(u)'[i])
        BY <1>3, <1>4, <3>2 DEF NoClash
      <4>2. ASSUME NEW v \in Threads, NEW j \in DOMAIN Pending(v)',
                   Clash(Pending(u)'[i], Pending(v)'[j])
            PROVE  u = v /\ i = j
        <5>1. CASE v = t
          BY <1>4, <1>5, <1>6, <3>2, <4>2, <5>1 DEF Clash
        <5>2. CASE v # t
          BY <1>4, <3>2, <4>2, <5>2 DEF NoClash
        <5> QED BY <5>1, <5>2
      <4> QED BY <4>1, <4>2
    <3> QED BY <3>1, <3>2
  <2> QED BY <2>1, <2>2 DEF NoClash, Clash
<1>8. IdsTakenOnce'
  <2>1. \A i \in DOMAIN history' : history'[i].evidence_id < next_evidence'
    BY <1>3 DEF IdsTakenOnce
  <2>2. ASSUME NEW u \in Threads, NEW i \in DOMAIN Pending(u)'
        PROVE  Pending(u)'[i].evidence_id < next_evidence'
    BY <1>3, <1>4, <1>5, <1>6 DEF IdsTakenOnce
  <2>3. ASSUME NEW u \in Threads, NEW e \in Taken(u)'
        PROVE  /\ e < next_evidence'
               /\ \A i \in DOMAIN history' : history'[i].evidence_id # e
               /\ \A v \in Threads :
                    /\ \A i \in DOMAIN Pending(v)' : Pending(v)'[i].evidence_id # e
                    /\ e \in Taken(v)' => u = v
    <3>1. u # t /\ e \in Taken(u) /\ e # id
      BY <1>4, <1>6
    <3>2. ASSUME NEW v \in Threads
          PROVE  /\ \A i \in DOMAIN Pending(v)' : Pending(v)'[i].evidence_id # e
                 /\ e \in Taken(v)' => u = v
      BY <1>4, <1>5, <3>1 DEF IdsTakenOnce
    <3> QED BY <1>3, <3>1, <3>2 DEF IdsTakenOnce
  <2> QED BY <2>1, <2>2, <2>3 DEF IdsTakenOnce
<1>9. Emitted' = Emitted /\ ToEmit \subseteq ToEmit'
  <2>1. \A u \in Threads : task[u].pc \in {"emitting", "writing"} => task'[u] = task[u]
    BY <1>1, <1>3
  <2> QED BY <1>3, <2>1 DEF ToEmit, Emitted
<1>10. \A i \in DOMAIN report : report[i] \in ToEmit'
  <2>1. task'[t].pc = "emitting" /\ task'[t].todo = report
    BY <1>3
  <2> QED BY <2>1 DEF ToEmit
<1>11. Reported(finding)'
  BY <1>2, <1>5, <1>10 DEF Reported, id
<1>12. StoredReported'
  <2> SUFFICES ASSUME NEW e \in EntityIds, NEW i \in DOMAIN media_store'[e],
                      NEW f, f = media_store'[e][i]
               PROVE  Reported(f)'
    BY DEF StoredReported, Reported
  <2>1. CASE i \in DOMAIN media_store[e] /\ f = media_store[e][i]
    BY <1>9, <2>1 DEF StoredReported, Reported
  <2>2. CASE f = finding
    BY <1>11, <2>2
  <2>3. CASE e # finding.entity_id
    BY <1>1, <1>3, <2>1, <2>3 DEF TypeOK
  <2>4. CASE e = finding.entity_id
    <3>1. media_store'[e] = Append(media_store[e], finding) /\ media_store[e] \in Seq(Finding)
      BY <1>1, <1>3, <2>4 DEF TypeOK
    <3>2. /\ DOMAIN media_store'[e] = 1..(Len(media_store[e]) + 1)
          /\ DOMAIN media_store[e] = 1..Len(media_store[e]) /\ Len(media_store[e]) \in Nat
          /\ \A k \in 1..Len(media_store[e]) : media_store'[e][k] = media_store[e][k]
          /\ media_store'[e][Len(media_store[e]) + 1] = finding
      BY <1>1, <3>1, AppendProperties, LenProperties
    <3>3. i \in 1..Len(media_store[e]) \/ i = Len(media_store[e]) + 1
      BY <3>2
    <3> QED BY <2>1, <2>2, <3>2, <3>3
  <2> QED BY <2>3, <2>4
<1> QED BY <1>7, <1>8, <1>12

\* An id is taken for a candidate, who may be reported.
LEMMA ScoreKeepsEvidence ==
  ASSUME TypeOK, NoClash, IdsTakenOnce, StoredReported, NEW t \in Threads,
         NEW returned \in BOOLEAN, Score(t, returned)
  PROVE  NoClash' /\ IdsTakenOnce' /\ StoredReported'
<1> PICK match : match = [action |-> "ENTITY_MATCH_CALCULATED", evidence_id |-> next_evidence]
  OBVIOUS
<1> DEFINE todo == IF returned THEN Append(task[t].todo, match) ELSE task[t].todo
<1>0. task[t].pc = "scoring" /\ task[t].todo \in Seq(Entry)
  BY TaskShapes DEF Score, TypeOK
<1>1. /\ task'[t] = [pc |-> "scoring", scored |-> task[t].scored + 1, todo |-> todo]
      /\ \A u \in Threads : u # t => task'[u] = task[u]
      /\ next_evidence \in Nat /\ next_evidence' = next_evidence + 1
      /\ UNCHANGED <<history, media_store>>
  BY DEF Score, Advanced, TypeOK, sinkVars
<1>2. match \in Entry /\ match.evidence_id = next_evidence
  BY <1>1 DEF Entry, Actions
<1>3. /\ todo \in Seq(Entry) /\ DOMAIN task[t].todo \subseteq DOMAIN todo
      /\ \A i \in DOMAIN task[t].todo : todo[i] = task[t].todo[i]
      /\ \A i, j \in DOMAIN todo :
           i \notin DOMAIN task[t].todo =>
             todo[i] = match /\ (j \notin DOMAIN task[t].todo => j = i)
  <2>1. CASE returned
    <3>1. /\ todo \in Seq(Entry) /\ Len(todo) = Len(task[t].todo) + 1
          /\ \A i \in 1..Len(task[t].todo) : todo[i] = task[t].todo[i]
          /\ todo[Len(task[t].todo) + 1] = match
      BY <1>0, <1>2, <2>1, AppendProperties
    <3> HIDE DEF todo
    <3>2. /\ DOMAIN todo = 1..Len(todo) /\ DOMAIN task[t].todo = 1..Len(task[t].todo)
          /\ Len(task[t].todo) \in Nat
      BY <1>0, <3>1, LenProperties
    <3> QED BY <3>1, <3>2
  <2>2. CASE ~returned
    BY <1>0, <2>2
  <2> QED BY <2>1, <2>2
<1> HIDE DEF todo
<1>4. task'[t].pc = "scoring" /\ task'[t].todo = todo
  BY <1>1
<1>5. /\ Pending(t) = task[t].todo /\ Pending(t)' = todo
      /\ \A u \in Threads : u # t => Pending(u)' = Pending(u)
      /\ \A u \in Threads : Taken(u)' = Taken(u)
  BY <1>0, <1>1, <1>4 DEF Pending, Taken
<1>6. /\ \A i \in DOMAIN history : history[i].evidence_id \in Nat
      /\ \A u \in Threads :
           /\ \A i \in DOMAIN Pending(u) : Pending(u)[i].evidence_id \in Nat
           /\ \A e \in Taken(u) : e \in Nat
  <2>1. \A i \in DOMAIN history : history[i] \in Event
    BY DEF TypeOK
  <2>2. ASSUME NEW u \in Threads PROVE Pending(u) \in Seq(Entry) /\ Taken(u) \subseteq Nat
    BY TaskShapes, EmptySeq DEF TypeOK, Pending, Taken, Finding
  <2>3. \A u \in Threads : \A i \in DOMAIN Pending(u) : Pending(u)[i] \in Entry
    BY <2>2
  <2> QED BY <2>1, <2>2, <2>3 DEF Event, Entry
<1>7. ASSUME NEW u \in Threads, NEW i \in DOMAIN Pending(u)'
      PROVE  \/ i \in DOMAIN Pending(u) /\ Pending(u)'[i] = Pending(u)[i]
             \/ u = t /\ i \notin DOMAIN Pending(u) /\ Pending(u)'[i] = match
  BY <1>3, <1>5
<1>8. /\ \A i \in DOMAIN history : history[i].evidence_id # next_evidence
      /\ \A u \in Threads :
           /\ \A i \in DOMAIN Pending(u) : Pending(u)[i].evidence_id # next_evidence
           /\ \A e \in Taken(u) : e # next_evidence
  BY <1>1, <1>6 DEF IdsTakenOnce
<1>9. NoClash'
  <2>1. \A i, j \in DOMAIN history' : Clash(history'[i], history'[j]) => i = j
    BY <1>1 DEF NoClash
  <2>2. ASSUME NEW u \in Threads, NEW i \in DOMAIN Pending(u)'
        PROVE  \A j \in DOMAIN history' : ~Clash(history'[j], Pending(u)'[i])
    BY <1>1, <1>2, <1>7, <1>8 DEF NoClash, Clash
  <2>3. ASSUME NEW u \in Threads, NEW i \in DOMAIN Pending(u)',
               NEW v \in Threads, NEW j \in DOMAIN Pending(v)',
               Clash(Pending(u)'[i], Pending(v)'[j])
        PROVE  u = v /\ i = j
    <3>1. CASE i \in DOMAIN Pending(u) /\ Pending(u)'[i] = Pending(u)[i]
      <4>1. CASE j \in DOMAIN Pending(v) /\ Pending(v)'[j] = Pending(v)[j]
        BY <2>3, <3>1, <4>1 DEF NoClash
      <4>2. CASE Pending(v)'[j] = match
        BY <1>2, <1>8, <2>3, <3>1, <4>2 DEF Clash
      <4> QED BY <1>7, <4>1, <4>2
    <3>2. CASE u = t /\ i \notin DOMAIN Pending(u) /\ Pending(u)'[i] = match
      <4>1. CASE j \in DOMAIN Pending(v) /\ Pending(v)'[j] = Pending(v)[j]
        BY <1>2, <1>8, <2>3, <3>2, <4>1 DEF Clash
      <4>2. CASE v = t /\ j \notin DOMAIN Pending(v)
        BY <1>3, <1>5, <3>2, <4>2
      <4> QED BY <1>7, <4>1, <4>2
    <3> QED BY <1>7, <3>1, <3>2
  <2> QED BY <2>1, <2>2, <2>3 DEF NoClash, Clash
<1>10. IdsTakenOnce'
  <2>1. \A i \in DOMAIN history' : history'[i].evidence_id < next_evidence'
    BY <1>1, <1>6 DEF IdsTakenOnce
  <2>2. ASSUME NEW u \in Threads, NEW i \in DOMAIN Pending(u)'
        PROVE  Pending(u)'[i].evidence_id < next_evidence'
    BY <1>1, <1>2, <1>6, <1>7 DEF IdsTakenOnce
  <2>3. ASSUME NEW u \in Threads, NEW e \in Taken(u)'
        PROVE  /\ e < next_evidence'
               /\ \A i \in DOMAIN history' : history'[i].evidence_id # e
               /\ \A v \in Threads :
                    /\ \A i \in DOMAIN Pending(v)' : Pending(v)'[i].evidence_id # e
                    /\ e \in Taken(v)' => u = v
    <3>1. e \in Taken(u) /\ e # next_evidence /\ e \in Nat
      BY <1>5, <1>6, <1>8
    <3>2. ASSUME NEW v \in Threads
          PROVE  /\ \A i \in DOMAIN Pending(v)' : Pending(v)'[i].evidence_id # e
                 /\ e \in Taken(v)' => u = v
      BY <1>2, <1>5, <1>7, <3>1 DEF IdsTakenOnce
    <3>3. e < next_evidence'
      BY <1>1, <3>1 DEF IdsTakenOnce
    <3> QED BY <1>1, <3>1, <3>2, <3>3 DEF IdsTakenOnce
  <2> QED BY <2>1, <2>2, <2>3 DEF IdsTakenOnce
<1>11. Emitted' = Emitted /\ ToEmit \subseteq ToEmit'
  <2>1. \A u \in Threads : task[u].pc \in {"emitting", "writing"} => task'[u] = task[u]
    BY <1>0, <1>1
  <2> QED BY <1>1, <2>1 DEF ToEmit, Emitted
<1>12. StoredReported'
  BY <1>1, <1>11 DEF StoredReported, Reported
<1> QED BY <1>9, <1>10, <1>12

\* An event that was owed is in the log.
LEMMA WriteKeepsEvidence ==
  ASSUME TypeOK, NeverIdleToEmit, NoClash, IdsTakenOnce, StoredReported,
         NEW t \in Threads, Write(t)
  PROVE  NoClash' /\ IdsTakenOnce' /\ StoredReported'
<1> PICK todo : todo = task[t].todo
  OBVIOUS
<1> PICK e : e = Written(t)
  OBVIOUS
<1> PICK n : n = Len(history) + 1
  OBVIOUS
<1>1. /\ task[t].pc = "writing" /\ todo \in Seq(Entry) /\ todo # <<>> /\ Len(todo) >= 1
      /\ Head(todo) = todo[1] /\ task[t].todo = todo
      /\ e \in Event /\ e.action = todo[1].action /\ e.evidence_id = todo[1].evidence_id
      /\ history' = Append(history, e)
      /\ UNCHANGED <<media_store, next_evidence>>
  BY WriteProperties DEF Write, Written
<1>2. /\ history \in Seq(Event) /\ n \in Nat
      /\ DOMAIN history' = DOMAIN history \cup {n} /\ n \notin DOMAIN history
      /\ \A i \in DOMAIN history : history'[i] = history[i]
      /\ history'[n] = e
  <2>1. history \in Seq(Event) /\ DOMAIN history = 1..Len(history) /\ Len(history) \in Nat
    BY LenProperties DEF TypeOK
  <2>2. /\ Append(history, e) \in Seq(Event) /\ Len(Append(history, e)) = n
        /\ \A i \in 1..Len(history) : Append(history, e)[i] = history[i]
        /\ Append(history, e)[n] = e
    BY <1>1, <2>1, AppendProperties
  <2>3. DOMAIN Append(history, e) = 1..n
    BY <2>2, LenProperties
  <2> QED BY <1>1, <2>1, <2>2, <2>3
<1>3. /\ \A u \in Threads : u # t => task'[u] = task[u]
      /\ task'[t] = AfterWriting(t)
  BY WriteProperties DEF TypeOK
<1>4. /\ Pending(t) = todo
      /\ \A u \in Threads : u # t => Pending(u)' = Pending(u)
      /\ \A u \in Threads : Taken(u)' = Taken(u)
      /\ Pending(t)' = IF Len(todo) = 1 THEN <<>> ELSE Tail(todo)
  <2>1. Len(todo) = 1 => task'[t] = Idle
    BY <1>1, <1>3 DEF AfterWriting
  <2>2. Len(todo) # 1 => task'[t] = [pc |-> "emitting", todo |-> Tail(todo)]
    BY <1>1, <1>3 DEF AfterWriting
  <2>3. Pending(t) = todo /\ Taken(t) = {}
    BY <1>1 DEF Pending, Taken
  <2>4. Taken(t)' = {} /\ Pending(t)' = IF Len(todo) = 1 THEN <<>> ELSE Tail(todo)
    <3>1. CASE Len(todo) = 1
      BY <2>1, <3>1 DEF Pending, Taken, Idle
    <3>2. CASE Len(todo) # 1
      <4> DEFINE rest == Tail(todo)
      <4>0. task'[t] = [pc |-> "emitting", todo |-> rest]
        BY <2>2, <3>2
      <4> HIDE DEF rest
      <4>1. task'[t].pc = "emitting" /\ task'[t].todo = rest
        BY <4>0
      <4> QED BY <3>2, <4>1 DEF Pending, Taken, rest
    <3> QED BY <3>1, <3>2
  <2>5. \A u \in Threads : u # t => Pending(u)' = Pending(u) /\ Taken(u)' = Taken(u)
    BY <1>3 DEF Pending, Taken
  <2> QED BY <2>3, <2>4, <2>5
<1>5. /\ DOMAIN todo = 1..Len(todo) /\ Len(todo) \in Nat
      /\ \A i \in DOMAIN Pending(t)' :
           i \in Nat /\ i + 1 \in DOMAIN todo /\ i + 1 # 1 /\ Pending(t)'[i] = todo[i + 1]
      /\ \A i \in DOMAIN todo : i = 1 \/ (i - 1 \in DOMAIN Pending(t)' /\ i - 1 + 1 = i)
  <2>1. DOMAIN todo = 1..Len(todo) /\ Len(todo) \in Nat
    BY <1>1, LenProperties
  <2>2. CASE Len(todo) = 1
    BY <1>4, <2>1, <2>2
  <2>3. CASE Len(todo) # 1
    <3>1. /\ Tail(todo) \in Seq(Entry) /\ Len(Tail(todo)) = Len(todo) - 1
          /\ \A i \in 1..Len(Tail(todo)) : Tail(todo)[i] = todo[i + 1]
      BY <1>1, HeadTailProperties
    <3>2. DOMAIN Tail(todo) = 1..(Len(todo) - 1)
      BY <3>1, LenProperties
    <3> QED BY <1>4, <2>1, <2>3, <3>1, <3>2
  <2> QED BY <2>1, <2>2, <2>3
<1>6. 1 \in DOMAIN Pending(t)
  BY <1>1, <1>4, <1>5
<1>7. ASSUME NEW u \in Threads, NEW i \in DOMAIN Pending(u)'
      PROVE  \E k \in DOMAIN Pending(u) :
               /\ Pending(u)'[i] = Pending(u)[k]
               /\ u = t => k = i + 1 /\ k # 1 /\ i \in Nat
               /\ u # t => k = i
  <2>1. CASE u = t
    <3>1. i \in Nat /\ i + 1 \in DOMAIN Pending(u) /\ i + 1 # 1 /\ Pending(u)'[i] = Pending(u)[i + 1]
      BY <1>4, <1>5, <2>1
    <3> QED BY <2>1, <3>1
  <2>2. CASE u # t
    BY <1>4, <2>2
  <2> QED BY <2>1, <2>2
<1>8. NoClash'
  <2>1. ASSUME NEW i \in DOMAIN history', NEW j \in DOMAIN history',
               Clash(history'[i], history'[j])
        PROVE  i = j
    <3>1. CASE i \in DOMAIN history /\ j \in DOMAIN history
      BY <1>2, <2>1, <3>1 DEF NoClash
    <3>2. CASE i = n /\ j \in DOMAIN history
      BY <1>1, <1>2, <1>4, <1>6, <2>1, <3>2 DEF NoClash, Clash
    <3>3. CASE i \in DOMAIN history /\ j = n
      BY <1>1, <1>2, <1>4, <1>6, <2>1, <3>3 DEF NoClash, Clash
    <3> QED BY <1>2, <3>1, <3>2, <3>3
  <2>2. ASSUME NEW u \in Threads, NEW i \in DOMAIN Pending(u)', NEW j \in DOMAIN history'
        PROVE  ~Clash(history'[j], Pending(u)'[i])
    <3>1. PICK k \in DOMAIN Pending(u) :
            /\ Pending(u)'[i] = Pending(u)[k]
            /\ u = t => k # 1
      BY <1>7
    <3>2. CASE j \in DOMAIN history
      BY <1>2, <3>1, <3>2 DEF NoClash
    <3>3. CASE j = n
      <4>1. ~Clash(Pending(t)[1], Pending(u)[k])
        BY <1>6, <3>1 DEF NoClash
      <4> QED BY <1>1, <1>2, <1>4, <3>1, <3>3, <4>1 DEF Clash
    <3> QED BY <1>2, <3>2, <3>3
  <2>3. ASSUME NEW u \in Threads, NEW i \in DOMAIN Pending(u)',
               NEW v \in Threads, NEW j \in DOMAIN Pending(v)',
               Clash(Pending(u)'[i], Pending(v)'[j])
        PROVE  u = v /\ i = j
    <3>1. PICK k \in DOMAIN Pending(u) :
            /\ Pending(u)'[i] = Pending(u)[k]
            /\ u = t => k = i + 1 /\ k # 1 /\ i \in Nat
            /\ u # t => k = i
      BY <1>7
    <3>2. PICK l \in DOMAIN Pending(v) :
            /\ Pending(v)'[j] = Pending(v)[l]
            /\ v = t => l = j + 1 /\ l # 1 /\ j \in Nat
            /\ v # t => l = j
      BY <1>7
    <3>3. u = v /\ k = l
      BY <2>3, <3>1, <3>2 DEF NoClash
    <3> QED BY <3>1, <3>2, <3>3
  <2> QED BY <2>1, <2>2, <2>3 DEF NoClash, Clash
<1>9. IdsTakenOnce'
  <2>1. \A i \in DOMAIN history' : history'[i].evidence_id < next_evidence'
    BY <1>1, <1>2, <1>4, <1>6 DEF IdsTakenOnce
  <2>2. \A u \in Threads : \A i \in DOMAIN Pending(u)' :
          Pending(u)'[i].evidence_id < next_evidence'
    BY <1>1, <1>7 DEF IdsTakenOnce
  <2>3. ASSUME NEW u \in Threads, NEW id \in Taken(u)'
        PROVE  /\ id < next_evidence'
               /\ \A i \in DOMAIN history' : history'[i].evidence_id # id
               /\ \A v \in Threads :
                    /\ \A i \in DOMAIN Pending(v)' : Pending(v)'[i].evidence_id # id
                    /\ id \in Taken(v)' => u = v
    <3>1. id \in Taken(u)
      BY <1>4
    <3>2. \A i \in DOMAIN history' : history'[i].evidence_id # id
      BY <1>1, <1>2, <1>4, <1>6, <3>1 DEF IdsTakenOnce
    <3>3. ASSUME NEW v \in Threads
          PROVE  /\ \A i \in DOMAIN Pending(v)' : Pending(v)'[i].evidence_id # id
                 /\ id \in Taken(v)' => u = v
      BY <1>4, <1>7, <3>1 DEF IdsTakenOnce
    <3> QED BY <1>1, <3>1, <3>2, <3>3 DEF IdsTakenOnce
  <2> QED BY <2>1, <2>2, <2>3 DEF IdsTakenOnce
<1>10. Emitted \subseteq Emitted'
  BY <1>2 DEF Emitted
<1>11. todo[1] \in Emitted'
  <2>1. todo[1] \in Entry
    BY <1>1, <1>5
  <2>2. todo[1] = [action |-> todo[1].action, evidence_id |-> todo[1].evidence_id]
    BY <2>1 DEF Entry
  <2>3. [action |-> history'[n].action, evidence_id |-> history'[n].evidence_id] \in Emitted'
    BY <1>2 DEF Emitted
  <2> QED BY <1>1, <1>2, <2>2, <2>3
<1>12. ASSUME NEW x \in ToEmit PROVE x \in Emitted' \cup ToEmit'
  <2>1. PICK u \in Threads : /\ task[u].pc \in {"emitting", "writing"}
                             /\ \E i \in DOMAIN task[u].todo : x = task[u].todo[i]
    BY DEF ToEmit
  <2>2. CASE u # t
    <3>1. task'[u] = task[u]
      BY <1>3, <2>2
    <3> QED BY <2>1, <3>1 DEF ToEmit
  <2>3. CASE u = t
    <3>1. PICK i \in DOMAIN todo : x = todo[i]
      BY <1>1, <2>1, <2>3
    <3>2. CASE i = 1
      BY <1>11, <3>1, <3>2
    <3>3. CASE i # 1
      <4>1. /\ i - 1 \in DOMAIN Pending(t)' /\ Pending(t)'[i - 1] = x
        BY <1>5, <3>1, <3>3
      <4>2. task'[t] = [pc |-> "emitting", todo |-> Tail(todo)]
        BY <1>1, <1>3, <1>5, <3>1, <3>3 DEF AfterWriting
      <4>3. task'[t].pc = "emitting" /\ task'[t].todo = Pending(t)'
        BY <4>2 DEF Pending
      <4> QED BY <4>1, <4>3 DEF ToEmit
    <3> QED BY <3>2, <3>3
  <2> QED BY <2>2, <2>3
<1>13. Emitted \cup ToEmit \subseteq Emitted' \cup ToEmit'
  BY <1>10, <1>12
<1>14. StoredReported'
  BY <1>1, <1>13 DEF StoredReported, Reported
<1> QED BY <1>8, <1>9, <1>14

\* The evidence of every step.
LEMMA EvidenceStep ==
  ASSUME TypeOK, NeverIdleToEmit, NoClash, IdsTakenOnce, StoredReported, [Next]_vars
  PROVE  NoClash' /\ IdsTakenOnce' /\ StoredReported'
<1> DEFINE Kept == NoClash' /\ IdsTakenOnce' /\ StoredReported'
<1>1. ASSUME NEW t \in Threads, NEW id \in EntityIds, NEW article \in Articles,
             NEW reading \in Readings(article), Analyze(t, id, article, reading)
      PROVE  Kept
  BY <1>1, AnalyzeKeepsEvidence
<1>2. ASSUME NEW t \in Threads, StoreFinding(t) PROVE Kept
  BY <1>2, StoreKeepsEvidence
<1>3. ASSUME NEW t \in Threads, NEW returned \in BOOLEAN, Score(t, returned) PROVE Kept
  BY <1>3, ScoreKeepsEvidence
<1>4. ASSUME NEW t \in Threads, Write(t) PROVE Kept
  BY <1>4, WriteKeepsEvidence
<1>5. ASSUME NEW t \in Threads, Rank(t) PROVE Kept
  <2>1. CASE task[t].todo = <<>>
    <3>1. /\ Goes(t, Idle) /\ Idle.pc = "idle" /\ task[t].pc = "scoring" /\ Pending(t) = <<>>
      BY <1>5, <2>1 DEF Rank, Idle, Pending
    <3> QED BY <3>1, GoesKeepsEvidence
  <2>2. CASE task[t].todo # <<>>
    <3> PICK to : to = [pc |-> "emitting", todo |-> task[t].todo]
      OBVIOUS
    <3>1. /\ Goes(t, to) /\ to.pc = "emitting" /\ task[t].pc = "scoring"
          /\ to.todo = Pending(t)
      BY <1>5, <2>2 DEF Rank, Pending
    <3> QED BY <3>1, GoesKeepsEvidence
  <2> QED BY <2>1, <2>2
<1>6. ASSUME NEW t \in Threads, NextEventId(t) PROVE Kept
  <2> PICK to : to = [pc |-> "writing", todo |-> task[t].todo, event_id |-> counter + 1]
    OBVIOUS
  <2>1. /\ Goes(t, to) /\ to.pc = "writing" /\ task[t].pc = "emitting"
        /\ to.todo = Pending(t)
    BY <1>6 DEF NextEventId, Pending
  <2> QED BY <2>1, GoesKeepsEvidence
<1>7. ASSUME NEW t \in Threads, NEW to, Goes(t, to),
             task[t].pc \notin {"storing", "scoring", "emitting", "writing"},
             to.pc \notin {"storing", "scoring", "emitting", "writing"}
      PROVE  Kept
  <2>1. Pending(t) = <<>>
    BY <1>7 DEF Pending
  <2> QED BY <1>7, <2>1, GoesKeepsEvidence
<1>8. ASSUME NEW t \in Threads, Screen(t) PROVE Kept
  <2> PICK to : to = [pc |-> "scoring", scored |-> 0, todo |-> <<>>]
    OBVIOUS
  <2>1. /\ Goes(t, to) /\ to.pc = "scoring" /\ task[t].pc = "idle"
        /\ to.todo = <<>> /\ Pending(t) = <<>>
    BY <1>8 DEF Screen, Pending
  <2> QED BY <2>1, GoesKeepsEvidence
<1>9. ASSUME NEW t \in Threads, BeginVerify(t) PROVE Kept
  <2> PICK to : to = [pc |-> "verifying", items |-> events]
    OBVIOUS
  <2>1. Goes(t, to) /\ to.pc = "verifying" /\ task[t].pc = "idle"
    BY <1>9 DEF BeginVerify
  <2> QED BY <2>1, <1>7
<1>10. ASSUME NEW t \in Threads, Anchor(t) PROVE Kept
  <2>1. PICK to : Goes(t, to) /\ to.pc = "anchored" /\ task[t].pc = "verifying"
    BY <1>10 DEF Anchor
  <2> QED BY <2>1, <1>7
<1>11. ASSUME NEW t \in Threads, Verdict(t) PROVE Kept
  <2>1. PICK to : Goes(t, to) /\ to.pc = "verdict" /\ task[t].pc = "anchored"
    BY <1>11 DEF Verdict
  <2> QED BY <2>1, <1>7
<1>12. ASSUME NEW t \in Threads, NEW limit \in 1..maxlen, BeginPage(t, limit) PROVE Kept
  <2>1. PICK to : Goes(t, to) /\ to.pc = "paging" /\ task[t].pc = "idle"
    BY <1>12 DEF BeginPage
  <2> QED BY <2>1, <1>7
<1>13. ASSUME NEW t \in Threads, ReadCount(t) PROVE Kept
  <2>1. PICK to : Goes(t, to) /\ to.pc = "counting" /\ task[t].pc = "paging"
    BY <1>13 DEF ReadCount
  <2> QED BY <2>1, <1>7
<1>14. ASSUME NEW t \in Threads, ReadDropped(t) PROVE Kept
  <2>1. PICK to : Goes(t, to) /\ to.pc = "page" /\ task[t].pc = "counting"
    BY <1>14 DEF ReadDropped
  <2> QED BY <2>1, <1>7
<1>15. ASSUME NEW t \in Threads, Respond(t) PROVE Kept
  <2>1. PICK to : Goes(t, to) /\ to.pc = "idle" /\ task[t].pc \in {"verdict", "page"}
    BY <1>15 DEF Respond, Idle
  <2> QED BY <2>1, <1>7
<1>16. CASE Alter \/ UNCHANGED vars
  <2>1. UNCHANGED <<history, next_evidence, media_store, task>>
    BY <1>16 DEF Alter, vars, sinkVars
  <2>2. \A u \in Threads : Pending(u)' = Pending(u) /\ Taken(u)' = Taken(u)
    BY <2>1 DEF Pending, Taken
  <2>3. ToEmit \subseteq ToEmit'
    BY <2>1 DEF ToEmit
  <2> QED BY <2>1, <2>2, <2>3, EvidenceKept
<1> QED BY <1>1, <1>2, <1>3, <1>4, <1>5, <1>6, <1>8, <1>9, <1>10, <1>11, <1>12, <1>13,
           <1>14, <1>15, <1>16 DEF Next, Request

-----------------------------------------------------------------------------
\* The inductive invariant.
LEMMA InductiveInv == Spec => []IInv
<1>1. IInv /\ [Next]_vars => IInv'
  BY TypeStep, ChainStep, ReadersStep, EvidenceStep DEF IInv
<1> QED BY InitInv, <1>1, PTL DEF Spec

\* The types of the service's state: what each thread holds at each point of a
\* request, the deque within its bound, and the store of findings.
THEOREM ServiceTyped == Spec => []TypeOK
<1>1. IInv => TypeOK
  BY DEF IInv
<1> QED BY InductiveInv, <1>1, PTL

\* The audit sink shows the newest end of one unbroken chain, its counts account for
\* the rest, and a page that says it is complete is, although it was read in pieces.
THEOREM LogAccounted == Spec => []WindowAccounted
<1>1. ASSUME IInv PROVE WindowAccounted
  <2>1. ASSUME NEW t \in Threads, task[t].pc = "page", Len(task[t].page) = task[t].total,
               NEW i \in 1..task[t].total
        PROVE  task[t].page[i].event_hash = i
    <3>1. PICK k \in 0..task[t].total : Window(task[t].page, k, task[t].total)
      BY <1>1, <2>1 DEF IInv, ReadersHoldWindows, HoldsWindow
    <3>2. task[t].total \in Nat /\ task[t].page \in Seq(Event)
      BY <1>1, <2>1, TaskShapes DEF IInv, TypeOK
    <3>3. DOMAIN task[t].page = 1..task[t].total
      BY <2>1, <3>2, LenProperties
    <3>4. k = 0
      BY <2>1, <3>1, <3>2 DEF Window
    <3>5. task[t].page[i].event_hash = 0 + i
      BY <2>1, <3>1, <3>3, <3>4 DEF Window
    <3> QED BY <2>1, <3>2, <3>5
  <2> QED BY <1>1, <2>1 DEF IInv, Chained, WindowAccounted
<1> QED BY InductiveInv, <1>1, PTL

\* Every finding in the store has its events in the log or with a thread that owes
\* them, and the evidence id in an event finds that event.
THEOREM FindingsAreAudited == Spec => []FindingsAudited
<1>1. ASSUME IInv PROVE FindingsAudited
  <2>1. ASSUME NEW finding \in StoredFindings PROVE Reported(finding)
    BY <1>1 DEF IInv, StoredReported, StoredFindings
  <2> QED BY <1>1, <2>1 DEF IInv, NoClash, Clash, Reported, FindingsAudited
<1> QED BY InductiveInv, <1>1, PTL

\* The check of the chain says yes just when no event it looked at had been altered,
\* and says it began at genesis only if it did.
THEOREM VerdictsAreHonest == Spec => VerdictHonest
<1> DEFINE Honest(t) ==
      (task[t].pc = "anchored" /\ task'[t].pc = "verdict") =>
        LET items == task'[t].items IN
          /\ task'[t].valid <=> \A i \in DOMAIN items : items[i].event_hash \notin altered
          /\ (task'[t].verified_from_genesis /\ items # <<>>)
               => items[1].previous_hash = GENESIS_HASH
<1>1. ASSUME IInv, [Next]_vars, NEW t \in Threads,
             task[t].pc = "anchored", task'[t].pc = "verdict"
      PROVE  Verdict(t)
  <2>1. task'[t] # task[t]
    BY <1>1
  <2>2. PICK u \in Threads : Request(u)
    BY <1>1, <2>1 DEF Next, Alter, vars
  <2>3. u = t
    BY <1>1, <2>1, <2>2, OneThread DEF IInv
  <2> QED BY <1>1, <2>2, <2>3
          DEF Request, Analyze, StoreFinding, Screen, Score, Rank, NextEventId, Write,
              BeginVerify, Anchor, BeginPage, ReadCount, ReadDropped, Respond
<1>2. ASSUME IInv, NEW t \in Threads, Verdict(t) PROVE Honest(t)
  <2> PICK items : items = task[t].items
    OBVIOUS
  <2> PICK valid \in BOOLEAN :
        valid <=> \A i \in DOMAIN items :
                    /\ items[i].event_hash \notin altered
                    /\ items[i].previous_hash = IF i = 1 THEN task[t].previous
                                                ELSE items[i - 1].event_hash
    OBVIOUS
  <2> PICK genesis \in BOOLEAN : genesis <=> (items = <<>> \/ dropped = 0)
    OBVIOUS
  <2>1. /\ task[t].pc = "anchored" /\ task[t].items = items
        /\ task[t] \in TaskState /\ dropped \in Nat
        /\ task'[t].items = items
        /\ task'[t].valid <=> valid
        /\ task'[t].verified_from_genesis <=> genesis
    BY <1>2 DEF Verdict, Goes, IInv, TypeOK
  <2>2. PICK k \in 0..dropped : /\ Window(items, k, counter)
                                /\ items # <<>> => task[t].previous = k
    BY <1>2, <2>1 DEF IInv, ReadersHoldWindows, HoldsWindow
  <2>3. items \in Seq(Event) /\ DOMAIN items = 1..Len(items) /\ Len(items) \in Nat
    BY <2>1, TaskShapes, LenProperties
  <2>4. items # <<>> => 1 \in DOMAIN items
    BY <2>3, EmptySeq
  <2>5. ASSUME NEW i \in DOMAIN items
        PROVE  items[i].previous_hash = IF i = 1 THEN task[t].previous
                                        ELSE items[i - 1].event_hash
    <3>1. items[i].previous_hash = k + i - 1 /\ i \in Nat /\ k \in Nat
      BY <2>1, <2>2, <2>3 DEF Window
    <3>2. items # <<>>
      BY <2>5
    <3>3. CASE i = 1
      BY <2>2, <3>1, <3>2, <3>3
    <3>4. CASE i # 1
      <4>1. i - 1 \in DOMAIN items
        BY <2>3, <3>4
      <4>2. items[i - 1].event_hash = k + (i - 1)
        BY <2>2, <4>1 DEF Window
      <4> QED BY <3>1, <3>4, <4>2
    <3> QED BY <3>3, <3>4
  <2>6. valid <=> \A i \in DOMAIN items : items[i].event_hash \notin altered
    BY <2>5
  <2>7. ASSUME genesis, items # <<>> PROVE items[1].previous_hash = GENESIS_HASH
    <3>1. k = 0
      BY <2>1, <2>2, <2>7
    <3>2. items[1].previous_hash = k + 1 - 1
      BY <2>2, <2>4, <2>7 DEF Window
    <3> QED BY <3>1, <3>2 DEF GENESIS_HASH
  <2> QED BY <2>1, <2>6, <2>7
<1>3. IInv /\ [Next]_vars => [\A t \in Threads : Honest(t)]_vars
  BY <1>1, <1>2
<1>4. Spec => [][\A t \in Threads : Honest(t)]_vars
  BY InductiveInv, <1>3, PTL DEF Spec
<1> QED BY <1>4 DEF VerdictHonest
=============================================================================
