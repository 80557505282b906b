----------------------- MODULE GovernanceStoreProofs -----------------------
(***************************************************************************)
(* Proofs about GovernanceStore, for any set of threads and customers, any *)
(* storage faults and any bounds.                                          *)
(***************************************************************************)
EXTENDS GovernanceStore, FiniteSetTheorems, TLAPS

HashAt(p) == IF p = 0 THEN Genesis ELSE audit_log[p].hash
HasEntry(t) == request[t].pc \in {"built", "appended"}

\* Digests identify entries.  An entry under construction carries a digest no
\* row has, and no logged entry either until it is appended itself; rows are
\* filed under their event id; a stopped process holds nothing.
LogHashes ==
  /\ \A i \in DOMAIN audit_log : audit_log[i].hash \in 1..Len(digests)
  /\ \A i, j \in DOMAIN audit_log :
       audit_log[i].hash = audit_log[j].hash => i = j
RowHashes ==
  /\ \A i \in DOMAIN db : db[i].event_id = i /\ db[i].hash \in 1..Len(digests)
  /\ \A i, j \in DOMAIN db : db[i].hash = db[j].hash => i = j
PendingHashes ==
  \A t \in Actors : HasEntry(t) =>
    /\ request[t].entry.hash \in 1..Len(digests)
    /\ \A i \in DOMAIN db : db[i].hash # request[t].entry.hash
    /\ \A u \in Actors : HasEntry(u) /\ u # t =>
         request[u].entry.hash # request[t].entry.hash
BuiltUnlogged ==
  \A t \in Actors : request[t].pc = "built" =>
    \A i \in DOMAIN audit_log : audit_log[i].hash # request[t].entry.hash
AppendedLogged ==
  \A t \in Actors : request[t].pc = "appended" =>
    \E i \in DOMAIN audit_log : audit_log[i] = request[t].entry
StoppedEmpty ==
  state = "down" => audit_log = <<>> /\ \A t \in Actors : request[t] = Idle
EntriesInv ==
  /\ LogHashes /\ RowHashes /\ PendingHashes
  /\ BuiltUnlogged /\ AppendedLogged /\ StoppedEmpty

\* While requests come one at a time and the disk works: at most one thread is
\* at work, what it has read is still true, and the table is the log, short of
\* the entry being persisted.
InOrder(s, i) == s[i].event_id = i /\ LinkHolds(s, i)
AllStored(n) ==
  /\ DOMAIN db = 1..n
  /\ \A i \in 1..n : db[i] = audit_log[i]
OneAtATime == \A t, u \in Actors : Busy(t) /\ Busy(u) => t = u
LogInOrder == \A i \in DOMAIN audit_log : InOrder(audit_log, i)
RowsInOrder == \A i \in DOMAIN db : InOrder(db, i)
WorkCurrent ==
  \A t \in Actors :
    /\ request[t].pc = "linked" =>
         request[t].previous_hash = TailHash(audit_log)
    /\ request[t].pc = "built" =>
         /\ request[t].entry.previous_hash = TailHash(audit_log)
         /\ request[t].entry.event_id = Len(audit_log) + 1
    /\ request[t].pc = "appended" =>
         /\ audit_log # <<>>
         /\ request[t].entry = audit_log[Len(audit_log)]
         /\ AllStored(Len(audit_log) - 1)
TableIsLog ==
  (state # "down" /\ \A t \in Actors : request[t].pc # "appended") =>
    AllStored(Len(audit_log))
TableGapless == state = "down" => DOMAIN db = 1..Cardinality(DOMAIN db)
AckedStored == acked \subseteq {db[i].hash : i \in DOMAIN db}
Serial ==
  /\ OneAtATime /\ LogInOrder /\ RowsInOrder /\ WorkCurrent
  /\ TableIsLog /\ TableGapless /\ AckedStored
SerialInv == faults \subseteq {"edit"} => Serial

\* In the first process, whatever the interleaving, an entry links to an entry
\* logged before it was numbered, and its number lies between the two places.
Anchored(prev, id, last) ==
  \E p \in 0..last : prev = HashAt(p) /\ p + 1 <= id /\ id <= last + 1
FirstLifeInv ==
  crashes = 0 =>
    /\ state = "down" => DOMAIN db = {}
    /\ \A i \in DOMAIN audit_log :
         Anchored(audit_log[i].previous_hash, audit_log[i].event_id, i - 1)
    /\ \A t \in Actors :
         /\ request[t].pc = "linked" =>
              \E p \in 0..Len(audit_log) : request[t].previous_hash = HashAt(p)
         /\ request[t].pc = "built" =>
              Anchored(request[t].entry.previous_hash, request[t].entry.event_id,
                       Len(audit_log))

-----------------------------------------------------------------------------
LEMMA AppendType ==
  ASSUME NEW S, NEW s \in Seq(S), NEW x \in S
  PROVE  Append(s, x) \in Seq(S)
  OBVIOUS

LEMMA InitTypeOK == Init => TypeOK
  <1> SUFFICES ASSUME Init PROVE TypeOK
    OBVIOUS
  <1>1. request \in [Actors -> RequestState]
    BY DEF Init, RequestState
  <1>2. DOMAIN db = {}
    BY DEF Init
  <1>3. QED
    BY <1>1, <1>2, FS_EmptySet, MaxCrashesAssumption DEF Init, TypeOK

\* Every action keeps every variable in its type.
LEMMA NextTypeOK == TypeOK /\ [Next]_vars => TypeOK'
  <1> SUFFICES ASSUME TypeOK, [Next]_vars PROVE TypeOK'
    OBVIOUS
  <1> USE DEF TypeOK
  <1>1. ASSUME NEW readable \in BOOLEAN, Load(readable) PROVE TypeOK'
    <2>1. audit_log' \in Seq(AuditEntry)
      <3>1. CASE readable
        <4>1. PICK order \in Orderings :
                audit_log' = [k \in DOMAIN order |-> db[order[k]]]
          BY <1>1, <3>1 DEF Load
        <4>2. Cardinality(DOMAIN db) \in Nat
          BY FS_CardinalityType
        <4>3. order \in [1..Cardinality(DOMAIN db) -> DOMAIN db]
          BY DEF Orderings
        <4>4. \A k \in 1..Cardinality(DOMAIN db) : db[order[k]] \in AuditEntry
          BY <4>3
        <4>5. QED
          BY <4>1, <4>2, <4>3, <4>4
      <3>2. CASE ~readable
        <4>1. audit_log' = <<>>
          BY <1>1, <3>2 DEF Load
        <4>2. QED
          BY <4>1
      <3>3. QED
        BY <3>1, <3>2
    <2>2. faults' \subseteq {"overlap"} \cup StorageFaults
      BY <1>1 DEF Load
    <2>3. request' \in [Actors -> RequestState]
      <3>1. [pc |-> "call", body |-> Dataset] \in RequestState
        BY DEF RequestState, Body
      <3>2. QED
        BY <1>1, <3>1 DEF Load
    <2>4. state' \in {"down", "booting", "serving"}
      BY <1>1 DEF Load
    <2>5. QED
      BY <1>1, <2>1, <2>2, <2>3, <2>4 DEF Load
  <1>2. ASSUME NEW t \in Threads, NEW body \in Body, Begin(t, body) PROVE TypeOK'
    <2>1. body.action \in ListActions =>
            body \in [action : ListActions, resource : Customers \cup Strangers]
      BY DEF Body, Dataset, ListActions
    <2>2. request' \in [Actors -> RequestState]
      <3>1. CASE body.action \in ListActions
        <4>1. [pc |-> "submitting", body |-> body] \in RequestState
          BY <2>1, <3>1 DEF RequestState
        <4>2. QED
          BY <1>2, <3>1, <4>1 DEF Begin
      <3>2. CASE body.action \notin ListActions
        <4>1. [pc |-> "call", body |-> body] \in RequestState
          BY DEF RequestState
        <4>2. QED
          BY <1>2, <3>2, <4>1 DEF Begin
      <3>3. QED
        BY <3>1, <3>2
    <2>3. faults' \subseteq {"overlap"} \cup StorageFaults
      BY <1>2 DEF Begin
    <2>4. QED
      BY <1>2, <2>2, <2>3 DEF Begin
  <1>3. ASSUME NEW t \in Actors, Submit(t) PROVE TypeOK'
    <2>1. request[t] \in [pc : {"submitting"}, body : [action : ListActions,
                                            resource : Customers \cup Strangers]]
      <3>1. request[t] \in RequestState /\ request[t].pc = "submitting"
        BY <1>3 DEF Submit
      <3>2. QED
        BY <3>1 DEF RequestState, Idle
    <2>2. [pc |-> "call", body |-> request[t].body] \in RequestState
      <3>1. request[t].body \in [action : ListActions, resource : Customers \cup Strangers]
        BY <2>1
      <3>2. request[t].body \in Body
        BY <3>1 DEF Body
      <3>3. QED
        BY <3>2 DEF RequestState
    <2>3. request' \in [Actors -> RequestState]
      BY <1>3, <2>2 DEF Submit
    <2>4. /\ reviews' \in Seq(Customers \cup Strangers)
          /\ sar_signoffs' \in Seq(Customers \cup Strangers)
      <3>1. request[t].body.resource \in Customers \cup Strangers
        BY <2>1
      <3>2. \/ reviews' = reviews
            \/ reviews' = Append(reviews, request[t].body.resource)
        BY <1>3 DEF Submit
      <3>3. \/ sar_signoffs' = sar_signoffs
            \/ sar_signoffs' = Append(sar_signoffs, request[t].body.resource)
        BY <1>3 DEF Submit
      <3>4. QED
        BY <3>1, <3>2, <3>3, AppendType
    <2>5. QED
      BY <1>3, <2>3, <2>4 DEF Submit
  <1>4. ASSUME NEW t \in Actors, ReadTail(t) PROVE TypeOK'
    <2>1. request[t].body \in Body
      BY <1>4 DEF ReadTail, RequestState, Idle
    <2>2. TailHash(audit_log) \in Nat
      <3>1. CASE audit_log = <<>>
        BY <3>1 DEF TailHash, Genesis
      <3>2. CASE audit_log # <<>>
        <4>1. audit_log[Len(audit_log)] \in AuditEntry
          BY <3>2
        <4>2. QED
          BY <3>2, <4>1 DEF TailHash, AuditEntry
      <3>3. QED
        BY <3>1, <3>2
    <2>3. [pc |-> "linked", body |-> request[t].body,
           previous_hash |-> TailHash(audit_log)] \in RequestState
      BY <2>1, <2>2 DEF RequestState
    <2>4. QED
      BY <1>4, <2>3 DEF ReadTail
  <1>5. ASSUME NEW t \in Actors, Build(t) PROVE TypeOK'
    <2>1. request[t].body \in Body /\ request[t].previous_hash \in Nat
      <3>1. request[t] \in [pc : {"linked"}, body : Body, previous_hash : Nat]
        BY <1>5 DEF Build, RequestState, Idle
      <3>2. QED
        BY <3>1
    <2>2. digests' \in Seq(Content)
      BY <1>5, <2>1 DEF Build, Content
    <2>3. request' \in [Actors -> RequestState]
      BY <1>5, <2>1 DEF Build, RequestState, AuditEntry
    <2>4. QED
      BY <1>5, <2>2, <2>3 DEF Build
  <1>6. ASSUME NEW t \in Actors, AppendEntry(t) PROVE TypeOK'
    <2>1. request[t] \in [pc : {"built", "appended"}, entry : AuditEntry]
      BY <1>6 DEF AppendEntry, RequestState, Idle
    <2>2. [request[t] EXCEPT !.pc = "appended"] \in RequestState
      BY <2>1 DEF RequestState
    <2>3. QED
      BY <1>6, <2>1, <2>2 DEF AppendEntry
  <1>7. ASSUME NEW t \in Actors, NEW ok \in BOOLEAN, Persist(t, ok) PROVE TypeOK'
    <2>1. request[t].entry \in AuditEntry
      BY <1>7 DEF Persist, RequestState, Idle
    <2>2. /\ DOMAIN db' \in SUBSET Nat /\ IsFiniteSet(DOMAIN db')
          /\ \A i \in DOMAIN db' : db'[i] \in AuditEntry
      <3>1. CASE db' = db
        BY <3>1
      <3>2. CASE db' # db
        <4> DEFINE e == request[t].entry
        <4>1. db' = [i \in DOMAIN db \cup {e.event_id} |->
                       IF i = e.event_id THEN e ELSE db[i]]
          BY <1>7, <3>2 DEF Persist, InsertOrIgnore
        <4>2. IsFiniteSet(DOMAIN db \cup {e.event_id})
          BY FS_AddElement
        <4>3. e.event_id \in Nat
          BY <2>1 DEF AuditEntry
        <4>4. QED
          BY <2>1, <4>1, <4>2, <4>3
      <3>3. QED
        BY <3>1, <3>2
    <2>3. Idle \in RequestState
      BY DEF RequestState
    <2>4. request[t].entry.hash \in Nat
      BY <2>1 DEF AuditEntry
    <2>5. faults' \subseteq {"overlap"} \cup StorageFaults
      BY <1>7 DEF Persist
    <2>6. QED
      BY <1>7, <2>2, <2>3, <2>4, <2>5 DEF Persist
  <1>8. ASSUME Crash PROVE TypeOK'
    <2>1. request' \in [Actors -> RequestState]
      BY <1>8 DEF Crash, RequestState
    <2>2. crashes' \in 0..MaxCrashes
      BY <1>8, MaxCrashesAssumption DEF Crash
    <2>3. QED
      BY <1>8, <2>1, <2>2 DEF Crash
  <1>9. ASSUME NEW i \in DOMAIN db, NEW body \in Body, EditRow(i, body) PROVE TypeOK'
    <2>1. \A j \in DOMAIN db' : db'[j] \in AuditEntry
      BY <1>9 DEF EditRow, AuditEntry
    <2>2. faults' \subseteq {"overlap"} \cup StorageFaults
      BY <1>9 DEF EditRow
    <2>3. DOMAIN db' = DOMAIN db
      BY <1>9 DEF EditRow
    <2>4. QED
      BY <1>9, <2>1, <2>2, <2>3 DEF EditRow
  <1>10. CASE UNCHANGED vars
    BY <1>10 DEF vars
  <1>11. QED
    BY <1>1, <1>2, <1>3, <1>4, <1>5, <1>6, <1>7, <1>8, <1>9, <1>10 DEF Next

\* Type correctness of the governance store.
THEOREM TypeCorrect == Spec => []TypeOK
  BY InitTypeOK, NextTypeOK, PTL DEF Spec


-----------------------------------------------------------------------------
\* What an action does to the log, the table and the other threads' requests.
LEMMA InitEntriesInv == Init => EntriesInv
  BY DEF Init, EntriesInv, LogHashes, RowHashes, PendingHashes, BuiltUnlogged,
         AppendedLogged, StoppedEmpty, HasEntry, Idle

LEMMA OrderingInjective ==
  ASSUME NEW order \in Orderings, NEW j \in DOMAIN order, NEW k \in DOMAIN order,
         order[j] = order[k]
  PROVE  j = k
  BY DEF Orderings

LEMMA NextEntriesInv == TypeOK /\ EntriesInv /\ [Next]_vars => EntriesInv'
  <1> SUFFICES ASSUME TypeOK, EntriesInv, [Next]_vars PROVE EntriesInv'
    OBVIOUS
  <1> USE DEF EntriesInv, HasEntry
  <1>1. ASSUME NEW readable \in BOOLEAN, Load(readable) PROVE EntriesInv'
    <2>1. /\ UNCHANGED <<db, digests>>
          /\ \A t \in Actors : request'[t] = Idle \/ request'[t].pc = "call"
          /\ state' # "down"
      BY <1>1 DEF Load, StoppedEmpty, TypeOK
    <2>2. LogHashes'
      <3>1. CASE readable
        <4>1. PICK order \in Orderings :
                audit_log' = [k \in DOMAIN order |-> db[order[k]]]
          BY <1>1, <3>1 DEF Load
        <4>2. \A k \in DOMAIN order : order[k] \in DOMAIN db
          BY DEF Orderings
        <4>3. QED
          BY <2>1, <4>1, <4>2, OrderingInjective DEF LogHashes, RowHashes
      <3>2. CASE ~readable
        <4>1. audit_log' = <<>>
          BY <1>1, <3>2 DEF Load
        <4>2. QED
          BY <4>1 DEF LogHashes
      <3>3. QED
        BY <3>1, <3>2
    <2>3. QED
      BY <2>1, <2>2 DEF RowHashes, PendingHashes, BuiltUnlogged, AppendedLogged,
                        StoppedEmpty, Idle
  <1>2. ASSUME NEW t \in Threads, NEW body \in Body, Begin(t, body) PROVE EntriesInv'
    <2>1. /\ UNCHANGED <<state, audit_log, db, digests>>
          /\ state # "down"
          /\ request'[t].pc \in {"submitting", "call"}
          /\ \A u \in Actors : u # t => request'[u] = request[u]
      BY <1>2 DEF Begin, Actors, TypeOK
    <2>2. QED
      BY <2>1 DEF LogHashes, RowHashes, PendingHashes, BuiltUnlogged, AppendedLogged,
                  StoppedEmpty
  <1>3. ASSUME NEW t \in Actors, Submit(t) \/ ReadTail(t) PROVE EntriesInv'
    <2>1. /\ UNCHANGED <<state, audit_log, db, digests>>
          /\ request[t].pc \in {"submitting", "call"}
          /\ request'[t].pc \in {"call", "linked"}
          /\ \A u \in Actors : u # t => request'[u] = request[u]
      BY <1>3 DEF Submit, ReadTail, TypeOK
    <2>2. QED
      BY <2>1 DEF LogHashes, RowHashes, PendingHashes, BuiltUnlogged, AppendedLogged,
                  StoppedEmpty, Idle
  <1>4. ASSUME NEW t \in Actors, Build(t) PROVE EntriesInv'
    <2>1. /\ UNCHANGED <<state, audit_log, db>>
          /\ Len(digests') = Len(digests) + 1
          /\ Len(digests) \in Nat
          /\ request[t].pc = "linked"
          /\ request'[t].pc = "built"
          /\ request'[t].entry.hash = Len(digests) + 1
          /\ \A u \in Actors : u # t => request'[u] = request[u]
      BY <1>4 DEF Build, TypeOK
    <2>2. LogHashes' /\ RowHashes'
      BY <2>1 DEF LogHashes, RowHashes
    <2>3. PendingHashes'
      BY <2>1 DEF RowHashes, PendingHashes
    <2>4. BuiltUnlogged' /\ AppendedLogged' /\ StoppedEmpty'
      BY <2>1 DEF LogHashes, BuiltUnlogged, AppendedLogged, StoppedEmpty, Idle
    <2>5. QED
      BY <2>2, <2>3, <2>4
  <1>5. ASSUME NEW t \in Actors, AppendEntry(t) PROVE EntriesInv'
    <2>1. /\ UNCHANGED <<state, db, digests>>
          /\ audit_log' = Append(audit_log, request[t].entry)
          /\ request[t].pc = "built"
          /\ request'[t].pc = "appended"
          /\ request'[t].entry = request[t].entry
          /\ \A u \in Actors : u # t => request'[u] = request[u]
      BY <1>5 DEF AppendEntry, TypeOK
    <2>2. /\ Len(audit_log) \in Nat
          /\ DOMAIN audit_log = 1..Len(audit_log)
          /\ DOMAIN audit_log' = 1..(Len(audit_log) + 1)
          /\ \A i \in DOMAIN audit_log : audit_log'[i] = audit_log[i]
          /\ audit_log'[Len(audit_log) + 1] = request[t].entry
      BY <2>1 DEF TypeOK
    <2>3. LogHashes'
      BY <2>1, <2>2 DEF LogHashes, PendingHashes, BuiltUnlogged
    <2>4. RowHashes' /\ PendingHashes' /\ StoppedEmpty'
      BY <2>1 DEF RowHashes, PendingHashes, StoppedEmpty, Idle
    <2>5. BuiltUnlogged' /\ AppendedLogged'
      BY <2>1, <2>2 DEF PendingHashes, BuiltUnlogged, AppendedLogged
    <2>6. QED
      BY <2>3, <2>4, <2>5
  <1>6. ASSUME NEW t \in Actors, NEW ok \in BOOLEAN, Persist(t, ok) PROVE EntriesInv'
    <2> DEFINE e == request[t].entry
    <2>1. /\ UNCHANGED <<audit_log, digests>>
          /\ state' = "serving"
          /\ request[t].pc = "appended"
          /\ request'[t] = Idle
          /\ \A u \in Actors : u # t => request'[u] = request[u]
      BY <1>6 DEF Persist, TypeOK
    <2>2. \/ db' = db
          \/ /\ DOMAIN db' = DOMAIN db \cup {e.event_id}
             /\ e.event_id \notin DOMAIN db
             /\ \A i \in DOMAIN db : db'[i] = db[i]
             /\ db'[e.event_id] = e
      BY <1>6 DEF Persist, InsertOrIgnore
    <2>3. RowHashes' /\ PendingHashes'
      BY <2>1, <2>2 DEF RowHashes, PendingHashes, Idle
    <2>4. LogHashes' /\ BuiltUnlogged' /\ AppendedLogged' /\ StoppedEmpty'
      BY <2>1 DEF LogHashes, BuiltUnlogged, AppendedLogged, StoppedEmpty, Idle
    <2>5. QED
      BY <2>3, <2>4
  <1>7. ASSUME Crash PROVE EntriesInv'
    BY <1>7 DEF Crash, LogHashes, RowHashes, PendingHashes, BuiltUnlogged,
                AppendedLogged, StoppedEmpty, Idle
  <1>8. ASSUME NEW i \in DOMAIN db, NEW body \in Body, EditRow(i, body) PROVE EntriesInv'
    <2>1. /\ UNCHANGED <<state, audit_log, request, digests>>
          /\ DOMAIN db' = DOMAIN db
          /\ \A j \in DOMAIN db : /\ db'[j].event_id = db[j].event_id
                                  /\ db'[j].hash = db[j].hash
      BY <1>8 DEF EditRow, TypeOK, AuditEntry
    <2>2. QED
      BY <2>1 DEF LogHashes, RowHashes, PendingHashes, BuiltUnlogged, AppendedLogged,
                  StoppedEmpty
  <1>9. CASE UNCHANGED vars
    BY <1>9 DEF vars, LogHashes, RowHashes, PendingHashes, BuiltUnlogged,
                AppendedLogged, StoppedEmpty
  <1>10. QED
    BY <1>1, <1>2, <1>3, <1>4, <1>5, <1>6, <1>7, <1>8, <1>9 DEF Next

LEMMA EntriesInvHolds == Spec => []EntriesInv
  BY InitEntriesInv, NextEntriesInv, TypeCorrect, PTL DEF Spec

\* Nothing recorded is ever removed or rewritten by the program: the log of a
\* running process only grows, and a row, once in the table, stays as it is.
THEOREM HistoryKept == Spec => AppendOnly
  <1>1. TypeOK /\ [Next]_vars => [KeepsHistory]_vars
    <2> SUFFICES ASSUME TypeOK, Next PROVE KeepsHistory
      OBVIOUS
    <2>1. CASE \E t \in Actors, ok \in BOOLEAN : Persist(t, ok)
      BY <2>1 DEF Persist, InsertOrIgnore, KeepsHistory, LogExtends, RowsKept, TypeOK
    <2>2. CASE \E t \in Actors : AppendEntry(t)
      BY <2>2 DEF AppendEntry, KeepsHistory, LogExtends, RowsKept, TypeOK
    <2>3. CASE \E t \in Actors : Submit(t) \/ ReadTail(t) \/ Build(t)
      BY <2>3 DEF Submit, ReadTail, Build, KeepsHistory, LogExtends, RowsKept, TypeOK
    <2>4. CASE \E t \in Threads, body \in Body : Begin(t, body)
      BY <2>4 DEF Begin, KeepsHistory, LogExtends, RowsKept, TypeOK
    <2>5. CASE \E readable \in BOOLEAN : Load(readable)
      BY <2>5 DEF Load, KeepsHistory, RowsKept
    <2>6. CASE Crash
      BY <2>6 DEF Crash, KeepsHistory, RowsKept
    <2>7. CASE \E i \in DOMAIN db, body \in Body : EditRow(i, body)
      BY <2>7 DEF EditRow, KeepsHistory
    <2>8. QED
      BY <2>1, <2>2, <2>3, <2>4, <2>5, <2>6, <2>7 DEF Next
  <1>2. QED
    BY <1>1, TypeCorrect, PTL DEF Spec, AppendOnly


-----------------------------------------------------------------------------
LEMMA InitSerialInv == Init => SerialInv
  <1> SUFFICES ASSUME Init PROVE Serial
    BY DEF SerialInv
  <1>1. DOMAIN db = {}
    BY DEF Init
  <1>2. 1..0 = {}
    OBVIOUS
  <1>3. QED
    BY <1>1, <1>2, FS_EmptySet
    DEF Init, Serial, OneAtATime, LogInOrder, RowsInOrder, WorkCurrent,
        TableIsLog, TableGapless, AckedStored, Busy, Idle

\* Rows filed under 1..n are read back in that order.
LEMMA GaplessReload ==
  ASSUME TypeOK, TableGapless, state = "down", NEW order \in Orderings
  PROVE  /\ DOMAIN order = DOMAIN db
         /\ \A k \in DOMAIN order : order[k] = k
  <1> DEFINE n == Cardinality(DOMAIN db)
  <1>1. n \in Nat
    BY FS_CardinalityType DEF TypeOK
  <1>2. DOMAIN db = 1..n
    BY DEF TableGapless
  <1>3. order \in [1..n -> 1..n]
    BY <1>2 DEF Orderings
  <1>4. ASSUME NEW k \in 1..n PROVE order[k] = k
    <2>1. order[k] \in 1..n
      BY <1>3
    <2>2. {i \in DOMAIN db : i <= order[k]} = 1..order[k]
      BY <1>1, <1>2, <2>1
    <2>3. Cardinality(1..order[k]) = order[k]
      <3>1. order[k] \in Int /\ order[k] - 1 + 1 = order[k] /\ 1 <= order[k]
        BY <1>1, <2>1
      <3>2. Cardinality(1..order[k]) = order[k] - 1 + 1
        BY <3>1, FS_Interval
      <3>3. QED
        BY <3>1, <3>2
    <2>4. Cardinality({i \in DOMAIN db : i <= order[k]}) = k
      BY <1>3 DEF Orderings
    <2>5. QED
      BY <2>2, <2>3, <2>4
  <1>5. QED
    BY <1>2, <1>3, <1>4

LEMMA NextSerialInv ==
  TypeOK /\ EntriesInv /\ SerialInv /\ [Next]_vars => SerialInv'
  <1> SUFFICES ASSUME TypeOK, EntriesInv, SerialInv, [Next]_vars,
                      faults' \subseteq {"edit"}
               PROVE  Serial'
    BY DEF SerialInv
  <1>0. Serial /\ faults \subseteq {"edit"}
    <2>1. faults \subseteq faults'
      BY DEF Next, Load, Begin, Submit, ReadTail, Build, AppendEntry, Persist,
             Crash, EditRow, vars
    <2>2. QED
      BY <2>1 DEF SerialInv
  <1>1. ASSUME NEW readable \in BOOLEAN, Load(readable) PROVE Serial'
    <2>1. /\ state = "down" /\ state' # "down"
          /\ UNCHANGED <<db, acked>>
          /\ \A t \in Actors : request[t] = Idle
          /\ \A t \in Actors : t # Main => request'[t] = Idle
          /\ \A t \in Actors : request'[t].pc \in {"idle", "call"}
      <3>1. /\ state = "down"
            /\ UNCHANGED <<db, acked>>
            /\ state' \in {"booting", "serving"}
            /\ \/ request' = request
               \/ request' = [request EXCEPT ![Main] = [pc |-> "call", body |-> Dataset]]
        BY <1>1 DEF Load
      <3>2. \A t \in Actors : request[t] = Idle
        BY <3>1 DEF EntriesInv, StoppedEmpty
      <3>3. Idle.pc = "idle"
        BY DEF Idle
      <3>4. \A t \in Actors : \/ request'[t] = Idle
                              \/ t = Main /\ request'[t].pc = "call"
        BY <3>1, <3>2 DEF TypeOK
      <3>5. QED
        BY <3>1, <3>2, <3>3, <3>4
    <2>2. readable
      BY <1>1 DEF Load
    <2>3. PICK order \in Orderings : audit_log' = [k \in DOMAIN order |-> db[order[k]]]
      BY <1>1, <2>2 DEF Load
    <2>4. /\ DOMAIN order = DOMAIN db
          /\ \A k \in DOMAIN order : order[k] = k
      BY <1>0, <2>1, GaplessReload DEF Serial
    <2>5. /\ DOMAIN audit_log' = DOMAIN db
          /\ \A k \in DOMAIN db : audit_log'[k] = db[k]
      BY <2>3, <2>4
    <2>6. Cardinality(DOMAIN db) \in Nat
      BY FS_CardinalityType DEF TypeOK
    <2>7. DOMAIN db = 1..Cardinality(DOMAIN db)
      BY <1>0, <2>1 DEF Serial, TableGapless
    <2>8. Len(audit_log') = Cardinality(DOMAIN db)
      BY <2>3, <2>4, <2>6, <2>7
    <2>9. TableIsLog'
      BY <2>1, <2>5, <2>7, <2>8 DEF TableIsLog, AllStored
    <2>10. LogInOrder' /\ RowsInOrder'
      BY <1>0, <2>1, <2>5, <2>6, <2>7
      DEF Serial, LogInOrder, RowsInOrder, InOrder, LinkHolds
    <2>11. OneAtATime' /\ WorkCurrent' /\ TableGapless' /\ AckedStored'
      BY <1>0, <2>1
      DEF Serial, OneAtATime, WorkCurrent, TableGapless, AckedStored, Busy, Idle
    <2>12. QED
      BY <2>9, <2>10, <2>11 DEF Serial
  <1>2. ASSUME NEW t \in Threads, NEW body \in Body, Begin(t, body) PROVE Serial'
    <2>1. /\ UNCHANGED <<state, audit_log, db, acked>>
          /\ state # "down"
          /\ \A u \in Actors : request[u].pc = "idle"
          /\ \A u \in Actors : u # t => request'[u] = request[u]
          /\ request'[t].pc \in {"submitting", "call"}
      BY <1>2 DEF Begin, Actors, Busy, TypeOK
    <2>2. QED
      BY <1>0, <2>1 DEF Serial, OneAtATime, LogInOrder, RowsInOrder, WorkCurrent,
                        TableIsLog, TableGapless, AckedStored, Busy, AllStored,
                        InOrder, LinkHolds
  <1>3. ASSUME NEW t \in Actors, Submit(t) \/ ReadTail(t) PROVE Serial'
    <2>1. /\ UNCHANGED <<state, audit_log, db, acked>>
          /\ request[t].pc \in {"submitting", "call"}
          /\ request'[t].pc \in {"call", "linked"}
          /\ request'[t].pc = "linked" =>
               request'[t].previous_hash = TailHash(audit_log)
          /\ \A u \in Actors : u # t => request'[u] = request[u]
      BY <1>3 DEF Submit, ReadTail, TypeOK
    <2>2. QED
      BY <1>0, <2>1 DEF Serial, OneAtATime, LogInOrder, RowsInOrder, WorkCurrent,
                        TableIsLog, TableGapless, AckedStored, Busy, AllStored,
                        InOrder, LinkHolds, TailHash
  <1>4. ASSUME NEW t \in Actors, Build(t) PROVE Serial'
    <2>1. /\ UNCHANGED <<state, audit_log, db, acked>>
          /\ request[t].pc = "linked"
          /\ request'[t].pc = "built"
          /\ request'[t].entry.previous_hash = request[t].previous_hash
          /\ request'[t].entry.event_id = Len(audit_log) + 1
          /\ \A u \in Actors : u # t => request'[u] = request[u]
      BY <1>4 DEF Build, TypeOK
    <2>2. QED
      BY <1>0, <2>1 DEF Serial, OneAtATime, LogInOrder, RowsInOrder, WorkCurrent,
                        TableIsLog, TableGapless, AckedStored, Busy, AllStored,
                        InOrder, LinkHolds, TailHash
  <1>5. ASSUME NEW t \in Actors, AppendEntry(t) PROVE Serial'
    <2> DEFINE e == request[t].entry
               n == Len(audit_log)
    <2>1. /\ UNCHANGED <<state, db, acked>>
          /\ audit_log' = Append(audit_log, e)
          /\ request[t].pc = "built"
          /\ request'[t].pc = "appended"
          /\ request'[t].entry = e
          /\ \A u \in Actors : u # t => request'[u] = request[u]
      BY <1>5 DEF AppendEntry, TypeOK
    <2>2. /\ n \in Nat
          /\ Len(audit_log') = n + 1
          /\ DOMAIN audit_log = 1..n
          /\ DOMAIN audit_log' = 1..(n + 1)
          /\ \A i \in 1..n : audit_log'[i] = audit_log[i]
          /\ audit_log'[n + 1] = e
          /\ audit_log' # <<>>
      BY <2>1 DEF TypeOK
    <2>3. /\ e.event_id = n + 1
          /\ e.previous_hash = IF n = 0 THEN Genesis ELSE audit_log[n].hash
      BY <1>0, <2>1, <2>2 DEF Serial, WorkCurrent, TailHash, TypeOK
    <2>4. \A u \in Actors : u # t => request[u].pc = "idle"
      BY <1>0, <2>1 DEF Serial, OneAtATime, Busy
    <2>5. AllStored(n)
      <3>1. state # "down"
        BY <2>1 DEF EntriesInv, StoppedEmpty, Idle
      <3>2. \A u \in Actors : request[u].pc # "appended"
        BY <2>1, <2>4
      <3>3. QED
        BY <1>0, <3>1, <3>2 DEF Serial, TableIsLog
    <2>6. LogInOrder'
      BY <1>0, <2>2, <2>3 DEF Serial, LogInOrder, InOrder, LinkHolds
    <2>7. WorkCurrent'
      BY <2>1, <2>2, <2>4, <2>5 DEF WorkCurrent, AllStored
    <2>8. OneAtATime' /\ TableIsLog'
      BY <2>1, <2>4 DEF OneAtATime, TableIsLog, Busy
    <2>9. RowsInOrder' /\ TableGapless' /\ AckedStored'
      BY <1>0, <2>1 DEF Serial, RowsInOrder, TableGapless, AckedStored, InOrder, LinkHolds
    <2>10. QED
      BY <2>6, <2>7, <2>8, <2>9 DEF Serial
  <1>6. ASSUME NEW t \in Actors, NEW ok \in BOOLEAN, Persist(t, ok) PROVE Serial'
    <2> DEFINE e == request[t].entry
               n == Len(audit_log)
    <2>1. /\ UNCHANGED audit_log
          /\ state' = "serving"
          /\ request[t].pc = "appended"
          /\ request'[t] = Idle
          /\ \A u \in Actors : u # t => request'[u] = request[u]
          /\ acked' = acked \cup {e.hash}
          /\ ok
          /\ db' = InsertOrIgnore(e)
      BY <1>6 DEF Persist, TypeOK
    <2>2. /\ n \in Nat /\ n # 0
          /\ DOMAIN audit_log = 1..n
      BY <1>0, <2>1 DEF Serial, WorkCurrent, TypeOK
    <2>3. /\ e = audit_log[n]
          /\ AllStored(n - 1)
          /\ e.event_id = n
          /\ e.previous_hash = IF n = 1 THEN Genesis ELSE audit_log[n - 1].hash
      BY <1>0, <2>1, <2>2 DEF Serial, WorkCurrent, LogInOrder, InOrder, LinkHolds
    <2>4. \A u \in Actors : u # t => request[u].pc = "idle"
      BY <1>0, <2>1 DEF Serial, OneAtATime, Busy
    <2>5. /\ DOMAIN db' = 1..n
          /\ db'[n] = e
          /\ \A i \in 1..(n - 1) : db'[i] = db[i]
      <3>1. DOMAIN db = 1..(n - 1)
        BY <2>3 DEF AllStored
      <3>2. e.event_id \notin DOMAIN db
        BY <2>2, <2>3, <3>1
      <3>3. /\ DOMAIN db' = DOMAIN db \cup {e.event_id}
            /\ db'[e.event_id] = e
            /\ \A i \in DOMAIN db : db'[i] = db[i]
        BY <2>1, <3>2 DEF InsertOrIgnore
      <3>4. DOMAIN db \cup {e.event_id} = 1..n
        BY <2>2, <2>3, <3>1
      <3>5. QED
        BY <2>3, <3>1, <3>3, <3>4
    <2>6. AllStored(n)'
      <3>1. \A m \in Nat : \A i \in 1..m : i = m \/ i \in 1..(m - 1)
        OBVIOUS
      <3>2. ASSUME NEW i \in 1..n PROVE db'[i] = audit_log[i]
        <4>1. CASE i = n
          BY <2>3, <2>5, <4>1
        <4>2. CASE i # n
          <5>1. i \in 1..(n - 1)
            BY <2>2, <3>1, <4>2
          <5>2. db[i] = audit_log[i]
            BY <2>3, <5>1 DEF AllStored
          <5>3. QED
            BY <2>5, <5>1, <5>2
        <4>3. QED
          BY <4>1, <4>2
      <3>3. DOMAIN db' = 1..n
        BY <2>5
      <3>4. QED
        BY <2>1, <3>2, <3>3 DEF AllStored
    <2>7. RowsInOrder'
      BY <1>0, <2>2, <2>3, <2>5
      DEF Serial, RowsInOrder, InOrder, LinkHolds, AllStored
    <2>8. AckedStored'
      <3>1. \A i \in DOMAIN db : i \in DOMAIN db' /\ db'[i] = db[i]
        BY <2>2, <2>3, <2>5 DEF AllStored
      <3>2. n \in DOMAIN db' /\ db'[n] = e
        <4>1. n \in 1..n
          BY <2>2
        <4>2. QED
          BY <2>5, <4>1
      <3>3. QED
        BY <1>0, <2>1, <3>1, <3>2 DEF Serial, AckedStored
    <2>9. OneAtATime' /\ LogInOrder' /\ WorkCurrent' /\ TableIsLog' /\ TableGapless'
      BY <1>0, <2>1, <2>4, <2>6
      DEF Serial, OneAtATime, LogInOrder, WorkCurrent, TableIsLog, TableGapless,
          InOrder, LinkHolds, Busy, Idle
    <2>10. QED
      BY <2>7, <2>8, <2>9 DEF Serial
  <1>7. ASSUME Crash PROVE Serial'
    <2>1. /\ state # "down" /\ state' = "down"
          /\ UNCHANGED <<db, acked>>
          /\ audit_log' = <<>>
          /\ \A t \in Actors : request'[t] = Idle
      BY <1>7 DEF Crash
    <2>2. \E n \in Nat : DOMAIN db = 1..n
      <3>1. CASE \E t \in Actors : request[t].pc = "appended"
        <4>1. /\ AllStored(Len(audit_log) - 1)
              /\ Len(audit_log) - 1 \in Nat
          BY <1>0, <3>1 DEF Serial, WorkCurrent, TypeOK
        <4>2. QED
          BY <4>1 DEF AllStored
      <3>2. CASE \A t \in Actors : request[t].pc # "appended"
        <4>1. /\ AllStored(Len(audit_log))
              /\ Len(audit_log) \in Nat
          BY <1>0, <2>1, <3>2 DEF Serial, TableIsLog, TypeOK
        <4>2. QED
          BY <4>1 DEF AllStored
      <3>3. QED
        BY <3>1, <3>2
    <2>3. TableGapless'
      <3>1. PICK n \in Nat : DOMAIN db = 1..n
        BY <2>2
      <3>2. Cardinality(1..n) = n
        BY FS_Interval
      <3>3. QED
        BY <2>1, <3>1, <3>2 DEF TableGapless
    <2>4. QED
      BY <1>0, <2>1, <2>3
      DEF Serial, OneAtATime, LogInOrder, RowsInOrder, WorkCurrent, TableIsLog,
          AckedStored, InOrder, LinkHolds, Busy, Idle
  <1>8. ASSUME NEW i \in DOMAIN db, NEW body \in Body, EditRow(i, body) PROVE Serial'
    <2>1. /\ UNCHANGED <<state, audit_log, request, acked>>
          /\ state = "down"
          /\ DOMAIN db' = DOMAIN db
          /\ \A j \in DOMAIN db : /\ db'[j].event_id = db[j].event_id
                                  /\ db'[j].hash = db[j].hash
                                  /\ db'[j].previous_hash = db[j].previous_hash
      BY <1>8 DEF EditRow, TypeOK, AuditEntry
    <2>2. audit_log = <<>> /\ \A t \in Actors : request[t] = Idle
      BY <2>1 DEF EntriesInv, StoppedEmpty
    <2>3. RowsInOrder'
      <3>1. DOMAIN db = 1..Cardinality(DOMAIN db)
        BY <1>0, <2>1 DEF Serial, TableGapless
      <3>2. Cardinality(DOMAIN db) \in Nat
        BY FS_CardinalityType DEF TypeOK
      <3>3. QED
        BY <1>0, <2>1, <3>1, <3>2 DEF Serial, RowsInOrder, InOrder, LinkHolds
    <2>4. AckedStored'
      BY <1>0, <2>1 DEF Serial, AckedStored
    <2>5. QED
      BY <1>0, <2>1, <2>2, <2>3, <2>4
      DEF Serial, OneAtATime, LogInOrder, WorkCurrent, TableIsLog, TableGapless,
          InOrder, LinkHolds, Busy, Idle
  <1>9. CASE UNCHANGED vars
    BY <1>0, <1>9
    DEF vars, Serial, OneAtATime, LogInOrder, RowsInOrder, WorkCurrent, TableIsLog,
        TableGapless, AckedStored, InOrder, LinkHolds, Busy, AllStored, TailHash
  <1>10. QED
    BY <1>1, <1>2, <1>3, <1>4, <1>5, <1>6, <1>7, <1>8, <1>9 DEF Next

LEMMA SerialInvHolds == Spec => []SerialInv
  BY InitSerialInv, NextSerialInv, TypeCorrect, EntriesInvHolds, PTL DEF Spec

\* verify_chain is right while requests come one at a time and the disk works,
\* across any number of crashes: every link holds, so its verdict is the
\* verdict on the contents, and that is the presence of an altered row.
THEOREM VerdictIsRight == Spec => []VerdictRight
  <1>1. SerialInv => VerdictRight
    BY DEF SerialInv, Serial, LogInOrder, InOrder, VerdictRight, VerifyChain
  <1>2. QED
    BY <1>1, SerialInvHolds, PTL

\* Under the same conditions what a caller was told is done is in the table.
THEOREM AcknowledgedIsDurable == Spec => []AckedDurable
  <1>1. SerialInv => AckedDurable
    BY DEF SerialInv, Serial, AckedStored, AckedDurable
  <1>2. QED
    BY <1>1, SerialInvHolds, PTL

-----------------------------------------------------------------------------
LEMMA InitFirstLife == Init => FirstLifeInv
  BY DEF Init, FirstLifeInv, Idle

\* What a hash of the log points at survives the appending of an entry.
LEMMA HashAtKept ==
  ASSUME TypeOK, NEW e \in AuditEntry, audit_log' = Append(audit_log, e),
         NEW p \in 0..Len(audit_log)
  PROVE  HashAt(p)' = HashAt(p)
  <1>1. CASE p = 0
    BY <1>1 DEF HashAt, Genesis
  <1>2. CASE p # 0
    <2>1. p \in 1..Len(audit_log) /\ audit_log \in Seq(AuditEntry)
      BY <1>2 DEF TypeOK
    <2>2. audit_log'[p] = audit_log[p]
      BY <2>1
    <2>3. QED
      BY <1>2, <2>2 DEF HashAt
  <1>3. QED
    BY <1>1, <1>2

LEMMA NextFirstLife ==
  TypeOK /\ EntriesInv /\ FirstLifeInv /\ [Next]_vars => FirstLifeInv'
  <1> SUFFICES ASSUME TypeOK, EntriesInv, FirstLifeInv, [Next]_vars, crashes' = 0
               PROVE  FirstLifeInv'
    BY DEF FirstLifeInv
  <1> DEFINE n == Len(audit_log)
  <1>0. /\ crashes = 0
        /\ n \in Nat
        /\ DOMAIN audit_log = 1..n
    <2>1. crashes' = crashes \/ crashes' = crashes + 1
      BY DEF Next, Load, Begin, Submit, ReadTail, Build, AppendEntry, Persist,
             Crash, EditRow, vars
    <2>2. crashes \in Nat
      BY MaxCrashesAssumption DEF TypeOK
    <2>3. QED
      BY <2>1, <2>2 DEF TypeOK
  <1>1. ASSUME NEW readable \in BOOLEAN, Load(readable) PROVE FirstLifeInv'
    <2>1. /\ state = "down" /\ state' # "down"
          /\ DOMAIN db = {}
      BY <1>0, <1>1 DEF Load, FirstLifeInv
    <2>2. audit_log' = <<>>
      <3>1. CASE readable
        <4>1. PICK order \in Orderings :
                audit_log' = [k \in DOMAIN order |-> db[order[k]]]
          BY <1>1, <3>1 DEF Load
        <4>2. DOMAIN order = {}
          BY <2>1, FS_EmptySet DEF Orderings
        <4>3. QED
          BY <4>1, <4>2
      <3>2. CASE ~readable
        BY <1>1, <3>2 DEF Load
      <3>3. QED
        BY <3>1, <3>2
    <2>3. \A t \in Actors : request'[t] = Idle \/ request'[t].pc = "call"
      BY <1>1, <2>1 DEF Load, EntriesInv, StoppedEmpty, TypeOK
    <2>4. QED
      BY <2>1, <2>2, <2>3 DEF FirstLifeInv, Idle
  <1>2. ASSUME NEW t \in Threads, NEW body \in Body, Begin(t, body) PROVE FirstLifeInv'
    <2>1. /\ audit_log' = audit_log /\ db' = db /\ state' = state
          /\ request'[t].pc \in {"submitting", "call"}
          /\ \A u \in Actors : u # t => request'[u] = request[u]
      BY <1>2 DEF Begin, Actors, TypeOK
    <2>2. QED
      BY <1>0, <2>1 DEF FirstLifeInv, Anchored, HashAt
  <1>3. ASSUME NEW t \in Actors, Submit(t) PROVE FirstLifeInv'
    <2>1. /\ audit_log' = audit_log /\ db' = db /\ state' = state
          /\ request'[t].pc = "call"
          /\ \A u \in Actors : u # t => request'[u] = request[u]
      BY <1>3 DEF Submit, TypeOK
    <2>2. QED
      BY <1>0, <2>1 DEF FirstLifeInv, Anchored, HashAt
  <1>4. ASSUME NEW t \in Actors, ReadTail(t) PROVE FirstLifeInv'
    <2>1. /\ audit_log' = audit_log /\ db' = db /\ state' = state
          /\ request'[t].pc = "linked"
          /\ request'[t].previous_hash = TailHash(audit_log)
          /\ \A u \in Actors : u # t => request'[u] = request[u]
      BY <1>4 DEF ReadTail, TypeOK
    <2>2. n \in 0..n /\ TailHash(audit_log) = HashAt(n)
      BY <1>0 DEF TailHash, HashAt, TypeOK
    <2>3. QED
      BY <1>0, <2>1, <2>2 DEF FirstLifeInv, Anchored, HashAt
  <1>5. ASSUME NEW t \in Actors, Build(t) PROVE FirstLifeInv'
    <2>1. /\ audit_log' = audit_log /\ db' = db /\ state' = state
          /\ request[t].pc = "linked"
          /\ request'[t].pc = "built"
          /\ request'[t].entry.previous_hash = request[t].previous_hash
          /\ request'[t].entry.event_id = n + 1
          /\ \A u \in Actors : u # t => request'[u] = request[u]
      BY <1>5 DEF Build, TypeOK
    <2>2. PICK p \in 0..n : request[t].previous_hash = HashAt(p)
      BY <1>0, <2>1 DEF FirstLifeInv
    <2>3. p + 1 <= n + 1 /\ n + 1 <= n + 1
      BY <1>0
    <2>4. Anchored(request'[t].entry.previous_hash, request'[t].entry.event_id, n)
      BY <2>1, <2>2, <2>3 DEF Anchored
    <2>5. QED
      BY <1>0, <2>1, <2>4 DEF FirstLifeInv, Anchored, HashAt
  <1>6. ASSUME NEW t \in Actors, AppendEntry(t) PROVE FirstLifeInv'
    <2> DEFINE e == request[t].entry
    <2>1. /\ audit_log' = Append(audit_log, e) /\ db' = db /\ state' = state
          /\ request[t].pc = "built"
          /\ request'[t].pc = "appended"
          /\ \A u \in Actors : u # t => request'[u] = request[u]
      BY <1>6 DEF AppendEntry, TypeOK
    <2>2. e \in AuditEntry
      <3>1. request[t] \in RequestState
        BY DEF TypeOK
      <3>2. QED
        BY <2>1, <3>1 DEF RequestState, Idle
    <2>3. \A p \in 0..n : HashAt(p)' = HashAt(p)
      BY <2>1, <2>2, HashAtKept
    <2>4. /\ Len(audit_log') = n + 1
          /\ DOMAIN audit_log' = 1..(n + 1)
          /\ \A i \in 1..n : audit_log'[i] = audit_log[i]
          /\ audit_log'[n + 1] = e
      BY <1>0, <2>1, <2>2 DEF TypeOK
    <2>5. ASSUME NEW prev, NEW id \in Nat, NEW last \in 0..n, Anchored(prev, id, last)
          PROVE  \E p \in 0..last : prev = HashAt(p)' /\ p + 1 <= id /\ id <= last + 1
      <3>1. 0..last \subseteq 0..n
        BY <1>0
      <3>2. QED
        BY <2>3, <2>5, <3>1 DEF Anchored
    <2>6. ASSUME NEW i \in DOMAIN audit_log'
          PROVE  Anchored(audit_log[i].previous_hash, audit_log[i].event_id, i - 1)'
      <3>1. CASE i \in 1..n
        <4>1. /\ Anchored(audit_log[i].previous_hash, audit_log[i].event_id, i - 1)
              /\ i - 1 \in 0..n
              /\ audit_log[i].event_id \in Nat
          <5>1. audit_log[i] \in AuditEntry
            BY <1>0, <3>1 DEF TypeOK
          <5>2. audit_log[i].event_id \in Nat
            BY <5>1 DEF AuditEntry
          <5>3. i - 1 \in 0..n
            BY <1>0, <3>1
          <5>4. QED
            BY <1>0, <3>1, <5>2, <5>3 DEF FirstLifeInv
        <4>2. \E p \in 0..(i - 1) : /\ audit_log[i].previous_hash = HashAt(p)'
                                     /\ p + 1 <= audit_log[i].event_id
                                     /\ audit_log[i].event_id <= (i - 1) + 1
          BY <2>5, <4>1
        <4>3. QED
          BY <2>4, <3>1, <4>2 DEF Anchored, HashAt
      <3>2. CASE i = n + 1
        <4>1. /\ Anchored(e.previous_hash, e.event_id, n)
              /\ n \in 0..n
              /\ e.event_id \in Nat
          BY <1>0, <2>1, <2>2 DEF FirstLifeInv, AuditEntry
        <4>2. \E p \in 0..n : /\ e.previous_hash = HashAt(p)'
                               /\ p + 1 <= e.event_id
                               /\ e.event_id <= n + 1
          BY <2>5, <4>1
        <4>3. i - 1 = n
          BY <1>0, <3>2
        <4>4. QED
          BY <2>4, <3>2, <4>2, <4>3 DEF Anchored, HashAt
      <3>3. QED
        BY <1>0, <2>4, <3>1, <3>2
    <2>7. ASSUME NEW u \in Actors, u # t, request[u].pc = "linked"
          PROVE  \E p \in 0..(n + 1) : request[u].previous_hash = HashAt(p)'
      <3>1. PICK p \in 0..n : request[u].previous_hash = HashAt(p)
        BY <1>0, <2>7 DEF FirstLifeInv
      <3>2. p \in 0..(n + 1)
        BY <1>0
      <3>3. QED
        BY <2>3, <3>1, <3>2
    <2>8. ASSUME NEW u \in Actors, u # t, request[u].pc = "built"
          PROVE  \E p \in 0..(n + 1) :
                   /\ request[u].entry.previous_hash = HashAt(p)'
                   /\ p + 1 <= request[u].entry.event_id
                   /\ request[u].entry.event_id <= n + 2
      <3>1. Anchored(request[u].entry.previous_hash, request[u].entry.event_id, n)
        BY <1>0, <2>8 DEF FirstLifeInv
      <3>2. request[u].entry.event_id \in Nat
        <4>1. request[u] \in RequestState
          BY DEF TypeOK
        <4>2. QED
          BY <2>8, <4>1 DEF RequestState, Idle, AuditEntry
      <3>3. PICK p \in 0..n : /\ request[u].entry.previous_hash = HashAt(p)
                              /\ p + 1 <= request[u].entry.event_id
                              /\ request[u].entry.event_id <= n + 1
        BY <3>1 DEF Anchored
      <3>4. p \in 0..(n + 1) /\ request[u].entry.event_id <= n + 2
        BY <1>0, <3>2, <3>3
      <3>5. QED
        BY <2>3, <3>3, <3>4
    <2>9. \A u \in Actors :
            /\ request'[u].pc = "linked" =>
                 \E p \in 0..Len(audit_log') : request'[u].previous_hash = HashAt(p)'
            /\ request'[u].pc = "built" =>
                 Anchored(request[u].entry.previous_hash, request[u].entry.event_id,
                          Len(audit_log))'
      <3>1. n + 2 = (n + 1) + 1
        BY <1>0
      <3>2. QED
        BY <2>1, <2>4, <2>7, <2>8, <3>1 DEF Anchored, HashAt
    <2>10. QED
      <3>1. state' # "down"
        BY <2>1 DEF EntriesInv, StoppedEmpty, Idle
      <3>2. QED
        BY <2>6, <2>9, <3>1 DEF FirstLifeInv, Anchored, HashAt
  <1>7. ASSUME NEW t \in Actors, NEW ok \in BOOLEAN, Persist(t, ok) PROVE FirstLifeInv'
    <2>1. /\ audit_log' = audit_log /\ state' = "serving"
          /\ request'[t] = Idle
          /\ \A u \in Actors : u # t => request'[u] = request[u]
      BY <1>7 DEF Persist, TypeOK
    <2>2. QED
      BY <1>0, <2>1 DEF FirstLifeInv, Anchored, HashAt, Idle
  <1>8. ASSUME Crash PROVE FirstLifeInv'
    BY <1>0, <1>8 DEF Crash
  <1>9. ASSUME NEW i \in DOMAIN db, NEW body \in Body, EditRow(i, body)
        PROVE  FirstLifeInv'
    BY <1>0, <1>9 DEF EditRow, FirstLifeInv
  <1>10. CASE UNCHANGED vars
    BY <1>0, <1>10 DEF vars, FirstLifeInv, Anchored, HashAt
  <1>11. QED
    BY <1>1, <1>2, <1>3, <1>4, <1>5, <1>6, <1>7, <1>8, <1>9, <1>10 DEF Next

\* In the first process a chain that verifies is numbered 1, 2, 3, ...: an entry
\* numbered too low was built before others were appended, so its link does not
\* point at its neighbour.
THEOREM ValidIsNumbered == Spec => []ValidMeansNumbered
  <1>1. TypeOK /\ EntriesInv /\ FirstLifeInv => ValidMeansNumbered
    <2> SUFFICES ASSUME TypeOK, EntriesInv, FirstLifeInv, crashes = 0, VerifyChain,
                        NEW i \in DOMAIN audit_log
                 PROVE  audit_log[i].event_id = i
      BY DEF ValidMeansNumbered
    <2>1. i \in Nat /\ i # 0 /\ i \in 1..Len(audit_log) /\ Len(audit_log) \in Nat
      BY DEF TypeOK
    <2>2. PICK p \in 0..(i - 1) : /\ audit_log[i].previous_hash = HashAt(p)
                                  /\ p + 1 <= audit_log[i].event_id
                                  /\ audit_log[i].event_id <= (i - 1) + 1
      BY DEF FirstLifeInv, Anchored
    <2>3. HashAt(p) = HashAt(i - 1)
      BY <2>1, <2>2 DEF VerifyChain, LinkHolds, HashAt
    <2>4. p = i - 1
      <3>1. \A q \in DOMAIN audit_log : audit_log[q].hash # Genesis
        BY DEF EntriesInv, LogHashes, Genesis, TypeOK
      <3>2. /\ p # 0 => p \in DOMAIN audit_log
            /\ i - 1 # 0 => i - 1 \in DOMAIN audit_log
        BY <2>1 DEF TypeOK
      <3>3. QED
        BY <2>3, <3>1, <3>2 DEF HashAt, EntriesInv, LogHashes
    <2>5. audit_log[i].event_id \in Nat
      <3>1. audit_log[i] \in AuditEntry
        BY DEF TypeOK
      <3>2. QED
        BY <3>1 DEF AuditEntry
    <2>6. QED
      BY <2>1, <2>2, <2>4, <2>5
  <1>2. Spec => []FirstLifeInv
    BY InitFirstLife, NextFirstLife, TypeCorrect, EntriesInvHolds, PTL DEF Spec
  <1>3. QED
    BY <1>1, <1>2, TypeCorrect, EntriesInvHolds, PTL

-----------------------------------------------------------------------------
\* Counting: one more element is one more occurrence of its value, and of no other.
Occurrences(s, c) == {i \in DOMAIN s : s[i] = c}

LEMMA OccurrencesFinite ==
  ASSUME NEW S, NEW s \in Seq(S), NEW c
  PROVE  IsFiniteSet(Occurrences(s, c)) /\ Cardinality(Occurrences(s, c)) \in Nat
  <1>1. IsFiniteSet(1..Len(s))
    BY FS_Interval
  <1>2. Occurrences(s, c) \subseteq 1..Len(s)
    BY DEF Occurrences
  <1>3. IsFiniteSet(Occurrences(s, c))
    BY <1>1, <1>2, FS_Subset
  <1>4. QED
    BY <1>3, FS_CardinalityType

LEMMA OccurrencesAppend ==
  ASSUME NEW S, NEW s \in Seq(S), NEW x \in S, NEW c
  PROVE  Cardinality(Occurrences(Append(s, x), c))
           = Cardinality(Occurrences(s, c)) + IF x = c THEN 1 ELSE 0
  <1>1. /\ Len(s) \in Nat /\ DOMAIN s = 1..Len(s)
        /\ DOMAIN Append(s, x) = 1..(Len(s) + 1)
        /\ \A i \in 1..Len(s) : Append(s, x)[i] = s[i]
        /\ Append(s, x)[Len(s) + 1] = x
    OBVIOUS
  <1> Len(s) + 1 \notin Occurrences(s, c)
    BY <1>1 DEF Occurrences
  <1>2. IsFiniteSet(Occurrences(s, c)) /\ Cardinality(Occurrences(s, c)) \in Nat
    BY OccurrencesFinite
  <1>3. CASE x = c
    <2>1. Occurrences(Append(s, x), c) = Occurrences(s, c) \cup {Len(s) + 1}
      BY <1>1, <1>3 DEF Occurrences
    <2>2. QED
      BY <1>2, <1>3, <2>1, FS_AddElement
  <1>4. CASE x # c
    <2>1. Occurrences(Append(s, x), c) = Occurrences(s, c)
      BY <1>1, <1>4 DEF Occurrences
    <2>2. QED
      BY <1>2, <1>4, <2>1
  <1>5. QED
    BY <1>3, <1>4

LEMMA EntriesForFinite ==
  ASSUME TypeOK, NEW body
  PROVE  IsFiniteSet(EntriesFor(body)) /\ Cardinality(EntriesFor(body)) \in Nat
  <1>1. IsFiniteSet(1..Len(audit_log))
    BY FS_Interval DEF TypeOK
  <1>2. EntriesFor(body) \subseteq 1..Len(audit_log)
    BY DEF EntriesFor, TypeOK
  <1>3. IsFiniteSet(EntriesFor(body))
    BY <1>1, <1>2, FS_Subset
  <1>4. QED
    BY <1>3, FS_CardinalityType

LEMMA EntriesForAppend ==
  ASSUME TypeOK, NEW e \in AuditEntry, audit_log' = Append(audit_log, e), NEW body
  PROVE  Cardinality(EntriesFor(body)')
           = Cardinality(EntriesFor(body)) + IF e.body = body THEN 1 ELSE 0
  <1>1. /\ Len(audit_log) \in Nat /\ DOMAIN audit_log = 1..Len(audit_log)
        /\ DOMAIN audit_log' = 1..(Len(audit_log) + 1)
        /\ \A i \in 1..Len(audit_log) : audit_log'[i] = audit_log[i]
        /\ audit_log'[Len(audit_log) + 1] = e
    BY DEF TypeOK
  <1> Len(audit_log) + 1 \notin EntriesFor(body)
    BY <1>1 DEF EntriesFor
  <1>2. IsFiniteSet(EntriesFor(body)) /\ Cardinality(EntriesFor(body)) \in Nat
    BY EntriesForFinite
  <1>3. CASE e.body = body
    <2>1. EntriesFor(body)' = EntriesFor(body) \cup {Len(audit_log) + 1}
      BY <1>1, <1>3 DEF EntriesFor
    <2>2. QED
      BY <1>2, <1>3, <2>1, FS_AddElement
  <1>4. CASE e.body # body
    <2>1. EntriesFor(body)' = EntriesFor(body)
      BY <1>1, <1>4 DEF EntriesFor
    <2>2. QED
      BY <1>2, <1>4, <2>1
  <1>5. QED
    BY <1>3, <1>4

LEMMA UnappendedFinite ==
  ASSUME NEW body
  PROVE  IsFiniteSet(Unappended(body)) /\ Cardinality(Unappended(body)) \in Nat
  <1>1. IsFiniteSet(Threads \cup {Main})
    BY ThreadsAssumption, FS_AddElement
  <1>2. Unappended(body) \subseteq Threads \cup {Main}
    BY DEF Unappended, Actors
  <1>3. IsFiniteSet(Unappended(body))
    BY <1>1, <1>2, FS_Subset
  <1>4. QED
    BY <1>3, FS_CardinalityType

\* The lists of a process that is down are as empty as its log.
Decisions(action) == IF action = "HUMAN_REVIEW_SUBMITTED" THEN reviews ELSE sar_signoffs
Decision(action, c) == [action |-> action, resource |-> c]
Recorded(action, c) ==
  Cardinality(Occurrences(Decisions(action), c))
    <= Cardinality(EntriesFor(Decision(action, c))) + Cardinality(Unappended(Decision(action, c)))
ListsEmpty == state = "down" => reviews = <<>> /\ sar_signoffs = <<>>
DecisionsInv ==
  ListsEmpty /\ \A c \in Customers \cup Strangers, action \in ListActions : Recorded(action, c)

LEMMA NothingDecided ==
  TypeOK /\ reviews = <<>> /\ sar_signoffs = <<>> => \A action, c : Recorded(action, c)
  <1> SUFFICES ASSUME TypeOK, reviews = <<>>, sar_signoffs = <<>>, NEW action, NEW c
               PROVE  Recorded(action, c)
    OBVIOUS
  <1>1. Occurrences(Decisions(action), c) = {}
    BY DEF Occurrences, Decisions
  <1>2. Cardinality(Occurrences(Decisions(action), c)) = 0
    BY <1>1, FS_EmptySet
  <1>3. QED
    BY <1>2, EntriesForFinite, UnappendedFinite DEF Recorded

\* A step that leaves the lists, the log and the waiting threads as they are.
LEMMA RecordedKept ==
  ASSUME NEW action, NEW c, Recorded(action, c),
         reviews' = reviews, sar_signoffs' = sar_signoffs, audit_log' = audit_log,
         Unappended(Decision(action, c))' = Unappended(Decision(action, c))
  PROVE  Recorded(action, c)'
  <1>1. EntriesFor(Decision(action, c))' = EntriesFor(Decision(action, c))
    BY DEF EntriesFor, Decision
  <1>2. Occurrences(Decisions(action), c)' = Occurrences(Decisions(action), c)
    BY DEF Occurrences, Decisions
  <1>3. QED
    BY <1>1, <1>2 DEF Recorded

LEMMA NextDecisionsInv ==
  TypeOK /\ TypeOK' /\ EntriesInv /\ DecisionsInv /\ [Next]_vars => DecisionsInv'
  <1> SUFFICES ASSUME TypeOK, TypeOK', EntriesInv, DecisionsInv, [Next]_vars PROVE DecisionsInv'
    OBVIOUS
  <1>1. CASE UNCHANGED vars
    <2>1. \A body : Unappended(body)' = Unappended(body)
      BY <1>1 DEF vars, Unappended
    <2>2. ListsEmpty'
      BY <1>1 DEF vars, DecisionsInv, ListsEmpty
    <2>3. \A c \in Customers \cup Strangers, action \in ListActions : Recorded(action, c)'
      <3> SUFFICES ASSUME NEW c \in Customers \cup Strangers, NEW action \in ListActions
                   PROVE  Recorded(action, c)'
        OBVIOUS
      <3>1. Unappended(Decision(action, c))' = Unappended(Decision(action, c))
        BY <2>1 DEF Decision
      <3>2. QED
        BY <1>1, <3>1, RecordedKept DEF vars, DecisionsInv
    <2>4. QED
      BY <2>2, <2>3 DEF DecisionsInv
  <1>2. CASE reviews' = <<>> /\ sar_signoffs' = <<>>
    <2>1. \A action, c : Recorded(action, c)'
      <3>1. (TypeOK /\ reviews = <<>> /\ sar_signoffs = <<>>)'
        BY <1>2
      <3>2. (\A action, c : Recorded(action, c))'
        BY <3>1, NothingDecided, PTL
      <3>3. QED
        BY <3>2
    <2>2. QED
      BY <1>2, <2>1 DEF DecisionsInv, ListsEmpty
  <1>3. ASSUME NEW t \in Threads, NEW body \in Body, Begin(t, body) PROVE DecisionsInv'
    <2>1. /\ state # "down" /\ t \in Actors /\ t \in DOMAIN request /\ ~Busy(t)
      BY <1>3 DEF Begin, TypeOK, Actors
    <2>2. ASSUME NEW c, NEW action \in ListActions
          PROVE  Unappended(Decision(action, c))' = Unappended(Decision(action, c))
      <3>1. t \notin Unappended(Decision(action, c))
        BY <2>1 DEF Unappended, Busy
      <3>2. t \notin Unappended(Decision(action, c))'
        BY <1>3, <2>1 DEF Begin, Unappended, Decision
      <3>3. \A u \in Actors : u # t => request'[u] = request[u]
        BY <1>3, <2>1 DEF Begin, TypeOK
      <3>4. QED
        BY <3>1, <3>2, <3>3 DEF Unappended
    <2>3. \A c \in Customers \cup Strangers, action \in ListActions : Recorded(action, c)'
      BY <1>3, <2>2, RecordedKept DEF Begin, DecisionsInv
    <2>4. ListsEmpty'
      BY <1>3, <2>1 DEF Begin, ListsEmpty
    <2>5. QED
      BY <2>3, <2>4 DEF DecisionsInv
  <1>4. ASSUME NEW t \in Actors, Submit(t) PROVE DecisionsInv'
    <2>1. /\ state' = state /\ t \in DOMAIN request /\ audit_log' = audit_log
          /\ \A u \in Actors : u # t => request'[u] = request[u]
      BY <1>4 DEF Submit, TypeOK
    <2>8. state # "down"
      <3>1. state = "down" => request[t] = Idle
        BY DEF EntriesInv, StoppedEmpty
      <3>2. QED
        BY <1>4, <3>1 DEF Submit, Idle
    <2>2. PICK a \in ListActions, r \in Customers \cup Strangers :
            request[t].body = Decision(a, r)
      <3>1. request[t] \in RequestState
        BY DEF TypeOK
      <3>2. request[t].body \in [action : ListActions, resource : Customers \cup Strangers]
        BY <1>4, <3>1 DEF Submit, RequestState, Idle
      <3>3. QED
        BY <3>2 DEF Decision
    <2>3. /\ Decision(a, r).action = a /\ Decision(a, r).resource = r
          /\ request'[t] = [pc |-> "call", body |-> Decision(a, r)]
      BY <1>4, <2>1, <2>2 DEF Submit, Decision
    <2>6. Decisions(a)' = Append(Decisions(a), r) /\ Decisions(a) \in Seq(Customers \cup Strangers)
      <3>1. reviews \in Seq(Customers \cup Strangers) /\ sar_signoffs \in Seq(Customers \cup Strangers)
        BY DEF TypeOK
      <3>2. a = "HUMAN_REVIEW_SUBMITTED" \/ a = "SAR_DRAFT_SIGNED_OFF"
        BY DEF ListActions
      <3>3. QED
        BY <1>4, <2>2, <2>3, <3>1, <3>2 DEF Submit, Decisions
    <2>7. ASSUME NEW action \in ListActions, action # a
          PROVE  Decisions(action)' = Decisions(action)
      BY <1>4, <2>2, <2>3, <2>7 DEF Submit, Decisions, ListActions
    <2>4. ASSUME NEW c \in Customers \cup Strangers, NEW action \in ListActions
          PROVE  Recorded(action, c)'
      <3> DEFINE b == Decision(action, c)
      <3>1. EntriesFor(b)' = EntriesFor(b)
        BY <2>1 DEF EntriesFor, Decision
      <3>2. t \notin Unappended(b)
        BY <1>4 DEF Submit, Unappended
      <3>3. t \in Unappended(b)' <=> (a = action /\ r = c)
        BY <2>3 DEF Unappended, Decision
      <3>4. CASE a = action /\ r = c
        <4>1. Unappended(b)' = Unappended(b) \cup {t}
          BY <2>1, <3>3, <3>4 DEF Unappended, Decision
        <4>2. Cardinality(Unappended(b)') = Cardinality(Unappended(b)) + 1
          BY <3>2, <4>1, UnappendedFinite, FS_AddElement
        <4>3. Decisions(action)' = Append(Decisions(action), c)
              /\ Decisions(action) \in Seq(Customers \cup Strangers)
          BY <2>6, <3>4 DEF Decisions
        <4>4. Cardinality(Occurrences(Decisions(action), c)')
                = Cardinality(Occurrences(Decisions(action), c)) + 1
          <5>1. Occurrences(Decisions(action), c)' = Occurrences(Append(Decisions(action), c), c)
            BY <4>3 DEF Occurrences
          <5>2. QED
            BY <4>3, <5>1, OccurrencesAppend
        <4>5. QED
          <5>1. Cardinality(Occurrences(Decisions(action), c)) \in Nat
            BY <4>3, OccurrencesFinite
          <5>2. Recorded(action, c) /\ Decision(action, c)' = Decision(action, c)
            BY DEF DecisionsInv, Decision
          <5> HIDE DEF b
          <5>3. QED
            BY <3>1, <4>2, <4>4, <5>1, <5>2, EntriesForFinite, UnappendedFinite
            DEF Recorded, b
      <3>5. CASE ~(a = action /\ r = c)
        <4>1. Unappended(b)' = Unappended(b)
          BY <2>1, <3>2, <3>3, <3>5 DEF Unappended, Decision
        <4>2. Cardinality(Occurrences(Decisions(action), c)')
                = Cardinality(Occurrences(Decisions(action), c))
          <5>1. CASE a = action
            <6>1. Decisions(action)' = Append(Decisions(action), r) /\ r # c
                  /\ Decisions(action) \in Seq(Customers \cup Strangers)
              BY <2>6, <3>5, <5>1 DEF Decisions
            <6>2. Cardinality(Occurrences(Decisions(action), c)')
                    = Cardinality(Occurrences(Decisions(action), c)) + 0
              <7>1. Occurrences(Decisions(action), c)'
                      = Occurrences(Append(Decisions(action), r), c)
                BY <6>1 DEF Occurrences
              <7>2. QED
                BY <6>1, <7>1, OccurrencesAppend
            <6>3. QED
              BY <6>1, <6>2, OccurrencesFinite
          <5>2. CASE a # action
            <6>1. Decisions(action)' = Decisions(action)
              BY <2>7, <5>2
            <6>2. QED
              BY <6>1 DEF Occurrences
          <5>3. QED
            BY <5>1, <5>2
        <4>3. Recorded(action, c) /\ Decision(action, c)' = Decision(action, c)
          BY DEF DecisionsInv, Decision
        <4> HIDE DEF b
        <4>4. QED
          BY <3>1, <4>1, <4>2, <4>3 DEF Recorded, b
      <3>6. QED
        BY <3>4, <3>5
    <2>5. QED
      BY <2>1, <2>4, <2>8 DEF DecisionsInv, ListsEmpty
  <1>5. ASSUME NEW t \in Actors, ReadTail(t) \/ Build(t) PROVE DecisionsInv'
    <2>1. state' = state /\ t \in DOMAIN request
          /\ \A u \in Actors : u # t => request'[u] = request[u]
      BY <1>5 DEF ReadTail, Build, TypeOK
    <2>2. ASSUME NEW c, NEW action
          PROVE  Unappended(Decision(action, c))' = Unappended(Decision(action, c))
      <3>1. t \in Unappended(Decision(action, c)) <=> request[t].body = Decision(action, c)
        BY <1>5 DEF ReadTail, Build, Unappended
      <3>2. t \in Unappended(Decision(action, c))' <=> request[t].body = Decision(action, c)
        BY <1>5, <2>1 DEF ReadTail, Build, Unappended, Decision
      <3>3. QED
        BY <2>1, <3>1, <3>2 DEF Unappended, Decision
    <2>3. \A c \in Customers \cup Strangers, action \in ListActions : Recorded(action, c)'
      BY <1>5, <2>2, RecordedKept DEF ReadTail, Build, DecisionsInv
    <2>4. QED
      BY <1>5, <2>1, <2>3 DEF ReadTail, Build, DecisionsInv, ListsEmpty
  <1>6. ASSUME NEW t \in Actors, AppendEntry(t) PROVE DecisionsInv'
    <2>1. /\ state' = state /\ t \in DOMAIN request /\ request[t].entry \in AuditEntry
          /\ \A u \in Actors : u # t => request'[u] = request[u]
      BY <1>6 DEF AppendEntry, TypeOK, RequestState, Idle
    <2>2. ASSUME NEW c \in Customers \cup Strangers, NEW action \in ListActions
          PROVE  Recorded(action, c)'
      <3> DEFINE b == Decision(action, c)
      <3>1. Occurrences(Decisions(action), c)' = Occurrences(Decisions(action), c)
        BY <1>6 DEF AppendEntry, Occurrences, Decisions
      <3>2. t \in Unappended(b) <=> request[t].entry.body = b
        BY <1>6 DEF AppendEntry, Unappended
      <3>3. t \notin Unappended(b)'
        BY <1>6, <2>1 DEF AppendEntry, Unappended
      <3>4. Unappended(b)' = Unappended(b) \ {t}
        BY <2>1, <3>3 DEF Unappended, Decision
      <3>5. Cardinality(Unappended(b)')
              = Cardinality(Unappended(b)) - IF request[t].entry.body = b THEN 1 ELSE 0
        <4>1. IsFiniteSet(Unappended(b)) /\ Cardinality(Unappended(b)) \in Nat
          BY UnappendedFinite
        <4>2. Cardinality(Unappended(b) \ {t})
                = IF t \in Unappended(b) THEN Cardinality(Unappended(b)) - 1
                  ELSE Cardinality(Unappended(b))
          BY <4>1, FS_RemoveElement
        <4> HIDE DEF b
        <4>3. QED
          BY <3>2, <3>4, <4>1, <4>2
      <3>6. Cardinality(EntriesFor(b)')
              = Cardinality(EntriesFor(b)) + IF request[t].entry.body = b THEN 1 ELSE 0
        BY <1>6, <2>1, EntriesForAppend DEF AppendEntry
      <3>7. Recorded(action, c)
        BY DEF DecisionsInv
      <3>8. Decision(action, c)' = Decision(action, c)
        BY DEF Decision
      <3> HIDE DEF b
      <3>9. QED
        BY <3>1, <3>5, <3>6, <3>7, <3>8, EntriesForFinite, UnappendedFinite DEF Recorded, b
    <2>3. QED
      BY <1>6, <2>1, <2>2 DEF AppendEntry, DecisionsInv, ListsEmpty
  <1>7. ASSUME NEW t \in Actors, NEW ok \in BOOLEAN, Persist(t, ok) PROVE DecisionsInv'
    <2>1. /\ state' # "down" /\ t \in DOMAIN request
          /\ \A u \in Actors : u # t => request'[u] = request[u]
      BY <1>7 DEF Persist, TypeOK
    <2>2. ASSUME NEW c, NEW action
          PROVE  Unappended(Decision(action, c))' = Unappended(Decision(action, c))
      <3>1. t \notin Unappended(Decision(action, c))
        BY <1>7 DEF Persist, Unappended
      <3>2. t \notin Unappended(Decision(action, c))'
        BY <1>7, <2>1 DEF Persist, Unappended, Idle
      <3>3. QED
        BY <2>1, <3>1, <3>2 DEF Unappended, Decision
    <2>3. \A c \in Customers \cup Strangers, action \in ListActions : Recorded(action, c)'
      BY <1>7, <2>2, RecordedKept DEF Persist, DecisionsInv
    <2>4. QED
      BY <2>1, <2>3 DEF DecisionsInv, ListsEmpty
  <1>8. ASSUME (\E readable \in BOOLEAN : Load(readable)) \/ Crash
               \/ \E i \in DOMAIN db, body \in Body : EditRow(i, body)
        PROVE  reviews' = <<>> /\ sar_signoffs' = <<>>
    BY <1>8 DEF Load, Crash, EditRow, DecisionsInv, ListsEmpty
  <1>9. QED
    BY <1>1, <1>2, <1>3, <1>4, <1>5, <1>6, <1>7, <1>8 DEF Next

\* No human decision goes unrecorded: each review and each sign-off in memory has an
\* entry of its own in the log, or a handler that is about to append it (submit_review
\* and signoff_sar, governance.py), for any number of threads and in any interleaving.
THEOREM DecisionsAreRecorded == Spec => []DecisionsRecorded
  <1>1. Init => DecisionsInv
    BY NothingDecided, InitTypeOK DEF Init, DecisionsInv, ListsEmpty
  <1>2. DecisionsInv => DecisionsRecorded
    BY DEF DecisionsInv, Recorded, Decisions, Decision, Occurrences, DecisionsRecorded
  <1>3. QED
    BY <1>1, <1>2, NextDecisionsInv, TypeCorrect, EntriesInvHolds, PTL DEF Spec

-----------------------------------------------------------------------------
\* Reading the table back visits every row.
LEMMA OrderingOnto ==
  ASSUME TypeOK, NEW order \in Orderings, NEW i \in DOMAIN db
  PROVE  \E k \in DOMAIN order : order[k] = i
  <1> DEFINE n == Cardinality(DOMAIN db)
  <1>1. IsFiniteSet(DOMAIN db) /\ n \in Nat
    BY FS_CardinalityType DEF TypeOK
  <1>2. order \in [1..n -> DOMAIN db] /\ DOMAIN order = 1..n
    BY DEF Orderings
  <1>3. order \in Injection(1..n, DOMAIN db)
    BY <1>2, OrderingInjective DEF Injection, IsInjective
  <1>4. Cardinality(1..n) = n
    BY <1>1, FS_Interval
  <1>5. order \in Surjection(1..n, DOMAIN db)
    BY <1>1, <1>3, <1>4, FS_Injection
  <1>6. QED
    BY <1>2, <1>5 DEF Surjection

\* The store implements the abstract trail: every step of it records, stores,
\* crashes, reopens, is an edit by hand, or is invisible there.
THEOREM StoreImplementsTrail == Spec => ImplementsTrail
  <1> DEFINE running == state # "down"
             stored == {db[i] : i \in DOMAIN db}
  <1>1. Init => Trail!TrailInit
    <2> SUFFICES ASSUME Init PROVE Trail!TrailInit
      OBVIOUS
    <2>1. DOMAIN db = {}
      BY DEF Init
    <2>2. {db[i] : i \in DOMAIN db} = {}
      BY <2>1
    <2>3. QED
      BY <2>2 DEF Init, Trail!TrailInit
  <1>2. TypeOK /\ EntriesInv /\ [Next]_vars => [Trail!TrailNext]_(Trail!trailVars)
    <2> SUFFICES ASSUME TypeOK, EntriesInv, Next
                 PROVE  Trail!TrailNext \/ UNCHANGED Trail!trailVars
      BY DEF vars, Trail!trailVars
    <2>1. ASSUME NEW readable \in BOOLEAN, Load(readable) PROVE Trail!Reopen
      <3>1. state = "down" /\ state' # "down" /\ db' = db
        BY <2>1 DEF Load
      <3>2. CASE audit_log' = <<>>
        BY <3>1, <3>2 DEF Trail!Reopen
      <3>3. CASE audit_log' # <<>>
        <4>1. PICK order \in Orderings : audit_log' = [k \in DOMAIN order |-> db[order[k]]]
          BY <2>1, <3>3 DEF Load
        <4>2. \A k \in DOMAIN order : order[k] \in DOMAIN db
          BY DEF Orderings
        <4>3. Trail!Entries(audit_log') = stored
          BY <4>1, <4>2, OrderingOnto DEF Trail!Entries
        <4>4. ASSUME NEW j \in DOMAIN audit_log', NEW k \in DOMAIN audit_log',
                     audit_log'[j] = audit_log'[k]
              PROVE  j = k
          <5>1. j \in DOMAIN order /\ k \in DOMAIN order
            BY <4>1
          <5>2. db[order[j]] = db[order[k]]
            BY <4>1, <4>4, <5>1
          <5>3. order[j] = order[k]
            BY <4>2, <5>1, <5>2 DEF EntriesInv, RowHashes
          <5>4. QED
            BY <5>1, <5>3, OrderingInjective
        <4>5. QED
          BY <3>1, <4>3, <4>4 DEF Trail!Reopen
      <3>4. QED
        BY <3>2, <3>3
    <2>2. ASSUME NEW t \in Actors, AppendEntry(t) PROVE Trail!TrailNext
      <3> DEFINE e == request[t].entry
      <3>1. /\ request[t].pc = "built"
            /\ audit_log' = Append(audit_log, e)
            /\ state' = state /\ db' = db
        BY <2>2 DEF AppendEntry
      <3>2. state # "down"
        BY <3>1 DEF EntriesInv, StoppedEmpty, Idle
      <3>3. e \notin Trail!Entries(audit_log) \cup stored
        BY <3>1 DEF EntriesInv, BuiltUnlogged, PendingHashes, HasEntry, Trail!Entries
      <3>4. Trail!Record(e)
        BY <3>1, <3>2, <3>3 DEF Trail!Record
      <3>5. e \in Trail!Entries(audit_log')
        BY <3>1 DEF Trail!Entries, TypeOK
      <3>6. QED
        BY <3>4, <3>5 DEF Trail!TrailNext
    <2>3. ASSUME NEW t \in Actors, NEW ok \in BOOLEAN, Persist(t, ok)
          PROVE  Trail!TrailNext \/ UNCHANGED Trail!trailVars
      <3> DEFINE e == request[t].entry
      <3>1. /\ request[t].pc = "appended"
            /\ audit_log' = audit_log
            /\ state' # "down"
        BY <2>3 DEF Persist
      <3>2. state # "down"
        BY <3>1 DEF EntriesInv, StoppedEmpty, Idle
      <3>3. CASE db' = db
        BY <3>1, <3>2, <3>3 DEF Trail!trailVars
      <3>4. CASE db' # db
        <4>1. /\ DOMAIN db' = DOMAIN db \cup {e.event_id}
              /\ db'[e.event_id] = e
              /\ e.event_id \notin DOMAIN db
              /\ \A i \in DOMAIN db : db'[i] = db[i]
          BY <2>3, <3>4 DEF Persist, InsertOrIgnore
        <4>2. stored' = stored \cup {e}
          BY <4>1
        <4>3. e \in Trail!Entries(audit_log)
          BY <3>1 DEF EntriesInv, AppendedLogged, Trail!Entries
        <4>4. e \in stored'
          BY <4>2
        <4>5. \E x \in stored' : Trail!Store(x)
          BY <3>1, <3>2, <4>2, <4>3, <4>4 DEF Trail!Store
        <4>6. QED
          BY <4>5 DEF Trail!TrailNext
      <3>5. QED
        BY <3>3, <3>4
    <2>4. ASSUME Crash PROVE Trail!Crash
      BY <2>4 DEF Crash, Trail!Crash
    <2>5. ASSUME NEW i \in DOMAIN db, NEW body \in Body, EditRow(i, body)
          PROVE  Trail!TrailNext
      <3>1. /\ state = "down" /\ state' = state /\ audit_log' = audit_log
            /\ DOMAIN db' = DOMAIN db
            /\ \A j \in DOMAIN db : j # i => db'[j] = db[j]
        BY <2>5 DEF EditRow
      <3>2. \A j \in DOMAIN db : j # i => db[j] # db[i]
        BY DEF EntriesInv, RowHashes
      <3>3. stored' = (stored \ {db[i]}) \cup {db'[i]}
        BY <3>1, <3>2
      <3>4. db[i] \in stored /\ db'[i] \in stored'
        BY <3>1
      <3>5. \E old \in stored, new \in stored' : Trail!Edit(old, new)
        BY <3>1, <3>3, <3>4 DEF Trail!Edit
      <3>6. QED
        BY <3>5 DEF Trail!TrailNext
    <2>6. ASSUME NEW t \in Threads, NEW body \in Body, Begin(t, body)
          PROVE  UNCHANGED Trail!trailVars
      BY <2>6 DEF Begin, Trail!trailVars
    <2>7. ASSUME NEW t \in Actors, Submit(t) \/ ReadTail(t) \/ Build(t)
          PROVE  UNCHANGED Trail!trailVars
      BY <2>7 DEF Submit, ReadTail, Build, Trail!trailVars
    <2>8. QED
      BY <2>1, <2>2, <2>3, <2>4, <2>5, <2>6, <2>7 DEF Next, Trail!TrailNext
  <1>3. QED
    BY <1>1, <1>2, TypeCorrect, EntriesInvHolds, PTL DEF Spec, ImplementsTrail, Trail!TrailSpec
=============================================================================
