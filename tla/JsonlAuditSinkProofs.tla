------------------------ MODULE JsonlAuditSinkProofs ------------------------
(***************************************************************************)
(* What the hash-chained audit log promises, for any number of threads,    *)
(* events and crashes and any faults of the file: JsonlAuditSink's safety  *)
(* properties.                                                             *)
(*                                                                         *)
(* Why they are kept: an event is written at most once, so that a digest   *)
(* names one line; while nothing went wrong there is one sink, and its     *)
(* pointer, its lock and the end of the file agree; and what comes later   *)
(* only appends, or spoils a last line that was already torn.              *)
(***************************************************************************)
EXTENDS JsonlAuditSink, FiniteSetTheorems, SequenceTheorems, TLAPS

\* Sinks are built before they are used, once, and written under their lock.
Using(t) == emit[t].pc \in {"ready", "locked", "written", "holding"}
Writing(t) == emit[t].pc \in {"locked", "written"}
SinkBuilt(t) ==
  /\ Using(t) => sink[emit[t].sink].kind # "none"
  /\ emit[t].pc \in {"idle", "building"} => sink[t].kind = "none"
  /\ emit[t].pc = "built" => sink[t].kind # "none"
  /\ Using(t) \/ emit[t].pc = "set" => default_service # NoSink
SinksBuilt ==
  /\ default_service # NoSink => sink[default_service].kind # "none"
  /\ \A t \in Threads : SinkBuilt(t)
LocksHeld ==
  \A t \in Threads : Writing(t) =>
    /\ sink[emit[t].sink].kind = "jsonl" /\ sink[emit[t].sink].owner = t
    /\ Readable(emit[t].line) /\ emit[t].line.intact

\* An event is with one thread, or in one line, or gone.
HasPending(t) == emit[t].pc \in {"building", "built", "set", "ready", "locked"}
PendingEvent(t) ==
  IF emit[t].pc = "locked" THEN emit[t].line.event_hash ELSE emit[t].event
PendingOnce ==
  \A t \in Threads : HasPending(t) =>
    /\ PendingEvent(t) \in 1..emitted
    /\ \A i \in DOMAIN lines : lines[i].event_hash # PendingEvent(t)
    /\ \A u \in Threads : HasPending(u) /\ PendingEvent(u) = PendingEvent(t) => u = t
LinesOnce ==
  /\ \A i \in DOMAIN lines : lines[i].event_hash <= emitted
  /\ \A i, j \in DOMAIN lines :
       Readable(lines[i]) /\ lines[i].event_hash = lines[j].event_hash => i = j

\* While nothing went wrong there is one sink, and it knows where the file ends.
EndHash == IF lines = <<>> THEN GENESIS_HASH ELSE lines[Len(lines)].event_hash
OneSink == \A s, t \in Threads : sink[s].kind = "jsonl" /\ sink[t].kind = "jsonl" => s = t
PointersCurrent ==
  /\ (\A t \in Threads : emit[t].pc # "written") =>
       \A s \in Threads : sink[s].kind = "jsonl" => sink[s].previous_hash = EndHash
  /\ \A t \in Threads :
       /\ emit[t].pc = "locked" => emit[t].line.previous_hash = EndHash
       /\ emit[t].pc = "written" => lines # <<>> /\ lines[Len(lines)] = emit[t].line
Undamaged == damage = {} => terminated /\ Valid(lines) /\ OneSink /\ PointersCurrent

\* Afterwards the clean lines stay as they are, and so does the line that shows an edit.
Torn == ~terminated => "torn" \in damage /\ clean < Len(lines)
CleanAccepted == \A i \in 1..clean : Accepts(lines, i)
EditShows == "tampered" \in damage => \E i \in 1..synced : ~Accepts(lines, i)

\* What was acknowledged is among the synced lines.
AckedSynced ==
  damage \cap {"torn", "tampered"} = {} =>
    /\ \A event \in acked : \E i \in 1..synced : lines[i].event_hash = event
    /\ \A t \in Threads : emit[t].pc = "written" =>
         \E i \in DOMAIN lines : lines[i] = emit[t].line

IInv ==
  /\ TypeOK
  /\ SinksBuilt /\ LocksHeld
  /\ PendingOnce /\ LinesOnce
  /\ Undamaged
  /\ Torn /\ CleanAccepted /\ EditShows
  /\ AckedSynced

-----------------------------------------------------------------------------
\* A nonempty set of numbers up to m has a greatest element: otherwise the numbers
\* below some element of it could be counted up by one within themselves.
LEMMA GreatestExists ==
  ASSUME NEW m \in Nat, NEW S \in SUBSET (0..m), S # {}
  PROVE  \E x \in S : \A y \in S : y <= x
<1> SUFFICES ASSUME \A x \in S : \E y \in S : ~(y <= x)
             PROVE  FALSE
  OBVIOUS
<1> DEFINE T == {k \in 0..m : \E x \in S : k <= x}
           up == [k \in T |-> k + 1]
<1>1. 0 \in T
  <2>1. PICK x \in S : TRUE
    OBVIOUS
  <2>2. x \in 0..m /\ 0 <= x /\ 0 \in 0..m
    OBVIOUS
  <2> QED
    BY <2>2
<1>2. \A k \in T : k + 1 \in T
  <2> SUFFICES ASSUME NEW k \in T PROVE k + 1 \in T
    OBVIOUS
  <2>1. PICK x \in S : k <= x
    OBVIOUS
  <2>2. PICK y \in S : ~(y <= x)
    OBVIOUS
  <2>3. k \in 0..m /\ x \in 0..m /\ y \in 0..m
    OBVIOUS
  <2>4. k + 1 <= y /\ k + 1 \in 0..m
    BY <2>1, <2>2, <2>3
  <2> QED
    BY <2>4
<1>3. IsFiniteSet(T)
  <2>1. IsFiniteSet(0..m)
    BY FS_Interval
  <2>2. T \subseteq 0..m
    OBVIOUS
  <2> HIDE DEF T
  <2> QED
    BY <2>1, <2>2, FS_Subset
<1>4. T \subseteq Nat
  OBVIOUS
<1> HIDE DEF T
<1>5. up \in Injection(T, T)
  BY <1>2, <1>4 DEF Injection, IsInjective
<1>6. up \in Surjection(T, T)
  <2> HIDE DEF up
  <2> QED
    BY <1>3, <1>5, FS_Injection
<1>7. PICK k \in T : up[k] = 0
  BY <1>1, <1>6 DEF Surjection
<1> QED
  BY <1>4, <1>7

\* The chain reader checks the clean lines at least, whatever follows them.
LEMMA CheckedReaches ==
  ASSUME TypeOK, CleanAccepted
  PROVE  Checked(lines) >= clean
<1> DEFINE S == {n \in 0..Len(lines) : \A i \in 1..n : Accepts(lines, i)}
           Stops(n) == /\ \A i \in 1..n : Accepts(lines, i)
                       /\ n < Len(lines) => ~Accepts(lines, n + 1)
<1>1. Len(lines) \in Nat /\ clean \in 0..Len(lines)
  BY DEF TypeOK
<1>2. \E n \in 0..Len(lines) : Stops(n)
  <2>1. 0 \in S
    BY <1>1
  <2>2. PICK n \in S : \A k \in S : k <= n
    BY <1>1, <2>1, GreatestExists
  <2>3. n \in 0..Len(lines) /\ \A i \in 1..n : Accepts(lines, i)
    OBVIOUS
  <2>4. n < Len(lines) => ~Accepts(lines, n + 1)
    <3> SUFFICES ASSUME n < Len(lines), Accepts(lines, n + 1) PROVE FALSE
      OBVIOUS
    <3>1. n + 1 \in S
      BY <1>1, <2>3
    <3> QED
      BY <2>2, <2>3, <3>1
  <2> QED
    BY <2>3, <2>4
<1>3. PICK c : c = Checked(lines)
  OBVIOUS
<1>4. c \in 0..Len(lines) /\ Stops(c)
  BY <1>2, <1>3 DEF Checked
<1>5. ASSUME c < clean PROVE FALSE
  <2>1. c + 1 \in 1..clean /\ c < Len(lines)
    BY <1>1, <1>4, <1>5
  <2> QED
    BY <1>4, <2>1 DEF CleanAccepted
<1> QED
  BY <1>1, <1>3, <1>4, <1>5

-----------------------------------------------------------------------------
\* The file's last hash is a hash; that of a file that verifies is its last line's.
LEMMA LastHashType ==
  ASSUME TypeOK
  PROVE  LastHash(lines) \in {GENESIS_HASH} \cup Digest
<1> DEFINE readable == {i \in DOMAIN lines : Readable(lines[i])}
<1>1. Len(lines) \in Nat /\ DOMAIN lines = 1..Len(lines)
  BY DEF TypeOK
<1>2. CASE readable = {}
  BY <1>2 DEF LastHash
<1>3. CASE readable # {}
  <2>1. readable \in SUBSET (0..Len(lines))
    BY <1>1
  <2>2. \E i \in readable : \A j \in readable : j <= i
    <3> HIDE DEF readable
    <3> QED
      BY <1>1, <1>3, <2>1, GreatestExists
  <2>3. PICK i : i = CHOOSE k \in readable : \A j \in readable : j <= k
    OBVIOUS
  <2>4. i \in readable
    BY <2>2, <2>3
  <2>5. LastHash(lines) = lines[i].event_hash
    BY <1>3, <2>3 DEF LastHash
  <2>6. lines[i] \in Line
    BY <2>4 DEF TypeOK
  <2> QED
    BY <2>5, <2>6 DEF Line
<1> QED
  BY <1>2, <1>3

LEMMA LastHashOfValid ==
  ASSUME TypeOK, Valid(lines)
  PROVE  LastHash(lines) = EndHash
<1> DEFINE readable == {i \in DOMAIN lines : Readable(lines[i])}
<1>1. Len(lines) \in Nat /\ DOMAIN lines = 1..Len(lines)
  BY DEF TypeOK
<1>2. readable = 1..Len(lines)
  BY <1>1 DEF Valid, Accepts
<1>3. CASE Len(lines) = 0
  <2>1. lines = <<>>
    BY <1>3, EmptySeq DEF TypeOK
  <2>2. readable = {}
    BY <1>2, <1>3
  <2> QED
    BY <2>1, <2>2 DEF LastHash, EndHash
<1>4. CASE Len(lines) # 0
  <2>1. Len(lines) \in readable /\ \A j \in readable : j <= Len(lines)
    BY <1>1, <1>2, <1>4
  <2>2. PICK i : i = CHOOSE k \in readable : \A j \in readable : j <= k
    OBVIOUS
  <2>3. i \in readable /\ \A j \in readable : j <= i
    BY <2>1, <2>2
  <2>4. i = Len(lines)
    BY <1>1, <1>2, <2>1, <2>3
  <2>5. LastHash(lines) = lines[Len(lines)].event_hash
    BY <2>1, <2>2, <2>4 DEF LastHash
  <2>6. lines # <<>>
    BY <1>4
  <2> QED
    BY <2>5, <2>6 DEF EndHash
<1> QED
  BY <1>3, <1>4

\* Appending adds a line, or spoils a last one that was torn.
LEMMA AfterAppendIs ==
  ASSUME TypeOK, Torn, NEW line \in Line, NEW amount \in {"none", "part", "unterminated", "whole"},
         lines' = AfterAppend(line, amount)
  PROVE  /\ lines' \in Seq(Line)
         /\ amount = "none" => lines' = lines
         /\ amount # "none" /\ terminated =>
              /\ Len(lines') = Len(lines) + 1
              /\ \A i \in 1..Len(lines) : lines'[i] = lines[i]
              /\ lines'[Len(lines) + 1] \in {line, Garbage}
              /\ amount # "part" => lines'[Len(lines) + 1] = line
         /\ amount # "none" /\ ~terminated =>
              /\ Len(lines') = Len(lines) /\ Len(lines) \in 1..Len(lines)
              /\ \A i \in 1..Len(lines) : i # Len(lines) => lines'[i] = lines[i]
              /\ lines'[Len(lines)] = Garbage
<1>1. Garbage \in Line
  BY DEF Garbage, Line
<1>2. lines \in Seq(Line) /\ Len(lines) \in Nat /\ DOMAIN lines = 1..Len(lines) /\ clean \in Nat
  BY DEF TypeOK
<1>3. CASE amount = "none"
  BY <1>2, <1>3 DEF AfterAppend
<1>4. CASE amount # "none" /\ terminated
  <2>1. PICK new \in Line : /\ lines' = Append(lines, new) /\ new \in {line, Garbage}
                            /\ amount # "part" => new = line
    BY <1>1, <1>4 DEF AfterAppend
  <2>2. /\ lines' \in Seq(Line) /\ Len(lines') = Len(lines) + 1
        /\ \A i \in 1..Len(lines) : lines'[i] = lines[i]
        /\ lines'[Len(lines) + 1] = new
    BY <1>2, <2>1, AppendProperties
  <2> QED
    BY <1>4, <2>1, <2>2
<1>5. CASE amount # "none" /\ ~terminated
  <2>1. Len(lines) \in 1..Len(lines)
    BY <1>2, <1>5 DEF Torn
  <2>2. lines' = [lines EXCEPT ![Len(lines)] = Garbage]
    BY <1>5 DEF AfterAppend
  <2>3. lines' \in Seq(Line) /\ Len(lines') = Len(lines)
    BY <1>1, <1>2, <2>1, <2>2, ExceptSeq
  <2>4. /\ \A i \in 1..Len(lines) : i # Len(lines) => lines'[i] = lines[i]
        /\ lines'[Len(lines)] = Garbage
    <3>1. \A j \in 1..Len(lines) :
            [lines EXCEPT ![Len(lines)] = Garbage][j] = IF j = Len(lines) THEN Garbage ELSE lines[j]
      BY <1>1, <1>2, <2>1, ExceptSeq
    <3>2. \A j \in 1..Len(lines) : lines'[j] = IF j = Len(lines) THEN Garbage ELSE lines[j]
      BY <2>2, <3>1
    <3> QED
      BY <1>2, <2>1, <3>2
  <2> QED
    BY <1>5, <2>1, <2>3, <2>4
<1> QED
  BY <1>3, <1>4, <1>5

-----------------------------------------------------------------------------
\* What a thread holds, and what it may come to hold.
LEMMA EmitTypes ==
  ASSUME emit \in [Threads -> EmitState], NEW t \in Threads
  PROVE  /\ emit[t].pc \in {"building", "built", "set", "ready"} => emit[t].event \in Digest
         /\ Using(t) => emit[t].sink \in Threads
         /\ Writing(t) => emit[t].line \in Line
         /\ \A p \in {"building", "built", "set"} :
              emit[t].pc \in {"building", "built", "set"} => [emit[t] EXCEPT !.pc = p] \in EmitState
         /\ emit[t].pc = "locked" => [emit[t] EXCEPT !.pc = "written"] \in EmitState
         /\ Using(t) => [pc |-> "holding", sink |-> emit[t].sink] \in EmitState
<1>1. emit[t] \in EmitState
  OBVIOUS
<1> DEFINE Started == [pc : {"building", "built", "set"}, event : Digest]
           Ready == [pc : {"ready"}, event : Digest, sink : Threads]
           Busy == [pc : {"locked", "written"}, sink : Threads, line : Line]
           Holding == [pc : {"holding"}, sink : Threads]
<1>2. EmitState = {Idle} \cup Started \cup Ready \cup Busy \cup Holding
  BY DEF EmitState
<1>3. CASE emit[t] = Idle
  BY <1>3 DEF Idle, Using, Writing
<1>4. CASE emit[t] \in Started
  BY <1>2, <1>4 DEF Using, Writing
<1>5. CASE emit[t] \in Ready
  BY <1>2, <1>5 DEF Using, Writing
<1>6. CASE emit[t] \in Busy
  <2>1. /\ emit[t].pc \in {"locked", "written"} /\ emit[t].sink \in Threads /\ emit[t].line \in Line
        /\ [emit[t] EXCEPT !.pc = "written"] \in Busy
        /\ [pc |-> "holding", sink |-> emit[t].sink] \in Holding
    BY <1>6
  <2> HIDE DEF Started, Ready, Busy, Holding
  <2> QED
    BY <1>2, <2>1
<1>7. CASE emit[t] \in Holding
  BY <1>2, <1>7 DEF Using, Writing
<1> HIDE DEF Started, Ready, Busy, Holding
<1> QED
  BY <1>1, <1>2, <1>3, <1>4, <1>5, <1>6, <1>7

SinkState == [kind : {"none", "null", "jsonl"}, previous_hash : {GENESIS_HASH} \cup Digest,
              owner : Threads \cup {NoSink}]

\* The end of a call: what changes, and that it keeps its type.
LEMMA ReleaseIs ==
  ASSUME TypeOK, NEW t \in Threads, Writing(t), NEW pointer \in {GENESIS_HASH} \cup Digest,
         Release(t, pointer)
  PROVE  /\ emit[t].sink \in Threads
         /\ emit' \in [Threads -> EmitState] /\ sink' \in [Threads -> SinkState]
         /\ emit'[t] = [pc |-> "holding", sink |-> emit[t].sink]
         /\ \A u \in Threads : u # t => emit'[u] = emit[u]
         /\ sink'[emit[t].sink] = [kind |-> sink[emit[t].sink].kind, previous_hash |-> pointer,
                                   owner |-> NoSink]
         /\ \A s \in Threads : s # emit[t].sink => sink'[s] = sink[s]
<1>1. emit \in [Threads -> EmitState] /\ sink \in [Threads -> SinkState]
  BY DEF TypeOK, SinkState
<1>2. emit[t].sink \in Threads /\ [pc |-> "holding", sink |-> emit[t].sink] \in EmitState
  BY <1>1, EmitTypes DEF Using, Writing
<1>3. PICK s \in Threads : s = emit[t].sink
  BY <1>2
<1>4. sink[s] \in SinkState
  BY <1>1
<1>5. [sink[s] EXCEPT !.owner = NoSink, !.previous_hash = pointer]
        = [kind |-> sink[s].kind, previous_hash |-> pointer, owner |-> NoSink]
  <2>1. PICK r : r = [sink[s] EXCEPT !.owner = NoSink]
    OBVIOUS
  <2>2. r = [kind |-> sink[s].kind, previous_hash |-> sink[s].previous_hash, owner |-> NoSink]
    BY <1>4, <2>1 DEF SinkState
  <2>3. [r EXCEPT !.previous_hash = pointer]
          = [kind |-> sink[s].kind, previous_hash |-> pointer, owner |-> NoSink]
    BY <2>2
  <2>4. [sink[s] EXCEPT !.owner = NoSink, !.previous_hash = pointer]
          = [r EXCEPT !.previous_hash = pointer]
    BY <2>1
  <2> QED
    BY <2>3, <2>4
<1>6. [kind |-> sink[s].kind, previous_hash |-> pointer, owner |-> NoSink] \in SinkState
  BY <1>4 DEF SinkState
<1>7. /\ emit' = [emit EXCEPT ![t] = [pc |-> "holding", sink |-> s]]
      /\ sink' = [sink EXCEPT ![s] = [kind |-> sink[s].kind, previous_hash |-> pointer,
                                      owner |-> NoSink]]
  <2>1. emit' = [emit EXCEPT ![t] = [pc |-> "holding", sink |-> s]]
    BY <1>3 DEF Release
  <2>2. sink' = [sink EXCEPT ![s].owner = NoSink, ![s].previous_hash = pointer]
    BY <1>3 DEF Release
  <2> QED
    BY <1>1, <1>3, <1>4, <1>5, <2>1, <2>2
<1> QED
  BY <1>1, <1>2, <1>3, <1>6, <1>7

-----------------------------------------------------------------------------
\* Types.
Causes == {"race", "unread", "stale", "torn", "tampered"}
EmitTyped == emit \in [Threads -> EmitState]
SinkTyped == sink \in [Threads -> SinkState]
FileTyped == /\ lines \in Seq(Line) /\ terminated \in BOOLEAN
             /\ synced \in 0..Len(lines) /\ clean \in 0..Len(lines)
             /\ damage \subseteq Causes
RestTyped == /\ default_service \in Threads \cup {NoSink}
             /\ emitted \in 0..MaxEvents /\ acked \subseteq Digest /\ crashes \in 0..MaxCrashes
LEMMA TypedParts == TypeOK <=> EmitTyped /\ SinkTyped /\ FileTyped /\ RestTyped
BY DEF TypeOK, EmitTyped, SinkTyped, SinkState, FileTyped, RestTyped, Causes

LEMMA DamagedTyped ==
  ASSUME FileTyped, NEW what \in SUBSET Causes, Damaged(what), lines' \in Seq(Line),
         Len(lines) <= Len(lines'), terminated' \in BOOLEAN,
         synced' = synced \/ synced' = Len(lines')
  PROVE  FileTyped'
<1>1. /\ Len(lines) \in Nat /\ Len(lines') \in Nat /\ synced \in 0..Len(lines)
      /\ clean \in 0..Len(lines) /\ damage \subseteq Causes
  BY LenProperties DEF FileTyped
<1>2. damage' = damage \cup what /\ (clean' = Len(lines) \/ clean' = clean)
  BY DEF Damaged
<1>3. synced' \in 0..Len(lines') /\ clean' \in 0..Len(lines')
  BY <1>1, <1>2
<1> QED
  BY <1>1, <1>2, <1>3 DEF FileTyped

LEMMA SameFileTyped ==
  ASSUME FileTyped, UNCHANGED <<lines, terminated, synced, damage, clean>>
  PROVE  FileTyped'
BY DEF FileTyped

\* A thread that is building the service keeps its event.
LEMMA StartedIs ==
  ASSUME EmitTyped, NEW t \in Threads, emit[t].pc \in {"building", "built", "set"},
         NEW p \in {"building", "built", "set"}
  PROVE  LET e == [emit[t] EXCEPT !.pc = p] IN e.pc = p /\ e.event = emit[t].event
<1>1. emit[t] \in EmitState
  BY DEF EmitTyped
<1>2. emit[t] \in [pc : {"building", "built", "set"}, event : Digest]
  BY <1>1 DEF EmitState, Idle
<1> QED
  BY <1>2

\* A line on its way to the file has reached it.
LEMMA LockedIs ==
  ASSUME EmitTyped, NEW t \in Threads, emit[t].pc = "locked"
  PROVE  LET e == [emit[t] EXCEPT !.pc = "written"] IN
           e.pc = "written" /\ e.sink = emit[t].sink /\ e.line = emit[t].line
<1>1. emit[t] \in EmitState
  BY DEF EmitTyped
<1>2. emit[t] \in [pc : {"locked", "written"}, sink : Threads, line : Line]
  BY <1>1 DEF EmitState, Idle
<1> QED
  BY <1>2

\* One thread moves on.
LEMMA EmitMoves ==
  ASSUME EmitTyped, NEW t \in Threads, NEW e \in EmitState, emit' = [emit EXCEPT ![t] = e]
  PROVE  EmitTyped' /\ emit'[t] = e /\ \A u \in Threads : u # t => emit'[u] = emit[u]
BY DEF EmitTyped

\* Each step of a thread, and what it makes of the thread and of the sinks.
LEMMA EmitIs ==
  ASSUME TypeOK, NEW t \in Threads, Emit(t)
  PROVE  /\ EmitTyped' /\ emitted + 1 \in Digest
         /\ \/ /\ emit[t].pc = "holding"
               /\ emit'[t] = [pc |-> "ready", event |-> emitted + 1, sink |-> emit[t].sink]
            \/ /\ default_service # NoSink
               /\ emit'[t] = [pc |-> "ready", event |-> emitted + 1, sink |-> default_service]
            \/ /\ default_service = NoSink
               /\ emit'[t] = [pc |-> "building", event |-> emitted + 1]
         /\ \A u \in Threads : u # t => emit'[u] = emit[u]
<1>1. EmitTyped /\ emitted + 1 \in Digest /\ default_service \in Threads \cup {NoSink}
  BY BoundsAssumption DEF Emit, TypeOK, Digest, EmitTyped
<1>2. CASE /\ emit[t].pc = "holding"
           /\ emit' = [emit EXCEPT ![t] =
                [pc |-> "ready", event |-> emitted + 1, sink |-> emit[t].sink]]
  <2>1. emit[t].sink \in Threads
    BY <1>1, <1>2, EmitTypes DEF Using, EmitTyped
  <2>2. [pc |-> "ready", event |-> emitted + 1, sink |-> emit[t].sink] \in EmitState
    BY <1>1, <2>1 DEF EmitState
  <2> QED
    BY <1>1, <1>2, <2>2, EmitMoves
<1>3. CASE /\ default_service # NoSink
           /\ emit' = [emit EXCEPT ![t] =
                [pc |-> "ready", event |-> emitted + 1, sink |-> default_service]]
  <2>1. [pc |-> "ready", event |-> emitted + 1, sink |-> default_service] \in EmitState
    BY <1>1, <1>3 DEF EmitState
  <2> QED
    BY <1>1, <1>3, <2>1, EmitMoves
<1>4. CASE /\ default_service = NoSink
           /\ emit' = [emit EXCEPT ![t] = [pc |-> "building", event |-> emitted + 1]]
  <2>1. [pc |-> "building", event |-> emitted + 1] \in EmitState
    BY <1>1 DEF EmitState
  <2> QED
    BY <1>1, <1>4, <2>1, EmitMoves
<1> QED
  BY <1>2, <1>3, <1>4 DEF Emit

LEMMA EmitStarts ==
  ASSUME TypeOK, NEW t \in Threads, Emit(t)
  PROVE  emit'[t].pc \in {"ready", "building"} /\ emit'[t].event = emitted + 1
<1>1. CASE emit'[t] = [pc |-> "ready", event |-> emitted + 1, sink |-> emit[t].sink]
  BY <1>1
<1>2. CASE emit'[t] = [pc |-> "ready", event |-> emitted + 1, sink |-> default_service]
  BY <1>2
<1>3. CASE emit'[t] = [pc |-> "building", event |-> emitted + 1]
  BY <1>3
<1> QED
  BY <1>1, <1>2, <1>3, EmitIs

LEMMA BuildSinkIs ==
  ASSUME TypeOK, NEW t \in Threads, BuildSink(t)
  PROVE  /\ EmitTyped' /\ SinkTyped' /\ FileTyped'
         /\ emit[t].pc = "building" /\ emit'[t] = [emit[t] EXCEPT !.pc = "built"]
         /\ \A u \in Threads : u # t => emit'[u] = emit[u] /\ sink'[u] = sink[u]
         /\ sink'[t].kind # "none"
         /\ \/ /\ sink'[t].previous_hash = LastHash(lines)
               /\ Damaged(IF \E u \in Threads : sink[u].kind = "jsonl" THEN {"race"} ELSE {})
            \/ Damaged({"unread"})
            \/ sink'[t].kind = "null" /\ UNCHANGED <<damage, clean>>
<1>1. EmitTyped /\ SinkTyped /\ FileTyped
  BY TypedParts
<1>2. emit[t].pc = "building" /\ emit' = [emit EXCEPT ![t] = [emit[t] EXCEPT !.pc = "built"]]
  BY DEF BuildSink
<1>3. [emit[t] EXCEPT !.pc = "built"] \in EmitState
  BY <1>1, <1>2, EmitTypes DEF EmitTyped
<1>4. /\ EmitTyped' /\ emit'[t] = [emit[t] EXCEPT !.pc = "built"]
      /\ \A u \in Threads : u # t => emit'[u] = emit[u]
  BY <1>1, <1>2, <1>3, EmitMoves
<1>5. PICK new \in SinkState :
        /\ sink' = [sink EXCEPT ![t] = new] /\ new.kind # "none"
        /\ \/ /\ new.previous_hash = LastHash(lines)
              /\ Damaged(IF \E u \in Threads : sink[u].kind = "jsonl" THEN {"race"} ELSE {})
           \/ Damaged({"unread"})
           \/ new.kind = "null" /\ UNCHANGED <<damage, clean>>
  <2>1. LastHash(lines) \in {GENESIS_HASH} \cup Digest
    BY LastHashType
  <2>2. [kind |-> "jsonl", owner |-> NoSink, previous_hash |-> LastHash(lines)] \in SinkState
    BY <2>1 DEF SinkState
  <2>3. [kind |-> "jsonl", owner |-> NoSink, previous_hash |-> GENESIS_HASH] \in SinkState
    BY DEF SinkState
  <2>4. [NoObject EXCEPT !.kind = "null"] \in SinkState
        /\ [NoObject EXCEPT !.kind = "null"].kind = "null"
    BY DEF NoObject, SinkState
  <2>5. CASE /\ sink' = [sink EXCEPT ![t] = [kind |-> "jsonl", owner |-> NoSink,
                           previous_hash |-> LastHash(lines)]]
             /\ Damaged(IF \E u \in Threads : sink[u].kind = "jsonl" THEN {"race"} ELSE {})
    BY <2>2, <2>5
  <2>6. CASE /\ sink' = [sink EXCEPT ![t] = [kind |-> "jsonl", owner |-> NoSink,
                           previous_hash |-> GENESIS_HASH]]
             /\ Damaged({"unread"})
    BY <2>3, <2>6
  <2>7. CASE /\ sink' = [sink EXCEPT ![t] = [NoObject EXCEPT !.kind = "null"]]
             /\ UNCHANGED <<damage, clean>>
    BY <2>4, <2>7
  <2> QED
    BY <2>5, <2>6, <2>7 DEF BuildSink
<1>6. /\ SinkTyped' /\ sink'[t] = new /\ \A u \in Threads : u # t => sink'[u] = sink[u]
  BY <1>1, <1>5 DEF SinkTyped
<1>7. FileTyped'
  <2>1. UNCHANGED <<lines, terminated, synced>>
    BY DEF BuildSink
  <2>2. (\E what \in SUBSET Causes : Damaged(what)) \/ UNCHANGED <<damage, clean>>
    BY <1>5 DEF Causes
  <2>3. CASE \E what \in SUBSET Causes : Damaged(what)
    <3>1. lines' \in Seq(Line) /\ Len(lines) <= Len(lines') /\ terminated' \in BOOLEAN
          /\ synced' = synced
      BY <1>1, <2>1, LenProperties DEF FileTyped
    <3> QED
      BY <1>1, <2>3, <3>1, DamagedTyped
  <2> QED
    BY <1>1, <2>1, <2>2, <2>3, SameFileTyped
<1> QED
  BY <1>2, <1>4, <1>5, <1>6, <1>7

LEMMA ThreadStepIs ==
  ASSUME TypeOK, SinksBuilt, LocksHeld, NEW t \in Threads
  PROVE  /\ SetDefault(t) => EmitTyped' /\ emit'[t] = [emit[t] EXCEPT !.pc = "set"]
         /\ ReturnDefault(t) =>
              /\ EmitTyped' /\ default_service \in Threads
              /\ emit'[t] = [pc |-> "ready", event |-> emit[t].event, sink |-> default_service]
         /\ Discard(t) => EmitTyped' /\ emit'[t] = [pc |-> "holding", sink |-> emit[t].sink]
         /\ Write(t) => EmitTyped' /\ emit'[t] = [emit[t] EXCEPT !.pc = "written"]
         /\ SetDefault(t) \/ ReturnDefault(t) \/ Discard(t) \/ Write(t) =>
              \A u \in Threads : u # t => emit'[u] = emit[u]
<1>1. EmitTyped /\ RestTyped
  BY TypedParts
<1> USE EmitTypes, EmitMoves DEF Using, Writing
<1>2. ASSUME SetDefault(t)
      PROVE  /\ EmitTyped' /\ emit'[t] = [emit[t] EXCEPT !.pc = "set"]
             /\ \A u \in Threads : u # t => emit'[u] = emit[u]
  <2>1. emit' = [emit EXCEPT ![t] = [emit[t] EXCEPT !.pc = "set"]] /\ emit[t].pc = "built"
    BY <1>2 DEF SetDefault
  <2>2. [emit[t] EXCEPT !.pc = "set"] \in EmitState
    BY <1>1, <2>1 DEF EmitTyped
  <2> QED
    BY <1>1, <2>1, <2>2
<1>3. ASSUME ReturnDefault(t)
      PROVE  /\ EmitTyped' /\ default_service \in Threads
             /\ emit'[t] = [pc |-> "ready", event |-> emit[t].event, sink |-> default_service]
             /\ \A u \in Threads : u # t => emit'[u] = emit[u]
  <2>1. /\ emit[t].pc = "set"
        /\ emit' = [emit EXCEPT ![t] =
             [pc |-> "ready", event |-> emit[t].event, sink |-> default_service]]
    BY <1>3 DEF ReturnDefault
  <2>2. default_service \in Threads /\ emit[t].event \in Digest
    BY <1>1, <2>1 DEF SinksBuilt, SinkBuilt, RestTyped, EmitTyped
  <2>3. [pc |-> "ready", event |-> emit[t].event, sink |-> default_service] \in EmitState
    BY <2>2 DEF EmitState
  <2> QED
    BY <1>1, <2>1, <2>2, <2>3
<1>4. ASSUME Discard(t)
      PROVE  /\ EmitTyped' /\ emit'[t] = [pc |-> "holding", sink |-> emit[t].sink]
             /\ \A u \in Threads : u # t => emit'[u] = emit[u]
  <2>1. /\ emit[t].pc = "ready"
        /\ emit' = [emit EXCEPT ![t] = [pc |-> "holding", sink |-> emit[t].sink]]
    BY <1>4 DEF Discard
  <2>2. [pc |-> "holding", sink |-> emit[t].sink] \in EmitState
    BY <1>1, <2>1 DEF EmitTyped
  <2> QED
    BY <1>1, <2>1, <2>2
<1>5. ASSUME Write(t)
      PROVE  /\ EmitTyped' /\ emit'[t] = [emit[t] EXCEPT !.pc = "written"]
             /\ \A u \in Threads : u # t => emit'[u] = emit[u]
  <2>1. emit' = [emit EXCEPT ![t] = [emit[t] EXCEPT !.pc = "written"]] /\ emit[t].pc = "locked"
    BY <1>5 DEF Write
  <2>2. [emit[t] EXCEPT !.pc = "written"] \in EmitState
    BY <1>1, <2>1 DEF EmitTyped
  <2> QED
    BY <1>1, <2>1, <2>2
<1> QED
  BY <1>2, <1>3, <1>4, <1>5

LEMMA LockIs ==
  ASSUME TypeOK, NEW t \in Threads, Lock(t)
  PROVE  /\ EmitTyped' /\ SinkTyped' /\ emit[t].sink \in Threads /\ emit[t].event \in Digest
         /\ emit'[t] = [pc |-> "locked", sink |-> emit[t].sink,
                        line |-> [event_hash |-> emit[t].event, intact |-> TRUE,
                                  previous_hash |-> sink[emit[t].sink].previous_hash]]
         /\ \A u \in Threads : u # t => emit'[u] = emit[u]
         /\ sink[emit[t].sink].kind = "jsonl" /\ sink[emit[t].sink].owner = NoSink
         /\ sink'[emit[t].sink] = [sink[emit[t].sink] EXCEPT !.owner = t]
         /\ \A u \in Threads : u # emit[t].sink => sink'[u] = sink[u]
<1>1. EmitTyped /\ SinkTyped
  BY TypedParts
<1>2. emit[t].pc = "ready"
  BY DEF Lock
<1>3. PICK s \in Threads : s = emit[t].sink
  BY <1>1, <1>2, EmitTypes DEF Using, EmitTyped
<1>4. sink[s] \in SinkState /\ emit[t].event \in Digest
  BY <1>1, <1>2, EmitTypes DEF SinkTyped, EmitTyped
<1>5. PICK line : line = [event_hash |-> emit[t].event,
                          previous_hash |-> sink[s].previous_hash, intact |-> TRUE]
  OBVIOUS
<1>6. /\ sink[s].kind = "jsonl" /\ sink[s].owner = NoSink
      /\ sink' = [sink EXCEPT ![s] = [sink[s] EXCEPT !.owner = t]]
      /\ emit' = [emit EXCEPT ![t] = [pc |-> "locked", sink |-> s, line |-> line]]
  BY <1>3, <1>5 DEF Lock
<1>7. line \in Line
  BY <1>4, <1>5 DEF SinkState, Line
<1>8. [pc |-> "locked", sink |-> s, line |-> line] \in EmitState
  BY <1>7 DEF EmitState
<1>9. [sink[s] EXCEPT !.owner = t] \in SinkState
  BY <1>4 DEF SinkState
<1>10. /\ EmitTyped' /\ emit'[t] = [pc |-> "locked", sink |-> s, line |-> line]
       /\ \A u \in Threads : u # t => emit'[u] = emit[u]
  BY <1>1, <1>6, <1>8, EmitMoves
<1>11. /\ SinkTyped' /\ sink'[s] = [sink[s] EXCEPT !.owner = t]
       /\ \A u \in Threads : u # s => sink'[u] = sink[u]
  BY <1>1, <1>6, <1>9 DEF SinkTyped
<1>12. line = [event_hash |-> emit[t].event, intact |-> TRUE,
               previous_hash |-> sink[s].previous_hash]
  BY <1>5
<1> QED
  BY <1>3, <1>4, <1>6, <1>10, <1>11, <1>12

\* A crash empties the memory; the file stays, or is cut off behind its synced lines,
\* or ends in a torn line.
LEMMA CrashIs ==
  ASSUME TypeOK, Torn, Crash
  PROVE  /\ EmitTyped' /\ SinkTyped' /\ FileTyped' /\ synced' = Len(lines')
         /\ default_service' = NoSink /\ UNCHANGED <<emitted, acked>>
         /\ \A t \in Threads : emit'[t] = Idle /\ sink'[t] = NoObject
         /\ \/ UNCHANGED <<lines, terminated, damage, clean>>
            \/ \E t \in Threads, amount \in {"unterminated", "part"} :
                 /\ emit[t].pc = "locked" /\ lines' = AfterAppend(emit[t].line, amount)
                 /\ ~terminated' /\ Damaged({"torn"})
            \/ \E kept \in synced..(Len(lines) - 1) :
                 /\ \A i \in 1..kept : lines'[i] = lines[i]
                 /\ \/ Len(lines') = kept /\ terminated' /\ damage' = damage
                    \/ /\ Len(lines') = kept + 1 /\ ~terminated' /\ damage' = damage \cup {"torn"}
                       /\ lines'[kept + 1] \in {Garbage, lines[kept + 1]}
                 /\ clean' = IF damage = {} \/ kept < clean THEN kept ELSE clean
<1>1. /\ FileTyped /\ EmitTyped /\ synced' = Len(lines') /\ default_service' = NoSink
      /\ UNCHANGED <<emitted, acked>>
      /\ sink' = [t \in Threads |-> NoObject] /\ emit' = [t \in Threads |-> Idle]
  BY TypedParts DEF Crash, Restarted
<1>2. EmitTyped' /\ SinkTyped'
  <2>1. Idle \in EmitState /\ NoObject \in SinkState
    BY DEF EmitState, NoObject, SinkState
  <2> QED
    BY <1>1, <2>1 DEF EmitTyped, SinkTyped
<1>3. \A t \in Threads : emit'[t] = Idle /\ sink'[t] = NoObject
  BY <1>1
<1>4. /\ Len(lines) \in Nat /\ lines \in Seq(Line) /\ DOMAIN lines = 1..Len(lines)
      /\ synced \in 0..Len(lines) /\ clean \in 0..Len(lines) /\ damage \subseteq Causes
      /\ \A i \in 1..Len(lines) : lines[i] \in Line
  BY <1>1 DEF FileTyped
<1>5. CASE UNCHANGED <<lines, terminated, damage, clean>>
  <2>1. FileTyped'
    BY <1>1, <1>4, <1>5 DEF FileTyped
  <2> QED
    BY <1>1, <1>2, <1>3, <1>5, <2>1
<1>6. ASSUME NEW t \in Threads, NEW amount \in {"unterminated", "part"},
             emit[t].pc = "locked", lines' = AfterAppend(emit[t].line, amount),
             terminated' = FALSE, Damaged({"torn"})
      PROVE  FileTyped'
  <2>1. emit[t].line \in Line
    BY <1>1, <1>6, EmitTypes DEF Writing, EmitTyped
  <2>2. lines' \in Seq(Line) /\ Len(lines) <= Len(lines')
    <3>1. amount \in {"none", "part", "unterminated", "whole"} /\ amount # "none"
      OBVIOUS
    <3>2. /\ lines' \in Seq(Line)
          /\ Len(lines') = Len(lines) + 1 \/ Len(lines') = Len(lines)
      BY <1>6, <2>1, <3>1, AfterAppendIs
    <3> QED
      BY <1>4, <3>2
  <2>3. {"torn"} \in SUBSET Causes
    BY DEF Causes
  <2> QED
    BY <1>1, <1>6, <2>2, <2>3, DamagedTyped
<1>7. ASSUME NEW kept \in synced..(Len(lines) - 1),
             \/ /\ lines' = SubSeq(lines, 1, kept)
                /\ terminated' = TRUE
                /\ damage' = damage
             \/ /\ \E torn \in {Garbage, lines[kept + 1]} :
                     lines' = Append(SubSeq(lines, 1, kept), torn)
                /\ terminated' = FALSE
                /\ damage' = damage \cup {"torn"},
             clean' = IF damage = {} \/ kept < clean THEN kept ELSE clean
      PROVE  /\ FileTyped'
             /\ \A i \in 1..kept : lines'[i] = lines[i]
             /\ \/ Len(lines') = kept /\ terminated' /\ damage' = damage
                \/ /\ Len(lines') = kept + 1 /\ ~terminated' /\ damage' = damage \cup {"torn"}
                   /\ lines'[kept + 1] \in {Garbage, lines[kept + 1]}
  <2>1. kept \in Nat /\ kept < Len(lines) /\ kept + 1 \in 1..Len(lines)
    BY <1>4
  <2>2. PICK cut : cut = SubSeq(lines, 1, kept)
    OBVIOUS
  <2>3. cut \in Seq(Line) /\ Len(cut) = kept /\ \A i \in 1..kept : cut[i] = lines[i]
    <3>1. \A i \in 1..kept : lines[i] \in Line /\ 1 + i - 1 = i
      BY <1>4, <2>1
    <3>2. /\ cut \in Seq(Line) /\ Len(cut) = IF 1 <= kept THEN kept - 1 + 1 ELSE 0
          /\ \A i \in 1..(kept - 1 + 1) : cut[i] = lines[1 + i - 1]
      BY <2>1, <2>2, <3>1, SubSeqProperties
    <3> QED
      BY <2>1, <3>1, <3>2
  <2>4. /\ lines' \in Seq(Line) /\ \A i \in 1..kept : lines'[i] = lines[i]
        /\ \/ Len(lines') = kept /\ terminated' = TRUE /\ damage' = damage
           \/ /\ Len(lines') = kept + 1 /\ terminated' = FALSE
              /\ damage' = damage \cup {"torn"}
              /\ lines'[kept + 1] \in {Garbage, lines[kept + 1]}
    <3>1. ASSUME lines' = cut
          PROVE  /\ lines' \in Seq(Line) /\ \A i \in 1..kept : lines'[i] = lines[i]
                 /\ Len(lines') = kept
      BY <2>3, <3>1
    <3>2. ASSUME NEW torn \in {Garbage, lines[kept + 1]}, lines' = Append(cut, torn)
          PROVE  /\ lines' \in Seq(Line) /\ \A i \in 1..kept : lines'[i] = lines[i]
                 /\ Len(lines') = kept + 1 /\ lines'[kept + 1] = torn
      <4>1. torn \in Line
        <5>1. Garbage \in Line
          BY DEF Garbage, Line
        <5>2. lines[kept + 1] \in Line
          BY <1>4, <2>1
        <5> QED
          BY <5>1, <5>2
      <4> QED
        BY <2>3, <3>2, <4>1, AppendProperties
    <3>3. CASE lines' = cut /\ terminated' = TRUE /\ damage' = damage
      BY <3>1, <3>3
    <3>4. CASE /\ \E torn \in {Garbage, lines[kept + 1]} : lines' = Append(cut, torn)
               /\ terminated' = FALSE /\ damage' = damage \cup {"torn"}
      BY <3>2, <3>4
    <3> QED
      BY <1>7, <2>2, <3>3, <3>4
  <2>5. clean' \in 0..Len(lines') /\ Len(lines') \in Nat
    <3>1. clean' \in 0..kept
      BY <1>4, <1>7, <2>1
    <3>2. PICK m : m = Len(lines') /\ (m = kept \/ m = kept + 1)
      BY <2>4
    <3>3. m \in Nat /\ clean' \in 0..m
      BY <2>1, <3>1, <3>2
    <3> QED
      BY <3>2, <3>3
  <2>6. FileTyped'
    <3>1. lines' \in Seq(Line) /\ terminated' \in BOOLEAN /\ damage' \subseteq Causes
      BY <1>4, <2>4 DEF Causes
    <3>2. synced' \in 0..Len(lines')
      BY <1>1, <2>5
    <3> QED
      BY <2>5, <3>1, <3>2 DEF FileTyped
  <2> QED
    BY <2>4, <2>6
<1> QED
  BY <1>1, <1>2, <1>3, <1>5, <1>6, <1>7 DEF Crash

\* An edit changes, removes or moves down one line of a file that verifies.
EditedAt(i) ==
  \/ /\ Len(lines') = Len(lines) /\ ~lines'[i].intact
     /\ \A j \in 1..Len(lines) : lines'[j].event_hash = lines[j].event_hash
     /\ \A j \in 1..Len(lines) : j # i => lines'[j] = lines[j]
  \/ /\ i < Len(lines) /\ Len(lines') = Len(lines) - 1
     /\ \A j \in 1..Len(lines') : lines'[j] = IF j < i THEN lines[j] ELSE lines[j + 1]
  \/ /\ i < Len(lines) /\ Len(lines') = Len(lines)
     /\ lines'[i] = lines[i + 1] /\ lines'[i + 1] = lines[i]
     /\ \A j \in 1..Len(lines) : j # i /\ j # i + 1 => lines'[j] = lines[j]

LEMMA TamperIs ==
  ASSUME TypeOK, Tamper
  PROVE  /\ FileTyped' /\ terminated' /\ synced' = Len(lines') /\ Valid(lines)
         /\ \E i \in 1..Len(lines) :
              /\ EditedAt(i)
              /\ damage' = damage \cup {"tampered"}
              /\ clean' = IF damage = {} \/ i - 1 < clean THEN i - 1 ELSE clean
<1>1. /\ FileTyped /\ terminated' = TRUE /\ synced' = Len(lines') /\ Valid(lines)
      /\ \E i \in DOMAIN lines :
           /\ \/ lines' = [lines EXCEPT ![i].intact = FALSE]
              \/ /\ i < Len(lines)
                 /\ \/ lines' = SubSeq(lines, 1, i - 1) \o SubSeq(lines, i + 1, Len(lines))
                    \/ lines' = [lines EXCEPT ![i] = lines[i + 1], ![i + 1] = lines[i]]
           /\ damage' = damage \cup {"tampered"}
           /\ clean' = IF damage = {} \/ i - 1 < clean THEN i - 1 ELSE clean
  BY TypedParts DEF Tamper
<1>2. /\ Len(lines) \in Nat /\ lines \in Seq(Line) /\ DOMAIN lines = 1..Len(lines)
      /\ clean \in 0..Len(lines) /\ damage \subseteq Causes
      /\ \A i \in 1..Len(lines) : lines[i] \in Line
  BY <1>1 DEF FileTyped
<1>3. PICK i \in 1..Len(lines) :
        /\ \/ lines' = [lines EXCEPT ![i].intact = FALSE]
           \/ /\ i < Len(lines)
              /\ \/ lines' = SubSeq(lines, 1, i - 1) \o SubSeq(lines, i + 1, Len(lines))
                 \/ lines' = [lines EXCEPT ![i] = lines[i + 1], ![i + 1] = lines[i]]
        /\ damage' = damage \cup {"tampered"}
        /\ clean' = IF damage = {} \/ i - 1 < clean THEN i - 1 ELSE clean
  BY <1>1, <1>2
<1>4. PICK n \in Nat : n = Len(lines)
  BY <1>2
<1> i \in 1..n /\ i \in Nat
  BY <1>4
<1>5. ASSUME lines' = [lines EXCEPT ![i].intact = FALSE]
      PROVE  EditedAt(i) /\ lines' \in Seq(Line)
  <2>1. PICK new \in Line : /\ new = [lines[i] EXCEPT !.intact = FALSE] /\ ~new.intact
                            /\ new.event_hash = lines[i].event_hash
    <3>1. lines[i] \in Line
      BY <1>2
    <3>2. PICK new : new = [lines[i] EXCEPT !.intact = FALSE]
      OBVIOUS
    <3>3. new \in Line
      BY <3>1, <3>2 DEF Line
    <3>4. new.event_hash = lines[i].event_hash /\ new.intact = FALSE
      BY <3>1, <3>2 DEF Line
    <3> QED
      BY <3>2, <3>3, <3>4
  <2>2. PICK text : text = [lines EXCEPT ![i] = new]
    OBVIOUS
  <2>3. lines' = text
    BY <1>5, <2>1, <2>2
  <2>4. /\ text \in Seq(Line) /\ Len(text) = Len(lines)
        /\ \A j \in 1..Len(lines) : text[j] = IF j = i THEN new ELSE lines[j]
    BY <1>2, <2>2, ExceptSeq
  <2>5. EditedAt(i)
    BY <2>1, <2>3, <2>4 DEF EditedAt
  <2> QED
    BY <1>2, <2>3, <2>4, <2>5
<1>6. ASSUME i < Len(lines),
             lines' = SubSeq(lines, 1, i - 1) \o SubSeq(lines, i + 1, Len(lines))
      PROVE  EditedAt(i) /\ lines' \in Seq(Line)
  <2>1. PICK head, rest : head = SubSeq(lines, 1, i - 1) /\ rest = SubSeq(lines, i + 1, Len(lines))
    OBVIOUS
  <2>2. head \in Seq(Line) /\ Len(head) = i - 1 /\ \A j \in 1..(i - 1) : head[j] = lines[j]
    <3>1. \A j \in 1..(i - 1) : lines[j] \in Line /\ 1 + j - 1 = j
      BY <1>2
    <3>2. /\ head \in Seq(Line) /\ Len(head) = IF 1 <= i - 1 THEN (i - 1) - 1 + 1 ELSE 0
          /\ \A j \in 1..((i - 1) - 1 + 1) : head[j] = lines[1 + j - 1]
      BY <2>1, <3>1, SubSeqProperties
    <3> QED
      BY <3>1, <3>2
  <2>3. /\ rest \in Seq(Line) /\ Len(rest) = n - i
        /\ \A j \in 1..(n - i) : rest[j] = lines[i + j]
    <3>1. \A j \in (i + 1)..n : lines[j] \in Line
      BY <1>2, <1>4
    <3>2. /\ rest \in Seq(Line) /\ Len(rest) = IF i + 1 <= n THEN n - (i + 1) + 1 ELSE 0
          /\ \A j \in 1..(n - (i + 1) + 1) : rest[j] = lines[(i + 1) + j - 1]
      BY <1>4, <2>1, <3>1, SubSeqProperties
    <3>3. i + 1 <= n /\ n - (i + 1) + 1 = n - i
      BY <1>4, <1>6
    <3>4. ASSUME NEW j \in 1..(n - i) PROVE rest[j] = lines[i + j]
      <4>1. rest[j] = lines[(i + 1) + j - 1]
        BY <3>2, <3>3
      <4>2. (i + 1) + j - 1 = i + j
        BY <1>4
      <4> QED
        BY <4>1, <4>2
    <3> QED
      BY <3>2, <3>3, <3>4
  <2>4. /\ lines' \in Seq(Line) /\ Len(lines') = (i - 1) + (n - i)
        /\ \A j \in 1..((i - 1) + (n - i)) :
             lines'[j] = IF j <= i - 1 THEN head[j] ELSE rest[j - (i - 1)]
    <3>1. PICK all : all = head \o rest
      OBVIOUS
    <3>2. /\ all \in Seq(Line) /\ Len(all) = Len(head) + Len(rest)
          /\ \A j \in 1..(Len(head) + Len(rest)) :
               all[j] = IF j <= Len(head) THEN head[j] ELSE rest[j - Len(head)]
      BY <2>2, <2>3, <3>1, ConcatProperties
    <3>3. lines' = all
      BY <1>6, <2>1, <3>1
    <3> QED
      BY <2>2, <2>3, <3>2, <3>3
  <2>5. Len(lines') = n - 1
    BY <1>4, <2>4
  <2>6. ASSUME NEW j \in 1..(n - 1) PROVE lines'[j] = IF j < i THEN lines[j] ELSE lines[j + 1]
    <3>1. CASE j < i
      BY <1>4, <2>2, <2>4, <3>1
    <3>2. CASE ~(j < i)
      <4>1. j - (i - 1) \in 1..(n - i) /\ i + (j - (i - 1)) = j + 1
        BY <1>4, <3>2
      <4>2. lines'[j] = rest[j - (i - 1)]
        BY <1>4, <2>4, <3>2
      <4> QED
        BY <2>3, <3>2, <4>1, <4>2
    <3> QED
      BY <3>1, <3>2
  <2>7. EditedAt(i)
    <3>1. Len(lines') = Len(lines) - 1
      BY <1>4, <2>5
    <3>2. \A j \in 1..Len(lines') : lines'[j] = IF j < i THEN lines[j] ELSE lines[j + 1]
      BY <2>5, <2>6
    <3> QED
      BY <1>6, <3>1, <3>2 DEF EditedAt
  <2> QED
    BY <1>4, <2>4, <2>5, <2>7
<1>7. ASSUME i < Len(lines), lines' = [lines EXCEPT ![i] = lines[i + 1], ![i + 1] = lines[i]]
      PROVE  EditedAt(i) /\ lines' \in Seq(Line)
  <2>1. i + 1 \in 1..n /\ lines[i] \in Line /\ lines[i + 1] \in Line
    BY <1>2, <1>4, <1>7
  <2>2. PICK mid : mid = [lines EXCEPT ![i] = lines[i + 1]]
    OBVIOUS
  <2>3. /\ mid \in Seq(Line) /\ Len(mid) = n
        /\ \A j \in 1..n : mid[j] = IF j = i THEN lines[i + 1] ELSE lines[j]
    BY <1>2, <1>4, <2>1, <2>2, ExceptSeq
  <2>4. PICK new : new = [mid EXCEPT ![i + 1] = lines[i]]
    OBVIOUS
  <2>5. /\ new \in Seq(Line) /\ Len(new) = n
        /\ \A j \in 1..n : new[j] = IF j = i + 1 THEN lines[i] ELSE mid[j]
    BY <2>1, <2>3, <2>4, ExceptSeq
  <2>6. lines' = new
    BY <1>7, <2>2, <2>4
  <2>7. EditedAt(i)
    <3>1. Len(lines') = Len(lines) /\ i # i + 1
      BY <1>4, <2>5, <2>6
    <3>2. new[i] = lines[i + 1] /\ new[i + 1] = lines[i]
      BY <2>1, <2>3, <2>5, <3>1
    <3>3. \A j \in 1..Len(lines) : j # i /\ j # i + 1 => new[j] = lines[j]
      BY <1>4, <2>3, <2>5
    <3> QED
      BY <1>7, <2>6, <3>1, <3>2, <3>3 DEF EditedAt
  <2>8. lines' \in Seq(Line) /\ Len(lines') = n
    BY <2>5, <2>6
  <2> QED
    BY <1>4, <2>7, <2>8
<1>8. EditedAt(i) /\ lines' \in Seq(Line) /\ Len(lines') \in Nat /\ Len(lines) - 1 <= Len(lines')
  <2>1. EditedAt(i) /\ lines' \in Seq(Line)
    BY <1>3, <1>5, <1>6, <1>7
  <2>2. Len(lines') \in Nat
    BY <2>1, LenProperties
  <2>3. PICK len \in Nat : len = Len(lines') /\ (len = n \/ len = n - 1)
    BY <1>4, <2>1, <2>2 DEF EditedAt
  <2>4. n - 1 <= len
    BY <2>3
  <2> QED
    BY <1>4, <2>1, <2>3, <2>4
<1>9. FileTyped'
  <2>1. clean' \in 0..Len(lines')
    BY <1>2, <1>3, <1>8
  <2> QED
    BY <1>1, <1>2, <1>3, <1>8, <2>1 DEF FileTyped, Causes
<1> QED
  BY <1>1, <1>3, <1>8, <1>9

\* A failed write leaves the file, adds some of the line to it, or spoils its end.
LEMMA WriteFailsIs ==
  ASSUME TypeOK, LocksHeld, Torn, NEW t \in Threads,
         NEW amount \in {"none", "part", "unterminated", "whole"}, WriteFails(t, amount)
  PROVE  /\ emit[t].pc = "locked" /\ emit[t].line \in Line
         /\ lines' = AfterAppend(emit[t].line, amount)
         /\ EmitTyped' /\ SinkTyped' /\ FileTyped'
         /\ \E pointer \in {GENESIS_HASH} \cup Digest :
              pointer = sink[emit[t].sink].previous_hash /\ Release(t, pointer)
         /\ \/ amount = "none" /\ UNCHANGED <<lines, terminated, damage, clean>>
            \/ amount = "whole" /\ terminated' /\ Damaged({"stale"})
            \/ amount \notin {"none", "whole"} /\ ~terminated' /\ Damaged({"torn"})
<1>1. /\ emit[t].pc = "locked" /\ lines' = AfterAppend(emit[t].line, amount)
      /\ terminated' = (IF amount = "none" THEN terminated ELSE (amount = "whole"))
      /\ Release(t, sink[emit[t].sink].previous_hash) /\ synced' = synced
      /\ Damaged(CASE amount = "none"  -> {}
                   [] amount = "whole" -> {"stale"}
                   [] OTHER            -> {"torn"})
  BY DEF WriteFails
<1>2. EmitTyped /\ SinkTyped /\ FileTyped
  BY TypedParts
<1>3. emit[t].line \in Line /\ emit[t].sink \in Threads /\ Writing(t)
  BY <1>1, <1>2, EmitTypes DEF EmitTyped, Using, Writing
<1>4. PICK pointer \in {GENESIS_HASH} \cup Digest : pointer = sink[emit[t].sink].previous_hash
  BY <1>2, <1>3 DEF SinkTyped, SinkState
<1>5. Release(t, pointer)
  BY <1>1, <1>4
<1>6. EmitTyped' /\ SinkTyped'
  BY <1>3, <1>5, ReleaseIs DEF EmitTyped, SinkTyped
<1>7. lines' \in Seq(Line) /\ Len(lines) \in Nat
      /\ \/ amount = "none" /\ lines' = lines
         \/ amount # "none" /\ (Len(lines') = Len(lines) + 1 \/ Len(lines') = Len(lines))
  BY <1>1, <1>2, <1>3, AfterAppendIs, LenProperties DEF FileTyped
<1>8. Len(lines) <= Len(lines') /\ terminated' \in BOOLEAN
  <2>1. terminated' \in BOOLEAN
    BY <1>1, <1>2 DEF FileTyped
  <2> QED
    BY <1>7, <2>1
<1>9. CASE amount = "none"
  <2>1. Damaged({}) /\ terminated' = terminated
    BY <1>1, <1>9
  <2>2. UNCHANGED <<lines, terminated, damage, clean>>
    BY <1>7, <1>9, <2>1 DEF Damaged
  <2>3. FileTyped'
    BY <1>1, <1>2, <2>2 DEF FileTyped
  <2> QED
    BY <1>1, <1>3, <1>4, <1>5, <1>6, <1>9, <2>2, <2>3
<1>10. CASE amount = "whole"
  <2>1. Damaged({"stale"}) /\ terminated' = TRUE /\ {"stale"} \in SUBSET Causes
    BY <1>1, <1>10 DEF Causes
  <2>2. FileTyped'
    BY <1>1, <1>2, <1>7, <1>8, <2>1, DamagedTyped
  <2> QED
    BY <1>1, <1>3, <1>4, <1>5, <1>6, <1>10, <2>1, <2>2
<1>11. CASE amount \notin {"none", "whole"}
  <2>1. Damaged({"torn"}) /\ terminated' = FALSE /\ {"torn"} \in SUBSET Causes
    BY <1>1, <1>11 DEF Causes
  <2>2. FileTyped'
    BY <1>1, <1>2, <1>7, <1>8, <2>1, DamagedTyped
  <2> QED
    BY <1>1, <1>3, <1>4, <1>5, <1>6, <1>11, <2>1, <2>2
<1> QED
  BY <1>9, <1>10, <1>11

\* A line that reached the file is synced, or not.
LEMMA FsyncIs ==
  ASSUME TypeOK, LocksHeld, NEW t \in Threads, Fsync(t) \/ FsyncFails(t)
  PROVE  /\ emit[t].pc = "written" /\ emit[t].line \in Line /\ emit[t].line.event_hash \in Digest
         /\ EmitTyped' /\ SinkTyped' /\ FileTyped' /\ lines' = lines /\ terminated' = terminated
         /\ \E pointer \in {GENESIS_HASH} \cup Digest :
              /\ Release(t, pointer)
              /\ Fsync(t) => pointer = emit[t].line.event_hash
<1>1. emit[t].pc = "written" /\ UNCHANGED <<lines, terminated>>
  BY DEF Fsync, FsyncFails
<1>2. EmitTyped /\ SinkTyped /\ FileTyped
  BY TypedParts
<1>3. emit[t].line \in Line /\ emit[t].sink \in Threads /\ Writing(t)
  BY <1>1, <1>2, EmitTypes DEF EmitTyped, Using, Writing
<1>4. emit[t].line.event_hash \in Digest
  BY <1>3 DEF LocksHeld, Readable, Line
<1>5. CASE Fsync(t)
  <2>1. PICK pointer \in {GENESIS_HASH} \cup Digest : pointer = emit[t].line.event_hash
    BY <1>4
  <2>2. Release(t, pointer)
    BY <1>5, <2>1 DEF Fsync
  <2>3. EmitTyped' /\ SinkTyped'
    BY <1>3, <2>2, ReleaseIs DEF EmitTyped, SinkTyped
  <2>4. synced' = Len(lines) /\ UNCHANGED <<damage, clean>>
    BY <1>5 DEF Fsync
  <2>5. FileTyped'
    BY <1>1, <1>2, <2>4, LenProperties DEF FileTyped
  <2> QED
    BY <1>1, <1>3, <1>4, <2>1, <2>2, <2>3, <2>5
<1>6. CASE FsyncFails(t) /\ ~Fsync(t)
  <2>1. PICK pointer \in {GENESIS_HASH} \cup Digest : pointer = sink[emit[t].sink].previous_hash
    BY <1>2, <1>3 DEF SinkTyped, SinkState
  <2>2. Release(t, pointer)
    BY <1>6, <2>1 DEF FsyncFails
  <2>3. EmitTyped' /\ SinkTyped'
    BY <1>3, <2>2, ReleaseIs DEF EmitTyped, SinkTyped
  <2>4. Damaged({"stale"}) /\ {"stale"} \in SUBSET Causes /\ synced' = synced
    BY <1>6 DEF FsyncFails, Causes
  <2>5. lines' \in Seq(Line) /\ Len(lines) <= Len(lines') /\ terminated' \in BOOLEAN
    BY <1>1, <1>2, LenProperties DEF FileTyped
  <2>6. FileTyped'
    BY <1>2, <2>4, <2>5, DamagedTyped
  <2> QED
    BY <1>1, <1>3, <1>4, <1>6, <2>2, <2>3, <2>6
<1> QED
  BY <1>5, <1>6

LEMMA NextTypeOK ==
  TypeOK /\ SinksBuilt /\ LocksHeld /\ Torn /\ [Next]_vars => TypeOK'
<1> SUFFICES ASSUME TypeOK, SinksBuilt, LocksHeld, Torn, [Next]_vars PROVE TypeOK'
  OBVIOUS
<1>0. EmitTyped /\ SinkTyped /\ FileTyped /\ RestTyped
  BY TypedParts
<1> SUFFICES EmitTyped' /\ SinkTyped' /\ FileTyped' /\ RestTyped'
  BY TypedParts, PTL
<1>1. CASE UNCHANGED vars
  <2>1. EmitTyped' /\ SinkTyped'
    BY <1>0, <1>1 DEF vars, EmitTyped, SinkTyped
  <2>2. FileTyped' /\ RestTyped'
    BY <1>0, <1>1 DEF vars, FileTyped, RestTyped
  <2> QED
    BY <2>1, <2>2
<1>2. ASSUME NEW t \in Threads, Emit(t)
      PROVE  EmitTyped' /\ SinkTyped' /\ FileTyped' /\ RestTyped'
  <2>1. EmitTyped'
    BY <1>2, EmitIs
  <2>2. emitted' = emitted + 1 /\ emitted < MaxEvents
    BY <1>2 DEF Emit
  <2>3. emitted' \in 0..MaxEvents
    BY <1>0, <2>2, BoundsAssumption DEF RestTyped
  <2> QED
    BY <1>0, <1>2, <2>1, <2>3 DEF Emit, SinkTyped, FileTyped, RestTyped
<1>3. ASSUME NEW t \in Threads, BuildSink(t)
      PROVE  EmitTyped' /\ SinkTyped' /\ FileTyped' /\ RestTyped'
  BY <1>0, <1>3, BuildSinkIs DEF BuildSink, RestTyped
<1>4. ASSUME NEW t \in Threads, SetDefault(t)
      PROVE  EmitTyped' /\ SinkTyped' /\ FileTyped' /\ RestTyped'
  <2>1. EmitTyped'
    BY <1>4, ThreadStepIs
  <2> QED
    BY <1>0, <1>4, <2>1 DEF SetDefault, SinkTyped, FileTyped, RestTyped
<1>5. ASSUME NEW t \in Threads, ReturnDefault(t) \/ Discard(t)
      PROVE  EmitTyped' /\ SinkTyped' /\ FileTyped' /\ RestTyped'
  <2>1. EmitTyped'
    BY <1>5, ThreadStepIs
  <2> QED
    BY <1>0, <1>5, <2>1 DEF ReturnDefault, Discard, SinkTyped, FileTyped, RestTyped
<1>6. ASSUME NEW t \in Threads, Lock(t)
      PROVE  EmitTyped' /\ SinkTyped' /\ FileTyped' /\ RestTyped'
  <2>1. EmitTyped' /\ SinkTyped'
    BY <1>6, LockIs
  <2> QED
    BY <1>0, <1>6, <2>1 DEF Lock, FileTyped, RestTyped
<1>7. ASSUME NEW t \in Threads, Write(t)
      PROVE  EmitTyped' /\ SinkTyped' /\ FileTyped' /\ RestTyped'
  <2>1. /\ emit[t].pc = "locked" /\ lines' = AfterAppend(emit[t].line, "whole")
        /\ terminated' = TRUE /\ UNCHANGED <<sink, synced, clean, damage>>
        /\ UNCHANGED <<default_service, emitted, acked, crashes>>
    BY <1>7 DEF Write
  <2>2. emit[t].line \in Line
    BY <1>0, <2>1, EmitTypes DEF EmitTyped, Writing
  <2>3. lines' \in Seq(Line) /\ (Len(lines') = Len(lines) + 1 \/ Len(lines') = Len(lines))
    BY <2>1, <2>2, AfterAppendIs, <1>0 DEF FileTyped
  <2>4. Len(lines) \in Nat /\ synced \in 0..Len(lines) /\ clean \in 0..Len(lines)
    BY <1>0, LenProperties DEF FileTyped
  <2>5. synced \in 0..Len(lines') /\ clean \in 0..Len(lines')
    BY <2>3, <2>4
  <2>6. EmitTyped'
    BY <1>7, ThreadStepIs
  <2> QED
    BY <1>0, <2>1, <2>3, <2>5, <2>6 DEF SinkTyped, FileTyped, RestTyped
<1>8. ASSUME NEW t \in Threads, Fsync(t) \/ FsyncFails(t)
      PROVE  EmitTyped' /\ SinkTyped' /\ FileTyped' /\ RestTyped'
  <2>1. EmitTyped' /\ SinkTyped' /\ FileTyped' /\ emit[t].line.event_hash \in Digest
    BY <1>8, FsyncIs
  <2>2. RestTyped'
    BY <1>0, <1>8, <2>1 DEF Fsync, FsyncFails, RestTyped
  <2> QED
    BY <2>1, <2>2
<1>9. ASSUME NEW t \in Threads, NEW amount \in {"none", "part", "unterminated", "whole"},
             WriteFails(t, amount)
      PROVE  EmitTyped' /\ SinkTyped' /\ FileTyped' /\ RestTyped'
  <2>1. EmitTyped' /\ SinkTyped' /\ FileTyped'
    BY <1>9, WriteFailsIs
  <2>2. RestTyped'
    BY <1>0, <1>9 DEF WriteFails, RestTyped
  <2> QED
    BY <2>1, <2>2
<1>10. CASE Crash
  <2>1. EmitTyped' /\ SinkTyped' /\ FileTyped' /\ default_service' = NoSink
        /\ UNCHANGED <<emitted, acked>>
    BY <1>10, CrashIs
  <2>2. crashes' \in 0..MaxCrashes
    BY <1>0, <1>10, BoundsAssumption DEF Crash, Restarted, RestTyped
  <2> QED
    BY <1>0, <2>1, <2>2 DEF RestTyped
<1>11. CASE Tamper
  <2>1. FileTyped'
    BY <1>11, TamperIs
  <2> QED
    BY <1>0, <1>11, <2>1 DEF Tamper, EmitTyped, SinkTyped, RestTyped
<1> QED
  BY <1>1, <1>2, <1>3, <1>4, <1>5, <1>6, <1>7, <1>8, <1>9, <1>10, <1>11 DEF Next

-----------------------------------------------------------------------------
\* A sink is built once, before it is used, and a line is written under its lock.
LEMMA NextSinks ==
  TypeOK /\ TypeOK' /\ SinksBuilt /\ LocksHeld /\ PendingOnce /\ Torn /\ [Next]_vars
    => SinksBuilt' /\ LocksHeld'
<1> SUFFICES ASSUME TypeOK, TypeOK', SinksBuilt, LocksHeld, PendingOnce, Torn, [Next]_vars
             PROVE  SinksBuilt' /\ LocksHeld'
  OBVIOUS
<1>0. EmitTyped /\ SinkTyped /\ RestTyped
  BY TypedParts
<1> USE DEF Using, Writing
<1>1. CASE UNCHANGED vars
  BY <1>1 DEF vars, SinksBuilt, SinkBuilt, LocksHeld
<1>2. ASSUME NEW t \in Threads, Emit(t)
      PROVE  SinksBuilt' /\ LocksHeld'
  <2>1. /\ \A u \in Threads : u # t => emit'[u] = emit[u]
        /\ UNCHANGED <<sink, default_service>>
        /\ \/ /\ emit[t].pc = "holding"
              /\ emit'[t] = [pc |-> "ready", event |-> emitted + 1, sink |-> emit[t].sink]
           \/ /\ default_service # NoSink
              /\ emit'[t] = [pc |-> "ready", event |-> emitted + 1, sink |-> default_service]
           \/ /\ default_service = NoSink
              /\ emit'[t] = [pc |-> "building", event |-> emitted + 1]
    BY <1>2, EmitIs DEF Emit
  <2>2. emit[t].pc \in {"idle", "holding"}
    BY <1>2 DEF Emit
  <2>3. emit'[t].pc \in {"ready", "building"}
    BY <2>1
  <2>4. /\ Using(t)' => sink[emit'[t].sink].kind # "none" /\ default_service # NoSink
        /\ emit'[t].pc = "building" => sink[t].kind = "none"
    BY <2>1, <2>2 DEF SinksBuilt, SinkBuilt
  <2>5. SinksBuilt'
    BY <2>1, <2>3, <2>4 DEF SinksBuilt, SinkBuilt
  <2>6. LocksHeld'
    BY <2>1, <2>3 DEF LocksHeld
  <2> QED
    BY <2>5, <2>6
<1>3. ASSUME NEW t \in Threads, BuildSink(t)
      PROVE  SinksBuilt' /\ LocksHeld'
  <2>1. /\ emit[t].pc = "building" /\ emit'[t] = [emit[t] EXCEPT !.pc = "built"]
        /\ \A u \in Threads : u # t => emit'[u] = emit[u] /\ sink'[u] = sink[u]
        /\ sink'[t].kind # "none" /\ default_service' = default_service
    BY <1>3, BuildSinkIs DEF BuildSink
  <2>2. emit'[t].pc = "built"
    BY <1>0, <1>3 DEF BuildSink, EmitTyped
  <2>3. sink[t].kind = "none"
    BY <2>1 DEF SinksBuilt, SinkBuilt
  <2>4. \A u \in Threads : u # t /\ Using(u) => emit[u].sink # t /\ emit[u].sink \in Threads
    BY <1>0, <2>3, EmitTypes DEF SinksBuilt, SinkBuilt, EmitTyped
  <2>5. default_service # NoSink => default_service \in Threads /\ default_service # t
    BY <1>0, <2>3 DEF SinksBuilt, SinkBuilt, RestTyped
  <2>6. ASSUME NEW u \in Threads, u # t
        PROVE  /\ emit'[u] = emit[u] /\ sink'[u] = sink[u]
               /\ Using(u) => sink'[emit[u].sink] = sink[emit[u].sink]
    BY <2>1, <2>4, <2>6
  <2>7. ~Using(t)' /\ emit'[t].pc \notin {"idle", "building", "set"}
    BY <2>2
  <2>8. SinksBuilt'
    <3>1. SinkBuilt(t)'
      BY <2>1, <2>2, <2>7 DEF SinkBuilt
    <3>2. ASSUME NEW u \in Threads, u # t PROVE SinkBuilt(u)'
      <4>1. SinkBuilt(u)
        BY DEF SinksBuilt
      <4>2. /\ emit'[u] = emit[u] /\ sink'[u] = sink[u] /\ default_service' = default_service
            /\ Using(u) => sink'[emit[u].sink] = sink[emit[u].sink]
        BY <2>1, <2>6, <3>2
      <4> QED
        BY <4>1, <4>2 DEF SinkBuilt
    <3>3. default_service' # NoSink => sink'[default_service'].kind # "none"
      BY <2>1, <2>5 DEF SinksBuilt
    <3> QED
      BY <3>1, <3>2, <3>3 DEF SinksBuilt
  <2>9. ASSUME NEW u \in Threads, Writing(u)'
        PROVE  /\ sink'[emit'[u].sink].kind = "jsonl" /\ sink'[emit'[u].sink].owner = u
               /\ Readable(emit'[u].line) /\ emit'[u].line.intact
    <3>1. u # t
      BY <2>2, <2>9
    <3>2. emit'[u] = emit[u] /\ Writing(u) /\ sink'[emit[u].sink] = sink[emit[u].sink]
      BY <2>6, <2>9, <3>1
    <3> QED
      BY <3>2 DEF LocksHeld
  <2>10. LocksHeld'
    BY <2>9 DEF LocksHeld
  <2> QED
    BY <2>8, <2>10
<1>4. ASSUME NEW t \in Threads, SetDefault(t)
      PROVE  SinksBuilt' /\ LocksHeld'
  <2>1. /\ emit[t].pc = "built" /\ default_service' = t /\ sink' = sink
        /\ \A u \in Threads : u # t => emit'[u] = emit[u]
    BY <1>4, ThreadStepIs DEF SetDefault
  <2>2. emit'[t].pc = "set"
    BY <1>0, <1>4 DEF SetDefault, EmitTyped
  <2>3. SinksBuilt'
    BY <2>1, <2>2, NoSinkAssumption DEF SinksBuilt, SinkBuilt
  <2>4. LocksHeld'
    BY <2>1, <2>2 DEF LocksHeld
  <2> QED
    BY <2>3, <2>4
<1>5. ASSUME NEW t \in Threads, ReturnDefault(t)
      PROVE  SinksBuilt' /\ LocksHeld'
  <2>1. /\ emit[t].pc = "set" /\ UNCHANGED <<sink, default_service>>
        /\ emit'[t] = [pc |-> "ready", event |-> emit[t].event, sink |-> default_service]
        /\ \A u \in Threads : u # t => emit'[u] = emit[u]
    BY <1>5, ThreadStepIs DEF ReturnDefault
  <2>2. SinksBuilt'
    BY <2>1 DEF SinksBuilt, SinkBuilt
  <2>3. LocksHeld'
    BY <2>1 DEF LocksHeld
  <2> QED
    BY <2>2, <2>3
<1>6. ASSUME NEW t \in Threads, Discard(t)
      PROVE  SinksBuilt' /\ LocksHeld'
  <2>1. /\ emit[t].pc = "ready" /\ UNCHANGED <<sink, default_service>>
        /\ emit'[t] = [pc |-> "holding", sink |-> emit[t].sink]
        /\ \A u \in Threads : u # t => emit'[u] = emit[u]
    BY <1>6, ThreadStepIs DEF Discard
  <2>2. SinksBuilt'
    BY <2>1 DEF SinksBuilt, SinkBuilt
  <2>3. LocksHeld'
    BY <2>1 DEF LocksHeld
  <2> QED
    BY <2>2, <2>3
<1>7. ASSUME NEW t \in Threads, Lock(t)
      PROVE  SinksBuilt' /\ LocksHeld'
  <2>0. PICK s \in Threads : s = emit[t].sink
    BY <1>7, LockIs
  <2>a. PICK line : line = [event_hash |-> emit[t].event, intact |-> TRUE,
                            previous_hash |-> sink[s].previous_hash]
    OBVIOUS
  <2>1. /\ emit[t].event \in Digest
        /\ emit'[t] = [pc |-> "locked", sink |-> s, line |-> line]
        /\ \A u \in Threads : u # t => emit'[u] = emit[u]
        /\ sink[s].kind = "jsonl" /\ sink[s].owner = NoSink
        /\ sink'[s] = [sink[s] EXCEPT !.owner = t]
        /\ \A u \in Threads : u # s => sink'[u] = sink[u]
    BY <1>7, <2>0, <2>a, LockIs
  <2>b. emit[t].pc = "ready" /\ default_service' = default_service
    BY <1>7 DEF Lock
  <2>2. sink'[s].kind = "jsonl" /\ sink'[s].owner = t
    BY <1>0, <2>1 DEF SinkTyped, SinkState
  <2>3. Readable(line) /\ line.intact
    BY <2>a, <2>1 DEF Readable, Digest, GENESIS_HASH
  <2>4. \A u \in Threads : sink'[u].kind = sink[u].kind
    BY <2>1, <2>2
  <2>5. \A u \in Threads : Using(u) => emit[u].sink \in Threads
    BY <1>0, EmitTypes DEF EmitTyped
  <2>6. SinksBuilt'
    <3>1. default_service # NoSink => default_service \in Threads
      BY <1>0 DEF RestTyped
    <3>2. emit'[t].pc = "locked" /\ emit'[t].sink = s /\ Using(t)
      BY <2>1, <2>b
    <3>3. default_service # NoSink
      BY <3>2 DEF SinksBuilt, SinkBuilt
    <3>4. SinkBuilt(t)'
      BY <2>b, <2>2, <3>2, <3>3 DEF SinkBuilt
    <3>5. ASSUME NEW u \in Threads, u # t PROVE SinkBuilt(u)'
      <4>1. emit'[u] = emit[u] /\ SinkBuilt(u) /\ (Using(u) => emit[u].sink \in Threads)
        BY <2>1, <2>5, <3>5 DEF SinksBuilt, SinkBuilt
      <4> QED
        BY <2>b, <2>4, <4>1 DEF SinkBuilt
    <3>6. default_service' # NoSink => sink'[default_service'].kind # "none"
      BY <2>b, <2>4, <3>1 DEF SinksBuilt
    <3> QED
      BY <3>4, <3>5, <3>6 DEF SinksBuilt
  <2>7. \A u \in Threads : Writing(u) => emit[u].sink # s
    BY <2>1, NoSinkAssumption DEF LocksHeld
  <2>8. LocksHeld'
    <3>1. ASSUME NEW u \in Threads, Writing(u)'
          PROVE  /\ sink'[emit'[u].sink].kind = "jsonl" /\ sink'[emit'[u].sink].owner = u
                 /\ Readable(emit'[u].line) /\ emit'[u].line.intact
      <4>1. CASE u = t
        <5>1. emit'[t].sink = s /\ emit'[t].line = line
          BY <2>1
        <5> QED
          BY <2>2, <2>3, <4>1, <5>1
      <4>2. CASE u # t
        <5>1. emit'[u] = emit[u]
          BY <2>1, <4>2
        <5>2. Writing(u) /\ emit[u].sink \in Threads /\ emit[u].sink # s
          BY <2>5, <2>7, <3>1, <5>1
        <5>3. sink'[emit[u].sink] = sink[emit[u].sink]
          BY <2>1, <5>2
        <5> QED
          BY <5>1, <5>2, <5>3 DEF LocksHeld
      <4> QED
        BY <4>1, <4>2
    <3> QED
      BY <3>1 DEF LocksHeld
  <2> QED
    BY <2>6, <2>8
<1>8. ASSUME NEW t \in Threads, Write(t)
      PROVE  SinksBuilt' /\ LocksHeld'
  <2>1. /\ emit[t].pc = "locked" /\ emit'[t] = [emit[t] EXCEPT !.pc = "written"]
        /\ \A u \in Threads : u # t => emit'[u] = emit[u]
        /\ UNCHANGED <<sink, default_service>>
    BY <1>8, ThreadStepIs DEF Write
  <2>2. emit'[t].pc = "written" /\ emit'[t].sink = emit[t].sink /\ emit'[t].line = emit[t].line
    BY <1>0, <2>1, LockedIs
  <2>3. SinksBuilt'
    <3>1. ASSUME NEW u \in Threads PROVE SinkBuilt(u)'
      <4>1. SinkBuilt(u)
        BY DEF SinksBuilt
      <4>2. CASE u = t
        BY <2>1, <2>2, <4>1, <4>2 DEF SinkBuilt
      <4>3. CASE u # t
        <5>1. emit'[u] = emit[u] /\ sink' = sink /\ default_service' = default_service
          BY <2>1, <4>3
        <5> QED
          BY <4>1, <5>1 DEF SinkBuilt
      <4> QED
        BY <4>2, <4>3
    <3>2. default_service' # NoSink => sink'[default_service'].kind # "none"
      BY <2>1 DEF SinksBuilt
    <3> QED
      BY <3>1, <3>2 DEF SinksBuilt
  <2>4. LocksHeld'
    <3>1. ASSUME NEW u \in Threads, Writing(u)'
          PROVE  /\ sink'[emit'[u].sink].kind = "jsonl" /\ sink'[emit'[u].sink].owner = u
                 /\ Readable(emit'[u].line) /\ emit'[u].line.intact
      <4>1. Writing(u) /\ emit'[u].sink = emit[u].sink /\ emit'[u].line = emit[u].line
            /\ sink' = sink
        BY <2>1, <2>2, <3>1
      <4> QED
        BY <4>1 DEF LocksHeld
    <3> QED
      BY <3>1 DEF LocksHeld
  <2> QED
    BY <2>3, <2>4
<1>9. ASSUME NEW t \in Threads, NEW pointer \in {GENESIS_HASH} \cup Digest, Writing(t),
             Release(t, pointer), default_service' = default_service
      PROVE  SinksBuilt' /\ LocksHeld'
  <2>1. PICK s \in Threads :
          /\ s = emit[t].sink /\ emit'[t] = [pc |-> "holding", sink |-> s]
          /\ \A u \in Threads : u # t => emit'[u] = emit[u]
          /\ sink'[s] = [kind |-> sink[s].kind, previous_hash |-> pointer, owner |-> NoSink]
          /\ \A u \in Threads : u # s => sink'[u] = sink[u]
    BY <1>9, ReleaseIs
  <2>2. \A u \in Threads : sink'[u].kind = sink[u].kind
    BY <2>1
  <2>3. \A u \in Threads : Using(u) => emit[u].sink \in Threads
    BY <1>0, EmitTypes DEF EmitTyped
  <2>4. SinksBuilt'
    BY <1>0, <1>9, <2>1, <2>2, <2>3 DEF SinksBuilt, SinkBuilt, RestTyped
  <2>5. \A u \in Threads : u # t /\ Writing(u) => emit[u].sink # s
    BY <1>9, <2>1 DEF LocksHeld
  <2>6. LocksHeld'
    BY <2>1, <2>3, <2>5 DEF LocksHeld
  <2> QED
    BY <2>4, <2>6
<1>10. ASSUME NEW t \in Threads, Fsync(t) \/ FsyncFails(t)
       PROVE  SinksBuilt' /\ LocksHeld'
  <2>1. Writing(t) /\ default_service' = default_service
        /\ \E pointer \in {GENESIS_HASH} \cup Digest : Release(t, pointer)
    BY <1>10, FsyncIs DEF Fsync, FsyncFails
  <2> QED
    BY <1>9, <2>1
<1>11. ASSUME NEW t \in Threads, NEW amount \in {"none", "part", "unterminated", "whole"},
              WriteFails(t, amount)
       PROVE  SinksBuilt' /\ LocksHeld'
  <2>1. Writing(t) /\ default_service' = default_service
        /\ \E pointer \in {GENESIS_HASH} \cup Digest : Release(t, pointer)
    BY <1>11, WriteFailsIs DEF WriteFails
  <2> QED
    BY <1>9, <2>1
<1>12. CASE Crash
  <2>1. default_service' = NoSink /\ \A t \in Threads : emit'[t] = Idle /\ sink'[t] = NoObject
    BY <1>12, CrashIs
  <2> QED
    BY <2>1 DEF SinksBuilt, SinkBuilt, LocksHeld, Idle, NoObject
<1>13. CASE Tamper
  BY <1>13 DEF Tamper, SinksBuilt, SinkBuilt, LocksHeld
<1> QED
  BY <1>1, <1>2, <1>3, <1>4, <1>5, <1>6, <1>7, <1>8, <1>10, <1>11, <1>12, <1>13 DEF Next

-----------------------------------------------------------------------------
\* An event stays with its thread until it is in a line, and is in one line only.
LEMMA PendingKept ==
  ASSUME TypeOK, PendingOnce, emitted' = emitted,
         \A u \in Threads : HasPending(u)' => HasPending(u) /\ PendingEvent(u)' = PendingEvent(u),
         \A i \in DOMAIN lines' : Readable(lines'[i]) =>
           \/ \E j \in DOMAIN lines : lines'[i].event_hash = lines[j].event_hash
           \/ \E w \in Threads : /\ HasPending(w) /\ ~HasPending(w)'
                                 /\ lines'[i].event_hash = PendingEvent(w)
  PROVE  PendingOnce'
<1> SUFFICES ASSUME NEW u \in Threads, HasPending(u)'
             PROVE  /\ PendingEvent(u)' \in 1..emitted'
                    /\ \A i \in DOMAIN lines' : lines'[i].event_hash # PendingEvent(u)'
                    /\ \A w \in Threads :
                         HasPending(w)' /\ PendingEvent(w)' = PendingEvent(u)' => w = u
  BY DEF PendingOnce
<1>1. PICK e : e = PendingEvent(u)
  OBVIOUS
<1>2. HasPending(u) /\ PendingEvent(u)' = e /\ e \in 1..emitted
  BY <1>1 DEF PendingOnce
<1>3. \A w \in Threads : HasPending(w) /\ PendingEvent(w) = e => w = u
  BY <1>1, <1>2 DEF PendingOnce
<1>4. \A j \in DOMAIN lines : lines[j].event_hash # e
  BY <1>1, <1>2 DEF PendingOnce
<1>5. ASSUME NEW i \in DOMAIN lines', lines'[i].event_hash = e PROVE FALSE
  <2>1. Readable(lines'[i])
    BY <1>2, <1>5 DEF Readable, GENESIS_HASH, TypeOK
  <2>2. CASE \E j \in DOMAIN lines : lines'[i].event_hash = lines[j].event_hash
    BY <1>4, <1>5, <2>2
  <2>3. CASE \E w \in Threads : /\ HasPending(w) /\ ~HasPending(w)'
                                /\ lines'[i].event_hash = PendingEvent(w)
    BY <1>3, <1>5, <2>3
  <2> QED
    BY <2>1, <2>2, <2>3
<1> QED
  BY <1>2, <1>3, <1>5

\* Lines that come from lines keep their events apart.
LEMMA LinesKept ==
  ASSUME TypeOK, TypeOK', LinesOnce, emitted' = emitted,
         NEW from \in [1..Len(lines') -> Nat],
         \A i, j \in 1..Len(lines') : from[i] = from[j] => i = j,
         \A i \in 1..Len(lines') : Readable(lines'[i]) =>
           from[i] \in 1..Len(lines) /\ lines'[i].event_hash = lines[from[i]].event_hash
  PROVE  LinesOnce'
<1>1. DOMAIN lines = 1..Len(lines) /\ emitted \in Nat
  BY BoundsAssumption DEF TypeOK
<1>2. DOMAIN lines' = 1..Len(lines')
  BY DEF TypeOK
<1>3. ASSUME NEW i \in 1..Len(lines') PROVE lines'[i].event_hash <= emitted
  <2>1. CASE Readable(lines'[i])
    BY <1>1, <2>1 DEF LinesOnce
  <2>2. CASE ~Readable(lines'[i])
    BY <1>1, <2>2 DEF Readable, GENESIS_HASH
  <2> QED
    BY <2>1, <2>2
<1>4. ASSUME NEW i \in 1..Len(lines'), NEW j \in 1..Len(lines'),
             Readable(lines'[i]), lines'[i].event_hash = lines'[j].event_hash
      PROVE  i = j
  <2>1. Readable(lines'[j])
    BY <1>4 DEF Readable
  <2>2. PICK a \in 1..Len(lines), b \in 1..Len(lines) : a = from[i] /\ b = from[j]
    BY <1>4, <2>1
  <2>3. lines'[i].event_hash = lines[a].event_hash /\ lines'[j].event_hash = lines[b].event_hash
    BY <1>4, <2>1, <2>2
  <2>4. Readable(lines[a]) /\ lines[a].event_hash = lines[b].event_hash
    BY <1>4, <2>3 DEF Readable
  <2>5. a = b
    BY <1>1, <2>4 DEF LinesOnce
  <2> QED
    BY <2>2, <2>5
<1> QED
  BY <1>2, <1>3, <1>4 DEF LinesOnce

LEMMA SameLinesKept ==
  ASSUME TypeOK, LinesOnce, lines' = lines, emitted' \in Nat, emitted <= emitted'
  PROVE  LinesOnce'
<1>1. ASSUME NEW i \in DOMAIN lines PROVE lines[i].event_hash <= emitted'
  <2>1. lines[i].event_hash <= emitted /\ lines[i] \in Line /\ emitted \in Nat
    BY BoundsAssumption DEF LinesOnce, TypeOK
  <2>2. lines[i].event_hash \in Nat
    BY <2>1, BoundsAssumption DEF Line, Digest, GENESIS_HASH
  <2> QED
    BY <2>1, <2>2
<1> QED
  BY <1>1 DEF LinesOnce

\* A line that reaches the file is the only one of its event.
LEMMA AppendedOnce ==
  ASSUME TypeOK, TypeOK', Torn, PendingOnce, LinesOnce, NEW t \in Threads, emit[t].pc = "locked",
         NEW amount \in {"none", "part", "unterminated", "whole"},
         lines' = AfterAppend(emit[t].line, amount), emitted' = emitted
  PROVE  /\ LinesOnce'
         /\ \A i \in DOMAIN lines' : Readable(lines'[i]) =>
              \/ \E j \in DOMAIN lines : lines'[i].event_hash = lines[j].event_hash
              \/ lines'[i].event_hash = PendingEvent(t)
<1>1. PICK line \in Line : line = emit[t].line
  BY EmitTypes DEF TypeOK, Writing
<1>2. /\ Len(lines) \in Nat /\ DOMAIN lines = 1..Len(lines) /\ emitted \in Nat
      /\ \A i \in 1..Len(lines) : lines[i] \in Line
  BY BoundsAssumption DEF TypeOK
<1>3. DOMAIN lines' = 1..Len(lines')
  BY DEF TypeOK
<1>4. /\ line.event_hash = PendingEvent(t) /\ line.event_hash <= emitted
      /\ \A i \in 1..Len(lines) : lines[i].event_hash # line.event_hash
  <2>1. PendingEvent(t) = line.event_hash /\ HasPending(t)
    BY <1>1 DEF PendingEvent, HasPending
  <2>2. line.event_hash \in 1..emitted
    BY <2>1 DEF PendingOnce
  <2> QED
    BY <1>2, <2>1, <2>2 DEF PendingOnce
<1>5. \A i \in 1..Len(lines) : lines[i].event_hash <= emitted
  BY <1>2 DEF LinesOnce
<1>6. Garbage.event_hash = 0 /\ ~Readable(Garbage)
  BY DEF Garbage, Readable, GENESIS_HASH
<1>7. CASE amount = "none"
  <2>1. lines' = lines
    BY <1>1, <1>7, AfterAppendIs
  <2> QED
    BY <1>2, <2>1, SameLinesKept
<1>8. CASE amount # "none" /\ terminated
  <2>1. PICK n \in Nat : n = Len(lines)
    BY <1>2
  <2>2. /\ Len(lines') = n + 1 /\ \A i \in 1..n : lines'[i] = lines[i]
        /\ lines'[n + 1] \in {line, Garbage}
    BY <1>1, <1>8, <2>1, AfterAppendIs
  <2>3. ASSUME NEW i \in 1..(n + 1)
        PROVE  i = n + 1 \/ (i \in 1..n /\ lines'[i] = lines[i])
    BY <2>2
  <2>4. ASSUME NEW i \in 1..(n + 1)
        PROVE  lines'[i].event_hash <= emitted
    <3>1. CASE i = n + 1
      <4>1. lines'[i] = line \/ lines'[i] = Garbage
        BY <2>2, <3>1
      <4> QED
        BY <1>2, <1>4, <1>6, <4>1
    <3> QED
      BY <1>5, <2>1, <2>3, <3>1
  <2>5. ASSUME NEW i \in 1..(n + 1), NEW j \in 1..(n + 1), i # j,
               Readable(lines'[i]), lines'[i].event_hash = lines'[j].event_hash
        PROVE  FALSE
    <3>1. Readable(lines'[j])
      BY <2>5 DEF Readable
    <3>2. CASE i = n + 1
      <4>1. lines'[i] = line /\ j \in 1..n /\ lines'[j] = lines[j]
        BY <1>6, <2>2, <2>3, <2>5, <3>2
      <4> QED
        BY <1>4, <2>1, <2>5, <4>1
    <3>3. CASE j = n + 1
      <4>1. lines'[j] = line /\ i \in 1..n /\ lines'[i] = lines[i]
        BY <1>6, <2>2, <2>3, <2>5, <3>1, <3>3
      <4> QED
        BY <1>4, <2>1, <2>5, <4>1
    <3>4. CASE i # n + 1 /\ j # n + 1
      <4>1. i \in 1..n /\ j \in 1..n /\ lines'[i] = lines[i] /\ lines'[j] = lines[j]
        BY <2>3, <3>4
      <4> QED
        BY <1>2, <2>1, <2>5, <4>1 DEF LinesOnce
    <3> QED
      BY <3>2, <3>3, <3>4
  <2>6. LinesOnce'
    BY <1>3, <2>2, <2>4, <2>5 DEF LinesOnce
  <2>7. ASSUME NEW i \in 1..(n + 1), Readable(lines'[i])
        PROVE  \/ \E j \in DOMAIN lines : lines'[i].event_hash = lines[j].event_hash
               \/ lines'[i].event_hash = PendingEvent(t)
    <3>1. CASE i = n + 1
      BY <1>4, <1>6, <2>2, <2>7, <3>1
    <3>2. CASE i # n + 1
      <4>1. i \in DOMAIN lines /\ lines'[i] = lines[i]
        BY <1>2, <2>1, <2>3, <3>2
      <4> QED
        BY <4>1
    <3> QED
      BY <3>1, <3>2
  <2> QED
    BY <1>3, <2>2, <2>6, <2>7
<1>9. CASE amount # "none" /\ ~terminated
  <2>1. PICK n \in Nat : n = Len(lines) /\ n \in 1..n
    BY <1>1, <1>2, <1>9, AfterAppendIs
  <2>2. /\ Len(lines') = n /\ \A i \in 1..n : i # n => lines'[i] = lines[i]
        /\ lines'[n] = Garbage
    BY <1>1, <1>9, <2>1, AfterAppendIs
  <2>3. \A i \in 1..n : Readable(lines'[i]) => lines'[i] = lines[i]
    BY <1>6, <2>2
  <2>4. LinesOnce'
    <3> DEFINE from == [i \in 1..n |-> i]
    <3>1. from \in [1..Len(lines') -> Nat]
      BY <2>2
    <3>2. \A i \in 1..Len(lines') : from[i] = i
      BY <2>2
    <3> HIDE DEF from
    <3>3. \A i, j \in 1..Len(lines') : from[i] = from[j] => i = j
      BY <3>2
    <3>4. \A i \in 1..Len(lines') : Readable(lines'[i]) =>
            from[i] \in 1..Len(lines) /\ lines'[i].event_hash = lines[from[i]].event_hash
      BY <2>1, <2>2, <2>3, <3>2
    <3> QED
      BY <3>1, <3>3, <3>4, LinesKept
  <2>5. ASSUME NEW i \in DOMAIN lines', Readable(lines'[i])
        PROVE  \E j \in DOMAIN lines : lines'[i].event_hash = lines[j].event_hash
    <3>1. i \in DOMAIN lines /\ lines'[i] = lines[i]
      BY <1>2, <1>3, <2>1, <2>2, <2>3, <2>5
    <3> QED
      BY <3>1
  <2> QED
    BY <2>4, <2>5
<1> QED
  BY <1>7, <1>8, <1>9

LEMMA NextPending ==
  TypeOK /\ TypeOK' /\ SinksBuilt /\ LocksHeld /\ PendingOnce /\ LinesOnce /\ Torn /\ [Next]_vars
    => PendingOnce' /\ LinesOnce'
<1> SUFFICES ASSUME TypeOK, TypeOK', SinksBuilt, LocksHeld, PendingOnce, LinesOnce, Torn,
                    [Next]_vars
             PROVE  PendingOnce' /\ LinesOnce'
  OBVIOUS
<1>0. EmitTyped /\ emitted \in Nat
  BY TypedParts, BoundsAssumption DEF RestTyped
<1>a. ASSUME lines' = lines, emitted' = emitted,
             \A u \in Threads :
               HasPending(u)' => HasPending(u) /\ PendingEvent(u)' = PendingEvent(u)
      PROVE  PendingOnce' /\ LinesOnce'
  <2>1. LinesOnce'
    BY <1>0, <1>a, SameLinesKept
  <2>2. \A i \in DOMAIN lines' : \E j \in DOMAIN lines : lines'[i].event_hash = lines[j].event_hash
    BY <1>a
  <2>3. PendingOnce'
    BY <1>a, <2>2, PendingKept
  <2> QED
    BY <2>1, <2>3
<1>b. ASSUME NEW t \in Threads, \A u \in Threads : u # t => emit'[u] = emit[u],
             HasPending(t)' => HasPending(t) /\ PendingEvent(t)' = PendingEvent(t)
      PROVE  \A u \in Threads :
               HasPending(u)' => HasPending(u) /\ PendingEvent(u)' = PendingEvent(u)
  <2> SUFFICES ASSUME NEW u \in Threads, HasPending(u)'
               PROVE  HasPending(u) /\ PendingEvent(u)' = PendingEvent(u)
    OBVIOUS
  <2>1. CASE u = t
    BY <1>b, <2>1
  <2>2. CASE u # t
    <3>1. emit'[u] = emit[u]
      BY <1>b, <2>2
    <3> QED
      BY <3>1 DEF HasPending, PendingEvent
  <2> QED
    BY <2>1, <2>2
<1>1. CASE UNCHANGED vars
  <2>1. lines' = lines /\ emitted' = emitted /\ emit' = emit
    BY <1>1 DEF vars
  <2>2. \A u \in Threads :
          HasPending(u)' => HasPending(u) /\ PendingEvent(u)' = PendingEvent(u)
    BY <2>1 DEF HasPending, PendingEvent
  <2> QED
    BY <1>a, <2>1, <2>2
<1>2. ASSUME NEW t \in Threads, Emit(t)
      PROVE  PendingOnce' /\ LinesOnce'
  <2>0. /\ \A u \in Threads : u # t => emit'[u] = emit[u]
        /\ emit'[t].pc \in {"ready", "building"} /\ emit'[t].event = emitted + 1
    BY <1>2, EmitIs, EmitStarts
  <2>1. /\ \A u \in Threads : u # t => emit'[u] = emit[u]
        /\ HasPending(t)' /\ PendingEvent(t)' = emitted + 1
    BY <2>0 DEF HasPending, PendingEvent
  <2>2. lines' = lines /\ emitted' = emitted + 1
    BY <1>2 DEF Emit
  <2>3. LinesOnce'
    BY <1>0, <2>2, SameLinesKept
  <2>4. \A i \in DOMAIN lines : lines[i].event_hash # emitted + 1
    <3>1. ASSUME NEW i \in DOMAIN lines, lines[i].event_hash = emitted + 1 PROVE FALSE
      <4>1. lines[i].event_hash <= emitted
        BY DEF LinesOnce
      <4> QED
        BY <1>0, <3>1, <4>1
    <3> QED
      BY <3>1
  <2>5. ASSUME NEW u \in Threads, HasPending(u)', u # t
        PROVE  /\ HasPending(u) /\ PendingEvent(u)' = PendingEvent(u)
               /\ PendingEvent(u) \in 1..emitted
    <3>1. emit'[u] = emit[u]
      BY <2>1, <2>5
    <3>2. HasPending(u) /\ PendingEvent(u)' = PendingEvent(u)
      BY <2>5, <3>1 DEF HasPending, PendingEvent
    <3> QED
      BY <3>2 DEF PendingOnce
  <2>6. ASSUME NEW u \in Threads, HasPending(u)'
        PROVE  /\ PendingEvent(u)' \in 1..emitted'
               /\ \A i \in DOMAIN lines' : lines'[i].event_hash # PendingEvent(u)'
               /\ \A w \in Threads :
                    HasPending(w)' /\ PendingEvent(w)' = PendingEvent(u)' => w = u
    <3>1. CASE u = t
      <4>1. PendingEvent(u)' = emitted + 1 /\ emitted + 1 \in 1..emitted'
        BY <1>0, <2>1, <2>2, <3>1
      <4>2. ASSUME NEW w \in Threads, HasPending(w)', PendingEvent(w)' = emitted + 1, w # t
            PROVE  FALSE
        <5>1. PendingEvent(w)' \in 1..emitted
          BY <2>5, <4>2
        <5> QED
          BY <1>0, <4>2, <5>1
      <4> QED
        BY <2>2, <2>4, <3>1, <4>1, <4>2
    <3>2. CASE u # t
      <4>1. /\ HasPending(u) /\ PendingEvent(u)' = PendingEvent(u)
            /\ PendingEvent(u) \in 1..emitted
        BY <2>5, <2>6, <3>2
      <4>2. PendingEvent(u) \in 1..emitted' /\ PendingEvent(u) # emitted + 1
        BY <1>0, <2>2, <4>1
      <4>3. ASSUME NEW w \in Threads, HasPending(w)', PendingEvent(w)' = PendingEvent(u)
            PROVE  w = u
        <5>1. w # t
          BY <2>1, <4>2, <4>3
        <5>2. HasPending(w) /\ PendingEvent(w) = PendingEvent(u)
          BY <2>5, <4>3, <5>1
        <5> QED
          BY <4>1, <5>2 DEF PendingOnce
      <4>4. \A i \in DOMAIN lines : lines[i].event_hash # PendingEvent(u)
        BY <4>1 DEF PendingOnce
      <4> QED
        BY <2>2, <4>1, <4>2, <4>3, <4>4
    <3> QED
      BY <3>1, <3>2
  <2>7. PendingOnce'
    BY <2>6 DEF PendingOnce
  <2> QED
    BY <2>3, <2>7
<1>3. ASSUME NEW t \in Threads, BuildSink(t)
      PROVE  PendingOnce' /\ LinesOnce'
  <2>1. /\ emit[t].pc = "building" /\ emit'[t] = [emit[t] EXCEPT !.pc = "built"]
        /\ \A u \in Threads : u # t => emit'[u] = emit[u]
        /\ UNCHANGED <<lines, emitted>>
    BY <1>3, BuildSinkIs DEF BuildSink
  <2>2. HasPending(t) /\ PendingEvent(t)' = PendingEvent(t)
    BY <1>0, <2>1, StartedIs DEF HasPending, PendingEvent
  <2> QED
    BY <1>a, <1>b, <2>1, <2>2
<1>4. ASSUME NEW t \in Threads, SetDefault(t)
      PROVE  PendingOnce' /\ LinesOnce'
  <2>1. /\ emit[t].pc = "built" /\ emit'[t] = [emit[t] EXCEPT !.pc = "set"]
        /\ \A u \in Threads : u # t => emit'[u] = emit[u]
        /\ UNCHANGED <<lines, emitted>>
    BY <1>4, ThreadStepIs DEF SetDefault
  <2>2. HasPending(t) /\ PendingEvent(t)' = PendingEvent(t)
    BY <1>0, <2>1, StartedIs DEF HasPending, PendingEvent
  <2> QED
    BY <1>a, <1>b, <2>1, <2>2
<1>5. ASSUME NEW t \in Threads, ReturnDefault(t)
      PROVE  PendingOnce' /\ LinesOnce'
  <2>1. /\ emit[t].pc = "set" /\ UNCHANGED <<lines, emitted>>
        /\ emit'[t] = [pc |-> "ready", event |-> emit[t].event, sink |-> default_service]
        /\ \A u \in Threads : u # t => emit'[u] = emit[u]
    BY <1>5, ThreadStepIs DEF ReturnDefault
  <2>2. HasPending(t) /\ PendingEvent(t)' = PendingEvent(t)
    BY <2>1 DEF HasPending, PendingEvent
  <2> QED
    BY <1>a, <1>b, <2>1, <2>2
<1>6. ASSUME NEW t \in Threads, Discard(t)
      PROVE  PendingOnce' /\ LinesOnce'
  <2>1. /\ UNCHANGED <<lines, emitted>> /\ emit'[t] = [pc |-> "holding", sink |-> emit[t].sink]
        /\ \A u \in Threads : u # t => emit'[u] = emit[u]
    BY <1>6, ThreadStepIs DEF Discard
  <2>2. ~HasPending(t)'
    BY <2>1 DEF HasPending
  <2> QED
    BY <1>a, <1>b, <2>1, <2>2
<1>7. ASSUME NEW t \in Threads, Lock(t)
      PROVE  PendingOnce' /\ LinesOnce'
  <2>1. emit[t].pc = "ready" /\ UNCHANGED <<lines, emitted>>
    BY <1>7 DEF Lock
  <2>0. PICK line : line = [event_hash |-> emit[t].event, intact |-> TRUE,
                            previous_hash |-> sink[emit[t].sink].previous_hash]
    OBVIOUS
  <2>a. /\ emit'[t] = [pc |-> "locked", sink |-> emit[t].sink, line |-> line]
        /\ \A u \in Threads : u # t => emit'[u] = emit[u]
    BY <1>7, <2>0, LockIs
  <2>2. /\ emit'[t].pc = "locked" /\ emit'[t].line.event_hash = emit[t].event
        /\ \A u \in Threads : u # t => emit'[u] = emit[u]
    BY <2>0, <2>a
  <2>3. HasPending(t) /\ PendingEvent(t)' = PendingEvent(t)
    BY <2>1, <2>2 DEF HasPending, PendingEvent
  <2> QED
    BY <1>a, <1>b, <2>1, <2>2, <2>3
<1>8. ASSUME NEW t \in Threads, NEW amount \in {"none", "part", "unterminated", "whole"},
             emit[t].pc = "locked", lines' = AfterAppend(emit[t].line, amount),
             emitted' = emitted, ~HasPending(t)', \A u \in Threads : u # t => emit'[u] = emit[u]
      PROVE  PendingOnce' /\ LinesOnce'
  <2>1. /\ LinesOnce'
        /\ \A i \in DOMAIN lines' : Readable(lines'[i]) =>
             \/ \E j \in DOMAIN lines : lines'[i].event_hash = lines[j].event_hash
             \/ lines'[i].event_hash = PendingEvent(t)
    BY <1>8, AppendedOnce
  <2>2. HasPending(t)
    BY <1>8 DEF HasPending
  <2>3. \A u \in Threads : HasPending(u)' => HasPending(u) /\ PendingEvent(u)' = PendingEvent(u)
    BY <1>8, <1>b
  <2>4. PendingOnce'
    BY <1>8, <2>1, <2>2, <2>3, PendingKept
  <2> QED
    BY <2>1, <2>4
<1>9. ASSUME NEW t \in Threads, Write(t)
      PROVE  PendingOnce' /\ LinesOnce'
  <2>1. /\ emit[t].pc = "locked" /\ lines' = AfterAppend(emit[t].line, "whole")
        /\ emitted' = emitted
    BY <1>9 DEF Write
  <2>2. emit'[t] = [emit[t] EXCEPT !.pc = "written"] /\ \A u \in Threads : u # t => emit'[u] = emit[u]
    BY <1>9, ThreadStepIs
  <2>3. emit'[t].pc = "written"
    BY <1>0, <2>1, <2>2, LockedIs
  <2>4. ~HasPending(t)'
    BY <2>3 DEF HasPending
  <2> QED
    BY <1>8, <2>1, <2>2, <2>4
<1>10. ASSUME NEW t \in Threads, Fsync(t) \/ FsyncFails(t)
       PROVE  PendingOnce' /\ LinesOnce'
  <2>1. PICK pointer \in {GENESIS_HASH} \cup Digest : Release(t, pointer) /\ emit[t].pc = "written"
    BY <1>10, FsyncIs
  <2>2. lines' = lines /\ emitted' = emitted
    BY <1>10 DEF Fsync, FsyncFails
  <2>3. /\ emit'[t] = [pc |-> "holding", sink |-> emit[t].sink]
        /\ \A u \in Threads : u # t => emit'[u] = emit[u]
    BY <2>1, ReleaseIs DEF Writing
  <2>4. ~HasPending(t)'
    BY <2>3 DEF HasPending
  <2> QED
    BY <1>a, <1>b, <2>2, <2>3, <2>4
<1>11. ASSUME NEW t \in Threads, NEW amount \in {"none", "part", "unterminated", "whole"},
              WriteFails(t, amount)
       PROVE  PendingOnce' /\ LinesOnce'
  <2>1. /\ emit[t].pc = "locked" /\ lines' = AfterAppend(emit[t].line, amount)
        /\ \E pointer \in {GENESIS_HASH} \cup Digest : Release(t, pointer)
    BY <1>11, WriteFailsIs
  <2>2. emitted' = emitted
    BY <1>11 DEF WriteFails
  <2>3. /\ emit'[t] = [pc |-> "holding", sink |-> emit[t].sink]
        /\ \A u \in Threads : u # t => emit'[u] = emit[u]
    BY <2>1, ReleaseIs DEF Writing
  <2>4. ~HasPending(t)'
    BY <2>3 DEF HasPending
  <2> QED
    BY <1>8, <2>1, <2>2, <2>3, <2>4
<1>12. CASE Crash
  <2>1. /\ UNCHANGED <<emitted, acked>> /\ \A t \in Threads : emit'[t] = Idle
        /\ \/ UNCHANGED <<lines, terminated, damage, clean>>
           \/ \E t \in Threads, amount \in {"unterminated", "part"} :
                emit[t].pc = "locked" /\ lines' = AfterAppend(emit[t].line, amount)
           \/ \E kept \in synced..(Len(lines) - 1) :
                /\ \A i \in 1..kept : lines'[i] = lines[i]
                /\ \/ Len(lines') = kept
                   \/ /\ Len(lines') = kept + 1
                      /\ lines'[kept + 1] \in {Garbage, lines[kept + 1]}
    BY <1>12, CrashIs
  <2>2. PendingOnce'
    BY <2>1 DEF PendingOnce, HasPending, Idle
  <2>3. CASE UNCHANGED <<lines, terminated, damage, clean>>
    BY <1>0, <2>1, <2>2, <2>3, SameLinesKept
  <2>4. ASSUME NEW t \in Threads, NEW amount \in {"unterminated", "part"},
               emit[t].pc = "locked", lines' = AfterAppend(emit[t].line, amount)
        PROVE  LinesOnce'
    BY <2>1, <2>4, AppendedOnce
  <2>5. ASSUME NEW kept \in synced..(Len(lines) - 1), \A i \in 1..kept : lines'[i] = lines[i],
               \/ Len(lines') = kept
               \/ /\ Len(lines') = kept + 1
                  /\ lines'[kept + 1] \in {Garbage, lines[kept + 1]}
        PROVE  LinesOnce'
    <3>1. PICK m \in Nat : m = Len(lines')
      BY LenProperties DEF TypeOK
    <3>2. kept \in Nat /\ kept < Len(lines) /\ Len(lines) \in Nat /\ (m = kept \/ m = kept + 1)
      BY <2>5, <3>1 DEF TypeOK
    <3>3. ~Readable(Garbage)
      BY DEF Garbage, Readable
    <3>4. \A i \in 1..m : Readable(lines'[i]) => i \in 1..Len(lines) /\ lines'[i] = lines[i]
      <4> SUFFICES ASSUME NEW i \in 1..m, Readable(lines'[i])
                   PROVE  i \in 1..Len(lines) /\ lines'[i] = lines[i]
        OBVIOUS
      <4>1. i \in 1..Len(lines)
        BY <3>2
      <4>2. CASE i \in 1..kept
        BY <2>5, <4>1, <4>2
      <4>3. CASE i \notin 1..kept
        <5>1. m = kept + 1 /\ i = kept + 1
          BY <3>2, <4>3
        <5>2. lines'[i] \in {Garbage, lines[i]}
          BY <2>5, <3>1, <3>2, <5>1
        <5> QED
          BY <3>3, <4>1, <5>2
      <4> QED
        BY <4>2, <4>3
    <3> DEFINE from == [i \in 1..m |-> i]
    <3>5. from \in [1..m -> Nat] /\ \A i \in 1..m : from[i] = i
      OBVIOUS
    <3> HIDE DEF from
    <3>6. \A i, j \in 1..m : from[i] = from[j] => i = j
      BY <3>5
    <3>7. \A i \in 1..m : Readable(lines'[i]) =>
            from[i] \in 1..Len(lines) /\ lines'[i].event_hash = lines[from[i]].event_hash
      BY <3>4, <3>5
    <3> QED
      BY <2>1, <3>1, <3>5, <3>6, <3>7, LinesKept
  <2> QED
    BY <2>1, <2>2, <2>3, <2>4, <2>5
<1>13. CASE Tamper
  <2>1. emitted' = emitted /\ \A t \in Threads : emit'[t].pc = "idle"
    BY <1>13 DEF Tamper
  <2>2. PendingOnce'
    BY <2>1 DEF PendingOnce, HasPending
  <2>3. PICK i \in 1..Len(lines) : EditedAt(i)
    BY <1>13, TamperIs
  <2>4. PICK n \in Nat, m \in Nat : n = Len(lines) /\ m = Len(lines')
    BY LenProperties DEF TypeOK
  <2> DEFINE edit == [j \in 1..m |-> j]
             cut == [j \in 1..m |-> IF j < i THEN j ELSE j + 1]
             swap == [j \in 1..m |-> IF j = i THEN i + 1 ELSE IF j = i + 1 THEN i ELSE j]
  <2>5. i \in 1..n
    BY <2>4
  <2>6. CASE m = n /\ \A j \in 1..n : lines'[j].event_hash = lines[j].event_hash
    <3>1. edit \in [1..m -> Nat] /\ \A j \in 1..m : edit[j] = j
      OBVIOUS
    <3> HIDE DEF edit, cut, swap
    <3>2. \A j, k \in 1..m : edit[j] = edit[k] => j = k
      BY <3>1
    <3>3. \A j \in 1..m : edit[j] \in 1..n /\ lines'[j].event_hash = lines[edit[j]].event_hash
      BY <2>6, <3>1
    <3> QED
      BY <2>1, <2>2, <2>4, <3>1, <3>2, <3>3, LinesKept
  <2>7. CASE /\ i < n /\ m = n - 1
             /\ \A j \in 1..m : lines'[j] = IF j < i THEN lines[j] ELSE lines[j + 1]
    <3>1. cut \in [1..m -> Nat] /\ \A j \in 1..m : cut[j] = IF j < i THEN j ELSE j + 1
      OBVIOUS
    <3> HIDE DEF edit, cut, swap
    <3>2. \A j, k \in 1..m : cut[j] = cut[k] => j = k
      BY <2>5, <3>1
    <3>3. \A j \in 1..m : cut[j] \in 1..n
      BY <2>5, <2>7, <3>1
    <3>4. \A j \in 1..m : lines'[j].event_hash = lines[cut[j]].event_hash
      BY <2>7, <3>1
    <3> QED
      BY <2>1, <2>2, <2>4, <3>1, <3>2, <3>3, <3>4, LinesKept
  <2>8. CASE /\ i < n /\ m = n /\ lines'[i] = lines[i + 1] /\ lines'[i + 1] = lines[i]
             /\ \A j \in 1..n : j # i /\ j # i + 1 => lines'[j] = lines[j]
    <3>1. /\ swap \in [1..m -> Nat]
          /\ \A j \in 1..m :
               swap[j] = IF j = i THEN i + 1 ELSE IF j = i + 1 THEN i ELSE j
      BY <2>5
    <3> HIDE DEF edit, cut, swap
    <3>2. \A j, k \in 1..m : swap[j] = swap[k] => j = k
      BY <2>5, <3>1
    <3>3. \A j \in 1..m : swap[j] \in 1..n
      BY <2>5, <2>8, <3>1
    <3>4. \A j \in 1..m : lines'[j].event_hash = lines[swap[j]].event_hash
      BY <2>8, <3>1
    <3> QED
      BY <2>1, <2>2, <2>4, <3>1, <3>2, <3>3, <3>4, LinesKept
  <2> QED
    BY <2>3, <2>4, <2>6, <2>7, <2>8 DEF EditedAt
<1> QED
  BY <1>1, <1>2, <1>3, <1>4, <1>5, <1>6, <1>7, <1>9, <1>10, <1>11, <1>12, <1>13 DEF Next

-----------------------------------------------------------------------------
\* A line is accepted, or not, by itself and the line before it.
LEMMA PrefixAccepted ==
  ASSUME NEW text, NEW n \in Nat, \A i \in 1..n : text[i] = lines[i], NEW i \in 1..n
  PROVE  Accepts(text, i) <=> Accepts(lines, i)
<1>1. text[i] = lines[i] /\ (i # 1 => text[i - 1] = lines[i - 1])
  <2>1. i # 1 => i - 1 \in 1..n
    OBVIOUS
  <2> QED
    BY <2>1
<1> QED
  BY <1>1 DEF Accepts

\* While there is one sink, one thread at most is writing.
LEMMA OneWriter ==
  ASSUME TypeOK, LocksHeld, OneSink, NEW t \in Threads, NEW u \in Threads, Writing(t), Writing(u)
  PROVE  t = u
<1>1. emit[t].sink \in Threads /\ emit[u].sink \in Threads
  BY EmitTypes DEF TypeOK, Using, Writing
<1>2. emit[t].sink = emit[u].sink
  BY <1>1 DEF LocksHeld, OneSink
<1> QED
  BY <1>2 DEF LocksHeld

\* With the file as it was, the sinks agree with it if they did, or if one is new.
LEMMA PointersKept ==
  ASSUME TypeOK, Undamaged, damage = {}, lines' = lines, terminated' = terminated,
         \A s \in Threads : sink'[s].kind = sink[s].kind
                            /\ sink'[s].previous_hash = sink[s].previous_hash,
         NEW t \in Threads, emit[t].pc # "written", ~Writing(t)',
         \A u \in Threads : u # t => emit'[u] = emit[u]
  PROVE  Undamaged'
<1>1. terminated /\ Valid(lines) /\ OneSink /\ PointersCurrent
  BY DEF Undamaged
<1>2. EndHash' = EndHash
  BY DEF EndHash
<1>3. OneSink'
  BY <1>1 DEF OneSink
<1>4. ASSUME \A u \in Threads : emit'[u].pc # "written", NEW s \in Threads, sink'[s].kind = "jsonl"
      PROVE  sink'[s].previous_hash = EndHash'
  <2>1. \A u \in Threads : emit[u].pc # "written"
    BY <1>4
  <2>2. sink[s].previous_hash = EndHash
    BY <1>1, <1>4, <2>1 DEF PointersCurrent
  <2> QED
    BY <1>2, <2>2
<1>5. ASSUME NEW u \in Threads
      PROVE  /\ emit'[u].pc = "locked" => emit'[u].line.previous_hash = EndHash'
             /\ emit'[u].pc = "written" => lines' # <<>> /\ lines'[Len(lines')] = emit'[u].line
  <2>1. CASE u = t
    BY <2>1 DEF Writing
  <2>2. CASE u # t
    <3>1. emit'[u] = emit[u]
      BY <2>2
    <3> QED
      BY <1>1, <1>2, <3>1 DEF PointersCurrent
  <2> QED
    BY <2>1, <2>2
<1>6. PointersCurrent'
  BY <1>4, <1>5 DEF PointersCurrent
<1>7. Valid(lines)'
  BY <1>1
<1> QED
  BY <1>1, <1>3, <1>6, <1>7 DEF Undamaged

LEMMA NextUndamaged ==
  TypeOK /\ TypeOK' /\ SinksBuilt /\ LocksHeld /\ LocksHeld' /\ Torn /\ Undamaged /\ [Next]_vars
    => Undamaged'
<1> SUFFICES ASSUME TypeOK, TypeOK', SinksBuilt, LocksHeld, LocksHeld', Torn, Undamaged,
                    [Next]_vars
             PROVE  Undamaged'
  OBVIOUS
<1>0. EmitTyped /\ SinkTyped /\ FileTyped /\ RestTyped
  BY TypedParts
<1>1. CASE UNCHANGED vars
  <2>1. UNCHANGED <<damage, terminated, lines, sink, emit>>
    BY <1>1 DEF vars
  <2> QED
    BY <2>1 DEF Undamaged, Valid, OneSink, PointersCurrent, EndHash
<1> SUFFICES ASSUME damage' = {}
             PROVE  Undamaged'
  BY DEF Undamaged
<1>2. ASSUME NEW t \in Threads, Emit(t) \/ SetDefault(t) \/ ReturnDefault(t) \/ Discard(t)
      PROVE  Undamaged'
  <2>1. UNCHANGED <<lines, terminated, sink, damage>> /\ emit[t].pc # "written"
    BY <1>2 DEF Emit, SetDefault, ReturnDefault, Discard
  <2>2. \A u \in Threads : u # t => emit'[u] = emit[u]
    BY <1>2, EmitIs, ThreadStepIs
  <2>3. ~Writing(t)'
    <3>1. CASE Emit(t)
      <4>1. emit'[t].pc \in {"ready", "building"}
        BY <3>1, EmitStarts
      <4> QED
        BY <4>1 DEF Writing
    <3>2. CASE SetDefault(t)
      <4>1. emit[t].pc = "built" /\ emit'[t] = [emit[t] EXCEPT !.pc = "set"]
        BY <3>2, ThreadStepIs DEF SetDefault
      <4> QED
        BY <1>0, <4>1, StartedIs DEF Writing
    <3>3. CASE ReturnDefault(t)
      <4>1. emit'[t] = [pc |-> "ready", event |-> emit[t].event, sink |-> default_service]
        BY <3>3, ThreadStepIs
      <4> QED
        BY <4>1 DEF Writing
    <3>4. CASE Discard(t)
      <4>1. emit'[t] = [pc |-> "holding", sink |-> emit[t].sink]
        BY <3>4, ThreadStepIs
      <4> QED
        BY <4>1 DEF Writing
    <3> QED
      BY <1>2, <3>1, <3>2, <3>3, <3>4
  <2> QED
    BY <2>1, <2>2, <2>3, PointersKept
<1>3. ASSUME NEW t \in Threads, BuildSink(t)
      PROVE  Undamaged'
  <2>1. /\ emit[t].pc = "building" /\ emit'[t] = [emit[t] EXCEPT !.pc = "built"]
        /\ \A u \in Threads : u # t => emit'[u] = emit[u] /\ sink'[u] = sink[u]
        /\ \/ /\ sink'[t].previous_hash = LastHash(lines)
              /\ Damaged(IF \E u \in Threads : sink[u].kind = "jsonl" THEN {"race"} ELSE {})
           \/ Damaged({"unread"})
           \/ sink'[t].kind = "null" /\ UNCHANGED <<damage, clean>>
        /\ UNCHANGED <<lines, terminated>>
    BY <1>3, BuildSinkIs DEF BuildSink
  <2>2. /\ damage = {}
        /\ \/ /\ sink'[t].previous_hash = LastHash(lines)
              /\ \A u \in Threads : sink[u].kind # "jsonl"
           \/ sink'[t].kind = "null"
    BY <2>1 DEF Damaged
  <2>3. terminated /\ Valid(lines) /\ OneSink /\ PointersCurrent
    BY <2>2 DEF Undamaged
  <2>4. emit'[t].pc = "built"
    BY <1>0, <2>1, StartedIs
  <2>5. EndHash' = EndHash
    BY <2>1 DEF EndHash
  <2>6. OneSink'
    <3>1. ASSUME NEW a \in Threads, NEW b \in Threads,
                 sink'[a].kind = "jsonl", sink'[b].kind = "jsonl", a # b
          PROVE  FALSE
      <4>1. (a # t => sink[a].kind = "jsonl") /\ (b # t => sink[b].kind = "jsonl")
        BY <2>1, <3>1
      <4>2. CASE sink'[t].kind = "null"
        BY <2>3, <3>1, <4>1, <4>2 DEF OneSink
      <4>3. CASE \A u \in Threads : sink[u].kind # "jsonl"
        BY <3>1, <4>1, <4>3
      <4> QED
        BY <2>2, <4>2, <4>3
    <3> QED
      BY <3>1 DEF OneSink
  <2>7. ASSUME \A u \in Threads : emit'[u].pc # "written", NEW s \in Threads,
               sink'[s].kind = "jsonl"
        PROVE  sink'[s].previous_hash = EndHash
    <3>1. CASE s = t
      <4>1. sink'[t].previous_hash = LastHash(lines)
        BY <2>2, <2>7, <3>1
      <4> QED
        BY <2>3, <3>1, <4>1, LastHashOfValid
    <3>2. CASE s # t
      <4>1. \A u \in Threads : emit[u].pc # "written"
        BY <2>1, <2>7
      <4>2. sink'[s] = sink[s]
        BY <2>1, <3>2
      <4> QED
        BY <2>3, <2>7, <4>1, <4>2 DEF PointersCurrent
    <3> QED
      BY <3>1, <3>2
  <2>8. ASSUME NEW u \in Threads
        PROVE  /\ emit'[u].pc = "locked" => emit'[u].line.previous_hash = EndHash
               /\ emit'[u].pc = "written" => lines # <<>> /\ lines[Len(lines)] = emit'[u].line
    <3>1. u # t => emit'[u] = emit[u]
      BY <2>1
    <3> QED
      BY <2>3, <2>4, <3>1 DEF PointersCurrent
  <2>9. PointersCurrent'
    BY <2>1, <2>5, <2>7, <2>8 DEF PointersCurrent
  <2>10. Valid(lines)'
    BY <2>1, <2>3
  <2> QED
    BY <2>1, <2>3, <2>6, <2>9, <2>10 DEF Undamaged
<1>4. ASSUME NEW t \in Threads, Lock(t)
      PROVE  Undamaged'
  <2>0. PICK s \in Threads : s = emit[t].sink
    BY <1>4, LockIs
  <2>a. PICK line : line = [event_hash |-> emit[t].event, intact |-> TRUE,
                            previous_hash |-> sink[s].previous_hash]
    OBVIOUS
  <2>1. /\ emit'[t] = [pc |-> "locked", sink |-> s, line |-> line]
        /\ \A u \in Threads : u # t => emit'[u] = emit[u]
        /\ sink[s].kind = "jsonl" /\ sink[s].owner = NoSink
        /\ sink'[s] = [sink[s] EXCEPT !.owner = t]
        /\ \A u \in Threads : u # s => sink'[u] = sink[u]
    BY <1>4, <2>0, <2>a, LockIs
  <2>2. UNCHANGED <<lines, terminated, damage>> /\ emit[t].pc = "ready"
    BY <1>4 DEF Lock
  <2>3. terminated /\ Valid(lines) /\ OneSink /\ PointersCurrent
    BY <2>2 DEF Undamaged
  <2>4. \A u \in Threads : ~Writing(u)
    <3>1. ASSUME NEW u \in Threads, Writing(u) PROVE FALSE
      <4>1. /\ emit[u].sink \in Threads /\ sink[emit[u].sink].kind = "jsonl"
            /\ sink[emit[u].sink].owner = u
        BY <1>0, <3>1, EmitTypes DEF EmitTyped, Using, Writing, LocksHeld
      <4>2. emit[u].sink = s
        BY <2>1, <2>3, <4>1 DEF OneSink
      <4> QED
        BY <2>1, <4>1, <4>2, NoSinkAssumption
    <3> QED
      BY <3>1
  <2>5. \A u \in Threads : sink[u].kind = "jsonl" => sink[u].previous_hash = EndHash
    BY <2>3, <2>4 DEF PointersCurrent, Writing
  <2>6. /\ \A u \in Threads : /\ sink'[u].kind = sink[u].kind
                              /\ sink'[u].previous_hash = sink[u].previous_hash
        /\ EndHash' = EndHash
    <3>1. sink'[s].kind = sink[s].kind /\ sink'[s].previous_hash = sink[s].previous_hash
      BY <1>0, <2>1 DEF SinkTyped, SinkState
    <3> QED
      BY <2>1, <2>2, <3>1 DEF EndHash
  <2>7. emit'[t].pc = "locked" /\ emit'[t].line.previous_hash = EndHash
    BY <2>a, <2>1, <2>5
  <2>8. ASSUME NEW u \in Threads
        PROVE  /\ emit'[u].pc = "locked" => emit'[u].line.previous_hash = EndHash
               /\ emit'[u].pc # "written"
    <3>1. CASE u = t
      BY <2>7, <3>1
    <3>2. CASE u # t
      <4>1. emit'[u] = emit[u]
        BY <2>1, <3>2
      <4> QED
        BY <2>4, <4>1 DEF Writing
    <3> QED
      BY <3>1, <3>2
  <2>9. PointersCurrent'
    BY <2>5, <2>6, <2>8 DEF PointersCurrent
  <2>10. OneSink' /\ Valid(lines)'
    BY <2>2, <2>3, <2>6 DEF OneSink
  <2> QED
    BY <2>2, <2>3, <2>9, <2>10 DEF Undamaged
<1>5. ASSUME NEW t \in Threads, Write(t)
      PROVE  Undamaged'
  <2>1. /\ emit[t].pc = "locked" /\ lines' = AfterAppend(emit[t].line, "whole")
        /\ terminated' /\ UNCHANGED <<sink, damage>>
        /\ emit'[t] = [emit[t] EXCEPT !.pc = "written"]
        /\ \A u \in Threads : u # t => emit'[u] = emit[u]
    BY <1>5, ThreadStepIs DEF Write
  <2>2. terminated /\ Valid(lines) /\ OneSink /\ PointersCurrent
    BY <2>1 DEF Undamaged
  <2>3. PICK line \in Line : line = emit[t].line
    BY <1>0, <2>1, EmitTypes DEF EmitTyped, Writing
  <2>4. emit'[t].pc = "written" /\ emit'[t].line = line
    BY <1>0, <2>1, <2>3, LockedIs
  <2>5. Readable(line) /\ line.intact /\ line.previous_hash = EndHash
    BY <2>1, <2>2, <2>3 DEF LocksHeld, Writing, PointersCurrent
  <2>6. PICK n \in Nat : n = Len(lines) /\ lines \in Seq(Line)
    BY <1>0, LenProperties DEF FileTyped
  <2>7. /\ lines' \in Seq(Line) /\ Len(lines') = n + 1 /\ lines'[n + 1] = line
        /\ \A i \in 1..n : lines'[i] = lines[i]
    BY <2>1, <2>2, <2>3, <2>6, AfterAppendIs
  <2>8. \A i \in 1..n : Accepts(lines', i)
    <3>1. ASSUME NEW i \in 1..n PROVE Accepts(lines, i)
      BY <2>2, <2>6 DEF Valid
    <3> QED
      BY <2>7, <3>1, PrefixAccepted
  <2>9. Accepts(lines', n + 1)
    <3>1. CASE n = 0
      <4>1. lines = <<>>
        BY <2>6, <3>1, EmptySeq
      <4> QED
        BY <2>5, <2>7, <3>1, <4>1 DEF Accepts, EndHash
    <3>2. CASE n # 0
      <4>1. lines # <<>>
        BY <2>6, <3>2
      <4>2. EndHash = lines[n].event_hash
        BY <2>6, <4>1 DEF EndHash
      <4>3. lines'[(n + 1) - 1] = lines[n] /\ n + 1 # 1
        <5>1. (n + 1) - 1 = n /\ n \in 1..n
          BY <3>2
        <5> QED
          BY <2>7, <3>2, <5>1
      <4> QED
        BY <2>5, <2>7, <4>2, <4>3 DEF Accepts
    <3> QED
      BY <3>1, <3>2
  <2>10. Valid(lines)'
    <3>1. DOMAIN lines' = 1..(n + 1)
      BY <2>7
    <3>2. \A i \in 1..(n + 1) : i \in 1..n \/ i = n + 1
      OBVIOUS
    <3> QED
      BY <2>8, <2>9, <3>1, <3>2 DEF Valid
  <2>11. ASSUME NEW u \in Threads, Writing(u)' PROVE u = t
    <3>1. CASE u # t
      <4>1. Writing(u) /\ Writing(t)
        BY <2>1, <2>11, <3>1 DEF Writing
      <4> QED
        BY <2>2, <4>1, OneWriter
    <3> QED
      BY <3>1
  <2>12. lines' # <<>> /\ lines'[Len(lines')] = line
    BY <2>7
  <2>13. PointersCurrent'
    <3>1. ASSUME NEW u \in Threads
          PROVE  /\ emit'[u].pc # "locked"
                 /\ emit'[u].pc = "written" => lines' # <<>> /\ lines'[Len(lines')] = emit'[u].line
      <4>1. CASE u = t
        BY <2>4, <2>12, <4>1
      <4>2. CASE u # t
        BY <2>11, <4>2 DEF Writing
      <4> QED
        BY <4>1, <4>2
    <3> QED
      BY <2>4, <3>1 DEF PointersCurrent
  <2>14. OneSink'
    BY <2>1, <2>2 DEF OneSink
  <2> QED
    BY <2>1, <2>10, <2>13, <2>14 DEF Undamaged
<1>6. ASSUME NEW t \in Threads, Fsync(t)
      PROVE  Undamaged'
  <2>1. PICK pointer \in {GENESIS_HASH} \cup Digest :
          /\ Release(t, pointer) /\ pointer = emit[t].line.event_hash
          /\ emit[t].pc = "written"
    BY <1>6, FsyncIs
  <2>2. UNCHANGED <<lines, terminated, damage>>
    BY <1>6 DEF Fsync
  <2>3. PICK s \in Threads :
          /\ s = emit[t].sink /\ emit'[t] = [pc |-> "holding", sink |-> s]
          /\ \A u \in Threads : u # t => emit'[u] = emit[u]
          /\ sink'[s] = [kind |-> sink[s].kind, previous_hash |-> pointer, owner |-> NoSink]
          /\ \A u \in Threads : u # s => sink'[u] = sink[u]
    BY <2>1, ReleaseIs DEF Writing
  <2>4. terminated /\ Valid(lines) /\ OneSink /\ PointersCurrent
    BY <2>2 DEF Undamaged
  <2>5. pointer = EndHash /\ EndHash' = EndHash
    <3>1. lines # <<>> /\ lines[Len(lines)] = emit[t].line
      BY <2>1, <2>4 DEF PointersCurrent
    <3> QED
      BY <2>1, <2>2, <3>1 DEF EndHash
  <2>6. \A u \in Threads : ~Writing(u)'
    <3>1. ASSUME NEW u \in Threads, Writing(u)' PROVE FALSE
      <4>1. u # t
        BY <2>3, <3>1 DEF Writing
      <4>2. Writing(u) /\ Writing(t)
        BY <2>1, <2>3, <3>1, <4>1 DEF Writing
      <4> QED
        BY <2>4, <4>1, <4>2, OneWriter
    <3> QED
      BY <3>1
  <2>7. \A u \in Threads : sink'[u].kind = sink[u].kind
    BY <2>3
  <2>8. sink[s].kind = "jsonl"
    BY <2>1, <2>3 DEF LocksHeld, Writing
  <2>9. \A u \in Threads : sink'[u].kind = "jsonl" => sink'[u].previous_hash = EndHash
    <3>1. ASSUME NEW u \in Threads, sink'[u].kind = "jsonl" PROVE sink'[u].previous_hash = EndHash
      <4>1. u = s
        BY <2>4, <2>7, <2>8, <3>1 DEF OneSink
      <4> QED
        BY <2>3, <2>5, <4>1
    <3> QED
      BY <3>1
  <2>10. PointersCurrent'
    BY <2>5, <2>6, <2>9 DEF PointersCurrent, Writing
  <2>11. OneSink' /\ Valid(lines)'
    BY <2>2, <2>4, <2>7 DEF OneSink
  <2> QED
    BY <2>2, <2>4, <2>10, <2>11 DEF Undamaged
<1>7. ASSUME NEW t \in Threads, FsyncFails(t)
      PROVE  Undamaged'
  BY <1>7 DEF FsyncFails, Damaged
<1>8. ASSUME NEW t \in Threads, NEW amount \in {"none", "part", "unterminated", "whole"},
             WriteFails(t, amount)
      PROVE  Undamaged'
  <2>1. PICK pointer \in {GENESIS_HASH} \cup Digest :
          /\ Release(t, pointer) /\ pointer = sink[emit[t].sink].previous_hash
          /\ emit[t].pc = "locked"
    BY <1>8, WriteFailsIs
  <2>2. UNCHANGED <<lines, terminated, damage>>
    BY <1>8, WriteFailsIs DEF Damaged
  <2>3. PICK s \in Threads :
          /\ s = emit[t].sink /\ emit'[t] = [pc |-> "holding", sink |-> s]
          /\ \A u \in Threads : u # t => emit'[u] = emit[u]
          /\ sink'[s] = [kind |-> sink[s].kind, previous_hash |-> pointer, owner |-> NoSink]
          /\ \A u \in Threads : u # s => sink'[u] = sink[u]
    BY <2>1, ReleaseIs DEF Writing
  <2>4. \A u \in Threads : /\ sink'[u].kind = sink[u].kind
                           /\ sink'[u].previous_hash = sink[u].previous_hash
    BY <2>1, <2>3
  <2>5. ~Writing(t)' /\ emit[t].pc # "written" /\ damage = {}
    BY <2>1, <2>2, <2>3 DEF Writing
  <2> QED
    BY <2>2, <2>3, <2>4, <2>5, PointersKept
<1>9. CASE Crash
  <2>1. /\ \A t \in Threads : emit'[t] = Idle /\ sink'[t] = NoObject
        /\ \/ UNCHANGED <<lines, terminated, damage, clean>>
           \/ Damaged({"torn"})
           \/ \E kept \in synced..(Len(lines) - 1) :
                /\ \A i \in 1..kept : lines'[i] = lines[i]
                /\ \/ Len(lines') = kept /\ terminated' /\ damage' = damage
                   \/ damage' = damage \cup {"torn"}
    BY <1>9, CrashIs
  <2>2. OneSink' /\ PointersCurrent'
    BY <2>1 DEF OneSink, PointersCurrent, Idle, NoObject
  <2>3. CASE UNCHANGED <<lines, terminated, damage, clean>>
    BY <2>2, <2>3 DEF Undamaged, Valid
  <2>4. ASSUME NEW kept \in synced..(Len(lines) - 1), \A i \in 1..kept : lines'[i] = lines[i],
               Len(lines') = kept, terminated', damage' = damage
        PROVE  Undamaged'
    <3>1. Valid(lines) /\ kept \in Nat /\ kept < Len(lines) /\ Len(lines) \in Nat
      BY <2>4 DEF Undamaged, TypeOK
    <3>2. \A i \in 1..kept : Accepts(lines, i)
      <4>1. DOMAIN lines = 1..Len(lines)
        BY DEF TypeOK
      <4>2. \A i \in 1..kept : i \in 1..Len(lines)
        BY <3>1
      <4> QED
        BY <3>1, <4>1, <4>2 DEF Valid
    <3>3. \A i \in 1..kept : Accepts(lines', i)
      BY <2>4, <3>1, <3>2, PrefixAccepted
    <3>4. DOMAIN lines' = 1..kept
      BY <2>4 DEF TypeOK
    <3>5. Valid(lines)'
      BY <3>3, <3>4 DEF Valid
    <3> QED
      BY <2>2, <2>4, <3>5 DEF Undamaged
  <2> QED
    BY <2>1, <2>3, <2>4 DEF Damaged
<1>10. CASE Tamper
  BY <1>10 DEF Tamper
<1> QED
  BY <1>1, <1>2, <1>3, <1>4, <1>5, <1>6, <1>7, <1>8, <1>9, <1>10 DEF Next

-----------------------------------------------------------------------------
\* What each kind of change to the file does to the clean lines, and to an edit's trace.
FileOK == Torn /\ CleanAccepted /\ EditShows

LEMMA SameFileKeeps ==
  ASSUME FileTyped, Undamaged, FileOK, lines' = lines, terminated' = terminated,
         synced' = synced \/ synced' = Len(lines),
         NEW what \in SUBSET {"race", "unread", "stale"},
         UNCHANGED <<damage, clean>> \/ Damaged(what)
  PROVE  FileOK'
<1>1. /\ Len(lines) \in Nat /\ DOMAIN lines = 1..Len(lines) /\ clean \in 0..Len(lines)
      /\ synced \in 0..Len(lines)
  BY LenProperties DEF FileTyped
<1>2. /\ damage \subseteq damage' /\ ("tampered" \in damage' => "tampered" \in damage)
      /\ clean' = clean \/ (damage = {} /\ clean' = Len(lines))
  BY DEF Damaged
<1>3. CASE clean' = clean
  <2>1. Torn'
    BY <1>2, <1>3 DEF FileOK, Torn
  <2>2. CleanAccepted'
    BY <1>3 DEF FileOK, CleanAccepted
  <2>3. EditShows'
    <3>1. ASSUME "tampered" \in damage' PROVE \E i \in 1..synced' : ~Accepts(lines', i)
      <4>1. PICK i \in 1..synced : ~Accepts(lines, i)
        BY <1>2, <3>1 DEF FileOK, EditShows
      <4>2. i \in 1..synced'
        BY <1>1
      <4> QED
        BY <4>1, <4>2
    <3> QED
      BY <3>1 DEF EditShows
  <2> QED
    BY <2>1, <2>2, <2>3 DEF FileOK
<1>4. CASE damage = {} /\ clean' = Len(lines)
  <2>1. terminated /\ Valid(lines) /\ "tampered" \notin damage'
    BY <1>2, <1>4 DEF Undamaged
  <2>2. Torn' /\ EditShows'
    BY <2>1 DEF Torn, EditShows
  <2>3. CleanAccepted'
    BY <1>1, <1>4, <2>1 DEF CleanAccepted, Valid
  <2> QED
    BY <2>2, <2>3 DEF FileOK
<1> QED
  BY <1>2, <1>3, <1>4

LEMMA AppendKeeps ==
  ASSUME TypeOK, Undamaged, FileOK, NEW line \in Line,
         NEW amount \in {"part", "unterminated", "whole"}, lines' = AfterAppend(line, amount),
         terminated' = (amount = "whole"), synced' = synced \/ synced' = Len(lines'),
         NEW what \in SUBSET {"stale", "torn"}, amount # "whole" => "torn" \in what,
         Damaged(what)
  PROVE  FileOK'
<1>1. PICK n \in Nat : n = Len(lines) /\ DOMAIN lines = 1..n
  BY LenProperties DEF TypeOK
<1>2. clean \in 0..n /\ synced \in 0..n
  BY <1>1 DEF TypeOK
<1>3. amount \in {"none", "part", "unterminated", "whole"} /\ amount # "none" /\ Torn
  BY DEF FileOK
<1>4. PICK m \in Nat : m = Len(lines')
  BY <1>3, AfterAppendIs, LenProperties
<1>5. /\ m >= n /\ (terminated => m = n + 1 /\ \A i \in 1..n : lines'[i] = lines[i])
      /\ ~terminated =>
           /\ m = n /\ n \in 1..n /\ lines'[n] = Garbage
           /\ \A i \in 1..n : i # n => lines'[i] = lines[i]
  <2>1. CASE terminated
    BY <1>1, <1>3, <1>4, <2>1, AfterAppendIs
  <2>2. CASE ~terminated
    BY <1>1, <1>3, <1>4, <2>2, AfterAppendIs
  <2> QED
    BY <2>1, <2>2
<1>6. /\ damage \subseteq damage' /\ ("tampered" \in damage' => "tampered" \in damage)
      /\ amount # "whole" => "torn" \in damage'
      /\ clean' = clean \/ (damage = {} /\ clean' = n)
  BY <1>1 DEF Damaged
<1>7. damage = {} => terminated
  BY DEF Undamaged
<1>8. \A i \in 1..clean' : Accepts(lines, i)
  <2>1. CASE clean' = clean
    BY <2>1 DEF FileOK, CleanAccepted
  <2>2. CASE damage = {} /\ clean' = n
    BY <1>1, <2>2 DEF Undamaged, Valid
  <2> QED
    BY <1>6, <2>1, <2>2
<1>9. clean' \in 0..n /\ (~terminated => clean' < n)
  BY <1>1, <1>2, <1>3, <1>6, <1>7 DEF Torn
<1>10. Torn'
  <2>1. clean' < m
    BY <1>5, <1>9
  <2> QED
    BY <1>4, <1>6, <2>1 DEF Torn
<1>11. \A i \in 1..clean' : lines'[i] = lines[i]
  <2> SUFFICES ASSUME NEW i \in 1..clean' PROVE lines'[i] = lines[i]
    OBVIOUS
  <2>1. i \in 1..n /\ (~terminated => i # n)
    BY <1>9
  <2> QED
    BY <1>5, <2>1
<1>12. CleanAccepted'
  <2>1. clean' \in Nat
    BY <1>9
  <2> QED
    BY <1>8, <1>11, <2>1, PrefixAccepted DEF CleanAccepted
<1>13. EditShows'
  <2>1. ASSUME "tampered" \in damage' PROVE \E i \in 1..synced' : ~Accepts(lines', i)
    <3>1. PICK i \in 1..synced : ~Accepts(lines, i)
      BY <1>6, <2>1 DEF FileOK, EditShows
    <3>2. i \in 1..synced' /\ i \in 1..n
      BY <1>2, <1>4, <1>5
    <3>3. CASE terminated \/ i # n
      <4>1. \A j \in 1..i : lines'[j] = lines[j]
        <5> SUFFICES ASSUME NEW j \in 1..i PROVE lines'[j] = lines[j]
          OBVIOUS
        <5>1. j \in 1..n /\ (i # n => j # n)
          BY <3>2
        <5> QED
          BY <1>5, <3>3, <5>1
      <4>2. i \in Nat /\ i \in 1..i
        BY <3>2
      <4>3. ~Accepts(lines', i)
        BY <3>1, <4>1, <4>2, PrefixAccepted
      <4> QED
        BY <3>2, <4>3
    <3>4. CASE ~terminated /\ i = n
      <4>1. ~Accepts(lines', i)
        BY <1>5, <3>4 DEF Accepts, Readable, Garbage
      <4> QED
        BY <3>2, <4>1
    <3> QED
      BY <3>3, <3>4
  <2> QED
    BY <2>1 DEF EditShows
<1> QED
  BY <1>10, <1>12, <1>13 DEF FileOK

LEMMA CutKeeps ==
  ASSUME TypeOK, TypeOK', Undamaged, FileOK, NEW kept \in synced..(Len(lines) - 1),
         \A i \in 1..kept : lines'[i] = lines[i], synced' = Len(lines'),
         \/ Len(lines') = kept /\ terminated' /\ damage' = damage
         \/ Len(lines') = kept + 1 /\ damage' = damage \cup {"torn"},
         clean' = IF damage = {} \/ kept < clean THEN kept ELSE clean
  PROVE  FileOK'
<1>1. PICK n \in Nat : n = Len(lines) /\ DOMAIN lines = 1..n
  BY LenProperties DEF TypeOK
<1>2. PICK m \in Nat : m = Len(lines')
  BY LenProperties DEF TypeOK
<1>3. /\ kept \in Nat /\ kept < n /\ clean \in 0..n /\ synced \in 0..kept
      /\ (m = kept /\ terminated') \/ (m = kept + 1 /\ "torn" \in damage')
      /\ damage \subseteq damage' /\ ("tampered" \in damage' => "tampered" \in damage)
  BY <1>1, <1>2 DEF TypeOK
<1>4. clean' \in 0..kept /\ (damage # {} => clean' <= clean)
  BY <1>3
<1>5. Torn'
  <2>1. ASSUME ~terminated' PROVE "torn" \in damage' /\ clean' < m
    BY <1>3, <1>4, <2>1
  <2> QED
    BY <1>2, <2>1 DEF Torn
<1>6. \A i \in 1..clean' : Accepts(lines, i)
  <2> SUFFICES ASSUME NEW i \in 1..clean' PROVE Accepts(lines, i)
    OBVIOUS
  <2>1. i \in 1..n /\ (damage # {} => i \in 1..clean)
    BY <1>3, <1>4
  <2>2. CASE damage = {}
    BY <1>1, <2>1, <2>2 DEF Undamaged, Valid
  <2>3. CASE damage # {}
    BY <2>1, <2>3 DEF FileOK, CleanAccepted
  <2> QED
    BY <2>2, <2>3
<1>7. \A i \in 1..kept : Accepts(lines', i) <=> Accepts(lines, i)
  BY <1>3, PrefixAccepted
<1>8. CleanAccepted'
  <2>1. \A i \in 1..clean' : i \in 1..kept
    BY <1>3, <1>4
  <2> QED
    BY <1>6, <1>7, <2>1 DEF CleanAccepted
<1>9. EditShows'
  <2>1. ASSUME "tampered" \in damage' PROVE \E i \in 1..synced' : ~Accepts(lines', i)
    <3>1. PICK i \in 1..synced : ~Accepts(lines, i)
      BY <1>3, <2>1 DEF FileOK, EditShows
    <3>2. i \in 1..kept /\ i \in 1..synced'
      BY <1>2, <1>3
    <3> QED
      BY <1>7, <3>1, <3>2
  <2> QED
    BY <2>1 DEF EditShows
<1> QED
  BY <1>5, <1>8, <1>9 DEF FileOK

\* The line put where an edited one was does not link to what stands before it: two
\* lines that verify have different events.
LEMMA EditKeeps ==
  ASSUME TypeOK, TypeOK', LinesOnce, Valid(lines), terminated', synced' = Len(lines'),
         NEW i \in 1..Len(lines), EditedAt(i),
         clean' = IF damage = {} \/ i - 1 < clean THEN i - 1 ELSE clean
  PROVE  FileOK'
<1>1. PICK n \in Nat : n = Len(lines) /\ DOMAIN lines = 1..n /\ \A j \in 1..n : lines[j] \in Line
  BY LenProperties DEF TypeOK
<1>2. PICK m \in Nat : m = Len(lines')
  BY LenProperties DEF TypeOK
<1>3. i \in 1..n /\ \A j \in 1..n : Accepts(lines, j)
  BY <1>1 DEF Valid
<1>4. clean' \in 0..(i - 1)
  BY <1>1, <1>3 DEF TypeOK
<1>5. \A j \in 1..(i - 1) : lines'[j] = lines[j]
  <2> SUFFICES ASSUME NEW j \in 1..(i - 1) PROVE lines'[j] = lines[j]
    OBVIOUS
  <2>1. j \in 1..n /\ j # i /\ j # i + 1 /\ j < i /\ (m = n - 1 /\ i < n => j \in 1..m)
    BY <1>3
  <2> QED
    BY <1>1, <1>2, <2>1 DEF EditedAt
<1>6. Torn'
  BY DEF Torn
<1>7. CleanAccepted'
  <2>1. \A j \in 1..clean' : lines'[j] = lines[j] /\ Accepts(lines, j)
    <3>1. \A j \in 1..clean' : j \in 1..(i - 1) /\ j \in 1..n
      BY <1>3, <1>4
    <3> QED
      BY <1>3, <1>5, <3>1
  <2>2. clean' \in Nat
    BY <1>4
  <2> QED
    BY <2>1, <2>2, PrefixAccepted DEF CleanAccepted
<1>8. i \in 1..m /\ ~Accepts(lines', i)
  <2>1. CASE m = n /\ ~lines'[i].intact
    BY <1>3, <2>1 DEF Accepts
  <2>2. CASE i < n /\ i \in 1..m /\ lines'[i] = lines[i + 1]
    <3>1. i + 1 \in 1..n /\ i + 1 # 1 /\ (i + 1) - 1 = i
      BY <1>3, <2>2
    <3>2. lines[i + 1].previous_hash = lines[i].event_hash /\ Readable(lines[i])
      BY <1>3, <3>1 DEF Accepts
    <3>3. CASE i = 1
      BY <2>2, <3>2, <3>3 DEF Accepts, Readable
    <3>4. CASE i # 1
      <4>1. i - 1 \in 1..(i - 1) /\ i - 1 \in 1..n /\ i - 1 # i
        BY <1>3, <3>4
      <4>2. lines'[i - 1] = lines[i - 1]
        BY <1>5, <4>1
      <4>3. lines[i].event_hash # lines[i - 1].event_hash
        BY <1>1, <1>3, <3>2, <4>1 DEF LinesOnce
      <4> QED
        BY <2>2, <3>2, <3>4, <4>2, <4>3 DEF Accepts
    <3> QED
      BY <2>2, <3>3, <3>4
  <2>3. \/ m = n /\ ~lines'[i].intact
        \/ i < n /\ m = n - 1 /\ \A j \in 1..m : lines'[j] = IF j < i THEN lines[j] ELSE lines[j + 1]
        \/ i < n /\ m = n /\ lines'[i] = lines[i + 1]
    BY <1>1, <1>2 DEF EditedAt
  <2>4. CASE i < n /\ m = n - 1 /\ \A j \in 1..m : lines'[j] = IF j < i THEN lines[j] ELSE lines[j + 1]
    <3>1. i \in 1..m /\ ~(i < i)
      BY <1>3, <2>4
    <3>2. lines'[i] = lines[i + 1]
      BY <2>4, <3>1
    <3> QED
      BY <2>2, <2>4, <3>1, <3>2
  <2> QED
    BY <1>3, <2>1, <2>2, <2>3, <2>4
<1>9. EditShows'
  BY <1>2, <1>8 DEF EditShows
<1> QED
  BY <1>6, <1>7, <1>9 DEF FileOK

LEMMA NextFile ==
  TypeOK /\ TypeOK' /\ SinksBuilt /\ LocksHeld /\ LinesOnce /\ Undamaged /\ FileOK /\ [Next]_vars
    => FileOK'
<1> SUFFICES ASSUME TypeOK, TypeOK', SinksBuilt, LocksHeld, LinesOnce, Undamaged, FileOK,
                    [Next]_vars
             PROVE  FileOK'
  OBVIOUS
<1>0. EmitTyped /\ FileTyped /\ Torn
  BY TypedParts DEF FileOK
<1>a. /\ {} \in SUBSET {"race", "unread", "stale"} /\ {"race"} \in SUBSET {"race", "unread", "stale"}
      /\ {"unread"} \in SUBSET {"race", "unread", "stale"}
      /\ {"stale"} \in SUBSET {"race", "unread", "stale"}
  OBVIOUS
<1>b. ASSUME lines' = lines, terminated' = terminated, synced' = synced \/ synced' = Len(lines),
             UNCHANGED <<damage, clean>>
      PROVE  FileOK'
  BY <1>0, <1>a, <1>b, SameFileKeeps
<1>1. CASE UNCHANGED vars
  BY <1>1, <1>b DEF vars
<1>2. ASSUME NEW t \in Threads,
             Emit(t) \/ SetDefault(t) \/ ReturnDefault(t) \/ Discard(t) \/ Lock(t)
      PROVE  FileOK'
  <2>1. UNCHANGED <<lines, terminated, synced, damage, clean>>
    BY <1>2 DEF Emit, SetDefault, ReturnDefault, Discard, Lock
  <2> QED
    BY <1>b, <2>1
<1>3. ASSUME NEW t \in Threads, BuildSink(t)
      PROVE  FileOK'
  <2>1. UNCHANGED <<lines, terminated, synced>>
    BY <1>3 DEF BuildSink
  <2>2. UNCHANGED <<damage, clean>> \/ Damaged({}) \/ Damaged({"race"}) \/ Damaged({"unread"})
    BY <1>3, BuildSinkIs
  <2> QED
    BY <1>0, <1>a, <2>1, <2>2, SameFileKeeps
<1>4. ASSUME NEW t \in Threads, Write(t)
      PROVE  FileOK'
  <2>1. /\ emit[t].pc = "locked" /\ lines' = AfterAppend(emit[t].line, "whole")
        /\ terminated' = TRUE /\ UNCHANGED <<synced, damage, clean>>
    BY <1>4 DEF Write
  <2>2. emit[t].line \in Line
    BY <1>0, <2>1, EmitTypes DEF EmitTyped, Writing
  <2>3. Damaged({})
    BY <2>1 DEF Damaged
  <2>4. terminated' = ("whole" = "whole") /\ {} \in SUBSET {"stale", "torn"}
    BY <2>1
  <2> QED
    BY <2>1, <2>2, <2>3, <2>4, AppendKeeps
<1>5. ASSUME NEW t \in Threads, Fsync(t)
      PROVE  FileOK'
  <2>1. UNCHANGED <<lines, terminated, damage, clean>> /\ synced' = Len(lines)
    BY <1>5 DEF Fsync
  <2> QED
    BY <1>b, <2>1
<1>6. ASSUME NEW t \in Threads, FsyncFails(t)
      PROVE  FileOK'
  <2>1. UNCHANGED <<lines, terminated, synced>> /\ Damaged({"stale"})
    BY <1>6 DEF FsyncFails
  <2> QED
    BY <1>0, <1>a, <2>1, SameFileKeeps
<1>7. ASSUME NEW t \in Threads, NEW amount \in {"none", "part", "unterminated", "whole"},
             WriteFails(t, amount)
      PROVE  FileOK'
  <2>1. /\ emit[t].line \in Line /\ lines' = AfterAppend(emit[t].line, amount)
        /\ \/ amount = "none" /\ UNCHANGED <<lines, terminated, damage, clean>>
           \/ amount = "whole" /\ terminated' /\ Damaged({"stale"})
           \/ amount \notin {"none", "whole"} /\ ~terminated' /\ Damaged({"torn"})
    BY <1>0, <1>7, WriteFailsIs
  <2>2. synced' = synced
    BY <1>7 DEF WriteFails
  <2>3. CASE amount = "none" /\ UNCHANGED <<lines, terminated, damage, clean>>
    BY <1>b, <2>2, <2>3
  <2>4. CASE amount = "whole" /\ terminated' /\ Damaged({"stale"})
    <3>1. /\ amount \in {"part", "unterminated", "whole"} /\ terminated' = (amount = "whole")
          /\ {"stale"} \in SUBSET {"stale", "torn"}
      BY <2>4 DEF TypeOK
    <3> QED
      BY <2>1, <2>2, <2>4, <3>1, AppendKeeps
  <2>5. CASE amount \notin {"none", "whole"} /\ ~terminated' /\ Damaged({"torn"})
    <3>1. /\ amount \in {"part", "unterminated", "whole"} /\ terminated' = (amount = "whole")
          /\ {"torn"} \in SUBSET {"stale", "torn"}
      BY <2>5 DEF TypeOK
    <3> QED
      BY <2>1, <2>2, <2>5, <3>1, AppendKeeps
  <2> QED
    BY <2>1, <2>3, <2>4, <2>5
<1>8. CASE Crash
  <2>1. /\ synced' = Len(lines')
        /\ \/ UNCHANGED <<lines, terminated, damage, clean>>
           \/ \E t \in Threads, amount \in {"unterminated", "part"} :
                /\ emit[t].pc = "locked" /\ lines' = AfterAppend(emit[t].line, amount)
                /\ ~terminated' /\ Damaged({"torn"})
           \/ \E kept \in synced..(Len(lines) - 1) :
                /\ \A i \in 1..kept : lines'[i] = lines[i]
                /\ \/ Len(lines') = kept /\ terminated' /\ damage' = damage
                   \/ Len(lines') = kept + 1 /\ damage' = damage \cup {"torn"}
                /\ clean' = IF damage = {} \/ kept < clean THEN kept ELSE clean
    BY <1>0, <1>8, CrashIs
  <2>2. CASE UNCHANGED <<lines, terminated, damage, clean>>
    BY <1>b, <2>1, <2>2
  <2>3. ASSUME NEW t \in Threads, NEW amount \in {"unterminated", "part"},
               emit[t].pc = "locked", lines' = AfterAppend(emit[t].line, amount),
               ~terminated', Damaged({"torn"})
        PROVE  FileOK'
    <3>1. emit[t].line \in Line
      BY <1>0, <2>3, EmitTypes DEF EmitTyped, Writing
    <3>2. /\ amount \in {"part", "unterminated", "whole"} /\ terminated' = (amount = "whole")
          /\ {"torn"} \in SUBSET {"stale", "torn"}
      BY <2>3 DEF TypeOK
    <3> QED
      BY <2>1, <2>3, <3>1, <3>2, AppendKeeps
  <2>4. CASE \E kept \in synced..(Len(lines) - 1) :
               /\ \A i \in 1..kept : lines'[i] = lines[i]
               /\ \/ Len(lines') = kept /\ terminated' /\ damage' = damage
                  \/ Len(lines') = kept + 1 /\ damage' = damage \cup {"torn"}
               /\ clean' = IF damage = {} \/ kept < clean THEN kept ELSE clean
    BY <2>1, <2>4, CutKeeps
  <2> QED
    BY <2>1, <2>2, <2>3, <2>4
<1>9. CASE Tamper
  BY <1>9, TamperIs, EditKeeps
<1> QED
  BY <1>1, <1>2, <1>3, <1>4, <1>5, <1>6, <1>7, <1>8, <1>9 DEF Next

-----------------------------------------------------------------------------
\* What was acknowledged is never lost, short of a torn line or an edit.
Marred == damage \cap {"torn", "tampered"} # {}
AckedSafe == \A event \in acked : \E i \in 1..synced : lines[i].event_hash = event
WrittenInFile ==
  \A t \in Threads : emit[t].pc = "written" => \E i \in DOMAIN lines : lines[i] = emit[t].line
LEMMA AckedParts == AckedSynced <=> (Marred \/ (AckedSafe /\ WrittenInFile))
BY DEF AckedSynced, Marred, AckedSafe, WrittenInFile

LEMMA AckedKept ==
  ASSUME AckedSafe, acked' = acked, NEW n \in Nat, synced \in 0..n, synced' \in Nat,
         synced <= synced', \A i \in 1..n : lines'[i] = lines[i]
  PROVE  AckedSafe'
<1> SUFFICES ASSUME NEW event \in acked
             PROVE  \E i \in 1..synced' : lines'[i].event_hash = event
  BY DEF AckedSafe
<1>1. PICK i \in 1..synced : lines[i].event_hash = event
  BY DEF AckedSafe
<1>2. i \in 1..synced' /\ i \in 1..n
  OBVIOUS
<1> QED
  BY <1>1, <1>2

LEMMA WrittenKept ==
  ASSUME TypeOK, TypeOK', WrittenInFile, Len(lines) <= Len(lines'),
         \A i \in 1..Len(lines) : lines'[i] = lines[i],
         \A u \in Threads : emit'[u].pc = "written" => emit[u].pc = "written" /\ emit'[u] = emit[u]
  PROVE  WrittenInFile'
<1> SUFFICES ASSUME NEW u \in Threads, emit'[u].pc = "written"
             PROVE  \E i \in DOMAIN lines' : lines'[i] = emit'[u].line
  BY DEF WrittenInFile
<1>1. DOMAIN lines = 1..Len(lines) /\ DOMAIN lines' = 1..Len(lines') /\ Len(lines) \in Nat
      /\ Len(lines') \in Nat
  BY LenProperties DEF TypeOK
<1>2. PICK i \in 1..Len(lines) : lines[i] = emit[u].line
  BY <1>1 DEF WrittenInFile
<1>3. i \in 1..Len(lines')
  BY <1>1
<1> QED
  BY <1>1, <1>2, <1>3

LEMMA NextAcked ==
  TypeOK /\ TypeOK' /\ SinksBuilt /\ LocksHeld /\ Torn /\ AckedSynced /\ [Next]_vars => AckedSynced'
<1> SUFFICES ASSUME TypeOK, TypeOK', SinksBuilt, LocksHeld, Torn, AckedSynced, [Next]_vars, ~Marred'
             PROVE  AckedSafe' /\ WrittenInFile'
  <2> SUFFICES ASSUME TypeOK, TypeOK', SinksBuilt, LocksHeld, Torn, AckedSynced, [Next]_vars
               PROVE  AckedSynced'
    OBVIOUS
  <2>1. ~Marred' => AckedSafe' /\ WrittenInFile'
    OBVIOUS
  <2> QED
    BY <2>1 DEF AckedSynced, Marred, AckedSafe, WrittenInFile
<1>0. PICK n \in Nat, m \in Nat :
        /\ n = Len(lines) /\ DOMAIN lines = 1..n /\ synced \in 0..n
        /\ m = Len(lines') /\ DOMAIN lines' = 1..m /\ synced' \in 0..m
        /\ EmitTyped
  BY TypedParts, LenProperties DEF FileTyped, TypeOK
<1>a. ASSUME ~Marred PROVE AckedSafe /\ WrittenInFile /\ terminated
  BY <1>a, AckedParts DEF Torn, Marred
<1>b. ASSUME NEW t \in Threads, damage \subseteq damage', lines' = lines, acked' = acked,
             synced' = synced \/ synced' = Len(lines), emit'[t].pc # "written",
             \A u \in Threads : u # t => emit'[u] = emit[u]
      PROVE  AckedSafe' /\ WrittenInFile'
  <2>1. AckedSafe /\ WrittenInFile
    BY <1>a, <1>b DEF Marred
  <2>2. AckedSafe'
    BY <1>0, <1>b, <2>1, AckedKept
  <2>3. \A u \in Threads : emit'[u].pc = "written" => emit[u].pc = "written" /\ emit'[u] = emit[u]
    BY <1>b
  <2>4. WrittenInFile'
    BY <1>0, <1>b, <2>1, <2>3, WrittenKept
  <2> QED
    BY <2>2, <2>4
<1>1. CASE UNCHANGED vars
  <2>1. UNCHANGED <<lines, synced, acked, damage, emit>>
    BY <1>1 DEF vars
  <2>2. AckedSafe /\ WrittenInFile
    BY <1>a, <2>1 DEF Marred
  <2> QED
    BY <2>1, <2>2 DEF AckedSafe, WrittenInFile
<1>2. ASSUME NEW t \in Threads, Emit(t)
      PROVE  AckedSafe' /\ WrittenInFile'
  <2>1. UNCHANGED <<lines, synced, acked, damage>>
    BY <1>2 DEF Emit
  <2>2. emit'[t].pc # "written" /\ \A u \in Threads : u # t => emit'[u] = emit[u]
    BY <1>2, EmitStarts, EmitIs
  <2> QED
    BY <1>b, <2>1, <2>2
<1>3. ASSUME NEW t \in Threads, BuildSink(t)
      PROVE  AckedSafe' /\ WrittenInFile'
  <2>1. UNCHANGED <<lines, synced, acked>> /\ damage \subseteq damage' /\ emit[t].pc = "building"
    BY <1>3 DEF BuildSink, Damaged
  <2>2. /\ emit'[t] = [emit[t] EXCEPT !.pc = "built"]
        /\ \A u \in Threads : u # t => emit'[u] = emit[u]
    BY <1>3, BuildSinkIs
  <2>3. emit'[t].pc = "built"
    BY <1>0, <2>1, <2>2, StartedIs
  <2> QED
    BY <1>b, <2>1, <2>2, <2>3
<1>4. ASSUME NEW t \in Threads, SetDefault(t)
      PROVE  AckedSafe' /\ WrittenInFile'
  <2>1. UNCHANGED <<lines, synced, acked, damage>> /\ emit[t].pc = "built"
    BY <1>4 DEF SetDefault
  <2>2. /\ emit'[t] = [emit[t] EXCEPT !.pc = "set"]
        /\ \A u \in Threads : u # t => emit'[u] = emit[u]
    BY <1>4, ThreadStepIs
  <2>3. emit'[t].pc = "set"
    BY <1>0, <2>1, <2>2, StartedIs
  <2> QED
    BY <1>b, <2>1, <2>2, <2>3
<1>5. ASSUME NEW t \in Threads, ReturnDefault(t)
      PROVE  AckedSafe' /\ WrittenInFile'
  <2>1. UNCHANGED <<lines, synced, acked, damage>>
    BY <1>5 DEF ReturnDefault
  <2>2. /\ emit'[t] = [pc |-> "ready", event |-> emit[t].event, sink |-> default_service]
        /\ \A u \in Threads : u # t => emit'[u] = emit[u]
    BY <1>5, ThreadStepIs
  <2>3. emit'[t].pc = "ready"
    BY <2>2
  <2> QED
    BY <1>b, <2>1, <2>2, <2>3
<1>6. ASSUME NEW t \in Threads, Discard(t)
      PROVE  AckedSafe' /\ WrittenInFile'
  <2>1. UNCHANGED <<lines, synced, acked, damage>>
    BY <1>6 DEF Discard
  <2>2. /\ emit'[t] = [pc |-> "holding", sink |-> emit[t].sink]
        /\ \A u \in Threads : u # t => emit'[u] = emit[u]
    BY <1>6, ThreadStepIs
  <2>3. emit'[t].pc = "holding"
    BY <2>2
  <2> QED
    BY <1>b, <2>1, <2>2, <2>3
<1>7. ASSUME NEW t \in Threads, Lock(t)
      PROVE  AckedSafe' /\ WrittenInFile'
  <2>1. UNCHANGED <<lines, synced, acked, damage>>
    BY <1>7 DEF Lock
  <2>2. PICK line : line = [event_hash |-> emit[t].event, intact |-> TRUE,
                            previous_hash |-> sink[emit[t].sink].previous_hash]
    OBVIOUS
  <2>3. /\ emit'[t] = [pc |-> "locked", sink |-> emit[t].sink, line |-> line]
        /\ \A u \in Threads : u # t => emit'[u] = emit[u]
    BY <1>7, <2>2, LockIs
  <2>4. emit'[t].pc = "locked"
    BY <2>3
  <2> QED
    BY <1>b, <2>1, <2>3, <2>4
<1>8. ASSUME NEW t \in Threads, Write(t)
      PROVE  AckedSafe' /\ WrittenInFile'
  <2>1. /\ emit[t].pc = "locked" /\ lines' = AfterAppend(emit[t].line, "whole")
        /\ UNCHANGED <<synced, acked, damage>>
        /\ emit'[t] = [emit[t] EXCEPT !.pc = "written"]
        /\ \A u \in Threads : u # t => emit'[u] = emit[u]
    BY <1>8, ThreadStepIs DEF Write
  <2>2. AckedSafe /\ WrittenInFile /\ terminated
    BY <1>a, <2>1 DEF Marred
  <2>3. PICK line \in Line : line = emit[t].line
    BY <1>0, <2>1, EmitTypes DEF EmitTyped, Writing
  <2>4. m = n + 1 /\ lines'[n + 1] = line /\ \A i \in 1..n : lines'[i] = lines[i]
    BY <1>0, <2>1, <2>2, <2>3, AfterAppendIs
  <2>5. AckedSafe'
    BY <1>0, <2>1, <2>2, <2>4, AckedKept
  <2>6. emit'[t].line = line
    BY <1>0, <2>1, <2>3, LockedIs
  <2>7. ASSUME NEW u \in Threads, emit'[u].pc = "written"
        PROVE  \E i \in DOMAIN lines' : lines'[i] = emit'[u].line
    <3>1. CASE u = t
      <4>1. n + 1 \in DOMAIN lines'
        BY <1>0, <2>4
      <4> QED
        BY <2>4, <2>6, <3>1, <4>1
    <3>2. CASE u # t
      <4>1. emit'[u] = emit[u]
        BY <2>1, <3>2
      <4>2. PICK i \in 1..n : lines[i] = emit[u].line
        BY <1>0, <2>2, <2>7, <4>1 DEF WrittenInFile
      <4>3. i \in DOMAIN lines' /\ lines'[i] = lines[i]
        BY <1>0, <2>4
      <4> QED
        BY <4>1, <4>2, <4>3
    <3> QED
      BY <3>1, <3>2
  <2> QED
    BY <2>5, <2>7 DEF WrittenInFile
<1>9. ASSUME NEW t \in Threads, Fsync(t)
      PROVE  AckedSafe' /\ WrittenInFile'
  <2>1. PICK pointer \in {GENESIS_HASH} \cup Digest : Release(t, pointer) /\ emit[t].pc = "written"
    BY <1>9, FsyncIs
  <2>2. /\ emit'[t] = [pc |-> "holding", sink |-> emit[t].sink]
        /\ \A u \in Threads : u # t => emit'[u] = emit[u]
    BY <2>1, ReleaseIs DEF Writing
  <2>3. /\ UNCHANGED <<lines, damage>> /\ synced' = n
        /\ acked' = acked \cup {emit[t].line.event_hash}
    BY <1>0, <1>9 DEF Fsync
  <2>4. AckedSafe /\ WrittenInFile
    BY <1>a, <2>3 DEF Marred
  <2>5. emit'[t].pc = "holding"
    BY <2>2
  <2>6. \A u \in Threads : emit'[u].pc = "written" => emit[u].pc = "written" /\ emit'[u] = emit[u]
    BY <2>2, <2>5
  <2>7. WrittenInFile'
    BY <1>0, <2>3, <2>4, <2>6, WrittenKept
  <2>8. ASSUME NEW event \in acked'
        PROVE  \E i \in 1..synced' : lines'[i].event_hash = event
    <3>1. CASE event = emit[t].line.event_hash
      <4>1. PICK i \in 1..n : lines[i] = emit[t].line
        BY <1>0, <2>1, <2>4 DEF WrittenInFile
      <4> QED
        BY <2>3, <3>1, <4>1
    <3>2. CASE event \in acked
      <4>1. PICK i \in 1..synced : lines[i].event_hash = event
        BY <2>4, <3>2 DEF AckedSafe
      <4>2. i \in 1..n
        BY <1>0
      <4> QED
        BY <2>3, <4>1, <4>2
    <3> QED
      BY <2>3, <2>8, <3>1, <3>2
  <2> QED
    BY <2>7, <2>8 DEF AckedSafe
<1>10. ASSUME NEW t \in Threads, FsyncFails(t)
       PROVE  AckedSafe' /\ WrittenInFile'
  <2>1. PICK pointer \in {GENESIS_HASH} \cup Digest : Release(t, pointer) /\ emit[t].pc = "written"
    BY <1>10, FsyncIs
  <2>2. /\ emit'[t] = [pc |-> "holding", sink |-> emit[t].sink]
        /\ \A u \in Threads : u # t => emit'[u] = emit[u]
    BY <2>1, ReleaseIs DEF Writing
  <2>3. UNCHANGED <<lines, acked, synced>> /\ damage \subseteq damage'
    BY <1>10 DEF FsyncFails, Damaged
  <2>4. emit'[t].pc # "written"
    BY <2>2
  <2> QED
    BY <1>b, <2>2, <2>3, <2>4
<1>11. ASSUME NEW t \in Threads, NEW amount \in {"none", "part", "unterminated", "whole"},
              WriteFails(t, amount)
       PROVE  AckedSafe' /\ WrittenInFile'
  <2>1. /\ emit[t].pc = "locked" /\ lines' = AfterAppend(emit[t].line, amount)
        /\ emit[t].line \in Line
        /\ \E pointer \in {GENESIS_HASH} \cup Digest : Release(t, pointer)
        /\ \/ amount = "none" /\ lines' = lines /\ damage' = damage
           \/ amount = "whole" /\ damage \subseteq damage'
           \/ damage \subseteq damage' /\ "torn" \in damage'
    BY <1>11, WriteFailsIs DEF Damaged
  <2>2. /\ emit'[t] = [pc |-> "holding", sink |-> emit[t].sink]
        /\ \A u \in Threads : u # t => emit'[u] = emit[u]
    BY <2>1, ReleaseIs DEF Writing
  <2>3. UNCHANGED <<acked, synced>>
    BY <1>11 DEF WriteFails
  <2>4. emit'[t].pc = "holding"
    BY <2>2
  <2>5. CASE amount = "none" /\ lines' = lines /\ damage' = damage
    BY <1>b, <2>2, <2>3, <2>4, <2>5
  <2>6. CASE amount = "whole" /\ damage \subseteq damage'
    <3>1. AckedSafe /\ WrittenInFile /\ terminated
      BY <1>a, <2>6 DEF Marred
    <3>2. m = n + 1 /\ \A i \in 1..n : lines'[i] = lines[i]
      BY <1>0, <2>1, <2>6, <3>1, AfterAppendIs
    <3>3. AckedSafe'
      BY <1>0, <2>3, <3>1, <3>2, AckedKept
    <3>4. \A u \in Threads : emit'[u].pc = "written" => emit[u].pc = "written" /\ emit'[u] = emit[u]
      BY <2>2, <2>4
    <3>5. WrittenInFile'
      BY <1>0, <3>1, <3>2, <3>4, WrittenKept
    <3> QED
      BY <3>3, <3>5
  <2> QED
    BY <2>1, <2>5, <2>6 DEF Marred
<1>12. CASE Crash
  <2>1. /\ synced' = m /\ acked' = acked /\ \A t \in Threads : emit'[t] = Idle
        /\ \/ lines' = lines /\ damage' = damage
           \/ Damaged({"torn"})
           \/ \E kept \in synced..(Len(lines) - 1) :
                /\ \A i \in 1..kept : lines'[i] = lines[i]
                /\ Len(lines') = kept /\ damage' = damage
           \/ damage' = damage \cup {"torn"}
    BY <1>0, <1>12, CrashIs
  <2>2. WrittenInFile'
    BY <2>1 DEF WrittenInFile, Idle
  <2>3. CASE lines' = lines /\ damage' = damage
    <3>1. AckedSafe /\ synced <= synced'
      BY <1>0, <1>a, <2>1, <2>3 DEF Marred
    <3> QED
      BY <1>0, <2>1, <2>2, <2>3, <3>1, AckedKept
  <2>4. ASSUME NEW kept \in synced..(Len(lines) - 1), \A i \in 1..kept : lines'[i] = lines[i],
               Len(lines') = kept, damage' = damage
        PROVE  AckedSafe'
    <3>1. AckedSafe /\ kept \in Nat /\ synced \in 0..kept /\ synced <= synced' /\ synced' \in Nat
      BY <1>0, <1>a, <2>1, <2>4 DEF Marred
    <3> QED
      BY <2>1, <2>4, <3>1, AckedKept
  <2> QED
    BY <2>1, <2>2, <2>3, <2>4 DEF Marred, Damaged
<1>13. CASE Tamper
  BY <1>13 DEF Tamper, Marred
<1> QED
  BY <1>1, <1>2, <1>3, <1>4, <1>5, <1>6, <1>7, <1>8, <1>9, <1>10, <1>11, <1>12, <1>13 DEF Next

-----------------------------------------------------------------------------
LEMMA InitIInv == Init => IInv
<1> SUFFICES ASSUME Init PROVE IInv
  OBVIOUS
<1> USE DEF Init
<1>1. TypeOK
  <2>1. lines \in Seq(Line) /\ Len(lines) = 0
    OBVIOUS
  <2>2. emitted \in 0..MaxEvents /\ crashes \in 0..MaxCrashes
    BY BoundsAssumption
  <2> QED
    BY <2>1, <2>2 DEF TypeOK, NoObject, EmitState
<1>2. SinksBuilt /\ LocksHeld /\ PendingOnce
  BY DEF SinksBuilt, SinkBuilt, LocksHeld, PendingOnce, Using, Writing, HasPending, Idle, NoObject
<1>3. DOMAIN lines = {} /\ Len(lines) = 0
  OBVIOUS
<1>4. LinesOnce /\ Undamaged
  BY <1>3 DEF LinesOnce, Undamaged, Valid, OneSink, PointersCurrent, NoObject, Idle
<1>5. Torn /\ CleanAccepted /\ EditShows /\ AckedSynced
  BY <1>3 DEF Torn, CleanAccepted, EditShows, AckedSynced, Idle
<1> QED
  BY <1>1, <1>2, <1>4, <1>5 DEF IInv

LEMMA NextIInv == IInv /\ [Next]_vars => IInv'
<1> SUFFICES ASSUME IInv, [Next]_vars PROVE IInv'
  OBVIOUS
<1>1. TypeOK'
  BY NextTypeOK DEF IInv
<1>2. SinksBuilt' /\ LocksHeld'
  BY <1>1, NextSinks DEF IInv
<1>3. PendingOnce' /\ LinesOnce'
  BY <1>1, NextPending DEF IInv
<1>4. Undamaged'
  BY <1>1, <1>2, NextUndamaged DEF IInv
<1>5. Torn' /\ CleanAccepted' /\ EditShows'
  <2>1. FileOK'
    BY <1>1, NextFile DEF IInv, FileOK
  <2> QED
    BY <2>1 DEF FileOK
<1>6. AckedSynced'
  BY <1>1, NextAcked DEF IInv
<1> QED
  BY <1>1, <1>2, <1>3, <1>4, <1>5, <1>6 DEF IInv

LEMMA AuditLogSafe == Spec => []IInv
BY InitIInv, NextIInv, PTL DEF Spec

\* TypeOK: the sink's state always has its type; in particular the number of synced
\* and of clean lines never exceeds the number of lines (storage/jsonl.py).
THEOREM AuditLogTyped == Spec => []TypeOK
<1>1. IInv => TypeOK
  BY DEF IInv
<1> QED
  BY <1>1, AuditLogSafe, PTL

\* DamageConfined: the log verifies at every moment unless one of five causes damaged
\* it; then no line that was there before is rejected, and an edit of a file that
\* verified shows for ever (HashChainedJsonLinesAuditSink.write, verify_chain).
THEOREM DamageStaysConfined == Spec => []DamageConfined
<1>1. IInv => DamageConfined
  <2> SUFFICES ASSUME IInv PROVE DamageConfined
    OBVIOUS
  <2>1. damage = {} => Valid(lines)
    BY DEF IInv, Undamaged
  <2>2. Checked(lines) >= clean
    BY CheckedReaches DEF IInv
  <2>3. "tampered" \in damage => ~Valid(lines)
    <3>1. synced \in 0..Len(lines) /\ Len(lines) \in Nat /\ DOMAIN lines = 1..Len(lines)
      BY DEF IInv, TypeOK
    <3>2. \A i \in 1..synced : i \in DOMAIN lines
      BY <3>1
    <3> QED
      BY <3>2 DEF IInv, EditShows, Valid
  <2> QED
    BY <2>1, <2>2, <2>3 DEF DamageConfined
<1> QED
  BY <1>1, AuditLogSafe, PTL

\* AckedReadable: an event whose write returned can be read back after any crash or
\* power loss, unless a line was torn or the file edited (the fsync before the pointer
\* moves).
THEOREM AckedStaysReadable == Spec => []AckedReadable
<1>1. IInv => AckedReadable
  <2> SUFFICES ASSUME IInv PROVE AckedReadable
    OBVIOUS
  <2>1. synced \in 0..Len(lines) /\ Len(lines) \in Nat /\ DOMAIN lines = 1..Len(lines)
    BY DEF IInv, TypeOK
  <2>2. \A i \in 1..synced : i \in DOMAIN lines
    BY <2>1
  <2> QED
    BY <2>2 DEF IInv, AckedSynced, AckedReadable
<1> QED
  BY <1>1, AuditLogSafe, PTL
=============================================================================
