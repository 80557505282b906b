--------------------------- MODULE JsonlAuditSink ---------------------------
(***************************************************************************)
(* The backend's audit log: AuditService.emit (backend/app/audit/          *)
(* service.py) writing through HashChainedJsonLinesAuditSink               *)
(* (storage/jsonl.py) to one hash-chained file, and verify.py reading it.  *)
(*                                                                         *)
(* The service is a global built on first use and without a lock, so two   *)
(* threads may each build a sink over the same file.  A sink has its own   *)
(* lock and its own idea of the file's last hash, and a write is: take the *)
(* lock, compute the line, append it, fsync, move the pointer.  A write    *)
(* may fail at any point, and emit swallows the failure; the process may   *)
(* be killed at any point, and losing power loses what was not synced.     *)
(*                                                                         *)
(* An event is hashed exactly once, so the number of the event stands for  *)
(* its digest.  A line is an event with the previous digest; a line that   *)
(* is not one JSON object is Garbage.  The last line may lack its newline; *)
(* whatever is appended to it becomes part of the same line.               *)
(*                                                                         *)
(* A definition named X_Y is the definition X with a plausible bug, Y; no  *)
(* specification uses it.                                                  *)
(***************************************************************************)
EXTENDS Naturals, Sequences, FiniteSets

CONSTANTS
  Threads,       \* threads that emit; a sink is named by the thread building it
  NoSink,        \* the global is None
  FileFaults,    \* what may go wrong: "mkdir" (no directory), "read" (no tail),
                 \* "write", "fsync", "power" (unsynced text is lost), "hand"
                 \* (somebody edits the file)
  MaxEvents,     \* bound: events emitted over the whole behaviour
  MaxCrashes     \* bound: crashes

ASSUME NoSinkAssumption == NoSink \notin Threads
ASSUME FileFaultsAssumption ==
  FileFaults \subseteq {"mkdir", "read", "write", "fsync", "power", "hand"}
ASSUME BoundsAssumption == MaxEvents \in Nat /\ MaxCrashes \in Nat

VARIABLES
  lines,         \* the file's lines, the last one possibly incomplete
  terminated,    \* does the file end in a newline (or is it empty)?
  synced,        \* number of lines known to survive a power loss
  default_service,  \* the global: NoSink or the sink it wraps
  sink,          \* what each thread's sink is: [kind, previous_hash, owner]
  emit,          \* what each thread is doing
  emitted,       \* number of events emitted so far
  acked,         \* ghost: events whose write returned normally
  damage,        \* ghost: what has gone wrong for the chain so far
  clean,         \* ghost: the lines that were there before the first damage
  crashes

vars == <<lines, terminated, synced, default_service, sink, emit, emitted,
          acked, damage, clean, crashes>>

GENESIS_HASH == 0
Digest == 1..MaxEvents

\* intact: the content is the one event_hash was computed from.
Line == [event_hash : {GENESIS_HASH} \cup Digest,
         previous_hash : {GENESIS_HASH} \cup Digest, intact : BOOLEAN]
Garbage == [event_hash |-> GENESIS_HASH, previous_hash |-> GENESIS_HASH,
            intact |-> FALSE]
Readable(line) == line.event_hash # GENESIS_HASH

\* _read_last_hash: the hash of the last line that parses, skipping the others.
LastHash(text) ==
  LET readable == {i \in DOMAIN text : Readable(text[i])} IN
    IF readable = {} THEN GENESIS_HASH
    ELSE text[CHOOSE i \in readable : \A j \in readable : j <= i].event_hash

\* verify_chain accepts line i, given that it accepted the ones before it.
Accepts_AnyLink(text, i) == Readable(text[i]) /\ text[i].intact
Accepts(text, i) ==
  /\ Readable(text[i])
  /\ text[i].previous_hash = IF i = 1 THEN GENESIS_HASH ELSE text[i - 1].event_hash
  /\ text[i].intact

\* The number of lines verify_chain checks before it stops, and its verdict.
Checked(text) ==
  CHOOSE n \in 0..Len(text) :
    /\ \A i \in 1..n : Accepts(text, i)
    /\ n < Len(text) => ~Accepts(text, n + 1)
Valid(text) == \A i \in DOMAIN text : Accepts(text, i)

\* The file after text is appended to it: all of it ("whole"), all but the
\* newline ("unterminated"), some of it ("part") or none.
AfterAppend(line, amount) ==
  LET new == IF amount = "part" \/ ~terminated THEN Garbage ELSE line IN
    IF amount = "none" THEN lines
    ELSE IF terminated THEN Append(lines, new)
    ELSE [lines EXCEPT ![Len(lines)] = new]

\* Damage is recorded together with the lines it has not touched.
Damaged(what) ==
  /\ damage' = damage \cup what
  /\ clean' = IF damage = {} /\ what # {} THEN Len(lines) ELSE clean

-----------------------------------------------------------------------------
Idle == [pc |-> "idle"]
NoObject == [kind |-> "none", previous_hash |-> GENESIS_HASH, owner |-> NoSink]

Init ==
  /\ lines = <<>>
  /\ terminated = TRUE
  /\ synced = 0
  /\ default_service = NoSink
  /\ sink = [t \in Threads |-> NoObject]
  /\ emit = [t \in Threads |-> Idle]
  /\ emitted = 0
  /\ acked = {}
  /\ damage = {}
  /\ clean = 0
  /\ crashes = 0

\* get_audit_service is called and finds the global set or not.  A caller that
\* kept the service of its last event (the ingestion services do) reuses it.
Emit(t) ==
  /\ emit[t].pc \in {"idle", "holding"}
  /\ emitted < MaxEvents
  /\ emitted' = emitted + 1
  /\ \/ /\ emit[t].pc = "holding"
        /\ emit' = [emit EXCEPT ![t] =
             [pc |-> "ready", event |-> emitted + 1, sink |-> emit[t].sink]]
     \/ /\ default_service # NoSink
        /\ emit' = [emit EXCEPT ![t] =
             [pc |-> "ready", event |-> emitted + 1, sink |-> default_service]]
     \/ /\ default_service = NoSink
        /\ emit' = [emit EXCEPT ![t] = [pc |-> "building", event |-> emitted + 1]]
  /\ UNCHANGED <<lines, terminated, synced, default_service, sink, acked, damage,
                 clean, crashes>>

\* _build_default_sink: a new sink starts at the last hash of the file, at
\* genesis if it cannot read the file, and discards events if it cannot make
\* the directory.
BuildSink(t) ==
  /\ emit[t].pc = "building"
  /\ \/ /\ sink' = [sink EXCEPT ![t] = [kind |-> "jsonl", owner |-> NoSink,
                      previous_hash |-> LastHash(lines)]]
        /\ Damaged(IF \E u \in Threads : sink[u].kind = "jsonl" THEN {"race"} ELSE {})
     \/ /\ "read" \in FileFaults
        /\ sink' = [sink EXCEPT ![t] = [kind |-> "jsonl", owner |-> NoSink,
                      previous_hash |-> GENESIS_HASH]]
        /\ Damaged({"unread"})
     \/ /\ "mkdir" \in FileFaults
        /\ sink' = [sink EXCEPT ![t] = [NoObject EXCEPT !.kind = "null"]]
        /\ UNCHANGED <<damage, clean>>
  /\ emit' = [emit EXCEPT ![t].pc = "built"]
  /\ UNCHANGED <<lines, terminated, synced, default_service, emitted, acked, crashes>>

\* The global is set, then read again to be returned.
SetDefault(t) ==
  /\ emit[t].pc = "built"
  /\ default_service' = t
  /\ emit' = [emit EXCEPT ![t].pc = "set"]
  /\ UNCHANGED <<lines, terminated, synced, sink, emitted, acked, damage, clean, crashes>>

ReturnDefault(t) ==
  /\ emit[t].pc = "set"
  /\ emit' = [emit EXCEPT ![t] =
       [pc |-> "ready", event |-> emit[t].event, sink |-> default_service]]
  /\ UNCHANGED <<lines, terminated, synced, default_service, sink, emitted, acked,
                 damage, clean, crashes>>

\* A null sink discards the event.
Discard(t) ==
  /\ emit[t].pc = "ready"
  /\ sink[emit[t].sink].kind = "null"
  /\ emit' = [emit EXCEPT ![t] = [pc |-> "holding", sink |-> emit[t].sink]]
  /\ UNCHANGED <<lines, terminated, synced, default_service, sink, emitted, acked,
                 damage, clean, crashes>>

\* write takes the sink's lock and links the line to the sink's pointer.
Lock_NeverWaits(t) ==
  /\ emit[t].pc = "ready"
  /\ sink[emit[t].sink].kind = "jsonl"
  /\ emit' = [emit EXCEPT ![t] =
       [pc |-> "locked", sink |-> emit[t].sink,
        line |-> [event_hash |-> emit[t].event, intact |-> TRUE,
                  previous_hash |-> sink[emit[t].sink].previous_hash]]]
  /\ UNCHANGED <<lines, terminated, synced, default_service, sink, emitted, acked,
                 damage, clean, crashes>>
Lock(t) ==
  /\ emit[t].pc = "ready"
  /\ LET s == emit[t].sink IN
       /\ sink[s].kind = "jsonl"
       /\ sink[s].owner = NoSink
       /\ sink' = [sink EXCEPT ![s].owner = t]
       /\ emit' = [emit EXCEPT ![t] =
            [pc |-> "locked", sink |-> s,
             line |-> [event_hash |-> emit[t].event,
                       previous_hash |-> sink[s].previous_hash, intact |-> TRUE]]]
  /\ UNCHANGED <<lines, terminated, synced, default_service, emitted, acked, damage,
                 clean, crashes>>

\* The call ends, well or badly: the lock is free and the caller goes on.
Release_NoEvent(t, pointer) ==
  /\ sink' = [sink EXCEPT ![emit[t].sink].owner = NoSink,
                          ![emit[t].sink].previous_hash = pointer]
  /\ emit' = [emit EXCEPT ![t] = [pc |-> "ready", sink |-> emit[t].sink]]
Release(t, pointer) ==
  /\ sink' = [sink EXCEPT ![emit[t].sink].owner = NoSink,
                          ![emit[t].sink].previous_hash = pointer]
  /\ emit' = [emit EXCEPT ![t] = [pc |-> "holding", sink |-> emit[t].sink]]

\* The line is written and flushed.
Write_RepliesUnsynced(t) ==
  /\ emit[t].pc = "locked"
  /\ lines' = AfterAppend(emit[t].line, "whole")
  /\ terminated' = TRUE
  /\ emit' = [emit EXCEPT ![t].pc = "written"]
  /\ acked' = acked \cup {emit[t].line.event_hash}
  /\ UNCHANGED <<synced, default_service, sink, emitted, damage, clean, crashes>>
Write(t) ==
  /\ emit[t].pc = "locked"
  /\ lines' = AfterAppend(emit[t].line, "whole")
  /\ terminated' = TRUE
  /\ emit' = [emit EXCEPT ![t].pc = "written"]
  /\ UNCHANGED <<synced, default_service, sink, emitted, acked, damage, clean, crashes>>

\* Opening or writing raises, after some of the text has reached the file.
WriteFails(t, amount) ==
  /\ emit[t].pc = "locked"
  /\ "write" \in FileFaults
  /\ lines' = AfterAppend(emit[t].line, amount)
  /\ terminated' = IF amount = "none" THEN terminated ELSE (amount = "whole")
  /\ Release(t, sink[emit[t].sink].previous_hash)
  /\ Damaged(CASE amount = "none"  -> {}
               [] amount = "whole" -> {"stale"}
               [] OTHER            -> {"torn"})
  /\ UNCHANGED <<synced, default_service, emitted, acked, crashes>>

\* The file is synced, and only then the pointer moves.
Fsync(t) ==
  /\ emit[t].pc = "written"
  /\ synced' = Len(lines)
  /\ acked' = acked \cup {emit[t].line.event_hash}
  /\ Release(t, emit[t].line.event_hash)
  /\ UNCHANGED <<lines, terminated, default_service, emitted, damage, clean, crashes>>

FsyncFails(t) ==
  /\ emit[t].pc = "written"
  /\ "fsync" \in FileFaults
  /\ Release(t, sink[emit[t].sink].previous_hash)
  /\ Damaged({"stale"})
  /\ UNCHANGED <<lines, terminated, synced, default_service, emitted, acked, crashes>>

-----------------------------------------------------------------------------
\* The process dies: the file keeps its first kept lines, then possibly some of
\* the next one, or of a line that was being written.
Restarted ==
  /\ default_service' = NoSink
  /\ sink' = [t \in Threads |-> NoObject]
  /\ emit' = [t \in Threads |-> Idle]
  /\ synced' = Len(lines')
  /\ crashes' = crashes + 1
  /\ UNCHANGED <<emitted, acked>>

Crash ==
  /\ crashes < MaxCrashes
  /\ \/ UNCHANGED <<lines, terminated, damage, clean>>
     \/ \E t \in Threads, amount \in {"unterminated", "part"} :
          /\ emit[t].pc = "locked"
          /\ lines' = AfterAppend(emit[t].line, amount)
          /\ terminated' = FALSE
          /\ Damaged({"torn"})
     \/ \E kept \in synced..(Len(lines) - 1) :
          /\ "power" \in FileFaults
          /\ \/ /\ lines' = SubSeq(lines, 1, kept)
                /\ terminated' = TRUE
                /\ damage' = damage
             \/ /\ \E torn \in {Garbage, lines[kept + 1]} :
                     lines' = Append(SubSeq(lines, 1, kept), torn)
                /\ terminated' = FALSE
                /\ damage' = damage \cup {"torn"}
          /\ clean' = IF damage = {} \/ kept < clean THEN kept ELSE clean
  /\ Restarted

\* Environment: before the service is first used somebody alters, removes or
\* swaps lines of a file that verifies.  Cutting lines off the end is not
\* tampering the chain claims to show.
Tamper ==
  /\ "hand" \in FileFaults
  /\ "tampered" \notin damage          \* bound: one edit
  /\ default_service = NoSink /\ \A t \in Threads : emit[t].pc = "idle"
  /\ Valid(lines)
  /\ \E i \in DOMAIN lines :
       \/ lines' = [lines EXCEPT ![i].intact = FALSE]
       \/ /\ i < Len(lines)
          /\ \/ lines' = SubSeq(lines, 1, i - 1) \o SubSeq(lines, i + 1, Len(lines))
             \/ lines' = [lines EXCEPT ![i] = lines[i + 1], ![i + 1] = lines[i]]
       /\ damage' = damage \cup {"tampered"}
       /\ clean' = IF damage = {} \/ i - 1 < clean THEN i - 1 ELSE clean
  /\ terminated' = TRUE
  /\ synced' = Len(lines')
  /\ UNCHANGED <<default_service, sink, emit, emitted, acked, crashes>>

Next ==
  \/ \E t \in Threads :
       \/ Emit(t) \/ BuildSink(t) \/ SetDefault(t) \/ ReturnDefault(t)
       \/ Discard(t) \/ Lock(t) \/ Write(t) \/ Fsync(t) \/ FsyncFails(t)
  \/ \E t \in Threads, amount \in {"none", "part", "unterminated", "whole"} :
       WriteFails(t, amount)
  \/ Crash
  \/ Tamper

Spec == Init /\ [][Next]_vars

-----------------------------------------------------------------------------
\* Type invariant.
EmitState ==
  {Idle}
    \cup [pc : {"building", "built", "set"}, event : Digest]
    \cup [pc : {"ready"}, event : Digest, sink : Threads]
    \cup [pc : {"locked", "written"}, sink : Threads, line : Line]
    \cup [pc : {"holding"}, sink : Threads]
TypeOK ==
  /\ lines \in Seq(Line)
  /\ terminated \in BOOLEAN
  /\ synced \in 0..Len(lines)
  /\ default_service \in Threads \cup {NoSink}
  /\ sink \in [Threads -> [kind : {"none", "null", "jsonl"},
                           previous_hash : {GENESIS_HASH} \cup Digest,
                           owner : Threads \cup {NoSink}]]
  /\ emit \in [Threads -> EmitState]
  /\ emitted \in 0..MaxEvents
  /\ acked \subseteq Digest
  /\ damage \subseteq {"race", "unread", "stale", "torn", "tampered"}
  /\ clean \in 0..Len(lines)
  /\ crashes \in 0..MaxCrashes

\* The file verifies at every moment, in the middle of writes and after crashes and
\* power losses, unless one of five things happened: two sinks were built, the tail
\* could not be read, a line reached the file although its write failed, a line was
\* torn, or somebody edited the file.  Whatever happens then, verify.py rejects no
\* line that was there before; and an edit of a file that verified shows for ever, no
\* later append, failure or restart making the file verify again.
DamageConfined ==
  /\ damage = {} => Valid(lines)
  /\ Checked(lines) >= clean
  /\ "tampered" \in damage => ~Valid(lines)

\* An event whose write returned normally can be read back, whatever crashes
\* and losses of power follow, if no line was ever torn.
AckedReadable ==
  damage \cap {"torn", "tampered"} = {} =>
    \A event \in acked : \E i \in DOMAIN lines : lines[i].event_hash = event
=============================================================================
