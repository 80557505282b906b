----------------------------- MODULE AuditTrail -----------------------------
(***************************************************************************)
(* What an audit trail promises, whatever stores it: a sequence of entries *)
(* the running process shows, and the set of entries that survive it.      *)
(*                                                                         *)
(*   - the shown sequence only grows, by entries never recorded before;    *)
(*   - only an entry that has been shown is ever stored, and the program   *)
(*     never drops or replaces a stored entry (an operator editing the     *)
(*     store by hand, while the process is down, may);                     *)
(*   - a restart shows every stored entry exactly once, or, when the store *)
(*     cannot be read, nothing.                                            *)
(*                                                                         *)
(* GovernanceStore implements this specification under every interleaving  *)
(* and every fault it models; order and links are the business of its own  *)
(* invariants.                                                             *)
(***************************************************************************)
EXTENDS Sequences

VARIABLES
  running,          \* is a process serving the trail?
  shown,            \* the entries the running process holds, oldest first
  stored            \* the entries that survive a crash

trailVars == <<running, shown, stored>>

Entries(s) == {s[i] : i \in DOMAIN s}

TrailInit ==
  /\ running = FALSE
  /\ shown = <<>>
  /\ stored = {}

\* A new entry is appended; it is not a copy of one shown or stored before.
Record(e) ==
  /\ running
  /\ e \notin Entries(shown) \cup stored
  /\ shown' = Append(shown, e)
  /\ UNCHANGED <<running, stored>>

\* An entry on show becomes durable.
Store(e) ==
  /\ running
  /\ e \in Entries(shown)
  /\ stored' = stored \cup {e}
  /\ UNCHANGED <<running, shown>>

\* The process is gone, and with it what it held.
Crash ==
  /\ running
  /\ running' = FALSE
  /\ shown' = <<>>
  /\ UNCHANGED stored

\* A new process shows what was stored, each entry once, or nothing at all.
Reopen ==
  /\ ~running
  /\ running' = TRUE
  /\ \/ shown' = <<>>
     \/ /\ Entries(shown') = stored
        /\ \A i, j \in DOMAIN shown' : shown'[i] = shown'[j] => i = j
  /\ UNCHANGED stored

\* Somebody rewrites a stored entry while no process runs.
Edit(old, new) ==
  /\ ~running
  /\ stored' = (stored \ {old}) \cup {new}
  /\ UNCHANGED <<running, shown>>

TrailNext ==
  \/ \E e \in Entries(shown') : Record(e)
  \/ \E e \in stored' : Store(e)
  \/ Crash
  \/ Reopen
  \/ \E old \in stored, new \in stored' : Edit(old, new)

TrailSpec == TrailInit /\ [][TrailNext]_trailVars
=============================================================================
