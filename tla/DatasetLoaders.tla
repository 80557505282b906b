--------------------------- MODULE DatasetLoaders ---------------------------
(***************************************************************************)
(* The backend's datasets (backend/app/data_loaders): each is read from    *)
(* its file at its first use and kept in a global of its loader for as     *)
(* long as the process lives.                                              *)
(*                                                                         *)
(* What the global holds is all that matters: nothing yet ("unset"), the   *)
(* whole file, the rows before the one that made the loader raise          *)
(* ("early"), nothing at all ("empty"), or the clients that are built in.  *)
(* All loaders but the one of the GDPR set the global before they read, so *)
(* a failure leaves what was read so far, and no later call reads again.   *)
(***************************************************************************)
CONSTANTS
  Clients,       \* client ids in the KYC file
  BuiltIn,       \* client ids of _SYNTHETIC_CLIENTS
  Holders,       \* clients with an account in the mapping
  Resolvable,    \* citations that name a record of a dataset
  Unresolvable,  \* citations of a dataset that has no such record
  DatasetOf,     \* both |-> the dataset they are looked up in
  Early          \* clients and citations whose row stands before a broken one

Datasets == {"clients", "accounts", "transactions", "sanctions", "gdpr"}
Files == {"absent", "broken", "good"}

ASSUME DatasetOfAssumption == DatasetOf \in [Resolvable \cup Unresolvable -> Datasets]
ASSUME HoldersAssumption == Holders \subseteq Clients \cup BuiltIn

\* A global that is set is never set again.
Contents == {"unset", "whole", "early", "empty", "builtin"}
Unset == [d \in Datasets |-> "unset"]

\* The globals after a few loads, and the loader that raised, if one did.
Memory(caches) == [caches |-> caches, raised |-> {}]

\* What reading a file leaves in the global, and whether it raises.
Read(held, raises) == [held |-> held, raises |-> raises]
ReadRows(file) == IF file = "good" THEN Read("whole", FALSE) ELSE Read("early", TRUE)

\* Missing clients are replaced, missing lists skipped; other files must be there.
LoadClients(file) == IF file = "absent" THEN Read("builtin", FALSE) ELSE ReadRows(file)
LoadAccounts(file) == IF file = "absent" THEN Read("empty", TRUE) ELSE ReadRows(file)
LoadTransactions(file) == IF file = "absent" THEN Read("empty", TRUE) ELSE ReadRows(file)
LoadLists(file) == IF file = "absent" THEN Read("empty", FALSE) ELSE ReadRows(file)
LoadArticles(file) == IF file = "good" THEN Read("whole", FALSE) ELSE Read("unset", TRUE)

Reading(d, file) ==
  CASE d = "clients"      -> LoadClients(file)
    [] d = "accounts"     -> LoadAccounts(file)
    [] d = "transactions" -> LoadTransactions(file)
    [] d = "sanctions"    -> LoadLists(file)
    [] d = "gdpr"         -> LoadArticles(file)

\* A dataset is asked for, unless an earlier one raised.
Load(files, memory, d) ==
  IF memory.raised # {} \/ memory.caches[d] # "unset" THEN memory
  ELSE [caches |-> [memory.caches EXCEPT ![d] = Reading(d, files[d]).held],
        raised |-> IF Reading(d, files[d]).raises THEN {d} ELSE {}]

\* get_client_profile finds a profile.
Profiled(caches, c) ==
  CASE caches["clients"] = "whole"   -> c \in Clients
    [] caches["clients"] = "early"   -> c \in Clients \cap Early
    [] caches["clients"] = "builtin" -> c \in BuiltIn
    [] OTHER                         -> FALSE

\* get_accounts_for_client finds an account.
HasAccount(caches, c) ==
  c \in Holders /\ (caches["accounts"] = "whole" \/ (caches["accounts"] = "early" /\ c \in Early))

\* get_client_transactions: without an account the transactions are not asked for.
ClientTransactions(files, memory, c) ==
  LET mapped == Load(files, memory, "accounts") IN
    IF HasAccount(mapped.caches, c) THEN Load(files, mapped, "transactions") ELSE mapped

\* The datasets to be read for some citations; a citation of the profile is checked
\* against the names of its fields.
Sought(caches, cites) ==
  {d \in {DatasetOf[cite] : cite \in cites} \ {"clients"} : caches[d] = "unset"}
Raising(files, caches, cites) == {d \in Sought(caches, cites) : Reading(d, files[d]).raises}

\* What some datasets leave in memory.
Having(files, caches, read, raised) ==
  [caches |-> [d \in Datasets |-> IF d \in read THEN Reading(d, files[d]).held ELSE caches[d]],
   raised |-> raised]

\* Looking citations up asks for their datasets, in some order, as far as the first that
\* raises.
Consulted(files, caches, cites) ==
  LET sought == Sought(caches, cites)
      raising == Raising(files, caches, cites)
      reads == {read \in SUBSET sought :
                  IF raising = {} THEN read = sought ELSE \E d \in raising : read \cap raising = {d}}
  IN {Having(files, caches, read, read \cap raising) : read \in reads}

\* The record is among what was read.
Resolves(caches, cite) ==
  /\ cite \in Resolvable
  /\ LET held == caches[DatasetOf[cite]] IN
       \/ DatasetOf[cite] = "clients" \/ held = "whole"
       \/ held = "early" /\ cite \in Early
=============================================================================
