--------------------------- MODULE ProtectedData ---------------------------
(***************************************************************************)
(* Encrypted artifacts: processes write and read them through              *)
(* EncryptedArtifactStore (artifact_store.py), which seals them with a key *)
(* that it asks a secret provider for (service.py, keys.py, factory.py,    *)
(* vault_provider.py), writes a temporary file, and replaces the artifact  *)
(* with it.  Threads of one process share a cached Vault provider.         *)
(*                                                                         *)
(* Around them: keys are rotated, Vault goes away or stops accepting the   *)
(* token, the disk fails, files are damaged, the process dies, and the     *)
(* power goes, which may undo renames that the disk has not settled.       *)
(*                                                                         *)
(* A definition named X_Y is the definition X with a plausible bug, Y; no  *)
(* specification uses it.                                                  *)
(***************************************************************************)
EXTENDS Integers, Sequences, FiniteSets

CONSTANTS
  Threads,    \* threads of the process
  Names,      \* names of artifacts
  BadNames,   \* names that leave the approved directory
  Values,     \* what artifacts hold
  JsonValues, \* those that are JSON text
  KeyIds,     \* logical names of keys
  Keys,       \* valid key material
  Tokens,     \* Vault tokens
  MaxUndone,  \* bound: what the renames of a name that are not settled may fall back to
  None

ASSUME NamesAssumption == BadNames \subseteq Names
ASSUME ValuesAssumption == JsonValues \subseteq Values
ASSUME BoundAssumption == MaxUndone \in Nat
ASSUME NoneAssumption == None \notin Tokens \cup Keys \cup Values \cup Names \cup KeyIds

VARIABLES
  mode,      \* SECRETS_PROVIDER
  token,     \* VAULT_TOKEN in the environment of the process
  provider,  \* the token of the cached Vault provider
  accepted,  \* the token that Vault accepts, if it accepts one
  secrets,   \* what is stored under each logical name
  disk,      \* the artifact each name leads to
  unsettled, \* what the name may lead to instead once the power has gone
  pc,        \* the step each thread is at
  call,      \* what it was called for
  stood,     \* ghost: what writes have left under the name since a read began
  envelope,      \* the envelope it has in hand, or read
  key,       \* the key it opened an envelope with
  trail,     \* the audit events of its call
  reply      \* what its last call answered

environment == <<mode, token, accepted, secrets>>
threads == <<pc, call, stood, envelope, key, trail, reply>>
dataVars == <<environment, provider, disk, unsettled, threads>>

\* An envelope names its key.  Its ciphertext decrypts to `value`; its tag is that of
\* `wrote`, which a write sealed with the material `sealed`.  They differ when it is damaged.
Envelope == [value : Values, wrote : Values, key_id : KeyIds, sealed : Keys, synced : BOOLEAN]
Torn == [torn |-> TRUE]
NoFile == [torn |-> FALSE]
Files == Envelope \cup {Torn, NoFile}

NoCall == [kind |-> "none", name |-> None, value |-> None, key_id |-> None]
WriteCalls == [kind : {"write"}, name : Names, value : Values, key_id : KeyIds]
OverCalls == [kind : {"write", "read_bytes", "read_json"}, name : {None}, value : {None},
              key_id : {None}]
ReadCalls == [kind : {"read_bytes", "read_json"}, name : Names, value : {None}, key_id : {None}]

DataInit ==
  /\ mode \in {"environment", "vault", "other"}
  /\ token \in Tokens \cup {None}
  /\ provider = None
  /\ accepted \in Tokens
  /\ secrets \in [KeyIds -> Keys]
  /\ disk = [n \in Names |-> NoFile]
  /\ unsettled = [n \in Names |-> {}]
  /\ pc = [t \in Threads |-> "idle"]
  /\ call = [t \in Threads |-> NoCall]
  /\ stood = [t \in Threads |-> {}]
  /\ envelope = [t \in Threads |-> NoFile]
  /\ key = [t \in Threads |-> None]
  /\ trail = [t \in Threads |-> <<>>]
  /\ reply = [t \in Threads |-> "none"]

\* A thread goes on, or its call ends; of a call that is over only its kind is kept.
Over(c) == [kind |-> c.kind, name |-> None, value |-> None, key_id |-> None]
GoesOn(t, to, f, events) ==
  /\ pc' = [pc EXCEPT ![t] = to]
  /\ envelope' = [envelope EXCEPT ![t] = f]
  /\ trail' = [trail EXCEPT ![t] = events]
  /\ UNCHANGED <<call, stood, key, reply>>
Ends(t, r, f, k, events) ==
  /\ pc' = [pc EXCEPT ![t] = "idle"]
  /\ reply' = [reply EXCEPT ![t] = r]
  /\ envelope' = [envelope EXCEPT ![t] = f]
  /\ key' = [key EXCEPT ![t] = k]
  /\ trail' = [trail EXCEPT ![t] = events]
  /\ call' = [call EXCEPT ![t] = Over(@)]
Fails(t, r, events) == Ends(t, r, NoFile, None, events) /\ UNCHANGED stood

-----------------------------------------------------------------------------
\* What stands under a name: what the envelope there was made of.
Standing(n) == IF disk[n] \in {NoFile, Torn} THEN {} ELSE {disk[n].wrote}

\* A call of write_bytes, or of write_json with what json.dumps takes, or of read_bytes or
\* read_json on get_default_artifact_store.
Begin(t, c) ==
  /\ pc[t] = "idle"
  /\ pc' = [pc EXCEPT ![t] = "provider"]
  /\ call' = [call EXCEPT ![t] = c]
  /\ stood' = [stood EXCEPT ![t] = IF c.kind = "write" THEN {} ELSE Standing(c.name)]
  /\ envelope' = [envelope EXCEPT ![t] = NoFile]
  /\ key' = [key EXCEPT ![t] = None]
  /\ trail' = [trail EXCEPT ![t] = <<>>]
  /\ reply' = [reply EXCEPT ![t] = "none"]
  /\ UNCHANGED <<environment, provider, disk, unsettled>>

\* The service is given the configured provider.
FirstStep(c) == IF c.kind = "write" THEN "seal" ELSE "open"
ResolveProvider(t) ==
  /\ pc[t] = "provider"
  /\ IF mode = "other" THEN Fails(t, "misconfigured", <<>>)
     ELSE GoesOn(t, IF mode = "vault" /\ provider = None THEN "construct" ELSE FirstStep(call[t]),
                 NoFile, <<>>)
  /\ UNCHANGED <<environment, provider, disk, unsettled>>

\* The Vault provider keeps the token it was built with.
Construct(t) ==
  /\ pc[t] = "construct"
  /\ IF token = None THEN Fails(t, "misconfigured", <<>>) /\ UNCHANGED provider
     ELSE GoesOn(t, FirstStep(call[t]), NoFile, <<>>) /\ provider' = token
  /\ UNCHANGED <<environment, disk, unsettled>>

-----------------------------------------------------------------------------
\* resolve_key: what the provider may answer, and the audit event that tells of it.  Vault
\* can be out of reach at any time.
VaultAnswers(key_id) ==
  {"unavailable", IF provider # accepted THEN "refused" ELSE secrets[key_id]}
Answers(key_id) == IF mode = "vault" THEN VaultAnswers(key_id) ELSE {secrets[key_id]}
Failures == {"unavailable", "refused", "missing", "malformed"}

Access_Hopeful(answer) == "secret_ok"
Access(answer) ==
  IF answer \in {"unavailable", "refused", "missing"} THEN "secret_failed" ELSE "secret_ok"

\* resolve_artifact_path
Escapes_Never(name) == FALSE
Escapes(name) == name \in BadNames

\* encrypt_bytes; the path is looked at only when there is an envelope.
SealedWith(c, material) ==
  [value |-> c.value, wrote |-> c.value, key_id |-> c.key_id, sealed |-> material,
   synced |-> FALSE]
Seal(t) ==
  /\ pc[t] = "seal"
  /\ \E answer \in Answers(call[t].key_id) :
       LET done == <<Access(answer), "encrypt_ok">> IN
       IF answer \in Failures THEN Fails(t, answer, <<Access(answer), "encrypt_failed">>)
       ELSE IF Escapes(call[t].name) THEN Fails(t, "bad_path", done)
       ELSE GoesOn(t, "create", SealedWith(call[t], answer), done)
  /\ UNCHANGED <<environment, provider, disk, unsettled>>

\* _write_envelope: a temporary file is made, written, flushed and synced, and takes
\* the place of the artifact.  Whatever fails, the file is removed.
CreateTemp(t) ==
  /\ pc[t] = "create"
  /\ GoesOn(t, "write", envelope[t], trail[t])
  /\ UNCHANGED <<environment, provider, disk, unsettled>>
WriteTemp_SkipsFsync(t) ==
  /\ pc[t] = "write"
  /\ GoesOn(t, "replace", envelope[t], trail[t])
  /\ UNCHANGED <<environment, provider, disk, unsettled>>
WriteTemp(t) ==
  /\ pc[t] = "write"
  /\ GoesOn(t, "fsync", envelope[t], trail[t])
  /\ UNCHANGED <<environment, provider, disk, unsettled>>
Synced(f) ==
  [value |-> f.value, wrote |-> f.wrote, key_id |-> f.key_id, sealed |-> f.sealed,
   synced |-> TRUE]
Fsync(t) ==
  /\ pc[t] = "fsync"
  /\ GoesOn(t, "replace", Synced(envelope[t]), trail[t])
  /\ UNCHANGED <<environment, provider, disk, unsettled>>
WriteFails(t) ==
  /\ pc[t] \in {"create", "write", "fsync", "replace"}
  /\ Fails(t, "write_failed", trail[t])
  /\ UNCHANGED <<environment, provider, disk, unsettled>>
Reading(u, name) == pc[u] # "idle" /\ call[u] \in ReadCalls /\ call[u].name = name
Replace(t) ==
  /\ pc[t] = "replace"
  /\ Cardinality(unsettled[call[t].name]) < MaxUndone
  /\ disk' = [disk EXCEPT ![call[t].name] = envelope[t]]
  /\ unsettled' = [unsettled EXCEPT ![call[t].name] = @ \cup {disk[call[t].name]}]
  /\ Ends(t, "written", NoFile, None, trail[t])
  /\ stood' = [u \in Threads |-> IF Reading(u, call[t].name) THEN stood[u] \cup {envelope[t].wrote}
                                 ELSE stood[u]]
  /\ UNCHANGED <<environment, provider>>

-----------------------------------------------------------------------------
\* read_envelope: a file that is not there, or that is no envelope, ends the call
\* before the service is asked, and so unaudited.
Open(t) ==
  /\ pc[t] = "open"
  /\ LET found == disk[call[t].name] IN
     IF Escapes(call[t].name) THEN Fails(t, "bad_path", <<>>)
     ELSE IF found = NoFile THEN Fails(t, "not_a_file", <<>>)
     ELSE IF found = Torn THEN Fails(t, "malformed_envelope", <<>>)
     ELSE GoesOn(t, "decrypt", found, <<>>)
  /\ UNCHANGED <<environment, provider, disk, unsettled>>

Authentic_AnyTag(f, material) == f.sealed = material
Authentic(f, material) == f.value = f.wrote /\ f.sealed = material

\* decrypt_bytes, which has told of its success when decrypt_json finds that what it
\* decrypted is no JSON.
Decrypt(t) ==
  /\ pc[t] = "decrypt"
  /\ \E answer \in Answers(envelope[t].key_id) :
        LET text == call[t].kind = "read_json" => envelope[t].value \in JsonValues IN
        IF answer \in Failures THEN Fails(t, answer, <<Access(answer), "decrypt_failed">>)
        ELSE /\ IF Authentic(envelope[t], answer)
                  THEN Ends(t, IF text THEN "plaintext" ELSE "decryption_failed", envelope[t],
                            answer, <<Access(answer), "decrypt_ok">>)
                  ELSE Ends(t, "decryption_failed", envelope[t], answer,
                            <<Access(answer), "decrypt_failed">>)
             /\ UNCHANGED stood
  /\ UNCHANGED <<environment, provider, disk, unsettled>>

-----------------------------------------------------------------------------
\* Around the process.  The environment of a running process does not change.
Rotate(key_id, material) ==
  /\ mode = "vault"
  /\ secrets' = [secrets EXCEPT ![key_id] = material]
  /\ UNCHANGED <<mode, token, accepted, provider, disk, unsettled, threads>>
VaultChanges(new_token) ==
  /\ mode = "vault"
  /\ accepted' = new_token
  /\ UNCHANGED <<mode, token, secrets, provider, disk, unsettled, threads>>

Settle(name) ==
  /\ unsettled' = [unsettled EXCEPT ![name] = {}]
  /\ UNCHANGED <<environment, provider, disk, threads>>

\* Bits of what an artifact holds change, or its key id does, which the tag does not cover.
Altered(f, value, key_id) ==
  [value |-> value, wrote |-> f.wrote, key_id |-> key_id, sealed |-> f.sealed,
   synced |-> f.synced]
Damage(name) ==
  /\ disk[name] \notin {NoFile, Torn}
  /\ \E v \in Values, k \in KeyIds :
       disk' = [disk EXCEPT ![name] = Altered(disk[name], v, k)]
  /\ unsettled' = [unsettled EXCEPT ![name] = {}]
  /\ UNCHANGED <<environment, provider, threads>>

\* The process dies and comes back, perhaps with another environment.  Temporary
\* files that are left behind are never looked at.
Restart ==
  /\ provider' = None
  /\ token' \in Tokens \cup {None}
  /\ pc' = [t \in Threads |-> "idle"]
  /\ call' = [t \in Threads |-> NoCall]
  /\ stood' = [t \in Threads |-> {}]
  /\ envelope' = [t \in Threads |-> NoFile]
  /\ key' = [t \in Threads |-> None]
  /\ trail' = [t \in Threads |-> <<>>]
  /\ reply' = [t \in Threads |-> "none"]
  /\ UNCHANGED <<mode, accepted, secrets>>
ProcessDies == Restart /\ UNCHANGED <<disk, unsettled>>

\* After a loss of power a rename may be undone; a file that was not synced may be
\* torn.
Remains(f) == IF f \in {NoFile, Torn} \/ f.synced THEN {f} ELSE {f, Torn}
Leftovers(n) == UNION {Remains(f) : f \in unsettled[n] \cup {disk[n]}}
PowerLoss ==
  /\ Restart
  /\ disk' \in [Names -> UNION {Leftovers(n) : n \in Names}]
  /\ \A n \in Names : disk'[n] \in Leftovers(n)
  /\ unsettled' = [n \in Names |-> {}]

-----------------------------------------------------------------------------
ThreadStep(t) ==
  \/ ResolveProvider(t) \/ Construct(t) \/ Seal(t)
  \/ CreateTemp(t) \/ WriteTemp(t) \/ Fsync(t) \/ WriteFails(t) \/ Replace(t)
  \/ Open(t) \/ Decrypt(t)
DataNext ==
  \/ \E t \in Threads : ThreadStep(t)
  \/ \E t \in Threads, c \in WriteCalls \cup ReadCalls : Begin(t, c)
  \/ \E k \in KeyIds, m \in Keys \cup {"missing", "malformed"} : Rotate(k, m)
  \/ \E a \in Tokens \cup {None} : VaultChanges(a)
  \/ \E n \in Names : Settle(n) \/ Damage(n)
  \/ ProcessDies \/ PowerLoss

DataSpec == DataInit /\ [][DataNext]_dataVars

-----------------------------------------------------------------------------
\* Types, and where a call can be with what it has in hand.
Writing == {"create", "write", "fsync", "replace"}
AuditEvents ==
  {"secret_ok", "secret_failed", "encrypt_ok", "encrypt_failed", "decrypt_ok", "decrypt_failed"}
Trails == {<<>>} \cup (AuditEvents \X AuditEvents)
Replies ==
  {"none", "written", "write_failed", "plaintext", "decryption_failed", "misconfigured",
   "bad_path", "not_a_file", "malformed_envelope"} \cup Failures
Pcs == {"idle", "provider", "construct", "seal", "open", "decrypt"} \cup Writing
InHand(p, c, f) ==
  /\ p \in {"provider", "construct"} => c \in WriteCalls \cup ReadCalls
  /\ p \in {"seal"} \cup Writing => c \in WriteCalls
  /\ p \in {"open", "decrypt"} => c \in ReadCalls
  /\ p \in {"decrypt"} \cup Writing => f \in Envelope
  /\ p \in Writing => f.value = c.value /\ f.wrote = c.value /\ c.name \notin BadNames
DataTypeOK ==
  /\ mode \in {"environment", "vault", "other"}
  /\ token \in Tokens \cup {None} /\ provider \in Tokens \cup {None}
  /\ accepted \in Tokens \cup {None}
  /\ secrets \in [KeyIds -> Keys \cup {"missing", "malformed"}]
  /\ disk \in [Names -> Files]
  /\ unsettled \in [Names -> SUBSET Files]
  /\ pc \in [Threads -> Pcs]
  /\ call \in [Threads -> {NoCall} \cup WriteCalls \cup ReadCalls \cup OverCalls]
  /\ stood \in [Threads -> SUBSET Values]
  /\ envelope \in [Threads -> Files]
  /\ key \in [Threads -> Keys \cup {None}]
  /\ trail \in [Threads -> Trails]
  /\ reply \in [Threads -> Replies]
  /\ \A t \in Threads : InHand(pc[t], call[t], envelope[t])

\* "a crash never leaves a partially-written artifact" (artifact_store.py:8): what
\* a name leads to, now or after a loss of power, is never part of an envelope, and
\* nothing is ever outside the approved directory.
ArtifactWhole ==
  \A n \in Names :
    /\ Torn \notin Leftovers(n)
    /\ n \in BadNames => disk[n] = NoFile

\* A read gives what a write left under the name, as it stood when the read began or
\* later, and never what damage has made of it; and it finds fault only with what was
\* damaged, sealed with another key or, of read_json, is no JSON (service.py:79-105, 138-143).
ReadRight ==
  \A t \in Threads :
    /\ reply[t] = "plaintext" => envelope[t].value \in stood[t]
    /\ reply[t] = "decryption_failed" =>
         \/ envelope[t].value # envelope[t].wrote
         \/ envelope[t].sealed # key[t]
         \/ call[t].kind = "read_json" /\ envelope[t].value \notin JsonValues

\* The audit trail tells what was done with a key: no plaintext and no envelope without
\* the two events that say so, in order, and no key withheld without the two that tell of
\* the failure (keys.py:57-67, service.py:63-69, 93-105).  It tells what became of the
\* bytes and not of the call: a read_json of what is no JSON fails when the trail has said
\* that the decryption succeeded (service.py:138-143), and a write whose path or disk is
\* refused fails after its encryption did.
AuditTells ==
  \A t \in Threads :
    LET did == IF call[t].kind = "write" THEN "encrypt_ok" ELSE "decrypt_ok"
        failed == IF call[t].kind = "write" THEN "encrypt_failed" ELSE "decrypt_failed"
        opened == envelope[t].value = envelope[t].wrote /\ envelope[t].sealed = key[t]
    IN
    /\ reply[t] \in {"plaintext", "written", "write_failed"} => trail[t] = <<"secret_ok", did>>
    /\ reply[t] \in {"unavailable", "refused", "missing"} => trail[t] = <<"secret_failed", failed>>
    /\ reply[t] = "malformed" => trail[t] = <<"secret_ok", failed>>
    /\ reply[t] = "decryption_failed" => trail[t] = <<"secret_ok", IF opened THEN did ELSE failed>>
    /\ reply[t] \in {"misconfigured", "not_a_file", "malformed_envelope"} => trail[t] = <<>>
=============================================================================
