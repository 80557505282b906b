--------------------- MODULE InvestigationPipelineProofs ---------------------
(***************************************************************************)
(* What the investigation endpoints promise, for any handlers, clients,    *)
(* citations and drafts and every state of the datasets' files: the safety *)
(* properties of InvestigationPipeline.                                    *)
(*                                                                         *)
(* Why they are kept: _running holds just the clients of the handlers that *)
(* are in the pipeline, a run started later has a higher number, and what  *)
(* a loader's global lacks was lost to a file that is missing or to a      *)
(* failure some request was told of, so whatever the guardrail strips is   *)
(* either not genuine or accounted for.                                    *)
(*                                                                         *)
(* Why a SAR is well redacted: the ends of the pieces, a recursion, differ *)
(* by the sum of the widths in between, a fold that picks its elements in  *)
(* any order, so that the rule for dates looks back just as far as it says;*)
(* every other rule is decided by its piece.  What such recursions compute *)
(* is proved by well-founded induction on a set of numbers (UpTo).         *)
(***************************************************************************)
EXTENDS InvestigationPipeline, FiniteSetTheorems, SequenceTheorems,
        WellFoundedInduction, TLAPS

\* A dataset is known in part only if its file is missing or its loading was told of,
\* and the articles of the GDPR never are.
Accounted(globals, told, on_disk) ==
  /\ \A d \in Datasets :
       globals[d] \in {"unset", "whole"} \/ d \in told \/ on_disk[d] = "absent"
  /\ globals["gdpr"] \in {"unset", "whole"}

LoadsAccounted == Accounted(caches, failed, files)

\* What a run keeps of an answer resolves, and what it loses is accounted for.
Grounded(evidence, lost) ==
  /\ evidence \cap Unresolvable = {}
  /\ \A cite \in lost : DatasetOf[cite] \in failed \/ files[DatasetOf[cite]] = "absent"

\* What an argument cites is about the evidence.
Overlapping(refs, evidence) ==
  \A ref \in refs : \E id \in evidence : ref = id \/ {<<ref, id>>, <<id, ref>>} \cap Overlaps # {}

Fit(result) ==
  /\ Grounded(result.evidence, result.lost)
  /\ Overlapping(result.prosecution \cup result.defense, result.evidence)

\* What each stage holds.
StageFit(r) ==
  /\ request[r].pc \in {"debating", "judging"} =>
       Grounded(request[r].evidence, request[r].lost)
  /\ request[r].pc = "drafting" =>
       /\ Fit(request[r].pending)
       /\ request[r].pending.outcome = "escalate_to_sar"

\* _running is the clients of the handlers in the pipeline, each of which has its own.
RunningListed ==
  /\ running = {request[r].client : r \in {q \in Requests : InPipeline(q)}}
  /\ \A q, r \in Requests :
       InPipeline(q) /\ InPipeline(r) /\ request[q].client = request[r].client => q = r

\* Runs are numbered as they start, so that a run in progress has a higher number than
\* the one its client's result is of.
Numbered ==
  /\ \A c \in DOMAIN results_cache : results_cache[c].run <= posts
  /\ \A r \in Requests : InPipeline(r) =>
       /\ RunOf(r) <= posts
       /\ request[r].client \in DOMAIN results_cache =>
            results_cache[request[r].client].run < RunOf(r)

IInv ==
  /\ TypeOK
  /\ LoadsAccounted
  /\ RunningListed
  /\ Numbered
  /\ \A r \in Requests : StageFit(r)
  /\ ResultFitForReview

-----------------------------------------------------------------------------

\* What a loader leaves in memory is a content; if it is neither the whole nor nothing,
\* it raised or the file is missing.
LEMMA ReadingTold ==
  ASSUME NEW d \in Datasets, NEW file \in Files
  PROVE  LET reading == Reading(d, file) IN
         /\ reading.held \in Contents
         /\ reading.raises \in BOOLEAN
         /\ reading.held \in {"unset", "whole"} \/ reading.raises \/ file = "absent"
         /\ reading.raises \/ reading.held # "unset"
         /\ d = "gdpr" => reading.held \in {"unset", "whole"}
BY DEF Reading, Datasets, Files, Contents, LoadClients, LoadAccounts, LoadTransactions,
       LoadLists, LoadArticles, ReadRows, Read

Memories == [caches : [Datasets -> Contents], raised : SUBSET Datasets]

\* A memory in which each dataset known in part is accounted for, and which holds the
\* articles if they were there.
Told(memory) ==
  /\ memory \in Memories
  /\ Accounted(memory.caches, failed \cup memory.raised, files)
  /\ caches["gdpr"] = "whole" => memory.caches["gdpr"] = "whole"

\* Asking for a dataset keeps the account.
LEMMA LoadTold ==
  ASSUME files \in [Datasets -> Files], NEW memory, Told(memory), NEW d \in Datasets
  PROVE  /\ Told(Load(files, memory, d))
         /\ memory.raised = {} /\ Load(files, memory, d).raised = {} =>
              Load(files, memory, d).caches[d] # "unset"
<1> DEFINE reading == Reading(d, files[d])
           loaded == Load(files, memory, d)
<1>1. CASE memory.raised # {} \/ memory.caches[d] # "unset"
  <2>1. loaded = memory
    BY <1>1 DEF Load
  <2> QED
    BY <1>1, <2>1
<1>2. CASE ~(memory.raised # {} \/ memory.caches[d] # "unset")
  <2>1. loaded = [caches |-> [memory.caches EXCEPT ![d] = reading.held],
                  raised |-> IF reading.raises THEN {d} ELSE {}]
    BY <1>2 DEF Load
  <2>2. /\ reading.held \in Contents
        /\ reading.held \in {"unset", "whole"} \/ reading.raises \/ files[d] = "absent"
        /\ reading.raises \/ reading.held # "unset"
        /\ d = "gdpr" => reading.held \in {"unset", "whole"}
    BY ReadingTold
  <2> HIDE DEF reading
  <2>3. /\ memory \in Memories /\ Accounted(memory.caches, failed \cup memory.raised, files)
        /\ caches["gdpr"] = "whole" => memory.caches["gdpr"] = "whole"
    BY DEF Told
  <2>4. memory.caches \in [Datasets -> Contents]
    BY <2>3 DEF Memories
  <2>5. PICK globals : globals = [memory.caches EXCEPT ![d] = reading.held]
    OBVIOUS
  <2>6. PICK raised : raised = IF reading.raises THEN {d} ELSE {}
    OBVIOUS
  <2>7. globals \in [Datasets -> Contents] /\ raised \in SUBSET Datasets
    BY <2>2, <2>4, <2>5, <2>6
  <2>8. loaded.caches = globals /\ loaded.raised = raised /\ loaded \in Memories
    BY <2>1, <2>5, <2>6, <2>7 DEF Memories
  <2>9. Accounted(globals, failed \cup raised, files)
    <3>1. ASSUME NEW e \in Datasets
          PROVE  /\ \/ globals[e] \in {"unset", "whole"}
                    \/ e \in failed \cup raised \/ files[e] = "absent"
                 /\ e = "gdpr" => globals[e] \in {"unset", "whole"}
      <4>1. CASE e = d
        BY <2>2, <2>4, <2>5, <2>6, <4>1
      <4>2. CASE e # d
        <5>1. globals[e] = memory.caches[e] /\ memory.raised = {}
          BY <1>2, <2>4, <2>5, <4>2
        <5> QED
          BY <2>3, <5>1 DEF Accounted
      <4> QED
        BY <4>1, <4>2
    <3> QED
      BY <3>1 DEF Accounted, Datasets
  <2>10. raised = {} => globals[d] # "unset"
    BY <2>2, <2>4, <2>5, <2>6
  <2>11. caches["gdpr"] = "whole" => globals["gdpr"] = "whole"
    BY <1>2, <2>3, <2>4, <2>5 DEF Datasets
  <2> QED
    BY <2>8, <2>9, <2>10, <2>11 DEF Told
<1> QED
  BY <1>1, <1>2

\* What the state says of the loaders.
LEMMA MemoryTold ==
  ASSUME TypeOK, LoadsAccounted
  PROVE  Told(Memory(caches)) /\ files \in [Datasets -> Files]
<1>1. caches \in [Datasets -> Contents] /\ files \in Deployments
  BY DEF TypeOK
<1>2. Memory(caches).caches = caches /\ Memory(caches).raised = {} /\ Memory(caches) \in Memories
  BY <1>1 DEF Memory, Memories
<1> QED
  BY <1>1, <1>2, DeploymentsAssumption DEF Told, LoadsAccounted, Accounted

LEMMA GatheringTold ==
  ASSUME TypeOK, LoadsAccounted, NEW c
  PROVE  Told(ProfileLookup) /\ Told(Gathered(c)) /\ Told(DemoGathered(c))
<1>1. Told(Memory(caches)) /\ files \in [Datasets -> Files]
  BY MemoryTold
<1>2. "clients" \in Datasets /\ "accounts" \in Datasets /\ "transactions" \in Datasets
      /\ "sanctions" \in Datasets
  BY DEF Datasets
<1>3. Told(ProfileLookup)
  BY <1>1, <1>2, LoadTold DEF ProfileLookup
<1>4. PICK memory : memory = ClientTransactions(files, ProfileLookup, c)
  OBVIOUS
<1>5. Told(memory)
  <2>1. Told(Load(files, ProfileLookup, "accounts"))
    BY <1>1, <1>2, <1>3, LoadTold
  <2>2. Told(Load(files, Load(files, ProfileLookup, "accounts"), "transactions"))
    BY <1>1, <1>2, <2>1, LoadTold
  <2> QED
    BY <1>4, <2>1, <2>2 DEF ClientTransactions
<1>6. Told(Gathered(c))
  BY <1>1, <1>2, <1>4, <1>5, LoadTold DEF Gathered
<1>7. Told(DemoGathered(c))
  <2>1. /\ memory \in Memories /\ Accounted(memory.caches, failed \cup memory.raised, files)
        /\ caches["gdpr"] = "whole" => memory.caches["gdpr"] = "whole"
    BY <1>5 DEF Told
  <2>2. PICK raised : raised = {d \in memory.raised : files[d] # "absent"}
    OBVIOUS
  <2>3. DemoGathered(c) = [memory EXCEPT !.raised = raised]
    BY <1>4, <2>2 DEF DemoGathered
  <2>4. /\ DemoGathered(c) \in Memories
        /\ DemoGathered(c).caches = memory.caches /\ DemoGathered(c).raised = raised
    BY <2>1, <2>2, <2>3 DEF Memories
  <2>5. Accounted(memory.caches, failed \cup raised, files)
    BY <2>1, <2>2 DEF Accounted
  <2> QED
    BY <2>1, <2>4, <2>5 DEF Told
<1> QED
  BY <1>3, <1>6, <1>7

\* Redacting a draft keeps the account, and unless a loader raised, has the articles of
\* what was redacted.
LEMMA RedactionTold ==
  ASSUME TypeOK, LoadsAccounted, NEW memory, Told(memory), NEW draft
  PROVE  LET redacting == Redaction(memory, draft) IN
         /\ Told(redacting)
         /\ redacting.raised = {} => memory.raised = {}
         /\ redacting.raised = {} /\ AsksForArticles(Redacted[draft]) =>
              redacting.caches["gdpr"] = "whole"
<1>1. files \in [Datasets -> Files] /\ "gdpr" \in Datasets
  BY MemoryTold DEF Datasets
<1>2. PICK loaded : loaded = Load(files, memory, "gdpr")
  OBVIOUS
<1>3. /\ Told(loaded)
      /\ memory.raised = {} /\ loaded.raised = {} => loaded.caches["gdpr"] # "unset"
  BY <1>1, <1>2, LoadTold
<1>4. loaded.raised = {} => memory.raised = {}
  BY <1>2 DEF Load
<1>5. loaded.raised = {} => loaded.caches["gdpr"] = "whole"
  BY <1>3, <1>4 DEF Told, Accounted
<1> QED
  BY <1>2, <1>3, <1>4, <1>5 DEF Redaction

\* Looking citations up keeps the account, and unless a loader raised, reads what the
\* citations name.
LEMMA VerificationTold ==
  ASSUME TypeOK, LoadsAccounted, NEW evidence \in SUBSET Citations,
         NEW memory \in Verification(evidence)
  PROVE  /\ Told(memory)
         /\ memory.raised = {} => \A cite \in evidence \ Unchecked :
              DatasetOf[cite] = "clients" \/ memory.caches[DatasetOf[cite]] # "unset"
<1>1. caches \in [Datasets -> Contents] /\ files \in [Datasets -> Files]
  BY MemoryTold DEF TypeOK
<1>2. PICK cites : cites = evidence \ Unchecked
  OBVIOUS
<1>3. PICK sought : sought = Sought(caches, cites)
  OBVIOUS
<1>4. PICK raising : raising = Raising(files, caches, cites)
  OBVIOUS
<1>5. PICK read \in SUBSET sought :
        /\ IF raising = {} THEN read = sought ELSE \E d \in raising : read \cap raising = {d}
        /\ memory = Having(files, caches, read, read \cap raising)
  BY <1>2, <1>3, <1>4 DEF Verification, Consulted
<1>6. \A cite \in cites : DatasetOf[cite] \in Datasets
  BY <1>2, DatasetOfAssumption DEF Citations
<1>7. sought \subseteq Datasets /\ read \cap raising \subseteq Datasets
  BY <1>3, <1>5, <1>6 DEF Sought
<1>8. /\ memory.raised = read \cap raising
      /\ memory.caches = [d \in Datasets |->
           IF d \in read THEN Reading(d, files[d]).held ELSE caches[d]]
      /\ memory = [caches |-> memory.caches, raised |-> read \cap raising]
  BY <1>5 DEF Having
<1>9. memory.caches \in [Datasets -> Contents]
  <2>1. \A d \in Datasets : Reading(d, files[d]).held \in Contents
    BY <1>1, ReadingTold
  <2>2. \A d \in Datasets :
          (IF d \in read THEN Reading(d, files[d]).held ELSE caches[d]) \in Contents
    BY <1>1, <2>1
  <2> QED
    BY <1>8, <2>2
<1>10. memory \in Memories
  BY <1>7, <1>8, <1>9 DEF Memories
<1>11. Accounted(memory.caches, failed \cup memory.raised, files)
  <2>1. ASSUME NEW d \in Datasets
        PROVE  /\ \/ memory.caches[d] \in {"unset", "whole"}
                  \/ d \in failed \cup memory.raised \/ files[d] = "absent"
               /\ d = "gdpr" => memory.caches[d] \in {"unset", "whole"}
    <3>1. CASE d \in read
      <4>1. memory.caches[d] = Reading(d, files[d]).held
        BY <1>8, <3>1
      <4>2. Reading(d, files[d]).raises => d \in memory.raised
        BY <1>4, <1>3, <1>5, <1>8, <3>1 DEF Raising
      <4> QED
        BY <1>1, <4>1, <4>2, ReadingTold
    <3>2. CASE d \notin read
      <4>1. memory.caches[d] = caches[d]
        BY <1>8, <3>2
      <4> QED
        BY <4>1 DEF LoadsAccounted, Accounted
    <3> QED
      BY <3>1, <3>2
  <2> QED
    BY <2>1 DEF Accounted, Datasets
<1>12. ASSUME memory.raised = {}, NEW cite \in cites
       PROVE  DatasetOf[cite] = "clients" \/ memory.caches[DatasetOf[cite]] # "unset"
  <2>1. raising = {} /\ read = sought
    BY <1>5, <1>8, <1>12
  <2>2. PICK d \in Datasets : d = DatasetOf[cite]
    BY <1>6
  <2>3. memory.caches[d] = IF d \in sought THEN Reading(d, files[d]).held ELSE caches[d]
    BY <1>8, <2>1
  <2>4. CASE d \in sought
    <3>1. ~Reading(d, files[d]).raises
      BY <1>3, <1>4, <2>1, <2>4 DEF Raising
    <3> QED
      BY <1>1, <2>2, <2>3, <2>4, <3>1, ReadingTold
  <2>5. CASE d \notin sought
    BY <1>3, <2>2, <2>3, <2>5 DEF Sought
  <2> QED
    BY <2>4, <2>5
<1>13. caches["gdpr"] = "whole" => memory.caches["gdpr"] = "whole"
  BY <1>3, <1>5, <1>8 DEF Sought, Datasets
<1> QED
  BY <1>2, <1>10, <1>11, <1>12, <1>13 DEF Told

LEMMA RememberTold ==
  ASSUME TypeOK, NEW memory, Told(memory), Remember(memory), UNCHANGED files
  PROVE  /\ caches' \in [Datasets -> Contents] /\ failed' \subseteq Datasets
         /\ LoadsAccounted'
         /\ caches["gdpr"] = "whole" => caches'["gdpr"] = "whole"
<1>1. caches' = memory.caches /\ failed' = failed \cup memory.raised /\ files' = files
  BY DEF Remember
<1>2. /\ memory.caches \in [Datasets -> Contents] /\ memory.raised \subseteq Datasets
      /\ Accounted(memory.caches, failed \cup memory.raised, files)
      /\ caches["gdpr"] = "whole" => memory.caches["gdpr"] = "whole"
  BY DEF Told, Memories
<1>3. failed \subseteq Datasets
  BY DEF TypeOK
<1> QED
  BY <1>1, <1>2, <1>3 DEF LoadsAccounted, Accounted

\* What is verified resolves or cannot be checked.
LEMMA VerifiedResolves ==
  ASSUME NEW held, NEW evidence \in SUBSET Citations
  PROVE  /\ Verified(held, evidence) \subseteq evidence
         /\ Verified(held, evidence) \cap Unresolvable = {}
         /\ Lost(held, evidence) \subseteq Resolvable
BY CitationsAssumption DEF Verified, Lost, Resolves

\* A genuine citation is stripped only if its dataset is known in part.
LEMMA LostAccounted ==
  ASSUME TypeOK, LoadsAccounted, NEW evidence \in SUBSET Citations,
         NEW memory \in Verification(evidence), memory.raised = {},
         NEW cite \in Lost(memory.caches, evidence)
  PROVE  DatasetOf[cite] \in failed \/ files[DatasetOf[cite]] = "absent"
<1>1. cite \in evidence /\ cite \in Resolvable /\ cite \notin Unchecked
      /\ ~Resolves(memory.caches, cite)
  BY DEF Lost, Verified
<1>2. PICK d \in Datasets : d = DatasetOf[cite]
  BY <1>1, DatasetOfAssumption
<1>3. d # "clients" /\ memory.caches[d] # "whole"
  BY <1>1, <1>2 DEF Resolves
<1>4. Told(memory) /\ memory.caches[d] # "unset"
  BY <1>1, <1>2, <1>3, VerificationTold
<1> QED
  BY <1>2, <1>3, <1>4 DEF Told, Accounted

-----------------------------------------------------------------------------
\* The rules are six.
LEMMA RulesAsListed ==
  /\ DOMAIN Rules = 1..6
  /\ /\ Rules[1].matches = {"date"} /\ Rules[2].matches = {"ssn"}
     /\ Rules[3].matches = {"passport", "mixed"} /\ Rules[4].matches = {"email", "mixed"}
     /\ Rules[5].matches = {"phone"} /\ Rules[6].matches = {"digits"}
  /\ /\ Rules[1].replacement = "DOB_REDACTED" /\ Rules[2].replacement = "NATIONAL_ID_REDACTED"
     /\ Rules[3].replacement = "PASSPORT_REDACTED" /\ Rules[4].replacement = "EMAIL_REDACTED"
     /\ Rules[5].replacement = "PHONE_REDACTED" /\ Rules[6].replacement = "ACCT_REDACTED"
  /\ \A k \in 1..6 : Rules[k].article = IF k \in {2, 3} THEN "article9" ELSE "article5"
<1>1. \A k \in 1..6 : k = 1 \/ k = 2 \/ k = 3 \/ k = 4 \/ k = 5 \/ k = 6
  OBVIOUS
<1> QED
  BY <1>1 DEF Rules

\* Each names a placeholder and an article.
LEMMA RulesTyped ==
  ASSUME NEW k \in DOMAIN Rules
  PROVE  /\ k \in 1..6
         /\ Rules[k].replacement \in Pieces
         /\ Rules[k].article \in {"article5", "article9"}
<1>1. k \in 1..6 /\ Rules[k].article \in {"article5", "article9"}
  BY RulesAsListed
<1>2. k = 1 \/ k = 2 \/ k = 3 \/ k = 4 \/ k = 5 \/ k = 6
  BY <1>1
<1>3. Rules[k].replacement \in Pieces
  BY <1>2, RulesAsListed DEF Pieces, Length
<1> QED
  BY <1>1, <1>3

\* A set of numbers of rules has a least one.
LEMMA FirstRule ==
  ASSUME NEW S \in SUBSET (1..6), S # {}
  PROVE  Min(S) \in S
<1>1. \E k \in S : \A n \in S : k <= n
  <2>1. CASE 1 \in S
    BY <2>1
  <2>2. CASE 1 \notin S /\ 2 \in S
    BY <2>2
  <2>3. CASE 1 \notin S /\ 2 \notin S /\ 3 \in S
    BY <2>3
  <2>4. CASE 1 \notin S /\ 2 \notin S /\ 3 \notin S /\ 4 \in S
    BY <2>4
  <2>5. CASE 1 \notin S /\ 2 \notin S /\ 3 \notin S /\ 4 \notin S /\ 5 \in S
    BY <2>5
  <2>6. CASE 1 \notin S /\ 2 \notin S /\ 3 \notin S /\ 4 \notin S /\ 5 \notin S
    <3>1. \A n \in S : n = 6
      BY <2>6
    <3>2. 6 \in S
      BY <3>1
    <3> QED
      BY <3>1, <3>2
  <2> QED
    BY <2>1, <2>2, <2>3, <2>4, <2>5, <2>6
<1> QED
  BY <1>1 DEF Min

\* A redacted text is a text.
LEMMA RedactTextTyped ==
  ASSUME NEW text \in Seq(Pieces)
  PROVE  redact_text(text) \in Seq(Pieces)
<1>1. ASSUME NEW i \in DOMAIN text
      PROVE  (IF Matching(text, i) = {} THEN text[i]
              ELSE Rules[Min(Matching(text, i))].replacement) \in Pieces
  <2>1. text[i] \in Pieces
    OBVIOUS
  <2>2. CASE Matching(text, i) # {}
    <3>1. \A k \in Matching(text, i) : k \in DOMAIN Rules
      BY DEF Matching
    <3>2. Matching(text, i) \in SUBSET (1..6)
      BY <3>1, RulesTyped
    <3>3. Min(Matching(text, i)) \in DOMAIN Rules
      BY <2>2, <3>1, <3>2, FirstRule
    <3>4. Rules[Min(Matching(text, i))].replacement \in Pieces
      BY <3>3, RulesTyped
    <3> QED
      BY <2>1, <3>4
  <2> QED
    BY <2>1, <2>2
<1>2. PICK redacted : redacted = redact_text(text)
  OBVIOUS
<1>3. redacted \in [1..Len(text) -> Pieces]
  BY <1>1, <1>2 DEF redact_text
<1>4. Len(text) \in Nat
  OBVIOUS
<1> QED
  BY <1>2, <1>3, <1>4

LEMMA ChangesCounted ==
  ASSUME NEW text \in Seq(Pieces), NEW after
  PROVE  Cardinality(Changed(text, after)) \in Nat
<1>1. Changed(text, after) \subseteq 1..Len(text) /\ Len(text) \in Nat
  BY DEF Changed
<1>2. IsFiniteSet(1..Len(text))
  BY <1>1, FS_Interval
<1>3. IsFiniteSet(Changed(text, after))
  BY <1>1, <1>2, FS_Subset
<1> QED
  BY <1>3, FS_CardinalityType

\* A redacted draft has the type of a text that is served.
LEMMA RedactSarTyped ==
  ASSUME NEW draft,
         draft \in [subject : Seq(Pieces), narrative : Seq(Pieces), flags : SUBSET Pieces,
                    basis : SUBSET {"generic", "article5", "article9"}]
  PROVE  redact_sar(draft) \in TextType
<1>1. /\ draft.subject \in Seq(Pieces) /\ draft.narrative \in Seq(Pieces)
      /\ draft.flags \subseteq Pieces
      /\ draft.basis \subseteq {"generic", "article5", "article9"}
  OBVIOUS
<1>2. PICK subject \in Seq(Pieces) : subject = redact_text(draft.subject)
  BY <1>1, RedactTextTyped
<1>3. PICK narrative \in Seq(Pieces) : narrative = redact_text(draft.narrative)
  BY <1>1, RedactTextTyped
<1>4. PICK flags \in SUBSET Pieces : flags = mask_account_in_list(draft.flags)
  <2>1. "ACCT_REDACTED" = Rules[6].replacement /\ 6 \in DOMAIN Rules
    BY DEF Rules
  <2>2. "ACCT_REDACTED" \in Pieces
    BY <2>1, RulesTyped
  <2> QED
    BY <1>1, <2>2 DEF mask_account_in_list
<1>5. \A before, after : ArticlesFor(before, after) \subseteq {"article5", "article9"}
  BY RulesTyped DEF ArticlesFor
<1>6. PICK basis \in SUBSET {"generic", "article5", "article9"} :
        basis = draft.basis \cup ArticlesFor(draft.subject, subject)
                            \cup ArticlesFor(draft.narrative, narrative)
  BY <1>1, <1>5
<1>7. PICK redactions \in Nat :
        redactions = Cardinality(Changed(draft.subject, subject))
                       + Cardinality(Changed(draft.narrative, narrative))
  <2>1. /\ Cardinality(Changed(draft.subject, subject)) \in Nat
        /\ Cardinality(Changed(draft.narrative, narrative)) \in Nat
    BY <1>1, ChangesCounted
  <2> QED
    BY <2>1
<1>8. redact_sar(draft) = [subject |-> subject, narrative |-> narrative, flags |-> flags,
                           basis |-> basis, redactions |-> redactions]
  BY <1>2, <1>3, <1>4, <1>6, <1>7 DEF redact_sar
<1> QED
  BY <1>8 DEF TextType

\* So is every draft, of the model or of the demo.
LEMMA DraftsTyped ==
  ASSUME NEW draft \in AllDrafts
  PROVE  draft \in [subject : Seq(Pieces), narrative : Seq(Pieces), flags : SUBSET Pieces,
                    basis : SUBSET {"generic", "article5", "article9"}]
<1>1. CASE draft \in Drafts
  BY <1>1, DraftsAssumption
<1>2. CASE draft \in {demo_sar(evidence) : evidence \in SUBSET Citations}
  <2>1. PICK evidence \in SUBSET Citations : draft = demo_sar(evidence)
    BY <1>2
  <2>2. "word" \in Pieces /\ "digits" \in Pieces
    BY DEF Pieces, Length
  <2>3. /\ <<"word">> \in Seq(Pieces) /\ <<"digits">> \in Seq(Pieces)
        /\ <<>> \in Seq(Pieces)
    BY <2>2
  <2>4. PICK more \in Seq(Pieces) :
          more = IF evidence \cap Accounts = {} THEN <<>> ELSE <<"digits">>
    <3>1. CASE evidence \cap Accounts = {}
      BY <2>3, <3>1
    <3>2. CASE evidence \cap Accounts # {}
      BY <2>3, <3>2
    <3> QED
      BY <3>1, <3>2
  <2>5. PICK narrative \in Seq(Pieces) : narrative = <<"word">> \o more
    BY <2>3, <2>4, ConcatProperties
  <2>6. draft = [subject |-> <<"word">>, narrative |-> narrative, flags |-> {"word"},
                 basis |-> {"generic"}]
    BY <2>1, <2>4, <2>5 DEF demo_sar
  <2> QED
    BY <2>2, <2>3, <2>6
<1> QED
  BY <1>1, <1>2 DEF AllDrafts

LEMMA RedactedTyped ==
  ASSUME NEW draft \in AllDrafts
  PROVE  Redacted[draft] \in TextType
BY DraftsTyped, RedactSarTyped DEF Redacted

LEMMA SarTyped ==
  ASSUME NEW held, NEW appendix \in SUBSET Citations, NEW draft \in AllDrafts
  PROVE  /\ Sar(held, appendix, draft) \in SarType
         /\ Sar(held, appendix, draft).drafted
         /\ Sar(held, appendix, draft).appendix \cap Unresolvable = {}
<1>1. PICK verified : verified = Verified(held, appendix)
  OBVIOUS
<1>2. verified \in SUBSET Citations /\ verified \cap Unresolvable = {}
  BY <1>1, VerifiedResolves
<1>3. PICK text \in TextType : text = Redacted[draft]
  BY RedactedTyped
<1>4. Sar(held, appendix, draft) =
        [drafted |-> TRUE, appendix |-> verified, text |-> text, draft |-> draft]
  BY <1>1, <1>3 DEF Sar
<1> QED
  BY <1>2, <1>4 DEF SarType

-----------------------------------------------------------------------------
\* What the stage of a handler says about it.
LEMMA StageTyped ==
  ASSUME TypeOK, NEW r \in Requests
  PROVE  /\ request[r].pc \in {"idle", "investigating", "debating", "judging", "drafting"}
         /\ request[r].pc = "idle" => request[r] = Idle
         /\ InPipeline(r) <=> request[r].pc # "idle"
         /\ InPipeline(r) => request[r].client \in Clients \cup BuiltIn /\ RunOf(r) \in 1..MaxPosts
         /\ request[r].pc \in {"debating", "judging"} =>
              /\ request[r].evidence \subseteq Citations /\ request[r].lost \subseteq Resolvable
              /\ request[r].prosecution \subseteq Citations
              /\ request[r].defense \subseteq Citations
              /\ request[r].awaited \subseteq {"prosecution", "defense"}
         /\ request[r].pc = "drafting" => request[r].pending \in ResultType
<1>1. request[r] \in RequestType
  BY DEF TypeOK
<1>2. CASE request[r] = Idle
  BY <1>2 DEF Idle, InPipeline
<1>3. CASE request[r] \in [pc : {"investigating"}, client : Clients \cup BuiltIn,
                           run : 1..MaxPosts]
  BY <1>3 DEF InPipeline, RunOf
<1>4. CASE request[r] \in
             [pc : {"debating", "judging"}, client : Clients \cup BuiltIn, run : 1..MaxPosts,
              evidence : SUBSET Citations, lost : SUBSET Resolvable,
              prosecution : SUBSET Citations, defense : SUBSET Citations,
              awaited : SUBSET {"prosecution", "defense"}]
  BY <1>4 DEF InPipeline, RunOf
<1>5. CASE request[r] \in [pc : {"drafting"}, client : Clients \cup BuiltIn,
                           pending : ResultType]
  <2>1. request[r].pending \in ResultType
    BY <1>5
  <2>2. request[r].pending.run \in 1..MaxPosts
    BY <2>1 DEF ResultType
  <2>3. request[r].pc = "drafting" /\ request[r].client \in Clients \cup BuiltIn
    BY <1>5
  <2> QED
    BY <2>1, <2>2, <2>3 DEF InPipeline, RunOf
<1> QED
  BY <1>1, <1>2, <1>3, <1>4, <1>5 DEF RequestType

\* A step changes one handler.
LEMMA OthersKept ==
  ASSUME TypeOK, NEW r \in Requests, NEW stage \in RequestType,
         request' = [request EXCEPT ![r] = stage]
  PROVE  /\ request' \in [Requests -> RequestType]
         /\ request'[r] = stage
         /\ \A q \in Requests : q # r => request'[q] = request[q]
BY DEF TypeOK

LEMMA IdleTyped == Idle \in RequestType
BY DEF RequestType

\* A run that goes on stays listed, under its number.
LEMMA RunGoesOn ==
  ASSUME TypeOK, RunningListed, Numbered, NEW r \in Requests, InPipeline(r),
         NEW stage \in RequestType, request' = [request EXCEPT ![r] = stage],
         stage.client = request[r].client,
         InPipeline(r)', RunOf(r)' = RunOf(r),
         UNCHANGED <<running, results_cache, posts>>
  PROVE  RunningListed' /\ Numbered'
<1>1. request'[r] = stage /\ \A q \in Requests : q # r => request'[q] = request[q]
  BY OthersKept
<1>2. \A q \in Requests : /\ InPipeline(q)' <=> InPipeline(q)
                          /\ InPipeline(q) => request'[q].client = request[q].client
                          /\ RunOf(q)' = RunOf(q)
  <2> TAKE q \in Requests
  <2>1. CASE q = r
    BY <1>1, <2>1
  <2>2. CASE q # r
    BY <1>1, <2>2 DEF InPipeline, RunOf
  <2> QED
    BY <2>1, <2>2
<1>3. RunningListed'
  <2>1. {request'[q].client : q \in {p \in Requests : InPipeline(p)'}}
          = {request[q].client : q \in {p \in Requests : InPipeline(p)}}
    BY <1>2
  <2> QED
    BY <1>2, <2>1 DEF RunningListed
<1>4. Numbered'
  BY <1>2 DEF Numbered
<1> QED
  BY <1>3, <1>4

\* A run that ends is listed no more; its result, if it has one, is the newest of its
\* client.
LEMMA RunEnds ==
  ASSUME TypeOK, RunningListed, Numbered, NEW r \in Requests, InPipeline(r),
         running' = running \ {request[r].client},
         request' = [request EXCEPT ![r] = Idle], UNCHANGED posts,
         \A c \in DOMAIN results_cache' :
           IF c = request[r].client
           THEN results_cache'[c].run = RunOf(r) \/ (c \in DOMAIN results_cache
                                                  /\ results_cache'[c] = results_cache[c])
           ELSE c \in DOMAIN results_cache /\ results_cache'[c] = results_cache[c]
  PROVE  RunningListed' /\ Numbered'
<1>1. request'[r] = Idle /\ \A q \in Requests : q # r => request'[q] = request[q]
  BY IdleTyped, OthersKept
<1>2. \A q \in Requests : InPipeline(q)' <=> (InPipeline(q) /\ q # r)
  <2> TAKE q \in Requests
  <2>1. CASE q = r
    BY <1>1, <2>1 DEF InPipeline, Idle
  <2>2. CASE q # r
    BY <1>1, <2>2 DEF InPipeline
  <2> QED
    BY <2>1, <2>2
<1>3. \A q \in Requests : InPipeline(q) /\ q # r =>
        /\ request'[q].client = request[q].client
        /\ request[q].client # request[r].client
        /\ RunOf(q)' = RunOf(q)
  BY <1>1 DEF RunningListed, RunOf
<1>4. RunningListed'
  <2>1. {request'[q].client : q \in {p \in Requests : InPipeline(p)'}}
          = {request[q].client : q \in {p \in Requests : InPipeline(p)}} \ {request[r].client}
    BY <1>2, <1>3
  <2> QED
    BY <1>2, <1>3, <2>1 DEF RunningListed
<1>5. Numbered'
  <2>1. RunOf(r) <= posts /\ posts' = posts
    BY DEF Numbered
  <2>2. \A c \in DOMAIN results_cache' : results_cache'[c].run <= posts'
    BY <2>1 DEF Numbered
  <2>3. ASSUME NEW q \in Requests, InPipeline(q)'
        PROVE  /\ RunOf(q)' <= posts'
               /\ request'[q].client \in DOMAIN results_cache' =>
                    results_cache'[request'[q].client].run < RunOf(q)'
    <3>1. InPipeline(q) /\ q # r
      BY <1>2, <2>3
    <3>2. /\ request'[q].client = request[q].client
          /\ request[q].client # request[r].client
          /\ RunOf(q)' = RunOf(q)
      BY <1>3, <3>1
    <3> QED
      BY <2>1, <3>1, <3>2 DEF Numbered
  <2> QED
    BY <2>2, <2>3 DEF Numbered
<1> QED
  BY <1>4, <1>5

\* A run that begins is listed, under the highest number yet.
LEMMA RunBegins ==
  ASSUME TypeOK, RunningListed, Numbered, NEW r \in Requests, request[r].pc = "idle",
         NEW c \in Clients \cup BuiltIn, c \notin running, posts < MaxPosts, posts' = posts + 1,
         running' = running \cup {c}, request' = Begun(r, c), UNCHANGED results_cache
  PROVE  request' \in [Requests -> RequestType] /\ RunningListed' /\ Numbered'
<1>1. posts \in Nat /\ MaxPosts \in Nat /\ posts + 1 \in 1..MaxPosts
  BY BoundsAssumption DEF TypeOK
<1>2. PICK stage : stage = [pc |-> "investigating", client |-> c, run |-> posts + 1]
  OBVIOUS
<1>3. stage \in RequestType
  BY <1>1, <1>2 DEF RequestType
<1>4. request' = [request EXCEPT ![r] = stage]
  BY <1>2 DEF Begun
<1>5. /\ request' \in [Requests -> RequestType]
      /\ request'[r] = stage /\ \A q \in Requests : q # r => request'[q] = request[q]
  BY <1>3, <1>4, OthersKept
<1>6. ~InPipeline(r) /\ InPipeline(r)' /\ request'[r].client = c /\ RunOf(r)' = posts + 1
  BY <1>2, <1>5 DEF InPipeline, RunOf
<1>7. \A q \in Requests : q # r =>
        /\ InPipeline(q)' <=> InPipeline(q)
        /\ request'[q].client = request[q].client
        /\ RunOf(q)' = RunOf(q)
  BY <1>5 DEF InPipeline, RunOf
<1>8. \A q \in Requests : InPipeline(q) => request[q].client # c
  BY DEF RunningListed
<1>9. RunningListed'
  <2>1. {request'[q].client : q \in {p \in Requests : InPipeline(p)'}}
          = {request[q].client : q \in {p \in Requests : InPipeline(p)}} \cup {c}
    BY <1>6, <1>7
  <2> QED
    BY <1>6, <1>7, <1>8, <2>1 DEF RunningListed
<1>10. Numbered'
  <2>1. \A d \in DOMAIN results_cache : results_cache[d].run \in 1..MaxPosts
    BY DEF TypeOK, ResultType
  <2>2. \A d \in DOMAIN results_cache' : results_cache'[d].run <= posts'
    BY <1>1, <2>1 DEF Numbered
  <2>3. ASSUME NEW q \in Requests, InPipeline(q)'
        PROVE  /\ RunOf(q)' <= posts'
               /\ request'[q].client \in DOMAIN results_cache' =>
                    results_cache'[request'[q].client].run < RunOf(q)'
    <3>1. CASE q = r
      BY <1>1, <1>6, <2>1, <3>1 DEF Numbered
    <3>2. CASE q # r
      <4>1. InPipeline(q) /\ request'[q].client = request[q].client /\ RunOf(q)' = RunOf(q)
        BY <1>7, <2>3, <3>2
      <4>2. RunOf(q) \in 1..MaxPosts
        BY <4>1, StageTyped
      <4> QED
        BY <1>1, <4>1, <4>2 DEF Numbered
    <3> QED
      BY <3>1, <3>2
  <2> QED
    BY <2>2, <2>3 DEF Numbered
<1> QED
  BY <1>5, <1>9, <1>10

\* Nothing of the runs changes.
LEMMA RunsKept ==
  ASSUME TypeOK, RunningListed, Numbered, UNCHANGED <<running, request, results_cache>>,
         posts' \in {posts, posts + 1}
  PROVE  RunningListed' /\ Numbered'
<1>1. posts \in Nat /\ posts <= posts'
  BY DEF TypeOK
<1>2. \A q \in Requests : (InPipeline(q)' <=> InPipeline(q)) /\ RunOf(q)' = RunOf(q)
  BY DEF InPipeline, RunOf
<1>3. RunningListed'
  BY <1>2 DEF RunningListed
<1>4. \A d \in DOMAIN results_cache : results_cache[d].run \in 1..MaxPosts
  BY DEF TypeOK, ResultType
<1>5. \A q \in Requests : InPipeline(q) => RunOf(q) \in 1..MaxPosts
  BY StageTyped
<1>6. Numbered'
  BY <1>1, <1>2, <1>4, <1>5 DEF Numbered
<1> QED
  BY <1>3, <1>6

-----------------------------------------------------------------------------
\* What an officer may review, of one result.
Reviewable(result) ==
  /\ Fit(result)
  /\ result.sar.drafted <=> result.outcome = "escalate_to_sar"
  /\ result.sar.drafted => result.sar.appendix \cap Unresolvable = {}

LEMMA AllReviewable ==
  ResultFitForReview <=> \A c \in DOMAIN results_cache : Reviewable(results_cache[c])
BY DEF ResultFitForReview, Reviewable, Fit, Overlapping, Grounded

\* What was accounted for stays so until the process ends.
LEMMA AccountKept ==
  ASSUME failed \subseteq failed', UNCHANGED files
  PROVE  /\ \A evidence, lost : Grounded(evidence, lost) => Grounded(evidence, lost)'
         /\ \A result : Fit(result) => Fit(result)'
         /\ \A result : Reviewable(result) => Reviewable(result)'
         /\ \A q \in Requests :
              StageFit(q) /\ request'[q] = request[q] => StageFit(q)'
         /\ ResultFitForReview /\ UNCHANGED results_cache => ResultFitForReview'
<1>1. \A evidence, lost : Grounded(evidence, lost) => Grounded(evidence, lost)'
  BY DEF Grounded
<1>2. \A result : Fit(result) => Fit(result)'
  BY DEF Grounded, Fit, Overlapping
<1>3. \A result : Reviewable(result) => Reviewable(result)'
  BY <1>2 DEF Reviewable
<1>4. ASSUME NEW q \in Requests, StageFit(q), request'[q] = request[q]
      PROVE  StageFit(q)'
  <2>1. PICK stage : stage = request[q] /\ stage = request'[q]
    BY <1>4
  <2>2. stage.pc \in {"debating", "judging"} => Grounded(stage.evidence, stage.lost)'
    BY <1>1, <1>4, <2>1 DEF StageFit
  <2>3. stage.pc = "drafting" =>
          Fit(stage.pending)' /\ stage.pending.outcome = "escalate_to_sar"
    BY <1>2, <1>4, <2>1 DEF StageFit
  <2> QED
    BY <2>1, <2>2, <2>3 DEF StageFit, Grounded, Fit, Overlapping
<1>5. ASSUME ResultFitForReview, UNCHANGED results_cache
      PROVE  ResultFitForReview'
  BY <1>5 DEF ResultFitForReview
<1> QED
  BY <1>1, <1>2, <1>3, <1>4, <1>5

\* An argument keeps none but its own references, and those that are about the evidence.
LEMMA RefsVerified ==
  ASSUME NEW refs \in SUBSET Citations, NEW evidence
  PROVE  /\ VerifiedRefs(refs, evidence) \subseteq Citations
         /\ Overlapping(VerifiedRefs(refs, evidence), evidence)
BY DEF VerifiedRefs, Overlapping

-----------------------------------------------------------------------------
\* The server starts with the invariant.
THEOREM InitInvariant == Init => IInv
<1> SUFFICES ASSUME Init PROVE IInv
  OBVIOUS
<1>1. TypeOK
  <2>1. caches \in [Datasets -> Contents]
    BY DEF Init, Unset, Contents
  <2>2. request \in [Requests -> RequestType]
    BY IdleTyped DEF Init
  <2> QED
    BY <2>1, <2>2, BoundsAssumption DEF Init, TypeOK
<1>2. LoadsAccounted
  BY DEF Init, Unset, LoadsAccounted, Accounted, Datasets
<1>3. \A r \in Requests : request[r].pc = "idle"
  BY DEF Init, Idle
<1>4. RunningListed /\ Numbered
  BY <1>3 DEF Init, RunningListed, Numbered, InPipeline
<1>5. \A r \in Requests : StageFit(r)
  BY <1>3 DEF StageFit
<1>6. ResultFitForReview
  BY DEF Init, ResultFitForReview
<1> QED
  BY <1>1, <1>2, <1>4, <1>5, <1>6 DEF IInv

\* The rest of the type invariant, when the loaders' memory has been typed.
LEMMA TypeKept ==
  ASSUME TypeOK, UNCHANGED <<settings, restarts>>,
         caches' \in [Datasets -> Contents], failed' \subseteq Datasets,
         posts' = posts \/ (posts < MaxPosts /\ posts' = posts + 1),
         running' \subseteq Clients \cup BuiltIn, request' \in [Requests -> RequestType],
         DOMAIN results_cache' \subseteq Clients \cup BuiltIn,
         \A c \in DOMAIN results_cache' : results_cache'[c] \in ResultType
  PROVE  TypeOK'
<1>1. posts' \in 0..MaxPosts
  BY BoundsAssumption DEF TypeOK
<1> QED
  BY <1>1 DEF TypeOK, settings

LEMMA ListClientsKeeps ==
  ASSUME IInv, ListClients
  PROVE  IInv'
<1>1. Told(ProfileLookup) /\ Remember(ProfileLookup)
      /\ UNCHANGED <<running, results_cache, request, posts, settings, restarts>>
  BY GatheringTold DEF IInv, ListClients
<1>2. caches' \in [Datasets -> Contents] /\ failed' \subseteq Datasets /\ LoadsAccounted'
  BY <1>1, RememberTold DEF IInv, settings
<1>3. TypeOK'
  BY <1>1, <1>2, TypeKept DEF IInv, TypeOK
<1>4. RunningListed' /\ Numbered'
  BY <1>1, RunsKept DEF IInv
<1>5. failed \subseteq failed'
  BY <1>1 DEF Remember
<1>6. (\A r \in Requests : StageFit(r)') /\ ResultFitForReview'
  BY <1>1, <1>5, AccountKept DEF IInv, settings
<1> QED
  BY <1>2, <1>3, <1>4, <1>6 DEF IInv

LEMMA PostKeeps ==
  ASSUME IInv, NEW r \in Requests, NEW c \in Clients \cup Strangers, Post(r, c)
  PROVE  IInv'
<1>1. PICK memory : Told(memory) /\ Remember(memory)
  BY GatheringTold DEF IInv, Post
<1>2. request[r].pc = "idle" /\ posts < MaxPosts /\ posts' = posts + 1
      /\ UNCHANGED <<results_cache, settings, restarts>>
  BY DEF Post
<1>3. caches' \in [Datasets -> Contents] /\ failed' \subseteq Datasets /\ LoadsAccounted'
      /\ failed \subseteq failed'
  BY <1>1, <1>2, RememberTold DEF IInv, settings, Remember
<1>4. \/ UNCHANGED <<running, request>>
      \/ /\ Profiled(ProfileLookup.caches, c) /\ c \notin running
         /\ running' = running \cup {c} /\ request' = Begun(r, c)
  BY DEF Post
<1>5. CASE UNCHANGED <<running, request>>
  <2>1. TypeOK'
    BY <1>2, <1>3, <1>5, TypeKept DEF IInv, TypeOK
  <2>2. RunningListed' /\ Numbered'
    BY <1>2, <1>5, RunsKept DEF IInv
  <2>3. (\A q \in Requests : StageFit(q)') /\ ResultFitForReview'
    BY <1>2, <1>3, <1>5, AccountKept DEF IInv, settings
  <2> QED
    BY <1>3, <2>1, <2>2, <2>3 DEF IInv
<1>6. CASE /\ Profiled(ProfileLookup.caches, c) /\ c \notin running
           /\ running' = running \cup {c} /\ request' = Begun(r, c)
  <2>1. c \in Clients \cup BuiltIn
    BY <1>6 DEF Profiled
  <2>2. request' \in [Requests -> RequestType] /\ RunningListed' /\ Numbered'
    BY <1>2, <1>6, <2>1, RunBegins DEF IInv
  <2>3. TypeOK'
    BY <1>2, <1>3, <1>6, <2>1, <2>2, TypeKept DEF IInv, TypeOK
  <2>4. ASSUME NEW q \in Requests
        PROVE  StageFit(q)'
    <3>1. CASE q = r
      <4>1. request'[q].pc = "investigating"
        BY <1>6, <3>1 DEF Begun, IInv, TypeOK
      <4> QED
        BY <4>1 DEF StageFit
    <3>2. CASE q # r
      <4>1. request'[q] = request[q]
        BY <1>6, <3>2 DEF Begun, IInv, TypeOK
      <4> QED
        BY <1>2, <1>3, <4>1, AccountKept DEF IInv, settings
    <3> QED
      BY <3>1, <3>2
  <2>5. ResultFitForReview'
    BY <1>2, <1>3, AccountKept DEF IInv, settings
  <2> QED
    BY <1>3, <2>2, <2>3, <2>4, <2>5 DEF IInv
<1> QED
  BY <1>4, <1>5, <1>6

\* A handler goes on to its next stage: what the steps inside the pipeline share.
LEMMA StageKeeps ==
  ASSUME IInv, NEW r \in Requests, InPipeline(r), NEW stage \in RequestType,
         request' = [request EXCEPT ![r] = stage], stage.client = request[r].client,
         InPipeline(r)', RunOf(r)' = RunOf(r), StageFit(r)',
         UNCHANGED <<running, results_cache, posts, settings, restarts>>,
         caches' \in [Datasets -> Contents], failed' \subseteq Datasets, LoadsAccounted',
         failed \subseteq failed'
  PROVE  IInv'
<1>1. RunningListed' /\ Numbered'
  BY RunGoesOn DEF IInv
<1>2. request' \in [Requests -> RequestType] /\ \A q \in Requests : q # r => request'[q] = request[q]
  BY OthersKept DEF IInv
<1>3. TypeOK'
  BY <1>2, TypeKept DEF IInv, TypeOK
<1>4. \A q \in Requests : StageFit(q)'
  BY <1>2, AccountKept DEF IInv, settings
<1>5. ResultFitForReview'
  BY AccountKept DEF IInv, settings
<1> QED
  BY <1>1, <1>3, <1>4, <1>5 DEF IInv

\* A handler leaves the pipeline, with a result or without.
LEMMA EndKeeps ==
  ASSUME IInv, NEW r \in Requests, InPipeline(r), NEW result,
         running' = running \ {request[r].client}, request' = [request EXCEPT ![r] = Idle],
         \/ UNCHANGED results_cache
         \/ /\ result \in ResultType /\ result.run = RunOf(r) /\ Reviewable(result)'
            /\ results_cache' = [c \in DOMAIN results_cache \cup {request[r].client} |->
                 IF c = request[r].client THEN result ELSE results_cache[c]],
         UNCHANGED <<posts, settings, restarts>>,
         caches' \in [Datasets -> Contents], failed' \subseteq Datasets, LoadsAccounted',
         failed \subseteq failed'
  PROVE  IInv'
<1>1. TypeOK /\ request[r].client \in Clients \cup BuiltIn
  BY StageTyped DEF IInv
<1>2. /\ DOMAIN results_cache' \subseteq DOMAIN results_cache \cup {request[r].client}
      /\ \A c \in DOMAIN results_cache' :
           \/ c \in DOMAIN results_cache /\ results_cache'[c] = results_cache[c]
           \/ /\ c = request[r].client /\ results_cache'[c] = result
              /\ result \in ResultType /\ result.run = RunOf(r) /\ Reviewable(result)'
  OBVIOUS
<1>3. RunningListed' /\ Numbered'
  <2>1. \A c \in DOMAIN results_cache' :
          IF c = request[r].client
          THEN results_cache'[c].run = RunOf(r) \/ (c \in DOMAIN results_cache
                                                 /\ results_cache'[c] = results_cache[c])
          ELSE c \in DOMAIN results_cache /\ results_cache'[c] = results_cache[c]
    BY <1>2
  <2> QED
    BY <2>1, RunEnds DEF IInv
<1>4. request' \in [Requests -> RequestType] /\ request'[r] = Idle
      /\ \A q \in Requests : q # r => request'[q] = request[q]
  BY IdleTyped, OthersKept DEF IInv
<1>5. TypeOK'
  <2>1. running' \subseteq Clients \cup BuiltIn
    BY DEF IInv, TypeOK
  <2>2. DOMAIN results_cache' \subseteq Clients \cup BuiltIn
        /\ \A c \in DOMAIN results_cache' : results_cache'[c] \in ResultType
    BY <1>1, <1>2 DEF TypeOK
  <2> QED
    BY <1>1, <1>4, <2>1, <2>2, TypeKept
<1>6. \A q \in Requests : StageFit(q)'
  <2> TAKE q \in Requests
  <2>1. CASE q = r
    BY <1>4, <2>1 DEF StageFit, Idle
  <2>2. CASE q # r
    BY <1>4, <2>2, AccountKept DEF IInv, settings
  <2> QED
    BY <2>1, <2>2
<1>7. ResultFitForReview'
  <2>1. \A c \in DOMAIN results_cache : Reviewable(results_cache[c])
    BY AllReviewable DEF IInv
  <2>2. ASSUME NEW c \in DOMAIN results_cache'
        PROVE  Reviewable(results_cache[c])'
    <3>1. PICK served : served = results_cache'[c]
      OBVIOUS
    <3>2. Reviewable(served)'
      <4>1. CASE c \in DOMAIN results_cache /\ results_cache'[c] = results_cache[c]
        BY <2>1, <3>1, <4>1, AccountKept DEF settings
      <4>2. CASE results_cache'[c] = result /\ Reviewable(result)'
        BY <3>1, <4>2
      <4> QED
        BY <1>2, <4>1, <4>2
    <3> QED
      BY <3>1, <3>2 DEF Reviewable, Fit, Overlapping, Grounded
  <2> QED
    BY <2>2 DEF ResultFitForReview, Reviewable, Fit, Overlapping, Grounded
<1> QED
  BY <1>3, <1>5, <1>6, <1>7 DEF IInv

\* What a stage made of the fields of another is one.
LEMMA DebateTyped ==
  ASSUME NEW stage,
         stage \in [pc : {"debating", "judging"}, client : Clients \cup BuiltIn,
                    run : 1..MaxPosts, evidence : SUBSET Citations, lost : SUBSET Resolvable,
                    prosecution : SUBSET Citations, defense : SUBSET Citations,
                    awaited : SUBSET {"prosecution", "defense"}]
  PROVE  stage \in RequestType
BY DEF RequestType

LEMMA FindingArrivesKeeps ==
  ASSUME IInv, NEW r \in Requests, NEW evidence \in Citings, FindingArrives(r, evidence)
  PROVE  IInv'
<1>1. evidence \in SUBSET Citations
  BY CitationsAssumption
<1>2. PICK memory \in Verification(evidence) :
        /\ memory.raised = {}
        /\ Remember(memory)
        /\ request' = [request EXCEPT ![r] =
             [pc |-> "debating", client |-> request[r].client, run |-> request[r].run,
              evidence |-> Verified(memory.caches, evidence),
              lost |-> Lost(memory.caches, evidence),
              awaited |-> {"prosecution", "defense"}, prosecution |-> {}, defense |-> {}]]
  BY DEF FindingArrives
<1>3. request[r].pc = "investigating"
      /\ UNCHANGED <<running, results_cache, posts, settings, restarts>>
  BY DEF FindingArrives
<1>4. Told(memory)
  BY <1>1, VerificationTold DEF IInv
<1>5. caches' \in [Datasets -> Contents] /\ failed' \subseteq Datasets /\ LoadsAccounted'
      /\ failed \subseteq failed'
  BY <1>2, <1>3, <1>4, RememberTold DEF IInv, settings, Remember
<1>6. InPipeline(r) /\ RunOf(r) = request[r].run
      /\ request[r].client \in Clients \cup BuiltIn /\ RunOf(r) \in 1..MaxPosts
  BY <1>3, StageTyped DEF IInv, RunOf
<1>7. PICK kept, lost : kept = Verified(memory.caches, evidence)
                        /\ lost = Lost(memory.caches, evidence)
  OBVIOUS
<1>8. /\ kept \subseteq Citations /\ lost \subseteq Resolvable /\ kept \cap Unresolvable = {}
      /\ \A cite \in lost : DatasetOf[cite] \in failed \/ files[DatasetOf[cite]] = "absent"
  BY <1>1, <1>2, <1>7, VerifiedResolves, LostAccounted DEF IInv
<1>9. PICK stage :
        stage = [pc |-> "debating", client |-> request[r].client, run |-> request[r].run,
                 evidence |-> kept, lost |-> lost,
                 awaited |-> {"prosecution", "defense"}, prosecution |-> {}, defense |-> {}]
  OBVIOUS
<1>10. stage \in RequestType
  BY <1>6, <1>8, <1>9, DebateTyped
<1>11. request' = [request EXCEPT ![r] = stage]
  BY <1>2, <1>7, <1>9
<1>12. request'[r] = stage
  BY <1>10, <1>11, OthersKept DEF IInv
<1>13. InPipeline(r)' /\ RunOf(r)' = RunOf(r) /\ stage.client = request[r].client
  BY <1>6, <1>9, <1>12 DEF InPipeline, RunOf
<1>14. StageFit(r)'
  <2>1. request'[r].pc = "debating" /\ request'[r].evidence = kept /\ request'[r].lost = lost
    BY <1>9, <1>12
  <2>2. Grounded(kept, lost)
    BY <1>8 DEF Grounded
  <2>3. Grounded(kept, lost)'
    BY <1>3, <1>5, <2>2, AccountKept DEF settings
  <2> QED
    BY <2>1, <2>3 DEF StageFit, Grounded
<1> QED
  BY <1>3, <1>5, <1>6, <1>10, <1>11, <1>13, <1>14, StageKeeps

LEMMA ArgumentArrivesKeeps ==
  ASSUME IInv, NEW r \in Requests, NEW side \in {"prosecution", "defense"},
         NEW refs \in Citings, ArgumentArrives(r, side, refs)
  PROVE  IInv'
<1>1. refs \in SUBSET Citations
  BY CitationsAssumption
<1>2. request[r].pc = "debating" /\ TypeOK /\ StageFit(r)
      /\ UNCHANGED <<running, results_cache, posts, settings, caches, failed, restarts>>
  BY DEF ArgumentArrives, IInv
<1>3. PICK run : run = request[r]
  OBVIOUS
<1>4. PICK pc : pc = IF run.awaited = {side} THEN "judging" ELSE "debating"
  OBVIOUS
<1>5. PICK prosecution : prosecution = IF side = "prosecution" THEN refs ELSE run.prosecution
  OBVIOUS
<1>6. PICK defense : defense = IF side = "defense" THEN refs ELSE run.defense
  OBVIOUS
<1>7. PICK stage :
        stage = [pc |-> pc, client |-> run.client, run |-> run.run, evidence |-> run.evidence,
                 lost |-> run.lost, awaited |-> run.awaited \ {side},
                 prosecution |-> prosecution, defense |-> defense]
  OBVIOUS
<1>8. request' = [request EXCEPT ![r] = stage]
  BY <1>3, <1>4, <1>5, <1>6, <1>7 DEF ArgumentArrives
<1>9. InPipeline(r) /\ RunOf(r) = run.run
      /\ run.client \in Clients \cup BuiltIn /\ RunOf(r) \in 1..MaxPosts
  BY <1>2, <1>3, StageTyped DEF RunOf
<1>10. /\ run.evidence \subseteq Citations /\ run.lost \subseteq Resolvable
       /\ run.prosecution \subseteq Citations /\ run.defense \subseteq Citations
       /\ run.awaited \subseteq {"prosecution", "defense"}
  BY <1>2, <1>3, StageTyped
<1>11. pc \in {"debating", "judging"} /\ prosecution \subseteq Citations
       /\ defense \subseteq Citations
  BY <1>1, <1>4, <1>5, <1>6, <1>10
<1>12. stage \in RequestType
  BY <1>7, <1>9, <1>10, <1>11, DebateTyped
<1>13. request'[r] = stage
  BY <1>2, <1>8, <1>12, OthersKept
<1>14. InPipeline(r)' /\ RunOf(r)' = RunOf(r) /\ stage.client = request[r].client
  BY <1>3, <1>7, <1>9, <1>11, <1>13 DEF InPipeline, RunOf
<1>15. StageFit(r)'
  <2>1. request'[r].evidence = run.evidence /\ request'[r].lost = run.lost
        /\ request'[r].pc # "drafting"
    BY <1>7, <1>11, <1>13
  <2>2. Grounded(run.evidence, run.lost)
    BY <1>2, <1>3 DEF StageFit
  <2>3. Grounded(run.evidence, run.lost)'
    BY <1>2, <2>2 DEF settings, Grounded
  <2> QED
    BY <2>1, <2>3 DEF StageFit, Grounded
<1>16. caches' \in [Datasets -> Contents] /\ failed' \subseteq Datasets /\ LoadsAccounted'
       /\ failed \subseteq failed'
  BY <1>2 DEF IInv, TypeOK, LoadsAccounted, settings
<1> QED
  BY <1>2, <1>8, <1>9, <1>12, <1>14, <1>15, <1>16, StageKeeps

\* What the debate comes to.
LEMMA ResultTyped ==
  ASSUME TypeOK, NEW r \in Requests, request[r].pc = "judging", StageFit(r),
         NEW verdict \in Verdicts
  PROVE  LET result == Result(r, verdict, None) IN
         /\ result \in ResultType
         /\ Fit(result)
         /\ result.run = RunOf(r) /\ result.outcome = verdict /\ ~result.sar.drafted
<1>1. PICK run : run = request[r]
  OBVIOUS
<1>2. RunOf(r) = run.run /\ RunOf(r) \in 1..MaxPosts
  BY <1>1, StageTyped DEF RunOf
<1>3. /\ run.evidence \subseteq Citations /\ run.lost \subseteq Resolvable
      /\ run.prosecution \subseteq Citations /\ run.defense \subseteq Citations
  BY <1>1, StageTyped
<1>4. PICK prosecution \in SUBSET Citations :
        /\ prosecution = VerifiedRefs(run.prosecution, run.evidence)
        /\ Overlapping(prosecution, run.evidence)
  BY <1>3, RefsVerified
<1>5. PICK defense \in SUBSET Citations :
        /\ defense = VerifiedRefs(run.defense, run.evidence)
        /\ Overlapping(defense, run.evidence)
  BY <1>3, RefsVerified
<1>6. Result(r, verdict, None) =
        [run |-> run.run, outcome |-> verdict, evidence |-> run.evidence, lost |-> run.lost,
         prosecution |-> prosecution, defense |-> defense, sar |-> None]
  BY <1>1, <1>4, <1>5 DEF Result
<1>7. Result(r, verdict, None) \in ResultType
  BY <1>2, <1>3, <1>6 DEF ResultType
<1>8. Grounded(run.evidence, run.lost)
  BY <1>1 DEF StageFit
<1>9. Fit(Result(r, verdict, None))
  BY <1>4, <1>5, <1>6, <1>8 DEF Fit, Overlapping
<1>10. ~None.drafted
  BY DEF None
<1> QED
  BY <1>2, <1>6, <1>7, <1>9, <1>10

LEMMA VerdictArrivesKeeps ==
  ASSUME IInv, NEW r \in Requests, NEW verdict \in Verdicts, VerdictArrives(r, verdict)
  PROVE  IInv'
<1>1. request[r].pc = "judging" /\ TypeOK /\ StageFit(r) /\ UNCHANGED <<caches, failed>>
      /\ UNCHANGED <<posts, settings, restarts>>
  BY DEF VerdictArrives, Complete, IInv
<1>2. PICK result : result = Result(r, verdict, None)
  OBVIOUS
<1>3. /\ result \in ResultType /\ Fit(result)
      /\ result.run = RunOf(r) /\ result.outcome = verdict /\ ~result.sar.drafted
  BY <1>1, <1>2, ResultTyped
<1>4. InPipeline(r) /\ request[r].client \in Clients \cup BuiltIn
  BY <1>1, StageTyped
<1>5. caches' \in [Datasets -> Contents] /\ failed' \subseteq Datasets /\ LoadsAccounted'
      /\ failed \subseteq failed'
  BY <1>1 DEF IInv, TypeOK, LoadsAccounted, settings
<1>6. CASE verdict = "escalate_to_sar"
  <2>1. PICK stage : stage = [pc |-> "drafting", client |-> request[r].client,
                              pending |-> result]
    OBVIOUS
  <2>2. request' = [request EXCEPT ![r] = stage] /\ UNCHANGED <<running, results_cache>>
    BY <1>2, <1>6, <2>1 DEF VerdictArrives
  <2>3. stage \in RequestType
    BY <1>3, <1>4, <2>1 DEF RequestType
  <2>4. request'[r] = stage
    BY <1>1, <2>2, <2>3, OthersKept
  <2>5. InPipeline(r)' /\ RunOf(r)' = RunOf(r) /\ stage.client = request[r].client
    BY <1>3, <2>1, <2>4 DEF InPipeline, RunOf
  <2>6. Fit(result)'
    BY <1>1, <1>3, <1>5, AccountKept DEF settings
  <2>7. StageFit(r)'
    BY <1>3, <1>6, <2>1, <2>4, <2>6 DEF StageFit, Fit, Overlapping, Grounded
  <2> QED
    BY <1>1, <1>4, <1>5, <2>2, <2>3, <2>5, <2>7, StageKeeps
<1>7. CASE verdict # "escalate_to_sar"
  <2>1. Complete(r, result)
    BY <1>2, <1>7 DEF VerdictArrives
  <2>2. Reviewable(result)
    BY <1>3, <1>7 DEF Reviewable
  <2>3. Reviewable(result)'
    BY <1>1, <1>5, <2>2, AccountKept DEF settings
  <2> QED
    BY <1>1, <1>3, <1>4, <1>5, <2>1, <2>3, EndKeeps DEF Complete
<1> QED
  BY <1>6, <1>7

LEMMA SarArrivesKeeps ==
  ASSUME IInv, NEW r \in Requests, NEW appendix \in Citings, NEW draft \in Drafts,
         SarArrives(r, appendix, draft)
  PROVE  IInv'
<1>1. appendix \in SUBSET Citations /\ draft \in AllDrafts
  BY CitationsAssumption DEF AllDrafts
<1>2. request[r].pc = "drafting" /\ TypeOK /\ StageFit(r)
  BY DEF SarArrives, IInv
<1>3. PICK memory, redacting :
        /\ memory \in Verification(appendix)
        /\ redacting = Redaction(memory, draft) /\ redacting.raised = {}
        /\ Remember(redacting)
        /\ Complete(r, [request[r].pending EXCEPT
             !.lost = @ \cup Lost(memory.caches, appendix),
             !.sar = Sar(memory.caches, appendix, draft)])
  BY DEF SarArrives
<1>4. UNCHANGED <<posts, settings, restarts>>
  BY <1>3 DEF Complete
<1>5. /\ caches' \in [Datasets -> Contents] /\ failed' \subseteq Datasets /\ LoadsAccounted'
      /\ failed \subseteq failed' /\ memory.raised = {}
  <2>1. Told(redacting) /\ memory.raised = {}
    BY <1>1, <1>3, VerificationTold, RedactionTold DEF IInv
  <2> QED
    BY <1>3, <1>4, <2>1, RememberTold DEF IInv, settings, Remember
<1>6. PICK pending \in ResultType : pending = request[r].pending /\ pending.run = RunOf(r)
  BY <1>2, StageTyped DEF RunOf
<1>7. Fit(pending) /\ pending.outcome = "escalate_to_sar"
  BY <1>2, <1>6 DEF StageFit
<1>8. PICK lost : lost = pending.lost \cup Lost(memory.caches, appendix)
  OBVIOUS
<1>9. PICK sar \in SarType : /\ sar = Sar(memory.caches, appendix, draft)
                             /\ sar.drafted /\ sar.appendix \cap Unresolvable = {}
  BY <1>1, SarTyped
<1>10. PICK result : result = [pending EXCEPT !.lost = lost, !.sar = sar]
  OBVIOUS
<1>11. Complete(r, result)
  BY <1>3, <1>6, <1>8, <1>9, <1>10
<1>12. lost \subseteq Resolvable
  BY <1>1, <1>6, <1>8, VerifiedResolves DEF ResultType
<1>13. result \in ResultType
  BY <1>6, <1>9, <1>10, <1>12 DEF ResultType
<1>14. /\ result.run = pending.run /\ result.outcome = pending.outcome
       /\ result.evidence = pending.evidence /\ result.prosecution = pending.prosecution
       /\ result.defense = pending.defense /\ result.lost = lost /\ result.sar = sar
  BY <1>6, <1>10 DEF ResultType
<1>15. Grounded(pending.evidence, lost)
  <2>1. \A cite \in Lost(memory.caches, appendix) :
          DatasetOf[cite] \in failed \/ files[DatasetOf[cite]] = "absent"
    BY <1>1, <1>3, <1>5, LostAccounted DEF IInv
  <2> QED
    BY <1>7, <1>8, <2>1 DEF Fit, Grounded
<1>16. Reviewable(result)
  BY <1>7, <1>9, <1>14, <1>15 DEF Reviewable, Fit
<1>17. Reviewable(result)'
  BY <1>4, <1>5, <1>16, AccountKept DEF settings
<1>18. InPipeline(r)
  BY <1>2, StageTyped
<1> QED
  BY <1>4, <1>5, <1>6, <1>11, <1>13, <1>14, <1>17, <1>18, EndKeeps DEF Complete

\* A call fails, an answer cites what a loader raises for, or the handler is cancelled.
LEMMA StopsKeeps ==
  ASSUME IInv, NEW r \in Requests, Stops(r),
         caches' \in [Datasets -> Contents], failed' \subseteq Datasets, LoadsAccounted',
         failed \subseteq failed'
  PROVE  IInv'
BY EndKeeps DEF Stops

LEMMA FailureKeeps ==
  ASSUME IInv, NEW r \in Requests, Stops(r), UNCHANGED <<caches, failed>>
  PROVE  IInv'
<1>1. caches' \in [Datasets -> Contents] /\ failed' \subseteq Datasets /\ LoadsAccounted'
      /\ failed \subseteq failed'
  BY DEF IInv, TypeOK, LoadsAccounted, Stops, settings
<1> QED
  BY <1>1, StopsKeeps

LEMMA UnverifiableKeeps ==
  ASSUME IInv, NEW r \in Requests, NEW evidence \in Citings, Unverifiable(r, evidence)
  PROVE  IInv'
<1>1. PICK memory \in Verification(evidence) : Remember(memory)
  BY DEF Unverifiable
<1>2. evidence \in SUBSET Citations /\ Stops(r) /\ UNCHANGED files
  BY CitationsAssumption DEF Unverifiable, Stops, settings
<1>3. Told(memory)
  BY <1>2, VerificationTold DEF IInv
<1>4. caches' \in [Datasets -> Contents] /\ failed' \subseteq Datasets /\ LoadsAccounted'
      /\ failed \subseteq failed'
  BY <1>1, <1>2, <1>3, RememberTold DEF IInv, Remember
<1> QED
  BY <1>2, <1>4, StopsKeeps

LEMMA UnservableKeeps ==
  ASSUME IInv, NEW r \in Requests, NEW appendix \in Citings, NEW draft \in Drafts,
         Unservable(r, appendix, draft)
  PROVE  IInv'
<1>1. PICK memory, redacting :
        /\ memory \in Verification(appendix)
        /\ redacting = Redaction(memory, draft) /\ Remember(redacting)
  BY DEF Unservable
<1>2. appendix \in SUBSET Citations /\ Stops(r) /\ UNCHANGED files
  BY CitationsAssumption DEF Unservable, Stops, settings
<1>3. Told(redacting)
  BY <1>1, <1>2, VerificationTold, RedactionTold DEF IInv
<1>4. caches' \in [Datasets -> Contents] /\ failed' \subseteq Datasets /\ LoadsAccounted'
      /\ failed \subseteq failed'
  BY <1>1, <1>2, <1>3, RememberTold DEF IInv, Remember
<1> QED
  BY <1>2, <1>4, StopsKeeps

\* The demo cites nothing but what resolves.
LEMMA DemoFindingResolves ==
  ASSUME NEW held, NEW c \in Clients \cup BuiltIn
  PROVE  /\ demo_finding(held, c) \subseteq Citations
         /\ \A cite \in demo_finding(held, c) : Resolves(held, cite)
<1>1. \A i \in Indicated(held, c) : i.cites \in Resolvable /\ Resolves(held, i.cites)
  <2> TAKE i \in Indicated(held, c)
  <2>1. i \in Indicators[c] /\ (i.cites \in Accounts => Resolves(held, i.cites))
    BY DEF Indicated
  <2>2. i.cites \in Resolvable
    BY <2>1, DemoAssumption
  <2>3. i.cites \in Accounts \/ DatasetOf[i.cites] = "clients"
    BY <2>1, DemoAssumption
  <2> QED
    BY <2>1, <2>2, <2>3 DEF Resolves
<1>2. Baseline \in Resolvable /\ Resolves(held, Baseline)
  BY DemoAssumption DEF Resolves
<1> QED
  BY <1>1, <1>2 DEF demo_finding, Citations

LEMMA DemoResultReviewable ==
  ASSUME TypeOK, posts < MaxPosts, NEW held, NEW c \in Clients \cup BuiltIn,
         NEW first \in demo_finding(held, c)
  PROVE  LET result == DemoResult(held, c, first) IN
         result \in ResultType /\ Reviewable(result) /\ result.run = posts + 1
<1>1. PICK finding : finding = demo_finding(held, c)
  OBVIOUS
<1>2. finding \in SUBSET Citations /\ first \in Citations
      /\ \A cite \in finding : Resolves(held, cite)
  BY <1>1, DemoFindingResolves
<1>3. PICK evidence \in SUBSET Citations :
        evidence = Verified(held, finding) /\ evidence \cap Unresolvable = {}
  BY <1>2, VerifiedResolves
<1>4. Lost(held, finding) = {}
  BY <1>2 DEF Lost, Verified
<1>5. PICK prosecution \in SUBSET Citations :
        /\ prosecution = VerifiedRefs(evidence, evidence)
        /\ Overlapping(prosecution, evidence)
  BY <1>3, RefsVerified
<1>6. PICK defense \in SUBSET Citations :
        /\ defense = VerifiedRefs({first}, evidence)
        /\ Overlapping(defense, evidence)
  BY <1>2, <1>3, RefsVerified
<1>7. PICK outcome \in Verdicts :
        outcome = IF Elevated(held, c) THEN "escalate_to_sar" ELSE "false_positive_clear"
  BY DEF Verdicts
<1>8. PICK run \in 1..MaxPosts : run = posts + 1
  BY BoundsAssumption DEF TypeOK
<1>9. demo_sar(evidence) \in AllDrafts
  BY <1>3 DEF AllDrafts
<1>10. /\ Sar(held, evidence, demo_sar(evidence)) \in SarType
       /\ Sar(held, evidence, demo_sar(evidence)).drafted
       /\ Sar(held, evidence, demo_sar(evidence)).appendix \cap Unresolvable = {}
  BY <1>3, <1>9, SarTyped
<1>11. ~None.drafted
  BY DEF None
<1>12. PICK sar \in {None} \cup SarType :
         /\ sar = IF Elevated(held, c) THEN Sar(held, evidence, demo_sar(evidence)) ELSE None
         /\ sar.drafted <=> outcome = "escalate_to_sar"
         /\ sar.drafted => sar.appendix \cap Unresolvable = {}
  BY <1>7, <1>10, <1>11
<1>13. DemoResult(held, c, first) =
         [run |-> run, evidence |-> evidence, lost |-> {}, outcome |-> outcome,
          prosecution |-> prosecution, defense |-> defense, sar |-> sar]
  BY <1>1, <1>3, <1>4, <1>5, <1>6, <1>7, <1>8, <1>12 DEF DemoResult
<1>14. DemoResult(held, c, first) \in ResultType
  BY <1>13 DEF ResultType
<1>15. Reviewable(DemoResult(held, c, first))
  BY <1>3, <1>5, <1>6, <1>12, <1>13 DEF Reviewable, Fit, Overlapping, Grounded
<1> QED
  BY <1>8, <1>13, <1>14, <1>15

\* What a demo run has loaded by its end.
LEMMA DemoLoadedTold ==
  ASSUME TypeOK, LoadsAccounted, NEW c
  PROVE  Told(DemoLoaded(c))
<1>1. PICK memory : memory = DemoGathered(c) /\ Told(memory)
  BY GatheringTold
<1>2. PICK draft : draft = demo_sar(Verified(memory.caches, demo_finding(memory.caches, c)))
  OBVIOUS
<1>3. Told(Redaction(memory, draft))
  BY <1>1, RedactionTold
<1> QED
  BY <1>1, <1>2, <1>3 DEF DemoLoaded

LEMMA PostDemoKeeps ==
  ASSUME IInv, NEW c \in Clients \cup Strangers, PostDemo(c)
  PROVE  IInv'
<1>1. TypeOK /\ posts < MaxPosts /\ posts' = posts + 1
      /\ UNCHANGED <<running, request, settings, restarts>>
  BY DEF PostDemo, IInv
<1>2. PICK memory, held :
        /\ Told(memory) /\ Remember(memory)
        /\ \/ UNCHANGED results_cache
           \/ /\ Profiled(ProfileLookup.caches, c) /\ c \notin running
              /\ \E first \in demo_finding(held, c) :
                   results_cache' = [d \in DOMAIN results_cache \cup {c} |->
                     IF d = c THEN DemoResult(held, c, first) ELSE results_cache[d]]
  <2>1. Told(ProfileLookup) /\ Told(DemoLoaded(c))
    BY GatheringTold, DemoLoadedTold DEF IInv
  <2>2. CASE ProfileLookup.raised = {} /\ Profiled(ProfileLookup.caches, c) /\ c \notin running
    <3>1. PICK memory, held : memory = DemoLoaded(c) /\ held = DemoGathered(c).caches
      OBVIOUS
    <3>2. Told(memory) /\ Remember(memory)
      BY <2>1, <2>2, <3>1 DEF PostDemo
    <3>3. \/ UNCHANGED results_cache
          \/ \E first \in demo_finding(held, c) :
               results_cache' = [d \in DOMAIN results_cache \cup {c} |->
                 IF d = c THEN DemoResult(held, c, first) ELSE results_cache[d]]
      BY <2>2, <3>1 DEF PostDemo
    <3> QED
      BY <2>2, <3>2, <3>3
  <2>3. CASE ~(/\ ProfileLookup.raised = {} /\ Profiled(ProfileLookup.caches, c)
               /\ c \notin running)
    <3>1. Remember(ProfileLookup) /\ UNCHANGED results_cache
      BY <2>3 DEF PostDemo
    <3> QED
      BY <2>1, <3>1
  <2> QED
    BY <2>2, <2>3
<1>3. caches' \in [Datasets -> Contents] /\ failed' \subseteq Datasets /\ LoadsAccounted'
      /\ failed \subseteq failed'
  BY <1>1, <1>2, RememberTold DEF IInv, settings, Remember
<1>4. \A r \in Requests : StageFit(r)'
  BY <1>1, <1>3, AccountKept DEF IInv, settings
<1>5. CASE UNCHANGED results_cache
  <2>1. TypeOK'
    BY <1>1, <1>3, <1>5, TypeKept DEF TypeOK
  <2>2. RunningListed' /\ Numbered'
    BY <1>1, <1>5, RunsKept DEF IInv
  <2>3. ResultFitForReview'
    BY <1>1, <1>3, <1>5, AccountKept DEF IInv, settings
  <2> QED
    BY <1>3, <1>4, <2>1, <2>2, <2>3 DEF IInv
<1>6. CASE /\ Profiled(ProfileLookup.caches, c) /\ c \notin running
           /\ \E first \in demo_finding(held, c) :
                results_cache' = [d \in DOMAIN results_cache \cup {c} |->
                  IF d = c THEN DemoResult(held, c, first) ELSE results_cache[d]]
  <2>1. c \in Clients \cup BuiltIn
    BY <1>6 DEF Profiled
  <2>2. PICK result \in ResultType :
          /\ Reviewable(result) /\ result.run = posts + 1
          /\ results_cache' = [d \in DOMAIN results_cache \cup {c} |->
               IF d = c THEN result ELSE results_cache[d]]
    BY <1>1, <1>6, <2>1, DemoResultReviewable
  <2>3. /\ DOMAIN results_cache' = DOMAIN results_cache \cup {c}
        /\ results_cache'[c] = result
        /\ \A d \in DOMAIN results_cache \ {c} : results_cache'[d] = results_cache[d]
    BY <2>2
  <2>4. TypeOK'
    <3>1. running' \subseteq Clients \cup BuiltIn /\ request' \in [Requests -> RequestType]
      BY <1>1 DEF TypeOK
    <3>2. DOMAIN results_cache' \subseteq Clients \cup BuiltIn
          /\ \A d \in DOMAIN results_cache' : results_cache'[d] \in ResultType
      BY <1>1, <2>1, <2>3 DEF TypeOK
    <3> QED
      BY <1>1, <1>3, <3>1, <3>2, TypeKept
  <2>5. \A q \in Requests : (InPipeline(q)' <=> InPipeline(q)) /\ RunOf(q)' = RunOf(q)
    BY <1>1 DEF InPipeline, RunOf
  <2>6. RunningListed'
    BY <1>1, <2>5 DEF RunningListed, IInv
  <2>7. Numbered'
    <3>1. posts \in Nat
      BY <1>1 DEF TypeOK
    <3>2. \A d \in DOMAIN results_cache : results_cache[d].run \in 1..MaxPosts
      BY <1>1 DEF TypeOK, ResultType
    <3>3. \A d \in DOMAIN results_cache' : results_cache'[d].run <= posts'
      BY <1>1, <2>2, <2>3, <3>1, <3>2 DEF IInv, Numbered
    <3>4. ASSUME NEW q \in Requests, InPipeline(q)'
          PROVE  /\ RunOf(q)' <= posts'
                 /\ request'[q].client \in DOMAIN results_cache' =>
                      results_cache'[request'[q].client].run < RunOf(q)'
      <4>1. InPipeline(q) /\ RunOf(q)' = RunOf(q) /\ request'[q] = request[q]
        BY <1>1, <2>5, <3>4
      <4>2. RunOf(q) \in 1..MaxPosts
        BY <1>1, <4>1, StageTyped
      <4>3. request[q].client # c
        BY <1>6, <4>1 DEF IInv, RunningListed
      <4> QED
        BY <1>1, <2>3, <3>1, <4>1, <4>2, <4>3 DEF IInv, Numbered
    <3> QED
      BY <3>3, <3>4 DEF Numbered
  <2>8. ResultFitForReview'
    <3>1. Reviewable(result)'
      BY <1>1, <1>3, <2>2, AccountKept DEF settings
    <3>2. ASSUME NEW d \in DOMAIN results_cache'
          PROVE  Reviewable(results_cache[d])'
      <4>1. PICK served : served = results_cache'[d]
        OBVIOUS
      <4>2. Reviewable(served)'
        <5>1. CASE d = c
          BY <2>3, <3>1, <4>1, <5>1
        <5>2. CASE d # c
          <6>1. Reviewable(served)
            BY <2>3, <4>1, <5>2, AllReviewable DEF IInv
          <6> QED
            BY <1>1, <1>3, <6>1, AccountKept DEF settings
        <5> QED
          BY <5>1, <5>2
      <4> QED
        BY <4>1, <4>2 DEF Reviewable, Fit, Overlapping, Grounded
    <3> QED
      BY <3>2 DEF ResultFitForReview, Reviewable, Fit, Overlapping, Grounded
  <2> QED
    BY <1>3, <1>4, <2>4, <2>6, <2>7, <2>8 DEF IInv
<1> QED
  BY <1>2, <1>5, <1>6

LEMMA RestartKeeps ==
  ASSUME IInv, Restart
  PROVE  IInv'
<1>1. \A r \in Requests : request'[r].pc = "idle"
  BY DEF Restart, Idle
<1>2. TypeOK'
  <2>1. caches' \in [Datasets -> Contents]
    BY DEF Restart, Unset, Contents
  <2>2. request' \in [Requests -> RequestType]
    BY IdleTyped DEF Restart
  <2>3. restarts' \in 0..MaxRestarts
    BY BoundsAssumption DEF Restart, IInv, TypeOK
  <2> QED
    BY <2>1, <2>2, <2>3 DEF Restart, IInv, TypeOK
<1>3. LoadsAccounted'
  BY DEF Restart, Unset, LoadsAccounted, Accounted, Datasets
<1>4. RunningListed' /\ Numbered'
  BY <1>1 DEF Restart, RunningListed, Numbered, InPipeline
<1>5. \A r \in Requests : StageFit(r)'
  BY <1>1 DEF StageFit
<1>6. ResultFitForReview'
  BY DEF Restart, ResultFitForReview
<1> QED
  BY <1>2, <1>3, <1>4, <1>5, <1>6 DEF IInv

-----------------------------------------------------------------------------
\* Whatever a handler, the model or a restart does, the invariant stays.
THEOREM StepKeepsInvariant == IInv /\ [Next]_vars => IInv'
<1> SUFFICES ASSUME IInv, [Next]_vars
             PROVE  IInv'
  OBVIOUS
<1>1. CASE \E r \in Requests, c \in Clients \cup Strangers : Post(r, c)
  BY <1>1, PostKeeps
<1>2. CASE \E r \in Requests : Answer(r)
  <2>1. PICK r \in Requests : Answer(r)
    BY <1>2
  <2>2. CASE \E cited \in Citings : FindingArrives(r, cited)
    BY <2>2, FindingArrivesKeeps
  <2>3. CASE \E cited \in Citings, side \in {"prosecution", "defense"} :
               ArgumentArrives(r, side, cited)
    BY <2>3, ArgumentArrivesKeeps
  <2>4. CASE \E cited \in Citings, draft \in Drafts : SarArrives(r, cited, draft)
    BY <2>4, SarArrivesKeeps
  <2>5. CASE \E cited \in Citings : Unverifiable(r, cited)
    BY <2>5, UnverifiableKeeps
  <2>6. CASE \E cited \in Citings, draft \in Drafts : Unservable(r, cited, draft)
    BY <2>6, UnservableKeeps
  <2>7. CASE \E verdict \in Verdicts : VerdictArrives(r, verdict)
    BY <2>7, VerdictArrivesKeeps
  <2>8. CASE Stops(r) /\ UNCHANGED <<caches, failed>>
    BY <2>8, FailureKeeps
  <2> QED
    BY <2>1, <2>2, <2>3, <2>4, <2>5, <2>6, <2>7, <2>8 DEF Answer
<1>3. CASE \E c \in Clients \cup Strangers : PostDemo(c)
  BY <1>3, PostDemoKeeps
<1>4. CASE ListClients
  BY <1>4, ListClientsKeeps
<1>5. CASE Restart
  BY <1>5, RestartKeeps
<1>6. CASE UNCHANGED vars
  <2>1. UNCHANGED <<running, results_cache, request, posts, settings, caches, failed, restarts>>
    BY <1>6 DEF vars
  <2>2. TypeOK'
    BY <2>1, TypeKept DEF IInv, TypeOK
  <2>3. LoadsAccounted' /\ failed \subseteq failed'
    BY <2>1 DEF IInv, LoadsAccounted, settings
  <2>4. RunningListed' /\ Numbered'
    BY <2>1, RunsKept DEF IInv
  <2>5. (\A r \in Requests : StageFit(r)') /\ ResultFitForReview'
    BY <2>1, <2>3, AccountKept DEF IInv, settings
  <2> QED
    BY <2>2, <2>3, <2>4, <2>5 DEF IInv
<1> QED
  BY <1>1, <1>2, <1>3, <1>4, <1>5, <1>6 DEF Next

LEMMA InvariantHolds == Spec => []IInv
BY InitInvariant, StepKeepsInvariant, PTL DEF Spec

\* Every state of the endpoints is well typed, the redacted text of the SARs they serve
\* included.
THEOREM EndpointsTyped == Spec => []TypeOK
<1>1. IInv => TypeOK
  BY DEF IInv
<1> QED
  BY <1>1, InvariantHolds, PTL

\* A client has at most one run in progress, /status says so while it has one, and that
\* run will replace an older result.
THEOREM OneRunAtATime == Spec => []OneRunPerClient
<1>1. IInv => OneRunPerClient
  <2> SUFFICES ASSUME IInv
               PROVE  OneRunPerClient
    OBVIOUS
  <2>1. \A q, r \in Requests :
          InPipeline(q) /\ InPipeline(r) /\ request[q].client = request[r].client => q = r
    BY DEF IInv, RunningListed
  <2>2. ASSUME NEW c \in Clients \cup BuiltIn
        PROVE  Status(c) = "running" <=>
                 \E r \in Requests : InPipeline(r) /\ request[r].client = c
    <3>1. Status(c) = "running" <=> c \in running
      BY DEF Status
    <3> QED
      BY <3>1 DEF IInv, RunningListed
  <2>3. ASSUME NEW r \in {q \in Requests : InPipeline(q)},
               NEW c \in DOMAIN results_cache \cap {request[r].client}
        PROVE  results_cache[c].run < RunOf(r)
    BY <2>3 DEF IInv, Numbered
  <2> QED
    BY <2>1, <2>2, <2>3 DEF OneRunPerClient
<1> QED
  BY <1>1, InvariantHolds, PTL

\* Whatever the model answers and whichever files are missing or broken, a cached result
\* is grounded, has lost nothing genuine without a failure that was told of, and holds a
\* SAR just when it escalates.
THEOREM ResultsAreFit == Spec => []ResultFitForReview
<1>1. IInv => ResultFitForReview
  BY DEF IInv
<1> QED
  BY <1>1, InvariantHolds, PTL

-----------------------------------------------------------------------------
(* Induction on numbers *)

\* A nonempty set of numbers has a least element.
LEMMA LeastExists ==
  ASSUME NEW S \in SUBSET Nat, S # {}
  PROVE  \E x \in S : \A y \in S : x <= y
<1>1. \E x \in S : \A y \in S : ~(<<y, x>> \in OpToRel(<, Nat))
  BY NatLessThanWellFounded, WFMin, Zenon
<1>2. \A x, y \in S : y < x => <<y, x>> \in OpToRel(<, Nat)
  BY Zenon DEF OpToRel
<1>3. \A x, y \in S : y < x \/ x <= y
  OBVIOUS
<1> QED
  BY <1>1, <1>2, <1>3

\* Induction up to a number, for a set of numbers.
LEMMA UpTo ==
  ASSUME NEW m \in Nat, NEW T, 0 \in T, \A n \in 0..(m - 1) : n \in T => n + 1 \in T
  PROVE  m \in T
<1> SUFFICES ASSUME m \notin T PROVE FALSE
  OBVIOUS
<1> DEFINE S == {n \in Nat : n \notin T}
<1>1. PICK x \in S : \A y \in S : x <= y
  <2>1. S # {} /\ S \in SUBSET Nat
    OBVIOUS
  <2> HIDE DEF S
  <2> QED
    BY <2>1, LeastExists
<1>2. x \in Nat /\ x # 0 /\ x <= m
  BY <1>1
<1>3. x - 1 \in 0..(m - 1) /\ x - 1 \in T
  <2>1. x - 1 \in Nat /\ ~(x <= x - 1)
    BY <1>2
  <2> QED
    BY <1>1, <1>2, <2>1
<1> QED
  BY <1>1, <1>2, <1>3

-----------------------------------------------------------------------------
(* Sums over finite sets *)

Pick(s) == CHOOSE x \in s : TRUE
AddsUp(f, v, S) ==
  f = [s \in SUBSET S |-> IF s = {} THEN 0 ELSE v[Pick(s)] + f[s \ {Pick(s)}]]
Small(S, n) == {s \in SUBSET S : Cardinality(s) <= n}

LEMMA PickSmaller ==
  ASSUME NEW S, IsFiniteSet(S), NEW n \in Nat, NEW s \in Small(S, n + 1), s # {}
  PROVE  Pick(s) \in S /\ s \ {Pick(s)} \in Small(S, n)
<1>1. Pick(s) \in s /\ s \in SUBSET S
  BY DEF Pick, Small
<1>2. IsFiniteSet(s) /\ Cardinality(s) \in Nat /\ Cardinality(s) <= n + 1
  BY FS_Subset, FS_CardinalityType DEF Small
<1>3. Cardinality(s \ {Pick(s)}) = Cardinality(s) - 1
  BY <1>1, <1>2, FS_RemoveElement
<1>4. Cardinality(s \ {Pick(s)}) <= n
  BY <1>2, <1>3
<1> QED
  BY <1>1, <1>4 DEF Small

LEMMA NothingSmaller ==
  ASSUME NEW S, IsFiniteSet(S)
  PROVE  /\ Cardinality(S) \in Nat /\ Small(S, Cardinality(S)) = SUBSET S
         /\ Small(S, 0) = {{}}
<1>1. \A s \in SUBSET S : IsFiniteSet(s) /\ Cardinality(s) \in Nat /\ Cardinality(s) <= Cardinality(S)
  BY FS_Subset, FS_CardinalityType
<1>2. \A s \in SUBSET S : Cardinality(s) <= 0 <=> s = {}
  <2> TAKE s \in SUBSET S
  <2>1. Cardinality(s) = 0 <=> s = {}
    BY <1>1, FS_EmptySet
  <2>2. Cardinality(s) \in Nat
    BY <1>1
  <2> QED
    BY <2>1, <2>2
<1> QED
  BY <1>1, <1>2, FS_CardinalityType DEF Small

\* There is a function that adds up numbers over the parts of a finite set.
LEMMA FoldExists ==
  ASSUME NEW S, IsFiniteSet(S), NEW v
  PROVE  \E f : AddsUp(f, v, S)
<1> DEFINE Rec(f, s) == IF s = {} THEN 0 ELSE v[Pick(s)] + f[s \ {Pick(s)}]
           T == {n \in Nat : \E f : f = [s \in Small(S, n) |-> Rec(f, s)]}
<1>1. 0 \in T
  <2> DEFINE f == [s \in Small(S, 0) |-> 0]
  <2>1. f = [s \in Small(S, 0) |-> Rec(f, s)]
    BY NothingSmaller
  <2> QED
    BY <2>1
<1>2. ASSUME NEW n \in 0..(Cardinality(S) - 1), n \in T PROVE n + 1 \in T
  <2>1. PICK f : f = [s \in Small(S, n) |-> Rec(f, s)]
    BY <1>2
  <2> DEFINE g == [s \in Small(S, n + 1) |-> Rec(f, s)]
  <2>2. n \in Nat /\ \A s \in Small(S, n + 1) : s # {} => s \ {Pick(s)} \in Small(S, n)
    BY PickSmaller
  <2>3. \A s \in Small(S, n) : s \in Small(S, n + 1) /\ g[s] = f[s]
    <3>1. \A s \in Small(S, n) : s \in Small(S, n + 1)
      <4> TAKE s \in Small(S, n)
      <4>1. Cardinality(s) \in Nat /\ s \in SUBSET S /\ Cardinality(s) <= n
        BY FS_Subset, FS_CardinalityType DEF Small
      <4> QED
        BY <2>2, <4>1 DEF Small
    <3>2. \A s \in Small(S, n) : f[s] = Rec(f, s)
      BY <2>1
    <3> QED
      BY <3>1, <3>2
  <2>4. \A s \in Small(S, n + 1) : Rec(f, s) = Rec(g, s)
    <3> HIDE DEF g
    <3> QED
      BY <2>2, <2>3
  <2>5. g = [s \in Small(S, n + 1) |-> Rec(g, s)]
    BY <2>4
  <2> HIDE DEF g, Rec
  <2> QED
    BY <2>2, <2>5
<1>3. Cardinality(S) \in T
  <2> HIDE DEF T
  <2> QED
    BY <1>1, <1>2, UpTo, NothingSmaller
<1>4. PICK f : f = [s \in Small(S, Cardinality(S)) |-> Rec(f, s)]
  BY <1>3
<1>5. f = [s \in SUBSET S |-> Rec(f, s)]
  BY <1>4, NothingSmaller
<1> QED
  BY <1>5 DEF AddsUp

\* Its values are numbers, and do not depend on which element is added first.
LEMMA AnyFirst ==
  ASSUME NEW S, IsFiniteSet(S), NEW v, \A x \in S : v[x] \in Int, NEW f, AddsUp(f, v, S)
  PROVE  \A s \in SUBSET S : f[s] \in Int /\ \A x \in s : f[s] = v[x] + f[s \ {x}]
<1> DEFINE Fine(s) == f[s] \in Int /\ \A x \in s : f[s] = v[x] + f[s \ {x}]
           T == {n \in Nat : \A s \in Small(S, n) : Fine(s)}
<1>1. \A s \in SUBSET S : f[s] = IF s = {} THEN 0 ELSE v[Pick(s)] + f[s \ {Pick(s)}]
  BY DEF AddsUp
<1>2. 0 \in T
  <2>1. f[{}] = 0
    BY <1>1
  <2>2. Small(S, 0) = {{}}
    BY NothingSmaller
  <2>3. ASSUME NEW s \in Small(S, 0) PROVE Fine(s)
    <3>1. s = {}
      BY <2>2
    <3>2. 0 \in Int
      OBVIOUS
    <3> QED
      BY <2>1, <3>1, <3>2, Zenon
  <2>4. 0 \in Nat
    OBVIOUS
  <2> QED
    BY <2>3, <2>4
<1>3. ASSUME NEW n \in 0..(Cardinality(S) - 1), n \in T PROVE n + 1 \in T
  <2>1. n \in Nat /\ \A s \in Small(S, n) : Fine(s)
    BY <1>3
  <2>2. ASSUME NEW s \in Small(S, n + 1) PROVE Fine(s)
    <3>1. s \in SUBSET S
      BY DEF Small
    <3>2. CASE s = {}
      <4>1. f[s] = 0
        BY <1>1, <3>1, <3>2, Zenon
      <4> QED
        BY <3>2, <4>1
    <3>3. CASE s # {}
      <4> DEFINE p == Pick(s)
      <4>1. p \in s /\ v[p] \in Int /\ s \ {p} \in Small(S, n) /\ f[s \ {p}] \in Int
        BY <2>1, <2>2, <3>1, <3>3, PickSmaller DEF Pick
      <4>2. f[s] = v[p] + f[s \ {p}]
        BY <1>1, <3>1, <3>3, Zenon
      <4>3. f[s] \in Int
        BY <4>1, <4>2
      <4> HIDE DEF p
      <4>4. ASSUME NEW x \in s PROVE f[s] = v[x] + f[s \ {x}]
        <5>1. CASE x = p
          BY <4>2, <5>1
        <5>2. CASE x # p
          <6> DEFINE rest == s \ {x, p}
          <6>1. rest = (s \ {p}) \ {x} /\ rest = (s \ {x}) \ {p}
            OBVIOUS
          <6>2. x \in s \ {p} /\ p \in s \ {x} /\ v[x] \in Int
            BY <3>1, <4>1, <5>2
          <6>3. f[s \ {p}] = v[x] + f[rest]
            BY <2>1, <4>1, <6>1, <6>2, Zenon
          <6>4. s \ {x} \in Small(S, n)
            <7>1. IsFiniteSet(s) /\ Cardinality(s) <= n + 1
              BY <3>1, FS_Subset DEF Small
            <7>2. Cardinality(s \ {x}) = Cardinality(s) - 1 /\ Cardinality(s) \in Nat
              BY <7>1, FS_RemoveElement, FS_CardinalityType
            <7>3. Cardinality(s \ {x}) <= n
              BY <2>1, <7>1, <7>2
            <7> QED
              BY <3>1, <7>3 DEF Small
          <6>5. f[s \ {x}] = v[p] + f[rest]
            <7>1. f[s \ {x}] = v[p] + f[(s \ {x}) \ {p}]
              BY <2>1, <6>2, <6>4
            <7> HIDE DEF rest
            <7> QED
              BY <6>1, <7>1, Zenon
          <6>6. rest \in Small(S, n)
            <7>1. IsFiniteSet(s \ {p}) /\ Cardinality(s \ {p}) \in Nat
                  /\ Cardinality(s \ {p}) <= n
              BY <4>1, FS_Subset, FS_CardinalityType DEF Small
            <7>2. Cardinality(rest) <= Cardinality(s \ {p}) /\ Cardinality(rest) \in Nat
              BY <6>1, <7>1, FS_Subset, FS_CardinalityType
            <7>3. Cardinality(rest) <= n
              BY <2>1, <7>1, <7>2
            <7> QED
              BY <3>1, <7>3 DEF Small
          <6>7. f[rest] \in Int
            BY <2>1, <6>6
          <6> QED
            BY <4>1, <4>2, <6>2, <6>3, <6>5, <6>7
        <5> QED
          BY <5>1, <5>2
      <4> QED
        BY <4>3, <4>4
    <3> QED
      BY <3>2, <3>3
  <2> HIDE DEF Fine
  <2> QED
    BY <2>1, <2>2
<1>4. Cardinality(S) \in T
  <2> HIDE DEF T
  <2> QED
    BY <1>2, <1>3, UpTo, NothingSmaller
<1> QED
  BY <1>4, NothingSmaller
-----------------------------------------------------------------------------
(* Where the pieces of a text end *)

LEMMA PiecesMeasured ==
  /\ \A piece \in Pieces : Length[piece] \in Nat
  /\ \A piece \in DOMAIN Signals : Signals[piece] \in Nat
BY DEF Pieces, Length, Signals

\* Where pieces end: the recursion defines what it says.
LEMMA OffsetsStep ==
  ASSUME NEW text \in Seq(Pieces)
  PROVE  /\ Offsets(text)[0] = 0
         /\ \A n \in 1..Len(text) :
              Offsets(text)[n] = Offsets(text)[n - 1] + Length[text[n]] + 1
         /\ \A n \in 0..Len(text) : Offsets(text)[n] \in Nat
<1> DEFINE Ends(end, m) ==
             end = [n \in 0..m |-> IF n = 0 THEN 0 ELSE end[n - 1] + Length[text[n]] + 1]
           T == {m \in Nat : \E end : Ends(end, m)}
<1>1. Offsets(text) = CHOOSE end : Ends(end, Len(text))
  BY DEF Offsets
<1>2. 0 \in T
  <2>1. Ends([n \in 0..0 |-> 0], 0)
    OBVIOUS
  <2> QED
    BY <2>1
<1>3. ASSUME NEW m \in Nat, m \in T PROVE m + 1 \in T
  <2>1. PICK f : Ends(f, m)
    BY <1>3
  <2> DEFINE g == [n \in 0..(m + 1) |->
                     IF n = 0 THEN 0 ELSE f[n - 1] + Length[text[n]] + 1]
  <2>2. \A n \in 0..m : g[n] = f[n]
    BY <2>1
  <2>3. \A n \in 0..(m + 1) : n # 0 => g[n - 1] = f[n - 1]
    <3> HIDE DEF g
    <3> QED
      BY <2>2
  <2>4. Ends(g, m + 1)
    BY <2>3
  <2> HIDE DEF g, Ends
  <2> QED
    BY <2>4
<1>4. Len(text) \in T
  <2> HIDE DEF T
  <2>1. Len(text) \in Nat /\ \A m \in 0..(Len(text) - 1) : m \in Nat
    OBVIOUS
  <2> QED
    BY <1>2, <1>3, <2>1, UpTo
<1>5. Ends(Offsets(text), Len(text))
  <2>1. \E end : Ends(end, Len(text))
    BY <1>4
  <2> HIDE DEF Ends
  <2> QED
    BY <1>1, <2>1
<1>6. /\ Offsets(text)[0] = 0
      /\ \A n \in 1..Len(text) :
           Offsets(text)[n] = Offsets(text)[n - 1] + Length[text[n]] + 1
  <2> DEFINE end == Offsets(text)
  <2>1. Ends(end, Len(text)) /\ Len(text) \in Nat
    BY <1>5
  <2> HIDE DEF end
  <2>2. end[0] = 0 /\ \A n \in 1..Len(text) : end[n] = end[n - 1] + Length[text[n]] + 1
    BY <2>1
  <2> QED
    BY <2>2 DEF end
<1> DEFINE N == {n \in Nat : n <= Len(text) => Offsets(text)[n] \in Nat}
<1>7. 0 \in N
  BY <1>6
<1>8. ASSUME NEW n \in Nat, n \in N PROVE n + 1 \in N
  <2> SUFFICES ASSUME n + 1 <= Len(text) PROVE Offsets(text)[n + 1] \in Nat
    OBVIOUS
  <2>1. n + 1 \in 1..Len(text) /\ n <= Len(text) /\ (n + 1) - 1 = n
    OBVIOUS
  <2>2. text[n + 1] \in Pieces
    BY <2>1
  <2>3. Length[text[n + 1]] \in Nat /\ Offsets(text)[n] \in Nat
    BY <1>8, <2>1, <2>2, PiecesMeasured
  <2>4. Offsets(text)[n + 1] = Offsets(text)[n] + Length[text[n + 1]] + 1
    BY <1>6, <2>1
  <2> QED
    BY <2>3, <2>4
<1>9. \A n \in 0..Len(text) : n \in N
  <2> TAKE n \in 0..Len(text)
  <2>1. n \in Nat /\ \A m \in 0..(n - 1) : m \in Nat
    OBVIOUS
  <2> HIDE DEF N
  <2> QED
    BY <1>7, <1>8, <2>1, UpTo
<1>10. \A n \in 0..Len(text) : Offsets(text)[n] \in Nat
  <2> TAKE n \in 0..Len(text)
  <2>1. n \in N /\ n <= Len(text)
    <3> HIDE DEF N
    <3> QED
      BY <1>9
  <2> QED
    BY <2>1
<1> QED
  BY <1>6, <1>10

\* The pieces from one to another take the difference.
LEMMA Between ==
  ASSUME NEW text \in Seq(Pieces), NEW i \in 1..Len(text), NEW j \in 1..(i - 1)
  PROVE  MapThenSumSet(LAMBDA k : Length[text[k]] + 1, j..(i - 1)) =
           Offsets(text)[i - 1] - Offsets(text)[j - 1]
<1> DEFINE S == j..(i - 1)
           end == Offsets(text)
           Width(k) == Length[text[k]] + 1
           v == [k \in S |-> Width(k)]
           Sums(g) == g = [s \in SUBSET S |->
                             IF s = {} THEN 0 ELSE Width(Pick(s)) + g[s \ {Pick(s)}]]
           f == CHOOSE g : Sums(g)
<1>1. MapThenSumSet(LAMBDA k : Length[text[k]] + 1, S) = f[S]
  BY Zenon DEF MapThenSumSet, MapThenFoldSet, Pick
<1>2. \A g : Sums(g) <=> AddsUp(g, v, S)
  <2> TAKE g
  <2>1. \A s \in SUBSET S : s # {} => Pick(s) \in S
    BY DEF Pick
  <2>2. \A s \in SUBSET S : s # {} => v[Pick(s)] = Width(Pick(s))
    <3> HIDE DEF S, Width
    <3> QED
      BY <2>1
  <2> HIDE DEF S, Width, v
  <2> QED
    BY <2>2 DEF AddsUp
<1>3. IsFiniteSet(S)
  BY FS_Interval
<1>4. \A k \in S : v[k] = Length[text[k]] + 1 /\ v[k] \in Int
  <2> TAKE k \in S
  <2>1. text[k] \in Pieces
    OBVIOUS
  <2>2. Length[text[k]] \in Nat
    BY <2>1, PiecesMeasured
  <2> QED
    BY <2>2
<1>5. AddsUp(f, v, S)
  <2> HIDE DEF Sums, v, S
  <2>1. \E g : Sums(g)
    BY <1>2, <1>3, FoldExists
  <2> QED
    BY <1>2, <2>1
<1> HIDE DEF f, v
<1>6. \A s \in SUBSET S : f[s] \in Int /\ \A x \in s : f[s] = v[x] + f[s \ {x}]
  <2> HIDE DEF S
  <2> QED
    BY <1>3, <1>4, <1>5, AnyFirst
<1>7. f[{}] = 0
  BY <1>5 DEF AddsUp
<1>8. /\ \A n \in 0..Len(text) : end[n] \in Nat
      /\ \A n \in 1..Len(text) : end[n] = end[n - 1] + Length[text[n]] + 1
  BY OffsetsStep
<1> HIDE DEF end
<1> DEFINE T == {n \in Nat : n <= i - j => f[j..(j + n - 1)] = end[j + n - 1] - end[j - 1]}
<1>9. 0 \in T
  <2>1. j..(j + 0 - 1) = {} /\ j + 0 - 1 = j - 1 /\ j - 1 \in 0..Len(text)
    OBVIOUS
  <2>2. end[j - 1] - end[j - 1] = 0
    BY <1>8, <2>1
  <2> QED
    BY <1>7, <2>1, <2>2
<1>10. ASSUME NEW n \in 0..(i - j - 1), n \in T PROVE n + 1 \in T
  <2> DEFINE k == j + n
  <2>1. /\ k \in S /\ k \in 1..Len(text) /\ n \in Nat /\ n <= i - j
        /\ j + (n + 1) - 1 = k /\ j + n - 1 = k - 1
        /\ j..k \in SUBSET S /\ k \in j..k /\ (j..k) \ {k} = j..(k - 1)
        /\ j - 1 \in 0..Len(text) /\ k - 1 \in 0..Len(text)
    OBVIOUS
  <2>2. f[j..(k - 1)] = end[k - 1] - end[j - 1]
    BY <1>10, <2>1
  <2> HIDE DEF k, S
  <2>3. f[j..k] = v[k] + f[j..(k - 1)]
    BY <1>6, <2>1
  <2>4. v[k] = Length[text[k]] + 1 /\ v[k] \in Int /\ end[k] = end[k - 1] + Length[text[k]] + 1
    BY <1>4, <1>8, <2>1
  <2>5. text[k] \in Pieces
    BY <2>1
  <2>6. Length[text[k]] \in Nat /\ end[k - 1] \in Nat /\ end[j - 1] \in Nat
    BY <1>8, <2>1, <2>5, PiecesMeasured
  <2>7. f[j..k] = end[k] - end[j - 1]
    BY <2>2, <2>3, <2>4, <2>6
  <2> QED
    BY <2>1, <2>7
<1>11. i - j \in Nat /\ j + (i - j) - 1 = i - 1
  OBVIOUS
<1>12. i - j \in T
  <2> HIDE DEF T
  <2> QED
    BY <1>9, <1>10, <1>11, UpTo
<1>13. f[S] = end[i - 1] - end[j - 1]
  <2>1. f[j..(j + (i - j) - 1)] = end[j + (i - j) - 1] - end[j - 1]
    BY <1>11, <1>12
  <2> QED
    BY <1>11, <2>1
<1> QED
  BY <1>1, <1>13, Zenon DEF end

\* A date is redacted just when a birth word begins close enough before it.
LEMMA BirthdaySeen ==
  ASSUME NEW text \in Seq(Pieces), NEW i \in 1..Len(text), text[i] = "date"
  PROVE  OfBirth(text, i) <=> Birthday(text, i)
<1> DEFINE Wide(j) == MapThenSumSet(LAMBDA k : Length[text[k]] + 1, j..(i - 1))
           Apart(j) == Offsets(text)[i - 1] - Offsets(text)[j - 1]
<1>1. OfBirth(text, i) <=>
        \E j \in 1..(i - 1) :
          text[j] \in DOMAIN Signals /\ Apart(j) <= 40 + Signals[text[j]]
  BY Zenon DEF OfBirth
<1>2. Birthday(text, i) <=>
        /\ text[i] = "date"
        /\ \E j \in 1..(i - 1) :
             text[j] \in DOMAIN Signals /\ Wide(j) <= 40 + Signals[text[j]]
  BY Zenon DEF Birthday
<1>3. \A j \in 1..(i - 1) : Wide(j) = Apart(j)
  BY Between, Zenon
<1> HIDE DEF Wide, Apart
<1>4. (\E j \in 1..(i - 1) : text[j] \in DOMAIN Signals /\ Wide(j) <= 40 + Signals[text[j]])
        <=> (\E j \in 1..(i - 1) : text[j] \in DOMAIN Signals /\ Apart(j) <= 40 + Signals[text[j]])
  BY <1>3
<1> QED
  BY <1>1, <1>2, <1>4
-----------------------------------------------------------------------------
(* What redaction makes of a text *)

\* What is put in the place of what identifies a person.
Masks ==
  [date |-> "DOB_REDACTED", ssn |-> "NATIONAL_ID_REDACTED", passport |-> "PASSPORT_REDACTED",
   mixed |-> "PASSPORT_REDACTED", email |-> "EMAIL_REDACTED", phone |-> "PHONE_REDACTED",
   digits |-> "ACCT_REDACTED"]
Special == {"ssn", "passport", "mixed"}
Places(text) == {i \in 1..Len(text) : Personal(text, i)}

\* A mask is a placeholder, and tells the article.
LEMMA MasksCite ==
  ASSUME NEW piece \in DOMAIN Masks
  PROVE  /\ Masks[piece] \in Placeholders /\ Masks[piece] # piece
         /\ \E k \in DOMAIN Rules : Masks[piece] = Rules[k].replacement
         /\ \A k \in DOMAIN Rules : Masks[piece] = Rules[k].replacement =>
              Rules[k].article = IF piece \in Special THEN "article9" ELSE "article5"
<1>1. piece \in {"date", "ssn", "passport", "mixed", "email", "phone", "digits"}
  BY DEF Masks
<1>2. \A k \in 1..6 : k = 1 \/ k = 2 \/ k = 3 \/ k = 4 \/ k = 5 \/ k = 6
  OBVIOUS
<1>3. Masks[piece] # piece
  BY <1>1 DEF Masks
<1>4. \E k \in DOMAIN Rules : Masks[piece] = Rules[k].replacement
  BY <1>1, RulesAsListed DEF Masks
<1>5. ASSUME NEW k \in DOMAIN Rules, Masks[piece] = Rules[k].replacement
      PROVE  Rules[k].article = IF piece \in Special THEN "article9" ELSE "article5"
  <2>1. k = 1 \/ k = 2 \/ k = 3 \/ k = 4 \/ k = 5 \/ k = 6
    BY <1>2, RulesAsListed
  <2>2. k \in {2, 3} <=> piece \in Special
    BY <1>1, <1>5, <2>1, RulesAsListed DEF Masks, Special
  <2> QED
    BY <2>2, RulesAsListed
<1> QED
  BY <1>3, <1>4, <1>5 DEF Placeholders

\* The first rule that matches a piece replaces it.
LEMMA FirstMatch ==
  ASSUME NEW text \in Seq(Pieces), NEW i \in 1..Len(text), NEW k \in 1..6,
         text[i] \in Rules[k].matches, text[i] = "date" => OfBirth(text, i),
         \A n \in 1..6 : text[i] \in Rules[n].matches => k <= n
  PROVE  redact_text(text)[i] = Rules[k].replacement
<1>1. k \in Matching(text, i) /\ \A n \in Matching(text, i) : n \in 1..6 /\ k <= n
  BY RulesAsListed DEF Matching
<1>2. Min(Matching(text, i)) = k
  <2> DEFINE S == Matching(text, i)
  <2>1. k \in S /\ \A n \in S : n \in Int /\ k <= n
    BY <1>1
  <2> HIDE DEF S
  <2>2. \A x \in S : (\A y \in S : x <= y) => x = k
    BY <2>1
  <2>3. Min(S) = k
    BY <2>1, <2>2 DEF Min
  <2> QED
    BY <2>3 DEF S
<1> QED
  BY <1>1, <1>2 DEF redact_text

\* What identifies a person is masked, and nothing else is changed.
LEMMA RedactedAt ==
  ASSUME NEW text \in Seq(Pieces), NEW i \in 1..Len(text)
  PROVE  /\ Personal(text, i) => text[i] \in DOMAIN Masks
         /\ redact_text(text)[i] = IF Personal(text, i) THEN Masks[text[i]] ELSE text[i]
<1>1. Personal(text, i) <=> \/ text[i] \in {"ssn", "passport", "mixed", "email", "phone", "digits"}
                            \/ text[i] = "date" /\ OfBirth(text, i)
  <2>1. text[i] # "date" => ~Birthday(text, i)
    BY DEF Birthday
  <2> QED
    BY <2>1, BirthdaySeen DEF Personal
<1>2. \A n \in 1..6 : n = 1 \/ n = 2 \/ n = 3 \/ n = 4 \/ n = 5 \/ n = 6
  OBVIOUS
<1>3. CASE text[i] = "date" /\ OfBirth(text, i)
  <2>1. redact_text(text)[i] = Rules[1].replacement
    BY <1>3, FirstMatch, RulesAsListed
  <2> QED
    BY <1>1, <1>3, <2>1, RulesAsListed DEF Masks
<1>4. CASE text[i] = "ssn"
  <2>1. redact_text(text)[i] = Rules[2].replacement
    <3>1. \A n \in 1..6 : text[i] \in Rules[n].matches => 2 <= n
      BY <1>2, <1>4, RulesAsListed
    <3> QED
      BY <1>4, <3>1, FirstMatch, RulesAsListed
  <2> QED
    BY <1>1, <1>4, <2>1, RulesAsListed DEF Masks
<1>5. CASE text[i] \in {"passport", "mixed"}
  <2>1. redact_text(text)[i] = Rules[3].replacement
    <3>1. \A n \in 1..6 : text[i] \in Rules[n].matches => 3 <= n
      BY <1>2, <1>5, RulesAsListed
    <3> QED
      BY <1>5, <3>1, FirstMatch, RulesAsListed
  <2> QED
    BY <1>1, <1>5, <2>1, RulesAsListed DEF Masks
<1>6. CASE text[i] = "email"
  <2>1. redact_text(text)[i] = Rules[4].replacement
    <3>1. \A n \in 1..6 : text[i] \in Rules[n].matches => 4 <= n
      BY <1>2, <1>6, RulesAsListed
    <3> QED
      BY <1>6, <3>1, FirstMatch, RulesAsListed
  <2> QED
    BY <1>1, <1>6, <2>1, RulesAsListed DEF Masks
<1>7. CASE text[i] = "phone"
  <2>1. redact_text(text)[i] = Rules[5].replacement
    <3>1. \A n \in 1..6 : text[i] \in Rules[n].matches => 5 <= n
      BY <1>2, <1>7, RulesAsListed
    <3> QED
      BY <1>7, <3>1, FirstMatch, RulesAsListed
  <2> QED
    BY <1>1, <1>7, <2>1, RulesAsListed DEF Masks
<1>8. CASE text[i] = "digits"
  <2>1. redact_text(text)[i] = Rules[6].replacement
    <3>1. \A n \in 1..6 : text[i] \in Rules[n].matches => 6 <= n
      BY <1>2, <1>8, RulesAsListed
    <3> QED
      BY <1>8, <3>1, FirstMatch, RulesAsListed
  <2> QED
    BY <1>1, <1>8, <2>1, RulesAsListed DEF Masks
<1>9. CASE ~Personal(text, i)
  <2>1. \A n \in 1..6 : text[i] \in Rules[n].matches => text[i] = "date" /\ ~OfBirth(text, i)
    BY <1>1, <1>2, <1>9, RulesAsListed
  <2>2. Matching(text, i) = {}
    BY <2>1, RulesAsListed DEF Matching
  <2> QED
    BY <1>9, <2>2 DEF redact_text
<1> QED
  BY <1>1, <1>3, <1>4, <1>5, <1>6, <1>7, <1>8, <1>9

\* The places that are changed are those, and the articles that are cited tell which.
LEMMA ChangedPlaces ==
  ASSUME NEW text \in Seq(Pieces)
  PROVE  LET after == redact_text(text) IN
         /\ Changed(text, after) = Places(text)
         /\ ArticlesFor(text, after) =
              {IF text[i] \in Special THEN "article9" ELSE "article5" : i \in Places(text)}
<1> DEFINE after == redact_text(text)
<1>1. DOMAIN text = 1..Len(text)
  OBVIOUS
<1>2. Changed(text, after) = Places(text)
  <2>1. ASSUME NEW i \in 1..Len(text) PROVE after[i] # text[i] <=> Personal(text, i)
    BY RedactedAt, MasksCite
  <2> HIDE DEF after
  <2> QED
    BY <1>1, <2>1 DEF Changed, Places
<1>3. ASSUME NEW i \in Places(text)
      PROVE  /\ \E k \in DOMAIN Rules : after[i] = Rules[k].replacement
             /\ \A k \in DOMAIN Rules : after[i] = Rules[k].replacement =>
                  Rules[k].article = IF text[i] \in Special THEN "article9" ELSE "article5"
  <2>1. i \in 1..Len(text) /\ Personal(text, i)
    BY DEF Places
  <2>2. text[i] \in DOMAIN Masks /\ after[i] = Masks[text[i]]
    BY <2>1, RedactedAt
  <2> HIDE DEF after
  <2> QED
    BY <2>2, MasksCite
<1> HIDE DEF after
<1>4. ASSUME NEW article
      PROVE  article \in ArticlesFor(text, after) <=>
               \E k \in DOMAIN Rules : /\ article = Rules[k].article
                                       /\ \E i \in Places(text) : after[i] = Rules[k].replacement
  BY <1>2 DEF ArticlesFor
<1>5. ArticlesFor(text, after) =
        {IF text[i] \in Special THEN "article9" ELSE "article5" : i \in Places(text)}
  BY <1>3, <1>4
<1> QED
  BY <1>2, <1>5 DEF after
-----------------------------------------------------------------------------
(* What redaction makes of a draft *)

\* The personal pieces of a draft are those of its two texts.
LEMMA PersonalPieces ==
  ASSUME NEW draft, draft.subject \in Seq(Pieces), draft.narrative \in Seq(Pieces)
  PROVE  /\ PersonalIn(draft) = ({"subject"} \X Places(draft.subject))
                                  \cup ({"narrative"} \X Places(draft.narrative))
         /\ Cardinality(PersonalIn(draft)) =
              Cardinality(Places(draft.subject)) + Cardinality(Places(draft.narrative))
<1> DEFINE A == Places(draft.subject)
           B == Places(draft.narrative)
<1>1. /\ Len(draft.subject) \in Nat /\ DOMAIN draft.subject = 1..Len(draft.subject)
      /\ Len(draft.narrative) \in Nat /\ DOMAIN draft.narrative = 1..Len(draft.narrative)
  OBVIOUS
<1>2. ASSUME NEW p
      PROVE  p \in PersonalIn(draft) <=> p \in ({"subject"} \X A) \cup ({"narrative"} \X B)
  <2>0. \A m, n \in Nat : 1..m \subseteq 1..(m + n) /\ 1..n \subseteq 1..(m + n)
    OBVIOUS
  <2>1. \A i : /\ i \in 1..Len(draft.subject) => i \in 1..(Len(draft.subject) + Len(draft.narrative))
               /\ i \in 1..Len(draft.narrative) => i \in 1..(Len(draft.subject) + Len(draft.narrative))
    BY <1>1, <2>0
  <2>2. CASE p \in {"subject", "narrative"} \X (1..(Len(draft.subject) + Len(draft.narrative)))
    <3>1. p \in PersonalIn(draft) <=> p[2] \in DOMAIN draft[p[1]] /\ Personal(draft[p[1]], p[2])
      BY <2>2 DEF PersonalIn
    <3>2. CASE p[1] = "subject"
      <4>1. p \in PersonalIn(draft) <=> p[2] \in 1..Len(draft.subject) /\ Personal(draft.subject, p[2])
        BY <1>1, <3>1, <3>2
      <4>2. p = <<"subject", p[2]>>
        BY <2>2, <3>2
      <4> QED
        BY <4>1, <4>2 DEF Places
    <3>3. CASE p[1] = "narrative"
      <4>1. p \in PersonalIn(draft) <=> p[2] \in 1..Len(draft.narrative) /\ Personal(draft.narrative, p[2])
        BY <1>1, <3>1, <3>3
      <4>2. p = <<"narrative", p[2]>>
        BY <2>2, <3>3
      <4> QED
        BY <4>1, <4>2 DEF Places
    <3> QED
      BY <2>2, <3>2, <3>3
  <2>3. CASE p \notin {"subject", "narrative"} \X (1..(Len(draft.subject) + Len(draft.narrative)))
    <3>1. p \notin PersonalIn(draft)
      BY <2>3 DEF PersonalIn
    <3>2. p \notin ({"subject"} \X A) \cup ({"narrative"} \X B)
      BY <2>1, <2>3 DEF Places
    <3> QED
      BY <3>1, <3>2
  <2> QED
    BY <2>2, <2>3
<1>3. PersonalIn(draft) = ({"subject"} \X A) \cup ({"narrative"} \X B)
  <2> HIDE DEF A, B
  <2> QED
    BY <1>2
<1>4. IsFiniteSet(A) /\ IsFiniteSet(B)
  <2>1. A \subseteq 1..Len(draft.subject) /\ B \subseteq 1..Len(draft.narrative)
    BY DEF Places
  <2>2. \A n \in Nat : IsFiniteSet(1..n)
    <3> TAKE n \in Nat
    <3> QED
      BY FS_Interval
  <2> HIDE DEF A, B
  <2> QED
    BY <1>1, <2>1, <2>2, FS_Subset
<1> HIDE DEF A, B
<1>5. Cardinality(A) \in Nat /\ Cardinality(B) \in Nat
  BY <1>4, FS_CardinalityType
<1>6. ASSUME NEW name, NEW S, IsFiniteSet(S), Cardinality(S) \in Nat
      PROVE  IsFiniteSet({name} \X S) /\ Cardinality({name} \X S) = Cardinality(S)
  <2>1. IsFiniteSet({name}) /\ Cardinality({name}) = 1
    BY FS_Singleton
  <2>2. IsFiniteSet({name} \X S) /\ Cardinality({name} \X S) = 1 * Cardinality(S)
    BY <1>6, <2>1, FS_Product, Zenon
  <2> QED
    BY <1>6, <2>2
<1>7. IsFiniteSet({"subject"} \X A) /\ Cardinality({"subject"} \X A) = Cardinality(A)
  BY <1>4, <1>5, <1>6, Zenon
<1>8. IsFiniteSet({"narrative"} \X B) /\ Cardinality({"narrative"} \X B) = Cardinality(B)
  BY <1>4, <1>5, <1>6, Zenon
<1>9. ({"subject"} \X A) \cap ({"narrative"} \X B) = {}
  OBVIOUS
<1>10. Cardinality(({"subject"} \X A) \cup ({"narrative"} \X B)) = Cardinality(A) + Cardinality(B)
  <2>1. Cardinality(({"subject"} \X A) \cup ({"narrative"} \X B)) =
          Cardinality({"subject"} \X A) + Cardinality({"narrative"} \X B)
            - Cardinality(({"subject"} \X A) \cap ({"narrative"} \X B))
    BY <1>7, <1>8, FS_Union, Zenon
  <2>2. Cardinality(({"subject"} \X A) \cap ({"narrative"} \X B)) = 0
    BY <1>9, FS_EmptySet, Zenon
  <2>3. Cardinality(({"subject"} \X A) \cup ({"narrative"} \X B)) = Cardinality(A) + Cardinality(B) - 0
    BY <1>7, <1>8, <2>1, <2>2, Zenon
  <2> QED
    BY <1>5, <2>3
<1> QED
  BY <1>3, <1>10 DEF A, B

\* Whatever the model drafts, redact_sar redacts it well.
LEMMA RedactsWell ==
  ASSUME NEW draft,
         draft \in [subject : Seq(Pieces), narrative : Seq(Pieces), flags : SUBSET Pieces,
                    basis : SUBSET {"generic", "article5", "article9"}]
  PROVE  WellRedacted(draft, redact_sar(draft))
<1> DEFINE personal == PersonalIn(draft)
           article9 == {p \in personal : draft[p[1]][p[2]] \in {"ssn", "passport", "mixed"}}
<1>1. draft.subject \in Seq(Pieces) /\ draft.narrative \in Seq(Pieces)
  OBVIOUS
<1>2. PICK subject : subject = redact_text(draft.subject)
  OBVIOUS
<1>3. PICK narrative : narrative = redact_text(draft.narrative)
  OBVIOUS
<1>4. PICK text : text = redact_sar(draft)
  OBVIOUS
<1>5. /\ text.subject = subject /\ text.narrative = narrative
      /\ text.flags = mask_account_in_list(draft.flags)
      /\ text.basis = draft.basis \cup ArticlesFor(draft.subject, subject)
                                  \cup ArticlesFor(draft.narrative, narrative)
      /\ text.redactions = Cardinality(Changed(draft.subject, subject))
                             + Cardinality(Changed(draft.narrative, narrative))
  BY <1>2, <1>3, <1>4 DEF redact_sar
<1>6. personal = ({"subject"} \X Places(draft.subject)) \cup ({"narrative"} \X Places(draft.narrative))
  BY <1>1, PersonalPieces
<1>7. \A p \in personal : \/ p[1] = "subject" /\ p[2] \in Places(draft.subject)
                          \/ p[1] = "narrative" /\ p[2] \in Places(draft.narrative)
  BY <1>6
<1>8. /\ \A i \in Places(draft.subject) : \E p \in personal : p[1] = "subject" /\ p[2] = i
      /\ \A i \in Places(draft.narrative) : \E p \in personal : p[1] = "narrative" /\ p[2] = i
  <2>1. /\ \A i \in Places(draft.subject) : <<"subject", i>> \in personal
        /\ \A i \in Places(draft.narrative) : <<"narrative", i>> \in personal
    BY <1>6
  <2>2. \A field, i : <<field, i>>[1] = field /\ <<field, i>>[2] = i
    OBVIOUS
  <2> HIDE DEF personal
  <2> QED
    BY <2>1, <2>2, Zenon
<1>9. ASSUME NEW field \in {"subject", "narrative"}, NEW i \in DOMAIN draft[field]
      PROVE  IF <<field, i>> \in personal
             THEN text[field][i] \in Placeholders ELSE text[field][i] = draft[field][i]
  <2>1. PICK before : before = draft[field]
    OBVIOUS
  <2>2. before \in Seq(Pieces) /\ i \in 1..Len(before) /\ text[field] = redact_text(before)
    BY <1>1, <1>2, <1>3, <1>5, <1>9, <2>1
  <2>3. <<field, i>> \in personal <=> Personal(before, i)
    <3>1. <<field, i>> \in personal <=> i \in Places(before)
      BY <1>6, <2>1
    <3> QED
      BY <2>2, <3>1 DEF Places
  <2> HIDE DEF personal
  <2> QED
    BY <2>1, <2>2, <2>3, RedactedAt, MasksCite
<1>10. text.redactions = Cardinality(personal)
  BY <1>1, <1>2, <1>3, <1>5, ChangedPlaces, PersonalPieces
<1>11. text.basis = draft.basis \cup (IF article9 = {} THEN {} ELSE {"article9"})
                               \cup (IF personal = article9 THEN {} ELSE {"article5"})
  <2> DEFINE Cited(before) ==
               {IF before[i] \in Special THEN "article9" ELSE "article5" : i \in Places(before)}
  <2>1. text.basis = draft.basis \cup Cited(draft.subject) \cup Cited(draft.narrative)
    BY <1>1, <1>2, <1>3, <1>5, ChangedPlaces
  <2>2. ASSUME NEW before
        PROVE  /\ Cited(before) \subseteq {"article5", "article9"}
               /\ "article9" \in Cited(before) <=> \E i \in Places(before) : before[i] \in Special
               /\ "article5" \in Cited(before) <=> \E i \in Places(before) : before[i] \notin Special
    OBVIOUS
  <2> HIDE DEF Cited
  <2>3. article9 # {} <=> \/ \E i \in Places(draft.subject) : draft.subject[i] \in Special
                          \/ \E i \in Places(draft.narrative) : draft.narrative[i] \in Special
    <3>1. article9 # {} <=> \E p \in personal : draft[p[1]][p[2]] \in Special
      BY DEF Special
    <3>2. (\E p \in personal : draft[p[1]][p[2]] \in Special) <=>
            \/ \E i \in Places(draft.subject) : draft["subject"][i] \in Special
            \/ \E i \in Places(draft.narrative) : draft["narrative"][i] \in Special
      <4> DEFINE Held(field, i) == draft[field][i] \in Special
      <4> HIDE DEF Held, personal
      <4>1. (\E p \in personal : Held(p[1], p[2])) <=>
              \/ \E i \in Places(draft.subject) : Held("subject", i)
              \/ \E i \in Places(draft.narrative) : Held("narrative", i)
        BY <1>7, <1>8
      <4> QED
        BY <4>1 DEF Held
    <3> HIDE DEF article9, personal
    <3> QED
      BY <3>1, <3>2
  <2>4. personal # article9 <=> \/ \E i \in Places(draft.subject) : draft.subject[i] \notin Special
                                \/ \E i \in Places(draft.narrative) : draft.narrative[i] \notin Special
    <3>1. personal # article9 <=> \E p \in personal : draft[p[1]][p[2]] \notin Special
      BY DEF Special
    <3>2. (\E p \in personal : draft[p[1]][p[2]] \notin Special) <=>
            \/ \E i \in Places(draft.subject) : draft["subject"][i] \notin Special
            \/ \E i \in Places(draft.narrative) : draft["narrative"][i] \notin Special
      <4> DEFINE Held(field, i) == draft[field][i] \notin Special
      <4> HIDE DEF Held, personal
      <4>1. (\E p \in personal : Held(p[1], p[2])) <=>
              \/ \E i \in Places(draft.subject) : Held("subject", i)
              \/ \E i \in Places(draft.narrative) : Held("narrative", i)
        BY <1>7, <1>8
      <4> QED
        BY <4>1 DEF Held
    <3> HIDE DEF article9, personal
    <3> QED
      BY <3>1, <3>2
  <2>5. "article9" \in Cited(draft.subject) \cup Cited(draft.narrative) <=> article9 # {}
    BY <2>2, <2>3
  <2>6. "article5" \in Cited(draft.subject) \cup Cited(draft.narrative) <=> personal # article9
    BY <2>2, <2>4
  <2>7. Cited(draft.subject) \cup Cited(draft.narrative) =
          (IF article9 = {} THEN {} ELSE {"article9"})
            \cup (IF personal = article9 THEN {} ELSE {"article5"})
    <3> HIDE DEF personal, article9
    <3> QED
      BY <2>2, <2>5, <2>6
  <2> HIDE DEF personal, article9
  <2> QED
    BY <2>1, <2>7
<1>12. "digits" \notin text.flags
  BY <1>5 DEF mask_account_in_list
<1> QED
  BY <1>4, <1>9, <1>10, <1>11, <1>12 DEF WellRedacted

-----------------------------------------------------------------------------
\* A SAR of a result holds the text that redact_sar made of its draft.
SarIsRedacted(result) ==
  result.sar.drafted =>
    result.sar.draft \in AllDrafts /\ result.sar.text = Redacted[result.sar.draft]
SarsRedacted == \A c \in DOMAIN results_cache : SarIsRedacted(results_cache[c])

LEMMA SarRedacted ==
  ASSUME NEW held, NEW appendix, NEW draft \in AllDrafts
  PROVE  /\ Sar(held, appendix, draft).draft = draft
         /\ Sar(held, appendix, draft).text = Redacted[draft]
BY DEF Sar

\* A result is cached only with a SAR like that, or without one.
LEMMA CachedRedacted ==
  ASSUME SarsRedacted, NEW r, NEW result, SarIsRedacted(result), Complete(r, result)
  PROVE  SarsRedacted'
<1>1. results_cache' = [c \in DOMAIN results_cache \cup {request[r].client} |->
        IF c = request[r].client THEN result ELSE results_cache[c]]
  BY DEF Complete
<1>2. \A c \in DOMAIN results_cache' : SarIsRedacted(results_cache'[c])
  BY <1>1 DEF SarsRedacted
<1> QED
  BY <1>2 DEF SarsRedacted, SarIsRedacted

LEMMA VerdictRedacted ==
  ASSUME IInv, SarsRedacted, NEW r \in Requests, NEW verdict \in Verdicts,
         VerdictArrives(r, verdict)
  PROVE  SarsRedacted'
<1>1. CASE verdict = "escalate_to_sar"
  BY <1>1 DEF VerdictArrives, SarsRedacted, SarIsRedacted
<1>2. CASE verdict # "escalate_to_sar"
  <2>1. PICK result : result = Result(r, verdict, None)
    OBVIOUS
  <2>2. Complete(r, result)
    BY <1>2, <2>1 DEF VerdictArrives
  <2>3. SarIsRedacted(result)
    BY <2>1 DEF SarIsRedacted, Result, None
  <2> QED
    BY <2>2, <2>3, CachedRedacted
<1> QED
  BY <1>1, <1>2

LEMMA SarArrivesRedacted ==
  ASSUME IInv, SarsRedacted, NEW r \in Requests, NEW appendix \in Citings,
         NEW draft \in Drafts, SarArrives(r, appendix, draft)
  PROVE  SarsRedacted'
<1>1. request[r].pc = "drafting" /\ TypeOK
  BY DEF SarArrives, IInv
<1>2. PICK memory \in Verification(appendix) :
        Complete(r, [request[r].pending EXCEPT
             !.lost = @ \cup Lost(memory.caches, appendix),
             !.sar = Sar(memory.caches, appendix, draft)])
  BY DEF SarArrives
<1>3. PICK pending \in ResultType : pending = request[r].pending
  BY <1>1, StageTyped
<1>4. PICK lost : lost = pending.lost \cup Lost(memory.caches, appendix)
  OBVIOUS
<1>5. PICK sar : sar = Sar(memory.caches, appendix, draft)
  OBVIOUS
<1>6. PICK result : result = [pending EXCEPT !.lost = lost, !.sar = sar]
  OBVIOUS
<1>7. Complete(r, result)
  BY <1>2, <1>3, <1>4, <1>5, <1>6
<1>8. result.sar = sar
  BY <1>3, <1>6 DEF ResultType
<1>9. draft \in AllDrafts
  BY DEF AllDrafts
<1>10. SarIsRedacted(result)
  BY <1>5, <1>8, <1>9, SarRedacted DEF SarIsRedacted
<1> QED
  BY <1>7, <1>10, CachedRedacted

LEMMA PostDemoRedacted ==
  ASSUME IInv, SarsRedacted, NEW c \in Clients \cup Strangers, PostDemo(c)
  PROVE  SarsRedacted'
<1>1. CASE UNCHANGED results_cache
  BY <1>1 DEF SarsRedacted, SarIsRedacted
<1>2. CASE ~UNCHANGED results_cache
  <2>1. PICK held, first :
          results_cache' = [d \in DOMAIN results_cache \cup {c} |->
            IF d = c THEN DemoResult(held, c, first) ELSE results_cache[d]]
    BY <1>2 DEF PostDemo
  <2>2. PICK result : result = DemoResult(held, c, first)
    OBVIOUS
  <2>3. SarIsRedacted(result)
    <3>1. PICK evidence : evidence = Verified(held, demo_finding(held, c))
      OBVIOUS
    <3>2. result.sar = IF Elevated(held, c) THEN Sar(held, evidence, demo_sar(evidence)) ELSE None
      BY <2>2, <3>1 DEF DemoResult
    <3>3. CASE Elevated(held, c)
      <4>1. c \in Clients \cup BuiltIn
        BY <1>2 DEF PostDemo, Profiled
      <4>2. evidence \in SUBSET Citations
        BY <3>1, <4>1, DemoFindingResolves, VerifiedResolves
      <4>3. demo_sar(evidence) \in AllDrafts
        BY <4>2 DEF AllDrafts
      <4> QED
        BY <3>2, <3>3, <4>3, SarRedacted DEF SarIsRedacted
    <3>4. CASE ~Elevated(held, c)
      BY <3>2, <3>4 DEF SarIsRedacted, None
    <3> QED
      BY <3>3, <3>4
  <2>4. \A d \in DOMAIN results_cache' : SarIsRedacted(results_cache'[d])
    BY <2>1, <2>2, <2>3 DEF SarsRedacted
  <2> QED
    BY <2>4 DEF SarsRedacted, SarIsRedacted
<1> QED
  BY <1>1, <1>2

-----------------------------------------------------------------------------
\* A SAR of a result has its articles from the loader.
CitesWhatWasRead(result, globals) ==
  result.sar.drafted /\ AsksForArticles(result.sar.text) => globals["gdpr"] = "whole"
ArticlesRead == \A c \in DOMAIN results_cache : CitesWhatWasRead(results_cache[c], caches)

\* The articles stay in memory.
ArticlesStay == caches["gdpr"] = "whole" => caches'["gdpr"] = "whole"

LEMMA RememberedStay ==
  ASSUME TypeOK, LoadsAccounted, Next
  PROVE  ArticlesStay \/ Restart
<1>1. \A memory : Told(memory) /\ Remember(memory) => ArticlesStay
  BY DEF Told, Remember, ArticlesStay
<1>2. CASE \E r \in Requests, c \in Clients \cup Strangers : Post(r, c)
  BY <1>1, <1>2, GatheringTold DEF Post
<1>3. CASE \E r \in Requests : Answer(r)
  <2>1. PICK r \in Requests : Answer(r)
    BY <1>3
  <2>2. \A cited \in Citings : \A memory \in Verification(cited) :
          Told(memory) /\ \A draft : Told(Redaction(memory, draft))
    BY VerificationTold, RedactionTold, CitationsAssumption
  <2>3. CASE \E cited \in Citings : FindingArrives(r, cited)
    BY <1>1, <2>2, <2>3 DEF FindingArrives
  <2>4. CASE \E cited \in Citings, side \in {"prosecution", "defense"} :
               ArgumentArrives(r, side, cited)
    BY <2>4 DEF ArgumentArrives, ArticlesStay
  <2>5. CASE \E cited \in Citings, draft \in Drafts : SarArrives(r, cited, draft)
    BY <1>1, <2>2, <2>5 DEF SarArrives
  <2>6. CASE \E cited \in Citings : Unverifiable(r, cited)
    BY <1>1, <2>2, <2>6 DEF Unverifiable
  <2>7. CASE \E cited \in Citings, draft \in Drafts : Unservable(r, cited, draft)
    BY <1>1, <2>2, <2>7 DEF Unservable
  <2>8. CASE \E verdict \in Verdicts : VerdictArrives(r, verdict)
    BY <2>8 DEF VerdictArrives, ArticlesStay
  <2>9. CASE Stops(r) /\ UNCHANGED <<caches, failed>>
    BY <2>9 DEF ArticlesStay
  <2> QED
    BY <2>1, <2>3, <2>4, <2>5, <2>6, <2>7, <2>8, <2>9 DEF Answer
<1>4. CASE \E c \in Clients \cup Strangers : PostDemo(c)
  BY <1>1, <1>4, GatheringTold, DemoLoadedTold DEF PostDemo
<1>5. CASE ListClients
  BY <1>1, <1>5, GatheringTold DEF ListClients
<1> QED
  BY <1>2, <1>3, <1>4, <1>5 DEF Next

\* A result is cached only with what the loader holds by then.
LEMMA CachedRead ==
  ASSUME ArticlesRead, ArticlesStay, NEW r, NEW result, Complete(r, result),
         CitesWhatWasRead(result, caches')
  PROVE  ArticlesRead'
<1>1. results_cache' = [c \in DOMAIN results_cache \cup {request[r].client} |->
        IF c = request[r].client THEN result ELSE results_cache[c]]
  BY DEF Complete
<1>2. \A c \in DOMAIN results_cache' : CitesWhatWasRead(results_cache'[c], caches')
  BY <1>1 DEF ArticlesRead, ArticlesStay, CitesWhatWasRead
<1> QED
  BY <1>2 DEF ArticlesRead, CitesWhatWasRead

LEMMA VerdictRead ==
  ASSUME ArticlesRead, ArticlesStay, NEW r \in Requests, NEW verdict \in Verdicts,
         VerdictArrives(r, verdict)
  PROVE  ArticlesRead'
<1>1. CASE verdict = "escalate_to_sar"
  BY <1>1 DEF VerdictArrives, ArticlesRead, ArticlesStay, CitesWhatWasRead
<1>2. CASE verdict # "escalate_to_sar"
  <2>1. PICK result : result = Result(r, verdict, None)
    OBVIOUS
  <2>2. Complete(r, result)
    BY <1>2, <2>1 DEF VerdictArrives
  <2>3. ~result.sar.drafted
    BY <2>1 DEF Result, None
  <2> QED
    BY <2>2, <2>3, CachedRead DEF CitesWhatWasRead
<1> QED
  BY <1>1, <1>2

LEMMA SarArrivesRead ==
  ASSUME IInv, ArticlesRead, ArticlesStay, NEW r \in Requests, NEW appendix \in Citings,
         NEW draft \in Drafts, SarArrives(r, appendix, draft)
  PROVE  ArticlesRead'
<1>1. request[r].pc = "drafting" /\ TypeOK /\ LoadsAccounted
  BY DEF SarArrives, IInv
<1>2. PICK memory, redacting :
        /\ memory \in Verification(appendix)
        /\ redacting = Redaction(memory, draft) /\ redacting.raised = {}
        /\ Remember(redacting)
        /\ Complete(r, [request[r].pending EXCEPT
             !.lost = @ \cup Lost(memory.caches, appendix),
             !.sar = Sar(memory.caches, appendix, draft)])
  BY DEF SarArrives
<1>3. PICK pending \in ResultType : pending = request[r].pending
  BY <1>1, StageTyped
<1>4. PICK lost : lost = pending.lost \cup Lost(memory.caches, appendix)
  OBVIOUS
<1>5. PICK sar : sar = Sar(memory.caches, appendix, draft)
  OBVIOUS
<1>6. PICK result : result = [pending EXCEPT !.lost = lost, !.sar = sar]
  OBVIOUS
<1>7. Complete(r, result)
  BY <1>2, <1>3, <1>4, <1>5, <1>6
<1>8. result.sar.text = Redacted[draft]
  BY <1>3, <1>5, <1>6, SarRedacted DEF ResultType, AllDrafts
<1>9. Told(memory)
  BY <1>1, <1>2, VerificationTold, CitationsAssumption
<1>10. AsksForArticles(Redacted[draft]) => redacting.caches["gdpr"] = "whole"
  BY <1>1, <1>2, <1>9, RedactionTold
<1>11. CitesWhatWasRead(result, caches')
  BY <1>2, <1>8, <1>10 DEF CitesWhatWasRead, Remember
<1> QED
  BY <1>7, <1>11, CachedRead

LEMMA PostDemoRead ==
  ASSUME IInv, ArticlesRead, ArticlesStay, NEW c \in Clients \cup Strangers, PostDemo(c)
  PROVE  ArticlesRead'
<1>1. CASE UNCHANGED results_cache
  BY <1>1 DEF ArticlesRead, ArticlesStay, CitesWhatWasRead
<1>2. CASE ~UNCHANGED results_cache
  <2>1. PICK memory, loaded, first :
          /\ memory = DemoGathered(c) /\ loaded = DemoLoaded(c)
          /\ Remember(loaded) /\ loaded.raised = {}
          /\ results_cache' = [d \in DOMAIN results_cache \cup {c} |->
               IF d = c THEN DemoResult(memory.caches, c, first) ELSE results_cache[d]]
    BY <1>2 DEF PostDemo
  <2>2. PICK held : held = memory.caches
    OBVIOUS
  <2>3. PICK result : result = DemoResult(held, c, first)
    OBVIOUS
  <2>4. CitesWhatWasRead(result, caches')
    <3>1. PICK evidence : evidence = Verified(held, demo_finding(held, c))
      OBVIOUS
    <3>2. result.sar = IF Elevated(held, c) THEN Sar(held, evidence, demo_sar(evidence)) ELSE None
      BY <2>3, <3>1 DEF DemoResult
    <3>3. CASE Elevated(held, c)
      <4>1. c \in Clients \cup BuiltIn
        BY <1>2 DEF PostDemo, Profiled
      <4>2. evidence \in SUBSET Citations
        BY <3>1, <4>1, DemoFindingResolves, VerifiedResolves
      <4>3. PICK draft \in AllDrafts : draft = demo_sar(evidence)
        BY <4>2 DEF AllDrafts
      <4>4. result.sar.text = Redacted[draft]
        BY <3>2, <3>3, <4>3, SarRedacted
      <4>5. memory.raised = {} => loaded = Redaction(memory, draft)
        BY <2>1, <2>2, <3>1, <3>3, <4>3 DEF DemoLoaded
      <4>6. memory.raised # {} => loaded = memory
        BY <2>1 DEF DemoLoaded
      <4>7. AsksForArticles(Redacted[draft]) => loaded.caches["gdpr"] = "whole"
        BY <2>1, <4>5, <4>6, GatheringTold, RedactionTold DEF IInv
      <4> QED
        BY <2>1, <4>4, <4>7 DEF CitesWhatWasRead, Remember
    <3>4. CASE ~Elevated(held, c)
      BY <3>2, <3>4 DEF CitesWhatWasRead, None
    <3> QED
      BY <3>3, <3>4
  <2>5. \A d \in DOMAIN results_cache' : CitesWhatWasRead(results_cache'[d], caches')
    BY <2>1, <2>2, <2>3, <2>4 DEF ArticlesRead, ArticlesStay, CitesWhatWasRead
  <2> QED
    BY <2>5 DEF ArticlesRead, CitesWhatWasRead
<1> QED
  BY <1>1, <1>2

LEMMA StepKeepsArticles == IInv /\ ArticlesRead /\ [Next]_vars => ArticlesRead'
<1> SUFFICES ASSUME IInv, ArticlesRead, [Next]_vars
             PROVE  ArticlesRead'
  OBVIOUS
<1>1. CASE UNCHANGED vars
  BY <1>1 DEF vars, ArticlesRead, CitesWhatWasRead
<1>2. CASE Restart
  BY <1>2 DEF Restart, ArticlesRead
<1>3. CASE Next /\ ArticlesStay
  <2>1. CASE UNCHANGED results_cache
    BY <1>3, <2>1 DEF ArticlesRead, ArticlesStay, CitesWhatWasRead
  <2>2. CASE \E r \in Requests, verdict \in Verdicts : VerdictArrives(r, verdict)
    BY <1>3, <2>2, VerdictRead
  <2>3. CASE \E r \in Requests, cited \in Citings, draft \in Drafts : SarArrives(r, cited, draft)
    BY <1>3, <2>3, SarArrivesRead
  <2>4. CASE \E c \in Clients \cup Strangers : PostDemo(c)
    BY <1>3, <2>4, PostDemoRead
  <2>5. \/ UNCHANGED results_cache
        \/ \E r \in Requests, verdict \in Verdicts : VerdictArrives(r, verdict)
        \/ \E r \in Requests, cited \in Citings, draft \in Drafts : SarArrives(r, cited, draft)
        \/ \E c \in Clients \cup Strangers : PostDemo(c)
        \/ Restart
    <3>1. CASE \E r \in Requests, c \in Clients \cup Strangers : Post(r, c)
      BY <3>1 DEF Post
    <3>2. CASE \E r \in Requests : Answer(r)
      BY <3>2 DEF Answer, FindingArrives, ArgumentArrives, Unverifiable, Unservable, Stops
    <3>3. CASE ListClients
      BY <3>3 DEF ListClients
    <3> QED
      BY <1>3, <3>1, <3>2, <3>3 DEF Next
  <2> QED
    BY <1>2, <2>1, <2>2, <2>3, <2>4, <2>5
<1> QED
  BY <1>1, <1>2, <1>3, RememberedStay DEF IInv

LEMMA StepKeepsRedacted == IInv /\ SarsRedacted /\ [Next]_vars => SarsRedacted'
<1> SUFFICES ASSUME IInv, SarsRedacted, [Next]_vars
             PROVE  SarsRedacted'
  OBVIOUS
<1>1. CASE UNCHANGED results_cache
  BY <1>1 DEF SarsRedacted, SarIsRedacted
<1>2. CASE \E r \in Requests, c \in Clients \cup Strangers : Post(r, c)
  BY <1>1, <1>2 DEF Post
<1>3. CASE \E r \in Requests : Answer(r)
  <2>1. PICK r \in Requests : Answer(r)
    BY <1>3
  <2>2. CASE \E cited \in Citings : FindingArrives(r, cited)
    BY <1>1, <2>2 DEF FindingArrives
  <2>3. CASE \E cited \in Citings, side \in {"prosecution", "defense"} :
               ArgumentArrives(r, side, cited)
    BY <1>1, <2>3 DEF ArgumentArrives
  <2>4. CASE \E cited \in Citings, draft \in Drafts : SarArrives(r, cited, draft)
    BY <2>4, SarArrivesRedacted
  <2>5. CASE \E cited \in Citings : Unverifiable(r, cited)
    BY <1>1, <2>5 DEF Unverifiable, Stops
  <2>6. CASE \E cited \in Citings, draft \in Drafts : Unservable(r, cited, draft)
    BY <1>1, <2>6 DEF Unservable, Stops
  <2>7. CASE \E verdict \in Verdicts : VerdictArrives(r, verdict)
    BY <2>7, VerdictRedacted
  <2>8. CASE Stops(r) /\ UNCHANGED <<caches, failed>>
    BY <1>1, <2>8 DEF Stops
  <2> QED
    BY <2>1, <2>2, <2>3, <2>4, <2>5, <2>6, <2>7, <2>8 DEF Answer
<1>4. CASE \E c \in Clients \cup Strangers : PostDemo(c)
  BY <1>4, PostDemoRedacted
<1>5. CASE ListClients
  BY <1>1, <1>5 DEF ListClients
<1>6. CASE Restart
  BY <1>6 DEF Restart, SarsRedacted
<1>7. CASE UNCHANGED vars
  BY <1>1, <1>7 DEF vars
<1> QED
  BY <1>2, <1>3, <1>4, <1>5, <1>6, <1>7 DEF Next

\* Whatever the model drafts, a SAR is served with exactly what identifies a person
\* without need masked, dates of birth by what stands before them, each masking counted
\* and its article cited; and never without the articles that it cites.
THEOREM SarsAreRedacted == Spec => []ServedRedacted
<1>1. Init => SarsRedacted /\ ArticlesRead
  BY DEF Init, SarsRedacted, ArticlesRead
<1>2. SarsRedacted /\ ArticlesRead => ServedRedacted
  <2> SUFFICES ASSUME SarsRedacted, ArticlesRead, NEW c \in DOMAIN results_cache,
                      results_cache[c].sar.drafted
               PROVE  LET sar == results_cache[c].sar IN
                      /\ WellRedacted(sar.draft, sar.text)
                      /\ sar.text.redactions > 0 => caches["gdpr"] = "whole"
    BY DEF ServedRedacted
  <2>1. PICK draft, text : draft = results_cache[c].sar.draft /\ text = results_cache[c].sar.text
    OBVIOUS
  <2>2. draft \in AllDrafts /\ text = Redacted[draft]
    BY <2>1 DEF SarsRedacted, SarIsRedacted
  <2>3. text = redact_sar(draft)
    BY <2>2 DEF Redacted
  <2>4. WellRedacted(draft, text)
    BY <2>2, <2>3, DraftsTyped, RedactsWell
  <2>5. text.redactions > 0 => caches["gdpr"] = "whole"
    BY <2>1 DEF ArticlesRead, CitesWhatWasRead, AsksForArticles
  <2> QED
    BY <2>1, <2>4, <2>5
<1> QED
  BY <1>1, <1>2, InvariantHolds, StepKeepsRedacted, StepKeepsArticles, PTL DEF Spec
=============================================================================
