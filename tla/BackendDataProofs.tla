-------------------------- MODULE BackendDataProofs --------------------------
(***************************************************************************)
(* What the backend promises of the data it takes in and of the data it    *)
(* keeps: the invariants of Ingestion, for any rows, sources and bounds,   *)
(* and those of ProtectedData, for any threads, names, keys and tokens.    *)
(*                                                                         *)
(* Ingestion: each stage implies what channel, events, answers and outcome *)
(* are, so that the end of a run can be judged by what led to it; a run    *)
(* that is done holds normalize_batch's result for its rows, of which      *)
(* BatchNormalized says which rows are emitted and which are flagged; and  *)
(* the lines of the artifact are an earlier run's until this one writes.   *)
(*                                                                         *)
(* ProtectedData: a file is synced before it takes the place of an         *)
(* artifact, nothing is ever put outside the approved directory, and a     *)
(* call that has not ended has not answered, while its trail is already    *)
(* what its writing half will be judged by.                                *)
(***************************************************************************)
EXTENDS Ingestion, ProtectedData, FiniteSetTheorems, SequenceTheorems, WellFoundedInduction, TLAPS

-----------------------------------------------------------------------------
(* Numbers and sequences *)

\* A nonempty set of numbers has a least element.
LEMMA LeastExists ==
  ASSUME NEW S \in SUBSET Nat, S # {}
  PROVE  \E x \in S : \A y \in S : x <= y
<1>1. \E x \in S : \A y \in S : ~(<<y, x>> \in OpToRel(<, Nat))
  BY NatLessThanWellFounded, WFMin, Zenon
<1>2. \A x, y \in S : y < x => <<y, x>> \in OpToRel(<, Nat)
  BY Zenon DEF OpToRel
<1>3. \A x, y \in S : y < x \/ x <= y
  OBVIOUS
<1> QED
  BY <1>1, <1>2, <1>3

\* Induction up to a number, for a set of numbers.
LEMMA UpTo ==
  ASSUME NEW m \in Nat, NEW T, 0 \in T, \A n \in 0..(m - 1) : n \in T => n + 1 \in T
  PROVE  m \in T
<1> SUFFICES ASSUME m \notin T PROVE FALSE
  OBVIOUS
<1> DEFINE S == {n \in Nat : n \notin T}
<1>1. PICK x \in S : \A y \in S : x <= y
  <2>1. S # {} /\ S \in SUBSET Nat
    OBVIOUS
  <2> HIDE DEF S
  <2> QED
    BY <2>1, LeastExists
<1>2. x \in Nat /\ x # 0 /\ x <= m
  BY <1>1
<1>3. x - 1 \in 0..(m - 1) /\ x - 1 \in T
  <2>1. x - 1 \in Nat /\ ~(x <= x - 1)
    BY <1>2
  <2> QED
    BY <1>1, <1>2, <2>1
<1> QED
  BY <1>1, <1>2, <1>3

\* The numbers of a finite set, in their order, are just its elements.
LEMMA InOrderOk ==
  ASSUME NEW m \in Nat, NEW S \in SUBSET (1..m)
  PROVE  /\ IsFiniteSet(S) /\ Cardinality(S) \in Nat /\ Cardinality(S) <= m
         /\ InOrder(S) \in [1..Cardinality(S) -> S]
         /\ \A i, j \in 1..Cardinality(S) : i < j => InOrder(S)[i] < InOrder(S)[j]
         /\ S = {InOrder(S)[k] : k \in 1..Cardinality(S)}
<1> DEFINE Part(n) == S \cap (1..n)
           Ordered(s) == \A i, j \in DOMAIN s : i < j => s[i] < s[j]
           T == {n \in Nat : \E s \in [1..Cardinality(Part(n)) -> Part(n)] : Ordered(s)}
<1>1. IsFiniteSet(S) /\ Cardinality(S) \in Nat /\ Cardinality(S) <= m
  <2>1. IsFiniteSet(1..m) /\ Cardinality(1..m) = m
    BY FS_Interval
  <2> QED
    BY <2>1, FS_Subset, FS_CardinalityType
<1>2. \A n \in Nat : IsFiniteSet(Part(n)) /\ Cardinality(Part(n)) \in Nat
  BY <1>1, FS_Subset, FS_CardinalityType
<1>3. 0 \in T
  <2>1. Part(0) = {} /\ Cardinality(Part(0)) = 0
    BY FS_EmptySet
  <2>2. [i \in 1..0 |-> 0] \in [1..Cardinality(Part(0)) -> Part(0)] /\ Ordered([i \in 1..0 |-> 0])
    BY <2>1
  <2> QED
    BY <2>2
<1>4. ASSUME NEW n \in 0..(m - 1), n \in T PROVE n + 1 \in T
  <2>1. PICK s \in [1..Cardinality(Part(n)) -> Part(n)] : Ordered(s)
    BY <1>4
  <2>2. CASE n + 1 \notin S
    <3>1. Part(n + 1) = Part(n)
      BY <2>2
    <3> HIDE DEF Part, Ordered
    <3> QED
      BY <2>1, <3>1
  <2>3. CASE n + 1 \in S
    <3> DEFINE c == Cardinality(Part(n))
               t == [i \in 1..(c + 1) |-> IF i = c + 1 THEN n + 1 ELSE s[i]]
    <3>1. Part(n + 1) = Part(n) \cup {n + 1} /\ n + 1 \notin Part(n)
      BY <2>3
    <3>2. Cardinality(Part(n + 1)) = c + 1 /\ c \in Nat
      <4> HIDE DEF Part
      <4> QED
        BY <1>2, <3>1, FS_AddElement
    <3>3. \A i \in 1..c : s[i] \in Part(n) /\ s[i] \in Nat /\ s[i] < n + 1
      <4>1. \A i \in 1..c : s[i] \in Part(n)
        BY <2>1
      <4>2. \A x \in Part(n) : x \in Nat /\ x < n + 1
        OBVIOUS
      <4> QED
        BY <4>1, <4>2
    <3>4. t \in [1..(c + 1) -> Part(n + 1)]
      <4>1. \A i \in 1..(c + 1) : i # c + 1 => i \in 1..c
        BY <3>2
      <4> HIDE DEF Part, c
      <4> QED
        BY <3>1, <3>2, <3>3, <4>1
    <3>5. Ordered(t)
      <4> SUFFICES ASSUME NEW i \in 1..(c + 1), NEW j \in 1..(c + 1), i < j PROVE t[i] < t[j]
        OBVIOUS
      <4>1. i \in 1..c /\ t[i] = s[i]
        BY <3>2
      <4>2. CASE j = c + 1
        BY <3>3, <4>1, <4>2
      <4>3. CASE j # c + 1
        <5>1. j \in 1..c /\ t[j] = s[j]
          BY <3>2, <4>3
        <5>2. DOMAIN s = 1..c
          BY <2>1
        <5> QED
          BY <2>1, <4>1, <5>1, <5>2
      <4> QED
        BY <4>2, <4>3
    <3> HIDE DEF t, Part, Ordered
    <3> QED
      BY <3>2, <3>4, <3>5
  <2> QED
    BY <2>2, <2>3
<1>5. m \in T
  <2> HIDE DEF T
  <2> QED
    BY <1>3, <1>4, UpTo
<1>6. Part(m) = S
  OBVIOUS
<1>7. \E s \in [1..Cardinality(S) -> S] : \A i, j \in DOMAIN s : i < j => s[i] < s[j]
  BY <1>5, <1>6
<1> DEFINE s == InOrder(S)
<1>8. s \in [1..Cardinality(S) -> S] /\ \A i, j \in DOMAIN s : i < j => s[i] < s[j]
  BY <1>7 DEF InOrder
<1> HIDE DEF s, T, Part, Ordered
<1>9. \A i, j \in 1..Cardinality(S) : i < j => s[i] < s[j]
  BY <1>8
<1>10. S = {s[k] : k \in 1..Cardinality(S)}
  <2>1. s \in Injection(1..Cardinality(S), S)
    <3>1. \A i, j \in 1..Cardinality(S) : s[i] = s[j] => i = j
      <4> SUFFICES ASSUME NEW i \in 1..Cardinality(S), NEW j \in 1..Cardinality(S), s[i] = s[j]
                   PROVE  i = j
        OBVIOUS
      <4>1. s[i] \in S /\ s[j] \in S
        BY <1>8, Zenon
      <4>2. s[i] \in Nat /\ s[j] \in Nat
        <5>1. \A x \in S : x \in Nat
          OBVIOUS
        <5> QED
          BY <4>1, <5>1
      <4>3. i < j \/ j < i \/ i = j
        BY <1>1
      <4>4. i < j => s[i] < s[j]
        BY <1>9
      <4>5. j < i => s[j] < s[i]
        BY <1>9
      <4> QED
        BY <4>2, <4>3, <4>4, <4>5
    <3> QED
      BY <1>8, <3>1 DEF Injection, IsInjective
  <2>2. Cardinality(1..Cardinality(S)) = Cardinality(S)
    BY <1>1, FS_Interval
  <2>3. s \in Surjection(1..Cardinality(S), S)
    BY <1>1, <2>1, <2>2, FS_Injection
  <2> QED
    BY <1>8, <2>3 DEF Surjection
<1> QED
  BY <1>1, <1>8, <1>9, <1>10 DEF s

-----------------------------------------------------------------------------
(* Ingestion *)

\* What an attempt may come to, and what a line of the artifact holds.
AttemptAnswer == FetchErrors \cup {"ok", "undecodable"}
Line == [run : 1..MaxRuns, row : 1..MaxRows, whole : BOOLEAN]

\* The variables, as sequences and records.
Shapes ==
  /\ stage \in Stages
  /\ channel \in {"api", "csv", "xlsx", "other"}
  /\ source \in Sources \cup {NoSource}
  /\ attempt \in 0..MaxRetries
  /\ received \in 0..MaxBytes
  /\ answers \in Seq(AttemptAnswer)
  /\ events \in Seq(Events)
  /\ outcome \in Outcomes
  /\ rows \in Seq(Rows) /\ Len(rows) <= MaxRows
  /\ result \in {NoResult, NormalizeBatch(rows)}
  /\ file \in FileStates
  /\ handed \in 0..MaxRows
  /\ artifact \in Seq(Line)
  /\ runs \in 0..MaxRuns /\ (stage # "idle" => runs # 0)

\* While fetch is at work: every attempt so far failed for a passing reason, and one
\* more has begun unless it sleeps.
Fetching == {"sending", "reading", "backoff"}
Begun == IF source.auth THEN <<"started", "secret_succeeded">> ELSE <<"started">>
FetchInv ==
  stage \in Fetching =>
    /\ channel = "api" /\ outcome = "none" /\ events = Begun
    /\ \A i \in DOMAIN answers : answers[i] \in Transient
    /\ stage # "backoff" => Len(answers) = attempt
    /\ stage = "backoff" => Len(answers) = attempt + 1 /\ attempt < MaxRetries

\* A file run has no answers, and has told of its start alone until it has a batch.
FileInv ==
  /\ stage \in {"is_file", "stat", "open", "read"} =>
       channel \in {"csv", "xlsx"} /\ outcome = "none" /\ events = <<"started">> /\ answers = <<>>
  /\ stage \in {"export", "writing"} =>
       /\ channel \in {"csv", "xlsx"} /\ outcome = "completed" /\ answers = <<>>
       /\ events = <<"started", "completed">>

\* The result of a run that is done is that of its rows, and none was refused; a run
\* that has not come so far has no result.
DoneInv ==
  /\ outcome \in Done => result = NormalizeBatch(rows) /\ ~Refused(rows)
  /\ stage \notin {"export", "writing", "ended"} => result = NoResult

\* The lines of the artifact are of one run, an earlier one until this one writes.
LinesInv ==
  /\ \A i \in DOMAIN artifact : artifact[i].run = artifact[1].run /\ artifact[i].run <= runs
  /\ stage = "writing" => \A i \in DOMAIN artifact : artifact[i].run = runs
  /\ stage \notin {"writing", "ended"} => \A i \in DOMAIN artifact : artifact[i].run < runs

IInv == Shapes /\ FetchInv /\ FileInv /\ DoneInv /\ LinesInv /\ ArtifactOfOneRun /\ EndIsAudited

-----------------------------------------------------------------------------
\* A sequence with one more element.
LEMMA Longer ==
  ASSUME NEW S, NEW s \in Seq(S), NEW e \in S
  PROVE  /\ Append(s, e) \in Seq(S) /\ Append(s, e) # <<>>
         /\ Len(s) \in Nat /\ Len(Append(s, e)) = Len(s) + 1
         /\ DOMAIN s = 1..Len(s) /\ DOMAIN Append(s, e) = 1..(Len(s) + 1)
         /\ \A i \in 1..Len(s) : Append(s, e)[i] = s[i] /\ s[i] \in S
         /\ Append(s, e)[Len(s) + 1] = e
<1>1. Append(s, e) \in Seq(S) /\ Append(s, e) # <<>> /\ Len(Append(s, e)) = Len(s) + 1
  BY AppendProperties
<1>2. Len(s) \in Nat /\ DOMAIN s = 1..Len(s) /\ \A i \in 1..Len(s) : s[i] \in S
  BY LenProperties, ElementOfSeq
<1>3. DOMAIN Append(s, e) = 1..(Len(s) + 1)
  BY <1>1, LenProperties
<1>4. \A i \in 1..Len(s) : Append(s, e)[i] = s[i]
  BY AppendProperties
<1>5. Append(s, e)[Len(s) + 1] = e
  BY AppendProperties
<1> QED
  BY <1>1, <1>2, <1>3, <1>4, <1>5

\* How the events of a run are put together.
LEMMA Told ==
  ASSUME NEW a, NEW b, NEW c
  PROVE  /\ <<a>> \o <<>> \o <<>> = <<a>> /\ <<a>> \o <<b>> \o <<>> = <<a, b>>
         /\ <<a>> \o <<>> \o <<b>> = <<a, b>> /\ <<a>> \o <<b>> \o <<c>> = <<a, b, c>>
         /\ Append(<<a>>, b) = <<a, b>> /\ Append(<<a, b>>, c) = <<a, b, c>>
         /\ <<a>> \in Seq({a, b, c}) /\ <<a, b>> \in Seq({a, b, c}) /\ <<a, b, c>> \in Seq({a, b, c})
<1> DEFINE S == {a, b, c}
<1>1. /\ <<a>> \in Seq(S) /\ <<b>> \in Seq(S) /\ <<c>> \in Seq(S) /\ <<>> \in Seq(S)
      /\ <<a, b>> \in Seq(S) /\ <<a, b, c>> \in Seq(S)
  OBVIOUS
<1>2. /\ Len(<<a>>) = 1 /\ Len(<<b>>) = 1 /\ Len(<<c>>) = 1 /\ Len(<<a, b>>) = 2
      /\ Len(<<a, b, c>>) = 3
  OBVIOUS
<1>3. <<a>> \o <<b>> = <<a, b>>
  <2>1. <<a>> \o <<b>> \in Seq(S) /\ Len(<<a>> \o <<b>>) = 2
    BY <1>1, <1>2, ConcatProperties
  <2>2. \A i \in 1..2 : (<<a>> \o <<b>>)[i] = <<a, b>>[i]
    <3>1. (<<a>> \o <<b>>)[1] = <<a>>[1] /\ (<<a>> \o <<b>>)[2] = <<b>>[2 - 1]
      BY <1>1, <1>2, ConcatProperties
    <3> QED
      BY <3>1
  <2> QED
    BY <1>1, <1>2, <2>1, <2>2, SeqEqual
<1>4. <<a, b>> \o <<c>> = <<a, b, c>>
  <2>1. <<a, b>> \o <<c>> \in Seq(S) /\ Len(<<a, b>> \o <<c>>) = 3
    BY <1>1, <1>2, ConcatProperties
  <2>2. \A i \in 1..3 : (<<a, b>> \o <<c>>)[i] = <<a, b, c>>[i]
    <3>1. /\ (<<a, b>> \o <<c>>)[1] = <<a, b>>[1] /\ (<<a, b>> \o <<c>>)[2] = <<a, b>>[2]
          /\ (<<a, b>> \o <<c>>)[3] = <<c>>[3 - 2]
      BY <1>1, <1>2, ConcatProperties
    <3> QED
      BY <3>1
  <2> QED
    BY <1>1, <1>2, <2>1, <2>2, SeqEqual
<1>5. <<a>> \o <<>> = <<a>> /\ <<a, b>> \o <<>> = <<a, b>>
  BY <1>1, ConcatEmptySeq
<1>6. Append(<<a>>, b) = <<a, b>>
  <2>1. Append(<<a>>, b) \in Seq(S) /\ Len(Append(<<a>>, b)) = 2
    BY <1>1, <1>2, Longer
  <2>2. Append(<<a>>, b)[1] = a /\ Append(<<a>>, b)[2] = b
    BY <1>1, <1>2, Longer
  <2>3. \A i \in 1..2 : Append(<<a>>, b)[i] = <<a, b>>[i]
    BY <2>2
  <2> QED
    BY <1>1, <1>2, <2>1, <2>3, SeqEqual
<1>7. Append(<<a, b>>, c) = <<a, b, c>>
  <2>1. Append(<<a, b>>, c) \in Seq(S) /\ Len(Append(<<a, b>>, c)) = 3
    BY <1>1, <1>2, Longer
  <2>2. Append(<<a, b>>, c)[1] = a /\ Append(<<a, b>>, c)[2] = b /\ Append(<<a, b>>, c)[3] = c
    BY <1>1, <1>2, Longer
  <2>3. \A i \in 1..3 : Append(<<a, b>>, c)[i] = <<a, b, c>>[i]
    BY <2>2
  <2> QED
    BY <1>1, <1>2, <2>1, <2>3, SeqEqual
<1> QED
  BY <1>1, <1>3, <1>4, <1>5, <1>6, <1>7

\* Events in a row.
LEMMA FewEvents ==
  \A a, b, c \in Events : /\ <<a>> \in Seq(Events) /\ <<a, b>> \in Seq(Events)
                          /\ <<a, b, c>> \in Seq(Events)
OBVIOUS

-----------------------------------------------------------------------------
\* A function on 1..n is a sequence of n elements.
LEMMA FunctionIsSequence ==
  ASSUME NEW n \in Nat, NEW S, NEW f \in [1..n -> S]
  PROVE  f \in Seq(S) /\ Len(f) = n /\ DOMAIN f = 1..n
OBVIOUS

\* The rows without an issue.
Usable(batch) == {i \in DOMAIN batch : RowIssues(batch, i) = {}}

\* The entities are the usable rows, each once and in their order, and the issues are
\* those of the others.
LEMMA BatchNormalized ==
  ASSUME NEW batch \in Seq(Rows)
  PROVE  LET entities == NormalizeBatch(batch).entities
             issues == NormalizeBatch(batch).issues
         IN /\ entities \in Seq(DOMAIN batch) /\ Len(entities) = Cardinality(Usable(batch))
            /\ Len(entities) \in Nat
            /\ \A i, j \in DOMAIN entities : i < j => entities[i] < entities[j]
            /\ {entities[k] : k \in DOMAIN entities} = Usable(batch)
            /\ \A k \in DOMAIN entities : entities[k] \in Usable(batch)
            /\ {x[1] : x \in issues} = DOMAIN batch \ Usable(batch)
            /\ \A i \in DOMAIN batch : \A issue \in RowIssues(batch, i) :
                 <<i, issue[1], issue[2]>> \in issues
            /\ NormalizeBatch(batch).report.total_rows = Len(batch)
            /\ NormalizeBatch(batch).report.valid_rows = Len(entities)
            /\ NormalizeBatch(batch).report.invalid_rows = Len(batch) - Len(entities)
<1> DEFINE entities == NormalizeBatch(batch).entities
           issues == NormalizeBatch(batch).issues
           U == Usable(batch)
<1>1. DOMAIN batch = 1..Len(batch) /\ Len(batch) \in Nat
  BY LenProperties
<1>2. entities = InOrder(U) /\ issues = Issues(batch)
  BY DEF NormalizeBatch, Entities, Usable
<1>3. U \in SUBSET (1..Len(batch))
  BY <1>1 DEF Usable
<1>4. /\ Cardinality(U) \in Nat
      /\ entities \in [1..Cardinality(U) -> U]
      /\ \A i, j \in 1..Cardinality(U) : i < j => entities[i] < entities[j]
      /\ U = {entities[k] : k \in 1..Cardinality(U)}
  <2> HIDE DEF U, entities
  <2>1. /\ Cardinality(U) \in Nat
        /\ InOrder(U) \in [1..Cardinality(U) -> U]
        /\ \A i, j \in 1..Cardinality(U) : i < j => InOrder(U)[i] < InOrder(U)[j]
        /\ U = {InOrder(U)[k] : k \in 1..Cardinality(U)}
    BY <1>1, <1>3, InOrderOk
  <2> QED
    BY <1>2, <2>1, Zenon
<1> HIDE DEF U, entities, issues
<1>5. entities \in Seq(U) /\ Len(entities) = Cardinality(U) /\ DOMAIN entities = 1..Cardinality(U)
  BY <1>4, FunctionIsSequence
<1>6. entities \in Seq(DOMAIN batch)
  BY <1>1, <1>3, <1>5, SeqMonotonic
<1>7. {x[1] : x \in issues} = DOMAIN batch \ U
  <2>1. ASSUME NEW x \in issues PROVE x[1] \in DOMAIN batch \ U
    <3>1. PICK i \in DOMAIN batch : \E issue \in RowIssues(batch, i) : x = <<i, issue[1], issue[2]>>
      BY <1>2, <2>1 DEF Issues
    <3>2. RowIssues(batch, i) # {} /\ x[1] = i
      BY <3>1
    <3> QED
      BY <3>2 DEF U, Usable
  <2>2. ASSUME NEW i \in DOMAIN batch, i \notin U PROVE \E x \in issues : i = x[1]
    <3>1. PICK issue : issue \in RowIssues(batch, i)
      BY <2>2 DEF U, Usable
    <3>2. <<i, issue[1], issue[2]>> \in issues
      BY <1>2, <3>1 DEF Issues
    <3> QED
      BY <3>2
  <2> QED
    BY <2>1, <2>2
<1>8. \A i \in DOMAIN batch : \A issue \in RowIssues(batch, i) : <<i, issue[1], issue[2]>> \in issues
  BY <1>2 DEF Issues
<1>9. /\ NormalizeBatch(batch).report.total_rows = Len(batch)
      /\ NormalizeBatch(batch).report.valid_rows = Len(entities)
      /\ NormalizeBatch(batch).report.invalid_rows = Len(batch) - Len(entities)
  BY DEF NormalizeBatch, Report, entities
<1> QED
  BY <1>4, <1>5, <1>6, <1>7, <1>8, <1>9 DEF U, entities, issues

\* A batch that is read is a sequence of rows, and the rows with a cell are one as well.
LEMMA BatchesAreSequences ==
  ASSUME NEW batch \in Batches
  PROVE  /\ batch \in Seq(Rows) /\ Len(batch) <= MaxRows
         /\ WithCells(batch) \in Seq(Rows) /\ Len(WithCells(batch)) <= MaxRows
<1>1. PICK n \in 0..MaxRows : batch \in [1..n -> Rows]
  BY DEF Batches
<1>2. n \in Nat /\ MaxRows \in Nat
  BY BoundsAssumption
<1>3. batch \in Seq(Rows) /\ Len(batch) = n /\ DOMAIN batch = 1..n
  BY <1>1, <1>2, FunctionIsSequence
<1> DEFINE S == {i \in DOMAIN batch : HasCell(batch[i])}
           kept == InOrder(S)
<1>4. S \in SUBSET (1..n)
  BY <1>3
<1>5. Cardinality(S) \in Nat /\ Cardinality(S) <= n /\ kept \in [1..Cardinality(S) -> S]
  <2> HIDE DEF S
  <2> QED
    BY <1>2, <1>4, InOrderOk
<1>6. WithCells(batch) = [k \in DOMAIN kept |-> batch[kept[k]]]
  BY DEF WithCells
<1> HIDE DEF kept, S
<1>7. DOMAIN kept = 1..Cardinality(S)
  BY <1>5
<1>8. \A k \in 1..Cardinality(S) : kept[k] \in 1..n
  BY <1>4, <1>5
<1>9. WithCells(batch) \in [1..Cardinality(S) -> Rows]
  BY <1>1, <1>6, <1>7, <1>8
<1>10. WithCells(batch) \in Seq(Rows) /\ Len(WithCells(batch)) = Cardinality(S)
  BY <1>5, <1>9, FunctionIsSequence
<1> QED
  BY <1>2, <1>3, <1>5, <1>10

-----------------------------------------------------------------------------
\* Between runs, the artifact's lines are those of earlier runs once the next begins.
LEMMA NewRunKept ==
  ASSUME IInv, NEW kind \in {"api", "csv", "xlsx", "other"}, NewRun(kind),
         stage' \in Stages \ {"writing", "backoff"},
         source' \in Sources \cup {NoSource}, file' \in FileStates, outcome' \in (Outcomes \ Done) \ FetchErrors,
         events' \in Seq(Events)
  PROVE  Shapes' /\ LinesInv' /\ ArtifactOfOneRun' /\ RetriesAreTransient'
<1>1. /\ channel' = kind /\ attempt' = 0 /\ received' = 0 /\ answers' = <<>> /\ rows' = <<>>
      /\ result' = NoResult /\ handed' = 0 /\ artifact' = artifact /\ runs' = runs + 1 /\ runs < MaxRuns
  BY DEF NewRun
<1>2. MaxRetries \in Nat /\ MaxBytes \in Nat /\ MaxRows \in Nat /\ MaxRuns \in Nat
  BY BoundsAssumption
<1>3. runs \in 0..MaxRuns /\ artifact \in Seq(Line)
  BY DEF IInv, Shapes
<1>4. Shapes'
  BY <1>1, <1>2, <1>3, EmptySeq DEF Shapes
<1>5. \A i \in DOMAIN artifact : artifact[i].run = artifact[1].run /\ artifact[i].run <= runs
  BY DEF IInv, LinesInv
<1>6. DOMAIN artifact = 1..Len(artifact) /\ Len(artifact) \in Nat
      /\ \A i \in 1..Len(artifact) : artifact[i] \in Line
  BY <1>3, LenProperties, ElementOfSeq
<1>7. \A i \in DOMAIN artifact : artifact[i].run < runs + 1 /\ artifact[i].run # runs + 1
  BY <1>3, <1>5, <1>6 DEF Line
<1>8. LinesInv'
  BY <1>1, <1>3, <1>5, <1>6, <1>7 DEF LinesInv, Line
<1>9. ArtifactOfOneRun'
  <2>1. artifact # <<>> => 1 \in DOMAIN artifact
    BY <1>3, <1>6, EmptySeq
  <2> QED
    BY <1>1, <1>5, <1>7, <2>1 DEF IInv, ArtifactOfOneRun, Done
<1>10. RetriesAreTransient'
  BY <1>1, <1>2 DEF RetriesAreTransient, FetchErrors
<1> QED
  BY <1>4, <1>8, <1>9, <1>10

\* A run over a source, up to its first request or its refusal.
LEMMA StartApiKept ==
  ASSUME IInv, NEW s \in Sources, NEW secret \in SecretAnswers, NEW resolved,
         StartApi(s, secret, resolved)
  PROVE  IInv'
<1>1. /\ NewRun("api") /\ channel' = "api" /\ attempt' = 0 /\ answers' = <<>> /\ result' = NoResult
      /\ source' = s /\ file' = Absent
  BY DEF StartApi, NewRun
<1>2. \/ stage' = "sending" /\ outcome' = "none" /\ events' = Begun'
      \/ /\ stage' = "ended" /\ events' = <<"started", "failed">>
         /\ outcome' \in {"unknown_source", "source_disabled", "unsafe_destination"}
      \/ /\ stage' = "ended" /\ outcome' = "authentication_configuration_error" /\ source'.auth
         /\ events' = <<"started", "secret_failed", "failed">>
      \/ /\ stage' = "ended" /\ outcome' = "escaped" /\ source'.auth
         /\ events' = <<"started", "secret_failed">>
  BY <1>1, Told DEF StartApi, Fail, Escape, Begun
<1>3. events' \in Seq(Events)
  <2>1. {"started", "secret_succeeded", "secret_failed", "failed"} \subseteq Events
    BY DEF Events
  <2> QED
    BY <1>2, <2>1, FewEvents DEF Begun
<1>4. /\ stage' \in {"sending", "ended"} /\ outcome' \in Outcomes \ Done
      /\ outcome' \notin FetchErrors
  BY <1>2 DEF Outcomes, Done, FetchErrors, Transient, FileErrors, ApiErrors
<1>5. Absent \in FileStates
  BY DEF Absent, FileStates, FileState, Forms
<1>6. Shapes' /\ LinesInv' /\ ArtifactOfOneRun' /\ RetriesAreTransient'
  BY <1>1, <1>3, <1>4, <1>5, NewRunKept DEF Stages
<1>7. FetchInv'
  BY <1>1, <1>2 DEF FetchInv, Fetching
<1>8. FileInv' /\ DoneInv'
  BY <1>1, <1>2, <1>4 DEF FileInv, DoneInv
<1>9. EndIsAudited'
  BY <1>1, <1>2, <1>6, Told DEF EndIsAudited, Done
<1> QED
  BY <1>6, <1>7, <1>8, <1>9 DEF IInv

\* A run over a file, up to the file system.
LEMMA StartFileKept ==
  ASSUME IInv, NEW format \in {"csv", "xlsx", "other"}, NEW contained \in BOOLEAN,
         StartFile(format, contained)
  PROVE  IInv'
<1>1. /\ NewRun(format) /\ channel' = format /\ attempt' = 0 /\ answers' = <<>> /\ result' = NoResult
      /\ source' = NoSource /\ file' \in FileStates
  BY DEF StartFile, NewRun
<1>2. \/ stage' = "is_file" /\ outcome' = "none" /\ events' = <<"started">> /\ format # "other"
      \/ /\ stage' = "ended" /\ events' = <<"started", "failed">>
         /\ outcome' \in {"KycPathError", "UnsupportedFileTypeError"}
  BY <1>1, Told DEF StartFile, Fail
<1>3. events' \in Seq(Events)
  <2>1. {"started", "failed"} \subseteq Events
    BY DEF Events
  <2> QED
    BY <1>2, <2>1, FewEvents
<1>4. /\ stage' \in {"is_file", "ended"} /\ outcome' \in Outcomes \ Done
      /\ outcome' \notin FetchErrors
  BY <1>2 DEF Outcomes, Done, FetchErrors, Transient, FileErrors, ApiErrors
<1>6. Shapes' /\ LinesInv' /\ ArtifactOfOneRun' /\ RetriesAreTransient'
  BY <1>1, <1>3, <1>4, NewRunKept DEF Stages
<1>7. FetchInv'
  BY <1>1, <1>2 DEF FetchInv, Fetching
<1>8. FileInv' /\ DoneInv'
  BY <1>1, <1>2, <1>4 DEF FileInv, DoneInv
<1>9. EndIsAudited'
  BY <1>1, <1>2, <1>6, Told DEF EndIsAudited, Done
<1> QED
  BY <1>6, <1>7, <1>8, <1>9 DEF IInv

-----------------------------------------------------------------------------
\* Until it writes it, a run leaves the artifact to the runs before it.
LEMMA LinesLeft ==
  ASSUME IInv, stage \notin {"idle", "ended", "writing"}, stage' # "writing", outcome' # "exported",
         UNCHANGED <<artifact, runs>>
  PROVE  LinesInv' /\ ArtifactOfOneRun'
<1>1. /\ \A i \in DOMAIN artifact : artifact[i].run = artifact[1].run /\ artifact[i].run <= runs
      /\ \A i \in DOMAIN artifact : artifact[i].run < runs
  BY DEF IInv, LinesInv
<1>2. DOMAIN artifact = 1..Len(artifact) /\ (artifact # <<>> => 1 \in DOMAIN artifact)
  BY LenProperties, EmptySeq DEF IInv, Shapes
<1>3. \A i \in DOMAIN artifact : artifact[i].run \in Nat /\ runs \in Nat
  <2>1. artifact \in Seq(Line) /\ runs \in Nat
    BY BoundsAssumption DEF IInv, Shapes
  <2>2. \A i \in DOMAIN artifact : artifact[i] \in Line
    BY <1>2, <2>1, ElementOfSeq
  <2> QED
    BY <2>1, <2>2 DEF Line
<1>4. artifact # <<>> => artifact[1].run # runs
  BY <1>1, <1>2, <1>3
<1> QED
  BY <1>1, <1>4 DEF LinesInv, IInv, ArtifactOfOneRun

\* An attempt raised: one more will follow, or the run ends with its code.
LEMMA RaisedKept ==
  ASSUME IInv, stage \in {"sending", "reading"}, NEW code \in FetchErrors, Raised(code)
  PROVE  IInv'
<1>1. /\ answers' = Append(answers, code) /\ code \in AttemptAnswer
      /\ UNCHANGED <<channel, source, attempt, received, rows, result, file, handed, artifact, runs>>
  BY DEF Raised, AttemptAnswer, batchVars, diskVars
<1>2. /\ channel = "api" /\ outcome = "none" /\ events = Begun /\ Len(answers) = attempt
      /\ \A i \in DOMAIN answers : answers[i] \in Transient
  BY DEF IInv, FetchInv, Fetching
<1>3. attempt \in Nat /\ attempt <= MaxRetries /\ MaxRetries \in Nat /\ answers \in Seq(AttemptAnswer)
  BY BoundsAssumption DEF IInv, Shapes
<1>4. /\ answers' \in Seq(AttemptAnswer) /\ answers' # <<>> /\ Len(answers') = attempt + 1
      /\ DOMAIN answers' = 1..(attempt + 1) /\ DOMAIN answers = 1..attempt
      /\ \A i \in 1..attempt : answers'[i] \in Transient
      /\ answers'[attempt + 1] = code
  BY <1>1, <1>2, <1>3, Longer
<1>5. \/ /\ code \in Transient /\ attempt < MaxRetries
         /\ stage' = "backoff" /\ UNCHANGED <<events, outcome>>
      \/ /\ code \notin Transient \/ attempt = MaxRetries
         /\ stage' = "ended" /\ outcome' = code /\ events' = Append(events, "failed")
  BY <1>3 DEF Raised, Fail
<1>6. code \in Outcomes /\ code \notin Done /\ code # "crashed" /\ code # "escaped"
      /\ code \notin {"unknown_source", "source_disabled", "unsafe_destination"}
  BY DEF Outcomes, FetchErrors, Transient, ApiErrors, Done
<1>7. /\ Append(events, "failed") \in Seq(Events)
      /\ Append(events, "failed") = IF source.auth THEN <<"started", "secret_succeeded", "failed">>
                                    ELSE <<"started", "failed">>
  <2>1. "failed" \in Events
    BY DEF Events
  <2>2. events \in Seq(Events)
    BY DEF IInv, Shapes
  <2>3. Append(events, "failed") \in Seq(Events)
    BY <2>1, <2>2, Longer
  <2>4. CASE source.auth
    BY <1>2, <2>3, <2>4, Told DEF Begun
  <2>5. CASE ~source.auth
    BY <1>2, <2>3, <2>5, Told DEF Begun
  <2> QED
    BY <2>4, <2>5
<1>8. Shapes'
  BY <1>1, <1>4, <1>5, <1>6, <1>7 DEF IInv, Shapes, Stages
<1>9. LinesInv' /\ ArtifactOfOneRun'
  BY <1>1, <1>2, <1>5, <1>6, LinesLeft DEF Done
<1>10. FetchInv'
  <2> SUFFICES ASSUME stage' = "backoff" PROVE FetchInv'
    BY <1>5 DEF FetchInv, Fetching
  <2>1. \A i \in DOMAIN answers' : answers'[i] \in Transient
    BY <1>3, <1>4, <1>5
  <2> QED
    BY <1>1, <1>2, <1>4, <1>5, <2>1 DEF FetchInv, Begun
<1>11. FileInv' /\ DoneInv'
  BY <1>1, <1>2, <1>5, <1>6 DEF IInv, FileInv, DoneInv, Done
<1>12. RetriesAreTransient'
  BY <1>2, <1>3, <1>4, <1>5 DEF RetriesAreTransient, FetchErrors
<1>13. EndIsAudited'
  <2>1. CASE stage' = "backoff"
    BY <1>12, <2>1 DEF EndIsAudited
  <2>2. CASE stage' = "ended"
    <3>1. outcome' = code /\ events' = Append(events, "failed") /\ channel' = "api" /\ source' = source
      BY <1>1, <1>2, <1>5, <2>2
    <3>2. CASE source.auth
      BY <1>4, <1>6, <1>7, <1>12, <3>1, <3>2, Told DEF EndIsAudited
    <3>3. CASE ~source.auth
      BY <1>6, <1>7, <1>12, <3>1, <3>3, Told DEF EndIsAudited
    <3> QED
      BY <3>2, <3>3
  <2> QED
    BY <1>5, <2>1, <2>2
<1> QED
  BY <1>8, <1>9, <1>10, <1>11, <1>13 DEF IInv

\* The steps of an attempt that raise or go on.
LEMMA FetchStepsKept ==
  ASSUME IInv, \/ ConnectionFails
               \/ \E status \in {"ok"} \cup DOMAIN StatusError,
                     length \in {"unknown", "within", "beyond"}, json \in BOOLEAN :
                    ResponseBegins(status, length, json)
               \/ \E size \in 1..MaxChunk : ChunkArrives(size)
               \/ BodyMalformed
  PROVE  IInv'
<1>1. CASE ConnectionFails
  <2>1. {"upstream_timeout", "upstream_unavailable"} \subseteq FetchErrors
    BY DEF FetchErrors, Transient
  <2> QED
    BY <1>1, <2>1, RaisedKept DEF ConnectionFails
<1>2. ASSUME NEW status \in {"ok"} \cup DOMAIN StatusError,
             NEW length \in {"unknown", "within", "beyond"}, NEW json \in BOOLEAN,
             ResponseBegins(status, length, json)
      PROVE  IInv'
  <2>1. \/ \E code \in FetchErrors : Raised(code)
        \/ /\ stage' = "reading" /\ received' = 0
           /\ UNCHANGED <<channel, source, attempt, answers, events, outcome, batchVars, diskVars, runs>>
    <3>1. status # "ok" => StatusError[status] \in FetchErrors
      BY DEF StatusError, FetchErrors, Transient
    <3>2. {"response_too_large", "invalid_content_type"} \subseteq FetchErrors
      BY DEF FetchErrors
    <3> QED
      BY <1>2, <3>1, <3>2 DEF ResponseBegins
  <2>2. stage = "sending"
    BY <1>2 DEF ResponseBegins
  <2>3. CASE \E code \in FetchErrors : Raised(code)
    BY <2>2, <2>3, RaisedKept
  <2>4. CASE /\ stage' = "reading" /\ received' = 0
             /\ UNCHANGED <<channel, source, attempt, answers, events, outcome, batchVars, diskVars, runs>>
    <3>1. outcome = "none"
      BY <2>2 DEF IInv, FetchInv, Fetching
    <3>2. LinesInv' /\ ArtifactOfOneRun'
      BY <2>2, <2>4, <3>1, LinesLeft DEF diskVars
    <3>3. Shapes'
      BY <2>2, <2>4, BoundsAssumption DEF IInv, Shapes, Stages, batchVars, diskVars
    <3>4. FetchInv' /\ FileInv' /\ DoneInv'
      BY <2>2, <2>4, <3>1 DEF IInv, FetchInv, Fetching, FileInv, DoneInv, Begun, Done, batchVars
    <3>5. EndIsAudited'
      BY <2>2, <2>4 DEF IInv, EndIsAudited, RetriesAreTransient
    <3> QED
      BY <3>2, <3>3, <3>4, <3>5 DEF IInv
  <2> QED
    BY <2>1, <2>3, <2>4
<1>3. ASSUME NEW size \in 1..MaxChunk, ChunkArrives(size) PROVE IInv'
  <2>1. stage = "reading"
    BY <1>3 DEF ChunkArrives
  <2>2. CASE received + size > MaxBytes
    <3>1. "response_too_large" \in FetchErrors
      BY DEF FetchErrors
    <3> QED
      BY <1>3, <2>1, <2>2, <3>1, RaisedKept DEF ChunkArrives
  <2>3. CASE ~(received + size > MaxBytes)
    <3>1. /\ received' = received + size
          /\ UNCHANGED <<stage, channel, source, attempt, answers, events, outcome, batchVars, diskVars, runs>>
      BY <1>3, <2>3 DEF ChunkArrives
    <3>2. received' \in 0..MaxBytes
      BY <2>3, <3>1, BoundsAssumption DEF IInv, Shapes
    <3>3. outcome = "none"
      BY <2>1 DEF IInv, FetchInv, Fetching
    <3>4. LinesInv' /\ ArtifactOfOneRun'
      BY <2>1, <3>1, <3>3, LinesLeft DEF diskVars
    <3>5. Shapes'
      BY <3>1, <3>2 DEF IInv, Shapes, batchVars, diskVars
    <3>6. FetchInv' /\ FileInv' /\ DoneInv'
      BY <2>1, <3>1 DEF IInv, FetchInv, FileInv, DoneInv, Begun, batchVars
    <3>7. EndIsAudited'
      BY <2>1, <3>1 DEF IInv, EndIsAudited, RetriesAreTransient
    <3> QED
      BY <3>4, <3>5, <3>6, <3>7 DEF IInv
  <2> QED
    BY <2>2, <2>3
<1>4. CASE BodyMalformed
  <2>1. "malformed_json" \in FetchErrors
    BY DEF FetchErrors
  <2> QED
    BY <1>4, <2>1, RaisedKept DEF BodyMalformed
<1> QED
  BY <1>1, <1>2, <1>3, <1>4

-----------------------------------------------------------------------------
\* The last attempt came to something that is no error of fetch, and the run ends with
\* a terminal event or, where an exception escaped, with none.
LEMMA FetchEnds ==
  ASSUME IInv, stage = "reading", NEW last \in {"ok", "undecodable"}, NEW terminal,
         answers' = Append(answers, last), stage' = "ended",
         outcome' \in {"completed", "escaped", "invalid_payload_shape", "schema_validation_failed"},
         outcome' = "escaped" => events' = events,
         outcome' # "escaped" => events' = Append(events, terminal),
         outcome' # "escaped" => terminal = IF outcome' = "completed" THEN "completed" ELSE "failed",
         outcome' = "completed" => result' = NormalizeBatch(rows') /\ ~Refused(rows'),
         result' \in {NoResult, NormalizeBatch(rows')},
         rows' \in Seq(Rows), Len(rows') <= MaxRows,
         UNCHANGED <<channel, source, attempt, received, diskVars, runs>>
  PROVE  IInv'
<1>1. /\ channel = "api" /\ outcome = "none" /\ events = Begun /\ Len(answers) = attempt
      /\ \A i \in DOMAIN answers : answers[i] \in Transient
  BY DEF IInv, FetchInv, Fetching
<1>2. attempt \in Nat /\ attempt <= MaxRetries /\ MaxRetries \in Nat /\ answers \in Seq(AttemptAnswer)
  BY BoundsAssumption DEF IInv, Shapes
<1>3. /\ answers' \in Seq(AttemptAnswer) /\ answers' # <<>> /\ Len(answers') = attempt + 1
      /\ \A i \in 1..attempt : answers'[i] \in Transient
  <2>1. last \in AttemptAnswer
    BY DEF AttemptAnswer
  <2> QED
    BY <1>1, <1>2, <2>1, Longer
<1>4. /\ events' \in Seq(Events)
      /\ events' = IF source.auth
                   THEN IF outcome' = "escaped" THEN <<"started", "secret_succeeded">>
                        ELSE <<"started", "secret_succeeded", terminal>>
                   ELSE IF outcome' = "escaped" THEN <<"started">> ELSE <<"started", terminal>>
  <2>1. events \in Seq(Events)
    BY DEF IInv, Shapes
  <2>2. outcome' # "escaped" => terminal \in Events
    BY DEF Events
  <2>3. events' \in Seq(Events)
    BY <2>1, <2>2, Longer
  <2>4. CASE source.auth
    BY <1>1, <2>3, <2>4, Told DEF Begun
  <2>5. CASE ~source.auth
    BY <1>1, <2>3, <2>5, Told DEF Begun
  <2> QED
    BY <2>4, <2>5
<1>5. Shapes'
  <2>1. outcome' \in Outcomes
    BY DEF Outcomes, Done, ApiErrors
  <2> QED
    BY <1>3, <1>4, <2>1 DEF IInv, Shapes, Stages, diskVars
<1>6. LinesInv' /\ ArtifactOfOneRun'
  BY LinesLeft DEF diskVars
<1>7. FetchInv' /\ FileInv' /\ DoneInv'
  BY DEF FetchInv, Fetching, FileInv, DoneInv, Done
<1>8. RetriesAreTransient'
  BY <1>2, <1>3 DEF RetriesAreTransient, FetchErrors, Transient
<1>9. EndIsAudited'
  <2>1. channel' = "api" /\ source' = source
    BY <1>1
  <2>2. outcome' \notin {"unknown_source", "source_disabled", "unsafe_destination", "crashed"}
    OBVIOUS
  <2>3. CASE source.auth
    <3>1. CASE outcome' = "escaped"
      BY <1>3, <1>4, <1>8, <2>1, <2>2, <2>3, <3>1, Told DEF EndIsAudited
    <3>2. CASE outcome' # "escaped"
      BY <1>3, <1>4, <1>8, <2>1, <2>2, <2>3, <3>2, Told DEF EndIsAudited, Done
    <3> QED
      BY <3>1, <3>2
  <2>4. CASE ~source.auth
    BY <1>4, <1>8, <2>1, <2>2, <2>4, Told DEF EndIsAudited, Done
  <2> QED
    BY <2>3, <2>4
<1> QED
  BY <1>5, <1>6, <1>7, <1>9 DEF IInv

\* The steps after which fetch is over.
LEMMA FetchEndsKept ==
  ASSUME IInv, \/ BodyUndecodable
               \/ \E code \in {"invalid_payload_shape", "schema_validation_failed"} :
                    PayloadUnusable(code)
               \/ PayloadUsable
  PROVE  IInv'
<1>1. rows \in Seq(Rows) /\ Len(rows) <= MaxRows /\ result \in {NoResult, NormalizeBatch(rows)}
  BY DEF IInv, Shapes
<1>2. CASE BodyUndecodable
  <2>1. /\ stage = "reading" /\ answers' = Append(answers, "undecodable") /\ stage' = "ended"
        /\ outcome' = "escaped" /\ events' = events
        /\ UNCHANGED <<channel, source, attempt, received, rows, result, diskVars, runs>>
    BY <1>2 DEF BodyUndecodable, Escape, batchVars
  <2> QED
    BY <1>1, <2>1, FetchEnds
<1>3. ASSUME NEW code \in {"invalid_payload_shape", "schema_validation_failed"},
             PayloadUnusable(code)
      PROVE  IInv'
  <2>1. /\ stage = "reading" /\ answers' = Append(answers, "ok") /\ stage' = "ended"
        /\ outcome' = code /\ events' = Append(events, "failed")
        /\ UNCHANGED <<channel, source, attempt, received, rows, result, diskVars, runs>>
    BY <1>3 DEF PayloadUnusable, Fail, batchVars
  <2> QED
    BY <1>1, <2>1, FetchEnds
<1>4. CASE PayloadUsable
  <2>1. PICK batch \in Batches : Normalize(batch, "ended")
    BY <1>4 DEF PayloadUsable
  <2>2. /\ stage = "reading" /\ answers' = Append(answers, "ok") /\ rows' = batch
        /\ UNCHANGED <<channel, source, attempt, received, diskVars, runs>>
    BY <1>4, <2>1 DEF PayloadUsable, Normalize
  <2>3. batch \in Seq(Rows) /\ Len(batch) <= MaxRows
    BY BatchesAreSequences
  <2>4. CASE Refused(batch)
    <3>1. stage' = "ended" /\ outcome' = "escaped" /\ events' = events /\ result' = result
      BY <2>1, <2>4 DEF Normalize, Escape
    <3>2. result = NoResult
      BY <2>2 DEF IInv, DoneInv
    <3> QED
      BY <2>2, <2>3, <3>1, <3>2, FetchEnds
  <2>5. CASE ~Refused(batch)
    <3>1. /\ stage' = "ended" /\ outcome' = "completed" /\ events' = Append(events, "completed")
          /\ result' = NormalizeBatch(batch)
      BY <2>1, <2>5 DEF Normalize
    <3>2. result' = NormalizeBatch(rows') /\ ~Refused(rows')
      BY <2>2, <2>5, <3>1
    <3> QED
      BY <2>2, <2>3, <3>1, <3>2, FetchEnds
  <2> QED
    BY <2>4, <2>5
<1> QED
  BY <1>2, <1>3, <1>4

\* The sleep ends: one more attempt has begun.
LEMMA BackoffKept ==
  ASSUME IInv, BackoffEnds
  PROVE  IInv'
<1>1. /\ stage = "backoff" /\ stage' = "sending" /\ attempt' = attempt + 1
      /\ UNCHANGED <<channel, source, received, answers, events, outcome, rows, result, file,
                     handed, artifact, runs>>
  BY DEF BackoffEnds, batchVars, diskVars
<1>2. /\ channel = "api" /\ outcome = "none" /\ events = Begun /\ Len(answers) = attempt + 1
      /\ attempt < MaxRetries
  BY <1>1 DEF IInv, FetchInv, Fetching
<1>3. attempt' \in 0..MaxRetries
  BY <1>1, <1>2, BoundsAssumption DEF IInv, Shapes
<1>4. Shapes'
  BY <1>1, <1>3 DEF IInv, Shapes, Stages
<1>5. LinesInv' /\ ArtifactOfOneRun'
  BY <1>1, <1>2, LinesLeft
<1>6. FetchInv' /\ FileInv' /\ DoneInv'
  BY <1>1, <1>2 DEF IInv, FetchInv, Fetching, FileInv, DoneInv, Begun, Done
<1>7. EndIsAudited'
  BY <1>1, <1>2 DEF IInv, EndIsAudited, RetriesAreTransient
<1> QED
  BY <1>4, <1>5, <1>6, <1>7 DEF IInv

-----------------------------------------------------------------------------
\* While a file run looks at its file.
Looking == {"is_file", "stat", "open", "read"}

\* It goes on, whoever replaces the file.
LEMMA LookGoesOn ==
  ASSUME IInv, stage \in Looking, stage' \in Looking, file' \in FileStates,
         UNCHANGED <<channel, source, attempt, received, answers, events, outcome, rows, result,
                     handed, artifact, runs>>
  PROVE  IInv'
<1>1. /\ channel \in {"csv", "xlsx"} /\ outcome = "none" /\ events = <<"started">> /\ answers = <<>>
      /\ result = NoResult
  BY DEF IInv, FileInv, DoneInv, Looking
<1>2. Shapes'
  BY DEF IInv, Shapes, Stages, Looking
<1>3. LinesInv' /\ ArtifactOfOneRun'
  BY <1>1, LinesLeft DEF Looking
<1>4. FetchInv' /\ FileInv' /\ DoneInv'
  BY <1>1 DEF FetchInv, Fetching, FileInv, DoneInv, Done, Looking
<1>5. EndIsAudited'
  BY DEF IInv, EndIsAudited, RetriesAreTransient, Looking
<1> QED
  BY <1>2, <1>3, <1>4, <1>5 DEF IInv

\* A file run ends before it has a batch, with an error of its own or another.
LEMMA LookEnds ==
  ASSUME IInv, stage \in Looking, stage' = "ended", outcome' \in FileErrors \cup {"escaped"},
         outcome' = "escaped" => events' = events,
         outcome' # "escaped" => events' = Append(events, "failed"),
         rows' \in Seq(Rows), Len(rows') <= MaxRows, file' \in FileStates,
         UNCHANGED <<channel, source, attempt, received, answers, result, handed, artifact, runs>>
  PROVE  IInv'
<1>1. /\ channel \in {"csv", "xlsx"} /\ outcome = "none" /\ events = <<"started">> /\ answers = <<>>
      /\ result = NoResult
  BY DEF IInv, FileInv, DoneInv, Looking
<1>2. outcome' \in Outcomes \ Done /\ outcome' \notin FetchErrors /\ outcome' # "crashed"
  BY DEF FileErrors, Outcomes, Done, FetchErrors, Transient
<1>3. /\ events' = IF outcome' = "escaped" THEN <<"started">> ELSE <<"started", "failed">>
      /\ events' \in Seq(Events)
  <2>1. "started" \in Events /\ "failed" \in Events
    BY DEF Events
  <2>2. Append(events, "failed") = <<"started", "failed">>
    BY <1>1, Told
  <2>3. <<"started">> \in Seq(Events) /\ <<"started", "failed">> \in Seq(Events)
    BY <2>1, FewEvents
  <2> QED
    BY <1>1, <2>2, <2>3
<1>4. Shapes'
  BY <1>1, <1>2, <1>3 DEF IInv, Shapes, Stages, Looking
<1>5. LinesInv' /\ ArtifactOfOneRun'
  BY <1>2, LinesLeft DEF Looking, Done
<1>6. FetchInv' /\ FileInv' /\ DoneInv'
  BY <1>2 DEF FetchInv, Fetching, FileInv, DoneInv
<1>7. RetriesAreTransient'
  BY <1>1, <1>2 DEF IInv, EndIsAudited, RetriesAreTransient, FetchErrors
<1>8. EndIsAudited'
  <2>1. channel' # "api"
    BY <1>1
  <2>2. CASE outcome' = "escaped"
    BY <1>3, <1>7, <2>1, <2>2, Told DEF EndIsAudited
  <2>3. CASE outcome' # "escaped"
    BY <1>2, <1>3, <1>7, <2>1, <2>3, Told DEF EndIsAudited
  <2> QED
    BY <2>2, <2>3
<1> QED
  BY <1>4, <1>5, <1>6, <1>8 DEF IInv

\* The looks themselves, and the file that changes between them.
LEMMA LooksKept ==
  ASSUME IInv, IsFile \/ Stat \/ FileUnreadable \/ FileChanges
  PROVE  IInv'
<1>1. rows \in Seq(Rows) /\ Len(rows) <= MaxRows /\ file \in FileStates
  BY DEF IInv, Shapes
<1>2. {"MissingFileError", "EmptyFileError", "FileTooLargeError"} \subseteq FileErrors
  BY DEF FileErrors
<1>3. CASE IsFile
  <2>1. /\ stage \in Looking
        /\ UNCHANGED <<channel, source, attempt, received, answers, rows, result, file, handed, artifact, runs>>
    BY <1>3 DEF IsFile, Looking, apiVars, batchVars, diskVars
  <2>2. \/ /\ stage' = "ended" /\ outcome' = "MissingFileError" /\ events' = Append(events, "failed")
        \/ stage' \in Looking /\ UNCHANGED <<events, outcome>>
    BY <1>3 DEF IsFile, Fail, Looking
  <2>3. CASE stage' \in Looking /\ UNCHANGED <<events, outcome>>
    BY <1>1, <2>1, <2>3, LookGoesOn
  <2>4. CASE stage' = "ended" /\ outcome' = "MissingFileError" /\ events' = Append(events, "failed")
    BY <1>1, <1>2, <2>1, <2>4, LookEnds
  <2> QED
    BY <2>2, <2>3, <2>4
<1>4. CASE Stat
  <2>1. /\ stage \in Looking
        /\ UNCHANGED <<channel, source, attempt, received, answers, rows, result, file, handed, artifact, runs>>
    BY <1>4 DEF Stat, Looking, apiVars, batchVars, diskVars
  <2>2. \/ stage' = "ended" /\ outcome' = "escaped" /\ events' = events
        \/ /\ stage' = "ended" /\ outcome' \in {"EmptyFileError", "FileTooLargeError"}
           /\ events' = Append(events, "failed")
        \/ stage' \in Looking /\ UNCHANGED <<events, outcome>>
    BY <1>4 DEF Stat, Fail, Escape, Looking
  <2>3. CASE stage' \in Looking /\ UNCHANGED <<events, outcome>>
    BY <1>1, <2>1, <2>3, LookGoesOn
  <2>4. CASE stage' = "ended"
    BY <1>1, <1>2, <2>1, <2>2, <2>4, LookEnds DEF Looking
  <2> QED
    BY <2>2, <2>3, <2>4
<1>5. CASE FileUnreadable
  <2>1. /\ stage \in Looking /\ stage' = "ended"
        /\ UNCHANGED <<channel, source, attempt, received, answers, rows, result, file, handed, artifact, runs>>
    BY <1>5 DEF FileUnreadable, Fail, Escape, Looking, apiVars, batchVars, diskVars
  <2>2. channel \in {"csv", "xlsx"} /\ file.form \in Forms
    BY <1>1, <1>5 DEF IInv, FileInv, FileUnreadable, FileStates, FileState
  <2>3. ReadError[channel][file.form] \in FileErrors \cup {"escaped", "none"}
    BY <2>2 DEF ReadError, Forms, FileErrors
  <2>4. /\ outcome' \in FileErrors \cup {"escaped"}
        /\ outcome' = "escaped" => events' = events
        /\ outcome' # "escaped" => events' = Append(events, "failed")
    BY <1>5, <2>3 DEF FileUnreadable, Fail, Escape
  <2> QED
    BY <1>1, <2>1, <2>4, LookEnds
<1>6. CASE FileChanges
  BY <1>6, LookGoesOn DEF FileChanges, Looking, apiVars, batchVars
<1> QED
  BY <1>3, <1>4, <1>5, <1>6

\* The batch of a file is normalized.
LEMMA FileReadableKept ==
  ASSUME IInv, FileReadable
  PROVE  IInv'
<1>1. PICK batch \in Batches :
        Normalize(IF channel = "xlsx" THEN WithCells(batch) ELSE batch, "export")
  BY DEF FileReadable
<1> DEFINE given == IF channel = "xlsx" THEN WithCells(batch) ELSE batch
<1>2. /\ stage = "read" /\ rows' = given
      /\ UNCHANGED <<channel, source, attempt, received, answers, file, handed, artifact, runs>>
  BY <1>1 DEF FileReadable, Normalize, apiVars, diskVars
<1>3. given \in Seq(Rows) /\ Len(given) <= MaxRows
  BY BatchesAreSequences
<1>4. Normalize(given, "export")
  BY <1>1
<1> HIDE DEF given
<1>5. file \in FileStates
  BY DEF IInv, Shapes
<1>6. CASE Refused(given)
  <2>1. stage' = "ended" /\ outcome' = "escaped" /\ events' = events /\ result' = result
    BY <1>4, <1>6 DEF Normalize, Escape
  <2> QED
    BY <1>2, <1>3, <1>5, <2>1, LookEnds DEF Looking
<1>7. CASE ~Refused(given)
  <2>1. /\ stage' = "export" /\ outcome' = "completed" /\ events' = Append(events, "completed")
        /\ result' = NormalizeBatch(rows') /\ ~Refused(rows')
    BY <1>2, <1>4, <1>7 DEF Normalize
  <2>2. channel \in {"csv", "xlsx"} /\ outcome = "none" /\ events = <<"started">> /\ answers = <<>>
    BY <1>2 DEF IInv, FileInv
  <2>3. events' = <<"started", "completed">> /\ events' \in Seq(Events)
    <3>1. "started" \in Events /\ "completed" \in Events
      BY DEF Events
    <3>2. Append(events, "completed") = <<"started", "completed">>
      BY <2>2, Told
    <3>3. <<"started", "completed">> \in Seq(Events)
      BY <3>1, FewEvents
    <3> QED
      BY <2>1, <3>2, <3>3
  <2>4. Shapes'
    BY <1>2, <1>3, <2>1, <2>3 DEF IInv, Shapes, Stages, Outcomes, Done
  <2>5. LinesInv' /\ ArtifactOfOneRun'
    BY <1>2, <2>1, LinesLeft
  <2>6. FetchInv' /\ FileInv' /\ DoneInv'
    BY <1>2, <2>1, <2>2, <2>3 DEF FetchInv, Fetching, FileInv, DoneInv
  <2>7. EndIsAudited'
    BY <1>2, <2>1 DEF IInv, EndIsAudited, RetriesAreTransient
  <2> QED
    BY <2>4, <2>5, <2>6, <2>7 DEF IInv
<1> QED
  BY <1>6, <1>7

-----------------------------------------------------------------------------
\* The job writes no artifact, and the run stays as it was reported.
LEMMA NoExportKept ==
  ASSUME IInv, NoExport
  PROVE  IInv'
<1>1. /\ stage = "export" /\ stage' = "ended"
      /\ UNCHANGED <<channel, source, attempt, received, answers, events, outcome, rows, result, file,
                     handed, artifact, runs>>
  BY DEF NoExport, apiVars, batchVars, diskVars
<1>2. /\ channel \in {"csv", "xlsx"} /\ outcome = "completed" /\ answers = <<>>
      /\ events = <<"started", "completed">>
  BY <1>1 DEF IInv, FileInv
<1>3. Shapes'
  BY <1>1 DEF IInv, Shapes, Stages
<1>4. LinesInv' /\ ArtifactOfOneRun'
  BY <1>1, <1>2, LinesLeft
<1>5. FetchInv' /\ FileInv' /\ DoneInv'
  BY <1>1 DEF IInv, FetchInv, Fetching, FileInv, DoneInv
<1>6. RetriesAreTransient'
  BY <1>1, <1>2, BoundsAssumption DEF IInv, EndIsAudited, RetriesAreTransient, FetchErrors, Transient
<1>7. EndIsAudited'
  BY <1>1, <1>2, <1>6, Told DEF EndIsAudited, Done
<1> QED
  BY <1>3, <1>4, <1>5, <1>7 DEF IInv

\* What a run in "export" or "writing" has, whatever it does to the artifact.
LEMMA ExportGoesOn ==
  ASSUME IInv, stage \in {"export", "writing"}, stage' = "writing", artifact' \in Seq(Line),
         handed' \in 0..MaxRows, LinesInv', ArtifactOfOneRun',
         UNCHANGED <<channel, source, attempt, received, answers, events, outcome, rows, result, file, runs>>
  PROVE  IInv'
<1>1. Shapes'
  BY DEF IInv, Shapes, Stages
<1>2. FetchInv' /\ FileInv' /\ DoneInv'
  BY DEF IInv, FetchInv, Fetching, FileInv, DoneInv
<1>3. EndIsAudited'
  BY DEF IInv, EndIsAudited, RetriesAreTransient
<1> QED
  BY <1>1, <1>2, <1>3 DEF IInv

\* The artifact is emptied.
LEMMA OpenArtifactKept ==
  ASSUME IInv, OpenArtifact
  PROVE  IInv'
<1>1. /\ stage = "export" /\ stage' = "writing" /\ artifact' = <<>>
      /\ UNCHANGED <<channel, source, attempt, received, answers, events, outcome, rows, result, file,
                     handed, runs>>
  BY DEF OpenArtifact, apiVars, batchVars
<1>2. artifact' \in Seq(Line) /\ Len(artifact') = 0 /\ DOMAIN artifact' = {}
  BY <1>1
<1>3. outcome' = "completed"
  BY <1>1 DEF IInv, FileInv
<1>4. LinesInv' /\ ArtifactOfOneRun'
  BY <1>1, <1>2, <1>3 DEF LinesInv, ArtifactOfOneRun
<1>5. handed' \in 0..MaxRows
  BY <1>1 DEF IInv, Shapes
<1> QED
  BY <1>1, <1>2, <1>4, <1>5, ExportGoesOn

\* What is being written: the run's own lines, so far.
LEMMA LinesWritten ==
  ASSUME IInv, stage = "writing"
  PROVE  /\ channel \in {"csv", "xlsx"} /\ outcome = "completed" /\ answers = <<>>
         /\ events = <<"started", "completed">> /\ rows \in Seq(Rows) /\ Len(rows) <= MaxRows
         /\ result = NormalizeBatch(rows) /\ ~Refused(rows) /\ runs \in 1..MaxRuns
         /\ artifact \in Seq(Line) /\ Len(artifact) \in Nat /\ DOMAIN artifact = 1..Len(artifact)
         /\ Len(artifact) <= Len(result.entities)
         /\ \A i \in DOMAIN artifact : artifact[i].run = runs /\ artifact[i].row = result.entities[i]
<1>1. /\ channel \in {"csv", "xlsx"} /\ outcome = "completed" /\ answers = <<>>
      /\ events = <<"started", "completed">>
  BY DEF IInv, FileInv
<1>2. /\ result = NormalizeBatch(rows) /\ ~Refused(rows)
      /\ rows \in Seq(Rows) /\ Len(rows) <= MaxRows
  BY <1>1 DEF IInv, DoneInv, Done, Shapes
<1>3. artifact \in Seq(Line) /\ runs \in 1..MaxRuns
  BY BoundsAssumption DEF IInv, Shapes
<1>4. Len(artifact) \in Nat /\ DOMAIN artifact = 1..Len(artifact)
  BY <1>3, LenProperties
<1>5. \A i \in DOMAIN artifact : artifact[i].run = runs
  BY DEF IInv, LinesInv
<1>6. Len(result.entities) \in Nat
  BY <1>2, BatchNormalized
<1>7. CASE artifact = <<>>
  <2>1. Len(artifact) = 0 /\ DOMAIN artifact = {}
    BY <1>7
  <2> QED
    BY <1>1, <1>2, <1>3, <1>4, <1>6, <2>1
<1>8. CASE artifact # <<>>
  BY <1>1, <1>2, <1>3, <1>4, <1>5, <1>8, EmptySeq DEF IInv, ArtifactOfOneRun
<1> QED
  BY <1>7, <1>8

\* Whatever part of the lines is on disk, they are those of the first entities.
LEMMA WrittenKept ==
  ASSUME IInv, stage = "writing", stage' \in {"writing", "ended"},
         NEW n \in 0..Len(result.entities), NEW torn \in BOOLEAN,
         torn => n < Len(result.entities), artifact' = Written(n, torn),
         outcome' = "exported" => ~torn /\ n = Len(result.entities),
         UNCHANGED <<rows, result, runs>>
  PROVE  artifact' \in Seq(Line) /\ LinesInv' /\ ArtifactOfOneRun'
<1> DEFINE m == IF torn THEN n + 1 ELSE n
           line(i) == [run |-> runs, row |-> result.entities[i], whole |-> i <= n]
<1>1. /\ rows \in Seq(Rows) /\ Len(rows) <= MaxRows /\ result = NormalizeBatch(rows)
      /\ runs \in 1..MaxRuns
  BY LinesWritten
<1>2. /\ result.entities \in Seq(DOMAIN rows) /\ Len(result.entities) \in Nat
      /\ \A i, j \in DOMAIN result.entities : i < j => result.entities[i] < result.entities[j]
  BY <1>1, BatchNormalized
<1>3. DOMAIN result.entities = 1..Len(result.entities) /\ DOMAIN rows = 1..Len(rows) /\ Len(rows) \in Nat
  BY <1>1, <1>2, LenProperties
<1>4. /\ m \in Nat /\ m <= Len(result.entities) /\ \A i \in 1..(m - 1) : i <= n
      /\ outcome' = "exported" => m = n /\ m = Len(result.entities)
  BY <1>2
<1>5. artifact' = [i \in 1..m |-> line(i)]
  BY DEF Written
<1> HIDE DEF m
<1>6. \A i \in 1..m : line(i) \in Line
  <2> SUFFICES ASSUME NEW i \in 1..m PROVE line(i) \in Line
    OBVIOUS
  <2>1. i \in 1..Len(result.entities) /\ (i <= n) \in BOOLEAN
    BY <1>2, <1>4
  <2>2. result.entities[i] \in DOMAIN rows
    BY <1>2, <2>1, ElementOfSeq
  <2>3. result.entities[i] \in 1..MaxRows
    BY <1>1, <1>3, <2>2, BoundsAssumption
  <2> QED
    BY <1>1, <2>1, <2>3 DEF Line
<1> HIDE DEF line
<1>7. artifact' \in Seq(Line) /\ Len(artifact') = m /\ DOMAIN artifact' = 1..m
      /\ \A i \in 1..m : artifact'[i] = line(i)
  BY <1>4, <1>5, <1>6, FunctionIsSequence
<1>8. \A i \in 1..m : /\ artifact'[i].run = runs /\ artifact'[i].row = result.entities[i]
                      /\ i <= n => artifact'[i].whole
  <2> SUFFICES ASSUME NEW i \in 1..m
               PROVE  /\ artifact'[i].run = runs /\ artifact'[i].row = result.entities[i]
                      /\ i <= n => artifact'[i].whole
    OBVIOUS
  <2>1. artifact'[i] = [run |-> runs, row |-> result.entities[i], whole |-> i <= n]
    BY <1>7, Zenon DEF line
  <2>2. artifact'[i].run = runs /\ artifact'[i].row = result.entities[i]
    BY <2>1
  <2>3. PICK b : b = (i <= n)
    OBVIOUS
  <2>4. artifact'[i].whole = b
    <3>1. artifact'[i] = [run |-> runs, row |-> result.entities[i], whole |-> b]
      BY <2>1, <2>3, Zenon
    <3> QED
      BY <3>1
  <2>5. ASSUME i <= n PROVE artifact'[i].whole
    BY <2>3, <2>4, <2>5, Zenon
  <2> QED
    BY <2>2, <2>5
<1>9. artifact' # <<>> => 1 \in 1..m
  BY <1>4, <1>7, EmptySeq
<1>10. LinesInv'
  BY <1>1, <1>7, <1>8, <1>9 DEF LinesInv
<1>11. \A i \in 1..(m - 1) : artifact'[i].whole /\ artifact'[i].row < artifact'[i + 1].row
  <2> SUFFICES ASSUME NEW i \in 1..(m - 1)
               PROVE  artifact'[i].whole /\ artifact'[i].row < artifact'[i + 1].row
    OBVIOUS
  <2>1. i \in 1..m /\ i + 1 \in 1..m /\ i < i + 1 /\ i <= n
    BY <1>4
  <2>2. i \in DOMAIN result.entities /\ i + 1 \in DOMAIN result.entities
    BY <1>2, <1>3, <1>4, <2>1
  <2> QED
    BY <1>2, <1>8, <2>1, <2>2
<1>12. ArtifactOfOneRun'
  <2>1. outcome' = "exported" => \A i \in 1..m : artifact'[i].whole
    BY <1>4, <1>8
  <2> QED
    BY <1>1, <1>4, <1>7, <1>8, <1>9, <1>11, <2>1 DEF ArtifactOfOneRun
<1> QED
  BY <1>7, <1>10, <1>12

\* The next line is the next entity's, whatever of the lines is on disk by then.
LEMMA WriteLineKept ==
  ASSUME IInv, WriteLine
  PROVE  IInv'
<1>1. /\ stage = "writing" /\ stage' = "writing" /\ handed < Len(result.entities)
      /\ handed' = handed + 1 /\ Flush(handed + 1)
      /\ UNCHANGED <<channel, source, attempt, received, answers, events, outcome, rows, result, file,
                     runs>>
  BY DEF WriteLine, apiVars, batchVars
<1>2. /\ outcome = "completed" /\ rows \in Seq(Rows) /\ Len(rows) <= MaxRows
      /\ result = NormalizeBatch(rows)
  BY <1>1, LinesWritten
<1>3. handed \in Nat /\ MaxRows \in Nat
  BY BoundsAssumption DEF IInv, Shapes
<1>4. Len(result.entities) \in Nat /\ Len(result.entities) <= Len(rows) /\ Len(rows) \in Nat
  <2>1. Len(rows) \in Nat /\ DOMAIN rows = 1..Len(rows)
    BY <1>2, LenProperties
  <2>2. Len(result.entities) = Cardinality(Usable(rows)) /\ Len(result.entities) \in Nat
    BY <1>2, BatchNormalized
  <2>3. Usable(rows) \subseteq 1..Len(rows)
    BY <2>1 DEF Usable
  <2>4. IsFiniteSet(1..Len(rows)) /\ Cardinality(1..Len(rows)) = Len(rows)
    <3>1. IsFiniteSet(1..Len(rows))
          /\ Cardinality(1..Len(rows)) = IF 1 > Len(rows) THEN 0 ELSE Len(rows) - 1 + 1
      BY <2>1, FS_Interval
    <3> QED
      BY <2>1, <3>1
  <2> HIDE DEF Usable
  <2>5. Cardinality(Usable(rows)) <= Cardinality(1..Len(rows))
    BY <2>3, <2>4, FS_Subset
  <2> QED
    BY <2>1, <2>2, <2>4, <2>5
<1>5. PICK n \in 0..(handed + 1), torn \in BOOLEAN :
        (torn => n < handed + 1) /\ artifact' = Written(n, torn)
  BY <1>1 DEF Flush
<1>6. n \in 0..Len(result.entities) /\ (torn => n < Len(result.entities))
      /\ handed' \in 0..MaxRows
  BY <1>1, <1>2, <1>3, <1>4, <1>5
<1>7. artifact' \in Seq(Line) /\ LinesInv' /\ ArtifactOfOneRun'
  BY <1>1, <1>2, <1>5, <1>6, WrittenKept
<1> QED
  BY <1>1, <1>6, <1>7, ExportGoesOn

\* A run that was writing its artifact has ended, having told of its batch.
LEMMA WritingEnds ==
  ASSUME IInv, stage = "writing", stage' = "ended", outcome' \in {"exported", "unwritten"},
         artifact' \in Seq(Line), LinesInv', ArtifactOfOneRun',
         UNCHANGED <<channel, source, attempt, received, answers, events, rows, result, file, handed, runs>>
  PROVE  IInv'
<1>1. /\ channel \in {"csv", "xlsx"} /\ answers = <<>> /\ events = <<"started", "completed">>
      /\ result = NormalizeBatch(rows) /\ ~Refused(rows)
  BY LinesWritten
<1>2. Shapes'
  BY DEF IInv, Shapes, Stages, Outcomes, Done
<1>3. FetchInv' /\ FileInv' /\ DoneInv'
  BY <1>1 DEF FetchInv, Fetching, FileInv, DoneInv
<1>4. RetriesAreTransient'
  BY <1>1, BoundsAssumption DEF IInv, EndIsAudited, RetriesAreTransient, FetchErrors, Transient
<1>5. EndIsAudited'
  BY <1>1, <1>4, Told DEF EndIsAudited, Done
<1> QED
  BY <1>2, <1>3, <1>5 DEF IInv

\* A write fails: what is on disk is still some part of the lines.
LEMMA ExportFailsKept ==
  ASSUME IInv, ExportFails
  PROVE  IInv'
<1>1. /\ stage = "writing" /\ stage' = "ended" /\ outcome' = "unwritten"
      /\ UNCHANGED <<channel, source, attempt, received, answers, events, rows, result, file, handed,
                     runs>>
  BY DEF ExportFails, apiVars, batchVars
<1>2. PICK h \in {handed, handed + 1} : h <= Len(result.entities) /\ Flush(h)
  BY DEF ExportFails
<1>3. h \in Nat
  BY BoundsAssumption DEF IInv, Shapes
<1>4. PICK n \in 0..h, torn \in BOOLEAN : (torn => n < h) /\ artifact' = Written(n, torn)
  BY <1>2 DEF Flush
<1>5. Len(result.entities) \in Nat
  BY <1>1, LinesWritten, BatchNormalized
<1>6. n \in 0..Len(result.entities) /\ (torn => n < Len(result.entities))
  BY <1>2, <1>3, <1>4, <1>5
<1>7. artifact' \in Seq(Line) /\ LinesInv' /\ ArtifactOfOneRun'
  BY <1>1, <1>4, <1>6, WrittenKept
<1> QED
  BY <1>1, <1>7, WritingEnds

\* All lines are written: as many as entities, and each whole.
LEMMA CloseArtifactKept ==
  ASSUME IInv, CloseArtifact
  PROVE  IInv'
<1>1. /\ stage = "writing" /\ stage' = "ended" /\ outcome' = "exported"
      /\ handed = Len(result.entities) /\ artifact' = Written(handed, FALSE)
      /\ UNCHANGED <<channel, source, attempt, received, answers, events, rows, result, file, handed,
                     runs>>
  BY DEF CloseArtifact, apiVars, batchVars
<1>2. handed \in 0..Len(result.entities)
  <2>1. Len(result.entities) \in Nat
    BY <1>1, LinesWritten, BatchNormalized
  <2> QED
    BY <1>1, <2>1
<1>3. artifact' \in Seq(Line) /\ LinesInv' /\ ArtifactOfOneRun'
  BY <1>1, <1>2, WrittenKept
<1> QED
  BY <1>1, <1>3, WritingEnds

\* A crash leaves the disk as it is.
LEMMA CrashKept ==
  ASSUME IInv, Crash
  PROVE  IInv'
<1>1. /\ stage \notin Resting /\ stage' = "ended" /\ outcome' = "crashed"
      /\ UNCHANGED <<channel, source, attempt, received, answers, events, rows, result, file, handed,
                     artifact, runs>>
  BY DEF Crash, apiVars, batchVars, diskVars
<1>2. LinesInv' /\ ArtifactOfOneRun'
  BY <1>1 DEF IInv, LinesInv, ArtifactOfOneRun, Resting
<1>3. Shapes'
  BY <1>1 DEF IInv, Shapes, Stages, Outcomes, Resting
<1>4. FetchInv' /\ FileInv' /\ DoneInv'
  BY <1>1 DEF FetchInv, Fetching, FileInv, DoneInv, Done
<1>5. EndIsAudited'
  BY <1>1 DEF IInv, EndIsAudited, RetriesAreTransient, FetchErrors, Transient
<1> QED
  BY <1>2, <1>3, <1>4, <1>5 DEF IInv
-----------------------------------------------------------------------------
\* No run has begun.
LEMMA InitIInv == Init => IInv
<1> SUFFICES ASSUME Init PROVE IInv
  OBVIOUS
<1>1. MaxRetries \in Nat /\ MaxBytes \in Nat /\ MaxRows \in Nat /\ MaxRuns \in Nat
  BY BoundsAssumption
<1>2. Absent \in FileStates
  BY DEF Absent, FileStates, FileState, Forms
<1>3. Shapes
  BY <1>1, <1>2, EmptySeq DEF Init, Shapes, Stages, Outcomes
<1>4. FetchInv /\ FileInv /\ DoneInv
  BY DEF Init, FetchInv, Fetching, FileInv, DoneInv, Done
<1>5. LinesInv /\ ArtifactOfOneRun
  BY DEF Init, LinesInv, ArtifactOfOneRun
<1>6. EndIsAudited
  BY <1>1 DEF Init, EndIsAudited, RetriesAreTransient
<1> QED
  BY <1>3, <1>4, <1>5, <1>6 DEF IInv

\* Every step keeps the invariant.
LEMMA StepKept == IInv /\ [Next]_vars => IInv'
<1> SUFFICES ASSUME IInv, [Next]_vars PROVE IInv'
  OBVIOUS
<1>1. CASE Start
  BY <1>1, StartApiKept, StartFileKept DEF Start
<1>2. CASE Step
  BY <1>2, FetchStepsKept, FetchEndsKept, BackoffKept, LooksKept, FileReadableKept, NoExportKept,
     OpenArtifactKept, WriteLineKept, ExportFailsKept, CloseArtifactKept DEF Step
<1>3. CASE FileChanges
  BY <1>3, LooksKept
<1>4. CASE Crash
  BY <1>4, CrashKept
<1>5. CASE UNCHANGED vars
  BY <1>5 DEF IInv, Shapes, FetchInv, Begun, FileInv, DoneInv, LinesInv, ArtifactOfOneRun, EndIsAudited,
     RetriesAreTransient, vars, apiVars, batchVars, diskVars
<1> QED
  BY <1>1, <1>2, <1>3, <1>4, <1>5 DEF Next
-----------------------------------------------------------------------------
\* What holds of every run at every stage.
THEOREM RunsAreOfOneKind == Spec => []IInv
<1> QED
  BY InitIInv, StepKept, PTL DEF Spec

\* Every variable has its type: in particular fetch makes no attempt beyond
\* max_retries + 1 and holds no byte beyond the cap (api/client.py:88-100, 172-180),
\* and every entity and line is of a row there was.
THEOREM IngestionTypeOK == Spec => []TypeOK
<1>1. IInv => TypeOK
  <2> SUFFICES ASSUME IInv PROVE TypeOK
    OBVIOUS
  <2>1. \A i \in DOMAIN answers : answers[i] \in FetchErrors \cup {"ok", "undecodable"}
    BY LenProperties, ElementOfSeq DEF IInv, Shapes, AttemptAnswer
  <2>2. \A i \in DOMAIN events : events[i] \in Events
    BY LenProperties, ElementOfSeq DEF IInv, Shapes
  <2>3. \A i \in DOMAIN rows : rows[i] \in Rows
    BY LenProperties, ElementOfSeq DEF IInv, Shapes
  <2>4. \A i \in DOMAIN artifact : artifact[i] \in Line
    BY LenProperties, ElementOfSeq DEF IInv, Shapes
  <2>5. \A i \in DOMAIN result.entities : result.entities[i] \in DOMAIN rows
    <3>1. CASE result = NoResult
      BY <3>1 DEF NoResult
    <3>2. CASE result = NormalizeBatch(rows)
      <4>1. result.entities \in Seq(DOMAIN rows)
        BY <3>2, BatchNormalized DEF IInv, Shapes
      <4> QED
        BY <4>1, LenProperties, ElementOfSeq
    <3> QED
      BY <3>1, <3>2 DEF IInv, Shapes
  <2> QED
    BY <2>1, <2>2, <2>3, <2>4, <2>5 DEF IInv, Shapes, TypeOK, Line
<1> QED
  BY <1>1, RunsAreOfOneKind, PTL

\* For any upstream, file and crash: what may pass is retried and nothing else, and the
\* audit events of a run tell how it ended (ApiConnector.fetch, client.py:88-100;
\* ApiIngestionService.run, ingest_kyc_file, _auth_headers).
THEOREM IngestionEndIsAudited == Spec => []EndIsAudited
<1>1. IInv => EndIsAudited
  BY DEF IInv
<1> QED
  BY <1>1, RunsAreOfOneKind, PTL

-----------------------------------------------------------------------------
\* A duplicate is flagged on each of its rows, and so none of them is emitted.
LEMMA DuplicatesFlagged ==
  ASSUME NEW batch \in Seq(Rows), NEW i \in DOMAIN batch, NEW j \in DOMAIN batch, i # j,
         batch[i].client_id = batch[j].client_id, batch[i].client_id # Blank
  PROVE  <<"client_id", "duplicate_client_id">> \in RowIssues(batch, i)
<1> DEFINE id == batch[i].client_id
           S == {k \in DOMAIN batch : batch[k].client_id = id}
<1>1. DOMAIN batch = 1..Len(batch) /\ Len(batch) \in Nat /\ batch[i] \in Rows
  BY LenProperties, ElementOfSeq
<1>2. id \in Ids
  BY <1>1, RowsAssumption DEF Row
<1>3. Cardinality(S) \in Nat /\ Cardinality(S) > 1
  <2>1. IsFiniteSet(1..Len(batch)) /\ S \subseteq 1..Len(batch)
    BY <1>1, FS_Interval
  <2>2. IsFiniteSet(S) /\ Cardinality(S) \in Nat
    BY <2>1, FS_Subset, FS_CardinalityType
  <2>3. {i, j} \subseteq S
    OBVIOUS
  <2>4. Cardinality({i, j}) = 2
    <3>1. IsFiniteSet({i}) /\ Cardinality({i}) = 1
      BY FS_Singleton
    <3>2. {i, j} = {i} \cup {j} /\ j \notin {i}
      OBVIOUS
    <3>3. Cardinality({i} \cup {j}) = Cardinality({i}) + 1
      BY <3>1, <3>2, FS_AddElement, Zenon
    <3>4. Cardinality({i, j}) = 1 + 1
      BY <3>1, <3>2, <3>3, Zenon
    <3> QED
      BY <3>4
  <2>5. Cardinality({i, j}) <= Cardinality(S)
    <3>1. {i, j} \in SUBSET S
      BY <2>3
    <3> HIDE DEF S
    <3> QED
      BY <2>2, <3>1, FS_Subset
  <2> QED
    BY <2>2, <2>4, <2>5
<1>4. id \in DuplicateIds(batch)
  BY <1>2, <1>3 DEF DuplicateIds
<1>5. NormalizeRow(batch[i]).client_id = id
  BY DEF NormalizeRow
<1> QED
  BY <1>4, <1>5 DEF RowIssues

\* A row without an issue has an id that fits and nothing wrong with a cell.
LEMMA UsableRow ==
  ASSUME NEW batch \in Seq(Rows), NEW i \in Usable(batch)
  PROVE  /\ batch[i].client_id \in Ids \ LongIds
         /\ \A f \in TextFields : batch[i].cells[f] \in {"good", "odd", "refused"}
         /\ \A f \in BooleanFields \cup {"sector_risk"} : batch[i].cells[f] = "good"
<1> DEFINE row == batch[i]
<1>1. i \in DOMAIN batch /\ RowIssues(batch, i) = {} /\ row \in Rows
  BY LenProperties, ElementOfSeq DEF Usable
<1>2. row \in Row
  BY <1>1, RowsAssumption
<1>3. NormalizeRow(row).issues = {}
  BY <1>1 DEF RowIssues
<1> HIDE DEF row
<1>4. /\ {f \in TextFields : row.cells[f] = "blank"} = {}
      /\ {f \in TextFields : row.cells[f] = "long"} = {}
      /\ {f \in BooleanFields : row.cells[f] # "good"} = {}
      /\ row.client_id # Blank /\ row.client_id \notin LongIds
      /\ row.cells["sector_risk"] = "good"
  <2>1. NormalizeRow(row).issues =
          {<<f, "missing_required_field">> : f \in {g \in TextFields : row.cells[g] = "blank"}}
          \cup {<<f, "value_too_long">> : f \in {g \in TextFields : row.cells[g] = "long"}}
          \cup (IF row.client_id = Blank THEN {<<"client_id", "missing_required_field">>} ELSE {})
          \cup (IF row.client_id \in LongIds THEN {<<"client_id", "value_too_long">>} ELSE {})
          \cup {<<f, "invalid_boolean">> : f \in {g \in BooleanFields : row.cells[g] # "good"}}
          \cup (IF row.cells["sector_risk"] # "good"
                  THEN {<<"sector_risk", "invalid_sector_risk">>} ELSE {})
    BY DEF NormalizeRow
  <2> DEFINE M == {g \in TextFields : row.cells[g] = "blank"}
             L == {g \in TextFields : row.cells[g] = "long"}
             B == {g \in BooleanFields : row.cells[g] # "good"}
  <2>2. /\ {<<f, "missing_required_field">> : f \in M} = {}
        /\ {<<f, "value_too_long">> : f \in L} = {}
        /\ {<<f, "invalid_boolean">> : f \in B} = {}
        /\ row.client_id # Blank /\ row.client_id \notin LongIds
        /\ row.cells["sector_risk"] = "good"
    <3> HIDE DEF M, L, B
    <3> QED
      BY <1>3, <2>1 DEF M, L, B
  <2>3. M = {} /\ L = {} /\ B = {}
    <3> HIDE DEF M, L, B
    <3> QED
      BY <2>2
  <2> QED
    BY <2>2, <2>3
<1>5. /\ row.client_id \in Ids \cup {Blank}
      /\ \A f \in TextFields : row.cells[f] \in Cells
  BY <1>2 DEF Row
<1>6. row.client_id \in Ids \ LongIds
  BY <1>4, <1>5
<1>7. \A f \in TextFields : row.cells[f] \in {"good", "odd", "refused"}
  BY <1>4, <1>5 DEF Cells
<1>8. \A f \in BooleanFields \cup {"sector_risk"} : row.cells[f] = "good"
  BY <1>4
<1> QED
  BY <1>6, <1>7, <1>8 DEF row

\* What the invariant says of rows, report and artifact.
LEMMA BatchAccounted ==
  ASSUME IInv
  PROVE  RowsAccounted
<1> SUFFICES ASSUME outcome \in Done PROVE NoSilentWinner /\ ReportAccounts
  BY DEF RowsAccounted, NoSilentWinner, ReportAccounts, IInv
<1>1. result = NormalizeBatch(rows) /\ ~Refused(rows) /\ rows \in Seq(Rows)
  BY DEF IInv, DoneInv, Shapes
<1> DEFINE emitted == {result.entities[k] : k \in DOMAIN result.entities}
           flagged == {x[1] : x \in result.issues}
<1>2. DOMAIN rows = 1..Len(rows) /\ Len(rows) \in Nat
  BY <1>1, LenProperties
<1>3. /\ result.entities \in Seq(DOMAIN rows) /\ Len(result.entities) = Cardinality(Usable(rows))
      /\ Len(result.entities) \in Nat
      /\ \A i, j \in DOMAIN result.entities : i < j => result.entities[i] < result.entities[j]
      /\ emitted = Usable(rows)
      /\ \A k \in DOMAIN result.entities : result.entities[k] \in Usable(rows)
      /\ flagged = DOMAIN rows \ Usable(rows)
      /\ \A i \in DOMAIN rows : \A issue \in RowIssues(rows, i) : <<i, issue[1], issue[2]>> \in result.issues
      /\ result.report.total_rows = Len(rows)
      /\ result.report.valid_rows = Len(result.entities)
      /\ result.report.invalid_rows = Len(rows) - Len(result.entities)
  <2> DEFINE entities == NormalizeBatch(rows).entities
             issues == NormalizeBatch(rows).issues
  <2>1. /\ entities \in Seq(DOMAIN rows) /\ Len(entities) = Cardinality(Usable(rows))
        /\ Len(entities) \in Nat
        /\ \A i, j \in DOMAIN entities : i < j => entities[i] < entities[j]
        /\ {entities[k] : k \in DOMAIN entities} = Usable(rows)
        /\ \A k \in DOMAIN entities : entities[k] \in Usable(rows)
        /\ {x[1] : x \in issues} = DOMAIN rows \ Usable(rows)
        /\ \A i \in DOMAIN rows : \A issue \in RowIssues(rows, i) : <<i, issue[1], issue[2]>> \in issues
        /\ NormalizeBatch(rows).report.total_rows = Len(rows)
        /\ NormalizeBatch(rows).report.valid_rows = Len(entities)
        /\ NormalizeBatch(rows).report.invalid_rows = Len(rows) - Len(entities)
    <3> HIDE DEF entities, issues
    <3> QED
      BY <1>1, BatchNormalized DEF entities, issues
  <2>2. result.entities = entities /\ result.issues = issues
    BY <1>1
  <2>3. emitted = {entities[k] : k \in DOMAIN entities} /\ flagged = {x[1] : x \in issues}
    BY <2>2
  <2> HIDE DEF entities, issues, emitted, flagged
  <2> QED
    BY <1>1, <2>1, <2>2, <2>3
<1> HIDE DEF emitted, flagged
<1>4. Usable(rows) \subseteq DOMAIN rows
  BY DEF Usable
<1>5. NoSilentWinner
  <2> SUFFICES ASSUME NEW i \in DOMAIN rows, NEW j \in DOMAIN rows,
                      i # j, rows[i].client_id = rows[j].client_id, rows[i].client_id # Blank
               PROVE  /\ \A k \in DOMAIN result.entities : result.entities[k] # i
                      /\ <<i, "client_id", "duplicate_client_id">> \in result.issues
    BY DEF NoSilentWinner
  <2> DEFINE issue == <<"client_id", "duplicate_client_id">>
  <2>1. issue \in RowIssues(rows, i)
    BY <1>1, DuplicatesFlagged
  <2>2. i \notin Usable(rows)
    BY <2>1 DEF Usable
  <2>3. <<i, issue[1], issue[2]>> \in result.issues
    BY <1>3, <2>1
  <2> QED
    BY <1>3, <2>2, <2>3
<1>6. Cardinality(flagged) = Len(rows) - Cardinality(emitted)
  <2> DEFINE n == Len(rows)
  <2>0. n \in Nat
    BY <1>2
  <2>2. emitted \in SUBSET (1..n) /\ flagged = (1..n) \ emitted
    BY <1>2, <1>3, <1>4
  <2> HIDE DEF n
  <2>1. IsFiniteSet(1..n) /\ Cardinality(1..n) = n
    BY <2>0, FS_Interval
  <2>3. IsFiniteSet(emitted) /\ IsFiniteSet(flagged)
    BY <2>1, <2>2, FS_Subset
  <2>4. emitted \cup flagged = 1..n /\ emitted \cap flagged = {}
    BY <2>2
  <2>5. Cardinality(emitted) \in Nat /\ Cardinality(flagged) \in Nat
    BY <2>3, FS_CardinalityType
  <2>6. Cardinality(emitted \cup flagged)
          = Cardinality(emitted) + Cardinality(flagged) - Cardinality(emitted \cap flagged)
    BY <2>3, FS_Union
  <2>7. Cardinality(emitted \cap flagged) = 0
    BY <2>4, FS_EmptySet
  <2> QED
    <3>1. n = Cardinality(emitted) + Cardinality(flagged) - 0
      BY <2>1, <2>4, <2>6, <2>7
    <3>2. Cardinality(flagged) = n - Cardinality(emitted)
      BY <2>0, <2>5, <3>1
    <3> QED
      BY <3>2 DEF n
<1>7. \A k \in 1..(Len(result.entities) - 1) : result.entities[k] < result.entities[k + 1]
  <2>1. DOMAIN result.entities = 1..Len(result.entities)
    BY <1>3, LenProperties
  <2> SUFFICES ASSUME NEW k \in 1..(Len(result.entities) - 1)
               PROVE  result.entities[k] < result.entities[k + 1]
    OBVIOUS
  <2>2. k \in 1..Len(result.entities) /\ k + 1 \in 1..Len(result.entities) /\ k < k + 1
    BY <1>3
  <2> QED
    BY <1>3, <2>1, <2>2
<1>8. ASSUME NEW i \in emitted
      PROVE  /\ rows[i].client_id \in Ids \ LongIds
             /\ \A f \in TextFields : rows[i].cells[f] \in {"good", "odd"}
             /\ \A f \in BooleanFields \cup {"sector_risk"} : rows[i].cells[f] = "good"
  <2>1. i \in Usable(rows)
    BY <1>3, <1>8
  <2>2. \A f \in TextFields : rows[i].cells[f] # "refused"
    BY <1>1, <2>1 DEF Refused, Usable
  <2>3. /\ rows[i].client_id \in Ids \ LongIds
        /\ \A f \in TextFields : rows[i].cells[f] \in {"good", "odd", "refused"}
        /\ \A f \in BooleanFields \cup {"sector_risk"} : rows[i].cells[f] = "good"
    BY <1>1, <2>1, UsableRow
  <2> QED
    BY <2>2, <2>3
<1>9. ReportAccounts
  <2>1. emitted \cup flagged = DOMAIN rows /\ emitted \cap flagged = {}
    BY <1>3, <1>4
  <2>2. /\ result.report.total_rows = Len(rows)
        /\ result.report.valid_rows = Cardinality(emitted)
        /\ result.report.invalid_rows = Cardinality(flagged)
    BY <1>3, <1>6
  <2> QED
    BY <1>7, <1>8, <2>1, <2>2 DEF ReportAccounts, emitted, flagged
<1> QED
  BY <1>5, <1>9

\* For any batch and any history of runs, crashes and failing writes: of duplicates none
\* is emitted and each is flagged, the report accounts for every row, and the artifact is
\* the beginning of one run's entities, its last line perhaps torn (normalize_batch, kyc_ingestion_pipeline.py:65-92; write_processed_jsonl, 192-203).
THEOREM IngestionRowsAccounted == Spec => []RowsAccounted
<1> QED
  BY BatchAccounted, RunsAreOfOneKind, PTL

-----------------------------------------------------------------------------
(* ProtectedData *)

Whole(f) == f = NoFile \/ (f \in Envelope /\ f.synced)

\* What a name leads to, or may lead to, is whole.
DiskSettled ==
  \A n \in Names :
    /\ \A f \in unsettled[n] \cup {disk[n]} : Whole(f)
    /\ n \in BadNames => \A f \in unsettled[n] \cup {disk[n]} : f = NoFile

SyncedBeforeReplace == \A t \in Threads : pc[t] = "replace" => envelope[t].synced

\* A call that goes on has no answer yet, and one that writes has its two events.
Underway ==
  \A t \in Threads :
    /\ pc[t] # "idle" => reply[t] = "none"
    /\ pc[t] \in Writing => trail[t] = <<"secret_ok", "encrypt_ok">>

Storage == DiskSettled /\ SyncedBeforeReplace

\* A read is told of all that stands under its name, until it has opened the file.
Preparing == {"provider", "construct", "open"}
Seen ==
  \A t \in Threads :
    /\ (pc[t] \in Preparing /\ call[t] \in ReadCalls) => Standing(call[t].name) \subseteq stood[t]
    /\ pc[t] = "decrypt" => envelope[t].wrote \in stood[t]
Calls == Underway /\ Seen /\ ReadRight /\ AuditTells
DataInv == DataTypeOK /\ Storage /\ Calls

-----------------------------------------------------------------------------
\* The three things a name may lead to are different.
LEMMA FilesDiffer ==
  Torn \notin Envelope /\ NoFile \notin Envelope /\ Torn # NoFile
  BY DEF Torn, NoFile, Envelope

LEMMA DataInitHolds == DataInit => DataInv
<1> SUFFICES ASSUME DataInit PROVE DataInv
  OBVIOUS
<1>1. DataTypeOK
  BY DEF DataInit, DataTypeOK, InHand, Files, Pcs, Writing, Trails,
     Replies
<1>2. Storage
  BY DEF DataInit, Storage, DiskSettled, SyncedBeforeReplace, Whole
<1>3. Calls
  BY DEF DataInit, Calls, Underway, Seen, Preparing, ReadRight, AuditTells, Writing
<1> QED BY <1>1, <1>2, <1>3 DEF DataInv

\* A name leads to something whole, so nothing torn is left over.
LEMMA WholeHasNoLeftovers == ASSUME DataInv, NEW n \in Names
                             PROVE /\ Leftovers(n) = unsettled[n] \cup {disk[n]}
                                   /\ Torn \notin Leftovers(n)
<1>1. \A f \in unsettled[n] \cup {disk[n]} : Whole(f)
  BY DEF DataInv, Storage, DiskSettled
<1>2. \A f \in unsettled[n] \cup {disk[n]} : Remains(f) = {f} /\ f # Torn
  BY <1>1, FilesDiffer DEF Whole, Remains
<1> QED BY <1>2 DEF Leftovers

-----------------------------------------------------------------------------
\* What a call that ends so may answer.
Honest(t, r, f, k, told) ==
  LET did == IF call[t].kind = "write" THEN "encrypt_ok" ELSE "decrypt_ok"
      failed == IF call[t].kind = "write" THEN "encrypt_failed" ELSE "decrypt_failed"
      opened == f.value = f.wrote /\ f.sealed = k
  IN
  /\ r = "plaintext" => f.value \in stood[t]
  /\ r = "decryption_failed" =>
       \/ f.value # f.wrote
       \/ f.sealed # k
       \/ call[t].kind = "read_json" /\ f.value \notin JsonValues
  /\ r \in {"plaintext", "written", "write_failed"} => told = <<"secret_ok", did>>
  /\ r \in {"unavailable", "refused", "missing"} => told = <<"secret_failed", failed>>
  /\ r = "malformed" => told = <<"secret_ok", failed>>
  /\ r = "decryption_failed" => told = <<"secret_ok", IF opened THEN did ELSE failed>>
  /\ r \in {"misconfigured", "not_a_file", "malformed_envelope"} => told = <<>>

\* A thread that goes on keeps the invariants of the calls.
LEMMA GoesOnHolds ==
  ASSUME DataInv, NEW t \in Threads, NEW to \in Pcs \ {"idle"}, NEW f \in Files,
         NEW told \in Trails,
         GoesOn(t, to, f, told), pc[t] # "idle", UNCHANGED disk,
         to \in Writing => told = <<"secret_ok", "encrypt_ok">>,
         to \in Preparing => pc[t] \in Preparing,
         to = "decrypt" => f.wrote \in stood[t]
  PROVE  Calls'
<1>1. Underway'
  BY DEF DataInv, DataTypeOK, Calls, Underway, GoesOn
<1>2. ReadRight'
  BY DEF DataInv, DataTypeOK, Calls, Underway, ReadRight, GoesOn
<1>3. AuditTells'
  BY DEF DataInv, DataTypeOK, Calls, Underway, AuditTells, GoesOn
<1>4. Seen'
  <2> SUFFICES ASSUME NEW u \in Threads
               PROVE  /\ (pc'[u] \in Preparing /\ call'[u] \in ReadCalls)
                            => Standing(call[u].name)' \subseteq stood'[u]
                      /\ pc'[u] = "decrypt" => envelope'[u].wrote \in stood'[u]
    BY DEF Seen
  <2>1. call' = call /\ stood' = stood /\ \A n : Standing(n)' = Standing(n)
    BY DEF GoesOn, Standing
  <2>2. pc'[u] = (IF u = t THEN to ELSE pc[u]) /\ envelope'[u] = (IF u = t THEN f ELSE envelope[u])
    BY DEF DataInv, DataTypeOK, GoesOn
  <2> QED BY <2>1, <2>2 DEF DataInv, Calls, Seen
<1> QED BY <1>1, <1>2, <1>3, <1>4 DEF Calls

\* A call that ends with an honest answer keeps them too.
LEMMA EndsHolds ==
  ASSUME DataInv, NEW t \in Threads, NEW r \in Replies, NEW f, NEW k, NEW told \in Trails,
         Ends(t, r, f, k, told), Honest(t, r, f, k, told),
         \A u \in Threads : stood[u] \subseteq stood'[u], Seen'
  PROVE  Calls'
<1>1. Underway'
  BY DEF DataInv, DataTypeOK, Calls, Underway, Ends, Writing
<1>2. call'[t].kind = call[t].kind /\ \A u \in Threads \ {t} : call'[u] = call[u]
  BY DEF DataInv, DataTypeOK, Ends, Over
<1>3. \A u \in Threads : /\ reply'[u] = (IF u = t THEN r ELSE reply[u])
                         /\ envelope'[u] = (IF u = t THEN f ELSE envelope[u])
                         /\ key'[u] = (IF u = t THEN k ELSE key[u])
                         /\ trail'[u] = (IF u = t THEN told ELSE trail[u])
  BY DEF DataInv, DataTypeOK, Ends
<1>4. ReadRight'
  BY <1>2, <1>3 DEF DataInv, Calls, ReadRight, Honest
<1>5. AuditTells'
  BY <1>2, <1>3 DEF DataInv, Calls, AuditTells, Honest
<1> QED BY <1>1, <1>4, <1>5 DEF Calls

\* A call that is over is told of nothing more.
LEMMA EndsSeen ==
  ASSUME DataInv, NEW t \in Threads, NEW r, NEW f, NEW k, NEW told,
         Ends(t, r, f, k, told), UNCHANGED <<disk, stood>>
  PROVE  Seen'
<1> SUFFICES ASSUME NEW u \in Threads
             PROVE  /\ (pc'[u] \in Preparing /\ call'[u] \in ReadCalls)
                          => Standing(call[u].name)' \subseteq stood'[u]
                    /\ pc'[u] = "decrypt" => envelope'[u].wrote \in stood'[u]
  BY DEF Seen
<1>1. stood' = stood /\ \A n : Standing(n)' = Standing(n)
  BY DEF Standing
<1>2. u # t => pc'[u] = pc[u] /\ envelope'[u] = envelope[u] /\ call'[u] = call[u]
  BY DEF DataInv, DataTypeOK, Ends
<1>3. u = t => pc'[u] = "idle"
  BY DEF DataInv, DataTypeOK, Ends
<1> QED BY <1>1, <1>2, <1>3 DEF DataInv, Calls, Seen, Preparing

\* The types, when only a thread moves, and the provider perhaps.
LEMMA GoesOnTyped ==
  ASSUME DataTypeOK, NEW t \in Threads, NEW to \in Pcs, NEW f \in Files,
         NEW told \in Trails,
         GoesOn(t, to, f, told), InHand(to, call[t], f), provider' \in Tokens \cup {None},
         UNCHANGED <<environment, disk, unsettled>>
  PROVE  DataTypeOK'
BY DEF DataTypeOK, GoesOn, environment

LEMMA EndsTyped ==
  ASSUME DataTypeOK, NEW t \in Threads, NEW r \in Replies, NEW f \in Files,
         NEW k \in Keys \cup {None},
         NEW told \in Trails, Ends(t, r, f, k, told), call[t] # NoCall,
         disk' \in [Names -> Files],
         unsettled' \in [Names -> SUBSET Files], stood' \in [Threads -> SUBSET Values],
         UNCHANGED <<environment, provider>>
  PROVE  DataTypeOK'
<1>1. Over(call[t]) \in OverCalls
  BY DEF DataTypeOK, Over, OverCalls, WriteCalls, ReadCalls
<1> QED BY <1>1 DEF DataTypeOK, Ends, environment, InHand, Pcs, Writing

LEMMA StorageKept ==
  ASSUME DataInv, NEW t \in Threads, UNCHANGED <<disk, unsettled>>,
         \/ \E to, f, told : GoesOn(t, to, f, told) /\ (to = "replace" => f.synced)
         \/ \E r, f, k, told : Ends(t, r, f, k, told)
  PROVE  Storage'
<1>1. DiskSettled'
  BY DEF DataInv, Storage, DiskSettled, Whole
<1>2. SyncedBeforeReplace'
  BY DEF DataInv, DataTypeOK, Storage, SyncedBeforeReplace, GoesOn, Ends
<1> QED BY <1>1, <1>2 DEF Storage

\* A thread goes on from a step of a call; everything is kept.
LEMMA GoesOnKeeps ==
  ASSUME DataInv, NEW t \in Threads, NEW to \in Pcs \ {"idle"}, NEW f \in Files,
         NEW told \in Trails,
         GoesOn(t, to, f, told), pc[t] # "idle", InHand(to, call[t], f),
         to = "replace" => f.synced, to \in Preparing => pc[t] \in Preparing,
         to = "decrypt" => f.wrote \in stood[t],
         to \in Writing => told = <<"secret_ok", "encrypt_ok">>,
         provider' \in Tokens \cup {None}, UNCHANGED <<environment, disk, unsettled>>
  PROVE  DataInv'
<1>1. DataTypeOK'
  BY GoesOnTyped DEF DataInv
<1>2. Storage'
  BY StorageKept
<1>3. Calls'
  BY GoesOnHolds
<1> QED BY <1>1, <1>2, <1>3 DEF DataInv

\* A call ends, and leaves the disk alone.
LEMMA EndsKeeps ==
  ASSUME DataInv, NEW t \in Threads, NEW r \in Replies, NEW f \in Files,
         NEW k \in Keys \cup {None},
         NEW told \in Trails, Ends(t, r, f, k, told), Honest(t, r, f, k, told),
         call[t] # NoCall, UNCHANGED <<environment, provider, disk, unsettled, stood>>
  PROVE  DataInv'
<1>1. DataTypeOK'
  BY EndsTyped DEF DataInv, DataTypeOK
<1>2. Storage'
  BY StorageKept
<1>3. Calls'
  BY EndsHolds, EndsSeen
<1> QED BY <1>1, <1>2, <1>3 DEF DataInv

\* What the provider answers: key material, or a failure.
LEMMA AnswerTyped ==
  ASSUME DataTypeOK, NEW key_id \in KeyIds, NEW answer \in Answers(key_id)
  PROVE  /\ answer \in Keys \cup Failures
         /\ answer \notin Failures => Access(answer) = "secret_ok"
         /\ answer = "malformed" => Access(answer) = "secret_ok"
         /\ answer \in Failures \ {"malformed"} => Access(answer) = "secret_failed"
         /\ Access(answer) \in {"secret_ok", "secret_failed"}
BY DEF DataTypeOK, Answers, VaultAnswers, Failures, Access

-----------------------------------------------------------------------------
LEMMA ResolveProviderHolds == ASSUME DataInv, NEW t \in Threads, ResolveProvider(t)
                              PROVE DataInv'
<1> DEFINE to == IF mode = "vault" /\ provider = None THEN "construct" ELSE FirstStep(call[t])
<1>1. /\ DataTypeOK /\ pc[t] = "provider" /\ NoFile \in Files /\ <<>> \in Trails
      /\ call[t] \in WriteCalls \cup ReadCalls /\ call[t] # NoCall
  BY DEF ResolveProvider, DataInv, DataTypeOK, InHand, Files, Trails, WriteCalls, ReadCalls, NoCall
<1>2. CASE Fails(t, "misconfigured", <<>>)
  BY <1>1, <1>2, EndsKeeps DEF Fails, Honest, Replies, ResolveProvider
<1>3. CASE GoesOn(t, to, NoFile, <<>>)
  <2>1. call[t] \in WriteCalls \cup ReadCalls
    BY <1>1
  <2>2. /\ call[t].kind = "write" => call[t] \in WriteCalls
        /\ call[t].kind # "write" => call[t] \in ReadCalls
    BY <2>1 DEF WriteCalls, ReadCalls
  <2>3. to \in {"construct", "seal", "open"} /\ InHand(to, call[t], NoFile)
    BY <2>1, <2>2 DEF FirstStep, InHand, Writing
  <2> QED BY <1>1, <1>3, <2>3, GoesOnKeeps DEF Pcs, Writing, DataTypeOK,
             ResolveProvider, environment, Preparing
<1> QED BY <1>2, <1>3 DEF ResolveProvider

LEMMA ConstructHolds == ASSUME DataInv, NEW t \in Threads, Construct(t) PROVE DataInv'
<1>1. /\ DataTypeOK /\ pc[t] = "construct" /\ NoFile \in Files /\ <<>> \in Trails
      /\ call[t] \in WriteCalls \cup ReadCalls /\ call[t] # NoCall
  BY DEF Construct, DataInv, DataTypeOK, InHand, Files, Trails, WriteCalls, ReadCalls, NoCall
<1>2. CASE Fails(t, "misconfigured", <<>>) /\ UNCHANGED provider
  BY <1>1, <1>2, EndsKeeps DEF Fails, Honest, Replies, Construct
<1>3. CASE GoesOn(t, FirstStep(call[t]), NoFile, <<>>) /\ provider' = token
  <2>1. call[t] \in WriteCalls \cup ReadCalls
    BY <1>1
  <2>2. /\ call[t].kind = "write" => call[t] \in WriteCalls
        /\ call[t].kind # "write" => call[t] \in ReadCalls
    BY <2>1 DEF WriteCalls, ReadCalls
  <2>3. FirstStep(call[t]) \in {"seal", "open"} /\ InHand(FirstStep(call[t]), call[t], NoFile)
    BY <2>1, <2>2 DEF FirstStep, InHand, Writing
  <2> QED BY <1>1, <1>3, <2>3, GoesOnKeeps DEF Pcs, Writing, DataTypeOK, Construct,
             environment, Preparing
<1> QED BY <1>2, <1>3 DEF Construct

LEMMA SealHolds == ASSUME DataInv, NEW t \in Threads, Seal(t) PROVE DataInv'
<1>1. /\ DataTypeOK /\ pc[t] = "seal" /\ call[t] \in WriteCalls /\ NoFile \in Files
      /\ UNCHANGED <<environment, provider, disk, unsettled>>
  BY DEF Seal, DataInv, DataTypeOK, InHand, Files
<1>2. /\ call[t].kind = "write" /\ call[t].name \in Names /\ call[t] # NoCall
      /\ call[t].value \in Values /\ call[t].key_id \in KeyIds
  BY <1>1 DEF WriteCalls, NoCall
<1>3. PICK answer \in Answers(call[t].key_id) :
        IF answer \in Failures THEN Fails(t, answer, <<Access(answer), "encrypt_failed">>)
        ELSE IF Escapes(call[t].name) THEN Fails(t, "bad_path", <<Access(answer), "encrypt_ok">>)
        ELSE GoesOn(t, "create", SealedWith(call[t], answer), <<Access(answer), "encrypt_ok">>)
  BY DEF Seal
<1> DEFINE done == <<Access(answer), "encrypt_ok">>
           failed == <<Access(answer), "encrypt_failed">>
           sealed == SealedWith(call[t], answer)
<1>4. done \in Trails /\ failed \in Trails
  BY <1>1, <1>2, AnswerTyped DEF Trails, AuditEvents
<1>5. CASE answer \in Failures /\ Fails(t, answer, failed)
  <2>1. Honest(t, answer, NoFile, None, failed)
    BY <1>1, <1>2, <1>5, AnswerTyped DEF Honest, Failures
  <2> QED BY <1>1, <1>2, <1>4, <1>5, <2>1, EndsKeeps DEF Fails, Replies
<1>6. CASE answer \notin Failures /\ Fails(t, "bad_path", done)
  <2>1. Honest(t, "bad_path", NoFile, None, done)
    BY <1>1, <1>2, <1>6, AnswerTyped DEF Honest
  <2> HIDE DEF done
  <2> QED BY <1>1, <1>2, <1>4, <1>6, <2>1, EndsKeeps DEF Fails, Replies
<1>7. CASE answer \notin Failures /\ ~Escapes(call[t].name) /\ GoesOn(t, "create", sealed, done)
  <2>1. sealed \in Envelope /\ sealed.value = call[t].value /\ sealed.wrote = call[t].value
    BY <1>1, <1>2, <1>7, AnswerTyped DEF SealedWith, Envelope
  <2>2. InHand("create", call[t], sealed)
    BY <1>1, <1>7, <2>1 DEF InHand, Writing, Escapes
  <2>3. done = <<"secret_ok", "encrypt_ok">>
    BY <1>1, <1>2, <1>7, AnswerTyped
  <2> HIDE DEF sealed, done
  <2> QED BY <1>1, <1>4, <1>7, <2>1, <2>2, <2>3, GoesOnKeeps DEF Files, Pcs, Writing, Preparing,
             DataTypeOK, environment
<1> QED BY <1>3, <1>5, <1>6, <1>7

LEMMA CreateTempHolds == ASSUME DataInv, NEW t \in Threads, CreateTemp(t) PROVE DataInv'
<1>1. /\ pc[t] = "create" /\ InHand("write", call[t], envelope[t])
      /\ envelope[t] \in Files /\ trail[t] \in Trails /\ trail[t] = <<"secret_ok", "encrypt_ok">>
  BY DEF CreateTemp, DataInv, DataTypeOK, InHand, Writing, Calls, Underway
<1> QED BY <1>1, GoesOnKeeps DEF CreateTemp, Pcs, Writing, Preparing, DataInv, DataTypeOK

LEMMA WriteTempHolds == ASSUME DataInv, NEW t \in Threads, WriteTemp(t) PROVE DataInv'
<1>1. /\ pc[t] = "write" /\ InHand("fsync", call[t], envelope[t])
      /\ envelope[t] \in Files /\ trail[t] \in Trails /\ trail[t] = <<"secret_ok", "encrypt_ok">>
  BY DEF WriteTemp, DataInv, DataTypeOK, InHand, Writing, Calls, Underway
<1> QED BY <1>1, GoesOnKeeps DEF WriteTemp, Pcs, Writing, Preparing, DataInv, DataTypeOK

LEMMA FsyncHolds == ASSUME DataInv, NEW t \in Threads, Fsync(t) PROVE DataInv'
<1>1. /\ pc[t] = "fsync" /\ InHand("fsync", call[t], envelope[t]) /\ envelope[t] \in Envelope
      /\ trail[t] \in Trails /\ trail[t] = <<"secret_ok", "encrypt_ok">>
  BY DEF Fsync, DataInv, DataTypeOK, InHand, Writing, Calls, Underway
<1>2. /\ Synced(envelope[t]) \in Envelope /\ Synced(envelope[t]).synced
      /\ Synced(envelope[t]).value = envelope[t].value /\ Synced(envelope[t]).wrote = envelope[t].wrote
  BY <1>1 DEF Synced, Envelope
<1>3. InHand("replace", call[t], Synced(envelope[t]))
  BY <1>1, <1>2 DEF InHand, Writing
<1> QED BY <1>1, <1>2, <1>3, GoesOnKeeps DEF Fsync, Pcs, Writing, Preparing, Files,
           DataInv, DataTypeOK

LEMMA WriteFailsHolds == ASSUME DataInv, NEW t \in Threads, WriteFails(t) PROVE DataInv'
<1>1. pc[t] \in Writing /\ call[t] \in WriteCalls /\ NoFile \in Files
  BY DEF WriteFails, DataInv, DataTypeOK, InHand, Writing, Files
<1>2. trail[t] \in Trails /\ trail[t] = <<"secret_ok", "encrypt_ok">>
  BY <1>1 DEF DataInv, DataTypeOK, Calls, Underway
<1>3. Honest(t, "write_failed", NoFile, None, trail[t]) /\ call[t] # NoCall
  BY <1>1, <1>2 DEF Honest, WriteCalls, NoCall
<1> QED BY <1>1, <1>2, <1>3, EndsKeeps DEF WriteFails, Fails, Replies

\* The synced file takes the place of an artifact, which the name may yet lead to.
LEMMA ReplaceHolds == ASSUME DataInv, NEW t \in Threads, Replace(t) PROVE DataInv'
<1>0. PICK n : n = call[t].name
  OBVIOUS
<1> DEFINE Seeing(u) == stood[u] \cup (IF Reading(u, n) THEN {envelope[t].wrote} ELSE {})
<1>1. /\ pc[t] = "replace" /\ call[t] \in WriteCalls /\ call[t] # NoCall
      /\ envelope[t] \in Envelope /\ envelope[t].synced
      /\ n \notin BadNames /\ n \in Names /\ call[t].kind = "write"
      /\ NoFile \in Files /\ trail[t] \in Trails /\ trail[t] = <<"secret_ok", "encrypt_ok">>
  BY <1>0 DEF Replace, DataInv, DataTypeOK, InHand, Writing, Files, Storage,
     SyncedBeforeReplace, Calls, Underway, WriteCalls, NoCall
<1>2. Ends(t, "written", NoFile, None, trail[t])
  BY DEF Replace
<1>3. \A u \in Threads : stood'[u] = Seeing(u) /\ stood[u] \subseteq stood'[u]
  BY <1>0 DEF Replace
<1>4. DataTypeOK'
  <2>1. disk' \in [Names -> Files] /\ unsettled' \in [Names -> SUBSET Files]
    BY <1>0, <1>1 DEF Replace, DataInv, DataTypeOK, Files
  <2>2. stood' \in [Threads -> SUBSET Values]
    BY <1>1 DEF Replace, DataInv, DataTypeOK, Envelope
  <2> QED BY <1>1, <1>2, <2>1, <2>2, EndsTyped DEF Replace, DataInv, Replies
<1>5. DiskSettled'
  BY <1>0, <1>1 DEF Replace, DataInv, DataTypeOK, Storage, DiskSettled, Whole
<1>6. SyncedBeforeReplace'
  BY <1>2 DEF DataInv, DataTypeOK, Storage, SyncedBeforeReplace, Ends
<1>7. Seen'
  <2> SUFFICES ASSUME NEW u \in Threads
               PROVE  /\ (pc'[u] \in Preparing /\ call'[u] \in ReadCalls)
                            => Standing(call[u].name)' \subseteq stood'[u]
                      /\ pc'[u] = "decrypt" => envelope'[u].wrote \in stood'[u]
    BY DEF Seen
  <2>1. CASE u = t
    BY <1>2, <2>1 DEF DataInv, DataTypeOK, Ends, Preparing
  <2>2. CASE u # t
    <3>1. pc'[u] = pc[u] /\ envelope'[u] = envelope[u] /\ call'[u] = call[u]
      BY <1>2, <2>2 DEF DataInv, DataTypeOK, Ends
    <3>2. pc[u] = "decrypt" => envelope[u].wrote \in stood'[u]
      BY <1>3 DEF DataInv, Calls, Seen
    <3>3. ASSUME pc[u] \in Preparing, call[u] \in ReadCalls
          PROVE  Standing(call[u].name)' \subseteq stood'[u]
      <4>1. Standing(call[u].name) \subseteq stood[u] /\ call[u].name \in Names
        BY <3>3 DEF DataInv, Calls, Seen, ReadCalls
      <4>2. CASE call[u].name = n
        <5>1. Reading(u, n)
          BY <3>3, <4>2 DEF Reading, Preparing
        <5>2. disk'[n] = envelope[t]
          BY <1>0, <1>1 DEF Replace, DataInv, DataTypeOK
        <5>3. Standing(n)' \subseteq {envelope[t].wrote}
          BY <5>2 DEF Standing
        <5> QED BY <1>3, <4>2, <5>1, <5>3, <3>1
      <4>3. CASE call[u].name # n
        <5>1. disk'[call[u].name] = disk[call[u].name]
          BY <1>0, <4>1, <4>3 DEF Replace, DataInv, DataTypeOK
        <5>2. Standing(call[u].name)' = Standing(call[u].name)
          BY <3>1, <5>1 DEF Standing
        <5> QED BY <1>3, <4>1, <5>2
      <4> QED BY <4>2, <4>3
    <3> QED BY <3>1, <3>2, <3>3
  <2> QED BY <2>1, <2>2
<1>8. Calls'
  <2>1. Honest(t, "written", NoFile, None, trail[t])
    BY <1>1 DEF Honest
  <2> QED BY <1>1, <1>2, <1>3, <1>7, <2>1, EndsHolds DEF Replies
<1> QED BY <1>4, <1>5, <1>6, <1>8 DEF DataInv, Storage

LEMMA OpenHolds == ASSUME DataInv, NEW t \in Threads, Open(t) PROVE DataInv'
<1> DEFINE found == disk[call[t].name]
<1>1. /\ pc[t] = "open" /\ call[t] \in ReadCalls /\ call[t] # NoCall /\ found \in Files
      /\ NoFile \in Files /\ <<>> \in Trails
  BY DEF Open, DataInv, DataTypeOK, InHand, ReadCalls, NoCall, Files, Trails
<1>2. ASSUME NEW r \in {"bad_path", "not_a_file", "malformed_envelope"}, Fails(t, r, <<>>)
      PROVE  DataInv'
  BY <1>1, <1>2, EndsKeeps DEF Fails, Honest, Replies, Open
<1>3. CASE found \notin {NoFile, Torn} /\ GoesOn(t, "decrypt", found, <<>>)
  <2>1. InHand("decrypt", call[t], found)
    BY <1>1, <1>3 DEF InHand, Files, Writing
  <2>2. found.wrote \in stood[t]
    BY <1>1, <1>3 DEF DataInv, Calls, Seen, Preparing, Standing
  <2> QED BY <1>1, <1>3, <2>1, <2>2, GoesOnKeeps DEF Open, Pcs, Writing, Preparing, DataInv,
             DataTypeOK
<1> QED BY <1>2, <1>3 DEF Open

LEMMA DecryptHolds == ASSUME DataInv, NEW t \in Threads, Decrypt(t) PROVE DataInv'
<1>1. /\ DataTypeOK /\ pc[t] = "decrypt" /\ call[t] \in ReadCalls /\ envelope[t] \in Envelope
      /\ envelope[t].wrote \in stood[t] /\ UNCHANGED <<environment, provider, disk, unsettled>>
  BY DEF Decrypt, DataInv, DataTypeOK, InHand, Calls, Seen
<1>2. /\ call[t].kind # "write" /\ call[t] # NoCall /\ envelope[t].key_id \in KeyIds
      /\ envelope[t] \in Files /\ NoFile \in Files
  BY <1>1 DEF ReadCalls, NoCall, Envelope, Files
<1>3. PICK answer \in Answers(envelope[t].key_id) :
        LET text == call[t].kind = "read_json" => envelope[t].value \in JsonValues IN
        IF answer \in Failures THEN Fails(t, answer, <<Access(answer), "decrypt_failed">>)
        ELSE /\ IF Authentic(envelope[t], answer)
                  THEN Ends(t, IF text THEN "plaintext" ELSE "decryption_failed", envelope[t],
                            answer, <<Access(answer), "decrypt_ok">>)
                  ELSE Ends(t, "decryption_failed", envelope[t], answer,
                            <<Access(answer), "decrypt_failed">>)
             /\ UNCHANGED stood
  BY DEF Decrypt
<1> DEFINE done == <<Access(answer), "decrypt_ok">>
           failed == <<Access(answer), "decrypt_failed">>
           text == call[t].kind = "read_json" => envelope[t].value \in JsonValues
<1>4. done \in Trails /\ failed \in Trails
  BY <1>1, <1>2, AnswerTyped DEF Trails, AuditEvents
<1>5. CASE answer \in Failures /\ Fails(t, answer, failed)
  <2>1. Honest(t, answer, NoFile, None, failed)
    BY <1>1, <1>2, <1>5, AnswerTyped DEF Honest, Failures
  <2> QED BY <1>1, <1>2, <1>4, <1>5, <2>1, EndsKeeps DEF Fails, Replies
<1>6. ASSUME answer \notin Failures, UNCHANGED stood,
             NEW r \in {"plaintext", "decryption_failed"}, NEW told \in Trails,
             Ends(t, r, envelope[t], answer, told), Honest(t, r, envelope[t], answer, told)
      PROVE  DataInv'
  BY <1>1, <1>2, <1>6, AnswerTyped, EndsKeeps DEF Replies
<1>7. CASE answer \notin Failures /\ Authentic(envelope[t], answer) /\ text
           /\ Ends(t, "plaintext", envelope[t], answer, done) /\ UNCHANGED stood
  <2>1. Honest(t, "plaintext", envelope[t], answer, done)
    BY <1>1, <1>2, <1>7, AnswerTyped DEF Honest, Authentic
  <2> HIDE DEF done
  <2> QED BY <1>4, <1>6, <1>7, <2>1
<1>8. CASE answer \notin Failures /\ Authentic(envelope[t], answer) /\ ~text
           /\ Ends(t, "decryption_failed", envelope[t], answer, done) /\ UNCHANGED stood
  <2>1. Honest(t, "decryption_failed", envelope[t], answer, done)
    BY <1>1, <1>2, <1>8, AnswerTyped DEF Honest, Authentic
  <2> HIDE DEF done
  <2> QED BY <1>4, <1>6, <1>8, <2>1
<1>9. CASE answer \notin Failures /\ ~Authentic(envelope[t], answer)
           /\ Ends(t, "decryption_failed", envelope[t], answer, failed) /\ UNCHANGED stood
  <2>1. Honest(t, "decryption_failed", envelope[t], answer, failed)
    BY <1>1, <1>2, <1>9, AnswerTyped DEF Honest, Authentic
  <2> HIDE DEF failed
  <2> QED BY <1>4, <1>6, <1>9, <2>1
<1> QED BY <1>3, <1>5, <1>7, <1>8, <1>9

-----------------------------------------------------------------------------
LEMMA BeginHolds ==
  ASSUME DataInv, NEW t \in Threads, NEW c \in WriteCalls \cup ReadCalls,
         Begin(t, c) PROVE DataInv'
<1>1. Standing(c.name) \subseteq Values
  BY FilesDiffer DEF DataInv, DataTypeOK, Standing, WriteCalls, ReadCalls, Files, Envelope
<1>2. DataTypeOK'
  BY <1>1 DEF DataInv, DataTypeOK, Begin, environment, InHand, Pcs,
     Writing, Trails, Replies, Files
<1>3. Storage'
  BY DEF DataInv, DataTypeOK, Storage, DiskSettled, Whole, SyncedBeforeReplace, Begin
<1>4. Underway'
  BY DEF DataInv, DataTypeOK, Calls, Underway, Begin, Writing
<1>5. ReadRight'
  BY DEF DataInv, DataTypeOK, Calls, ReadRight, Begin
<1>6. AuditTells'
  BY DEF DataInv, DataTypeOK, Calls, AuditTells, Begin
<1>7. Seen'
  <2> SUFFICES ASSUME NEW u \in Threads
               PROVE  /\ (pc'[u] \in Preparing /\ call'[u] \in ReadCalls)
                            => Standing(call[u].name)' \subseteq stood'[u]
                      /\ pc'[u] = "decrypt" => envelope'[u].wrote \in stood'[u]
    BY DEF Seen
  <2>1. \A m : Standing(m)' = Standing(m)
    BY DEF Begin, Standing
  <2>2. CASE u = t
    <3>1. pc'[u] = "provider" /\ call'[u] = c
          /\ stood'[u] = IF c.kind = "write" THEN {} ELSE Standing(c.name)
      BY <2>2 DEF DataInv, DataTypeOK, Begin
    <3>2. c \in ReadCalls => c.kind # "write"
      BY DEF ReadCalls
    <3> QED BY <2>1, <3>1, <3>2
  <2>3. CASE u # t
    <3>1. pc'[u] = pc[u] /\ call'[u] = call[u] /\ stood'[u] = stood[u] /\ envelope'[u] = envelope[u]
      BY <2>3 DEF DataInv, DataTypeOK, Begin
    <3> QED BY <2>1, <3>1 DEF DataInv, Calls, Seen
  <2> QED BY <2>2, <2>3
<1> QED BY <1>2, <1>3, <1>4, <1>5, <1>6, <1>7 DEF DataInv, Calls

\* What happens around the process, or to its files, leaves the calls alone, if a name
\* goes on standing for what was written.
LEMMA AroundKeepsCalls ==
  ASSUME DataInv, UNCHANGED threads, \A n \in Names : Standing(n)' \subseteq Standing(n)
  PROVE  Calls' /\ SyncedBeforeReplace'
<1>1. Underway' /\ ReadRight' /\ AuditTells' /\ SyncedBeforeReplace'
  BY DEF DataInv, Calls, Underway, ReadRight, AuditTells, Storage, SyncedBeforeReplace, threads
<1>2. Seen'
  <2> SUFFICES ASSUME NEW u \in Threads
               PROVE  /\ (pc'[u] \in Preparing /\ call'[u] \in ReadCalls)
                            => Standing(call[u].name)' \subseteq stood'[u]
                      /\ pc'[u] = "decrypt" => envelope'[u].wrote \in stood'[u]
    BY DEF Seen
  <2>1. /\ pc'[u] = pc[u] /\ call'[u] = call[u] /\ stood'[u] = stood[u] /\ envelope'[u] = envelope[u]
        /\ call[u] \in ReadCalls => call[u].name \in Names
    BY DEF threads, ReadCalls
  <2> QED BY <2>1 DEF DataInv, Calls, Seen
<1> QED BY <1>1, <1>2 DEF Calls

\* While the disk stays as it is, so does what stands under each name.
LEMMA DiskStands == ASSUME UNCHANGED disk PROVE \A n \in Names : Standing(n)' \subseteq Standing(n)
BY DEF Standing

LEMMA RotateHolds ==
  ASSUME DataInv, NEW k \in KeyIds, NEW m \in Keys \cup {"missing", "malformed"}, Rotate(k, m)
  PROVE  DataInv'
<1>1. DataTypeOK'
  BY DEF DataInv, DataTypeOK, Rotate, threads
<1>2. DiskSettled'
  BY DEF DataInv, Storage, DiskSettled, Whole, Rotate
<1> QED BY <1>1, <1>2, AroundKeepsCalls, DiskStands DEF DataInv, Storage, Rotate

LEMMA VaultChangesHolds ==
  ASSUME DataInv, NEW a \in Tokens \cup {None}, VaultChanges(a) PROVE DataInv'
<1>1. DataTypeOK'
  BY DEF DataInv, DataTypeOK, VaultChanges, threads
<1>2. DiskSettled'
  BY DEF DataInv, Storage, DiskSettled, Whole, VaultChanges
<1> QED BY <1>1, <1>2, AroundKeepsCalls, DiskStands DEF DataInv, Storage, VaultChanges

LEMMA SettleHolds == ASSUME DataInv, NEW n \in Names, Settle(n) PROVE DataInv'
<1>1. DataTypeOK'
  BY DEF DataInv, DataTypeOK, Settle, threads, environment
<1>2. DiskSettled'
  BY DEF DataInv, DataTypeOK, Storage, DiskSettled, Whole, Settle
<1> QED BY <1>1, <1>2, AroundKeepsCalls, DiskStands DEF DataInv, Storage, Settle

LEMMA DamageHolds == ASSUME DataInv, NEW n \in Names, Damage(n) PROVE DataInv'
<1>1. disk[n] \in Envelope /\ disk[n].synced /\ n \notin BadNames /\ disk[n] \notin {NoFile, Torn}
  BY DEF DataInv, Storage, DiskSettled, Whole, Damage
<1>2. PICK v \in Values, k \in KeyIds : disk' = [disk EXCEPT ![n] = Altered(disk[n], v, k)]
  BY DEF Damage
<1>3. /\ Altered(disk[n], v, k) \in Envelope /\ Altered(disk[n], v, k).synced
      /\ Altered(disk[n], v, k).wrote = disk[n].wrote
  BY <1>1 DEF Altered, Envelope
<1>4. DataTypeOK'
  BY <1>2, <1>3 DEF DataInv, DataTypeOK, Damage, threads, environment, Files
<1>5. DiskSettled'
  BY <1>1, <1>2, <1>3 DEF DataInv, DataTypeOK, Storage, DiskSettled, Whole, Damage
<1>6. \A m \in Names : Standing(m)' \subseteq Standing(m)
  <2> SUFFICES ASSUME NEW m \in Names PROVE Standing(m)' \subseteq Standing(m)
    OBVIOUS
  <2>1. CASE m = n
    <3>1. disk'[n].wrote = disk[n].wrote
      BY <1>2, <1>3 DEF DataInv, DataTypeOK
    <3> QED BY <1>1, <2>1, <3>1 DEF Standing
  <2>2. CASE m # n
    BY <1>2, <2>2 DEF Standing, DataInv, DataTypeOK
  <2> QED BY <2>1, <2>2
<1> QED BY <1>4, <1>5, <1>6, AroundKeepsCalls DEF DataInv, Storage, Damage

\* A process that comes back has no calls.
LEMMA RestartHolds ==
  ASSUME DataInv, Restart, disk' \in [Names -> Files],
         unsettled' \in [Names -> SUBSET Files]
  PROVE  DataTypeOK' /\ Calls' /\ SyncedBeforeReplace'
<1>1. DataTypeOK'
  BY DEF DataInv, DataTypeOK, Restart, InHand, Pcs, Writing, Trails,
     Replies, Files
<1>2. Calls' /\ SyncedBeforeReplace'
  BY DEF Restart, Calls, Underway, Seen, Preparing, ReadRight, AuditTells, SyncedBeforeReplace,
     Writing
<1> QED BY <1>1, <1>2

LEMMA CrashHolds == ASSUME DataInv, ProcessDies PROVE DataInv'
<1>1. DiskSettled'
  BY DEF DataInv, Storage, DiskSettled, Whole, ProcessDies
<1> QED BY <1>1, RestartHolds DEF DataInv, DataTypeOK, Storage, ProcessDies

LEMMA PowerLossHolds == ASSUME DataInv, PowerLoss PROVE DataInv'
<1>1. \A n \in Names : disk'[n] \in unsettled[n] \cup {disk[n]} /\ unsettled'[n] = {}
  BY WholeHasNoLeftovers DEF PowerLoss
<1>2. disk' \in [Names -> Files] /\ unsettled' \in [Names -> SUBSET Files]
  BY <1>1 DEF PowerLoss, DataInv, DataTypeOK
<1>3. DiskSettled'
  BY <1>1 DEF DataInv, Storage, DiskSettled, Whole
<1> QED BY <1>2, <1>3, RestartHolds DEF DataInv, Storage, PowerLoss

LEMMA DataKept == DataInv /\ [DataNext]_dataVars => DataInv'
<1> SUFFICES ASSUME DataInv, [DataNext]_dataVars PROVE DataInv'
  OBVIOUS
<1>1. CASE UNCHANGED dataVars
  <2>1. DataTypeOK' /\ DiskSettled'
    BY <1>1 DEF DataInv, DataTypeOK, Storage, DiskSettled, Whole, dataVars, environment,
       threads
  <2> QED BY <1>1, <2>1, AroundKeepsCalls, DiskStands DEF DataInv, Storage, dataVars
<1>2. ASSUME NEW t \in Threads, ThreadStep(t) PROVE DataInv'
  BY <1>2, ResolveProviderHolds, ConstructHolds, SealHolds, CreateTempHolds, WriteTempHolds,
     FsyncHolds,
     WriteFailsHolds, ReplaceHolds, OpenHolds, DecryptHolds DEF ThreadStep
<1>3. CASE \E t \in Threads, c \in WriteCalls \cup ReadCalls : Begin(t, c)
  BY <1>3, BeginHolds
<1>4. CASE \E k \in KeyIds, m \in Keys \cup {"missing", "malformed"} : Rotate(k, m)
  BY <1>4, RotateHolds
<1>5. CASE \E a \in Tokens \cup {None} : VaultChanges(a)
  BY <1>5, VaultChangesHolds
<1>6. CASE \E n \in Names : Settle(n) \/ Damage(n)
  BY <1>6, SettleHolds, DamageHolds
<1>7. CASE ProcessDies \/ PowerLoss
  BY <1>7, CrashHolds, PowerLossHolds
<1> QED BY <1>1, <1>2, <1>3, <1>4, <1>5, <1>6, <1>7 DEF DataNext

-----------------------------------------------------------------------------
\* Every step of a call, of the process and of the disk keeps the types, and what a
\* call has in hand at each step of write_json and read_json.
THEOREM Typed == DataSpec => []DataTypeOK
<1>1. DataInv => DataTypeOK
  BY DEF DataInv
<1> QED BY <1>1, DataInitHolds, DataKept, PTL DEF DataSpec

\* No crash and no loss of power leaves part of an envelope under a name, and nothing
\* is ever written outside the approved directory (artifact_store.py:8, 31-49, 76-99).
THEOREM ArtifactsAreWhole == DataSpec => []ArtifactWhole
<1>1. DataInv => ArtifactWhole
  BY WholeHasNoLeftovers DEF ArtifactWhole, DataInv, Storage, DiskSettled
<1> QED BY <1>1, DataInitHolds, DataKept, PTL DEF DataSpec

\* However keys are rotated, files damaged and power lost, a read gives what a write left
\* under its name while it went on or before, or fails with cause (service.py:79-106,
\* 138-143; artifact_store.py:101-111).
THEOREM ReadsAreRight == DataSpec => []ReadRight
<1>1. DataInv => ReadRight
  BY DEF DataInv, Calls
<1> QED BY <1>1, DataInitHolds, DataKept, PTL DEF DataSpec

\* Every answered call has the audit events that tell what became of the bytes, in order; a
\* read_json may fail after they told of success (keys.py:48-68, service.py:46-106, 138-143).
THEOREM AuditIsTold == DataSpec => []AuditTells
<1>1. DataInv => AuditTells
  BY DEF DataInv, Calls
<1> QED BY <1>1, DataInitHolds, DataKept, PTL DEF DataSpec
=============================================================================
