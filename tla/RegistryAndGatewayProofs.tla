----------------------- MODULE RegistryAndGatewayProofs -----------------------
(***************************************************************************)
(* What the screening service promises, for any lists, clients, ownership  *)
(* file, findings and bounds (ScreeningService's safety properties, and    *)
(* what the weights of the match score and of the risk score guarantee),   *)
(* and what the gateway to the language model promises, for any articles,  *)
(* claims and identifiers and every environment (LlmGateway's).            *)
(*                                                                         *)
(* Why the service keeps its promises: how far loading has come tells what *)
(* is in the registry and in its index, what the index holds is the lists  *)
(* in force, and the last answer is still what that registry answers.      *)
(* Sums over a finite set and layers of a finite graph are reasoned about  *)
(* by well-founded induction on a set of numbers (UpTo).                   *)
(*                                                                         *)
(* Why the gateway does: the backend in use is the one the environment     *)
(* calls for, what a pass sends has been through the policy for that       *)
(* backend, and the requests already made are bounded by the attempt that  *)
(* is next.                                                                *)
(***************************************************************************)
EXTENDS ScreeningService, LlmGateway, FiniteSetTheorems, SequenceTheorems,
        WellFoundedInduction, TLAPS

-----------------------------------------------------------------------------
(* Numbers and finite sets *)

\* A nonempty set of numbers has a least element.
LEMMA LeastExists ==
  ASSUME NEW S \in SUBSET Nat, S # {}
  PROVE  \E x \in S : \A y \in S : x <= y
<1>1. \E x \in S : \A y \in S : ~(<<y, x>> \in OpToRel(<, Nat))
  BY NatLessThanWellFounded, WFMin, Zenon
<1>2. \A x, y \in S : y < x => <<y, x>> \in OpToRel(<, Nat)
  BY Zenon DEF OpToRel
<1>3. \A x, y \in S : y < x \/ x <= y
  OBVIOUS
<1> QED
  BY <1>1, <1>2, <1>3

\* Induction up to a number, for a set of numbers.
LEMMA UpTo ==
  ASSUME NEW m \in Nat, NEW T, 0 \in T, \A n \in 0..(m - 1) : n \in T => n + 1 \in T
  PROVE  m \in T
<1> SUFFICES ASSUME m \notin T PROVE FALSE
  OBVIOUS
<1> DEFINE S == {n \in Nat : n \notin T}
<1>1. PICK x \in S : \A y \in S : x <= y
  <2>1. S # {} /\ S \in SUBSET Nat
    OBVIOUS
  <2> HIDE DEF S
  <2> QED
    BY <2>1, LeastExists
<1>2. x \in Nat /\ x # 0 /\ x <= m
  BY <1>1
<1>3. x - 1 \in 0..(m - 1) /\ x - 1 \in T
  <2>1. x - 1 \in Nat /\ ~(x <= x - 1)
    BY <1>2
  <2> QED
    BY <1>1, <1>2, <2>1
<1> QED
  BY <1>1, <1>2, <1>3

\* The least and the greatest of two numbers.
LEMMA MinOfTwo ==
  ASSUME NEW a \in Int, NEW b \in Int
  PROVE  /\ Min({a, b}) \in {a, b} /\ Min({a, b}) <= a /\ Min({a, b}) <= b
<1>1. \E x \in {a, b} : \A y \in {a, b} : x =< y
  OBVIOUS
<1> QED
  BY <1>1 DEF Min

LEMMA MaxOfTwo ==
  ASSUME NEW a \in Int, NEW b \in Int
  PROVE  /\ Max({a, b}) \in {a, b} /\ Max({a, b}) >= a /\ Max({a, b}) >= b
<1>1. \E x \in {a, b} : \A y \in {a, b} : x >= y
  OBVIOUS
<1> QED
  BY <1>1 DEF Max

\* Percentages have a greatest among any of them.
LEMMA MaxPercent ==
  ASSUME NEW S \in SUBSET (0..100), S # {}
  PROVE  Max(S) \in 0..100
<1> DEFINE U == {100 - x : x \in S}
<1>1. U \in SUBSET Nat /\ U # {}
  <2>1. \A x \in S : 100 - x \in Nat
    OBVIOUS
  <2> QED
    BY <2>1
<1>2. PICK u \in U : \A v \in U : u <= v
  <2> HIDE DEF U
  <2> QED
    BY <1>1, LeastExists
<1>3. PICK x \in S : u = 100 - x
  BY <1>2
<1>4. \A y \in S : x >= y
  <2> TAKE y \in S
  <2>1. u <= 100 - y
    BY <1>2
  <2> QED
    BY <1>3, <2>1
<1>5. Max(S) \in S
  BY <1>3, <1>4 DEF Max
<1> QED
  BY <1>5

\* What the elements of a row of numbers are turned into is finite.
LEMMA FiniteImage ==
  ASSUME NEW S, IsFiniteSet(S), NEW f, NEW T, \A t \in T : \E s \in S : t = f[s]
  PROVE  IsFiniteSet(T)
<1> DEFINE U == {f[s] : s \in S}
           g == [s \in S |-> f[s]]
<1>1. g \in Surjection(S, U)
  BY DEF Surjection
<1>2. IsFiniteSet(U)
  BY <1>1, FS_Surjection
<1>3. T \in SUBSET U
  OBVIOUS
<1> QED
  BY <1>2, <1>3, FS_Subset

-----------------------------------------------------------------------------
(* Sums over finite sets *)

Pick(s) == CHOOSE x \in s : TRUE
AddsUp(f, v, S) ==
  f = [s \in SUBSET S |-> IF s = {} THEN 0 ELSE v[Pick(s)] + f[s \ {Pick(s)}]]
Small(S, n) == {s \in SUBSET S : Cardinality(s) <= n}

LEMMA PickSmaller ==
  ASSUME NEW S, IsFiniteSet(S), NEW n \in Nat, NEW s \in Small(S, n + 1), s # {}
  PROVE  Pick(s) \in S /\ s \ {Pick(s)} \in Small(S, n)
<1>1. Pick(s) \in s /\ s \in SUBSET S
  BY DEF Pick, Small
<1>2. IsFiniteSet(s) /\ Cardinality(s) \in Nat /\ Cardinality(s) <= n + 1
  BY FS_Subset, FS_CardinalityType DEF Small
<1>3. Cardinality(s \ {Pick(s)}) = Cardinality(s) - 1
  BY <1>1, <1>2, FS_RemoveElement
<1>4. Cardinality(s \ {Pick(s)}) <= n
  BY <1>2, <1>3
<1> QED
  BY <1>1, <1>4 DEF Small

LEMMA NothingSmaller ==
  ASSUME NEW S, IsFiniteSet(S)
  PROVE  /\ Cardinality(S) \in Nat /\ Small(S, Cardinality(S)) = SUBSET S
         /\ Small(S, 0) = {{}}
<1>1. \A s \in SUBSET S : IsFiniteSet(s) /\ Cardinality(s) \in Nat /\ Cardinality(s) <= Cardinality(S)
  BY FS_Subset, FS_CardinalityType
<1>2. \A s \in SUBSET S : Cardinality(s) <= 0 <=> s = {}
  <2> TAKE s \in SUBSET S
  <2>1. Cardinality(s) = 0 <=> s = {}
    BY <1>1, FS_EmptySet
  <2>2. Cardinality(s) \in Nat
    BY <1>1
  <2> QED
    BY <2>1, <2>2
<1> QED
  BY <1>1, <1>2, FS_CardinalityType DEF Small

\* There is a function that adds up numbers over the parts of a finite set, ...
LEMMA FoldExists ==
  ASSUME NEW S, IsFiniteSet(S), NEW v
  PROVE  \E f : AddsUp(f, v, S)
<1> DEFINE Rec(f, s) == IF s = {} THEN 0 ELSE v[Pick(s)] + f[s \ {Pick(s)}]
           T == {n \in Nat : \E f : f = [s \in Small(S, n) |-> Rec(f, s)]}
<1>1. 0 \in T
  <2> DEFINE f == [s \in Small(S, 0) |-> 0]
  <2>1. f = [s \in Small(S, 0) |-> Rec(f, s)]
    BY NothingSmaller
  <2> QED
    BY <2>1
<1>2. ASSUME NEW n \in 0..(Cardinality(S) - 1), n \in T PROVE n + 1 \in T
  <2>1. PICK f : f = [s \in Small(S, n) |-> Rec(f, s)]
    BY <1>2
  <2> DEFINE g == [s \in Small(S, n + 1) |-> Rec(f, s)]
  <2>2. n \in Nat /\ \A s \in Small(S, n + 1) : s # {} => s \ {Pick(s)} \in Small(S, n)
    BY PickSmaller
  <2>3. \A s \in Small(S, n) : s \in Small(S, n + 1) /\ g[s] = f[s]
    <3>1. \A s \in Small(S, n) : s \in Small(S, n + 1)
      <4> TAKE s \in Small(S, n)
      <4>1. Cardinality(s) \in Nat /\ s \in SUBSET S /\ Cardinality(s) <= n
        BY FS_Subset, FS_CardinalityType DEF Small
      <4> QED
        BY <2>2, <4>1 DEF Small
    <3>2. \A s \in Small(S, n) : f[s] = Rec(f, s)
      BY <2>1
    <3> QED
      BY <3>1, <3>2
  <2>4. \A s \in Small(S, n + 1) : Rec(f, s) = Rec(g, s)
    <3> HIDE DEF g
    <3> QED
      BY <2>2, <2>3
  <2>5. g = [s \in Small(S, n + 1) |-> Rec(g, s)]
    BY <2>4
  <2> HIDE DEF g, Rec
  <2> QED
    BY <2>2, <2>5
<1>3. Cardinality(S) \in T
  <2> HIDE DEF T
  <2> QED
    BY <1>1, <1>2, UpTo, NothingSmaller
<1>4. PICK f : f = [s \in Small(S, Cardinality(S)) |-> Rec(f, s)]
  BY <1>3
<1>5. f = [s \in SUBSET S |-> Rec(f, s)]
  BY <1>4, NothingSmaller
<1> QED
  BY <1>5 DEF AddsUp

\* ... and its values are numbers.
LEMMA FoldIsInt ==
  ASSUME NEW S, IsFiniteSet(S), NEW v, \A x \in S : v[x] \in Int, NEW f, AddsUp(f, v, S)
  PROVE  f[S] \in Int
<1> DEFINE T == {n \in Nat : \A s \in Small(S, n) : f[s] \in Int}
<1>1. \A s \in SUBSET S : f[s] = IF s = {} THEN 0 ELSE v[Pick(s)] + f[s \ {Pick(s)}]
  BY DEF AddsUp
<1>2. 0 \in T
  <2>1. f[{}] = 0
    BY <1>1
  <2>2. Small(S, 0) = {{}}
    BY NothingSmaller
  <2>3. ASSUME NEW s \in Small(S, 0) PROVE f[s] \in Int
    <3>1. s = {}
      BY <2>2
    <3>2. 0 \in Int
      OBVIOUS
    <3> QED
      BY <2>1, <3>1, <3>2, Zenon
  <2>4. 0 \in Nat
    OBVIOUS
  <2> QED
    BY <2>3, <2>4
<1>3. ASSUME NEW n \in 0..(Cardinality(S) - 1), n \in T PROVE n + 1 \in T
  <2>1. n \in Nat /\ \A s \in Small(S, n + 1) :
          s # {} => Pick(s) \in S /\ s \ {Pick(s)} \in Small(S, n)
    BY PickSmaller
  <2>2. ASSUME NEW s \in Small(S, n + 1) PROVE f[s] \in Int
    <3>1. s \in SUBSET S
      BY DEF Small
    <3>2. CASE s # {}
      <4>1. v[Pick(s)] \in Int /\ f[s \ {Pick(s)}] \in Int
        BY <1>3, <2>1, <2>2, <3>2
      <4>2. f[s] = v[Pick(s)] + f[s \ {Pick(s)}]
        BY <1>1, <3>1, <3>2, Zenon
      <4> QED
        BY <4>1, <4>2
    <3>3. s = {} => f[s] = 0
      BY <1>1, <3>1, Zenon
    <3> QED
      BY <3>2, <3>3
  <2> QED
    BY <2>1, <2>2
<1>4. Cardinality(S) \in T
  <2> HIDE DEF T
  <2> QED
    BY <1>2, <1>3, UpTo, NothingSmaller
<1> QED
  BY <1>4, NothingSmaller
LEMMA ContributionsAddUp ==
  ASSUME NEW F, IsFiniteSet(F), \A f \in F : Contribution(f) \in Int
  PROVE  MapThenSumSet(Contribution, F) \in Int
<1> DEFINE v == [f \in F |-> Contribution(f)]
           Sums(g) == g = [s \in SUBSET F |->
                             IF s = {} THEN 0 ELSE Contribution(Pick(s)) + g[s \ {Pick(s)}]]
<1>1. MapThenSumSet(Contribution, F) = (CHOOSE g : Sums(g))[F]
  BY Zenon DEF MapThenSumSet, MapThenFoldSet, Pick
<1>2. \A g : Sums(g) <=> AddsUp(g, v, F)
  <2> TAKE g
  <2>1. \A s \in SUBSET F : s # {} => v[Pick(s)] = Contribution(Pick(s))
    BY DEF Pick
  <2> QED
    BY <2>1 DEF AddsUp
<1>3. \E g : Sums(g)
  BY <1>2, FoldExists
<1>4. Sums(CHOOSE g : Sums(g))
  BY <1>3
<1>5. \A x \in F : v[x] \in Int
  OBVIOUS
<1> HIDE DEF Sums, v
<1>6. AddsUp(CHOOSE g : Sums(g), v, F)
  BY <1>2, <1>4
<1>7. (CHOOSE g : Sums(g))[F] \in Int
  BY <1>5, <1>6, FoldIsInt
<1> QED
  BY <1>1, <1>7

\* So do the scores of components.
LEMMA ScoresAddUp ==
  ASSUME NEW components, IsFiniteSet(DOMAIN components),
         \A c \in DOMAIN components : ComponentScore(components[c], Weights[c]) \in Int
  PROVE  LET Score(c) == ComponentScore(components[c], Weights[c]) IN
         MapThenSumSet(Score, DOMAIN components) \in Int
<1> DEFINE Score(c) == ComponentScore(components[c], Weights[c])
           v == [c \in DOMAIN components |-> Score(c)]
           Sums(g) == g = [s \in SUBSET DOMAIN components |->
                             IF s = {} THEN 0 ELSE Score(Pick(s)) + g[s \ {Pick(s)}]]
<1> HIDE DEF Score
<1>1. MapThenSumSet(Score, DOMAIN components) = (CHOOSE g : Sums(g))[DOMAIN components]
  BY Zenon DEF MapThenSumSet, MapThenFoldSet, Pick
<1>2. \A g : Sums(g) <=> AddsUp(g, v, DOMAIN components)
  <2> TAKE g
  <2>1. \A s \in SUBSET DOMAIN components : s # {} => v[Pick(s)] = Score(Pick(s))
    BY DEF Pick
  <2> QED
    BY <2>1 DEF AddsUp
<1>3. \E g : Sums(g)
  BY <1>2, FoldExists
<1>4. Sums(CHOOSE g : Sums(g))
  BY <1>3
<1>5. \A c \in DOMAIN components : v[c] \in Int
  BY DEF Score
<1> HIDE DEF Sums, v
<1>6. AddsUp(CHOOSE g : Sums(g), v, DOMAIN components)
  BY <1>2, <1>4
<1>7. (CHOOSE g : Sums(g))[DOMAIN components] \in Int
  BY <1>5, <1>6, FoldIsInt
<1> QED
  BY <1>1, <1>7 DEF Score

-----------------------------------------------------------------------------
(* The risk engine *)

Countable(F) == IsFiniteSet(F) /\ \A f \in F : Contribution(f) \in Int

LEMMA ClampOk ==
  ASSUME NEW value \in Int, NEW low \in Int, NEW high \in Int
  PROVE  clamp(value, low, high) \in Int
BY MinOfTwo, MaxOfTwo DEF clamp

LEMMA MakeFactorOk ==
  ASSUME NEW name, NEW points \in Int, NEW confidence \in Int
  PROVE  /\ Countable(make_factor(name, points, confidence))
         /\ \A f \in make_factor(name, points, confidence) : f.name = name
<1>1. clamp(confidence, 0, 100) \in Int
  BY ClampOk
<1>2. IsFiniteSet(make_factor(name, points, confidence))
  BY FS_Singleton DEF make_factor
<1> QED
  BY <1>1, <1>2 DEF Countable, make_factor, Contribution

LEMMA BothCountable ==
  ASSUME NEW F, NEW G, Countable(F), Countable(G)
  PROVE  Countable(F \cup G)
BY FS_Union DEF Countable

LEMMA EmptyCountable == Countable({})
BY FS_EmptySet DEF Countable

LEMMA NumericOk ==
  ASSUME NEW value \in Number, NEW default \in Int
  PROVE  numeric(value, default) \in Int
BY DEF numeric, Number

LEMMA ComponentScoreOk ==
  ASSUME NEW F, Countable(F), NEW max_score \in Int
  PROVE  ComponentScore(F, max_score) \in Int
<1>1. MapThenSumSet(Contribution, F) \in Int
  BY ContributionsAddUp DEF Countable
<1> HIDE DEF MapThenSumSet
<1> QED
  BY <1>1, ClampOk DEF ComponentScore

LEMMA LesserOk == ASSUME NEW a \in Int, NEW b \in Int PROVE Lesser(a, b) \in Int
BY MinOfTwo DEF Lesser

LEMMA WhenCountable ==
  ASSUME NEW condition, NEW F, Countable(F)
  PROVE  Countable(When(condition, F))
BY EmptyCountable DEF When

\* The factors of a component of a payload can be counted.
LEMMA KycCountable ==
  ASSUME NEW kyc, kyc.confidence \in Number
  PROVE  Countable(kyc_factors(kyc))
<1> DEFINE confidence == numeric(kyc.confidence, 80)
           rating == CASE kyc.existing_kyc_risk = "high" -> 20 [] kyc.existing_kyc_risk = "medium" -> 12
                       [] kyc.existing_kyc_risk = "low" -> 4 [] OTHER -> 0
           rated == When(rating > 0, make_factor("existing_kyc", rating, confidence))
           exposed == When(kyc.pep_flag, make_factor("pep_flag", 14, confidence))
           risky == When(kyc.sector \in HIGH_RISK_SECTORS,
                         make_factor("high_risk_sector", 10, confidence))
           incomplete == When(kyc.kyc_incomplete, make_factor("incomplete_kyc", 6, confidence))
<1>1. confidence \in Int /\ rating \in Int
  BY NumericOk
<1> HIDE DEF confidence, rating
<1>2. /\ Countable(make_factor("existing_kyc", rating, confidence))
      /\ Countable(make_factor("pep_flag", 14, confidence))
      /\ Countable(make_factor("high_risk_sector", 10, confidence))
      /\ Countable(make_factor("incomplete_kyc", 6, confidence))
  BY <1>1, MakeFactorOk
<1>3. Countable(rated) /\ Countable(exposed) /\ Countable(risky) /\ Countable(incomplete)
  BY <1>2, WhenCountable
<1> HIDE DEF rated, exposed, risky, incomplete
<1>4. Countable(rated \cup exposed \cup risky \cup incomplete)
  BY <1>3, BothCountable
<1> QED
  BY <1>4, Zenon DEF kyc_factors, confidence, rating, rated, exposed, risky, incomplete

LEMMA SanctionsCountable ==
  ASSUME NEW sanctioned, NEW ownership, NEW media, sanctioned.match_confidence \in Number,
         ownership.confidence \in Number, media.confidence \in Number
  PROVE  Countable(sanctions_factors(sanctioned, ownership, media))
<1> DEFINE confidence == numeric(sanctioned.match_confidence, 50)
           owned == numeric(ownership.confidence, 75)
           told == numeric(media.confidence, 55)
           direct == IF sanctioned.relationship \in UBO_RELATIONSHIPS
                     THEN make_factor("ubo_chain_sanctions_match", 24, confidence)
                     ELSE make_factor("direct_entity_sanctions_match", 36, confidence)
           matched == When(sanctioned.has_match, direct)
           trusted == When(sanctioned.has_match /\ sanctioned.source \in {"ofac sdn", "opensanctions"},
                           make_factor("trusted_sanctions_source", 8, Lesser(confidence, 95)))
           chain == When(ownership.sanctioned_ubo,
                         make_factor("ownership_chain_sanctions_hit", 16, owned))
           news == When(media.negative_news_found /\ media.mentions_sanctions,
                        make_factor("adverse_media_sanctions_mention", 8, told))
<1>1. confidence \in Int /\ owned \in Int /\ told \in Int
  BY NumericOk
<1> HIDE DEF confidence, owned, told
<1>2. Lesser(confidence, 95) \in Int
  BY <1>1, LesserOk
<1>3. /\ Countable(make_factor("ubo_chain_sanctions_match", 24, confidence))
      /\ Countable(make_factor("direct_entity_sanctions_match", 36, confidence))
      /\ Countable(make_factor("trusted_sanctions_source", 8, Lesser(confidence, 95)))
      /\ Countable(make_factor("ownership_chain_sanctions_hit", 16, owned))
      /\ Countable(make_factor("adverse_media_sanctions_mention", 8, told))
  BY <1>1, <1>2, MakeFactorOk
<1>4. Countable(direct)
  BY <1>3
<1> HIDE DEF direct
<1>5. Countable(matched) /\ Countable(trusted) /\ Countable(chain) /\ Countable(news)
  BY <1>3, <1>4, WhenCountable
<1> HIDE DEF matched, trusted, chain, news
<1>6. Countable(matched \cup trusted \cup chain \cup news)
  BY <1>5, BothCountable
<1> QED
  BY <1>6, Zenon DEF sanctions_factors, confidence, owned, told, direct, matched, trusted, chain, news

\* What goes with a bound is a number if it is for each of the bounds.
LEMMA GradedOk ==
  ASSUME NEW value, NEW n \in Nat, NEW grades, DOMAIN grades = 1..n, NEW T,
         \A i \in 1..n : grades[i][2] \in T, NEW otherwise \in T
  PROVE  Graded(value, grades, otherwise) \in T
<1> DEFINE R == {i \in DOMAIN grades : value >= grades[i][1]}
<1>1. R \in SUBSET Nat /\ R \subseteq 1..n
  OBVIOUS
<1> HIDE DEF R
<1>2. R # {} => Min(R) \in R
  <2>1. R # {} => \E x \in R : \A y \in R : x <= y
    BY <1>1, LeastExists
  <2> QED
    BY <2>1 DEF Min
<1>3. (IF R = {} THEN otherwise ELSE grades[Min(R)][2]) \in T
  BY <1>1, <1>2
<1> QED
  BY <1>3, Zenon DEF Graded, R

LEMMA GradesOk ==
  ASSUME NEW value
  PROVE  /\ Graded(value, <<<<30, 8>>, <<20, 6>>, <<15, 4>>>>, 0) \in Int
         /\ Graded(value, <<<<10, 8>>, <<3, 4>>>>, 0) \in Int
<1>1. ASSUME NEW grades, grades = <<<<30, 8>>, <<20, 6>>, <<15, 4>>>>
      PROVE  Graded(value, grades, 0) \in Int
  <2>1. DOMAIN grades = 1..3 /\ grades[1][2] \in Int /\ grades[2][2] \in Int /\ grades[3][2] \in Int
    BY <1>1
  <2>2. \A i \in 1..3 : grades[i][2] \in Int
    BY <2>1
  <2>3. 3 \in Nat /\ 0 \in Int
    OBVIOUS
  <2> QED
    BY <2>1, <2>2, <2>3, GradedOk, Zenon
<1>2. ASSUME NEW grades, grades = <<<<10, 8>>, <<3, 4>>>>
      PROVE  Graded(value, grades, 0) \in Int
  <2>1. DOMAIN grades = 1..2 /\ grades[1][2] \in Int /\ grades[2][2] \in Int
    BY <1>2
  <2>2. \A i \in 1..2 : grades[i][2] \in Int
    BY <2>1
  <2>3. 2 \in Nat /\ 0 \in Int
    OBVIOUS
  <2> QED
    BY <2>1, <2>2, <2>3, GradedOk, Zenon
<1> QED
  BY <1>1, <1>2, Zenon

LEMMA TransactionsCountable ==
  ASSUME NEW tx, tx.suspicious_probability \in Number, tx.typology_hits \in Int
  PROVE  Countable(transaction_factors(tx))
<1> DEFINE probability == numeric(tx.suspicious_probability, 0)
           changes == <<<<30, 8>>, <<20, 6>>, <<15, 4>>>>
           counts == <<<<10, 8>>, <<3, 4>>>>
           spike == Graded(tx.monthly_volume_change, changes, 0)
           transfers == Graded(tx.high_risk_country_transfers, counts, 0)
           hits == Lesser(6, 3 * tx.typology_hits)
           likely == When(probability # 0,
                          make_factor("transaction_model_probability", 28, probability))
           sudden == When(spike > 0, make_factor("volume_spike", spike, 85))
           abroad == When(transfers > 0,
                          make_factor("high_risk_jurisdiction_transfers", transfers, 85))
           typed == When(tx.typology_hits # 0, make_factor("aml_typology_hits", hits, 80))
<1>1. probability \in Int
  BY NumericOk
<1>2. hits \in Int
  <2>1. 6 \in Int /\ 3 * tx.typology_hits \in Int
    OBVIOUS
  <2> QED
    BY <2>1, LesserOk, Zenon
<1>3. spike \in Int /\ transfers \in Int
  BY GradesOk
<1> HIDE DEF probability, spike, transfers, hits
<1>4. /\ Countable(make_factor("transaction_model_probability", 28, probability))
      /\ Countable(make_factor("volume_spike", spike, 85))
      /\ Countable(make_factor("high_risk_jurisdiction_transfers", transfers, 85))
      /\ Countable(make_factor("aml_typology_hits", hits, 80))
  BY <1>1, <1>2, <1>3, MakeFactorOk
<1>5. Countable(likely) /\ Countable(sudden) /\ Countable(abroad) /\ Countable(typed)
  BY <1>4, WhenCountable
<1> HIDE DEF likely, sudden, abroad, typed
<1>6. Countable(likely \cup sudden \cup abroad \cup typed)
  BY <1>5, BothCountable
<1> QED
  BY <1>6, Zenon DEF transaction_factors, probability, spike, transfers, hits, changes, counts,
                     likely, sudden, abroad, typed

LEMMA MediaCountable ==
  ASSUME NEW media, media.confidence \in Number
  PROVE  Countable(media_factors(media))
<1> DEFINE confidence == numeric(media.confidence, 65)
           severity == CASE media.severity = "low" -> 10 [] media.severity = "medium" -> 16
                         [] media.severity = "high" -> 22 [] media.severity = "critical" -> 24
                         [] OTHER -> 12
           corroborated == When(media.source_count >= 2, make_factor("media_corroboration", 2, confidence))
           trusted == When(media.source \in TRUSTED_SOURCES,
                           make_factor("trusted_media_source", 2, Lesser(confidence, 95)))
           recent == When(media.days_since_event <= 30, make_factor("recent_media_event", 2, confidence))
           serious == make_factor("media_severity", severity, confidence)
<1>1. confidence \in Int /\ severity \in Int
  BY NumericOk
<1> HIDE DEF confidence, severity
<1>2. Lesser(confidence, 95) \in Int
  BY <1>1, LesserOk
<1>3. /\ Countable(make_factor("media_severity", severity, confidence))
      /\ Countable(make_factor("trusted_media_source", 2, Lesser(confidence, 95)))
      /\ Countable(make_factor("media_corroboration", 2, confidence))
      /\ Countable(make_factor("recent_media_event", 2, confidence))
  BY <1>1, <1>2, MakeFactorOk
<1>4. Countable(serious) /\ Countable(trusted) /\ Countable(corroborated) /\ Countable(recent)
  BY <1>3, EmptyCountable DEF When
<1> HIDE DEF serious, trusted, corroborated, recent
<1>5. Countable(serious \cup trusted \cup corroborated \cup recent)
  BY <1>4, BothCountable
<1>6. Countable(When(media.negative_news_found, serious \cup trusted \cup corroborated \cup recent))
  BY <1>5, EmptyCountable DEF When
<1> QED
  BY <1>6, Zenon DEF media_factors, confidence, severity, serious, trusted, corroborated, recent

LEMMA JurisdictionCountable ==
  ASSUME NEW payload, payload.jurisdiction_confidence \in Number
  PROVE  Countable(jurisdiction_factors(payload))
<1> DEFINE confidence == numeric(payload.jurisdiction_confidence, 85)
<1>1. confidence \in Int
  BY NumericOk
<1> HIDE DEF confidence
<1>2. /\ Countable(make_factor("fatf_high_risk_jurisdiction", 10, confidence))
      /\ Countable(make_factor("high_risk_jurisdiction", 6, confidence))
  BY <1>1, MakeFactorOk
<1> QED
  BY <1>2, EmptyCountable DEF jurisdiction_factors, When, confidence

-----------------------------------------------------------------------------
(* Assessments *)

ComponentNames == {"kyc", "sanctions", "transactions", "media", "jurisdiction"}
LEMMA ComponentNamesOk ==
  ASSUME NEW payload
  PROVE  DOMAIN Components(payload) = ComponentNames /\ IsFiniteSet(ComponentNames)
<1>1. DOMAIN Components(payload) = ComponentNames
  BY DEF Components, ComponentNames
<1>2. IsFiniteSet({"kyc"}) /\ IsFiniteSet({"kyc"} \cup {"sanctions"})
  BY FS_Singleton, FS_AddElement
<1>3. IsFiniteSet({"kyc"} \cup {"sanctions"} \cup {"transactions"})
  BY <1>2, FS_AddElement
<1>4. IsFiniteSet({"kyc"} \cup {"sanctions"} \cup {"transactions"} \cup {"media"})
  BY <1>3, FS_AddElement
<1>5. IsFiniteSet({"kyc"} \cup {"sanctions"} \cup {"transactions"} \cup {"media"} \cup {"jurisdiction"})
  BY <1>4, FS_AddElement
<1>6. ComponentNames =
        {"kyc"} \cup {"sanctions"} \cup {"transactions"} \cup {"media"} \cup {"jurisdiction"}
  BY DEF ComponentNames
<1> QED
  BY <1>1, <1>5, <1>6

LEMMA RoundedOk == ASSUME NEW units \in Int PROVE Rounded(units) \in Int
BY DEF Rounded

\* What the sections of a payload add up to is a number.
LEMMA BaseIsInt ==
  ASSUME NEW payload, Scorable(payload)
  PROVE  BaseScore(Components(payload)) \in Int
<1> DEFINE components == Components(payload)
<1>1. /\ Countable(components["kyc"]) /\ Countable(components["sanctions"])
      /\ Countable(components["transactions"]) /\ Countable(components["media"])
      /\ Countable(components["jurisdiction"])
  BY KycCountable, SanctionsCountable, TransactionsCountable, MediaCountable, JurisdictionCountable
     DEF Components, Scorable
<1>2. DOMAIN components = ComponentNames /\ IsFiniteSet(ComponentNames)
  BY ComponentNamesOk
<1>3. \A c \in ComponentNames : Weights[c] \in Int
  BY DEF Weights, ComponentNames
<1> HIDE DEF components
<1>4. \A c \in DOMAIN components : Countable(components[c])
  BY <1>1, <1>2 DEF ComponentNames
<1>5. \A c \in DOMAIN components : ComponentScore(components[c], Weights[c]) \in Int
  BY <1>2, <1>3, <1>4, ComponentScoreOk
<1> DEFINE Score(c) == ComponentScore(components[c], Weights[c])
           sum == MapThenSumSet(Score, DOMAIN components)
<1>6. sum \in Int
  BY <1>2, <1>5, ScoresAddUp
<1> HIDE DEF sum
<1>7. Lesser(HundredPoints, sum) \in Int
  BY <1>6, LesserOk DEF HundredPoints
<1>8. Rounded(Lesser(HundredPoints, sum)) \in Int
  BY <1>7, RoundedOk
<1> QED
  BY <1>8, Zenon DEF BaseScore, sum, components

\* A value that reaches the first bound has the first grade.
LEMMA FirstGrade ==
  ASSUME NEW value, NEW n \in Nat, NEW grades, DOMAIN grades = 1..n, 1 \in 1..n,
         value >= grades[1][1], NEW otherwise
  PROVE  Graded(value, grades, otherwise) = grades[1][2]
<1> DEFINE R == {i \in DOMAIN grades : value >= grades[i][1]}
<1>1. R \subseteq 1..n /\ 1 \in R
  OBVIOUS
<1> HIDE DEF R
<1>2. Min(R) = 1
  <2>1. \A x \in R : (\A y \in R : x <= y) <=> x = 1
    BY <1>1
  <2> QED
    BY <1>1, <2>1 DEF Min
<1>3. (IF R = {} THEN otherwise ELSE grades[Min(R)][2]) = grades[1][2]
  BY <1>1, <1>2
<1> QED
  BY <1>3, Zenon DEF Graded, R

\* A value that reaches the second of two bounds has one of the grades.
LEMMA SomeGrade ==
  ASSUME NEW value, NEW n \in Nat, n = 2, NEW grades, DOMAIN grades = 1..n,
         value >= grades[2][1], NEW otherwise
  PROVE  Graded(value, grades, otherwise) \in {grades[1][2], grades[2][2]}
<1> DEFINE R == {i \in DOMAIN grades : value >= grades[i][1]}
<1>1. R \subseteq 1..n /\ 2 \in R
  OBVIOUS
<1> HIDE DEF R
<1>2. Min(R) \in R
  <2>1. R \in SUBSET Nat /\ R # {}
    BY <1>1
  <2>2. \E x \in R : \A y \in R : x <= y
    BY <2>1, LeastExists
  <2> QED BY <2>2 DEF Min
<1>3. (IF R = {} THEN otherwise ELSE grades[Min(R)][2]) \in {grades[1][2], grades[2][2]}
  <2>1. \A x \in R : x = 1 \/ x = 2
    BY <1>1
  <2>2. Min(R) = 1 \/ Min(R) = 2
    BY <1>2, <2>1, Zenon
  <2>3. R # {}
    BY <1>1
  <2> QED BY <2>2, <2>3
<1> QED
  BY <1>3, Zenon DEF Graded, R

LEMMA Floors ==
  ASSUME NEW sanctioned, NEW ownership
  PROVE  /\ EscalationFloor(sanctioned, ownership) \in Number
         /\ confirmed_sanctions_confidence(sanctioned, ownership) >= 85
              => EscalationFloor(sanctioned, ownership) = 85
         /\ confirmed_sanctions_confidence(sanctioned, ownership) >= 60
              => EscalationFloor(sanctioned, ownership) \in {65, 85}
<1> DEFINE value == confirmed_sanctions_confidence(sanctioned, ownership)
<1> HIDE DEF value
<1>1. ASSUME NEW grades, grades = <<<<85, 85>>, <<60, 65>>>>
      PROVE  /\ Graded(value, grades, None) \in Number
             /\ value >= 85 => Graded(value, grades, None) = 85
             /\ value >= 60 => Graded(value, grades, None) \in {65, 85}
  <2>1. /\ DOMAIN grades = 1..2 /\ grades[1][2] = 85 /\ grades[2][2] = 65 /\ grades[1][1] = 85
        /\ grades[2][1] = 60
    BY <1>1
  <2>2. \A i \in 1..2 : grades[i][2] \in Number
    BY <2>1 DEF Number
  <2>3. 2 \in Nat /\ None \in Number /\ 1 \in 1..2
    BY DEF Number
  <2>4. Graded(value, grades, None) \in Number
    BY <2>1, <2>2, <2>3, GradedOk
  <2> DEFINE n == 2
  <2>5. n \in Nat /\ DOMAIN grades = 1..n /\ 1 \in 1..n
    BY <2>1
  <2> HIDE DEF n
  <2>6. value >= grades[1][1] => Graded(value, grades, None) = grades[1][2]
    BY <2>5, FirstGrade, Zenon
  <2>7. value >= grades[2][1] => Graded(value, grades, None) \in {grades[1][2], grades[2][2]}
    <3>1. n = 2
      BY DEF n
    <3> QED
      BY <2>5, <3>1, SomeGrade, Zenon
  <2> QED
    BY <2>1, <2>4, <2>6, <2>7
<1>2. Thresholds.high_floor = 85 /\ Thresholds.medium_floor = 65
  BY DEF Thresholds
<1>3. EscalationFloor(sanctioned, ownership) = Graded(value, <<<<85, 85>>, <<60, 65>>>>, None)
  BY <1>2, Zenon DEF EscalationFloor, value
<1> QED
  BY <1>1, <1>3, Zenon DEF value

LEMMA Critical ==
  ASSUME NEW score \in Int, score >= 85
  PROVE  RiskLevel(score) = "CRITICAL"
<1>1. ASSUME NEW grades, grades = <<<<81, "CRITICAL">>, <<61, "HIGH">>, <<31, "MEDIUM">>>>
      PROVE  Graded(score, grades, "LOW") = "CRITICAL"
  <2>1. DOMAIN grades = 1..3 /\ grades[1][2] = "CRITICAL" /\ grades[1][1] = 81
    BY <1>1
  <2> DEFINE n == 3
  <2>2. n \in Nat /\ DOMAIN grades = 1..n /\ 1 \in 1..n /\ score >= grades[1][1]
    BY <2>1
  <2> HIDE DEF n
  <2>3. Graded(score, grades, "LOW") = grades[1][2]
    BY <2>2, FirstGrade, Zenon
  <2> QED
    BY <2>1, <2>3
<1>2. Thresholds.critical = 81 /\ Thresholds.high = 61 /\ Thresholds.medium = 31
  BY DEF Thresholds
<1> QED
  BY <1>1, <1>2, Zenon DEF RiskLevel

\* The assessment of a payload: its score is a number, it is critical where a confirmed
\* match is certain enough, and a report is recommended only where the case is opened.
LEMMA AssessOk ==
  ASSUME NEW payload, Scorable(payload)
  PROVE  LET a == Assess(payload) IN
         /\ a.factors = UNION {Components(payload)[c] : c \in DOMAIN Components(payload)}
         /\ a.sar_recommended => a.trigger_investigation
         /\ confirmed_sanctions_confidence(payload.sanctions, payload.ownership) >= 85
              => a.risk_score >= 85 /\ a.risk_level = "CRITICAL"
         /\ confirmed_sanctions_confidence(payload.sanctions, payload.ownership) >= 60
              => a.risk_score >= 65
<1> DEFINE a == Assess(payload)
           floor == EscalationFloor(payload.sanctions, payload.ownership)
           score == IF floor = None THEN BaseScore(Components(payload)) ELSE Max({BaseScore(Components(payload)), floor})
           factors == UNION {Components(payload)[c] : c \in DOMAIN Components(payload)}
           certain == ConfidenceAtLeast(factors, Thresholds.minimum_sar_confidence)
           trend == RiskTrend(score - payload.previous_score)
<1>0. a = [risk_score |-> score, base_score |-> BaseScore(Components(payload)), risk_level |-> RiskLevel(score),
           risk_trend |-> trend, escalation_floor |-> floor,
           trigger_investigation |-> score >= Thresholds.investigation,
           sar_recommended |-> score >= Thresholds.sar /\ certain, factors |-> factors]
  BY DEF Assess
<1> HIDE DEF floor, a, score, factors, certain, trend
<1>1. /\ a.risk_score = score /\ a.risk_level = RiskLevel(score)
      /\ a.trigger_investigation <=> (score >= Thresholds.investigation)
      /\ a.sar_recommended => score >= Thresholds.sar
      /\ a.factors = factors
  BY <1>0
<1>2. BaseScore(Components(payload)) \in Int /\ floor \in Number
  BY BaseIsInt, Floors DEF floor
<1>3. /\ confirmed_sanctions_confidence(payload.sanctions, payload.ownership) >= 85 => floor = 85
      /\ confirmed_sanctions_confidence(payload.sanctions, payload.ownership) >= 60
           => floor \in {65, 85}
  BY Floors DEF floor
<1>4. score \in Int /\ (floor = 85 => score >= 85) /\ (floor = 65 => score >= 65)
  BY <1>2, MaxOfTwo, MissingAssumption DEF Number, score
<1>5. Thresholds.investigation = 61 /\ Thresholds.sar = 81
  BY DEF Thresholds
<1>6. a.sar_recommended => a.trigger_investigation
  BY <1>1, <1>4, <1>5
<1>7. floor = 85 => a.risk_score >= 85 /\ a.risk_level = "CRITICAL"
  BY <1>1, <1>4, Critical
<1>8. floor \in {65, 85} => a.risk_score >= 65
  BY <1>1, <1>4
<1> QED
  BY <1>1, <1>3, <1>6, <1>7, <1>8 DEF a, factors

-----------------------------------------------------------------------------
\* The match score: what its weights guarantee, for every score a component can have.
ComponentScores ==
  [name : 0..100, alias : 0..100, dob : 0..100, nationality : 0..100, company : 0..100,
   context : 0..100]

\* The name and the aliases together never carry a match over the threshold of a
\* confirmed one: the first case of DecisionFor never happens, though the docstring
\* of _decision_for (contracts.py:56-58) is written for it.
THEOREM NameAloneNeverConfirms ==
  ASSUME NEW s \in ComponentScores,
         \A f \in Corroborating : s[f] < CORROBORATION_FLOOR
  PROVE  classify(weighted_match_score(s)) # "CONFIRMED_MATCH"
<1>1. PICK n, a, d, c, m, x \in 0..100 :
        /\ s.name = n /\ s.alias = a /\ s.dob = d /\ s.nationality = c /\ s.company = m
        /\ s.context = x
        /\ weighted_match_score(s) = 30 * n + 15 * a + 15 * d + 10 * c + 15 * m + 15 * x
  BY DEF ComponentScores, weighted_match_score, CONTEXT_WEIGHT
<1>2. s["dob"] < 55 /\ s["nationality"] < 55 /\ s["company"] < 55 /\ s["context"] < 55
  BY DEF Corroborating, CORROBORATION_FLOOR
<1>3. d < 55 /\ c < 55 /\ m < 55 /\ x < 55
  BY <1>1, <1>2
<1>4. 30 * n + 15 * a + 15 * d + 10 * c + 15 * m + 15 * x < 8500
  BY <1>3
<1> QED
  BY <1>1, <1>4 DEF classify, CONFIRMED_THRESHOLD, POSSIBLE_THRESHOLD

\* Scores that differ in the context alone, and could not reach the threshold with
\* the best of contexts, are both below it.
LEMMA ContextAloneIsTooLittle ==
  ASSUME NEW cheap \in ComponentScores, NEW full \in ComponentScores,
         cheap.context = CONTEXT_UNKNOWN,
         \A f \in {"name", "alias", "dob", "nationality", "company"} : full[f] = cheap[f],
         weighted_match_score(cheap) + CONTEXT_WEIGHT * (100 - CONTEXT_UNKNOWN)
           < POSSIBLE_THRESHOLD
  PROVE  /\ classify(weighted_match_score(cheap)) = "LIKELY_FALSE_POSITIVE"
         /\ classify(weighted_match_score(full)) = "LIKELY_FALSE_POSITIVE"
<1>1. PICK n, a, d, c, m, x \in 0..100 :
        /\ cheap.name = n /\ cheap.alias = a /\ cheap.dob = d /\ cheap.nationality = c
        /\ cheap.company = m /\ cheap.context = x
        /\ weighted_match_score(cheap) = 30 * n + 15 * a + 15 * d + 10 * c + 15 * m + 15 * x
  BY DEF ComponentScores, weighted_match_score, CONTEXT_WEIGHT
<1>2. PICK n2, a2, d2, c2, m2, x2 \in 0..100 :
        /\ full.name = n2 /\ full.alias = a2 /\ full.dob = d2 /\ full.nationality = c2
        /\ full.company = m2 /\ full.context = x2
        /\ weighted_match_score(full) =
             30 * n2 + 15 * a2 + 15 * d2 + 10 * c2 + 15 * m2 + 15 * x2
  BY DEF ComponentScores, weighted_match_score, CONTEXT_WEIGHT
<1>3. /\ full["name"] = cheap["name"] /\ full["alias"] = cheap["alias"]
      /\ full["dob"] = cheap["dob"] /\ full["nationality"] = cheap["nationality"]
      /\ full["company"] = cheap["company"]
  OBVIOUS
<1>4. n2 = n /\ a2 = a /\ d2 = d /\ c2 = c /\ m2 = m /\ x = 30
  BY <1>1, <1>2, <1>3 DEF CONTEXT_UNKNOWN
<1>5. 30 * n + 15 * a + 15 * d + 10 * c + 15 * m + 15 * 30 + 15 * 70 < 5500
  BY <1>1, <1>4 DEF CONTEXT_WEIGHT, CONTEXT_UNKNOWN, POSSIBLE_THRESHOLD
<1>6. /\ 30 * n + 15 * a + 15 * d + 10 * c + 15 * m + 15 * 30 < 5500
      /\ 30 * n + 15 * a + 15 * d + 10 * c + 15 * m + 15 * x2 < 5500
  BY <1>5
<1>7. /\ weighted_match_score(cheap) \in Int /\ weighted_match_score(cheap) < 5500
      /\ weighted_match_score(full) \in Int /\ weighted_match_score(full) < 5500
  BY <1>1, <1>2, <1>4, <1>6
<1> QED
  BY <1>7 DEF classify, CONFIRMED_THRESHOLD, POSSIBLE_THRESHOLD

\* A candidate that is spared the comparison of descriptions is classified as it
\* would have been with it (resolution.py:118-121: "the classification is
\* identical"), whatever the comparison would have answered.
THEOREM PruningIsHarmless ==
  ASSUME NEW query, NEW entity,
         \A context \in 0..100 : ScoresWith(query, entity, context) \in ComponentScores,
         contextual_similarity(query.context, entity.context) \in 0..100
  PROVE  classify(weighted_match_score(build_component_scores(query, entity)))
           = classify(weighted_match_score(FullScores(query, entity)))
<1> DEFINE found == contextual_similarity(query.context, entity.context)
           cheap == ScoresWith(query, entity, CONTEXT_UNKNOWN)
           full == ScoresWith(query, entity, found)
           best == weighted_match_score(cheap) + CONTEXT_WEIGHT * (100 - CONTEXT_UNKNOWN)
<1>1. CASE ~(best < POSSIBLE_THRESHOLD)
  BY <1>1 DEF build_component_scores, FullScores
<1>2. CASE best < POSSIBLE_THRESHOLD
  <2>1. build_component_scores(query, entity) = cheap
    BY <1>2 DEF build_component_scores
  <2>2. cheap \in ComponentScores /\ full \in ComponentScores
    <3>1. CONTEXT_UNKNOWN \in 0..100
      BY DEF CONTEXT_UNKNOWN
    <3> QED
      BY <3>1, Zenon
  <2>3. /\ \A f \in {"name", "alias", "dob", "nationality", "company"} : full[f] = cheap[f]
        /\ cheap.context = CONTEXT_UNKNOWN
    BY SMTT(60) DEF ScoresWith
  <2>4. /\ classify(weighted_match_score(cheap)) = "LIKELY_FALSE_POSITIVE"
        /\ classify(weighted_match_score(full)) = "LIKELY_FALSE_POSITIVE"
    <3> HIDE DEF cheap, full
    <3> QED
      BY <1>2, <2>2, <2>3, ContextAloneIsTooLittle
  <2>5. FullScores(query, entity) = full
    BY DEF FullScores
  <2> QED
    BY <2>1, <2>4, <2>5
<1> QED
  BY <1>1, <1>2

-----------------------------------------------------------------------------
(* Scores of candidates *)

\* What can be in the registry, and who can be looked for in it.
Indexable == Listed \cup {Fixture(e) : e \in Listed}
Asks(query) ==
  \A e \in Indexable :
    /\ \A name \in NamesOf(e) : Likeness(query.name, name) \in 0..100
    /\ ContextLikeness(query.context, e.context) \in 0..100

LEMMA ListedForm ==
  ASSUME NEW e \in Listed
  PROVE  (\E row, alts : e = SdnEntity(row, alts)) \/ (\E row : e = OpenSanctionsEntity(row))
<1>1. \A rows, alts : e \in load_ofac_sdn(rows, alts) => \E row, a : e = SdnEntity(row, a)
  BY Zenon DEF load_ofac_sdn
<1>2. \A rows, limit : e \in load_opensanctions(rows, limit) => \E row : e = OpenSanctionsEntity(row)
  BY Zenon DEF load_opensanctions
<1> QED
  BY <1>1, <1>2, Zenon DEF Listed

LEMMA FixtureSays ==
  ASSUME NEW e, NEW f \in {"entity_id", "name", "aliases", "dob", "nationality", "company", "context"},
         e \in Listed
  PROVE  Fixture(e)[f] = e[f]
<1>1. DOMAIN e = {"entity_id", "name", "aliases", "dob", "nationality", "company", "source_list",
                  "context"}
  <2> DEFINE fields == {"entity_id", "name", "aliases", "dob", "nationality", "company", "source_list",
                        "context"}
  <2>1. /\ \A row, alts : DOMAIN SdnEntity(row, alts) = fields
        /\ \A row : DOMAIN OpenSanctionsEntity(row) = fields
    BY DEF SdnEntity, OpenSanctionsEntity
  <2> QED
    BY <2>1, ListedForm, Zenon
<1> QED
  BY <1>1 DEF Fixture

\* An entity of the registry has the names of one that is listed.
LEMMA IndexableOk ==
  ASSUME NEW e \in Indexable
  PROVE  \E l \in Listed :
           /\ e.name = l.name /\ e.aliases = l.aliases /\ e.context = l.context
           /\ e.company = l.company /\ e.entity_id = l.entity_id
<1>1. CASE e \in Listed
  BY <1>1
<1>2. CASE e \in {Fixture(l) : l \in Listed}
  <2>1. PICK l \in Listed : e = Fixture(l)
    BY <1>2
  <2>2. /\ e["name"] = l["name"] /\ e["aliases"] = l["aliases"] /\ e["context"] = l["context"]
        /\ e["company"] = l["company"] /\ e["entity_id"] = l["entity_id"]
    BY <2>1, FixtureSays
  <2> QED
    BY <2>2
<1> QED
  BY <1>1, <1>2 DEF Indexable

LEMMA NoCompany == \A e \in Indexable : e.company = <<>>
<1>1. \A e \in Listed : e.company = <<>>
  <2>1. /\ \A row, alts : SdnEntity(row, alts).company = <<>>
        /\ \A row : OpenSanctionsEntity(row).company = <<>>
    BY DEF SdnEntity, OpenSanctionsEntity
  <2> QED
    BY <2>1, ListedForm, Zenon
<1> QED
  BY <1>1, IndexableOk

LEMMA AskersAsk ==
  /\ \A query \in Queries \cup OwnershipFile.entities : Asks(query)
  /\ \A row \in ClientRows : Asks(ClientRecord(row)) /\ Asks(client_query(row))
<1>1. ASSUME NEW name, NEW context,
             \A l \in Listed : /\ \A n \in NamesOf(l) : Likeness(name, n) \in 0..100
                               /\ ContextLikeness(context, l.context) \in 0..100,
             NEW e \in Indexable
      PROVE  /\ \A n \in NamesOf(e) : Likeness(name, n) \in 0..100
             /\ ContextLikeness(context, e.context) \in 0..100
  <2>1. PICK l \in Listed : e.name = l.name /\ e.aliases = l.aliases /\ e.context = l.context
    BY IndexableOk
  <2>2. NamesOf(e) = NamesOf(l)
    BY <2>1 DEF NamesOf
  <2> QED
    BY <1>1, <2>1, <2>2
<1>2. ASSUME NEW query \in Queries \cup OwnershipFile.entities PROVE Asks(query)
  <2>1. query \in Parties
    BY DEF Parties
  <2>2. \A l \in Listed : /\ \A n \in NamesOf(l) : Likeness(query.name, n) \in 0..100
                          /\ ContextLikeness(query.context, l.context) \in 0..100
    BY <2>1, MatchersAssumption
  <2> QED
    BY <1>1, <2>2, Zenon DEF Asks
<1>3. ASSUME NEW row \in ClientRows PROVE Asks(ClientRecord(row)) /\ Asks(client_query(row))
  <2>1. row \in Parties
    BY DEF Parties
  <2>2. \A l \in Listed : /\ \A n \in NamesOf(l) : Likeness(row.client_name, n) \in 0..100
                          /\ ContextLikeness(row.context, l.context) \in 0..100
    BY <2>1, MatchersAssumption
  <2>3. \A e \in Indexable : /\ \A n \in NamesOf(e) : Likeness(row.client_name, n) \in 0..100
                             /\ ContextLikeness(row.context, e.context) \in 0..100
    BY <1>1, <2>2, Zenon
  <2>4. /\ ClientRecord(row).name = row.client_name /\ ClientRecord(row).context = row.context
        /\ client_query(row).name = row.client_name /\ client_query(row).context = row.context
    BY DEF ClientRecord, client_query
  <2> QED
    BY <2>3, <2>4, Zenon DEF Asks
<1> QED
  BY <1>2, <1>3

\* Every component of every candidate's score is a percentage.
LEMMA ScoresOk ==
  ASSUME NEW query, Asks(query), NEW e \in Indexable
  PROVE  /\ \A context \in 0..100 : ScoresWith(query, e, context) \in ComponentScores
         /\ contextual_similarity(query.context, e.context) \in 0..100
<1>1. \A name \in NamesOf(e) : normalized_similarity(query.name, name) \in 0..100
  <2>1. \A name \in NamesOf(e) : Likeness(query.name, name) \in 0..100
    BY DEF Asks
  <2> QED
    BY <2>1 DEF normalized_similarity
<1>2. normalized_similarity(query.name, e.name) \in 0..100
  BY <1>1 DEF NamesOf
<1>3. alias_similarity(query.name, e.aliases) \in 0..100
  <2> DEFINE S == {normalized_similarity(query.name, a) : a \in e.aliases}
  <2>1. S \in SUBSET (0..100)
    BY <1>1 DEF NamesOf
  <2>2. e.aliases # {} => S # {}
    OBVIOUS
  <2> HIDE DEF S
  <2>3. e.aliases # {} => Max(S) \in 0..100
    BY <2>1, <2>2, MaxPercent
  <2>4. alias_similarity(query.name, e.aliases) = IF e.aliases = {} THEN 0 ELSE Max(S)
    BY Zenon DEF alias_similarity, S
  <2> QED
    BY <2>3, <2>4
<1>4. dob_match(query.dob, e.dob) \in 0..100 /\ country_match(query.nationality, e.nationality) \in 0..100
  BY DEF dob_match, country_match
<1>5. fuzzy_or_unknown_match(query.company, e.company) \in 0..100
  BY NoCompany DEF fuzzy_or_unknown_match
<1>6. contextual_similarity(query.context, e.context) \in 0..100
  BY DEF contextual_similarity, CONTEXT_UNKNOWN, Asks
<1> QED
  BY <1>2, <1>3, <1>4, <1>5, <1>6 DEF ScoresWith, ComponentScores

MatchScores == 0..10000
LEMMA WeightsOk ==
  ASSUME NEW s \in ComponentScores
  PROVE  weighted_match_score(s) \in MatchScores
<1> DEFINE n == s.name
           a == s.alias
           d == s.dob
           c == s.nationality
           m == s.company
           x == s.context
           total == 30 * n + 15 * a + 15 * d + 10 * c + 15 * m + 15 * x
<1>1. n \in 0..100 /\ a \in 0..100 /\ d \in 0..100 /\ c \in 0..100 /\ m \in 0..100 /\ x \in 0..100
  BY DEF ComponentScores
<1>2. weighted_match_score(s) = total
  BY DEF weighted_match_score, CONTEXT_WEIGHT
<1> HIDE DEF n, a, d, c, m, x
<1>3. total \in Nat /\ total <= 10000
  BY <1>1
<1> HIDE DEF total
<1> QED
  BY <1>2, <1>3 DEF MatchScores

LEMMA MatchScored ==
  ASSUME NEW query, Asks(query), NEW e \in Indexable
  PROVE  /\ build_component_scores(query, e) \in ComponentScores
         /\ FullScores(query, e) \in ComponentScores
         /\ resolve_entity(query, e).match_score \in MatchScores
         /\ weighted_match_score(FullScores(query, e)) \in MatchScores
<1>1. /\ ScoresWith(query, e, CONTEXT_UNKNOWN) \in ComponentScores
      /\ FullScores(query, e) \in ComponentScores
  BY ScoresOk DEF FullScores, CONTEXT_UNKNOWN
<1>2. build_component_scores(query, e) \in ComponentScores
  BY <1>1 DEF build_component_scores
<1> QED
  BY <1>1, <1>2, WeightsOk DEF resolve_entity

LEMMA ResolutionsOk ==
  ASSUME NEW query, NEW entities \in SUBSET Indexable, Asks(query), NEW limit,
         NEW records \in Resolutions(query, entities, limit)
  PROVE  \A r \in records : \E e \in Retrieve(entities, query.name) :
           e \in Indexable /\ r = resolve_entity(query, e) /\ r.match_score \in MatchScores
<1>1. \A r \in records : \E e \in Retrieve(entities, query.name) : r = resolve_entity(query, e)
  <2>1. records \subseteq {resolve_entity(query, e) : e \in Retrieve(entities, query.name)}
    BY Zenon DEF Resolutions
  <2> QED
    BY <2>1
<1>2. \A e \in Retrieve(entities, query.name) : e \in Indexable
  BY DEF Retrieve
<1>3. \A e \in Indexable : resolve_entity(query, e).match_score \in MatchScores
  BY MatchScored, Zenon
<1> QED
  BY <1>1, <1>2, <1>3, Zenon

-----------------------------------------------------------------------------
(* The registry is finite, and so are the answers *)

LEMMA DataRowsOk ==
  ASSUME NEW rows, IsRows(rows)
  PROVE  /\ DataRows(rows) \in Seq(ToSet(rows))
         /\ \A i \in DOMAIN rows : rows[i] # HeaderRow => rows[i] \in ToSet(DataRows(rows))
         /\ ToSet(DataRows(rows)) \subseteq ToSet(rows)
<1>1. CASE rows # <<>> /\ Head(rows) = HeaderRow
  <2>1. DataRows(rows) = Tail(rows) /\ rows \in Seq(ToSet(rows))
    BY <1>1 DEF DataRows, IsRows
  <2>2. Tail(rows) \in Seq(ToSet(rows)) /\ Len(Tail(rows)) = Len(rows) - 1
    BY <1>1, <2>1
  <2>3. ASSUME NEW i \in DOMAIN rows, rows[i] # HeaderRow PROVE rows[i] \in ToSet(Tail(rows))
    <3>1. i \in 1..Len(rows) /\ i # 1
      BY <1>1, <2>1, <2>3
    <3>2. i - 1 \in DOMAIN Tail(rows) /\ Tail(rows)[i - 1] = rows[i]
      BY <1>1, <2>1, <2>2, <3>1
    <3> QED
      BY <3>2 DEF ToSet
  <2>4. ToSet(Tail(rows)) \subseteq ToSet(rows)
    <3>1. \A i \in DOMAIN Tail(rows) : Tail(rows)[i] \in ToSet(rows)
      BY <2>2
    <3> QED
      BY <3>1 DEF ToSet
  <2> QED
    BY <2>1, <2>2, <2>3, <2>4
<1>2. CASE ~(rows # <<>> /\ Head(rows) = HeaderRow)
  <2>1. DataRows(rows) = rows /\ rows \in Seq(ToSet(rows))
    BY <1>2 DEF DataRows, IsRows
  <2> QED
    BY <2>1 DEF ToSet
<1> QED
  BY <1>1, <1>2

LEMMA RowsFinite ==
  ASSUME NEW X, NEW rows \in Seq(X)
  PROVE  IsFiniteSet(DOMAIN rows) /\ IsFiniteSet(ToSet(rows))
<1>1. DOMAIN rows = 1..Len(rows) /\ Len(rows) \in Nat
  OBVIOUS
<1>2. IsFiniteSet(1..Len(rows))
  <2>1. 1 \in Int /\ Len(rows) \in Int
    BY <1>1
  <2> QED
    BY <2>1, FS_Interval
<1>3. \A t \in ToSet(rows) : \E s \in DOMAIN rows : t = rows[s]
  BY DEF ToSet
<1> QED
  BY <1>1, <1>2, <1>3, FiniteImage

LEMMA ListsFinite ==
  /\ \A rows, alts : IsRows(rows) => IsFiniteSet(load_ofac_sdn(rows, alts))
  /\ \A rows, limit : IsRows(rows) => IsFiniteSet(load_opensanctions(rows, limit))
<1>1. ASSUME NEW rows, NEW alts, IsRows(rows) PROVE IsFiniteSet(load_ofac_sdn(rows, alts))
  <2> DEFINE S == ToSet(DataRows(rows))
             f == [row \in S |-> SdnEntity(row, ToSet(DataRows(alts)))]
  <2>1. IsFiniteSet(S)
    BY <1>1, DataRowsOk, RowsFinite
  <2>2. \A t \in load_ofac_sdn(rows, alts) : \E s \in S : t = f[s]
    BY DEF load_ofac_sdn
  <2> HIDE DEF S, f
  <2> QED
    BY <2>1, <2>2, FiniteImage
<1>2. ASSUME NEW rows, NEW limit, IsRows(rows) PROVE IsFiniteSet(load_opensanctions(rows, limit))
  <2> DEFINE f == [i \in DOMAIN rows |-> OpenSanctionsEntity(rows[i])]
  <2>1. IsFiniteSet(DOMAIN rows)
    BY <1>2, RowsFinite DEF IsRows
  <2>2. \A t \in load_opensanctions(rows, limit) : \E s \in DOMAIN rows : t = f[s]
    BY DEF load_opensanctions, RowsKept
  <2> HIDE DEF f
  <2> QED
    BY <2>1, <2>2, FiniteImage
<1> QED
  BY <1>1, <1>2

LEMMA IndexableFinite == IsFiniteSet(Indexable)
<1>1. IsFiniteSet(Listed)
  <2> DEFINE A == load_ofac_sdn(SdnRows, AltRows)
             B == load_opensanctions(OpenSanctionsRows, Unknown)
             C == load_ofac_sdn(FixtureSdnRows, <<>>)
             D == load_opensanctions(FixtureTargetRows, Unknown)
  <2>1. IsFiniteSet(A) /\ IsFiniteSet(B) /\ IsFiniteSet(C) /\ IsFiniteSet(D)
    BY ListsFinite, RowsAssumption
  <2>2. Listed = A \cup B \cup C \cup D
    BY DEF Listed
  <2> HIDE DEF A, B, C, D
  <2>3. IsFiniteSet(A \cup B \cup C \cup D)
    BY <2>1, FS_Union
  <2> QED
    BY <2>2, <2>3
<1>2. IsFiniteSet({Fixture(e) : e \in Listed})
  <2> DEFINE f == [e \in Listed |-> Fixture(e)]
             T == {Fixture(e) : e \in Listed}
  <2>1. \A t \in T : \E s \in Listed : t = f[s]
    OBVIOUS
  <2> HIDE DEF f, T
  <2>2. IsFiniteSet(T)
    BY <1>1, <2>1, FiniteImage
  <2> QED
    BY <2>2 DEF T
<1> QED
  BY <1>1, <1>2, FS_Union DEF Indexable

\* The matches of a query, before the best are kept.
Matches(query, entities) ==
  {r \in {resolve_entity(query, e) : e \in Retrieve(entities, query.name)} :
     r.classification # "LIKELY_FALSE_POSITIVE"}

LEMMA KeptAreBest ==
  ASSUME NEW query, NEW entities \in SUBSET Indexable, NEW limit \in Nat,
         NEW records \in Resolutions(query, entities, limit)
  PROVE  /\ IsFiniteSet(Matches(query, entities)) /\ IsFiniteSet(records)
         /\ records \subseteq Matches(query, entities)
         /\ Cardinality(records) \in Nat /\ Cardinality(records) <= limit
         /\ \/ records = Matches(query, entities)
            \/ /\ Cardinality(records) = limit
               /\ \A r \in records, cut \in Matches(query, entities) \ records :
                    r.match_score >= cut.match_score
<1> DEFINE matches == Matches(query, entities)
           E == Retrieve(entities, query.name)
           f == [e \in E |-> resolve_entity(query, e)]
<1>1. /\ records \subseteq matches /\ Cardinality(records) = Min({limit, Cardinality(matches)})
      /\ \A r \in records, cut \in matches \ records : r.match_score >= cut.match_score
  BY Zenon DEF Resolutions, Matches
<1>2. IsFiniteSet(E)
  <2>1. E \in SUBSET Indexable
    BY DEF Retrieve
  <2> HIDE DEF E
  <2> QED
    BY <2>1, IndexableFinite, FS_Subset
<1>3. \A t \in matches : \E s \in E : t = f[s]
  BY DEF Matches
<1> HIDE DEF matches, E, f
<1>4. IsFiniteSet(matches)
  BY <1>2, <1>3, FiniteImage
<1>5. IsFiniteSet(records) /\ Cardinality(matches) \in Nat /\ Cardinality(records) \in Nat
      /\ (Cardinality(records) = Cardinality(matches) => records = matches)
  BY <1>1, <1>4, FS_Subset, FS_CardinalityType
<1>6. Cardinality(records) <= limit
      /\ (Cardinality(records) = limit \/ Cardinality(records) = Cardinality(matches))
  BY <1>1, <1>5, MinOfTwo
<1> QED
  BY <1>1, <1>4, <1>5, <1>6 DEF matches

\* The best match is the only one of its kind.
LEMMA OneBest ==
  ASSUME NEW query, NEW entities \in SUBSET Indexable, NEW records \in Resolutions(query, entities, 1)
  PROVE  records = {} \/ \E r : records = {r}
<1>1. IsFiniteSet(records) /\ Cardinality(records) \in Nat /\ Cardinality(records) <= 1
  BY KeptAreBest
<1>2. Cardinality(records) = 0 \/ Cardinality(records) = 1
  BY <1>1
<1> QED
  BY <1>1, <1>2, FS_EmptySet, FS_Singleton

-----------------------------------------------------------------------------
(* What the engine is given *)

LEMMA QuotientOk == ASSUME NEW a \in Int, NEW b \in Nat, b > 0 PROVE a \div b \in Int
OBVIOUS

\* The sections made of a client's row can be scored.
LEMMA ClientScorable ==
  ASSUME NEW row \in ClientRows
  PROVE  Scorable(payload_for_client(row))
<1> DEFINE stats == row.stats
           average == (180 * stats.typology_hits) \div Max({stats.count, 1})
           probability == Lesser(95, average + 10 * stats.ofac_matches)
           owner == Lesser(95, 55 + (40 * row.opacity) \div 100)
           confidence == IF row.sanctions_flag THEN 92 ELSE IF stats.ofac_matches > 0 THEN 78 ELSE 0
           payload == payload_for_client(row)
<1>1. /\ stats.typology_hits \in Int /\ stats.count \in Int /\ stats.ofac_matches \in Int
      /\ row.opacity \in Int
  BY ClientsAssumption
<1> HIDE DEF stats
<1>2. average \in Int
  <2>1. Max({stats.count, 1}) \in Nat /\ Max({stats.count, 1}) > 0 /\ 180 * stats.typology_hits \in Int
    <3>1. Max({stats.count, 1}) >= 1 /\ Max({stats.count, 1}) \in {stats.count, 1}
      <4>1. stats.count \in Int /\ 1 \in Int
        BY <1>1
      <4> QED
        BY <4>1, MaxOfTwo, Zenon
    <3> QED
      BY <1>1, <3>1
  <2> QED
    BY <2>1, QuotientOk
<1> HIDE DEF average
<1>3. probability \in Int
  <2> DEFINE sum == average + 10 * stats.ofac_matches
  <2>1. sum \in Int
    BY <1>1, <1>2
  <2> HIDE DEF sum
  <2>2. Lesser(95, sum) \in Int
    BY <2>1, LesserOk
  <2> QED
    BY <2>2 DEF sum
<1>4. owner \in Int
  <2>1. 55 + (40 * row.opacity) \div 100 \in Int
    BY <1>1
  <2> QED
    BY <2>1, LesserOk
<1>5. confidence \in Int
  OBVIOUS
<1> HIDE DEF probability, owner, confidence
<1>6. /\ payload.kyc.confidence = 88 /\ payload.sanctions.match_confidence = confidence
      /\ payload.ownership.confidence = owner /\ payload.media.confidence = 72
      /\ payload.transactions.suspicious_probability = probability
      /\ payload.transactions.typology_hits = stats.typology_hits
      /\ payload.jurisdiction_confidence = 90
  BY DEF payload_for_client, probability, owner, confidence, average, stats
<1> HIDE DEF payload
<1>7. Scorable(payload)
  BY <1>1, <1>3, <1>4, <1>5, <1>6 DEF Scorable, Number
<1> QED
  BY <1>7 DEF payload

\* What is known of the news of a client: nothing, or a finding that was stored.
Told(news) ==
  news = None \/ (news # None /\ news.claims \in SUBSET (0..100))

LEMMA MediaSignalOk ==
  ASSUME NEW news, Told(news)
  PROVE  LET media == IF news = None THEN SilentMedia ELSE to_risk_media_signal(news) IN
         /\ media.confidence \in Number
         /\ media.negative_news_found =>
              news # None /\ ~news.injection_attempt_detected /\ news.claims # {}
<1>1. CASE news = None
  <2>1. SilentMedia.confidence \in Number /\ ~SilentMedia.negative_news_found
    BY DEF SilentMedia, Number
  <2> QED
    BY <1>1, <2>1
<1>2. CASE news # None
  <2>1. news.claims # {} => Max(news.claims) \in Int
    <3>1. news.claims \in SUBSET (0..100)
      BY <1>2, Zenon DEF Told
    <3>2. news.claims # {} => Max(news.claims) \in 0..100
      BY <3>1, MaxPercent, Zenon
    <3> QED
      BY <3>2
  <2>2. to_risk_media_signal(news).confidence \in Int
    BY <2>1 DEF to_risk_media_signal, MediaSilent
  <2>3. to_risk_media_signal(news).negative_news_found <=> ~MediaSilent(news)
    BY DEF to_risk_media_signal
  <2> QED
    BY <1>2, <2>2, <2>3, SMTT(60) DEF MediaSilent, Number
<1> QED
  BY <1>1, <1>2

LEMMA SignalConfidence ==
  ASSUME NEW r, r.match_score \in MatchScores
  PROVE  to_risk_sanctions_signal(r).match_confidence \in Int
<1> DEFINE score == r.match_score
<1>1. score \in Int
  <2>1. MatchScores \subseteq Int
    BY DEF MatchScores
  <2> QED
    BY <2>1
<1> HIDE DEF score
<1>2. score \div 100 \in Int
  BY <1>1
<1>3. to_risk_sanctions_signal(r).match_confidence = score \div 100
  BY DEF to_risk_sanctions_signal, score
<1> QED
  BY <1>2, <1>3, Zenon

LEMMA SanctionsSignalOk ==
  ASSUME NEW row \in ClientRows, NEW entities \in SUBSET Indexable,
         NEW records \in Resolutions(ClientRecord(row), entities, 1)
  PROVE  LET signal == IF records = {}
                       THEN [has_match |-> FALSE, confirmed |-> FALSE, match_confidence |-> None,
                             relationship |-> "", source |-> ""]
                       ELSE to_risk_sanctions_signal(CHOOSE r \in records : TRUE)
         IN /\ signal.match_confidence \in Number
            /\ signal.source \in {"ofac sdn", "opensanctions"} =>
                 \A r \in records : ~r.source.fixture
<1>1. CASE records = {}
  BY <1>1 DEF Number
<1>2. CASE records # {}
  <2>1. PICK r : records = {r}
    BY <1>2, OneBest
  <2>2. (CHOOSE q \in records : TRUE) = r
    BY <2>1
  <2>3. r.match_score \in MatchScores
    <3>1. Asks(ClientRecord(row)) /\ r \in records
      BY <2>1, AskersAsk
    <3> QED
      BY <3>1, ResolutionsOk, Zenon
  <2>4. to_risk_sanctions_signal(r).match_confidence \in Int
    BY <2>3, SignalConfidence, Zenon
  <2>5. to_risk_sanctions_signal(r).source = RiskSource(r.source)
    BY DEF to_risk_sanctions_signal
  <2>6. r.source.fixture => RiskSource(r.source) = "sample fixture"
    BY DEF RiskSource
  <2> QED
    BY <1>2, <2>1, <2>2, <2>4, <2>5, <2>6 DEF Number
<1> QED
  BY <1>1, <1>2

LEMMA SignalScorable ==
  ASSUME NEW row \in ClientRows, NEW entities \in SUBSET Indexable,
         NEW records \in Resolutions(ClientRecord(row), entities, 1), NEW news, Told(news)
  PROVE  LET payload == SignalPayload(row, records, news) IN
         /\ Scorable(payload)
         /\ payload.sanctions.source \in {"ofac sdn", "opensanctions"} =>
              \A r \in records : ~r.source.fixture
         /\ payload.media.negative_news_found =>
              news # None /\ ~news.injection_attempt_detected /\ news.claims # {}
<1> DEFINE base == payload_for_client(row)
           payload == SignalPayload(row, records, news)
           signal == IF records = {}
                     THEN [has_match |-> FALSE, confirmed |-> FALSE, match_confidence |-> None,
                           relationship |-> "", source |-> ""]
                     ELSE to_risk_sanctions_signal(CHOOSE r \in records : TRUE)
           media == IF news = None THEN SilentMedia ELSE to_risk_media_signal(news)
<1>1. payload = [base EXCEPT !.sanctions = signal, !.media = media]
  BY Zenon DEF SignalPayload
<1>2. /\ signal.match_confidence \in Number
      /\ signal.source \in {"ofac sdn", "opensanctions"} => \A r \in records : ~r.source.fixture
  BY SanctionsSignalOk, Zenon
<1>3. /\ media.confidence \in Number
      /\ media.negative_news_found =>
           news # None /\ ~news.injection_attempt_detected /\ news.claims # {}
  BY MediaSignalOk, Zenon
<1>4. Scorable(base)
  BY ClientScorable
<1>5. DOMAIN base = {"previous_score", "kyc", "sanctions", "transactions", "media", "ownership",
                     "fatf_high_risk", "high_risk_country", "jurisdiction_confidence"}
  BY DEF payload_for_client
<1> HIDE DEF base, signal, media, payload
<1>6. /\ payload.sanctions = signal /\ payload.media = media /\ payload.kyc = base.kyc
      /\ payload.ownership = base.ownership /\ payload.transactions = base.transactions
      /\ payload.jurisdiction_confidence = base.jurisdiction_confidence
  BY <1>1, <1>5
<1>7. Scorable(payload)
  BY <1>2, <1>3, <1>4, <1>6 DEF Scorable
<1> QED
  BY <1>2, <1>3, <1>6, <1>7 DEF payload

\* The names of a component's factors are its own.
LEMMA SanctionsNames ==
  ASSUME NEW sanctioned, NEW ownership, NEW media,
         NEW g \in sanctions_factors(sanctioned, ownership, media)
  PROVE  /\ g.name = "trusted_sanctions_source" =>
              sanctioned.source \in {"ofac sdn", "opensanctions"}
         /\ g.name # "media_severity"
<1> DEFINE confidence == numeric(sanctioned.match_confidence, 50)
           direct == make_factor("ubo_chain_sanctions_match", 24, confidence)
           entity == make_factor("direct_entity_sanctions_match", 36, confidence)
           trusted == make_factor("trusted_sanctions_source", 8, Lesser(confidence, 95))
           owned == make_factor("ownership_chain_sanctions_hit", 16, numeric(ownership.confidence, 75))
           told == make_factor("adverse_media_sanctions_mention", 8, numeric(media.confidence, 55))
<1>1. /\ \A h \in direct : h.name = "ubo_chain_sanctions_match"
      /\ \A h \in entity : h.name = "direct_entity_sanctions_match"
      /\ \A h \in trusted : h.name = "trusted_sanctions_source"
      /\ \A h \in owned : h.name = "ownership_chain_sanctions_hit"
      /\ \A h \in told : h.name = "adverse_media_sanctions_mention"
  BY DEF make_factor
<1>2. sanctions_factors(sanctioned, ownership, media) =
        When(sanctioned.has_match,
             IF sanctioned.relationship \in UBO_RELATIONSHIPS THEN direct ELSE entity)
        \cup When(sanctioned.has_match /\ sanctioned.source \in {"ofac sdn", "opensanctions"}, trusted)
        \cup When(ownership.sanctioned_ubo, owned)
        \cup When(media.negative_news_found /\ media.mentions_sanctions, told)
  BY Zenon DEF sanctions_factors
<1> HIDE DEF direct, entity, trusted, owned, told
<1>3. \/ g \in direct \cup entity \cup owned \cup told
      \/ g \in trusted /\ sanctioned.source \in {"ofac sdn", "opensanctions"}
  BY <1>2 DEF When
<1> QED
  BY <1>1, <1>3

LEMMA FactorNames ==
  ASSUME NEW payload, NEW f \in UNION {Components(payload)[c] : c \in DOMAIN Components(payload)}
  PROVE  /\ f.name = "trusted_sanctions_source" =>
              payload.sanctions.source \in {"ofac sdn", "opensanctions"}
         /\ f.name = "media_severity" => payload.media.negative_news_found
<1>2. \A g \in kyc_factors(payload.kyc) :
        g.name \in {"existing_kyc", "pep_flag", "high_risk_sector", "incomplete_kyc"}
  BY DEF kyc_factors, When, make_factor
<1>3. \A g \in sanctions_factors(payload.sanctions, payload.ownership, payload.media) :
        /\ g.name = "trusted_sanctions_source" =>
             payload.sanctions.source \in {"ofac sdn", "opensanctions"}
        /\ g.name # "media_severity"
  BY SanctionsNames
<1>4. \A g \in transaction_factors(payload.transactions) :
        g.name \in {"transaction_model_probability", "volume_spike",
                    "high_risk_jurisdiction_transfers", "aml_typology_hits"}
  BY DEF transaction_factors, When, make_factor
<1>5. \A g \in media_factors(payload.media) :
        /\ g.name # "trusted_sanctions_source"
        /\ payload.media.negative_news_found
  BY DEF media_factors, When, make_factor
<1>6. \A g \in jurisdiction_factors(payload) :
        g.name \in {"fatf_high_risk_jurisdiction", "high_risk_jurisdiction"}
  BY DEF jurisdiction_factors, When, make_factor
<1>7. f \in Components(payload)["kyc"] \cup Components(payload)["sanctions"]
            \cup Components(payload)["transactions"] \cup Components(payload)["media"]
            \cup Components(payload)["jurisdiction"]
  BY ComponentNamesOk DEF ComponentNames
<1>8. /\ Components(payload)["kyc"] = kyc_factors(payload.kyc)
      /\ Components(payload)["sanctions"]
           = sanctions_factors(payload.sanctions, payload.ownership, payload.media)
      /\ Components(payload)["transactions"] = transaction_factors(payload.transactions)
      /\ Components(payload)["media"] = media_factors(payload.media)
      /\ Components(payload)["jurisdiction"] = jurisdiction_factors(payload)
  BY DEF Components
<1> QED
  BY <1>2, <1>3, <1>4, <1>5, <1>6, <1>7, <1>8

-----------------------------------------------------------------------------
(* The inductive invariant *)

\* What each kind of file adds to the registry.
SdnPart == IF Reads("sdn", WantReal) THEN load_ofac_sdn(SdnRows, AltRows) ELSE {}
TargetPart ==
  IF Reads("opensanctions", WantReal) THEN load_opensanctions(OpenSanctionsRows, row_limit) ELSE {}
FixturePart ==
  IF Reads("fixtures", WantFixtures)
  THEN {Fixture(e) : e \in load_ofac_sdn(FixtureSdnRows, <<>>)
                           \cup load_opensanctions(FixtureTargetRows, Unknown)}
  ELSE {}
InForce == SdnPart \cup TargetPart \cup FixturePart
Cut == Reads("opensanctions", WantReal) /\ CutOff

\* How far the loading has come is told by what is there; a load that failed had not
\* begun to index, or had indexed all there is.
LoadedSoFar ==
  /\ step \in {"none", "sdn"} => sanctions = {}
  /\ step = "opensanctions" => sanctions = SdnPart
  /\ step = "fixtures" => sanctions = SdnPart \cup TargetPart
  /\ step \in {"index", "clients", "ubo", "articles", "loaded"} => sanctions = InForce
  /\ step \in {"fixtures", "index", "clients", "ubo", "articles", "loaded"} => (truncated = {} <=> ~Cut)
  /\ step \in {"none", "sdn", "opensanctions", "fixtures", "index"} => index = {}
  /\ step \in {"clients", "ubo", "articles", "loaded"} => index = InForce
  /\ step = "failed" => index \in {{}, InForce}

StoredUnder(id) == {[news EXCEPT !.entity_id = id] : news \in Findings}
StoreOk ==
  /\ graphs \in {<<>>, <<OwnershipGraph(OwnershipFile)>>}
  /\ DOMAIN media_store = RequestIds
  /\ \A id \in RequestIds : media_store[id] \in Seq(StoredUnder(id))
  /\ sanctions \subseteq Indexable

\* The last answer is still what the registry would answer.
AnswerOk ==
  /\ answer.kind = "health" =>
       step = "loaded" /\ (answer.sanctions_coverage_complete => truncated = {})
  /\ answer.kind = "enriched" /\ answer.records # {} => step \in {"loaded", "failed"} /\ index # {}
  /\ answer.kind = "matches" =>
       /\ step = "loaded" /\ Asks(answer.query) /\ answer.limit \in Nat
       /\ answer.records \in Resolutions(answer.query, index, answer.limit)
  /\ answer.kind = "chain" =>
       /\ step = "loaded" /\ graphs # <<>>
       /\ answer.max_depth \in Nat /\ answer.root \in Roots(graphs[1])
       /\ \E found \in ChainResolutions(graphs[1], answer.root, index, answer.max_depth) :
            answer.findings = {n \in DOMAIN found : found[n] # {}}
  /\ answer.kind = "signals" =>
       /\ step = "loaded" /\ answer.client \in ClientRows /\ Told(answer.finding)
       /\ answer.records \in Resolutions(ClientRecord(answer.client), index, 1)
       /\ answer.assessment = Assess(SignalPayload(answer.client, answer.records, answer.finding))
  /\ answer.kind = "assessment" =>
       Scorable(answer.payload) /\ answer.assessment = Assess(answer.payload)

\* TypeOK but for the findings that are stored, whose types StoreOk implies.
RegistryTyped ==
  /\ host \in {"api", "risk"} /\ files \in FileStates /\ mode \in Modes /\ row_limit \in RowLimits
  /\ step \in Files \cup {"none", "index", "articles", "loaded", "failed"}
  /\ index \subseteq sanctions
  /\ truncated \subseteq {"opensanctions"}
  /\ clients \subseteq ClientRows
  /\ caller \in ClientRows \cup {None}
  /\ caller # None => host = "risk" /\ step \notin {"none", "loaded", "failed"}
  /\ host = "api" /\ answer # NoAnswer => step = "loaded"

IInv == RegistryTyped /\ LoadedSoFar /\ StoreOk /\ AnswerOk

LEMMA SameParts ==
  ASSUME UNCHANGED environment
  PROVE  SdnPart' = SdnPart /\ TargetPart' = TargetPart /\ InForce' = InForce /\ Cut' = Cut
BY DEF environment, SdnPart, TargetPart, FixturePart, InForce, Cut, CutOff, Reads, WantReal, WantFixtures

LEMMA PartsIndexable == InForce \subseteq Indexable
<1>1. SdnPart \subseteq Indexable
  BY DEF SdnPart, Indexable, Listed
<1>2. TargetPart \subseteq Indexable
  <2>1. RowsKept(OpenSanctionsRows, row_limit) \subseteq RowsKept(OpenSanctionsRows, Unknown)
    BY DEF RowsKept
  <2>2. load_opensanctions(OpenSanctionsRows, row_limit) \subseteq load_opensanctions(OpenSanctionsRows, Unknown)
    BY <2>1 DEF load_opensanctions
  <2> QED
    BY <2>2 DEF TargetPart, Indexable, Listed
<1>3. FixturePart \subseteq Indexable
  BY DEF FixturePart, Indexable, Listed
<1> QED
  BY <1>1, <1>2, <1>3 DEF InForce

\* While the lists are loaded, no answer speaks of them.
LEMMA AnswerKept ==
  ASSUME AnswerOk, step \notin {"loaded", "failed"}, UNCHANGED answer
  PROVE  AnswerOk'
BY DEF AnswerOk

LEMMA InitHolds == Init => IInv
<1> SUFFICES ASSUME Init PROVE IInv
  OBVIOUS
<1>1. RegistryTyped
  BY DEF Init, RegistryTyped, Files
<1>2. LoadedSoFar /\ AnswerOk
  BY DEF Init, LoadedSoFar, AnswerOk, NoAnswer
<1>3. StoreOk
  BY DEF Init, StoreOk
<1> QED
  BY <1>1, <1>2, <1>3 DEF IInv

LEMMA StartupHolds == ASSUME IInv, Startup PROVE IInv'
<1> USE DEF IInv
<1>1. /\ UNCHANGED environment /\ UNCHANGED media_store
      /\ host = "api" /\ step = "none" /\ step' = "sdn"
      /\ UNCHANGED <<sanctions, index, truncated, clients, graphs, caller, answer>>
  BY DEF Startup, Loaded, SdnPart, TargetPart, FixturePart, Cut
<1>2. RegistryTyped'
  BY <1>1 DEF RegistryTyped, environment, Files
<1>3. LoadedSoFar'
  BY <1>1, SameParts DEF LoadedSoFar, InForce
<1>4. StoreOk'
  BY <1>1, PartsIndexable DEF StoreOk, InForce
<1>5. AnswerOk'
  BY <1>1, AnswerKept
<1> QED
  BY <1>2, <1>3, <1>4, <1>5

LEMMA LoadSdnHolds == ASSUME IInv, LoadSdn PROVE IInv'
<1> USE DEF IInv
<1>1. /\ UNCHANGED environment /\ UNCHANGED media_store
      /\ step = "sdn" /\ step' = "opensanctions" /\ sanctions' = sanctions \cup SdnPart
      /\ UNCHANGED <<index, truncated, clients, graphs, caller, answer>>
  BY DEF LoadSdn, Loaded, SdnPart, TargetPart, FixturePart, Cut
<1>2. RegistryTyped'
  BY <1>1 DEF RegistryTyped, environment, Files
<1>3. LoadedSoFar'
  BY <1>1, SameParts DEF LoadedSoFar, InForce
<1>4. StoreOk'
  BY <1>1, PartsIndexable DEF StoreOk, InForce
<1>5. AnswerOk'
  BY <1>1, AnswerKept
<1> QED
  BY <1>2, <1>3, <1>4, <1>5

LEMMA LoadOpenSanctionsHolds == ASSUME IInv, LoadOpenSanctions PROVE IInv'
<1> USE DEF IInv
<1>1. /\ UNCHANGED environment /\ UNCHANGED media_store
      /\ step = "opensanctions" /\ step' = "fixtures" /\ sanctions' = sanctions \cup TargetPart
      /\ truncated' = IF Cut THEN {"opensanctions"} ELSE {}
      /\ UNCHANGED <<index, clients, graphs, caller, answer>>
  BY DEF LoadOpenSanctions, Loaded, SdnPart, TargetPart, FixturePart, Cut
<1>2. RegistryTyped'
  BY <1>1 DEF RegistryTyped, environment, Files
<1>3. LoadedSoFar'
  BY <1>1, SameParts DEF LoadedSoFar, InForce
<1>4. StoreOk'
  BY <1>1, PartsIndexable DEF StoreOk, InForce
<1>5. AnswerOk'
  BY <1>1, AnswerKept
<1> QED
  BY <1>2, <1>3, <1>4, <1>5

LEMMA LoadFixturesHolds == ASSUME IInv, LoadFixtures PROVE IInv'
<1> USE DEF IInv
<1>1. /\ UNCHANGED environment /\ UNCHANGED media_store
      /\ step = "fixtures" /\ step' = "index" /\ sanctions' = sanctions \cup FixturePart
      /\ UNCHANGED <<index, truncated, clients, graphs, caller, answer>>
  BY DEF LoadFixtures, Loaded, SdnPart, TargetPart, FixturePart, Cut
<1>2. RegistryTyped'
  BY <1>1 DEF RegistryTyped, environment, Files
<1>3. LoadedSoFar'
  BY <1>1, SameParts DEF LoadedSoFar, InForce
<1>4. StoreOk'
  BY <1>1, PartsIndexable DEF StoreOk, InForce
<1>5. AnswerOk'
  BY <1>1, AnswerKept
<1> QED
  BY <1>2, <1>3, <1>4, <1>5

LEMMA BuildIndexHolds == ASSUME IInv, BuildIndex PROVE IInv'
<1> USE DEF IInv
<1>1. /\ UNCHANGED environment /\ UNCHANGED media_store
      /\ step = "index" /\ step' = "clients" /\ index' = sanctions
      /\ UNCHANGED <<sanctions, truncated, clients, graphs, caller, answer>>
  BY DEF BuildIndex, Loaded, SdnPart, TargetPart, FixturePart, Cut
<1>2. RegistryTyped'
  BY <1>1 DEF RegistryTyped, environment, Files
<1>3. LoadedSoFar'
  BY <1>1, SameParts DEF LoadedSoFar, InForce
<1>4. StoreOk'
  BY <1>1, PartsIndexable DEF StoreOk, InForce
<1>5. AnswerOk'
  BY <1>1, AnswerKept
<1> QED
  BY <1>2, <1>3, <1>4, <1>5

LEMMA LoadClientsHolds == ASSUME IInv, LoadClients PROVE IInv'
<1> USE DEF IInv
<1>1. /\ UNCHANGED environment /\ UNCHANGED media_store
      /\ step = "clients" /\ step' = "ubo" /\ clients' \subseteq ClientRows
      /\ UNCHANGED <<sanctions, index, truncated, graphs, caller, answer>>
  BY DEF LoadClients, Loaded, SdnPart, TargetPart, FixturePart, Cut
<1>2. RegistryTyped'
  BY <1>1 DEF RegistryTyped, environment, Files
<1>3. LoadedSoFar'
  BY <1>1, SameParts DEF LoadedSoFar, InForce
<1>4. StoreOk'
  BY <1>1, PartsIndexable DEF StoreOk, InForce
<1>5. AnswerOk'
  BY <1>1, AnswerKept
<1> QED
  BY <1>2, <1>3, <1>4, <1>5

LEMMA LoadGraphsHolds == ASSUME IInv, LoadGraphs PROVE IInv'
<1> USE DEF IInv
<1>1. /\ UNCHANGED environment /\ UNCHANGED media_store
      /\ step = "ubo" /\ step' = "articles"
      /\ graphs' \in {<<>>, <<OwnershipGraph(OwnershipFile)>>}
      /\ UNCHANGED <<sanctions, index, truncated, clients, caller, answer>>
  BY DEF LoadGraphs, Loaded, SdnPart, TargetPart, FixturePart, Cut
<1>2. RegistryTyped'
  BY <1>1 DEF RegistryTyped, environment, Files
<1>3. LoadedSoFar'
  BY <1>1, SameParts DEF LoadedSoFar, InForce
<1>4. StoreOk'
  BY <1>1, PartsIndexable DEF StoreOk, InForce
<1>5. AnswerOk'
  BY <1>1, AnswerKept
<1> QED
  BY <1>2, <1>3, <1>4, <1>5

LEMMA EmptyIndex ==
  ASSUME NEW query, NEW limit, NEW records \in Resolutions(query, {}, limit)
  PROVE  records = {}
<1>1. Retrieve({}, query.name) = {}
  BY DEF Retrieve
<1>2. records \subseteq {resolve_entity(query, e) : e \in Retrieve({}, query.name)}
  BY Zenon DEF Resolutions
<1> QED
  BY <1>1, <1>2

LEMMA EnrichedSays ==
  ASSUME NEW row, NEW kept
  PROVE  /\ Enriched(row, kept).kind = "enriched" /\ Enriched(row, kept).records = kept
         /\ Enriched(row, kept) # NoAnswer
BY DEF Enriched, NoAnswer

LEMMA LoadArticlesHolds == ASSUME IInv, LoadArticles PROVE IInv'
<1> USE DEF IInv
<1>1. /\ UNCHANGED environment /\ UNCHANGED media_store
      /\ step = "articles" /\ step' = "loaded" /\ caller' = None
      /\ UNCHANGED <<sanctions, index, truncated, clients, graphs>>
      /\ UNCHANGED answer \/ (caller # None /\ \E kept \in Screened(caller) : answer' = Enriched(caller, kept))
  BY DEF LoadArticles
<1>2. RegistryTyped'
  BY <1>1 DEF RegistryTyped, environment, Files
<1>3. LoadedSoFar'
  BY <1>1, SameParts DEF LoadedSoFar, InForce
<1>4. StoreOk'
  BY <1>1 DEF StoreOk
<1>5. AnswerOk'
  <2>1. CASE UNCHANGED answer
    BY <1>1, <2>1, AnswerKept
  <2>2. CASE \E kept \in Screened(caller) : answer' = Enriched(caller, kept)
    <3>1. PICK kept \in Screened(caller) : answer' = Enriched(caller, kept)
      BY <2>2
    <3>2. kept # {} => index # {}
      BY EmptyIndex DEF Screened
    <3>3. answer'.kind = "enriched" /\ answer'.records = kept
      BY <3>1, EnrichedSays
    <3> QED
      BY <1>1, <3>2, <3>3 DEF AnswerOk
  <2> QED
    BY <1>1, <2>1, <2>2
<1> QED
  BY <1>2, <1>3, <1>4, <1>5

LEMMA LoadRaisesHolds == ASSUME IInv, LoadRaises PROVE IInv'
<1> USE DEF IInv
<1>1. /\ UNCHANGED environment /\ UNCHANGED media_store
      /\ step \in Files /\ step' = "failed" /\ caller' = None
      /\ UNCHANGED <<sanctions, index, truncated, clients, graphs>>
      /\ answer' = IF caller = None THEN NoAnswer ELSE Enriched(caller, {})
  BY DEF LoadRaises
<1>2. RegistryTyped'
  BY <1>1 DEF RegistryTyped, environment, Files
<1>3. LoadedSoFar'
  BY <1>1, SameParts DEF LoadedSoFar, Files
<1>4. StoreOk'
  BY <1>1 DEF StoreOk
<1>5. AnswerOk'
  <2>1. answer'.kind = "none" \/ (answer'.kind = "enriched" /\ answer'.records = {})
    BY <1>1, EnrichedSays DEF NoAnswer
  <2> QED
    BY <1>1, <2>1 DEF AnswerOk
<1> QED
  BY <1>2, <1>3, <1>4, <1>5

\* A request leaves the registry as it is.
LEMMA AnswerHolds ==
  ASSUME IInv, UNCHANGED <<environment, registry, media_store>>,
         host = "risk" \/ step = "loaded", AnswerOk'
  PROVE  IInv'
<1> USE DEF IInv
<1>1. /\ UNCHANGED environment /\ UNCHANGED media_store
      /\ UNCHANGED <<step, sanctions, index, truncated, clients, graphs, caller>>
  BY DEF registry
<1>2. RegistryTyped'
  BY <1>1 DEF RegistryTyped, environment
<1>3. LoadedSoFar'
  BY <1>1, SameParts DEF LoadedSoFar
<1>4. StoreOk'
  BY <1>1 DEF StoreOk
<1> QED
  BY <1>2, <1>3, <1>4

LEMMA NormalizedOk ==
  ASSUME NEW id \in RequestIds
  PROVE  normalize_customer_id(id) \in RequestIds
BY DEF RequestIds, normalize_customer_id

LEMMA HealthHolds == ASSUME IInv, Health PROVE IInv'
<1>1. /\ UNCHANGED <<environment, registry, media_store>> /\ step = "loaded"
      /\ answer' = [kind |-> "health", sanctions_coverage_complete |-> truncated = {}]
  BY DEF Health, Serving, Answers
<1>2. AnswerOk'
  BY <1>1 DEF AnswerOk, registry
<1> QED
  BY <1>1, <1>2, AnswerHolds

\* The matches of a query are what the registry answers.
LEMMA MatchesHolds ==
  ASSUME IInv, NEW query, Asks(query), NEW limit \in MatchLimits, step = "loaded",
         UNCHANGED <<environment, registry, media_store>>,
         NEW records \in Resolutions(query, index, limit),
         answer' = [kind |-> "matches", query |-> query, limit |-> limit, records |-> records]
  PROVE  IInv'
<1>1. UNCHANGED <<step, index>> /\ limit \in Nat
  BY LimitsAssumption DEF registry
<1>2. /\ answer'.kind = "matches" /\ answer'.query = query /\ answer'.limit = limit
      /\ answer'.records = records
  OBVIOUS
<1>3. AnswerOk'
  BY <1>1, <1>2 DEF AnswerOk
<1> QED
  BY <1>3, AnswerHolds

LEMMA ScreenHolds ==
  ASSUME IInv, NEW query \in Queries, NEW limit \in MatchLimits, Screen(query, limit)
  PROVE  IInv'
<1>1. /\ UNCHANGED <<environment, registry, media_store>> /\ step = "loaded"
      /\ \E records \in Resolutions(query, index, limit) :
           answer' = [kind |-> "matches", query |-> query, limit |-> limit, records |-> records]
  BY DEF Screen, Serving, Answers
<1>2. Asks(query)
  BY AskersAsk
<1> QED
  BY <1>1, <1>2, MatchesHolds

\* Answers that promise nothing.
LEMMA PlainHolds ==
  ASSUME IInv, host = "risk" \/ step = "loaded", UNCHANGED <<environment, registry, media_store>>,
         answer'.kind \in {"not_found", "results", "raised"}
  PROVE  IInv'
<1>1. AnswerOk'
  BY DEF AnswerOk
<1> QED
  BY <1>1, AnswerHolds

LEMMA SanctionsMatchesHolds ==
  ASSUME IInv, NEW id \in RequestIds, NEW limit \in MatchLimits, SanctionsMatches(id, limit)
  PROVE  IInv'
<1>1. UNCHANGED <<environment, registry, media_store>> /\ step = "loaded"
  BY DEF SanctionsMatches, Serving, Answers
<1>2. CASE answer' = [kind |-> "not_found"]
  BY <1>1, <1>2, PlainHolds
<1>3. ASSUME NEW c \in ClientsNamed(id), NEW records \in Resolutions(ClientRecord(c), index, limit),
             answer' = [kind |-> "matches", query |-> ClientRecord(c), limit |-> limit,
                        records |-> records]
      PROVE  IInv'
  <2>1. Asks(ClientRecord(c))
    BY AskersAsk DEF ClientsNamed, IInv, RegistryTyped
  <2> QED
    BY <1>1, <1>3, <2>1, MatchesHolds
<1> QED
  BY <1>2, <1>3 DEF SanctionsMatches, Answers

LEMMA EntityIntelligenceHolds ==
  ASSUME IInv, NEW id \in RequestIds, NEW limit \in MatchLimits, EntityIntelligence(id, limit)
  PROVE  IInv'
<1>1. UNCHANGED <<environment, registry, media_store>> /\ step = "loaded"
  BY DEF EntityIntelligence, Serving, Answers
<1>2. answer'.kind \in {"not_found", "results"}
  BY DEF EntityIntelligence, Answers
<1> QED
  BY <1>1, <1>2, PlainHolds

LEMMA AnalyzeHolds ==
  ASSUME IInv, NEW id \in RequestIds, NEW news \in Findings, Analyze(id, news)
  PROVE  IInv'
<1> USE DEF IInv
<1> DEFINE stored == [news EXCEPT !.entity_id = id]
<1>1. /\ step = "loaded" /\ UNCHANGED environment
      /\ UNCHANGED <<step, sanctions, index, truncated, clients, graphs, caller>>
      /\ media_store' = [media_store EXCEPT ![id] = Append(@, stored)]
      /\ answer' = [kind |-> "finding"]
  BY DEF Analyze, Serving, registry
<1>2. stored \in StoredUnder(id)
  BY DEF StoredUnder
<1> HIDE DEF stored
<1>3. RegistryTyped'
  BY <1>1 DEF RegistryTyped, environment
<1>4. LoadedSoFar'
  BY <1>1, SameParts DEF LoadedSoFar
<1>5. StoreOk'
  <2>1. DOMAIN media_store' = RequestIds
    BY <1>1 DEF StoreOk
  <2>2. ASSUME NEW i \in RequestIds PROVE media_store'[i] \in Seq(StoredUnder(i))
    <3>1. media_store[i] \in Seq(StoredUnder(i))
      BY DEF StoreOk
    <3>2. CASE i = id
      <4>1. media_store'[i] = Append(media_store[i], stored)
        BY <1>1, <3>2 DEF StoreOk
      <4> QED
        BY <1>2, <3>1, <3>2, <4>1
    <3>3. CASE i # id
      BY <1>1, <3>1, <3>3 DEF StoreOk
    <3> QED
      BY <3>2, <3>3
  <2>3. \A i \in RequestIds : StoredUnder(i)' = StoredUnder(i)
    BY DEF StoredUnder
  <2> QED
    BY <1>1, <2>1, <2>2, <2>3 DEF StoreOk
<1>6. AnswerOk'
  BY <1>1 DEF AnswerOk
<1> QED
  BY <1>3, <1>4, <1>5, <1>6

\* The latest finding on a client, if there is one.
LEMMA LatestTold ==
  ASSUME IInv, NEW id \in RequestIds
  PROVE  Told(IF StoredFor(id) = <<>> THEN None ELSE Last(StoredFor(id)))
<1> DEFINE own == normalize_customer_id(id)
           s == StoredFor(id)
<1>1. s \in Seq(StoredUnder(own))
  BY NormalizedOk DEF IInv, StoreOk, StoredFor
<1>2. CASE s = <<>>
  BY <1>2 DEF Told
<1>3. CASE s # <<>>
  <2> HIDE DEF s, own
  <2>1. Last(s) \in StoredUnder(own)
    BY <1>1, <1>3 DEF Last
  <2>2. PICK news \in Findings : Last(s) = [news EXCEPT !.entity_id = own]
    BY <2>1 DEF StoredUnder
  <2>3. news.claims \in SUBSET (0..100) /\ Last(s).claims = news.claims
    BY <2>2, FindingsAssumption
  <2>4. Told(Last(s))
    BY <2>3 DEF Told
  <2> QED
    BY <1>3, <2>4 DEF s
<1> QED
  BY <1>2, <1>3

LEMMA RiskSignalsHolds ==
  ASSUME IInv, NEW id \in RequestIds, RiskSignals(id)
  PROVE  IInv'
<1> DEFINE latest == IF StoredFor(id) = <<>> THEN None ELSE Last(StoredFor(id))
<1>1. UNCHANGED <<environment, registry, media_store>> /\ step = "loaded"
  BY DEF RiskSignals, Serving, Answers
<1>2. Told(latest)
  BY LatestTold
<1> HIDE DEF latest
<1>3. CASE answer' = [kind |-> "not_found"]
  BY <1>1, <1>3, PlainHolds
<1>4. ASSUME NEW c \in ClientsNamed(id), NEW records \in Resolutions(ClientRecord(c), index, 1),
             answer' = [kind |-> "signals", client |-> c, records |-> records, finding |-> latest,
                        assessment |-> Assess(SignalPayload(c, records, latest))]
      PROVE  IInv'
  <2>1. c \in ClientRows
    BY DEF ClientsNamed, IInv, RegistryTyped
  <2>2. UNCHANGED <<step, index>>
    BY <1>1 DEF registry
  <2>3. /\ answer'.kind = "signals" /\ answer'.client = c /\ answer'.records = records
        /\ answer'.finding = latest
        /\ answer'.assessment = Assess(SignalPayload(c, records, latest))
    BY <1>4
  <2>4. AnswerOk'
    BY <1>1, <1>2, <1>4, <2>1, <2>2, <2>3 DEF AnswerOk
  <2> QED
    BY <1>1, <2>4, AnswerHolds
<1> QED
  BY <1>3, <1>4 DEF RiskSignals, Answers, latest

LEMMA TraceUboHolds ==
  ASSUME IInv, NEW max_depth \in Depths, TraceUbo(max_depth)
  PROVE  IInv'
<1>1. UNCHANGED <<environment, registry, media_store>> /\ step = "loaded"
  BY DEF TraceUbo, Serving, Answers
<1>2. CASE answer' = [kind |-> "not_found"]
  BY <1>1, <1>2, PlainHolds
<1>3. ASSUME graphs # <<>>, NEW root \in Roots(graphs[1]),
             NEW found \in ChainResolutions(graphs[1], root, index, max_depth),
             answer' = [kind |-> "chain", root |-> root, max_depth |-> max_depth,
                        findings |-> {n \in DOMAIN found : found[n] # {}}]
      PROVE  IInv'
  <2>1. UNCHANGED <<step, index, graphs>> /\ max_depth \in Nat
    BY <1>1, LimitsAssumption DEF registry
  <2>2. /\ answer'.kind = "chain" /\ answer'.root = root /\ answer'.max_depth = max_depth
        /\ answer'.findings = {n \in DOMAIN found : found[n] # {}}
    BY <1>3
  <2>3. AnswerOk'
    BY <1>1, <1>3, <2>1, <2>2 DEF AnswerOk
  <2> QED
    BY <1>1, <2>3, AnswerHolds
<1> QED
  BY <1>2, <1>3, Zenon DEF TraceUbo, Answers

LEMMA AssessPayloadHolds ==
  ASSUME IInv, NEW payload, Scorable(payload), AssessPayload(payload)
  PROVE  IInv'
<1>1. /\ UNCHANGED <<environment, registry, media_store>> /\ host = "risk"
      /\ answer' = [kind |-> "assessment", payload |-> payload, assessment |-> Assess(payload)]
  BY DEF AssessPayload, Idle, Answers
<1>2. /\ answer'.kind = "assessment" /\ answer'.payload = payload
      /\ answer'.assessment = Assess(payload)
  BY <1>1
<1>3. AnswerOk'
  BY <1>2 DEF AnswerOk
<1> QED
  BY <1>1, <1>3, AnswerHolds

\* The first client that is screened has the lists loaded.
LEMMA FirstScreened ==
  ASSUME IInv, NEW row \in ClientRows, host = "risk", step = "none", step' = "sdn", caller' = row,
         UNCHANGED <<environment, sanctions, index, truncated, clients, graphs, media_store, answer>>
  PROVE  IInv'
<1> USE DEF IInv
<1>1. RegistryTyped'
  BY DEF RegistryTyped, environment, Files
<1>2. LoadedSoFar'
  BY SameParts DEF LoadedSoFar
<1>3. StoreOk'
  BY DEF StoreOk
<1>4. AnswerOk'
  BY AnswerKept
<1> QED
  BY <1>1, <1>2, <1>3, <1>4

LEMMA EnrichSectionHolds ==
  ASSUME IInv, NEW row \in ClientRows, EnrichSection(row)
  PROVE  IInv'
<1>1. host = "risk" /\ step \in {"none", "loaded", "failed"}
  BY DEF EnrichSection, Idle
<1>2. CASE Answers([kind |-> "raised"])
  BY <1>1, <1>2, PlainHolds DEF Answers
<1>3. ASSUME NEW kept, Answers(Enriched(row, kept)), kept # {} => step # "none" /\ index # {}
      PROVE  IInv'
  <2>1. answer'.kind = "enriched" /\ answer'.records = kept
    BY <1>3, EnrichedSays DEF Answers
  <2>2. UNCHANGED <<environment, registry, media_store>> /\ UNCHANGED <<step, index>>
    BY <1>3 DEF Answers, registry
  <2>3. AnswerOk'
    BY <1>1, <1>3, <2>1, <2>2 DEF AnswerOk
  <2> QED
    BY <1>1, <2>2, <2>3, AnswerHolds
<1>4. CASE /\ step = "none" /\ step' = "sdn" /\ caller' = row
           /\ UNCHANGED <<environment, sanctions, index, truncated, clients, graphs, media_store, answer>>
  BY <1>1, <1>4, FirstScreened
<1>5. \A kept \in Screened(row) : kept # {} => index # {}
  BY EmptyIndex DEF Screened
<1>6. \/ Answers([kind |-> "raised"])
      \/ Answers(Enriched(row, {}))
      \/ /\ step = "none" /\ step' = "sdn" /\ caller' = row
         /\ UNCHANGED <<environment, sanctions, index, truncated, clients, graphs, media_store, answer>>
      \/ step # "none" /\ \E kept \in Screened(row) : Answers(Enriched(row, kept))
  BY Zenon DEF EnrichSection
<1> QED
  BY <1>2, <1>3, <1>4, <1>5, <1>6

LEMMA StutterHolds == ASSUME IInv, UNCHANGED vars PROVE IInv'
<1> USE DEF IInv
<1>1. /\ UNCHANGED environment
      /\ UNCHANGED <<step, sanctions, index, truncated, clients, graphs, caller, media_store, answer>>
  BY DEF vars, registry
<1>2. RegistryTyped'
  BY <1>1 DEF RegistryTyped, environment
<1>3. LoadedSoFar'
  BY <1>1, SameParts DEF LoadedSoFar
<1>4. StoreOk' /\ AnswerOk'
  BY <1>1 DEF StoreOk, AnswerOk
<1> QED
  BY <1>2, <1>3, <1>4

LEMMA StepHolds == IInv /\ [Next]_vars => IInv'
<1> SUFFICES ASSUME IInv, [Next]_vars PROVE IInv'
  OBVIOUS
<1>1. CASE Startup \/ LoadSdn \/ LoadOpenSanctions \/ LoadFixtures \/ BuildIndex
  BY <1>1, StartupHolds, LoadSdnHolds, LoadOpenSanctionsHolds, LoadFixturesHolds, BuildIndexHolds
<1>2. CASE LoadClients \/ LoadGraphs \/ LoadArticles \/ LoadRaises \/ Health
  BY <1>2, LoadClientsHolds, LoadGraphsHolds, LoadArticlesHolds, LoadRaisesHolds, HealthHolds
<1>3. CASE \E query \in Queries, limit \in MatchLimits : Screen(query, limit)
  BY <1>3, ScreenHolds
<1>4. CASE \E id \in RequestIds, limit \in MatchLimits :
             SanctionsMatches(id, limit) \/ EntityIntelligence(id, limit)
  BY <1>4, SanctionsMatchesHolds, EntityIntelligenceHolds
<1>5. CASE \E id \in RequestIds : RiskSignals(id) \/ \E news \in Findings : Analyze(id, news)
  BY <1>5, RiskSignalsHolds, AnalyzeHolds
<1>6. CASE \E max_depth \in Depths : TraceUbo(max_depth)
  BY <1>6, TraceUboHolds
<1>7. CASE \E payload \in Payloads : AssessPayload(payload)
  BY <1>7, AssessPayloadHolds, PayloadsAssumption
<1>8. CASE \E row \in ClientRows : AssessClient(row) \/ EnrichSection(row)
  <2>1. ASSUME NEW row \in ClientRows, AssessClient(row) PROVE IInv'
    BY <2>1, AssessPayloadHolds, ClientScorable, Zenon DEF AssessClient
  <2> QED
    BY <1>8, <2>1, EnrichSectionHolds
<1>9. CASE UNCHANGED vars
  BY <1>9, StutterHolds
<1> QED
  BY <1>1, <1>2, <1>3, <1>4, <1>5, <1>6, <1>7, <1>8, <1>9, Zenon DEF Next

LEMMA Invariant == Spec => []IInv
BY InitHolds, StepHolds, PTL DEF Spec

\* The registry's state is well typed: what is indexed was loaded, a stored finding is
\* its client's, and the API answers only once everything is loaded (services.py:138-190).
THEOREM ScreeningTyped == Spec => []TypeOK
<1>1. IInv => TypeOK
  <2> SUFFICES ASSUME IInv PROVE TypeOK
    OBVIOUS
  <2>1. Len(graphs) <= 1
    <3>1. graphs = <<>> \/ graphs = <<OwnershipGraph(OwnershipFile)>>
      BY DEF IInv, StoreOk
    <3>2. \A graph : Len(<<graph>>) = 1
      OBVIOUS
    <3>3. Len(graphs) = 0 \/ Len(graphs) = 1
      BY <3>1, <3>2
    <3> DEFINE n == Len(graphs)
    <3> HIDE DEF n
    <3>4. n = 0 \/ n = 1
      BY <3>3, Zenon DEF n
    <3>5. n <= 1
      BY <3>4
    <3> QED
      BY <3>5, Zenon DEF n
  <2>2. ASSUME NEW id \in RequestIds, NEW i \in DOMAIN media_store[id]
        PROVE  /\ media_store[id][i].entity_id = id
               /\ [media_store[id][i] EXCEPT !.entity_id = None] \in Findings
    <3>1. media_store[id] \in Seq(StoredUnder(id))
      BY DEF IInv, StoreOk
    <3>2. media_store[id][i] \in StoredUnder(id)
      BY <3>1
    <3>3. PICK news \in Findings : media_store[id][i] = [news EXCEPT !.entity_id = id]
      BY <3>2 DEF StoredUnder
    <3>4. news \in [entity_id : {None}, claims : SUBSET (0..100),
                       injection_attempt_detected : BOOLEAN]
      BY FindingsAssumption
    <3>5. [[news EXCEPT !.entity_id = id] EXCEPT !.entity_id = None] = news
      BY <3>4
    <3>6. [news EXCEPT !.entity_id = id].entity_id = id
      BY <3>4
    <3> QED
      BY <3>3, <3>5, <3>6
  <2> QED
    BY <2>1, <2>2 DEF IInv, RegistryTyped, TypeOK
<1> QED
  BY <1>1, Invariant, PTL

-----------------------------------------------------------------------------
(* Scores are deserved *)

LEMMA PointsAreEarned == IInv => PointsEarned
<1> SUFFICES ASSUME IInv, answer.kind = "signals"
             PROVE  LET named == {f.name : f \in answer.assessment.factors} IN
                    /\ "trusted_sanctions_source" \in named =>
                         \A r \in answer.records : ~r.source.fixture
                    /\ "media_severity" \in named =>
                         /\ answer.finding # None
                         /\ ~answer.finding.injection_attempt_detected /\ answer.finding.claims # {}
                    /\ answer.assessment.sar_recommended => answer.assessment.trigger_investigation
  BY DEF PointsEarned
<1> DEFINE row == answer.client
           records == answer.records
           news == answer.finding
           payload == SignalPayload(row, records, news)
           factors == answer.assessment.factors
<1>1. /\ row \in ClientRows /\ Told(news) /\ index \in SUBSET Indexable
      /\ records \in Resolutions(ClientRecord(row), index, 1)
      /\ answer.assessment = Assess(payload)
  BY DEF IInv, AnswerOk, StoreOk, RegistryTyped
<1> HIDE DEF row, records, news
<1>2. /\ Scorable(payload)
      /\ payload.sanctions.source \in {"ofac sdn", "opensanctions"} =>
           \A r \in records : ~r.source.fixture
      /\ payload.media.negative_news_found =>
           news # None /\ ~news.injection_attempt_detected /\ news.claims # {}
  BY <1>1, SignalScorable, Zenon
<1> HIDE DEF payload
<1>3. /\ factors = UNION {Components(payload)[c] : c \in DOMAIN Components(payload)}
      /\ answer.assessment.sar_recommended => answer.assessment.trigger_investigation
  BY <1>1, <1>2, AssessOk, Zenon
<1> HIDE DEF factors
<1>4. \A f \in factors :
        /\ f.name = "trusted_sanctions_source" => payload.sanctions.source \in {"ofac sdn", "opensanctions"}
        /\ f.name = "media_severity" => payload.media.negative_news_found
  BY <1>3, FactorNames, Zenon
<1>5. "trusted_sanctions_source" \in {f.name : f \in factors} => \A r \in records : ~r.source.fixture
  BY <1>2, <1>4
<1>6. "media_severity" \in {f.name : f \in factors} =>
        news # None /\ ~news.injection_attempt_detected /\ news.claims # {}
  BY <1>2, <1>4
<1> QED
  BY <1>3, <1>5, <1>6, Zenon DEF factors, records, news

LEMMA ConfirmedIsCritical == IInv => ConfirmedNeverDiluted
<1> DEFINE payload == answer.payload
           submitted == payload.sanctions
           confidence == numeric(submitted.match_confidence, 0)
<1> SUFFICES ASSUME IInv, answer.kind = "assessment", submitted.confirmed
             PROVE  /\ confidence >= 60 => answer.assessment.risk_score >= Thresholds.medium_floor
                    /\ confidence >= 85 => /\ answer.assessment.risk_score >= Thresholds.high_floor
                                          /\ answer.assessment.risk_level = "CRITICAL"
  BY Zenon DEF ConfirmedNeverDiluted
<1>1. Scorable(payload) /\ answer.assessment = Assess(payload)
  BY DEF IInv, AnswerOk
<1>2. confirmed_sanctions_confidence(submitted, payload.ownership) = confidence
  BY DEF confirmed_sanctions_confidence
<1>3. Thresholds.high_floor = 85 /\ Thresholds.medium_floor = 65
  BY DEF Thresholds
<1> HIDE DEF confidence
<1>4. /\ confidence >= 60 => Assess(payload).risk_score >= 65
      /\ confidence >= 85 => Assess(payload).risk_score >= 85 /\ Assess(payload).risk_level = "CRITICAL"
  <2> HIDE DEF payload
  <2> QED BY <1>1, <1>2, AssessOk
<1> QED
  BY <1>1, <1>3, <1>4

\* ScoresDeserved: points for an authoritative list are a real listing's, points for
\* news are those of claims in an article that gave no orders, and a match that a payload
\* says is confirmed has the floor of its confidence whatever else the payload says.
THEOREM ScoresAreDeserved == Spec => []ScoresDeserved
<1>1. IInv => ScoresDeserved
  BY PointsAreEarned, ConfirmedIsCritical DEF ScoresDeserved
<1> QED
  BY <1>1, Invariant, PTL

-----------------------------------------------------------------------------
(* Nothing is withheld from a screening *)

LEMMA ClassifiedOk ==
  ASSUME NEW score \in Int, ~(score < POSSIBLE_THRESHOLD)
  PROVE  classify(score) # "LIKELY_FALSE_POSITIVE"
BY DEF classify, POSSIBLE_THRESHOLD, CONFIRMED_THRESHOLD

LEMMA MatchScoresAreInt == MatchScores \subseteq Int
BY DEF MatchScores

\* An entity that would be a match with its description compared has it compared.
LEMMA WouldBeMatched ==
  ASSUME NEW query, Asks(query), NEW e \in Indexable,
         ~(weighted_match_score(FullScores(query, e)) < POSSIBLE_THRESHOLD)
  PROVE  /\ resolve_entity(query, e).classification # "LIKELY_FALSE_POSITIVE"
         /\ resolve_entity(query, e).match_score = weighted_match_score(FullScores(query, e))
         /\ resolve_entity(query, e).matched_against = e.entity_id
<1> DEFINE full == FullScores(query, e)
           cheap == ScoresWith(query, e, CONTEXT_UNKNOWN)
           best == weighted_match_score(cheap) + CONTEXT_WEIGHT * (100 - CONTEXT_UNKNOWN)
<1>1. weighted_match_score(full) \in Int
  <2>1. weighted_match_score(full) \in MatchScores
    BY MatchScored, Zenon
  <2> QED
    BY <2>1, MatchScoresAreInt
<1>2. classify(weighted_match_score(full)) # "LIKELY_FALSE_POSITIVE"
  <2> HIDE DEF full
  <2>1. ~(weighted_match_score(full) < POSSIBLE_THRESHOLD)
    BY Zenon DEF full
  <2> QED
    BY <1>1, <2>1, ClassifiedOk
<1>3. cheap \in ComponentScores /\ full \in ComponentScores
  <2>1. CONTEXT_UNKNOWN \in 0..100
    BY DEF CONTEXT_UNKNOWN
  <2> QED
    BY <2>1, ScoresOk, Zenon DEF FullScores
<1>4. /\ \A f \in {"name", "alias", "dob", "nationality", "company"} : full[f] = cheap[f]
      /\ cheap.context = CONTEXT_UNKNOWN
  BY DEF ScoresWith, FullScores
<1>5. ~(best < POSSIBLE_THRESHOLD)
  <2> HIDE DEF full, cheap
  <2> QED
    BY <1>2, <1>3, <1>4, ContextAloneIsTooLittle, Zenon DEF best
<1>6. build_component_scores(query, e) = full
  BY <1>5, Zenon DEF build_component_scores
<1>7. resolve_entity(query, e) =
        [entity_id |-> query.entity_id, matched_against |-> e.entity_id,
         match_score |-> weighted_match_score(full), component_scores |-> full,
         classification |-> classify(weighted_match_score(full)), source |-> e.source_list]
  BY <1>6, Zenon DEF resolve_entity
<1> HIDE DEF full
<1>8. /\ resolve_entity(query, e).classification = classify(weighted_match_score(full))
      /\ resolve_entity(query, e).match_score = weighted_match_score(full)
      /\ resolve_entity(query, e).matched_against = e.entity_id
  BY <1>7
<1> QED
  BY <1>2, <1>8 DEF full

LEMMA ScreeningIsComplete == IInv => ScreeningComplete
<1> SUFFICES ASSUME IInv, answer.kind = "matches", NEW e \in Retrieve(index, answer.query.name)
             PROVE  LET full == weighted_match_score(FullScores(answer.query, e)) IN
                    \/ full < POSSIBLE_THRESHOLD
                    \/ \E r \in answer.records : r.matched_against = e.entity_id
                    \/ /\ Cardinality(answer.records) = answer.limit
                       /\ \A r \in answer.records : r.match_score >= full
  BY DEF ScreeningComplete
<1> DEFINE query == answer.query
           records == answer.records
           limit == answer.limit
           full == weighted_match_score(FullScores(query, e))
           match == resolve_entity(query, e)
<1>1. /\ Asks(query) /\ limit \in Nat /\ index \in SUBSET Indexable
      /\ records \in Resolutions(query, index, limit)
  BY DEF IInv, AnswerOk, StoreOk, RegistryTyped
<1>2. e \in Indexable /\ e \in Retrieve(index, query.name)
  BY <1>1 DEF Retrieve
<1> HIDE DEF query, records, limit
<1>3. SUFFICES ASSUME ~(full < POSSIBLE_THRESHOLD)
               PROVE  \/ \E r \in records : r.matched_against = e.entity_id
                      \/ /\ Cardinality(records) = limit
                         /\ \A r \in records : r.match_score >= full
  BY Zenon DEF query, records, limit
<1>4. /\ match.classification # "LIKELY_FALSE_POSITIVE" /\ match.match_score = full
      /\ match.matched_against = e.entity_id
  BY <1>1, <1>2, <1>3, WouldBeMatched, Zenon
<1>5. match \in Matches(query, index)
  BY <1>2, <1>4 DEF Matches
<1>6. \/ records = Matches(query, index)
      \/ /\ Cardinality(records) = limit
         /\ \A r \in records, cut \in Matches(query, index) \ records : r.match_score >= cut.match_score
  BY <1>1, KeptAreBest, Zenon
<1> HIDE DEF match, full
<1> QED
  BY <1>4, <1>5, <1>6

-----------------------------------------------------------------------------
(* Nothing is missing from a registry that says so *)

\* Without a row limit that was reached, every usable row is kept.
LEMMA AllKept ==
  ASSUME NEW rows, IsRows(rows), NEW limit,
         limit = Unknown \/ (limit \in Int /\ Cardinality(RowsKept(rows, limit)) < limit),
         NEW i \in DOMAIN rows, OpenSanctionsUsable(rows[i])
  PROVE  i \in RowsKept(rows, limit)
<1>1. CASE limit = Unknown
  BY <1>1 DEF RowsKept
<1>2. CASE limit # Unknown
  <2> DEFINE kept == RowsKept(rows, limit)
             Missing == {j \in DOMAIN rows : OpenSanctionsUsable(rows[j]) /\ j \notin kept}
  <2>1. DOMAIN rows = 1..Len(rows) /\ Len(rows) \in Nat /\ IsFiniteSet(DOMAIN rows)
    BY RowsFinite DEF IsRows
  <2>2. SUFFICES ASSUME Missing # {} PROVE FALSE
    OBVIOUS
  <2>3. PICK m \in Missing : \A j \in Missing : m <= j
    <3>1. Missing \in SUBSET Nat
      BY <2>1
    <3> HIDE DEF Missing
    <3> QED
      BY <2>2, <3>1, LeastExists
  <2>4. m \in 1..Len(rows) /\ OpenSanctionsUsable(rows[m]) /\ m \notin kept
    BY <2>1
  <2>5. UsableUpTo(rows, m) \in SUBSET (kept \cup {m})
    <3>1. ASSUME NEW j \in UsableUpTo(rows, m), j # m PROVE j \in kept
      <4>1. j \in DOMAIN rows /\ OpenSanctionsUsable(rows[j]) /\ ~(m <= j)
        BY <2>1, <2>4, <3>1 DEF UsableUpTo
      <4> QED
        BY <2>3, <4>1
    <3> HIDE DEF kept
    <3> QED
      BY <3>1
  <2>6. IsFiniteSet(kept)
    <3>1. kept \in SUBSET DOMAIN rows
      BY DEF RowsKept
    <3> HIDE DEF kept
    <3> QED
      BY <2>1, <3>1, FS_Subset
  <2> HIDE DEF kept, Missing
  <2>7. IsFiniteSet(kept \cup {m}) /\ Cardinality(kept \cup {m}) = Cardinality(kept) + 1
        /\ Cardinality(kept) \in Nat
    BY <2>4, <2>6, FS_AddElement, FS_CardinalityType
  <2>8. Cardinality(UsableUpTo(rows, m)) \in Nat /\ Cardinality(UsableUpTo(rows, m)) <= Cardinality(kept) + 1
    BY <2>5, <2>7, FS_Subset, FS_CardinalityType
  <2>9. limit \in Int /\ Cardinality(kept) < limit
    BY <1>2 DEF kept
  <2>10. Cardinality(UsableUpTo(rows, m)) <= limit
    BY <2>7, <2>8, <2>9
  <2> QED
    BY <2>1, <2>4, <2>10 DEF kept, RowsKept
<1> QED
  BY <1>1, <1>2

\* An entity that goes by a name is found by it.
LEMMA FoundByName ==
  ASSUME NEW e \in Indexable, NEW name \in NamesOf(e), NEW entities, e \in entities
  PROVE  e \in Retrieve(entities, name)
<1>1. name \in Seq(Words) /\ name # <<>>
  <2>1. PICK l \in Listed : e.name = l.name /\ e.aliases = l.aliases
    BY IndexableOk
  <2>2. name \in NamesOf(l)
    BY <2>1 DEF NamesOf
  <2> QED
    BY <2>2, ListedAssumption
<1>2. candidate_retrieval_key(name) # <<>>
  <2>1. Len(name) \in Nat /\ Len(name) >= 1
    BY <1>1
  <2>2. Min({1, Len(name)}) = 1
    <3>1. \A x \in {1, Len(name)} : (\A y \in {1, Len(name)} : x <= y) <=> x = 1
      BY <2>1
    <3> QED
      BY <3>1 DEF Min
  <2>3. Len(SubSeq(name, 1, 1)) = 1
    BY <1>1, <2>1
  <2>4. SubSeq(name, 1, 1) # <<>>
    <3>1. Len(<<>>) = 0 /\ 0 # 1
      OBVIOUS
    <3> QED
      BY <2>3, <3>1, Zenon
  <2>5. <<name[1], name[2]>> # <<>>
    OBVIOUS
  <2> QED
    BY <2>2, <2>4, <2>5 DEF candidate_retrieval_key
<1>3. candidate_retrieval_key(name) \in IndexKeys(e)
  BY DEF IndexKeys, NamesOf
<1>4. candidate_retrieval_key(name) \in QueryKeys(name)
  BY <1>2, Zenon DEF QueryKeys
<1> QED
  BY <1>3, <1>4 DEF Retrieve

\* What a list of OFAC's publishes is what its entities are called.
LEMMA SdnNames ==
  ASSUME NEW rows, NEW alts, IsRows(rows), IsRows(alts),
         NEW p \in SdnPublished(ToSet(rows) \ {HeaderRow}, ToSet(alts) \ {HeaderRow})
  PROVE  \E e \in load_ofac_sdn(rows, alts) : e.entity_id[2] = p[1] /\ p[2] \in NamesOf(e)
<1> DEFINE data == ToSet(DataRows(rows))
           others == ToSet(DataRows(alts))
<1>1. ToSet(rows) \ {HeaderRow} \subseteq data /\ ToSet(alts) \ {HeaderRow} \subseteq others
  <2>1. \A list : IsRows(list) => ToSet(list) \ {HeaderRow} \subseteq ToSet(DataRows(list))
    <3> TAKE list
    <3>1. \A x \in ToSet(list) : \E i \in DOMAIN list : x = list[i]
      BY DEF ToSet
    <3> QED
      BY <3>1, DataRowsOk
  <2> QED
    BY <2>1
<1>2. \A row \in data : SdnUsable(row) => SdnEntity(row, others) \in load_ofac_sdn(rows, alts)
  BY DEF load_ofac_sdn
<1> HIDE DEF data, others
<1>3. ASSUME NEW row
      PROVE  /\ SdnEntity(row, others).entity_id[2] = row.ent_num
             /\ SdnEntity(row, others).name = NormalizedSdnName(row.sdn_name)
             /\ SdnEntity(row, others).aliases = row.remarks.akas \cup
                  {alt.alt_name : alt \in {alt \in others :
                     alt.ent_num = row.ent_num /\ alt.ent_num # Unknown /\ alt.alt_name # Unknown}}
  BY DEF SdnEntity
<1>4. ASSUME NEW row \in data, SdnUsable(row), NEW name, row.ent_num = p[1], p[2] = name,
             \/ name = NormalizedSdnName(row.sdn_name)
             \/ name \in row.remarks.akas
             \/ \E alt \in others : /\ alt.ent_num = row.ent_num /\ alt.ent_num # Unknown
                                    /\ alt.alt_name # Unknown /\ alt.alt_name = name
      PROVE  \E e \in load_ofac_sdn(rows, alts) : e.entity_id[2] = p[1] /\ p[2] \in NamesOf(e)
  <2>1. name \in NamesOf(SdnEntity(row, others))
    BY <1>3, <1>4 DEF NamesOf
  <2> QED
    BY <1>2, <1>3, <1>4, <2>1
<1> DEFINE real == ToSet(rows) \ {HeaderRow}
           named == ToSet(alts) \ {HeaderRow}
           names == {<<r.ent_num, NormalizedSdnName(r.sdn_name)>> : r \in {r \in real : SdnUsable(r)}}
           akas == UNION {{<<r.ent_num, n>> : n \in r.remarks.akas} : r \in {r \in real : SdnUsable(r)}}
           aliases == {<<a.ent_num, a.alt_name>> : a \in {a \in named :
                         a.alt_name # Unknown /\ \E r \in real : SdnUsable(r) /\ r.ent_num = a.ent_num}}
<1>0. real \subseteq data /\ named \subseteq others /\ p \in names \cup akas \cup aliases
  <2>1. SdnPublished(real, named) = names \cup akas \cup aliases
    BY Zenon DEF SdnPublished
  <2>2. p \in SdnPublished(real, named)
    OBVIOUS
  <2> QED
    BY <1>1, <2>1, <2>2
<1> HIDE DEF real, named
<1>5. CASE p \in names
  <2>1. PICK r \in real :
          SdnUsable(r) /\ p = <<r.ent_num, NormalizedSdnName(r.sdn_name)>>
    BY <1>5
  <2> QED
    BY <1>0, <1>4, <2>1
<1>6. CASE p \in akas
  <2>1. PICK r \in real : SdnUsable(r) /\ \E n \in r.remarks.akas : p = <<r.ent_num, n>>
    BY <1>6
  <2> QED
    BY <1>0, <1>4, <2>1
<1>7. CASE p \in aliases
  <2>1. PICK a \in named, r \in real :
          /\ a.alt_name # Unknown /\ SdnUsable(r) /\ r.ent_num = a.ent_num
          /\ p = <<a.ent_num, a.alt_name>>
    BY <1>7
  <2>2. a.ent_num # Unknown
    BY <2>1 DEF SdnUsable
  <2>3. r \in data /\ a \in others
    BY <1>0, <2>1
  <2> QED
    BY <1>4, <2>1, <2>2, <2>3
<1> QED
  BY <1>0, <1>5, <1>6, <1>7

LEMMA TargetNames ==
  ASSUME NEW rows, IsRows(rows), NEW limit,
         limit = Unknown \/ (limit \in Int /\ Cardinality(RowsKept(rows, limit)) < limit),
         NEW p \in TargetsPublished(ToSet(rows))
  PROVE  \E e \in load_opensanctions(rows, limit) : e.entity_id[2] = p[1] /\ p[2] \in NamesOf(e)
<1>1. PICK r \in ToSet(rows) : \E n \in {r.name} \cup r.aliases :
        OpenSanctionsUsable(r) /\ p = <<r.id, n>>
  BY DEF TargetsPublished
<1>2. PICK i \in DOMAIN rows : rows[i] = r
  BY DEF ToSet
<1>3. i \in RowsKept(rows, limit)
  BY <1>1, <1>2, AllKept
<1>4. OpenSanctionsEntity(r) \in load_opensanctions(rows, limit)
  BY <1>2, <1>3 DEF load_opensanctions
<1>5. /\ OpenSanctionsEntity(r).entity_id[2] = r.id /\ OpenSanctionsEntity(r).name = r.name
      /\ OpenSanctionsEntity(r).aliases = r.aliases
  BY DEF OpenSanctionsEntity
<1> QED
  BY <1>1, <1>4, <1>5 DEF NamesOf

LEMMA FixtureNames ==
  ASSUME NEW e \in Listed
  PROVE  NamesOf(Fixture(e)) = NamesOf(e) /\ Fixture(e).entity_id[2] = e.entity_id[2]
<1>1. /\ Fixture(e)["name"] = e["name"] /\ Fixture(e)["aliases"] = e["aliases"]
      /\ Fixture(e)["entity_id"] = e["entity_id"]
  BY FixtureSays
<1> QED
  BY <1>1 DEF NamesOf

LEMMA InForceIsPublished ==
  ASSUME NEW entities, entities = InForce, ~Cut, row_limit \in RowLimits, NEW p \in Published
  PROVE  \E e \in Retrieve(entities, p[2]) : e.entity_id[2] = p[1]
<1>1. SUFFICES \E e \in InForce : e.entity_id[2] = p[1] /\ p[2] \in NamesOf(e)
  <2>1. \A e \in InForce : p[2] \in NamesOf(e) => e \in Retrieve(InForce, p[2])
    BY PartsIndexable, FoundByName
  <2> QED
    BY <2>1
<1>2. CASE /\ Reads("sdn", WantReal)
           /\ p \in SdnPublished(ToSet(SdnRows) \ {HeaderRow}, ToSet(AltRows) \ {HeaderRow})
  <2>1. \E e \in load_ofac_sdn(SdnRows, AltRows) : e.entity_id[2] = p[1] /\ p[2] \in NamesOf(e)
    BY <1>2, RowsAssumption, SdnNames
  <2>2. load_ofac_sdn(SdnRows, AltRows) \subseteq InForce
    BY <1>2 DEF InForce, SdnPart
  <2> QED
    BY <2>1, <2>2
<1>3. CASE Reads("opensanctions", WantReal) /\ p \in TargetsPublished(ToSet(OpenSanctionsRows))
  <2>1. row_limit = Unknown
        \/ (row_limit \in Int /\ Cardinality(RowsKept(OpenSanctionsRows, row_limit)) < row_limit)
    <3>1. row_limit = Unknown \/ ~(Cardinality(RowsKept(OpenSanctionsRows, row_limit)) >= row_limit)
      BY <1>3 DEF Cut, CutOff
    <3>2. row_limit = Unknown \/ row_limit \in Int
      BY LimitsAssumption
    <3>3. Cardinality(RowsKept(OpenSanctionsRows, row_limit)) \in Nat
      <4>1. RowsKept(OpenSanctionsRows, row_limit) \in SUBSET DOMAIN OpenSanctionsRows
        BY DEF RowsKept
      <4>2. IsFiniteSet(DOMAIN OpenSanctionsRows)
        BY RowsFinite, RowsAssumption DEF IsRows
      <4> QED
        BY <4>1, <4>2, FS_Subset, FS_CardinalityType
    <3> QED
      BY <3>1, <3>2, <3>3
  <2>2. \E e \in load_opensanctions(OpenSanctionsRows, row_limit) :
          e.entity_id[2] = p[1] /\ p[2] \in NamesOf(e)
    BY <1>3, <2>1, RowsAssumption, TargetNames
  <2>3. load_opensanctions(OpenSanctionsRows, row_limit) \subseteq InForce
    BY <1>3 DEF InForce, TargetPart
  <2> QED
    BY <2>2, <2>3
<1>4. CASE /\ Reads("fixtures", WantFixtures)
           /\ p \in SdnPublished(ToSet(FixtureSdnRows) \ {HeaderRow}, {})
                    \cup TargetsPublished(ToSet(FixtureTargetRows))
  <2> DEFINE shown == load_ofac_sdn(FixtureSdnRows, <<>>) \cup load_opensanctions(FixtureTargetRows, Unknown)
  <2>1. \E e \in shown : e.entity_id[2] = p[1] /\ p[2] \in NamesOf(e)
    <3>1. CASE p \in SdnPublished(ToSet(FixtureSdnRows) \ {HeaderRow}, {})
      <4>1. IsRows(<<>>) /\ ToSet(<<>>) \ {HeaderRow} = {}
        BY DEF IsRows, ToSet
      <4>2. p \in SdnPublished(ToSet(FixtureSdnRows) \ {HeaderRow}, ToSet(<<>>) \ {HeaderRow})
        BY <3>1, <4>1
      <4>3. \E e \in load_ofac_sdn(FixtureSdnRows, <<>>) : e.entity_id[2] = p[1] /\ p[2] \in NamesOf(e)
        BY <4>1, <4>2, RowsAssumption, SdnNames
      <4> QED
        BY <4>3
    <3>2. CASE p \in TargetsPublished(ToSet(FixtureTargetRows))
      <4>1. \E e \in load_opensanctions(FixtureTargetRows, Unknown) :
              e.entity_id[2] = p[1] /\ p[2] \in NamesOf(e)
        BY <3>2, RowsAssumption, TargetNames
      <4> QED
        BY <4>1
    <3> QED
      BY <1>4, <3>1, <3>2
  <2>2. shown \subseteq Listed
    BY DEF Listed
  <2>3. \A e \in shown : Fixture(e) \in InForce
    BY <1>4 DEF InForce, FixturePart
  <2> HIDE DEF shown
  <2> QED
    BY <2>1, <2>2, <2>3, FixtureNames
<1> QED
  BY <1>2, <1>3, <1>4, Zenon DEF Published

LEMMA CoverageIsHonest == IInv => CoverageHonest
<1> SUFFICES ASSUME IInv PROVE CoverageHonest
  OBVIOUS
<1>1. row_limit \in RowLimits
  BY DEF IInv, RegistryTyped
<1>2. ASSUME index = InForce, ~Cut PROVE EveryNameIndexed
  BY <1>1, <1>2, InForceIsPublished DEF EveryNameIndexed
<1>3. ASSUME answer.kind = "health", answer.sanctions_coverage_complete PROVE EveryNameIndexed
  <2>1. step = "loaded" /\ truncated = {}
    BY <1>3 DEF IInv, AnswerOk
  <2> QED
    BY <1>2, <2>1 DEF IInv, LoadedSoFar
<1>4. ASSUME answer.kind = "enriched", answer.records # {}, row_limit = Unknown PROVE EveryNameIndexed
  <2>1. step \in {"loaded", "failed"} /\ index # {}
    BY <1>4 DEF IInv, AnswerOk
  <2>2. index = InForce
    BY <2>1 DEF IInv, LoadedSoFar
  <2>3. ~Cut
    BY <1>4 DEF Cut, CutOff
  <2> QED
    BY <1>2, <2>2, <2>3
<1> QED
  BY <1>3, <1>4 DEF CoverageHonest

-----------------------------------------------------------------------------
(* Nobody at the end of a chain is overlooked *)

\* The next number up to n.
LEMMA NextUpTo ==
  ASSUME NEW n \in Nat
  PROVE  0 \in 0..n /\ \A i \in 0..(n - 1) : i \in Nat /\ i + 1 \in 0..n /\ i + 1 # 0 /\ (i + 1) - 1 = i
<1>1. 0 \in 0..n
  OBVIOUS
<1>2. ASSUME NEW i \in 0..(n - 1)
      PROVE  i \in Nat /\ i + 1 \in 0..n /\ i + 1 # 0 /\ (i + 1) - 1 = i
  OBVIOUS
<1> QED
  BY <1>1, <1>2

\* The nodes of a set and those an edge below them, and the layers of a graph: the
\* nodes at most k edges below the root, for each k.
Below(edges, S) == S \cup {e[2] : e \in {e \in edges : e[1] \in S}}
Layers(edges, root, n, reach) ==
  reach = [k \in 0..n |-> IF k = 0 THEN {root} ELSE Below(edges, reach[k - 1])]
LayersDown(edges, root, n, reach) ==
  reach[0] = {root} /\ \A i \in 0..(n - 1) : reach[i + 1] = Below(edges, reach[i])

LEMMA LayersExist ==
  ASSUME NEW edges, NEW root, NEW n \in Nat
  PROVE  \E reach : Layers(edges, root, n, reach)
<1> DEFINE T == {m \in Nat : \E reach : reach = [k \in 0..m |-> IF k = 0 THEN {root} ELSE Below(edges, reach[k - 1])]}
<1>1. 0 \in T
  <2> DEFINE f == [k \in 0..0 |-> {root}]
  <2>1. f = [k \in 0..0 |-> IF k = 0 THEN {root} ELSE Below(edges, f[k - 1])]
    OBVIOUS
  <2> QED
    BY <2>1
<1>2. ASSUME NEW m \in 0..(n - 1), m \in T PROVE m + 1 \in T
  <2>1. PICK f : f = [k \in 0..m |-> IF k = 0 THEN {root} ELSE Below(edges, f[k - 1])]
    BY <1>2
  <2> DEFINE g == [k \in 0..(m + 1) |-> IF k = 0 THEN {root} ELSE Below(edges, f[k - 1])]
  <2>2. m \in Nat /\ \A k \in 0..m : g[k] = f[k]
    <3>1. m \in Nat /\ \A k \in 0..m : k \in 0..(m + 1)
      OBVIOUS
    <3>2. \A k \in 0..m : f[k] = IF k = 0 THEN {root} ELSE Below(edges, f[k - 1])
      BY <2>1
    <3> QED
      BY <3>1, <3>2
  <2>3. \A k \in 0..(m + 1) : k # 0 => k - 1 \in 0..m
    BY <2>2
  <2>4. g = [k \in 0..(m + 1) |-> IF k = 0 THEN {root} ELSE Below(edges, g[k - 1])]
    BY <2>2, <2>3
  <2> HIDE DEF g
  <2> QED
    BY <2>2, <2>4
<1>3. n \in T
  <2> HIDE DEF T
  <2> QED
    BY <1>1, <1>2, UpTo
<1> QED
  BY <1>3 DEF Layers

LEMMA LayerAfter ==
  ASSUME NEW edges, NEW root, NEW n \in Nat, NEW reach, Layers(edges, root, n, reach)
  PROVE  LayersDown(edges, root, n, reach)
<1>1. reach = [k \in 0..n |-> IF k = 0 THEN {root} ELSE Below(edges, reach[k - 1])]
  BY DEF Layers
<1>2. \A k \in 0..n : reach[k] = IF k = 0 THEN {root} ELSE Below(edges, reach[k - 1])
  BY <1>1
<1>3. reach[0] = {root}
  BY <1>2, NextUpTo
<1>4. ASSUME NEW i \in 0..(n - 1) PROVE reach[i + 1] = Below(edges, reach[i])
  <2>1. i + 1 \in 0..n /\ i + 1 # 0 /\ (i + 1) - 1 = i
    BY NextUpTo, Zenon
  <2> QED
    BY <1>2, <2>1
<1> QED
  BY <1>3, <1>4, Zenon DEF LayersDown

LEMMA WithinIsLayer ==
  ASSUME NEW edges, NEW root, NEW n \in Nat
  PROVE  \E reach : LayersDown(edges, root, n, reach) /\ Within(edges, root, n) = reach[n]
<1> DEFINE R == CHOOSE reach : Layers(edges, root, n, reach)
<1>1. Layers(edges, root, n, R)
  BY LayersExist
<1>2. Within(edges, root, n) = R[n]
  BY Zenon DEF Within, Layers, Below
<1>3. LayersDown(edges, root, n, R)
  BY <1>1, LayerAfter
<1> QED
  BY <1>2, <1>3

\* What a chain reaches is within as many edges as it has, ...
LEMMA ChainWithin ==
  ASSUME NEW edges, NEW root, NEW n \in Nat, NEW k \in 0..n, NEW chain,
         chain[0] = root, \A i \in 1..k : <<chain[i - 1], chain[i]>> \in edges
  PROVE  chain[k] \in Within(edges, root, n)
<1>1. PICK reach : LayersDown(edges, root, n, reach) /\ Within(edges, root, n) = reach[n]
  BY WithinIsLayer
<1> DEFINE at(i) == IF i <= k THEN chain[i] ELSE chain[k]
           T == {i \in Nat : i <= n => at(i) \in reach[i]}
<1>2. /\ reach[0] = {root}
      /\ \A i \in 0..(n - 1) :
           reach[i + 1] = Below(edges, reach[i])
  BY <1>1 DEF LayersDown
<1>3. 0 \in T
  BY <1>2
<1>4. ASSUME NEW i \in 0..(n - 1), i \in T PROVE i + 1 \in T
  <2>1. at(i) \in reach[i] /\ i \in Nat
    BY <1>4
  <2>2. CASE i < k
    <3>1. at(i) = chain[i] /\ at(i + 1) = chain[i + 1] /\ i + 1 \in 1..k /\ (i + 1) - 1 = i
      BY <2>1, <2>2
    <3>2. <<chain[i], chain[i + 1]>> \in edges
      BY <3>1
    <3>3. chain[i + 1] \in reach[i + 1]
      BY <1>2, <2>1, <3>1, <3>2 DEF Below
    <3> QED
      BY <2>1, <3>1, <3>3
  <2>3. CASE ~(i < k)
    <3>1. at(i) = chain[k] /\ at(i + 1) = chain[k]
      BY <2>1, <2>3
    <3>2. chain[k] \in reach[i + 1]
      BY <1>2, <2>1, <3>1 DEF Below
    <3> QED
      BY <2>1, <3>1, <3>2
  <2> QED
    BY <2>2, <2>3
<1>5. n \in T
  <2> HIDE DEF T
  <2> QED
    BY <1>3, <1>4, UpTo
<1>6. at(n) \in reach[n] /\ at(n) = chain[k]
  BY <1>5
<1> QED
  BY <1>1, <1>6

\* ... and nothing lies more edges below the root than there are nodes.
LEMMA LayersClose ==
  ASSUME NEW nodes, IsFiniteSet(nodes), NEW edges \in SUBSET (nodes \X nodes), NEW root \in nodes
  PROVE  LET within == Within(edges, root, Cardinality(nodes)) IN
         root \in within /\ \A e \in edges : e[1] \in within => e[2] \in within
<1> DEFINE n == Cardinality(nodes)
           Closed(S) == \A e \in edges : e[1] \in S => e[2] \in S
<1>0. n \in Nat
  BY FS_CardinalityType
<1>1. PICK reach : LayersDown(edges, root, n, reach) /\ Within(edges, root, n) = reach[n]
  BY <1>0, WithinIsLayer
<1> HIDE DEF n
<1>2. /\ reach[0] = {root}
      /\ \A i \in 0..(n - 1) :
           reach[i + 1] = Below(edges, reach[i])
  BY <1>1 DEF LayersDown
<1> DEFINE T == {i \in Nat : /\ root \in reach[i] /\ reach[i] \in SUBSET nodes
                             /\ Closed(reach[i]) \/ Cardinality(reach[i]) >= i + 1}
<1>3. 0 \in T
  <2>1. Cardinality(reach[0]) = 1
    BY <1>2, FS_Singleton
  <2> QED
    BY <1>2, <2>1
<1>4. ASSUME NEW i \in 0..(n - 1), i \in T PROVE i + 1 \in T
  <2> DEFINE upper == reach[i]
             lower == reach[i + 1]
  <2>1. /\ root \in upper /\ upper \in SUBSET nodes /\ i \in Nat
        /\ Closed(upper) \/ Cardinality(upper) >= i + 1
    BY <1>0, <1>4
  <2>2. lower = upper \cup {e[2] : e \in {e \in edges : e[1] \in upper}}
    BY <1>2 DEF Below
  <2> HIDE DEF upper, lower
  <2>3. root \in lower /\ lower \in SUBSET nodes
    BY <2>1, <2>2
  <2>4. CASE Closed(upper)
    <3>1. lower = upper
      BY <2>2, <2>4
    <3> QED
      BY <2>1, <2>3, <2>4, <3>1 DEF upper, lower
  <2>5. CASE ~Closed(upper)
    <3>1. upper \in SUBSET lower /\ upper # lower
      BY <2>2, <2>5
    <3>2. IsFiniteSet(lower) /\ IsFiniteSet(upper)
      BY <2>1, <2>3, FS_Subset
    <3>3. Cardinality(upper) \in Nat /\ Cardinality(lower) \in Nat
          /\ Cardinality(upper) <= Cardinality(lower) /\ Cardinality(upper) # Cardinality(lower)
      BY <3>1, <3>2, FS_Subset, FS_CardinalityType
    <3>4. Cardinality(lower) >= (i + 1) + 1
      BY <2>1, <2>5, <3>3
    <3> QED
      BY <2>1, <2>3, <3>4 DEF lower
  <2> QED
    BY <2>4, <2>5
<1>5. n \in T
  <2> HIDE DEF T
  <2> QED
    BY <1>0, <1>3, <1>4, UpTo
<1>6. Closed(reach[n])
  <2>1. IsFiniteSet(reach[n]) /\ Cardinality(reach[n]) \in Nat /\ Cardinality(reach[n]) <= n
    BY <1>5, FS_Subset, FS_CardinalityType DEF n
  <2>2. ~(Cardinality(reach[n]) >= n + 1)
    BY <1>0, <2>1
  <2> QED
    BY <1>5, <2>2
<1> QED
  BY <1>1, <1>5, <1>6 DEF n

LEMMA ChainBelow ==
  ASSUME NEW nodes, IsFiniteSet(nodes), NEW edges \in SUBSET (nodes \X nodes), NEW root \in nodes,
         NEW k \in Nat, NEW chain, chain[0] = root,
         \A i \in 1..k : <<chain[i - 1], chain[i]>> \in edges
  PROVE  chain[k] \in Within(edges, root, Cardinality(nodes))
<1> DEFINE within == Within(edges, root, Cardinality(nodes))
           T == {i \in Nat : i <= k => chain[i] \in within}
<1>1. root \in within /\ \A e \in edges : e[1] \in within => e[2] \in within
  BY LayersClose, Zenon
<1> HIDE DEF within
<1>2. 0 \in T
  BY <1>1
<1>3. ASSUME NEW i \in 0..(k - 1), i \in T PROVE i + 1 \in T
  <2>1. i \in Nat /\ i + 1 \in 1..k /\ (i + 1) - 1 = i /\ chain[i] \in within
    BY <1>3
  <2>2. <<chain[i], chain[i + 1]>> \in edges
    BY <2>1
  <2> QED
    BY <1>1, <2>1, <2>2
<1>4. k \in T
  <2> HIDE DEF T
  <2> QED
    BY <1>2, <1>3, UpTo
<1> QED
  BY <1>4 DEF within

LEMMA ChainIsComplete == IInv => ChainComplete
<1> SUFFICES ASSUME IInv, answer.kind = "chain", NEW k \in 1..answer.max_depth,
                    NEW chain \in [0..k -> DOMAIN graphs[1].nodes],
                    chain[0] = answer.root, chain[k] # answer.root,
                    \A i \in 1..k : <<chain[i - 1], chain[i]>> \in graphs[1].edges,
                    {} \notin Resolutions(graphs[1].nodes[chain[k]], index, 1)
             PROVE  chain[k] \in answer.findings
  BY Zenon DEF ChainComplete
<1> DEFINE graph == graphs[1]
           root == answer.root
           nodes == DOMAIN graph.nodes
           edges == graph.edges
           depth == answer.max_depth
           end == chain[k]
<1>1. /\ graphs # <<>> /\ depth \in Nat /\ root \in Roots(graph)
      /\ \E found \in ChainResolutions(graph, root, index, depth) :
           answer.findings = {n \in DOMAIN found : found[n] # {}}
  BY DEF IInv, AnswerOk
<1>2. graph = OwnershipGraph(OwnershipFile)
  BY <1>1 DEF IInv, StoreOk
<1>3. /\ nodes = {e.entity_id : e \in OwnershipFile.entities} /\ edges = OwnershipFile.ownership_edges
  BY <1>2 DEF OwnershipGraph
<1>4. IsFiniteSet(nodes) /\ edges \in SUBSET (nodes \X nodes)
  <2> DEFINE f == [e \in OwnershipFile.entities |-> e.entity_id]
  <2>1. \A t \in nodes : \E s \in OwnershipFile.entities : t = f[s]
    BY <1>3
  <2>2. IsFiniteSet(OwnershipFile.entities) /\ edges \subseteq nodes \X nodes
    BY <1>3, OwnershipAssumption
  <2> HIDE DEF nodes, f
  <2>3. IsFiniteSet(nodes)
    BY <2>1, <2>2, FiniteImage
  <2> QED
    BY <2>2, <2>3
<1>5. root \in nodes
  BY <1>1 DEF Roots
<1>6. PICK found \in ChainResolutions(graph, root, index, depth) :
        answer.findings = {n \in DOMAIN found : found[n] # {}}
  BY <1>1
<1> HIDE DEF graph, root, nodes, edges, depth
<1>7. k \in Nat /\ k \in 0..depth
  BY <1>1 DEF depth
<1>8. end \in Within(edges, root, depth)
  BY <1>1, <1>7, ChainWithin DEF edges, root, graph
<1>9. end \in Within(edges, root, Cardinality(nodes))
  BY <1>4, <1>5, <1>7, ChainBelow DEF edges, root, graph
<1>10. end # root /\ {} \notin Resolutions(graph.nodes[end], index, 1)
  BY DEF root, graph
<1> HIDE DEF end
<1> DEFINE screened == {n \in Descendants(nodes, edges, root) : n \in Within(edges, root, depth)}
           choices == [n \in screened |-> Resolutions(graph.nodes[n], index, 1)]
<1>11. found \in [screened -> UNION {choices[n] : n \in screened}]
       /\ \A n \in screened : found[n] \in choices[n]
  BY <1>6, Zenon DEF ChainResolutions, nodes, edges
<1>12. end \in screened
  BY <1>8, <1>9, <1>10 DEF Descendants
<1> HIDE DEF screened
<1>13. end \in DOMAIN found /\ found[end] \in Resolutions(graph.nodes[end], index, 1)
  BY <1>11, <1>12
<1>14. end \in answer.findings
  BY <1>6, <1>10, <1>13
<1> QED
  BY <1>14 DEF end

\* No listed party is withheld: a registry that says its coverage is complete has
\* every published name indexed (services.py:60-71), a screening leaves out no
\* match for which the limit has room (resolution.py:114-121), and a trace reports
\* whoever stands at the end of a chain of ownership (ubo_graph.py:44-48).
THEOREM NothingIsWithheld == Spec => []NoMatchWithheld
<1>1. IInv => NoMatchWithheld
  BY CoverageIsHonest, ScreeningIsComplete, ChainIsComplete DEF NoMatchWithheld
<1> QED
  BY <1>1, Invariant, PTL

-----------------------------------------------------------------------------
(* The gateway to the language model *)

\* The backend is the one that the environment calls for, and whatever was sent,
\* was sent to it.
BackendAsConfigured ==
  /\ backend \in {Nothing, build_backend}
  /\ \A text \in sent : text.to = build_backend.url /\ build_backend # Nothing

\* A text that the policy lets go to a backend, a local one or not.
MayLeave(text, local) == local \/ text \cap PII_PATTERNS = {} \/ environ.policy = "allow"

\* What was sent, and what is about to be, may leave.
Cleared ==
  /\ \A text \in sent : MayLeave(text.identifiers, build_backend.local)
  /\ pc \in InFlight => MayLeave(outgoing, backend.local)

\* What requests a pass has already cost when its attempt is next; Anthropic is asked
\* once a pass.
Once == backend # Nothing /\ backend.name = "anthropic"
CallsCounted ==
  /\ pc \in {"idle", "probe", "heuristic", "build", "extract"} => calls = 0
  /\ pc = "ask_extract" => calls < attempt
  /\ pc = "guard" => calls <= 4
  /\ pc = "ask_guard" => calls < 4 + attempt
  /\ calls <= 8
  /\ Once =>
       /\ pc \in InFlight => attempt = 1
       /\ pc \in {"guard", "ask_guard"} => calls <= 1
       /\ calls <= 2

GatewayInv == GatewayTypeOK /\ BackendAsConfigured /\ Cleared /\ CallsCounted /\ OnlyUpheld

-----------------------------------------------------------------------------
\* The URLs that are known lead and say what they do.
LEMMA KnownUrls ==
  /\ Elsewhere \in Urls /\ Elsewhere.holds = ""
  /\ \A name \in DOMAIN Presets : Presets[name] \in Urls
<1>1. Elsewhere \in Urls /\ Elsewhere.holds = ""
  BY DEF Elsewhere, Urls
<1>2. Presets["ollama"] \in Urls /\ Presets["nvidia"] \in Urls
  BY <1>1 DEF Presets, Urls
<1>3. \A name \in DOMAIN Presets : name \in {"ollama", "nvidia"}
  BY DEF Presets
<1> QED BY <1>1, <1>2, <1>3

\* What the environment calls for is a backend, described as such, and it is local
\* just when its URL holds a name of this host.
LEMMA BuiltAsDescribed ==
  ASSUME environ \in Environments
  PROVE  /\ build_backend \in Backends \cup {Nothing}
         /\ build_backend # Nothing =>
              /\ ~is_disabled
              /\ build_backend.local <=> build_backend.url.holds # ""
              /\ describe.provider = build_backend.name
              /\ build_backend.name = "anthropic" => build_backend.url = Elsewhere
              /\ build_backend.name = "openai_compat" => describe.base_url = build_backend.url
<1>1. CASE build_backend = Nothing
  BY <1>1
<1>2. CASE build_backend # Nothing /\ UsesAnthropic
  <2>1. build_backend = Anthropic /\ describe.provider = "anthropic" /\ ~is_disabled
    BY <1>2 DEF build_backend, describe
  <2>2. /\ Anthropic \in Backends /\ Anthropic.name = "anthropic" /\ Anthropic.url = Elsewhere
        /\ Anthropic.local = FALSE
    BY KnownUrls DEF Anthropic, Backends
  <2> QED BY <2>1, <2>2, KnownUrls
<1>3. CASE build_backend # Nothing /\ ~UsesAnthropic
  <2>1. /\ ~is_disabled /\ PresetName \in DOMAIN Presets
        /\ build_backend = OpenAICompat(PresetName, BaseUrl)
    BY <1>3 DEF build_backend
  <2>2. BaseUrl \in Urls
    BY <2>1, KnownUrls DEF BaseUrl, Environments
  <2>3. PICK local \in BOOLEAN : local <=> BaseUrl.holds # ""
    OBVIOUS
  <2>4. build_backend = [name |-> "openai_compat", preset |-> PresetName, url |-> BaseUrl,
                         local |-> local]
    BY <2>1, <2>3 DEF OpenAICompat, Local
  <2>5. build_backend \in Backends
    BY <2>1, <2>2, <2>4 DEF Backends
  <2>6. describe = [provider |-> "openai_compat", preset |-> PresetName, base_url |-> BaseUrl]
    BY <1>3, <2>1 DEF describe
  <2>7. /\ build_backend.local = local /\ build_backend.url = BaseUrl
        /\ build_backend.name = "openai_compat"
    BY <2>4
  <2>8. describe.provider = "openai_compat" /\ describe.base_url = BaseUrl
    BY <2>6
  <2>9. build_backend.local <=> build_backend.url.holds # ""
    BY <2>3, <2>7
  <2> QED BY <2>1, <2>5, <2>7, <2>8, <2>9
<1> QED BY <1>1, <1>2, <1>3

\* The policy returns what may leave, or refuses.
LEMMA EnforceClears ==
  ASSUME NEW text \in SUBSET Identifiers, NEW local \in BOOLEAN
  PROVE  LET leaves == enforce(text, local) IN
           leaves # Nothing => leaves \in SUBSET Identifiers /\ MayLeave(leaves, local)
BY DEF enforce, MayLeave, scan, redact, current_policy

\* What the environment calls for changes only with it.
LEMMA SameEnvironment ==
  ASSUME UNCHANGED environ
  PROVE  build_backend' = build_backend
BY DEF build_backend, is_disabled, UsesAnthropic, PresetName, BaseUrl, HasKey

\* A finding in which nothing comes from a model.
OfHeuristic(f) ==
  f \in ArticleFindings /\ f.method = "heuristic" /\ f.claims = article.alleges /\ f.dropped = {}

LEMMA HeuristicTyped ==
  ASSUME article \in Articles, NEW llm_error \in BOOLEAN
  PROVE  OfHeuristic(HeuristicFinding(llm_error))
<1>1. detect_injection(article) \in BOOLEAN
  BY DEF detect_injection
<1> QED BY <1>1, ArticlesAssumption DEF OfHeuristic, HeuristicFinding, ArticleFindings

LEMMA GatewayInitHolds == GatewayInit => GatewayInv
<1> SUFFICES ASSUME GatewayInit PROVE GatewayInv
  OBVIOUS
<1>1. GatewayTypeOK
  BY DEF GatewayInit, GatewayTypeOK, InFlight
<1>2. BackendAsConfigured /\ Cleared /\ CallsCounted /\ OnlyUpheld
  BY DEF GatewayInit, BackendAsConfigured, Cleared, CallsCounted, Once, OnlyUpheld, InFlight
<1> QED BY <1>1, <1>2 DEF GatewayInv

-----------------------------------------------------------------------------
LEMMA BeginHolds ==
  ASSUME GatewayInv, NEW a \in Articles, NEW use_llm \in {"unsaid", "yes", "no"}, Begin(a, use_llm)
  PROVE  GatewayInv'
<1>1. GatewayTypeOK'
  BY NothingAssumption DEF GatewayInv, GatewayTypeOK, Begin, InFlight
<1>2. BackendAsConfigured' /\ Cleared' /\ CallsCounted' /\ OnlyUpheld'
  BY DEF Begin, BackendAsConfigured, Cleared, CallsCounted, Once, OnlyUpheld, InFlight
<1> QED BY <1>1, <1>2 DEF GatewayInv

LEMMA ProbeHolds == ASSUME GatewayInv, NEW reachable \in BOOLEAN, Probe(reachable) PROVE GatewayInv'
<1>1. GatewayTypeOK'
  BY DEF GatewayInv, GatewayTypeOK, Probe, InFlight
<1>2. BackendAsConfigured' /\ Cleared'
  BY SameEnvironment DEF GatewayInv, Probe, BackendAsConfigured, Cleared, MayLeave, InFlight
<1>3. CallsCounted' /\ OnlyUpheld'
  BY DEF GatewayInv, Probe, CallsCounted, Once, OnlyUpheld, InFlight
<1> QED BY <1>1, <1>2, <1>3 DEF GatewayInv

LEMMA HeuristicHolds == ASSUME GatewayInv, Heuristic PROVE GatewayInv'
<1>1. article \in Articles /\ OfHeuristic(HeuristicFinding(FALSE))
  BY HeuristicTyped DEF GatewayInv, GatewayTypeOK, Heuristic
<1>2. GatewayTypeOK'
  BY <1>1, NothingAssumption DEF GatewayInv, GatewayTypeOK, OfHeuristic, Heuristic, Ends, InFlight
<1>3. BackendAsConfigured' /\ Cleared'
  BY SameEnvironment DEF GatewayInv, Heuristic, Ends, BackendAsConfigured, Cleared, MayLeave, InFlight
<1>4. CallsCounted' /\ OnlyUpheld'
  BY <1>1 DEF GatewayInv, OfHeuristic, Heuristic, Ends, CallsCounted, Once, OnlyUpheld, InFlight
<1> QED BY <1>2, <1>3, <1>4 DEF GatewayInv

LEMMA BuildHolds == ASSUME GatewayInv, Build PROVE GatewayInv'
<1>1. article \in Articles /\ OfHeuristic(HeuristicFinding(TRUE))
  BY HeuristicTyped DEF GatewayInv, GatewayTypeOK, Build
<1>2. GatewayTypeOK'
  BY <1>1, BuiltAsDescribed, NothingAssumption
  DEF GatewayInv, GatewayTypeOK, OfHeuristic, Build, Fallback, Ends, InFlight
<1>3. BackendAsConfigured' /\ Cleared'
  BY SameEnvironment
  DEF GatewayInv, Build, Fallback, Ends, BackendAsConfigured, Cleared, MayLeave, InFlight
<1>4. calls' = 0 /\ pc' \in {"extract", "done"} /\ article' = article
      /\ (pc' = "done" => OfHeuristic(finding'))
  BY <1>1 DEF GatewayInv, Build, Fallback, Ends, CallsCounted
<1>5. CallsCounted' /\ OnlyUpheld'
  BY <1>4 DEF OfHeuristic, CallsCounted, OnlyUpheld, InFlight
<1> QED BY <1>2, <1>3, <1>5 DEF GatewayInv

\* The text of a pass is made of identifiers.
LEMMA TextTyped ==
  ASSUME GatewayTypeOK, NEW pass \in {"extract", "guard"}, pc = pass
  PROVE  TextOf(pass) \in SUBSET Identifiers
BY ArticlesAssumption, CarriesAssumption DEF GatewayTypeOK, TextOf, Extractions

LEMMA EnforceHolds ==
  ASSUME GatewayInv, NEW pass \in {"extract", "guard"}, Enforce(pass)
  PROVE  GatewayInv'
<1> DEFINE leaves == enforce(TextOf(pass), backend.local)
<1>1. /\ article \in Articles /\ OfHeuristic(HeuristicFinding(TRUE))
      /\ backend \in Backends /\ pc = pass
  BY HeuristicTyped DEF GatewayInv, GatewayTypeOK, Enforce
<1>2. leaves # Nothing => leaves \in SUBSET Identifiers /\ MayLeave(leaves, backend.local)
  BY <1>1, TextTyped, EnforceClears DEF GatewayInv, Backends
<1>3. BackendAsConfigured'
  BY SameEnvironment DEF GatewayInv, Enforce, BackendAsConfigured
<1>4. CASE leaves = Nothing /\ Fallback
  <2>1. GatewayTypeOK'
    BY <1>1, <1>4, NothingAssumption
    DEF GatewayInv, GatewayTypeOK, OfHeuristic, Enforce, Fallback, Ends, InFlight
  <2>2. Cleared' /\ CallsCounted' /\ OnlyUpheld'
    BY <1>1, <1>4, SameEnvironment
    DEF GatewayInv, OfHeuristic, Enforce, Fallback, Ends, Cleared, MayLeave, CallsCounted, Once,
        OnlyUpheld, InFlight
  <2> QED BY <1>3, <2>1, <2>2 DEF GatewayInv
<1>5. CASE leaves # Nothing /\ pc' = (IF pass = "extract" THEN "ask_extract" ELSE "ask_guard")
           /\ outgoing' = leaves /\ attempt' = 1 /\ UNCHANGED finding
  <2> HIDE DEF leaves
  <2>1. GatewayTypeOK'
    BY <1>1, <1>2, <1>5 DEF GatewayInv, GatewayTypeOK, Enforce, InFlight
  <2>2. Cleared'
    BY <1>1, <1>2, <1>5, SameEnvironment DEF GatewayInv, Enforce, Cleared, MayLeave
  <2>3. CallsCounted' /\ OnlyUpheld'
    BY <1>1, <1>5 DEF GatewayInv, GatewayTypeOK, Enforce, CallsCounted, Once, OnlyUpheld, InFlight
  <2> QED BY <1>3, <2>1, <2>2, <2>3 DEF GatewayInv
<1> QED BY <1>4, <1>5 DEF Enforce

-----------------------------------------------------------------------------
\* A request adds what it sends, which may leave, to what was sent.
LEMMA RequestCleared ==
  ASSUME GatewayInv, Asking, Request, UNCHANGED <<environ, backend>>
  PROVE  /\ BackendAsConfigured'
         /\ \A text \in sent' : MayLeave(text.identifiers, build_backend.local)'
<1>1. /\ sent' = sent \cup {[to |-> backend.url, identifiers |-> outgoing]}
      /\ backend # Nothing /\ backend = build_backend /\ MayLeave(outgoing, backend.local)
  BY DEF GatewayInv, GatewayTypeOK, BackendAsConfigured, Cleared, Asking, InFlight, Request
<1>2. BackendAsConfigured'
  BY <1>1, SameEnvironment DEF GatewayInv, BackendAsConfigured
<1>3. \A text \in sent' : MayLeave(text.identifiers, build_backend.local)
  BY <1>1 DEF GatewayInv, Cleared
<1> QED BY <1>2, <1>3, SameEnvironment DEF MayLeave

\* A request that ends in the heuristic.
LEMMA RequestFallsBack ==
  ASSUME GatewayInv, Asking, Request, Fallback, UNCHANGED <<environ, article, backend, extraction, guard>>
  PROVE  GatewayInv'
<1>1. article \in Articles /\ OfHeuristic(HeuristicFinding(TRUE))
  BY HeuristicTyped DEF GatewayInv, GatewayTypeOK, Asking
<1>2. /\ pc' = "done" /\ outgoing' = {} /\ attempt' = 0 /\ calls' = calls + 1
      /\ OfHeuristic(finding') /\ finding' # Nothing
  BY <1>1, NothingAssumption DEF OfHeuristic, Request, Fallback, Ends
<1>3. GatewayTypeOK'
  BY <1>1, <1>2 DEF GatewayInv, GatewayTypeOK, OfHeuristic, InFlight
<1>4. BackendAsConfigured' /\ Cleared'
  BY <1>2, RequestCleared DEF Cleared, InFlight
<1>5. calls' <= 8 /\ (Once => calls' <= 2)
  BY <1>2 DEF GatewayInv, GatewayTypeOK, Asking, CallsCounted, InFlight
<1>6. CallsCounted' /\ OnlyUpheld'
  BY <1>2, <1>5 DEF OfHeuristic, CallsCounted, Once, OnlyUpheld, InFlight
<1> QED BY <1>3, <1>4, <1>6 DEF GatewayInv

\* A request that is made again, in another way.
LEMMA RequestRetries ==
  ASSUME GatewayInv, Asking, Request, NEW next, attempt' = next,
         backend.name = "openai_compat", next \in {2, 3, 4}, next > attempt,
         UNCHANGED <<pc, outgoing, finding, environ, article, backend, extraction, guard>>
  PROVE  GatewayInv'
<1>1. GatewayTypeOK'
  BY DEF GatewayInv, GatewayTypeOK, Asking, Request, InFlight
<1>2. BackendAsConfigured' /\ Cleared'
  BY RequestCleared DEF GatewayInv, Cleared, MayLeave
<1>3. CallsCounted' /\ OnlyUpheld'
  BY DEF GatewayInv, GatewayTypeOK, Asking, Request, CallsCounted, Once, OnlyUpheld, InFlight
<1> QED BY <1>1, <1>2, <1>3 DEF GatewayInv

LEMMA RaisesHolds == ASSUME GatewayInv, Raises PROVE GatewayInv'
<1>1. CASE AfterRaise = Nothing /\ Fallback
  BY <1>1, RequestFallsBack DEF Raises
<1>2. CASE AfterRaise # Nothing /\ attempt' = AfterRaise /\ UNCHANGED <<pc, outgoing, finding>>
  <2>1. backend.name = "openai_compat" /\ AfterRaise = attempt + 1 /\ attempt \in {1, 3}
    BY <1>2 DEF AfterRaise
  <2> QED BY <1>2, <2>1, RequestRetries DEF Raises
<1> QED BY <1>1, <1>2 DEF Raises, Retry

LEMMA UnusableHolds == ASSUME GatewayInv, Unusable PROVE GatewayInv'
<1>1. CASE AfterUnusable = Nothing /\ Fallback
  BY <1>1, RequestFallsBack DEF Unusable
<1>2. CASE AfterUnusable # Nothing /\ attempt' = AfterUnusable /\ UNCHANGED <<pc, outgoing, finding>>
  <2>1. backend.name = "openai_compat" /\ AfterUnusable = 3 /\ attempt \in {1, 2}
    BY <1>2 DEF AfterUnusable
  <2> QED BY <1>2, <2>1, RequestRetries DEF Unusable
<1> QED BY <1>1, <1>2 DEF Unusable, Retry

LEMMA MisshapenHolds == ASSUME GatewayInv, Misshapen PROVE GatewayInv'
BY RequestFallsBack DEF Misshapen

\* A finding of the two passes.
LEMMA GuardedTyped ==
  ASSUME backend \in Backends, NEW e \in Extractions, NEW verdicts
  PROVE  /\ GuardedFinding(e, verdicts) \in ArticleFindings
         /\ GuardedFinding(e, verdicts).method = "llm_two_pass"
         /\ GuardedFinding(e, verdicts).claims = Kept(e, verdicts)
         /\ GuardedFinding(e, verdicts).dropped = e.claims \ Kept(e, verdicts)
<1>1. (detect_injection(article) \/ e.suspected) \in BOOLEAN
  BY DEF detect_injection
<1> QED BY <1>1 DEF GuardedFinding, Kept, ArticleFindings, Backends, Extractions

LEMMA ExtractedHolds == ASSUME GatewayInv, NEW e \in Extractions, Extracted(e) PROVE GatewayInv'
<1> DEFINE last == GuardedFinding(e, NoVerdicts)
<1>1. /\ pc = "ask_extract" /\ Asking /\ Request /\ backend \in Backends /\ extraction' = e
      /\ last \in ArticleFindings /\ last.method = "llm_two_pass"
      /\ last.claims \subseteq e.claims /\ last.dropped = e.claims \ last.claims
      /\ UNCHANGED <<environ, article, backend, guard>>
  BY GuardedTyped DEF Kept, Extracted, Asking, GatewayInv, GatewayTypeOK, InFlight
<1>2. BackendAsConfigured' /\ Cleared'
  BY <1>1, RequestCleared DEF Cleared, Extracted, Ends, InFlight
<1>3. CASE e.claims = {} /\ Ends(last)
  <2> HIDE DEF last
  <2>1. GatewayTypeOK'
    BY <1>1, <1>3, NothingAssumption DEF GatewayInv, GatewayTypeOK, Request, Ends, InFlight
  <2>2. CallsCounted' /\ OnlyUpheld'
    BY <1>1, <1>3 DEF GatewayInv, GatewayTypeOK, Request, Ends, CallsCounted, Once, OnlyUpheld, InFlight
  <2> QED BY <1>2, <2>1, <2>2 DEF GatewayInv
<1>4. CASE pc' = "guard" /\ outgoing' = {} /\ attempt' = 0 /\ UNCHANGED finding
  <2>1. GatewayTypeOK'
    BY <1>1, <1>4 DEF GatewayInv, GatewayTypeOK, Request, InFlight
  <2>2. CallsCounted' /\ OnlyUpheld'
    BY <1>1, <1>4 DEF GatewayInv, GatewayTypeOK, Request, CallsCounted, Once, OnlyUpheld, InFlight
  <2> QED BY <1>2, <2>1, <2>2 DEF GatewayInv
<1> QED BY <1>3, <1>4 DEF Extracted

LEMMA GuardedHolds == ASSUME GatewayInv, NEW verdicts \in Verdicts, Guarded(verdicts) PROVE GatewayInv'
<1> DEFINE last == GuardedFinding(extraction, verdicts)
<1>1. /\ pc = "ask_guard" /\ Asking /\ Request /\ backend \in Backends
      /\ extraction \in Extractions /\ guard' = verdicts /\ Ends(last)
      /\ UNCHANGED <<environ, article, backend, extraction>>
  BY DEF Guarded, Asking, GatewayInv, GatewayTypeOK, InFlight
<1>2. /\ last \in ArticleFindings /\ last.method = "llm_two_pass"
      /\ last.dropped = extraction.claims \ last.claims
      /\ last.claims = {c \in extraction.claims : c \in DOMAIN verdicts /\ verdicts[c] # "false"}
  BY <1>1, GuardedTyped DEF Kept, Truthy
<1> HIDE DEF last
<1>3. BackendAsConfigured' /\ Cleared'
  BY <1>1, RequestCleared DEF Cleared, Ends, InFlight
<1>4. GatewayTypeOK'
  BY <1>1, <1>2, NothingAssumption DEF GatewayInv, GatewayTypeOK, Request, Ends, InFlight
<1>5. CallsCounted' /\ OnlyUpheld'
  BY <1>1, <1>2, NothingAssumption
  DEF GatewayInv, GatewayTypeOK, Request, Ends, CallsCounted, Once, OnlyUpheld, InFlight
<1> QED BY <1>3, <1>4, <1>5 DEF GatewayInv

-----------------------------------------------------------------------------
LEMMA GatewayStepHolds == GatewayInv /\ [GatewayNext]_gatewayVars => GatewayInv'
<1> SUFFICES ASSUME GatewayInv, [GatewayNext]_gatewayVars PROVE GatewayInv'
  OBVIOUS
<1>1. CASE GatewayNext
  BY <1>1, BeginHolds, ProbeHolds, HeuristicHolds, BuildHolds, EnforceHolds, RaisesHolds,
     UnusableHolds, MisshapenHolds, ExtractedHolds, GuardedHolds
  DEF GatewayNext, Step
<1>2. CASE UNCHANGED gatewayVars
  <2>1. GatewayTypeOK'
    BY <1>2 DEF gatewayVars, GatewayInv, GatewayTypeOK
  <2>2. BackendAsConfigured' /\ Cleared'
    BY <1>2, SameEnvironment DEF gatewayVars, GatewayInv, BackendAsConfigured, Cleared, MayLeave
  <2>3. CallsCounted' /\ OnlyUpheld'
    BY <1>2 DEF gatewayVars, GatewayInv, CallsCounted, Once, OnlyUpheld
  <2> QED BY <2>1, <2>2, <2>3 DEF GatewayInv
<1> QED BY <1>1, <1>2

LEMMA GatewayInvariant == GatewaySpec => []GatewayInv
BY GatewayInitHolds, GatewayStepHolds, PTL DEF GatewaySpec

\* The gateway's state has its types, and the extraction, backend and attempt each
\* step relies on are there.
THEOREM GatewayTyped == GatewaySpec => []GatewayTypeOK
<1>1. GatewayInv => GatewayTypeOK
  BY DEF GatewayInv
<1> QED BY GatewayInvariant, <1>1, PTL

\* In no pass and no retry is a server elsewhere sent anything that is looked for unless
\* the policy allows it or the server's URL holds a name of this host (egress.py:116,
\* llm_providers.py:212-214); requests are bounded, and go where /health says.
THEOREM NothingLeavesUnallowed == GatewaySpec => []LeavesOnlyAsAllowed
<1>1. GatewayInv => LeavesOnlyAsAllowed
  <2> SUFFICES ASSUME GatewayInv PROVE LeavesOnlyAsAllowed
    OBVIOUS
  <2>1. build_backend # Nothing =>
          /\ ~is_disabled
          /\ build_backend.local <=> build_backend.url.holds # ""
          /\ describe.provider = build_backend.name
          /\ build_backend.name = "anthropic" => build_backend.url = Elsewhere
          /\ build_backend.name = "openai_compat" => describe.base_url = build_backend.url
    BY BuiltAsDescribed DEF GatewayInv, GatewayTypeOK
  <2>2. \A text \in sent :
          /\ build_backend # Nothing /\ text.to = build_backend.url
          /\ MayLeave(text.identifiers, build_backend.local)
    BY DEF GatewayInv, BackendAsConfigured, Cleared
  <2>3. /\ \A text \in sent :
             ~text.to.here /\ text.identifiers \cap PII_PATTERNS # {} =>
               environ.policy = "allow" \/ text.to.holds # ""
        /\ \A text \in sent :
             describe.provider \in {"anthropic", "openai_compat"}
             /\ text.to = IF describe.provider = "anthropic" THEN Elsewhere ELSE describe.base_url
        /\ is_disabled => sent = {}
    BY <2>1, <2>2, BuiltAsDescribed DEF GatewayInv, GatewayTypeOK, MayLeave, Backends
  <2>4. calls <= 8 /\ (backend # Nothing /\ backend.name = "anthropic" => calls <= 2)
    BY DEF GatewayInv, CallsCounted, Once
  <2> QED BY <2>3, <2>4 DEF LeavesOnlyAsAllowed
<1> QED BY GatewayInvariant, <1>1, PTL

\* A two-pass finding keeps the extracted claims that the second pass ruled on and did
\* not call false, and counts the others as dropped; any other finding has nothing of
\* what the models claimed (llm_agent.py:217-230, services.py:353-358).
THEOREM ClaimsAreUpheld == GatewaySpec => []OnlyUpheld
<1>1. GatewayInv => OnlyUpheld
  BY DEF GatewayInv
<1> QED BY GatewayInvariant, <1>1, PTL
=============================================================================
