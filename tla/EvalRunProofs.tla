----------------------------- MODULE EvalRunProofs -----------------------------
(***************************************************************************)
(* Theorems about EvalRun, and with it about the ranking of a query, for    *)
(* every finite corpus, every length of the lists and every reply of the    *)
(* model that scores.                                                      *)
(***************************************************************************)
EXTENDS EvalRun, ChunkerProofs, FiniteSetTheorems, SequenceTheorems

-----------------------------------------------------------------------------
(* Finite sets and sorting *)

\* The first n numbers are n.
LEMMA IntervalCardinality ==
  ASSUME NEW n \in Nat
  PROVE  IsFiniteSet(1 .. n) /\ Cardinality(1 .. n) = n
  BY FS_Interval

\* The least member of a set of natural numbers.
LEMMA MinOfNaturals ==
  ASSUME NEW S, S \subseteq Nat, S # {}
  PROVE  Min(S) \in S /\ \A y \in S : Min(S) <= y
<1> DEFINE Less == OpToRel(<, Nat)
<1>1. IsWellFoundedOn(Less, Nat)
  BY NatLessThanWellFounded
<1>2. PICK x \in S : \A y \in S : <<y, x>> \notin Less
  <2> HIDE DEF Less
  <2>1. QED
    BY <1>1, WFMin
<1>3. \A y \in S : x <= y
  <2> SUFFICES ASSUME NEW y \in S, y < x PROVE FALSE
    OBVIOUS
  <2>1. <<y, x>> \in Less
    BY DEF OpToRel
  <2>2. QED
    BY <2>1, <1>2
<1>4. QED
  BY <1>3 DEF Min

\* R orders the members of S strictly and totally.
StrictOrder(R, S) ==
  /\ \A x \in S : <<x, x>> \notin R
  /\ \A x, y \in S : x # y => <<x, y>> \in R \/ <<y, x>> \in R
  /\ \A x, y, z \in S : <<x, y>> \in R /\ <<y, z>> \in R => <<x, z>> \in R

\* s lists S in the order R.
InOrder(s, S, R) ==
  /\ s \in [1 .. Cardinality(S) -> S]
  /\ \A i, j \in 1 .. Cardinality(S) : i < j => <<s[i], s[j]>> \in R

LEMMA SortExists ==
  ASSUME NEW S, IsFiniteSet(S), NEW R, StrictOrder(R, S)
  PROVE  \E s \in [1 .. Cardinality(S) -> S] : InOrder(s, S, R)
<1> DEFINE n == Cardinality(S)
           before(x) == {y \in S : <<y, x>> \in R}
           rank == [x \in S |-> Cardinality(before(x)) + 1]
           s == [i \in 1 .. n |-> CHOOSE x \in S : rank[x] = i]
<1>1. n \in Nat
  BY FS_CardinalityType
<1>2. ASSUME NEW x \in S
      PROVE  IsFiniteSet(before(x)) /\ Cardinality(before(x)) \in Nat /\ rank[x] \in 1 .. n
  <2>1. before(x) \in SUBSET S /\ before(x) # S
    BY DEF StrictOrder
  <2>2. IsFiniteSet(before(x)) /\ Cardinality(before(x)) <= n /\ Cardinality(before(x)) # n
    BY <2>1, FS_Subset
  <2>3. Cardinality(before(x)) \in Nat
    BY <2>2, FS_CardinalityType
  <2>4. QED
    BY <1>1, <2>2, <2>3
<1>3. ASSUME NEW x \in S, NEW y \in S, <<x, y>> \in R
      PROVE  rank[x] < rank[y]
  <2>1. before(x) \in SUBSET before(y)
    BY <1>3 DEF StrictOrder
  <2>2. x \in before(y) /\ x \notin before(x)
    BY <1>3 DEF StrictOrder
  <2>3. IsFiniteSet(before(y)) /\ Cardinality(before(x)) \in Nat /\ Cardinality(before(y)) \in Nat
    BY <1>2
  <2>4. Cardinality(before(x)) <= Cardinality(before(y)) /\ Cardinality(before(x)) # Cardinality(before(y))
    BY <2>1, <2>2, <2>3, FS_Subset
  <2>5. QED
    BY <2>3, <2>4
<1>4. rank \in Injection(S, 1 .. n)
  <2>1. rank \in [S -> 1 .. n]
    BY <1>2
  <2>2. ASSUME NEW x \in S, NEW y \in S, rank[x] = rank[y] PROVE x = y
    <3>1. rank[x] \in Nat
      BY <1>2
    <3> HIDE DEF rank
    <3>2. <<x, y>> \notin R /\ <<y, x>> \notin R
      BY <1>3, <2>2, <3>1
    <3>3. QED
      BY <3>2 DEF StrictOrder
  <2> HIDE DEF rank
  <2>3. QED
    BY <2>1, <2>2 DEF Injection, IsInjective
<1>5. rank \in Surjection(S, 1 .. n)
  <2> HIDE DEF rank
  <2>1. IsFiniteSet(1 .. n) /\ Cardinality(1 .. n) = n
    BY <1>1, FS_Interval
  <2>2. QED
    BY <2>1, <1>4, FS_Injection
<1> HIDE DEF rank
<1>6. ASSUME NEW i \in 1 .. n PROVE s[i] \in S /\ rank[s[i]] = i
  <2>1. \E x \in S : rank[x] = i
    BY <1>5 DEF Surjection
  <2>2. QED
    BY <2>1
<1>7. s \in [1 .. n -> S]
  BY <1>6
<1>8. ASSUME NEW i \in 1 .. n, NEW j \in 1 .. n, i < j PROVE <<s[i], s[j]>> \in R
  <2>1. s[i] \in S /\ s[j] \in S /\ rank[s[i]] = i /\ rank[s[j]] = j
    BY <1>6
  <2> HIDE DEF s
  <2>2. s[i] # s[j] /\ <<s[j], s[i]>> \notin R
    BY <2>1, <1>1, <1>3, <1>8
  <2>3. QED
    BY <2>1, <2>2 DEF StrictOrder
<1> HIDE DEF s
<1>9. QED
  BY <1>7, <1>8 DEF InOrder

\* Such a list has every member of S once.
LEMMA InOrderIsBijection ==
  ASSUME NEW S, IsFiniteSet(S), NEW R, StrictOrder(R, S), NEW s, InOrder(s, S, R)
  PROVE  /\ Cardinality(S) \in Nat
         /\ s \in Seq(S) /\ Len(s) = Cardinality(S) /\ DOMAIN s = 1 .. Len(s)
         /\ IsInjective(s) /\ Range(s) = S
<1> DEFINE n == Cardinality(S)
<1>1. n \in Nat
  BY FS_CardinalityType
<1>2. s \in [1 .. n -> S]
  BY DEF InOrder
<1>3. s \in Seq(S) /\ Len(s) = n /\ DOMAIN s = 1 .. n
  <2> HIDE DEF n
  <2>1. QED
    BY <1>1, <1>2
<1>4. ASSUME NEW i \in 1 .. n, NEW j \in 1 .. n, s[i] = s[j] PROVE i = j
  <2>1. ~(i < j) /\ ~(j < i)
    BY <1>2, <1>4 DEF InOrder, StrictOrder
  <2>2. QED
    BY <1>1, <2>1
<1>5. IsInjective(s)
  BY <1>3, <1>4 DEF IsInjective
<1>6. s \in Injection(1 .. n, S)
  BY <1>2, <1>5 DEF Injection
<1>7. s \in Surjection(1 .. n, S)
  <2>1. Cardinality(1 .. n) = n
    BY <1>1, FS_Interval
  <2>2. QED
    BY <2>1, <1>6, FS_Injection
<1>8. Range(s) = S
  BY <1>2, <1>7 DEF Surjection, Range
<1>9. QED
  BY <1>1, <1>3, <1>5, <1>8

-----------------------------------------------------------------------------
(* Fractions *)

Fraction == [num: Nat, den: Nat \ {0}]

\* Multiplying by what is positive keeps an order and tells it.
LEMMA MulOrder ==
  ASSUME NEW x \in Nat, NEW y \in Nat, NEW z \in Nat \ {0}
  PROVE  /\ x * z \in Nat
         /\ x <= y <=> x * z <= y * z
         /\ x < y <=> x * z < y * z
  OBVIOUS

\* Products of three.
LEMMA Products ==
  ASSUME NEW x \in Nat, NEW y \in Nat, NEW z \in Nat
  PROVE  /\ x * y \in Nat /\ x * y = y * x
         /\ (x * y) * z = (x * z) * y /\ (x * y) * z = (y * z) * x
         /\ (x + y) * z = x * z + y * z
  OBVIOUS

\* What exceeds is not exceeded, and not to exceed is transitive.
LEMMA ExceedsOrder ==
  ASSUME NEW x \in Fraction, NEW y \in Fraction, NEW z \in Fraction
  PROVE  /\ Exceeds(x, y) => ~Exceeds(y, x)
         /\ ~Exceeds(x, y) /\ ~Exceeds(y, z) => ~Exceeds(x, z)
<1>1. /\ x.num \in Nat /\ x.den \in Nat \ {0}
      /\ y.num \in Nat /\ y.den \in Nat \ {0}
      /\ z.num \in Nat /\ z.den \in Nat \ {0}
  BY DEF Fraction
<1>2. Exceeds(x, y) => ~Exceeds(y, x)
  BY <1>1, Products DEF Exceeds
<1>3. ASSUME x.num * y.den <= y.num * x.den, y.num * z.den <= z.num * y.den
      PROVE  x.num * z.den <= z.num * x.den
  <2>1. (x.num * y.den) * z.den <= (y.num * x.den) * z.den
    BY <1>1, <1>3, Products, MulOrder
  <2>2. (y.num * z.den) * x.den <= (z.num * y.den) * x.den
    BY <1>1, <1>3, Products, MulOrder
  <2>3. /\ (x.num * y.den) * z.den = (x.num * z.den) * y.den
        /\ (y.num * x.den) * z.den = (y.num * z.den) * x.den
        /\ (z.num * y.den) * x.den = (z.num * x.den) * y.den
    BY <1>1, Products
  <2>4. /\ (x.num * z.den) * y.den \in Nat /\ (y.num * z.den) * x.den \in Nat
        /\ (z.num * x.den) * y.den \in Nat
        /\ x.num * z.den \in Nat /\ z.num * x.den \in Nat
    BY <1>1, Products
  <2>5. (x.num * z.den) * y.den <= (z.num * x.den) * y.den
    BY <2>1, <2>2, <2>3, <2>4
  <2>6. QED
    BY <1>1, <2>4, <2>5, MulOrder
<1>4. /\ x.num * y.den \in Nat /\ y.num * x.den \in Nat /\ y.num * z.den \in Nat
      /\ z.num * y.den \in Nat /\ x.num * z.den \in Nat /\ z.num * x.den \in Nat
  BY <1>1, Products
<1>5. QED
  BY <1>2, <1>3, <1>4 DEF Exceeds

\* A sum of greater terms is greater.
LEMMA PlusMonotone ==
  ASSUME NEW x \in Fraction, NEW y \in Fraction, NEW u \in Fraction, NEW v \in Fraction
  PROVE  /\ Plus(x, y) \in Fraction
         /\ Exceeds(x, u) /\ Exceeds(y, v) => Exceeds(Plus(x, y), Plus(u, v))
<1>1. /\ x.num \in Nat /\ x.den \in Nat \ {0}
      /\ y.num \in Nat /\ y.den \in Nat \ {0}
      /\ u.num \in Nat /\ u.den \in Nat \ {0}
      /\ v.num \in Nat /\ v.den \in Nat \ {0}
  BY DEF Fraction
<1>2. \A a, b \in Nat \ {0} : a * b \in Nat \ {0}
  OBVIOUS
<1>3. \A a, b \in Nat : a * b \in Nat
  OBVIOUS
<1>4. Plus(x, y) \in Fraction
  BY <1>1, <1>2, <1>3 DEF Plus, Fraction
<1>5. ASSUME x.num * u.den > u.num * x.den, y.num * v.den > v.num * y.den
      PROVE  (x.num * y.den + y.num * x.den) * (u.den * v.den)
               > (u.num * v.den + v.num * u.den) * (x.den * y.den)
  <2>1. (x.num * u.den) * (y.den * v.den) > (u.num * x.den) * (y.den * v.den)
    BY <1>1, <1>2, <1>3, <1>5, MulOrder
  <2>2. (y.num * v.den) * (x.den * u.den) > (v.num * y.den) * (x.den * u.den)
    BY <1>1, <1>2, <1>3, <1>5, MulOrder
  <2>3. /\ (x.num * u.den) * (y.den * v.den) = (x.num * y.den) * (u.den * v.den)
        /\ (u.num * x.den) * (y.den * v.den) = (u.num * v.den) * (x.den * y.den)
        /\ (y.num * v.den) * (x.den * u.den) = (y.num * x.den) * (u.den * v.den)
        /\ (v.num * y.den) * (x.den * u.den) = (v.num * u.den) * (x.den * y.den)
    BY <1>1
  <2>4. /\ (x.num * y.den + y.num * x.den) * (u.den * v.den)
             = (x.num * y.den) * (u.den * v.den) + (y.num * x.den) * (u.den * v.den)
        /\ (u.num * v.den + v.num * u.den) * (x.den * y.den)
             = (u.num * v.den) * (x.den * y.den) + (v.num * u.den) * (x.den * y.den)
    BY <1>1, <1>3
  <2>5. /\ (x.num * y.den) * (u.den * v.den) \in Nat /\ (y.num * x.den) * (u.den * v.den) \in Nat
        /\ (u.num * v.den) * (x.den * y.den) \in Nat /\ (v.num * u.den) * (x.den * y.den) \in Nat
    BY <1>1, <1>3
  <2>6. QED
    BY <2>1, <2>2, <2>3, <2>4, <2>5
<1>6. QED
  BY <1>4, <1>5 DEF Exceeds, Plus

-----------------------------------------------------------------------------
(* Fusion *)

\* A list of results has its members once, at ranks up to its length.
LEMMA ResultListRanks ==
  ASSUME NEW list \in ResultLists
  PROVE  /\ list \in Seq(Chunks) /\ Len(list) \in 0 .. KEach /\ IsInjective(list)
         /\ DOMAIN list = 1 .. Len(list)
         /\ Range(list) \subseteq Chunks
         /\ \A id \in Range(list) : RankIn(id, list) \in 1 .. Len(list) /\ list[RankIn(id, list)] = id
<1>1. PICK n \in 0 .. KEach : list \in [1 .. n -> Chunks]
  BY DEF ResultLists
<1>2. n \in Nat /\ KEach \in Nat
  BY RankingAssumption
<1>3. list \in Seq(Chunks) /\ Len(list) = n /\ DOMAIN list = 1 .. n
  BY <1>1, <1>2
<1>4. IsInjective(list)
  BY DEF ResultLists
<1>5. \A id \in Range(list) : \E i \in DOMAIN list : list[i] = id
  BY DEF Range
<1>6. QED
  BY <1>1, <1>3, <1>4, <1>5 DEF RankIn, Range

SearchLists == lists \in [bm25: ResultLists, vector: ResultLists]

LEMMA SearchListsType ==
  ASSUME SearchLists
  PROVE  lists.bm25 \in ResultLists /\ lists.vector \in ResultLists
  BY DEF SearchLists

\* The share of a list in a score.
LEMMA ReciprocalType ==
  ASSUME NEW list \in ResultLists, NEW id
  PROVE  /\ Reciprocal(id, list) \in Fraction
         /\ id \in Range(list) => Reciprocal(id, list) = [num |-> 1, den |-> RRF_K + RankIn(id, list)]
         /\ id \notin Range(list) => Reciprocal(id, list) = [num |-> 0, den |-> 1]
<1>1. id \in Range(list) => RankIn(id, list) \in Nat
  BY ResultListRanks
<1>2. QED
  BY <1>1 DEF Reciprocal, Fraction, RRF_K

\* An earlier rank, or a rank at all, is a greater share.
LEMMA DominatesExceeds ==
  ASSUME NEW list \in ResultLists, NEW a, NEW b, Dominates(a, b, list)
  PROVE  Exceeds(Reciprocal(a, list), Reciprocal(b, list))
<1>1. a \in Range(list) /\ RankIn(a, list) \in Nat
  BY ResultListRanks DEF Dominates
<1>2. Reciprocal(a, list) = [num |-> 1, den |-> RRF_K + RankIn(a, list)]
  BY <1>1, ReciprocalType
<1>3. CASE b \in Range(list)
  <2>1. RankIn(b, list) \in Nat /\ RankIn(a, list) < RankIn(b, list)
    BY <1>3, ResultListRanks DEF Dominates
  <2>2. Reciprocal(b, list) = [num |-> 1, den |-> RRF_K + RankIn(b, list)]
    BY <1>3, ReciprocalType
  <2>3. QED
    BY <1>1, <1>2, <2>1, <2>2 DEF Exceeds, RRF_K
<1>4. CASE b \notin Range(list)
  <2>1. Reciprocal(b, list) = [num |-> 0, den |-> 1]
    BY <1>4, ReciprocalType
  <2>2. QED
    BY <1>1, <1>2, <2>1 DEF Exceeds, RRF_K
<1>5. QED
  BY <1>3, <1>4

LEMMA FusedScoreType ==
  ASSUME SearchLists, NEW id
  PROVE  FusedScore(id) \in Fraction
  BY SearchListsType, ReciprocalType, PlusMonotone DEF FusedScore

\* What both lists rank higher has the higher score.
LEMMA DominatorScoresHigher ==
  ASSUME SearchLists, NEW a, NEW b,
         Dominates(a, b, lists.bm25), Dominates(a, b, lists.vector)
  PROVE  Exceeds(FusedScore(a), FusedScore(b))
<1>1. lists.bm25 \in ResultLists /\ lists.vector \in ResultLists
  BY SearchListsType
<1>2. /\ Exceeds(Reciprocal(a, lists.bm25), Reciprocal(b, lists.bm25))
      /\ Exceeds(Reciprocal(a, lists.vector), Reciprocal(b, lists.vector))
  BY <1>1, DominatesExceeds
<1>3. /\ Reciprocal(a, lists.bm25) \in Fraction /\ Reciprocal(b, lists.bm25) \in Fraction
      /\ Reciprocal(a, lists.vector) \in Fraction /\ Reciprocal(b, lists.vector) \in Fraction
  BY <1>1, ReciprocalType
<1>4. QED
  BY <1>2, <1>3, PlusMonotone DEF FusedScore

\* Two shares of ranks up to RRF_K + 1 exceed any single one.
LEMMA TwoExceedOne ==
  ASSUME NEW a \in 61 .. 121, NEW b \in 61 .. 121, NEW c \in Nat, c >= 61
  PROVE  (b + a) * c > a * b
<1>1. 121 * a >= a * b /\ 121 * b >= a * b
  BY MulOrder
<1>2. (b + a) * c >= (b + a) * 61
  OBVIOUS
<1>3. a * b \in Nat /\ (b + a) * c \in Nat
  OBVIOUS
<1>4. QED
  BY <1>1, <1>2, <1>3

\* What both lists found scores higher than what one of them did not.
LEMMA ConsensusScoresHigher ==
  ASSUME KEach <= RRF_K + 1, SearchLists, NEW a \in Consensus, NEW b \in Found \ Consensus
  PROVE  Exceeds(FusedScore(a), FusedScore(b))
<1> DEFINE X == lists.bm25
           Y == lists.vector
           A == RRF_K + RankIn(a, X)
           B == RRF_K + RankIn(a, Y)
<1>1. X \in ResultLists /\ Y \in ResultLists
  BY SearchListsType
<1>2. a \in Range(X) /\ a \in Range(Y)
  BY DEF Consensus
<1>3. A \in 61 .. 121 /\ B \in 61 .. 121
  <2>1. /\ RankIn(a, X) \in 1 .. Len(X) /\ Len(X) \in 0 .. KEach
        /\ RankIn(a, Y) \in 1 .. Len(Y) /\ Len(Y) \in 0 .. KEach
    BY <1>1, <1>2, ResultListRanks
  <2>2. KEach \in Nat /\ KEach <= 61
    BY RankingAssumption DEF RRF_K
  <2>3. \A n \in 0 .. KEach : 1 .. n \subseteq 1 .. 61
    BY <2>2
  <2>4. RankIn(a, X) \in 1 .. 61 /\ RankIn(a, Y) \in 1 .. 61
    BY <2>1, <2>3
  <2>5. QED
    BY <2>4 DEF RRF_K
<1>4. FusedScore(a) = [num |-> B + A, den |-> A * B]
  <2>1. Reciprocal(a, X) = [num |-> 1, den |-> A] /\ Reciprocal(a, Y) = [num |-> 1, den |-> B]
    BY <1>1, <1>2, ReciprocalType
  <2> HIDE DEF A, B
  <2>2. FusedScore(a) = Plus([num |-> 1, den |-> A], [num |-> 1, den |-> B])
    BY <2>1 DEF FusedScore
  <2>3. QED
    BY <2>2, <1>3 DEF Plus
<1>5. ASSUME NEW C \in Nat, C >= 61, FusedScore(b).num = 1, FusedScore(b).den = C
      PROVE  Exceeds(FusedScore(a), FusedScore(b))
  <2> HIDE DEF A, B
  <2>1. (B + A) * C > A * B /\ A * B \in Nat
    BY <1>3, <1>5, TwoExceedOne
  <2>2. QED
    BY <1>4, <1>5, <2>1 DEF Exceeds
<1>6. CASE b \in Range(X)
  <2>1. b \notin Range(Y)
    BY <1>6 DEF Consensus
  <2>2. /\ Reciprocal(b, X) = [num |-> 1, den |-> RRF_K + RankIn(b, X)]
        /\ Reciprocal(b, Y) = [num |-> 0, den |-> 1]
    BY <1>1, <1>6, <2>1, ReciprocalType
  <2>3. RankIn(b, X) \in Nat /\ RankIn(b, X) >= 1
    BY <1>1, <1>6, ResultListRanks
  <2>4. FusedScore(b).num = 1 /\ FusedScore(b).den = RRF_K + RankIn(b, X)
    BY <2>2, <2>3 DEF FusedScore, Plus, RRF_K
  <2>5. RRF_K + RankIn(b, X) \in Nat /\ RRF_K + RankIn(b, X) >= 61
    BY <2>3 DEF RRF_K
  <2>6. QED
    BY <1>5, <2>4, <2>5
<1>7. CASE b \notin Range(X)
  <2>1. b \in Range(Y)
    BY <1>7 DEF Found
  <2>2. /\ Reciprocal(b, X) = [num |-> 0, den |-> 1]
        /\ Reciprocal(b, Y) = [num |-> 1, den |-> RRF_K + RankIn(b, Y)]
    BY <1>1, <1>7, <2>1, ReciprocalType
  <2>3. RankIn(b, Y) \in Nat /\ RankIn(b, Y) >= 1
    BY <1>1, <2>1, ResultListRanks
  <2>4. FusedScore(b).num = 1 /\ FusedScore(b).den = RRF_K + RankIn(b, Y)
    BY <2>2, <2>3 DEF FusedScore, Plus, RRF_K
  <2>5. RRF_K + RankIn(b, Y) \in Nat /\ RRF_K + RankIn(b, Y) >= 61
    BY <2>3 DEF RRF_K
  <2>6. QED
    BY <1>5, <2>4, <2>5
<1>8. QED
  BY <1>6, <1>7

\* No two results have the same place.
LEMMA PlacesDiffer ==
  ASSUME SearchLists, NEW a \in Found, NEW b \in Found
  PROVE  Place(a) \in Nat /\ (Place(a) = Place(b) => a = b)
<1>1. lists.bm25 \in ResultLists /\ lists.vector \in ResultLists
  BY SearchListsType
<1>2. Len(lists.bm25) \in Nat
  BY <1>1, ResultListRanks
<1>3. ASSUME NEW id \in Range(lists.bm25)
      PROVE  /\ Place(id) = RankIn(id, lists.bm25)
             /\ Place(id) \in 1 .. Len(lists.bm25) /\ lists.bm25[Place(id)] = id
  BY <1>1, ResultListRanks DEF Place
<1>4. ASSUME NEW id \in Found \ Range(lists.bm25)
      PROVE  /\ Place(id) = Len(lists.bm25) + RankIn(id, lists.vector)
             /\ RankIn(id, lists.vector) \in Nat \ {0}
             /\ lists.vector[RankIn(id, lists.vector)] = id
  <2>1. id \in Range(lists.vector)
    BY DEF Found
  <2>2. QED
    BY <1>1, <2>1, ResultListRanks DEF Place
<1>5. ASSUME a \in Range(lists.bm25), b \notin Range(lists.bm25)
      PROVE  Place(a) < Place(b)
  BY <1>2, <1>3, <1>4, <1>5
<1>6. ASSUME b \in Range(lists.bm25), a \notin Range(lists.bm25)
      PROVE  Place(b) < Place(a)
  BY <1>2, <1>3, <1>4, <1>6
<1>7. ASSUME NEW id \in Found PROVE Place(id) \in Nat
  BY <1>2, <1>3, <1>4
<1>8. ASSUME a \in Range(lists.bm25), b \in Range(lists.bm25), Place(a) = Place(b)
      PROVE  a = b
  BY <1>3, <1>8
<1>9. ASSUME a \notin Range(lists.bm25), b \notin Range(lists.bm25), Place(a) = Place(b)
      PROVE  a = b
  <2>1. RankIn(a, lists.vector) = RankIn(b, lists.vector)
    BY <1>2, <1>4, <1>9
  <2>2. QED
    BY <1>4, <1>9, <2>1
<1>10. QED
  BY <1>5, <1>6, <1>7, <1>8, <1>9

\* Exchanged ranks are a tie.
LEMMA MirroredTie ==
  ASSUME SearchLists, NEW a, NEW b, Mirrored(a, b)
  PROVE  ~Exceeds(FusedScore(b), FusedScore(a))
<1> DEFINE x == Reciprocal(a, lists.bm25)
           y == Reciprocal(a, lists.vector)
<1>1. x \in Fraction /\ y \in Fraction
  BY SearchListsType, ReciprocalType
<1>2. FusedScore(a) = Plus(x, y) /\ FusedScore(b) = Plus(y, x)
  BY DEF FusedScore, Mirrored
<1> HIDE DEF x, y
<1>3. Plus(x, y) = Plus(y, x)
  BY <1>1 DEF Plus, Fraction
<1>4. Plus(x, y) \in Fraction
  BY <1>1, PlusMonotone
<1>5. QED
  BY <1>2, <1>3, <1>4 DEF Exceeds, Fraction

\* What BM25 ranks higher was inserted earlier.
LEMMA DominatorPlacedFirst ==
  ASSUME SearchLists, NEW a \in Found, NEW b \in Found, Dominates(a, b, lists.bm25)
  PROVE  Place(a) < Place(b)
<1>1. /\ lists.bm25 \in ResultLists /\ lists.vector \in ResultLists
      /\ a \in Range(lists.bm25)
  BY SearchListsType DEF Dominates
<1>2. RankIn(a, lists.bm25) \in 1 .. Len(lists.bm25) /\ Len(lists.bm25) \in Nat
  BY <1>1, ResultListRanks
<1>3. CASE b \in Range(lists.bm25)
  BY <1>1, <1>3 DEF Dominates, Place
<1>4. CASE b \notin Range(lists.bm25)
  <2>1. RankIn(b, lists.vector) \in Nat \ {0}
    BY <1>1, <1>4, ResultListRanks DEF Found
  <2>2. QED
    BY <1>1, <1>2, <1>4, <2>1 DEF Place
<1>5. QED
  BY <1>3, <1>4

\* The order of fusion, as a relation.
FusionOrder == {p \in Found \X Found : Precedes(p[1], p[2])}

LEMMA FusionOrders ==
  ASSUME SearchLists
  PROVE  /\ \A a, b \in Found : <<a, b>> \in FusionOrder <=> Precedes(a, b)
         /\ StrictOrder(FusionOrder, Found)
<1>1. ASSUME NEW a \in Found, NEW b \in Found
      PROVE  <<a, b>> \in FusionOrder <=> Precedes(a, b)
  BY DEF FusionOrder
<1>2. ASSUME NEW a \in Found PROVE ~Precedes(a, a)
  BY FusedScoreType, ExceedsOrder, PlacesDiffer DEF Precedes
<1>3. ASSUME NEW a \in Found, NEW b \in Found, a # b PROVE Precedes(a, b) \/ Precedes(b, a)
  <2>1. Place(a) < Place(b) \/ Place(b) < Place(a)
    BY <1>3, PlacesDiffer
  <2>2. QED
    BY <2>1 DEF Precedes
<1>4. ASSUME NEW a \in Found, NEW b \in Found, NEW c \in Found, Precedes(a, b), Precedes(b, c)
      PROVE  Precedes(a, c)
  <2>1. FusedScore(a) \in Fraction /\ FusedScore(b) \in Fraction /\ FusedScore(c) \in Fraction
    BY FusedScoreType
  <2>2. ~Exceeds(FusedScore(b), FusedScore(a)) /\ ~Exceeds(FusedScore(c), FusedScore(b))
    BY <1>4, <2>1, ExceedsOrder DEF Precedes
  <2>3. ~Exceeds(FusedScore(c), FusedScore(a))
    BY <2>1, <2>2, ExceedsOrder
  <2>4. CASE Exceeds(FusedScore(a), FusedScore(c))
    BY <2>4 DEF Precedes
  <2>5. CASE ~Exceeds(FusedScore(a), FusedScore(c))
    <3>1. ~Exceeds(FusedScore(a), FusedScore(b))
      BY <2>1, <2>2, <2>5, ExceedsOrder
    <3>2. ~Exceeds(FusedScore(b), FusedScore(c))
      BY <2>1, <2>2, <2>5, ExceedsOrder
    <3>3. Place(a) < Place(b) /\ Place(b) < Place(c)
      BY <3>1, <3>2, <1>4 DEF Precedes
    <3>4. Place(a) < Place(c)
      BY <3>3, PlacesDiffer
    <3>5. QED
      BY <2>3, <3>4 DEF Precedes
  <2>6. QED
    BY <2>4, <2>5
<1>5. QED
  BY <1>1, <1>2, <1>3, <1>4 DEF StrictOrder

\* The stored results, sorted: each once, in the order of fusion.
LEMMA SortedResults ==
  ASSUME SearchLists, NEW stored \in SUBSET Found, NEW s, s = Sorted(stored, Precedes)
  PROVE  /\ s \in Seq(Chunks) /\ IsInjective(s) /\ Range(s) = stored
         /\ \A i, j \in DOMAIN s : i < j => Precedes(s[i], s[j])
<1>1. Found \subseteq Chunks
  BY SearchListsType, ResultListRanks DEF Found
<1>2. IsFiniteSet(stored)
  BY <1>1, RankingAssumption, FS_Subset
<1>3. /\ \A a, b \in stored : <<a, b>> \in FusionOrder <=> Precedes(a, b)
      /\ StrictOrder(FusionOrder, stored)
  BY FusionOrders DEF StrictOrder
<1>4. \E t \in [1 .. Cardinality(stored) -> stored] : InOrder(t, stored, FusionOrder)
  BY <1>2, <1>3, SortExists
<1>5. ASSUME NEW t \in [1 .. Cardinality(stored) -> stored]
      PROVE  InOrder(t, stored, FusionOrder)
               <=> \A i, j \in DOMAIN t : i < j => Precedes(t[i], t[j])
  BY <1>3 DEF InOrder
<1>6. InOrder(s, stored, FusionOrder)
  <2>1. s = CHOOSE t \in [1 .. Cardinality(stored) -> stored] :
              \A i, j \in DOMAIN t : i < j => Precedes(t[i], t[j])
    BY DEF Sorted
  <2> DEFINE ordered(t) == \A i, j \in DOMAIN t : i < j => Precedes(t[i], t[j])
  <2>2. \E t \in [1 .. Cardinality(stored) -> stored] : ordered(t)
    BY <1>4, <1>5
  <2>3. s = CHOOSE t \in [1 .. Cardinality(stored) -> stored] : ordered(t)
    BY <2>1
  <2> HIDE DEF ordered
  <2>4. s \in [1 .. Cardinality(stored) -> stored] /\ ordered(s)
    BY <2>2, <2>3
  <2>5. QED
    BY <2>4, <1>5 DEF ordered
<1>7. s \in Seq(stored) /\ IsInjective(s) /\ Range(s) = stored
  BY <1>2, <1>3, <1>6, InOrderIsBijection
<1>8. s \in Seq(Chunks)
  BY <1>1, <1>7, SeqMonotonic
<1>9. s \in [1 .. Cardinality(stored) -> stored]
  BY <1>6 DEF InOrder
<1>10. QED
  BY <1>5, <1>6, <1>7, <1>8, <1>9

\* The first k of a list.
LEMMA TopOfList ==
  ASSUME NEW S, NEW s \in Seq(S), NEW k \in Nat
  PROVE  /\ Top(s, k) \in Seq(S)
         /\ Len(Top(s, k)) = IF k <= Len(s) THEN k ELSE Len(s)
         /\ DOMAIN Top(s, k) = 1 .. Len(Top(s, k))
         /\ DOMAIN Top(s, k) \subseteq DOMAIN s
         /\ \A i \in DOMAIN Top(s, k) : Top(s, k)[i] = s[i]
         /\ k >= Len(s) => Top(s, k) = s
<1> DEFINE m == Min({k, Len(s)})
<1>1. Len(s) \in Nat /\ {k, Len(s)} \subseteq Nat /\ {k, Len(s)} # {}
  OBVIOUS
<1>2. m \in {k, Len(s)} /\ m <= k /\ m <= Len(s)
  BY <1>1, MinOfNaturals
<1>3. m = IF k <= Len(s) THEN k ELSE Len(s)
  BY <1>1, <1>2
<1>4. m \in Nat /\ m <= Len(s)
  BY <1>1, <1>2
<1> HIDE DEF m
<1>5. Top(s, k) = SubSeq(s, 1, m)
  BY DEF Top, m
<1>6. /\ SubSeq(s, 1, m) \in Seq(S) /\ Len(SubSeq(s, 1, m)) = m
      /\ \A i \in 1 .. m : SubSeq(s, 1, m)[i] = s[i]
  BY <1>1, <1>4
<1>7. m = Len(s) => SubSeq(s, 1, m) = s
  BY SubSeqFull
<1>8. DOMAIN s = 1 .. Len(s) /\ 1 .. m \subseteq 1 .. Len(s)
  BY <1>1, <1>4
<1>9. Len(Top(s, k)) = m /\ DOMAIN Top(s, k) = 1 .. m
  BY <1>5, <1>6
<1>10. k >= Len(s) => Top(s, k) = s
  BY <1>1, <1>3, <1>5, <1>7
<1>11. QED
  BY <1>3, <1>5, <1>6, <1>8, <1>9, <1>10

-----------------------------------------------------------------------------
(* The invariant of a query *)

\* Nothing is scored before the lists are fused.
ScoresAfterFusion == step \in {"idle", "found"} => scores = <<>>

\* The fused order is the order of fusion.
FusedInOrder ==
  step = "fused" =>
    /\ Range(candidates) \subseteq Found
    /\ \A i, j \in DOMAIN candidates : i < j => Precedes(candidates[i], candidates[j])

RankingInv ==
  /\ RankingTypeOK
  /\ ScoresAfterFusion
  /\ FusedInOrder
  /\ RerankKeepsPlaces

\* Whatever the length of the lists up to RRF_K + 1, the order of fusion
\* respects both indexes.
LEMMA OrderRespectsIndexes ==
  ASSUME KEach <= RRF_K + 1, RankingInv
  PROVE  FusionRespectsIndexes
<1> SUFFICES ASSUME step = "fused", NEW i \in DOMAIN candidates, NEW j \in DOMAIN candidates,
                    \/ /\ Dominates(candidates[i], candidates[j], lists.bm25)
                       /\ Dominates(candidates[i], candidates[j], lists.vector)
                    \/ candidates[i] \in Consensus /\ candidates[j] \notin Consensus
                    \/ /\ Dominates(candidates[i], candidates[j], lists.bm25)
                       /\ Mirrored(candidates[i], candidates[j])
             PROVE  i < j
  BY DEF FusionRespectsIndexes
<1>1. SearchLists /\ candidates \in Seq(Chunks) /\ IsInjective(candidates)
  BY DEF RankingInv, RankingTypeOK, SearchLists
<1>2. candidates[i] \in Found /\ candidates[j] \in Found
  BY DEF RankingInv, FusedInOrder, Range
<1> DEFINE a == candidates[i]
           b == candidates[j]
<1>3. ~Precedes(b, a)
  <2>1. CASE \/ Dominates(a, b, lists.bm25) /\ Dominates(a, b, lists.vector)
             \/ a \in Consensus /\ b \notin Consensus
    <3>1. Exceeds(FusedScore(a), FusedScore(b))
      BY <1>1, <1>2, <2>1, DominatorScoresHigher, ConsensusScoresHigher
    <3>2. ~Exceeds(FusedScore(b), FusedScore(a))
      BY <1>1, <3>1, FusedScoreType, ExceedsOrder
    <3>3. QED
      BY <3>1, <3>2 DEF Precedes
  <2>2. CASE Dominates(a, b, lists.bm25) /\ Mirrored(a, b)
    <3>1. ~Exceeds(FusedScore(b), FusedScore(a))
      BY <1>1, <2>2, MirroredTie
    <3>2. Place(a) < Place(b)
      BY <1>1, <1>2, <2>2, DominatorPlacedFirst
    <3>3. Place(a) \in Nat /\ Place(b) \in Nat
      BY <1>1, <1>2, PlacesDiffer
    <3>4. QED
      BY <3>1, <3>2, <3>3 DEF Precedes
  <2>3. QED
    BY <2>1, <2>2
<1>4. i # j
  <2>1. ~Dominates(a, a, lists.bm25)
    <3>1. a \in Range(lists.bm25) => RankIn(a, lists.bm25) \in Nat
      BY <1>1, SearchListsType, ResultListRanks
    <3>2. QED
      BY <3>1 DEF Dominates
  <2>2. QED
    BY <2>1
<1>5. i \in Nat /\ j \in Nat
  BY <1>1
<1>6. ~(j < i)
  BY <1>3 DEF RankingInv, FusedInOrder
<1>7. QED
  BY <1>4, <1>5, <1>6

LEMMA SearchStep ==
  ASSUME RankingInv, Search
  PROVE  RankingInv'
<1>1. RankingTypeOK'
  <2>1. candidates' = <<>> /\ scores' = <<>> /\ ranked' = <<>> /\ step' = "found"
        /\ lists' \in [bm25: ResultLists, vector: ResultLists]
    BY DEF Search
  <2>2. <<>> \in Seq(Chunks) /\ DOMAIN <<>> = {} /\ Len(<<>>) = 0 /\ IsInjective(<<>>)
    BY DEF IsInjective
  <2>3. TopN \in Nat
    BY RankingAssumption
  <2>4. scores' \in [DOMAIN scores' -> {ValueError, Unscored} \cup 0 .. 10]
    BY <2>1
  <2>5. QED
    BY <2>1, <2>2, <2>3, <2>4 DEF RankingTypeOK
<1>2. QED
  BY <1>1 DEF Search, RankingInv, ScoresAfterFusion, FusedInOrder, RerankKeepsPlaces

LEMMA FuseStep ==
  ASSUME RankingInv, Fuse
  PROVE  RankingInv'
<1>1. SearchLists /\ step = "found" /\ scores = <<>> /\ TopN \in Nat /\ ranked \in Seq(Chunks)
  BY RankingAssumption DEF RankingInv, RankingTypeOK, ScoresAfterFusion, SearchLists, Fuse
<1>2. PICK stored \in SUBSET Found : candidates' = Top(Sorted(stored, Precedes), TopN)
  BY DEF Fuse
<1> DEFINE s == Sorted(stored, Precedes)
<1>3. /\ s \in Seq(Chunks) /\ IsInjective(s) /\ Range(s) = stored
      /\ \A i, j \in DOMAIN s : i < j => Precedes(s[i], s[j])
  BY <1>1, SortedResults
<1> HIDE DEF s
<1>4. /\ candidates' \in Seq(Chunks) /\ Len(candidates') <= TopN
      /\ DOMAIN candidates' \subseteq DOMAIN s
      /\ \A i \in DOMAIN candidates' : candidates'[i] = s[i]
  BY <1>1, <1>2, <1>3, TopOfList DEF s
<1>5. IsInjective(candidates')
  BY <1>3, <1>4 DEF IsInjective
<1>6. Range(candidates') \subseteq Found
  BY <1>3, <1>4 DEF Range
<1>7. /\ step' = "fused" /\ lists' = lists /\ scores' = scores /\ ranked' = ranked
  BY DEF Fuse
<1>8. RankingTypeOK'
  <2>1. DOMAIN scores = {} /\ scores' \in [DOMAIN scores' -> {ValueError, Unscored} \cup 0 .. 10]
    BY <1>1, <1>7
  <2>2. QED
    BY <1>1, <1>4, <1>5, <1>7, <2>1 DEF RankingTypeOK, SearchLists
<1>9. FusedInOrder'
  <2>1. \A i, j \in DOMAIN candidates' : i < j => Precedes(candidates'[i], candidates'[j])
    BY <1>3, <1>4
  <2>2. QED
    BY <1>6, <1>7, <2>1 DEF FusedInOrder, Precedes, FusedScore, Place, Found
<1>10. QED
  BY <1>7, <1>8, <1>9 DEF RankingInv, ScoresAfterFusion, RerankKeepsPlaces

-----------------------------------------------------------------------------
(* Reranking *)

\* A reply that is a score is in range.
LEMMA ParseScoreType ==
  ASSUME NEW raw \in Replies
  PROVE  ParseScore(raw) \in {ValueError, Unscored} \cup 0 .. 10
  BY DEF ParseScore

LEMMA ScoreStep ==
  ASSUME RankingInv, ScoreOne
  PROVE  RankingInv'
<1>1. /\ UNCHANGED <<step, lists, candidates, ranked>> /\ step = "scoring"
      /\ DOMAIN scores \subseteq DOMAIN candidates
      /\ scores \in [DOMAIN scores -> {ValueError, Unscored} \cup 0 .. 10]
  BY DEF ScoreOne, RankingInv, RankingTypeOK
<1>2. PICK i \in DOMAIN candidates \ DOMAIN scores,
           score \in {Unscored} \cup {ParseScore(raw) : raw \in Replies} :
        scores' = [j \in DOMAIN scores \cup {i} |-> IF j = i THEN score ELSE scores[j]]
  BY DEF ScoreOne
<1>3. score \in {ValueError, Unscored} \cup 0 .. 10
  BY ParseScoreType
<1>4. /\ DOMAIN scores' \subseteq DOMAIN candidates
      /\ scores' \in [DOMAIN scores' -> {ValueError, Unscored} \cup 0 .. 10]
  BY <1>1, <1>2, <1>3
<1>5. RankingTypeOK'
  BY <1>1, <1>4 DEF RankingInv, RankingTypeOK
<1>6. QED
  BY <1>1, <1>5 DEF RankingInv, ScoresAfterFusion, FusedInOrder, RerankKeepsPlaces

\* The order of the scores, and that of the places, as relations.
ScoreOrder == {p \in Scored \X Scored : HasBetterScore(p[1], p[2])}
PlaceOrder == {p \in Scored \X Scored : p[1] < p[2]}

\* Once every score is in, the scored places are numbers with numbers.
LEMMA ScoredPlaces ==
  ASSUME RankingInv
  PROVE  /\ Scored \subseteq 1 .. Len(candidates) /\ Len(candidates) \in Nat
         /\ IsFiniteSet(Scored)
         /\ \A i \in Scored : i \in Int /\ scores[i] \in Int
<1>1. /\ candidates \in Seq(Chunks) /\ Scored \subseteq DOMAIN candidates
      /\ scores \in [DOMAIN scores -> {ValueError, Unscored} \cup 0 .. 10]
  BY DEF RankingInv, RankingTypeOK, Scored
<1>2. Len(candidates) \in Nat /\ DOMAIN candidates = 1 .. Len(candidates)
  BY <1>1
<1>3. IsFiniteSet(Scored)
  <2>1. IsFiniteSet(1 .. Len(candidates))
    BY <1>2, FS_Interval
  <2>2. Scored \in SUBSET (1 .. Len(candidates))
    BY <1>1, <1>2
  <2>3. QED
    BY <2>1, <2>2, FS_Subset
<1>4. \A i \in Scored : scores[i] \in {ValueError, Unscored} \cup 0 .. 10
  BY <1>1 DEF Scored
<1>5. QED
  BY <1>1, <1>2, <1>3, <1>4 DEF ValueError, Unscored

LEMMA ScoreOrders ==
  ASSUME RankingInv
  PROVE  StrictOrder(ScoreOrder, Scored) /\ StrictOrder(PlaceOrder, Scored)
<1>1. \A i \in Scored : i \in Int /\ scores[i] \in Int
  BY ScoredPlaces
<1>2. \A i, j \in Scored : <<i, j>> \in ScoreOrder <=> HasBetterScore(i, j)
  BY DEF ScoreOrder
<1>3. \A i, j \in Scored : <<i, j>> \in PlaceOrder <=> i < j
  BY DEF PlaceOrder
<1>4. StrictOrder(ScoreOrder, Scored)
  BY <1>1, <1>2 DEF StrictOrder, HasBetterScore
<1>5. StrictOrder(PlaceOrder, Scored)
  BY <1>1, <1>3 DEF StrictOrder
<1>6. QED
  BY <1>4, <1>5

\* The scored places by score, and in their own order, each once.
LEMMA SortedScores ==
  ASSUME RankingInv, NEW byScore, byScore = Sorted(Scored, HasBetterScore),
         NEW slots, slots = Sorted(Scored, <)
  PROVE  /\ Cardinality(Scored) \in Nat
         /\ byScore \in [1 .. Cardinality(Scored) -> Scored]
         /\ IsInjective(byScore) /\ Range(byScore) = Scored
         /\ \A i, j \in 1 .. Cardinality(Scored) : i < j => HasBetterScore(byScore[i], byScore[j])
         /\ slots \in [1 .. Cardinality(Scored) -> Scored]
         /\ IsInjective(slots) /\ Range(slots) = Scored
         /\ \A i, j \in 1 .. Cardinality(Scored) : i < j => slots[i] < slots[j]
<1> DEFINE n == Cardinality(Scored)
           better(t) == \A i, j \in DOMAIN t : i < j => HasBetterScore(t[i], t[j])
           less(t) == \A i, j \in DOMAIN t : i < j => t[i] < t[j]
<1>1. \A i, j \in Scored : <<i, j>> \in ScoreOrder <=> HasBetterScore(i, j)
  BY DEF ScoreOrder
<1>2. \A i, j \in Scored : <<i, j>> \in PlaceOrder <=> i < j
  BY DEF PlaceOrder
<1>3. ASSUME NEW t \in [1 .. n -> Scored]
      PROVE  (InOrder(t, Scored, ScoreOrder) <=> better(t)) /\ (InOrder(t, Scored, PlaceOrder) <=> less(t))
  BY <1>1, <1>2 DEF InOrder
<1>4. /\ \E t \in [1 .. n -> Scored] : InOrder(t, Scored, ScoreOrder)
      /\ \E t \in [1 .. n -> Scored] : InOrder(t, Scored, PlaceOrder)
  BY ScoredPlaces, ScoreOrders, SortExists
<1>5. /\ byScore = CHOOSE t \in [1 .. n -> Scored] : better(t)
      /\ slots = CHOOSE t \in [1 .. n -> Scored] : less(t)
  BY DEF Sorted
<1> HIDE DEF better, less
<1>6. byScore \in [1 .. n -> Scored] /\ better(byScore)
  BY <1>3, <1>4, <1>5
<1>7. slots \in [1 .. n -> Scored] /\ less(slots)
  BY <1>3, <1>4, <1>5
<1>8. n \in Nat /\ IsInjective(byScore) /\ Range(byScore) = Scored
  BY <1>3, <1>6, ScoredPlaces, ScoreOrders, InOrderIsBijection
<1>9. IsInjective(slots) /\ Range(slots) = Scored
  BY <1>3, <1>7, ScoredPlaces, ScoreOrders, InOrderIsBijection
<1>10. QED
  BY <1>6, <1>7, <1>8, <1>9 DEF better, less

\* The rank of a member of a list without repetition is its place.
LEMMA RankInInjective ==
  ASSUME NEW s, IsInjective(s), NEW i \in DOMAIN s
  PROVE  RankIn(s[i], s) = i
  BY DEF RankIn, IsInjective

\* The merged list, as the candidates at the places p.
LEMMA MergePermutes ==
  ASSUME RankingInv
  PROVE  \E p \in [DOMAIN candidates -> DOMAIN candidates] :
           /\ Merge = [i \in DOMAIN candidates |-> candidates[p[i]]]
           /\ \A k \in DOMAIN candidates : \E i \in DOMAIN candidates : p[i] = k
           /\ \A i \in DOMAIN candidates \ Scored : p[i] = i
           /\ \A i, j \in Scored : i < j => HasBetterScore(p[i], p[j])
<1> DEFINE byScore == Sorted(Scored, HasBetterScore)
           slots == Sorted(Scored, <)
           n == Cardinality(Scored)
           p == [i \in DOMAIN candidates |-> IF i \in Scored THEN byScore[RankIn(i, slots)] ELSE i]
<1>1. /\ n \in Nat
      /\ byScore \in [1 .. n -> Scored]
      /\ Range(byScore) = Scored
      /\ \A i, j \in 1 .. n : i < j => HasBetterScore(byScore[i], byScore[j])
      /\ slots \in [1 .. n -> Scored]
      /\ IsInjective(slots) /\ Range(slots) = Scored
      /\ \A i, j \in 1 .. n : i < j => slots[i] < slots[j]
  BY SortedScores
<1>2. Merge = [i \in DOMAIN candidates |->
                IF i \in Scored THEN candidates[byScore[RankIn(i, slots)]] ELSE candidates[i]]
  BY DEF Merge
<1> HIDE DEF byScore, slots, n
<1>3. DOMAIN candidates = 1 .. Len(candidates) /\ Scored \subseteq DOMAIN candidates
  BY ScoredPlaces DEF RankingInv, RankingTypeOK
<1>4. \A i \in Scored : RankIn(i, slots) \in 1 .. n /\ slots[RankIn(i, slots)] = i
  <2>1. \A i \in Scored : \E r \in DOMAIN slots : slots[r] = i
    BY <1>1 DEF Range
  <2>2. QED
    BY <1>1, <2>1 DEF RankIn
<1>5. \A i \in Scored : byScore[RankIn(i, slots)] \in Scored
  BY <1>1, <1>4
<1>6. p \in [DOMAIN candidates -> DOMAIN candidates]
  BY <1>3, <1>5
<1>7. \A i \in Scored : p[i] = byScore[RankIn(i, slots)]
  BY <1>3
<1>8. \A i \in DOMAIN candidates \ Scored : p[i] = i
  OBVIOUS
<1>9. Merge = [i \in DOMAIN candidates |-> candidates[p[i]]]
  BY <1>2
<1> HIDE DEF p
<1>10. ASSUME NEW k \in DOMAIN candidates PROVE \E i \in DOMAIN candidates : p[i] = k
  <2>1. CASE k \notin Scored
    BY <1>8, <2>1
  <2>2. CASE k \in Scored
    <3>1. PICK m \in 1 .. n : byScore[m] = k
      BY <1>1, <2>2 DEF Range
    <3>2. slots[m] \in Scored /\ RankIn(slots[m], slots) = m
      BY <1>1, RankInInjective
    <3>3. p[slots[m]] = k /\ slots[m] \in DOMAIN candidates
      BY <1>3, <1>7, <3>1, <3>2
    <3>4. QED
      BY <3>3
  <2>3. QED
    BY <2>1, <2>2
<1>11. ASSUME NEW i \in Scored, NEW j \in Scored, i < j
       PROVE  HasBetterScore(p[i], p[j])
  <2> DEFINE r == RankIn(i, slots)
             q == RankIn(j, slots)
  <2>1. r \in 1 .. n /\ q \in 1 .. n /\ slots[r] = i /\ slots[q] = j
    BY <1>4
  <2>2. i \in Int /\ j \in Int
    BY ScoredPlaces
  <2> HIDE DEF r, q
  <2>3. ~(q < r) /\ q # r
    BY <1>1, <1>11, <2>1, <2>2
  <2>4. r < q
    BY <1>1, <2>1, <2>3
  <2>5. HasBetterScore(byScore[r], byScore[q])
    BY <1>1, <2>1, <2>4
  <2>6. QED
    BY <1>7, <2>5 DEF r, q
<1>12. QED
  BY <1>6, <1>8, <1>9, <1>10, <1>11

\* The merged list is what it should be.
LEMMA MergeKeepsPlaces ==
  ASSUME RankingInv
  PROVE  /\ Merge \in Seq(Chunks)
         /\ Range(Merge) = Range(candidates) /\ Len(Merge) = Len(candidates)
         /\ \A i \in DOMAIN Merge : i \notin Scored => RankIn(Merge[i], candidates) = i
         /\ Scored \subseteq DOMAIN Merge
         /\ \A i, j \in Scored :
              i < j => HasBetterScore(RankIn(Merge[i], candidates), RankIn(Merge[j], candidates))
<1> DEFINE from(i) == RankIn(Merge[i], candidates)
<1>1. PICK p \in [DOMAIN candidates -> DOMAIN candidates] :
           /\ Merge = [i \in DOMAIN candidates |-> candidates[p[i]]]
           /\ \A k \in DOMAIN candidates : \E i \in DOMAIN candidates : p[i] = k
           /\ \A i \in DOMAIN candidates \ Scored : p[i] = i
           /\ \A i, j \in Scored : i < j => HasBetterScore(p[i], p[j])
  BY MergePermutes
<1>2. candidates \in Seq(Chunks) /\ IsInjective(candidates) /\ Scored \subseteq DOMAIN candidates
  BY DEF RankingInv, RankingTypeOK, Scored
<1>3. DOMAIN candidates = 1 .. Len(candidates) /\ Len(candidates) \in Nat
  BY <1>2
<1> HIDE DEF Merge
<1>4. DOMAIN Merge = 1 .. Len(candidates) /\ \A i \in DOMAIN Merge : Merge[i] = candidates[p[i]]
  BY <1>1, <1>3
<1>5. \A i \in 1 .. Len(candidates) : candidates[p[i]] \in Chunks
  BY <1>1, <1>2, <1>3
<1>6. Merge \in [1 .. Len(candidates) -> Chunks]
  BY <1>1, <1>3, <1>5
<1>7. Merge \in Seq(Chunks) /\ Len(Merge) = Len(candidates)
  BY <1>3, <1>6
<1>8. Range(Merge) = Range(candidates)
  BY <1>1, <1>3, <1>4 DEF Range
<1>9. \A i \in DOMAIN Merge : from(i) = p[i]
  BY <1>1, <1>2, <1>3, <1>4, RankInInjective
<1> HIDE DEF from
<1>10. \A i \in DOMAIN Merge : i \notin Scored => from(i) = i
  BY <1>1, <1>3, <1>4, <1>9
<1>11. ASSUME NEW i \in Scored, NEW j \in Scored, i < j
       PROVE  HasBetterScore(from(i), from(j))
  <2>1. from(i) = p[i] /\ from(j) = p[j]
    BY <1>2, <1>3, <1>4, <1>9
  <2>2. QED
    BY <1>1, <1>11, <2>1
<1>12. Scored \subseteq DOMAIN Merge
  BY <1>2, <1>3, <1>4
<1>13. QED
  BY <1>7, <1>8, <1>10, <1>11, <1>12 DEF from

LEMMA EndStep ==
  ASSUME RankingInv, EndRerank
  PROVE  RankingInv'
<1>1. UNCHANGED <<lists, candidates, scores>> /\ step = "scoring"
  BY DEF EndRerank
<1>2. CASE step' = "failed" /\ UNCHANGED ranked
  BY <1>1, <1>2 DEF RankingInv, RankingTypeOK, ScoresAfterFusion, FusedInOrder, RerankKeepsPlaces
<1>3. CASE step' = "ranked" /\ ranked' = Merge
  <2>1. Merge \in Seq(Chunks)
    BY MergeKeepsPlaces
  <2>2. RankingTypeOK'
    BY <1>1, <1>3, <2>1 DEF RankingInv, RankingTypeOK
  <2>3. Scored' = Scored
    BY <1>1 DEF Scored
  <2> HIDE DEF Merge
  <2>4. RerankKeepsPlaces'
    BY <1>1, <1>3, <2>3, MergeKeepsPlaces DEF RerankKeepsPlaces, HasBetterScore
  <2>5. QED
    BY <1>1, <1>3, <2>2, <2>4 DEF RankingInv, ScoresAfterFusion, FusedInOrder
<1>4. QED
  BY <1>2, <1>3 DEF EndRerank

\* A query starts with nothing.
LEMMA InitRankingInv == RankingInit => RankingInv
<1> SUFFICES ASSUME RankingInit PROVE RankingInv
  OBVIOUS
<1>v. step = "idle" /\ lists = NoLists /\ candidates = <<>> /\ scores = <<>> /\ ranked = <<>>
  BY DEF RankingInit
<1>1. <<>> \in ResultLists
  <2>1. 0 \in 0 .. KEach /\ <<>> \in [1 .. 0 -> Chunks] /\ IsInjective(<<>>)
    BY RankingAssumption DEF IsInjective
  <2>2. QED
    BY <2>1 DEF ResultLists
<1>2. <<>> \in Seq(Chunks) /\ DOMAIN <<>> = {} /\ Len(<<>>) = 0 /\ IsInjective(<<>>)
  BY DEF IsInjective
<1>3. TopN \in Nat
  BY RankingAssumption
<1>4. RankingTypeOK
  <2>1. lists \in [bm25: ResultLists, vector: ResultLists]
    BY <1>v, <1>1 DEF NoLists
  <2>2. scores \in [DOMAIN scores -> {ValueError, Unscored} \cup 0 .. 10]
    BY <1>v
  <2>3. QED
    BY <1>v, <1>2, <1>3, <2>1, <2>2 DEF RankingTypeOK
<1>5. QED
  BY <1>v, <1>4 DEF RankingInv, ScoresAfterFusion, FusedInOrder, RerankKeepsPlaces

\* Every step of a query keeps the invariant.
LEMMA StepRankingInv ==
  ASSUME RankingInv, RankingNext \/ UNCHANGED rankingVars
  PROVE  RankingInv'
<1>1. CASE BeginRerank
  <2>1. NoLists \in [bm25: ResultLists, vector: ResultLists]
    <3>1. 0 \in 0 .. KEach /\ <<>> \in [1 .. 0 -> Chunks] /\ IsInjective(<<>>)
      BY RankingAssumption DEF IsInjective
    <3>2. QED
      BY <3>1 DEF ResultLists, NoLists
  <2>2. QED
    BY <1>1, <2>1 DEF BeginRerank, RankingInv, RankingTypeOK, ScoresAfterFusion, FusedInOrder,
                      RerankKeepsPlaces
<1>2. CASE UNCHANGED rankingVars
  <2>1. UNCHANGED <<step, lists, candidates, scores, ranked>>
    BY <1>2 DEF rankingVars
  <2>2. RankingTypeOK' /\ ScoresAfterFusion'
    BY <2>1 DEF RankingInv, RankingTypeOK, ScoresAfterFusion
  <2>3. FusedInOrder'
    BY <2>1 DEF RankingInv, FusedInOrder, Found, Precedes, FusedScore, Place
  <2>4. RerankKeepsPlaces'
    BY <2>1 DEF RankingInv, RerankKeepsPlaces, Scored
  <2>5. QED
    BY <2>2, <2>3, <2>4 DEF RankingInv
<1>3. QED
  BY <1>1, <1>2, SearchStep, FuseStep, ScoreStep, EndStep DEF RankingNext

-----------------------------------------------------------------------------
(* The metrics *)

\* The places of the relevant chunks.
RelevantAt(list, relevant) == {i \in DOMAIN list : DocOf[list[i]] \in relevant}

\* On one list: a hit, a relevant chunk, a relevant document and a first rank
\* of at most k are the same event, and no quotient exceeds one.
LEMMA MetricsOfList ==
  ASSUME NEW list \in Seq(Chunks), NEW relevant \in SUBSET Range(DocOf), NEW k \in 1 .. TopN
  PROVE  /\ Hit(list, relevant, k) <=> FirstRelevant(list, relevant) \in 1 .. k
         /\ Hit(list, relevant, k) <=> RelevantChunks(list, relevant, k) > 0
         /\ Hit(list, relevant, k) <=> RelevantDocs(list, relevant, k) > 0
         /\ RelevantChunks(list, relevant, k) <= k
         /\ RelevantDocs(list, relevant, k) <= Cardinality(relevant)
<1> DEFINE top == Top(list, k)
           m == Len(top)
           at == {i \in DOMAIN top : DocOf[list[i]] \in relevant}
           docs == {DocOf[id] : id \in Range(top)} \cap relevant
<1>1. k \in Nat /\ k >= 1 /\ Len(list) \in Nat
  BY RankingAssumption
<1>2. /\ m \in Nat /\ m <= k /\ m <= Len(list)
      /\ DOMAIN top = 1 .. m /\ DOMAIN list = 1 .. Len(list)
      /\ \A i \in 1 .. m : top[i] = list[i]
      /\ m = IF k <= Len(list) THEN k ELSE Len(list)
  <2>1. /\ m = IF k <= Len(list) THEN k ELSE Len(list)
        /\ DOMAIN top = 1 .. m
        /\ \A i \in DOMAIN top : top[i] = list[i]
    BY <1>1, TopOfList
  <2> HIDE DEF top
  <2>2. QED
    BY <1>1, <2>1
<1> HIDE DEF m, top
<1>m. m \in Nat /\ m <= k
  BY <1>2
<1>d. DOMAIN top = 1 .. m
  BY <1>2
<1>3. Hit(list, relevant, k) <=> docs # {}
  BY DEF Hit, top
<1>4. docs # {} <=> at # {}
  <2>1. ASSUME docs # {} PROVE at # {}
    <3>1. PICK id \in Range(top) : DocOf[id] \in relevant
      BY <2>1
    <3>2. PICK i \in DOMAIN top : top[i] = id
      BY DEF Range
    <3>3. i \in at
      BY <1>2, <3>1, <3>2
    <3>4. QED
      BY <3>3
  <2>2. ASSUME at # {} PROVE docs # {}
    <3>1. PICK i \in DOMAIN top : DocOf[list[i]] \in relevant
      BY <2>2
    <3>2. list[i] \in Range(top) /\ DocOf[list[i]] \in docs
      BY <1>2, <3>1 DEF Range
    <3>3. QED
      BY <3>2
  <2>3. QED
    BY <2>1, <2>2
<1>5. IsFiniteSet(at) /\ Cardinality(at) \in Nat /\ Cardinality(at) <= m
  <2>1. IsFiniteSet(1 .. m) /\ Cardinality(1 .. m) = m
    BY <1>2, IntervalCardinality
  <2>2. at \in SUBSET (1 .. m)
    BY <1>2
  <2> HIDE DEF at
  <2>3. QED
    BY <2>1, <2>2, FS_Subset, FS_CardinalityType
<1>6. IsFiniteSet(relevant)
  <2>1. DocOf \in Surjection(Chunks, Range(DocOf))
    BY RankingAssumption DEF Surjection, Range
  <2>2. IsFiniteSet(Range(DocOf))
    BY <2>1, RankingAssumption, FS_Surjection
  <2>3. QED
    BY <2>2, FS_Subset
<1>7. IsFiniteSet(docs) /\ Cardinality(docs) \in Nat /\ Cardinality(docs) <= Cardinality(relevant)
  <2>1. docs \in SUBSET relevant
    OBVIOUS
  <2> HIDE DEF docs
  <2>2. QED
    BY <1>6, <2>1, FS_Subset, FS_CardinalityType
<1>8. RelevantChunks(list, relevant, k) = Cardinality(at)
  BY DEF RelevantChunks, top
<1>9. RelevantDocs(list, relevant, k) = Cardinality(docs)
  BY DEF RelevantDocs, top
<1>10. FirstRelevant(list, relevant) \in 1 .. k <=> at # {}
  <2> DEFINE hits == RelevantAt(list, relevant)
  <2>1. FirstRelevant(list, relevant) = IF hits = {} THEN 0 ELSE Min(hits)
    BY DEF FirstRelevant, RelevantAt
  <2>2. hits \subseteq 1 .. Len(list) /\ at = {i \in hits : i <= k}
    <3>1. hits \subseteq 1 .. Len(list)
      BY <1>2 DEF RelevantAt
    <3>2. \A i \in Nat : i \in 1 .. m <=> i \in 1 .. Len(list) /\ i <= k
      <4>1. m = IF k <= Len(list) THEN k ELSE Len(list)
        BY <1>2
      <4> HIDE DEF hits, at
      <4>2. QED
        BY <1>1, <4>1
    <3>3. \A i \in Nat : i \in at <=> i \in hits /\ i <= k
      BY <1>2, <3>2 DEF RelevantAt
    <3>4. at \subseteq Nat
      BY <1>m, <1>d
    <3>5. hits \subseteq Nat
      BY <3>1
    <3> HIDE DEF hits, at
    <3>6. at = {i \in hits : i <= k}
      BY <3>3, <3>4, <3>5
    <3>7. QED
      BY <3>1, <3>6
  <2>3. hits \subseteq Nat
    BY <2>2
  <2> HIDE DEF hits, at
  <2>4. CASE hits = {}
    BY <2>1, <2>2, <2>4
  <2>5. CASE hits # {}
    <3>1. Min(hits) \in hits /\ \A i \in hits : Min(hits) <= i
      BY <2>3, <2>5, MinOfNaturals
    <3>2. Min(hits) \in 1 .. Len(list) /\ FirstRelevant(list, relevant) = Min(hits)
      BY <2>1, <2>2, <2>5, <3>1
    <3>3. Min(hits) <= k <=> at # {}
      <4>1. ASSUME Min(hits) <= k PROVE at # {}
        BY <2>2, <3>1, <4>1
      <4>2. ASSUME at # {} PROVE Min(hits) <= k
        <5>1. PICK i \in at : TRUE
          BY <4>2
        <5>2. i \in hits /\ i <= k /\ Min(hits) <= i /\ i \in Nat
          BY <2>2, <2>3, <3>1
        <5>3. QED
          BY <1>1, <3>2, <5>2
      <4>3. QED
        BY <4>1, <4>2
    <3>4. QED
      BY <1>1, <3>2, <3>3
  <2>6. QED
    BY <2>4, <2>5
<1> HIDE DEF at, docs
<1>11. (Cardinality(at) > 0 <=> at # {}) /\ (Cardinality(docs) > 0 <=> docs # {})
  <2>1. (Cardinality(at) = 0 <=> at = {}) /\ (Cardinality(docs) = 0 <=> docs = {})
    BY <1>5, <1>7, FS_EmptySet
  <2>2. QED
    BY <1>5, <1>7, <2>1
<1>12. Cardinality(at) <= k
  BY <1>1, <1>m, <1>5
<1>13. RelevantChunks(list, relevant, k) <= k
  BY <1>8, <1>12
<1>14. RelevantDocs(list, relevant, k) <= Cardinality(relevant)
  BY <1>7, <1>9
<1>15. /\ Hit(list, relevant, k) <=> RelevantChunks(list, relevant, k) > 0
       /\ Hit(list, relevant, k) <=> RelevantDocs(list, relevant, k) > 0
  BY <1>3, <1>4, <1>8, <1>9, <1>11
<1>16. Hit(list, relevant, k) <=> FirstRelevant(list, relevant) \in 1 .. k
  BY <1>3, <1>4, <1>10
<1>17. QED
  BY <1>13, <1>14, <1>15, <1>16

\* Lists of the same chunks have as many relevant ones.
LEMMA SameRelevant ==
  ASSUME NEW s \in Seq(Chunks), IsInjective(s), NEW relevant
  PROVE  /\ IsFiniteSet(RelevantAt(s, relevant))
         /\ Cardinality(RelevantAt(s, relevant))
              = Cardinality({id \in Range(s) : DocOf[id] \in relevant})
<1> DEFINE at == RelevantAt(s, relevant)
           found == {id \in Range(s) : DocOf[id] \in relevant}
           f == [i \in at |-> s[i]]
<1>1. Len(s) \in Nat /\ DOMAIN s = 1 .. Len(s)
  OBVIOUS
<1>2. IsFiniteSet(at)
  <2>1. at \in SUBSET (1 .. Len(s))
    BY <1>1 DEF RelevantAt
  <2>2. IsFiniteSet(1 .. Len(s))
    BY <1>1, FS_Interval
  <2>3. QED
    BY <2>1, <2>2, FS_Subset
<1>3. \A i \in at : i \in DOMAIN s /\ s[i] \in found
  BY DEF RelevantAt, Range
<1>4. \A id \in found : \E i \in at : s[i] = id
  BY DEF RelevantAt, Range
<1> HIDE DEF at, found
<1>5. f \in [at -> found]
  BY <1>3
<1>6. f \in Injection(at, found)
  <2>1. \A i, j \in DOMAIN f : f[i] = f[j] => i = j
    BY <1>3 DEF IsInjective
  <2>2. IsInjective(f)
    BY <2>1, Zenon DEF IsInjective
  <2>3. QED
    BY <1>5, <2>2 DEF Injection
<1>7. f \in Surjection(at, found)
  BY <1>4, <1>5 DEF Surjection
<1>8. ExistsBijection(at, found)
  BY <1>6, <1>7 DEF ExistsBijection, Bijection
<1>9. QED
  BY <1>2, <1>8, FS_Bijection DEF at, found

\* The reranked list has its chunks once.
LEMMA RankedInjective ==
  ASSUME RankingInv, step = "ranked"
  PROVE  /\ ranked \in Seq(Chunks) /\ IsInjective(ranked)
         /\ Range(ranked) = Range(candidates) /\ Len(ranked) = Len(candidates)
<1>1. /\ ranked \in Seq(Chunks) /\ candidates \in Seq(Chunks) /\ IsInjective(candidates)
      /\ Range(ranked) = Range(candidates) /\ Len(ranked) = Len(candidates)
  BY DEF RankingInv, RankingTypeOK, RerankKeepsPlaces
<1> DEFINE n == Len(candidates)
<1>2. n \in Nat /\ DOMAIN ranked = 1 .. n /\ DOMAIN candidates = 1 .. n
  BY <1>1
<1>3. IsFiniteSet(1 .. n) /\ Cardinality(1 .. n) = n
  BY <1>2, IntervalCardinality
<1>4. candidates \in Bijection(1 .. n, Range(candidates))
  <2>1. candidates \in [1 .. n -> Range(candidates)]
    BY <1>1, <1>2 DEF Range
  <2>2. candidates \in Surjection(1 .. n, Range(candidates))
    BY <1>2, <2>1 DEF Surjection, Range
  <2>3. QED
    BY <1>1, <2>1, <2>2 DEF Bijection, Injection
<1>5. Cardinality(Range(candidates)) = n /\ IsFiniteSet(Range(candidates))
  BY <1>3, <1>4, FS_Bijection DEF ExistsBijection
<1>6. ranked \in Surjection(1 .. n, Range(candidates))
  <2>1. ranked \in [1 .. n -> Range(ranked)]
    BY <1>1, <1>2 DEF Range
  <2>2. QED
    BY <1>1, <1>2, <2>1 DEF Surjection, Range
<1>7. ranked \in Injection(1 .. n, Range(candidates))
  BY <1>3, <1>5, <1>6, FS_SurjSameCardinalityImpliesInj
<1>8. QED
  BY <1>1, <1>7 DEF Injection

\* The metrics agree on what was retrieved and on what was reranked.
LEMMA MetricsAgreeInv ==
  ASSUME RankingInv
  PROVE  MetricsAgree
<1> SUFFICES ASSUME step = "ranked", NEW relevant \in SUBSET Range(DocOf) \ {{}},
                    NEW k \in 1 .. TopN, NEW list \in {candidates, ranked}
             PROVE  /\ Hit(list, relevant, k) <=> FirstRelevant(list, relevant) \in 1 .. k
                    /\ Hit(list, relevant, k) <=> RelevantChunks(list, relevant, k) > 0
                    /\ Hit(list, relevant, k) <=> RelevantDocs(list, relevant, k) > 0
                    /\ RelevantChunks(list, relevant, k) <= k
                    /\ RelevantDocs(list, relevant, k) <= Cardinality(relevant)
                    /\ k >= Len(list) =>
                         RelevantChunks(list, relevant, k) = RelevantChunks(ranked, relevant, k)
                    /\ k >= Len(list) =>
                         RelevantDocs(list, relevant, k) = RelevantDocs(ranked, relevant, k)
  BY DEF MetricsAgree
<1>1. /\ ranked \in Seq(Chunks) /\ IsInjective(ranked)
      /\ Range(ranked) = Range(candidates) /\ Len(ranked) = Len(candidates)
  BY RankedInjective
<1>2. candidates \in Seq(Chunks) /\ IsInjective(candidates)
  BY DEF RankingInv, RankingTypeOK
<1>3. /\ list \in Seq(Chunks) /\ IsInjective(list)
      /\ Range(list) = Range(ranked) /\ Len(list) = Len(ranked)
  BY <1>1, <1>2
<1>4. relevant \in SUBSET Range(DocOf) /\ k \in Nat
  BY RankingAssumption
<1>5. ASSUME k >= Len(list)
      PROVE  /\ RelevantChunks(list, relevant, k) = RelevantChunks(ranked, relevant, k)
             /\ RelevantDocs(list, relevant, k) = RelevantDocs(ranked, relevant, k)
  <2>1. Top(list, k) = list /\ Top(ranked, k) = ranked
    BY <1>1, <1>3, <1>4, <1>5, TopOfList
  <2>2. RelevantChunks(list, relevant, k) = RelevantChunks(ranked, relevant, k)
    <3>1. /\ RelevantChunks(list, relevant, k) = Cardinality(RelevantAt(list, relevant))
          /\ RelevantChunks(ranked, relevant, k) = Cardinality(RelevantAt(ranked, relevant))
      BY <2>1 DEF RelevantChunks, RelevantAt
    <3>2. QED
      BY <3>1, <1>1, <1>3, SameRelevant
  <2>3. RelevantDocs(list, relevant, k) = RelevantDocs(ranked, relevant, k)
    BY <2>1, <1>3 DEF RelevantDocs
  <2>4. QED
    BY <2>2, <2>3
<1>6. QED
  BY <1>3, <1>4, <1>5, MetricsOfList

-----------------------------------------------------------------------------
(* The invariant of a run *)

Working == {"building", "ingesting", "evaluating"}

\* What the run opened and closes.
RunTypeOK ==
  /\ phase \in Working \cup {"closing reranker", "closing", "ended"}
  /\ built \in 0 .. Len(BuildSteps)
  /\ opened \in Seq(Closers)
  /\ closing \in Seq(Range(opened))
  /\ unclosed \subseteq Range(opened) \cup {"Reranker"}
  /\ live \subseteq Closers

\* What the teardown accounts for, besides the closers it has still to run.
Excused == unclosed \cup ({"Eval collection"} \ Range(opened))

\* Until the teardown only what was opened exists; from there on a closer is
\* still to be run, or has raised, for everything that exists.
TeardownInv ==
  /\ phase \in Working => live \subseteq Range(opened) /\ closing = <<>> /\ unclosed = {}
  /\ phase = "closing reranker" => unclosed = {}
  /\ phase \in {"closing reranker", "closing"} => live \subseteq Range(closing) \cup Excused
  /\ phase = "ended" /\ "Reranker" \notin unclosed => live \subseteq Excused

RunInv == RunTypeOK /\ TeardownInv

EvalInv == ChunkerInv /\ RankingInv /\ RunInv

LEMMA RangeOfAppend ==
  ASSUME NEW S, NEW s \in Seq(S), NEW x \in S
  PROVE  Append(s, x) \in Seq(S) /\ Range(Append(s, x)) = Range(s) \cup {x}
<1>1. Len(s) \in Nat /\ DOMAIN s = 1 .. Len(s)
  OBVIOUS
<1>2. /\ Append(s, x) \in Seq(S)
      /\ DOMAIN Append(s, x) = 1 .. Len(s) + 1
      /\ \A i \in 1 .. Len(s) : Append(s, x)[i] = s[i]
      /\ Append(s, x)[Len(s) + 1] = x
  BY AppendProperties
<1>3. 1 .. Len(s) + 1 = 1 .. Len(s) \cup {Len(s) + 1}
  BY <1>1
<1>4. Range(Append(s, x)) \subseteq Range(s) \cup {x}
  BY <1>1, <1>2, <1>3 DEF Range
<1>5. Range(s) \subseteq Range(Append(s, x))
  BY <1>1, <1>2, <1>3 DEF Range
<1>6. x \in Range(Append(s, x))
  BY <1>1, <1>2, <1>3 DEF Range
<1>7. QED
  BY <1>2, <1>4, <1>5, <1>6

LEMMA RangeOfTail ==
  ASSUME NEW S, NEW s \in Seq(S), s # <<>>
  PROVE  /\ Tail(s) \in Seq(S) /\ Head(s) \in S
         /\ Range(s) = {Head(s)} \cup Range(Tail(s))
<1>1. /\ Len(s) \in Nat /\ Len(s) >= 1 /\ DOMAIN s = 1 .. Len(s) /\ Head(s) = s[1]
      /\ Tail(s) \in Seq(S) /\ Len(Tail(s)) = Len(s) - 1 /\ Head(s) \in S
      /\ \A i \in 1 .. Len(Tail(s)) : Tail(s)[i] = s[i + 1]
  OBVIOUS
<1>2. DOMAIN Tail(s) = 1 .. Len(s) - 1
  BY <1>1
<1>3. \A i \in 1 .. Len(s) : i = 1 \/ (i - 1 \in 1 .. Len(s) - 1 /\ (i - 1) + 1 = i)
  BY <1>1
<1>4. \A i \in 1 .. Len(s) - 1 : i + 1 \in 1 .. Len(s)
  BY <1>1
<1>5. Range(s) \subseteq {Head(s)} \cup Range(Tail(s))
  <2> SUFFICES ASSUME NEW i \in 1 .. Len(s), i # 1 PROVE s[i] \in Range(Tail(s))
    BY <1>1 DEF Range
  <2>1. i - 1 \in DOMAIN Tail(s) /\ Tail(s)[i - 1] = s[i]
    BY <1>1, <1>2, <1>3
  <2>2. QED
    BY <2>1, Zenon DEF Range
<1>6. Head(s) \in Range(s)
  <2>1. 1 \in DOMAIN s /\ Head(s) = s[1]
    BY <1>1
  <2>2. QED
    BY <2>1, Zenon DEF Range
<1>7. Range(Tail(s)) \subseteq Range(s)
  <2> SUFFICES ASSUME NEW i \in 1 .. Len(s) - 1 PROVE Tail(s)[i] \in Range(s)
    BY <1>2 DEF Range
  <2>1. i + 1 \in DOMAIN s /\ Tail(s)[i] = s[i + 1]
    BY <1>1, <1>4
  <2>2. QED
    BY <2>1, Zenon DEF Range
<1>8. QED
  BY <1>1, <1>5, <1>6, <1>7

LEMMA RangeOfReverse ==
  ASSUME NEW S, NEW s \in Seq(S)
  PROVE  Reverse(s) \in Seq(Range(s)) /\ Range(Reverse(s)) = Range(s)
<1>1. Len(s) \in Nat /\ DOMAIN s = 1 .. Len(s)
  OBVIOUS
<1>2. \A i \in 1 .. Len(s) : (Len(s) - i) + 1 \in 1 .. Len(s) /\ (Len(s) - ((Len(s) - i) + 1)) + 1 = i
  BY <1>1
<1>3. Reverse(s) = [i \in 1 .. Len(s) |-> s[(Len(s) - i) + 1]]
  BY DEF Reverse
<1>4. Reverse(s) \in [1 .. Len(s) -> Range(s)]
  BY <1>1, <1>2, <1>3 DEF Range
<1>5. Reverse(s) \in Seq(Range(s))
  BY <1>1, <1>4
<1>6. Range(s) \subseteq Range(Reverse(s))
  <2> SUFFICES ASSUME NEW i \in 1 .. Len(s) PROVE s[i] \in Range(Reverse(s))
    BY <1>1 DEF Range
  <2> DEFINE j == (Len(s) - i) + 1
  <2>1. j \in 1 .. Len(s) /\ (Len(s) - j) + 1 = i
    BY <1>2
  <2> HIDE DEF j
  <2>2. j \in DOMAIN Reverse(s) /\ Reverse(s)[j] = s[i]
    BY <1>3, <2>1
  <2>3. QED
    BY <2>2 DEF Range
<1>7. QED
  BY <1>4, <1>5, <1>6 DEF Range

LEMMA BuildStep ==
  ASSUME RunInv, Build
  PROVE  RunInv'
<1>1. /\ phase = "building" /\ built < Len(BuildSteps) /\ built' = built + 1
      /\ UNCHANGED <<phase, closing, unclosed>>
      /\ opened \in Seq(Closers) /\ built \in 0 .. Len(BuildSteps)
      /\ live \subseteq Range(opened) /\ closing = <<>> /\ unclosed = {} /\ live \subseteq Closers
  BY DEF Build, RunInv, RunTypeOK, TeardownInv, Working
<1>2. /\ opened' = IF NextStep \in Closers THEN Append(opened, NextStep) ELSE opened
      /\ live' = live \cup ({NextStep} \cap Closers)
  BY DEF Build
<1>3. /\ opened' \in Seq(Closers)
      /\ Range(opened') = Range(opened) \cup ({NextStep} \cap Closers)
  BY <1>1, <1>2, RangeOfAppend
<1>4. built' \in 0 .. Len(BuildSteps)
  BY <1>1 DEF BuildSteps
<1>5. closing' \in Seq(Range(opened'))
  BY <1>1
<1>6. RunTypeOK'
  BY <1>1, <1>2, <1>3, <1>4, <1>5 DEF RunTypeOK, Working
<1>7. TeardownInv'
  BY <1>1, <1>2, <1>3 DEF TeardownInv, Working
<1>8. QED
  BY <1>6, <1>7 DEF RunInv

LEMMA LeaveStep ==
  ASSUME RunInv, Leave
  PROVE  RunInv'
<1>1. /\ phase \in Working /\ phase' \in {"closing", "closing reranker"}
      /\ closing' = Reverse(opened) /\ UNCHANGED <<built, opened, unclosed>>
      /\ live' = live \/ live' = live \cup {"Eval collection"}
  BY DEF Leave, Teardown, Working
<1>2. /\ opened \in Seq(Closers) /\ built \in 0 .. Len(BuildSteps)
      /\ live \subseteq Range(opened) /\ unclosed = {} /\ live \subseteq Closers
  BY <1>1 DEF RunInv, RunTypeOK, TeardownInv
<1>3. Reverse(opened) \in Seq(Range(opened)) /\ Range(Reverse(opened)) = Range(opened)
  BY <1>2, RangeOfReverse
<1>4. live' \subseteq Closers
  BY <1>1, <1>2 DEF Closers
<1>5. live' \subseteq Range(closing') \cup ({"Eval collection"} \ Range(opened))
  BY <1>1, <1>2, <1>3
<1>6. RunTypeOK'
  BY <1>1, <1>2, <1>3, <1>4 DEF RunTypeOK, Working
<1>7. TeardownInv'
  BY <1>1, <1>2, <1>5 DEF TeardownInv, Excused, Working
<1>8. QED
  BY <1>6, <1>7 DEF RunInv

LEMMA CloseStep ==
  ASSUME RunInv, CloseNext
  PROVE  RunInv'
<1>1. /\ phase = "closing" /\ closing # <<>> /\ UNCHANGED <<phase, built, opened>>
      /\ closing' = Tail(closing)
      /\ \/ live' = live \ {Head(closing)} /\ unclosed' = unclosed
         \/ live' = live /\ unclosed' = unclosed \cup {Head(closing)}
  BY DEF CloseNext, RestAfterFailure
<1>2. /\ opened \in Seq(Closers) /\ built \in 0 .. Len(BuildSteps)
      /\ closing \in Seq(Range(opened)) /\ live \subseteq Closers
      /\ unclosed \subseteq Range(opened) \cup {"Reranker"}
      /\ live \subseteq Range(closing) \cup unclosed \cup ({"Eval collection"} \ Range(opened))
  BY <1>1 DEF RunInv, RunTypeOK, TeardownInv, Excused
<1>3. /\ Tail(closing) \in Seq(Range(opened)) /\ Head(closing) \in Range(opened)
      /\ Range(closing) = {Head(closing)} \cup Range(Tail(closing))
  BY <1>1, <1>2, RangeOfTail
<1>4. live' \subseteq Range(closing') \cup unclosed' \cup ({"Eval collection"} \ Range(opened))
  BY <1>1, <1>2, <1>3
<1>5. RunTypeOK'
  BY <1>1, <1>2, <1>3 DEF RunTypeOK, Working
<1>6. TeardownInv'
  BY <1>1, <1>4 DEF TeardownInv, Excused, Working
<1>7. QED
  BY <1>5, <1>6 DEF RunInv

LEMMA RestOfRunStep ==
  ASSUME RunInv,
         \/ UNCHANGED runVars \/ Built \/ CloseReranker \/ End
         \/ phase \in Working /\ phase' \in Working /\ UNCHANGED <<built, opened, closing, unclosed, live>>
  PROVE  RunInv'
<1>1. CASE UNCHANGED runVars
  BY <1>1 DEF runVars, RunInv, RunTypeOK, TeardownInv, Excused
<1>2. CASE phase \in Working /\ phase' \in Working /\ UNCHANGED <<built, opened, closing, unclosed, live>>
  BY <1>2 DEF RunInv, RunTypeOK, TeardownInv, Excused, Working
<1>3. CASE Built
  BY <1>3 DEF Built, RunInv, RunTypeOK, TeardownInv, Excused, Working
<1>4. CASE CloseReranker
  BY <1>4 DEF CloseReranker, RunInv, RunTypeOK, TeardownInv, Excused, Working
<1>5. CASE End
  <2>1. closing = <<>> => Range(closing) = {}
    BY DEF Range
  <2>2. QED
    BY <1>5, <2>1 DEF End, RunInv, RunTypeOK, TeardownInv, Excused, Working
<1>6. QED
  BY <1>1, <1>2, <1>3, <1>4, <1>5

\* Every step of the run keeps the invariant of its text.
LEMMA TextStep ==
  ASSUME ChunkerInv, EvalNext \/ UNCHANGED evalVars
  PROVE  ChunkerInv'
<1>1. CASE UNCHANGED chunkerVars
  BY <1>1, StepChunkerInv
<1>2. CASE ChunkSample
  <2>1. ChunkerNext
    BY <1>2 DEF ChunkSample, ChunkerNext
  <2>2. QED
    BY <2>1, StepChunkerInv
<1>3. CASE Leave \/ SampleStored
  <2>1. open \in Nat
    BY DEF ChunkerInv, ChunkerTypeOK
  <2>2. /\ packing' = FALSE /\ sentences' = <<>> /\ window' = WindowAt(1) /\ drafts' = <<>>
        /\ open' = 0 \/ open' = open
    BY <1>3 DEF Leave, SampleStored
  <2>t. NoText'
    BY <2>1, <2>2 DEF NoText
  <2>3. NoText' => ChunkerInv'
    BY NoTextInv, PTL
  <2>4. QED
    BY <2>t, <2>3
<1>4. QED
  BY <1>1, <1>2, <1>3
     DEF EvalNext, evalVars, Build, Built, Evaluate, CloseReranker, CloseNext, End

\* And that of its query.
LEMMA QueryStep ==
  ASSUME RankingInv, EvalNext \/ UNCHANGED evalVars
  PROVE  RankingInv'
<1>1. CASE UNCHANGED rankingVars
  BY <1>1, StepRankingInv
<1>2. CASE Evaluate
  BY <1>2, StepRankingInv DEF Evaluate
<1>3. CASE Leave
  <2>1. RankingInit'
    BY <1>3 DEF Leave, RankingInit, NoLists
  <2>2. RankingInit' => RankingInv'
    BY InitRankingInv, PTL
  <2>3. QED
    BY <2>1, <2>2
<1>4. QED
  BY <1>1, <1>2, <1>3
     DEF EvalNext, evalVars, Build, Built, ChunkSample, SampleStored, CloseReranker, CloseNext, End

-----------------------------------------------------------------------------
(* The theorems *)

\* The inductive invariant holds in every run, whatever raises.
THEOREM EvalInvariant == EvalSpec => []EvalInv
<1>1. EvalInit => EvalInv
  <2> SUFFICES ASSUME EvalInit PROVE EvalInv
    OBVIOUS
  <2>1. RunInv
    <3>1. opened \in Seq(Closers) /\ closing \in Seq(Range(opened)) /\ 0 \in 0 .. Len(BuildSteps)
      BY DEF EvalInit, BuildSteps
    <3>2. QED
      BY <3>1 DEF EvalInit, RunInv, RunTypeOK, TeardownInv, Working
  <2>2. QED
    BY <2>1, InitChunkerInv, InitRankingInv DEF EvalInit, EvalInv
<1>2. EvalInv /\ [EvalNext]_evalVars => EvalInv'
  <2> SUFFICES ASSUME EvalInv, EvalNext \/ UNCHANGED evalVars PROVE EvalInv'
    OBVIOUS
  <2>1. RunInv'
    <3>1. RunInv
      BY DEF EvalInv
    <3>2. SampleStored => phase \in Working /\ phase' \in Working
                            /\ UNCHANGED <<built, opened, closing, unclosed, live>>
      BY DEF SampleStored, Working
    <3>3. ChunkSample \/ Evaluate \/ UNCHANGED evalVars => UNCHANGED runVars
      BY DEF ChunkSample, Evaluate, evalVars
    <3>4. QED
      BY <3>1, <3>2, <3>3, BuildStep, LeaveStep, CloseStep, RestOfRunStep DEF EvalNext
  <2>2. QED
    BY <2>1, TextStep, QueryStep DEF EvalInv
<1>3. QED
  BY <1>1, <1>2, PTL DEF EvalSpec

\* Every variable of a run, its sample and its query keeps its type, and only
\* what was opened is ever closed.
THEOREM EvalTypeCorrect == EvalSpec => []EvalTypeOK
<1>1. EvalInv => EvalTypeOK
  BY DEF EvalInv, ChunkerInv, RankingInv, RunInv, RunTypeOK, Working, EvalTypeOK
<1>2. QED
  BY <1>1, EvalInvariant, PTL

\* What outlives a run is what raised when it was closed, or a collection whose
\* creation raised and had taken place, whichever step raised before.
THEOREM NothingOutlivesRun == EvalSpec => []TeardownLeavesNothing
<1>1. EvalInv => TeardownLeavesNothing
  BY DEF EvalInv, RunInv, TeardownInv, Excused, TeardownLeavesNothing
<1>2. QED
  BY <1>1, EvalInvariant, PTL

\* No sentence of a sample is dropped, in any run.
THEOREM SamplesAreCovered == EvalSpec => []ChunksCoverText
<1>1. EvalInv => ChunksCoverText
  BY CoverInv DEF EvalInv
<1>2. QED
  BY <1>1, EvalInvariant, PTL

\* No chunk of a sample exceeds the budget unless it is one sentence.
THEOREM SamplesKeepBudget == EvalSpec => []ChunksKeepBudget
<1>1. EvalInv => ChunksKeepBudget
  BY BudgetInv DEF EvalInv
<1>2. QED
  BY <1>1, EvalInvariant, PTL

\* For lists of at most RRF_K + 1 results the fused order respects both indexes
\* and puts what both found first, and a tie of exchanged ranks goes to the hit
\* BM25 ranks higher.  One more and a chunk that both ranked last
\* ties with one that one of them ranked first; the callers ask for 20.
THEOREM FusionIsRespectful ==
  ASSUME KEach <= RRF_K + 1
  PROVE  EvalSpec => []FusionRespectsIndexes
<1>1. EvalInv => FusionRespectsIndexes
  BY OrderRespectsIndexes DEF EvalInv
<1>2. QED
  BY <1>1, EvalInvariant, PTL

\* Reranking permutes the candidates: the unscored keep their places and the
\* others are in the order of their scores, for every candidate list, every
\* reply and every order of the replies.
THEOREM RerankingKeepsPlaces == EvalSpec => []RerankKeepsPlaces
<1>1. EvalInv => RerankKeepsPlaces
  BY DEF EvalInv, RankingInv
<1>2. QED
  BY <1>1, EvalInvariant, PTL

\* The metrics agree with one another on every list and labelling, and those of
\* the whole list are the same before and after reranking.
THEOREM MetricsAlwaysAgree == EvalSpec => []MetricsAgree
<1>1. EvalInv => MetricsAgree
  BY MetricsAgreeInv DEF EvalInv
<1>2. QED
  BY <1>1, EvalInvariant, PTL

===============================================================================
