-------------------------- MODULE MealDecisionsProofs --------------------------
(***************************************************************************)
(* Theorems about the comparison for every catalogue, request, route       *)
(* answer and number of concurrent calls: the scores and their order       *)
(* (MealRanking), then the stored runs (MealDecisions).                    *)
(***************************************************************************)
EXTENDS MealDecisions, FiniteSetTheorems, TLAPS

--------------------------------------------------------------------------------
(* Scores                                                                  *)

\* Integer division by a positive number is monotone.
LEMMA DivMonotone ==
    ASSUME NEW d \in Nat \ {0}, NEW x \in Int, NEW y \in Int, x <= y
    PROVE  x \div d <= y \div d
<1> DEFINE p == x \div d
           r == y \div d
<1>1. p \in Int /\ r \in Int /\ d * p <= x /\ y < d * (r + 1)
  BY SMT
<1>2. SUFFICES ASSUME r + 1 <= p PROVE FALSE
  BY <1>1
<1> HIDE DEF p, r
<1>3. d * (r + 1) <= d * p
  BY <1>1, <1>2, SMT
<1>. QED
  BY <1>1, <1>3, SMT

\* Products by a positive number compare as their factors do.
LEMMA ProductLess ==
    ASSUME NEW d \in Nat \ {0}, NEW m \in Int, NEW n \in Int, d * m < d * n
    PROVE  m < n
<1>1. SUFFICES ASSUME n <= m PROVE d * n <= d * m
  BY SMT
<1>. QED
  BY <1>1, SMT

\* Below an exact half the rounded quotient has already dropped.
LEMMA HalfDrops ==
    ASSUME NEW w \in Nat \ {0}, NEW x \in Int, NEW y \in Int,
           y < x, x % (2 * w) = w
    PROVE  (y + w) \div (2 * w) < (x + w) \div (2 * w)
<1> DEFINE d == 2 * w
           k == x \div d
           m == (y + w) \div d
           n == (x + w) \div d
<1>1. d \in Nat \ {0} /\ d = w + w
  BY SMT
<1>2. k \in Int /\ m \in Int /\ n \in Int
  BY <1>1, SMT
<1>3. x = d * k + w
  BY <1>1, SMT
<1>4. d * m <= y + w
  BY <1>1, SMT
<1>5. x + w < d * (n + 1)
  BY <1>1, SMT
<1>. HIDE DEF d, k, m, n
<1>6. x + w = d * (k + 1)
  BY <1>1, <1>2, <1>3, SMT
<1>7. d * m < d * (k + 1) /\ d * (k + 1) < d * (n + 1)
  BY <1>1, <1>2, <1>4, <1>5, <1>6, SMT
<1>8. m < k + 1 /\ k + 1 < n + 1
  BY <1>1, <1>2, <1>7, ProductLess
<1>9. m < n
  BY <1>2, <1>8
<1>. QED
  BY <1>9 DEF d, m, n

\* Less of the whole never scores lower, whatever the rounding of exact halves.
LEMMA FitScoreMonotone ==
    ASSUME NEW w \in Nat \ {0}, NEW x \in 0..w, NEW y \in 0..w, x <= y
    PROVE  FitScore(y, w) <= FitScore(x, w)
<1> DEFINE lx == 200 * (w - x)
           ly == 200 * (w - y)
           nx == (lx + w) \div (2 * w)
           ny == (ly + w) \div (2 * w)
<1>1. CASE x = y
  <2>1. nx \in Int
    BY SMT
  <2>. QED
    BY <1>1, <2>1 DEF FitScore
<1>2. CASE x < y
  <2>1. lx \in Int /\ ly \in Int /\ ly < lx /\ 2 * w \in Nat \ {0}
    BY <1>2
  <2>2. nx \in Int /\ ny \in Int /\ lx % (2 * w) \in Int
    BY <2>1, SMT
  <2>3. ny <= nx
    BY <2>1, DivMonotone
  <2>4. lx % (2 * w) = w => ny < nx
    BY <2>1, HalfDrops
  <2>5. FitScore(y, w) \in {ny, ny - 1}
    BY <2>2 DEF FitScore
  <2>6. FitScore(x, w) = nx \/ (lx % (2 * w) = w /\ FitScore(x, w) = nx - 1)
    BY <2>2 DEF FitScore
  <2>. HIDE DEF lx, ly, nx, ny
  <2>. QED
    BY <2>2, <2>3, <2>4, <2>5, <2>6
<1>. QED
  BY <1>1, <1>2

\* FitScore stays within 0..100, as clampScore demands, and costing nothing is 100.
LEMMA FitScoreBounds ==
    ASSUME NEW w \in Nat \ {0}
    PROVE  /\ FitScore(0, w) = 100
           /\ \A x \in 0..w : FitScore(x, w) \in 0..100
<1>1. (200 * w + w) \div (2 * w) = 100 /\ (200 * w) % (2 * w) = 0
  <2> DEFINE d == 2 * w
             q == (200 * w + w) \div d
             r == (200 * w) % d
             k == (200 * w) \div d
  <2>1. d \in Nat \ {0} /\ 200 * w = d * 100 /\ w < d
    BY SMT
  <2>2. q \in Int /\ k \in Int /\ r \in 0..(d - 1)
    BY <2>1, SMT
  <2>3. d * q <= 200 * w + w /\ 200 * w + w < d * (q + 1) /\ 200 * w = d * k + r
    BY <2>1, SMT
  <2>. HIDE DEF d, q, r, k
  <2>4. d * 100 < d * (q + 1) /\ d * q < d * 101
    BY <2>1, <2>2, <2>3, SMT
  <2>5. q = 100
    BY <2>1, <2>2, <2>4, ProductLess, 100 < q + 1, q < 101
  <2>6. d * k <= d * 100 /\ d * 100 < d * (k + 1)
    BY <2>1, <2>2, <2>3, SMT
  <2>7. d * k < d * 101
    BY <2>1, <2>2, <2>6, SMT
  <2>8. k = 100
    BY <2>1, <2>2, <2>6, <2>7, ProductLess, 100 < k + 1, k < 101
  <2>9. r = 0
    BY <2>1, <2>2, <2>3, <2>8
  <2>. QED
    BY <2>5, <2>9 DEF d, q, r
<1>2. FitScore(0, w) = 100
  BY <1>1, SMT DEF FitScore
<1>3. FitScore(w, w) = 0
  <2>1. (0 + w) \div (2 * w) = 0 /\ 0 % (2 * w) = 0
    BY SMT
  <2>. QED
    BY <2>1, SMT DEF FitScore
<1>4. ASSUME NEW x \in 0..w PROVE FitScore(x, w) \in 0..100
  <2>1. FitScore(x, w) <= FitScore(0, w) /\ FitScore(w, w) <= FitScore(x, w)
    BY FitScoreMonotone
  <2>2. FitScore(x, w) \in Int
    BY SMT DEF FitScore
  <2>. QED
    BY <1>2, <1>3, <2>1, <2>2
<1>. QED
  BY <1>2, <1>4

\* Every strategy scores 0..100, and so does the mean of the four.
LEMMA StrategyBounds ==
    ASSUME NEW c \in CandidateRow, NEW q \in RequestRow
    PROVE  /\ TimeFit(c, q) \in 0..100
           /\ BudgetFit(c, q) \in 0..100
           /\ ExpirationPriority(c) \in 0..100
           /\ ContextCompatibility(c) \in 0..100
<1>1. /\ c.minutes \in Nat /\ c.cost \in Nat /\ c.expiring \in Nat
      /\ c.rating \in 0..500 \cup {Null}
      /\ q.minutes \in Nat \ {0} /\ q.budget \in Nat
  BY DEF CandidateRow, RequestRow
<1>2. TimeFit(c, q) \in 0..100
  <2>1. CASE c.minutes > q.minutes
    BY <1>1, <2>1 DEF TimeFit
  <2>2. CASE c.minutes \in 0..q.minutes
    BY <1>1, <2>2, FitScoreBounds DEF TimeFit
  <2>. QED
    BY <1>1, <2>1, <2>2
<1>3. BudgetFit(c, q) \in 0..100
  <2>1. CASE q.budget = 0 \/ c.cost > q.budget
    BY <1>1, <2>1 DEF BudgetFit
  <2>2. CASE q.budget \in Nat \ {0} /\ c.cost \in 0..q.budget
    BY <1>1, <2>2, FitScoreBounds DEF BudgetFit
  <2>. QED
    BY <1>1, <2>1, <2>2
<1>4. ExpirationPriority(c) \in 0..100
  BY <1>1 DEF ExpirationPriority
<1>5. ContextCompatibility(c) \in 0..100
  BY <1>1, SMT DEF ContextCompatibility
<1>. QED
  BY <1>2, <1>3, <1>4, <1>5

LEMMA ScoreBounds ==
    ASSUME NEW c \in CandidateRow, NEW q \in RequestRow
    PROVE  Score(c, q) \in 0..100
<1> DEFINE t == TimeFit(c, q)
           b == BudgetFit(c, q)
           e == ExpirationPriority(c)
           x == ContextCompatibility(c)
<1>1. t \in 0..100 /\ b \in 0..100 /\ e \in 0..100 /\ x \in 0..100
  BY StrategyBounds
<1>2. Score(c, q) = (t + b + e + x + 2) \div 4
  BY DEF Score, StrategyScores
<1>. HIDE DEF t, b, e, x
<1>. QED
  BY <1>1, <1>2, SMT

--------------------------------------------------------------------------------
(* The explanation                                                         *)

\* The first highest of four scores exists, and it is not the third one when the
\* third is 0 or the second is 100.
LEMMA DominantIsNotThird ==
    ASSUME NEW t \in 0..100, NEW b \in 0..100, NEW e \in 0..100, NEW x \in 0..100,
           b = 100 \/ e = 0
    PROVE  Dominant(<<t, b, e, x>>) \in {1, 2, 4}
<1> DEFINE s == <<t, b, e, x>>
           First(i) == (\A j \in 1..4 : s[j] <= s[i]) /\ (\A j \in 1..(i - 1) : s[j] < s[i])
<1>1. s[1] = t /\ s[2] = b /\ s[3] = e /\ s[4] = x
  OBVIOUS
<1>. HIDE DEF s
<1>2. \E i \in 1..4 : First(i)
  <2>1. CASE t >= b /\ t >= e /\ t >= x
    <3>1. First(1)
      BY <1>1, <2>1
    <3>. QED
      BY <3>1
  <2>2. CASE b > t /\ b >= e /\ b >= x
    <3>1. First(2)
      BY <1>1, <2>2
    <3>. QED
      BY <3>1
  <2>3. CASE e > t /\ e > b /\ e >= x
    <3>1. First(3)
      BY <1>1, <2>3
    <3>. QED
      BY <3>1
  <2>4. CASE x > t /\ x > b /\ x > e
    <3>1. First(4)
      BY <1>1, <2>4
    <3>. QED
      BY <3>1
  <2>. QED
    BY <2>1, <2>2, <2>3, <2>4
<1>3. ~First(3)
  BY <1>1
<1>4. Dominant(s) = CHOOSE i \in 1..4 : First(i)
  BY DEF Dominant
<1>5. Dominant(s) \in 1..4 /\ First(Dominant(s))
  <2>. HIDE DEF First
  <2>. QED
    BY <1>2, <1>4
<1>6. Dominant(s) # 3
  <2>. HIDE DEF First
  <2>. QED
    BY <1>3, <1>5
<1>. QED
  BY <1>5, <1>6 DEF s

\* No candidate is explained by its expiring ingredients: COOK costs nothing, and
\* nothing else uses any.
LEMMA CandidateExplanation ==
    ASSUME NEW c \in CandidateRow, NEW q \in RequestRow, Fits(c, q)
    PROVE  Explanation(c, q) \in ExplanationType \ {"EXPIRATION_PRIORITY"}
<1> DEFINE t == TimeFit(c, q)
           b == BudgetFit(c, q)
           e == ExpirationPriority(c)
           x == ContextCompatibility(c)
<1>1. t \in 0..100 /\ b \in 0..100 /\ e \in 0..100 /\ x \in 0..100
  BY StrategyBounds
<1>2. b = 100 \/ e = 0
  <2>1. CASE c.rating = Null
    <3>1. c.cost = 0 /\ q.budget \in Nat
      BY <2>1 DEF Fits, RequestRow
    <3>2. q.budget # 0 => FitScore(0, q.budget) = 100
      BY <3>1, FitScoreBounds
    <3>. QED
      BY <3>1, <3>2 DEF BudgetFit
  <2>2. CASE c.rating # Null
    BY <2>2 DEF Fits, ExpirationPriority
  <2>. QED
    BY <2>1, <2>2
<1>. HIDE DEF t, b, e, x
<1>3. Dominant(<<t, b, e, x>>) \in {1, 2, 4}
  BY <1>1, <1>2, DominantIsNotThird
<1>4. Explanation(c, q) = Explanations[Dominant(<<t, b, e, x>>)]
  BY DEF Explanation, StrategyScores, t, b, e, x
<1>. QED
  BY <1>3, <1>4 DEF Explanations, ExplanationType

--------------------------------------------------------------------------------
(* The order of the answer                                                 *)

\* Candidates of different types are ordered one way or the other, never both.
LEMMA AheadTotal ==
    ASSUME NEW q \in RequestRow, NEW a \in CandidateRow, NEW b \in CandidateRow
    PROVE  /\ ~(Ahead(a, b, q) /\ Ahead(b, a, q))
           /\ a.type # b.type => Ahead(a, b, q) \/ Ahead(b, a, q)
<1>1. Score(a, q) \in Int /\ Score(b, q) \in Int
  BY ScoreBounds
<1>2. a.minutes \in Int /\ b.minutes \in Int /\ a.cost \in Int /\ b.cost \in Int
  BY DEF CandidateRow
<1>3. a.type \in Types /\ b.type \in Types
  BY DEF CandidateRow
<1>4. TypeOrder(a.type) \in Int /\ TypeOrder(b.type) \in Int
  BY <1>3 DEF Types, TypeOrder
<1>5. a.type # b.type => TypeOrder(a.type) # TypeOrder(b.type)
  BY <1>3 DEF Types, TypeOrder
<1>. QED
  BY <1>1, <1>2, <1>4, <1>5 DEF Ahead

LEMMA AheadTransitive ==
    ASSUME NEW q \in RequestRow, NEW a \in CandidateRow, NEW b \in CandidateRow,
           NEW c \in CandidateRow, Ahead(a, b, q), Ahead(b, c, q)
    PROVE  Ahead(a, c, q)
<1>1. Score(a, q) \in Int /\ Score(b, q) \in Int /\ Score(c, q) \in Int
  BY ScoreBounds
<1>2. /\ a.minutes \in Int /\ b.minutes \in Int /\ c.minutes \in Int
      /\ a.cost \in Int /\ b.cost \in Int /\ c.cost \in Int
  BY DEF CandidateRow
<1>3. TypeOrder(a.type) \in Int /\ TypeOrder(b.type) \in Int /\ TypeOrder(c.type) \in Int
  BY DEF CandidateRow, Types, TypeOrder
<1>. QED
  BY <1>1, <1>2, <1>3 DEF Ahead

LEMMA AheadMeansOtherType ==
    ASSUME NEW q \in RequestRow, NEW S \in SUBSET CandidateRow, OneOfAType(S),
           NEW a \in S, NEW b \in S, Ahead(a, b, q)
    PROVE  a.type # b.type
<1>1. SUFFICES ASSUME a.type = b.type PROVE FALSE
  OBVIOUS
<1>2. a = b
  BY <1>1 DEF OneOfAType
<1>. QED
  BY <1>2, AheadTotal

\* Some candidate has none ahead of it: the recommended one.
LEMMA WinnerExists ==
    ASSUME NEW q \in RequestRow, NEW S \in SUBSET CandidateRow, OneOfAType(S), S # {}
    PROVE  \E c \in S : \A d \in S : ~Ahead(d, c, q)
<1>1. SUFFICES ASSUME \A c \in S : \E d \in S : Ahead(d, c, q) PROVE FALSE
  OBVIOUS
<1>2. PICK a \in S : TRUE
  OBVIOUS
<1>3. PICK b \in S : Ahead(b, a, q)
  BY <1>1
<1>4. PICK c \in S : Ahead(c, b, q)
  BY <1>1
<1>5. PICK d \in S : Ahead(d, c, q)
  BY <1>1
<1>6. Ahead(c, a, q) /\ Ahead(d, b, q)
  BY <1>3, <1>4, <1>5, AheadTransitive
<1>7. Ahead(d, a, q)
  BY <1>3, <1>6, AheadTransitive
<1>8. /\ b.type # a.type /\ c.type # b.type /\ d.type # c.type
      /\ c.type # a.type /\ d.type # b.type /\ d.type # a.type
  BY <1>3, <1>4, <1>5, <1>6, <1>7, AheadMeansOtherType
<1>9. a.type \in Types /\ b.type \in Types /\ c.type \in Types /\ d.type \in Types
  BY DEF CandidateRow
<1>. QED
  BY <1>8, <1>9 DEF Types

LEMMA FewCandidates ==
    ASSUME NEW S \in SUBSET CandidateRow, OneOfAType(S)
    PROVE  IsFiniteSet(S) /\ Cardinality(S) \in 0..3
<1> DEFINE Of(t) == CHOOSE c \in S : c.type = t
           k == Of("COOK")
           w == Of("WALK")
           o == Of("ORDER")
<1>1. ASSUME NEW c \in S PROVE c \in {k, w, o}
  <2>1. c.type \in Types
    BY DEF CandidateRow
  <2>2. Of(c.type) \in S /\ Of(c.type).type = c.type
    OBVIOUS
  <2>3. c = Of(c.type)
    BY <2>2 DEF OneOfAType
  <2>. QED
    BY <2>1, <2>3 DEF Types
<1>. HIDE DEF k, w, o
<1>2. IsFiniteSet({k}) /\ Cardinality({k}) = 1
  BY FS_Singleton
<1>3. IsFiniteSet({k} \cup {w}) /\ Cardinality({k} \cup {w}) \in 1..2
  BY <1>2, FS_AddElement
<1>4. IsFiniteSet(({k} \cup {w}) \cup {o}) /\ Cardinality(({k} \cup {w}) \cup {o}) \in 1..3
  BY <1>3, FS_AddElement
<1>5. S \subseteq ({k} \cup {w}) \cup {o}
  BY <1>1
<1>6. IsFiniteSet(S) /\ Cardinality(S) <= Cardinality(({k} \cup {w}) \cup {o})
  BY <1>4, <1>5, FS_Subset
<1>7. Cardinality(S) \in Nat
  BY <1>6, FS_CardinalityType
<1>. QED
  BY <1>4, <1>6, <1>7

\* Ranks are 1..3 and follow the order.
LEMMA RankBounds ==
    ASSUME NEW q \in RequestRow, NEW S \in SUBSET CandidateRow, OneOfAType(S), NEW c \in S
    PROVE  Rank(c, S, q) \in 1..3
<1> DEFINE A == {d \in S : Ahead(d, c, q)}
<1>1. IsFiniteSet(S) /\ Cardinality(S) \in 0..3
  BY FewCandidates
<1>2. A \subseteq S \ {c}
  BY AheadMeansOtherType
<1>3. IsFiniteSet(S \ {c}) /\ Cardinality(S \ {c}) = Cardinality(S) - 1
  BY <1>1, FS_RemoveElement
<1>4. IsFiniteSet(A) /\ Cardinality(A) <= Cardinality(S \ {c})
  BY <1>2, <1>3, FS_Subset
<1>5. Cardinality(A) \in 0..2
  BY <1>1, <1>3, <1>4, FS_CardinalityType
<1>. QED
  BY <1>5 DEF Rank

LEMMA RankFollowsOrder ==
    ASSUME NEW q \in RequestRow, NEW S \in SUBSET CandidateRow, OneOfAType(S),
           NEW a \in S, NEW b \in S, Ahead(a, b, q)
    PROVE  Rank(a, S, q) < Rank(b, S, q)
<1> DEFINE A == {d \in S : Ahead(d, a, q)}
           B == {d \in S : Ahead(d, b, q)}
<1>1. IsFiniteSet(S)
  BY FewCandidates
<1>2. A \cup {a} \subseteq B
  BY AheadTransitive
<1>3. a \notin A
  BY AheadTotal
<1>4. IsFiniteSet(A) /\ IsFiniteSet(B)
  BY <1>1, FS_Subset
<1>5. Cardinality(A \cup {a}) = Cardinality(A) + 1
  BY <1>3, <1>4, FS_AddElement
<1>6. Cardinality(A \cup {a}) <= Cardinality(B)
  BY <1>2, <1>4, FS_Subset
<1>7. Cardinality(A) \in Nat /\ Cardinality(B) \in Nat
  BY <1>4, FS_CardinalityType
<1>. QED
  BY <1>5, <1>6, <1>7 DEF Rank

\* What is at least as good in every respect, and faster or cheaper, comes first.
LEMMA DominatesAhead ==
    ASSUME NEW q \in RequestRow, NEW a, NEW b, Fits(a, q), Fits(b, q), Dominates(a, b)
    PROVE  Ahead(a, b, q)
<1>1. /\ a \in CandidateRow /\ b \in CandidateRow
      /\ a.minutes \in 0..q.minutes /\ b.minutes \in 0..q.minutes
      /\ a.cost \in 0..q.budget /\ b.cost \in 0..q.budget
      /\ q.minutes \in Nat \ {0} /\ q.budget \in Nat
      /\ a.expiring \in Nat /\ b.expiring \in Nat
  BY DEF Fits, CandidateRow, RequestRow
<1>2. /\ a.minutes <= b.minutes /\ a.cost <= b.cost
      /\ a.minutes < b.minutes \/ a.cost < b.cost
      /\ a.expiring >= b.expiring
      /\ ContextCompatibility(b) <= ContextCompatibility(a)
  <2>1. ContextCompatibility(a) \in Int /\ ContextCompatibility(b) \in Int
    BY <1>1, StrategyBounds
  <2>. QED
    BY <2>1 DEF Dominates
<1>3. TimeFit(b, q) <= TimeFit(a, q)
  BY <1>1, <1>2, FitScoreMonotone DEF TimeFit
<1>4. BudgetFit(b, q) <= BudgetFit(a, q)
  <2>1. CASE q.budget = 0
    BY <1>1, <2>1 DEF BudgetFit
  <2>2. CASE q.budget # 0
    BY <1>1, <1>2, <2>2, FitScoreMonotone DEF BudgetFit
  <2>. QED
    BY <2>1, <2>2
<1>5. ExpirationPriority(b) <= ExpirationPriority(a)
  BY <1>1, <1>2 DEF ExpirationPriority
<1>6. Score(b, q) <= Score(a, q)
  <2> DEFINE sum(c) == TimeFit(c, q) + BudgetFit(c, q) + ExpirationPriority(c)
                         + ContextCompatibility(c) + 2
  <2>0. ASSUME NEW c \in {a, b}
        PROVE  /\ TimeFit(c, q) \in Int /\ BudgetFit(c, q) \in Int
               /\ ExpirationPriority(c) \in Int /\ ContextCompatibility(c) \in Int
    <3>1. /\ TimeFit(c, q) \in 0..100 /\ BudgetFit(c, q) \in 0..100
          /\ ExpirationPriority(c) \in 0..100 /\ ContextCompatibility(c) \in 0..100
      BY <1>1, StrategyBounds
    <3>. QED
      BY <3>1
  <2>1. sum(a) \in Int /\ sum(b) \in Int /\ sum(b) <= sum(a)
    BY <1>2, <1>3, <1>4, <1>5, <2>0
  <2>2. sum(b) \div 4 <= sum(a) \div 4
    <3>. HIDE DEF sum
    <3>. QED
      BY <2>1, DivMonotone
  <2>. QED
    BY <2>2 DEF Score, StrategyScores
<1>7. Score(a, q) \in Int /\ Score(b, q) \in Int
  BY <1>1, ScoreBounds
<1>. QED
  BY <1>1, <1>2, <1>6, <1>7 DEF Ahead

--------------------------------------------------------------------------------
(* The candidates of a request                                             *)

\* One of the best options becomes the only candidate of its type, and it fits.
LEMMA OfferFits ==
    ASSUME NEW type \in {"WALK", "ORDER"}, NEW options, NEW q, NEW offer \in Offers(type, options),
           \A o \in options : /\ o.minutes \in Nat /\ o.price \in Nat /\ o.fee \in Nat
                             /\ o.rating \in 0..500
                             /\ o.minutes <= q.minutes /\ o.price + o.fee <= q.budget
    PROVE  /\ \A x \in offer : x.type = type /\ Fits(x, q)
           /\ \A x, y \in offer : x = y
<1>1. CASE options = {}
  BY <1>1 DEF Offers
<1>2. CASE options # {}
  <2>1. PICK o \in options : offer = {AsCandidate(type, o)}
    BY <1>2 DEF Offers, Best
  <2>2. Fits(AsCandidate(type, o), q)
    <3>1. AsCandidate(type, o) \in CandidateRow
      BY DEF AsCandidate, CandidateRow, Types
    <3>. QED
      BY <3>1, NullAssumption DEF Fits, AsCandidate
  <2>3. AsCandidate(type, o).type = type
    BY DEF AsCandidate
  <2>. QED
    BY <2>1, <2>2, <2>3
<1>. QED
  BY <1>1, <1>2

\* Whatever the tables held and the provider answered, every candidate fits the
\* request and there is at most one of each type.
LEMMA CandidateSetFits ==
    ASSUME NEW q \in RequestRow, NEW expiring \in Nat, NEW restaurants \in SUBSET RestaurantRow,
           NEW meals \in SUBSET MealRow, NEW asked, NEW walk \in [asked -> WalkMinutes \cup {Null}],
           asked = {e.restaurant.id : e \in Eligible(restaurants, meals, q)},
           NEW S \in CandidateSets(expiring, restaurants, meals, walk, q)
    PROVE  S \subseteq CandidateRow /\ OneOfAType(S) /\ \A k \in S : Fits(k, q)
<1> DEFINE E == Eligible(restaurants, meals, q)
<1>1. q.minutes \in Nat \ {0} /\ q.budget \in Nat
  BY DEF RequestRow
<1>2. ASSUME NEW e \in E
      PROVE  /\ e.restaurant \in RestaurantRow /\ e.meal \in MealRow
             /\ e.meal.price <= q.budget
  <2>1. e.restaurant \in restaurants /\ e.meal \in meals
    BY DEF Eligible
  <2>2. e.meal \in SelectedMeals(e.restaurant, meals, q)
    BY DEF Eligible
  <2>. QED
    BY <2>1, <2>2 DEF SelectedMeals, MatchingMeals
<1>3. PICK w \in Offers("WALK", WalkOptions(E, walk, q)), o \in Offers("ORDER", OrderOptions(E, q)) :
        S = CookCandidates(expiring, q) \cup w \cup o
  BY DEF CandidateSets
<1>4. ASSUME NEW x \in WalkOptions(E, walk, q)
      PROVE  /\ x.minutes \in Nat /\ x.price \in Nat /\ x.fee \in Nat /\ x.rating \in 0..500
             /\ x.minutes <= q.minutes /\ x.price + x.fee <= q.budget
  <2>1. PICK e \in E :
           /\ walk[e.restaurant.id] # Null
           /\ WalkTotal(walk[e.restaurant.id]) <= q.minutes
           /\ x = [minutes |-> WalkTotal(walk[e.restaurant.id]), fee |-> 0, price |-> e.meal.price,
                   rating |-> e.restaurant.rating, name |-> e.restaurant.name]
    BY DEF WalkOptions
  <2>2. walk[e.restaurant.id] \in Nat
    BY <2>1, WalkAssumption
  <2>3. WalkTotal(walk[e.restaurant.id]) \in Nat
    BY <2>2 DEF WalkTotal, DiningMinutes
  <2>. QED
    BY <1>1, <1>2, <2>1, <2>3 DEF RestaurantRow, MealRow
<1>5. ASSUME NEW x \in OrderOptions(E, q)
      PROVE  /\ x.minutes \in Nat /\ x.price \in Nat /\ x.fee \in Nat /\ x.rating \in 0..500
             /\ x.minutes <= q.minutes /\ x.price + x.fee <= q.budget
  <2>1. PICK e \in E :
           /\ e.restaurant.deliveryMinutes <= q.minutes
           /\ e.meal.price + e.restaurant.fee <= q.budget
           /\ x = DeliveryOf(e)
    BY DEF OrderOptions
  <2>. QED
    BY <1>2, <2>1 DEF DeliveryOf, RestaurantRow, MealRow
<1>6. /\ \A x \in w : x.type = "WALK" /\ Fits(x, q)
      /\ \A x, y \in w : x = y
  BY <1>4, OfferFits
<1>7. /\ \A x \in o : x.type = "ORDER" /\ Fits(x, q)
      /\ \A x, y \in o : x = y
  BY <1>5, OfferFits
<1>8. /\ \A x \in CookCandidates(expiring, q) : x.type = "COOK" /\ Fits(x, q)
      /\ \A x, y \in CookCandidates(expiring, q) : x = y
  BY DEF CookCandidates, Fits, CandidateRow, Types, CookMinutes, CookCost
<1>9. \A k \in S : Fits(k, q)
  BY <1>3, <1>6, <1>7, <1>8
<1>10. OneOfAType(S)
  BY <1>3, <1>6, <1>7, <1>8 DEF OneOfAType
<1>. QED
  BY <1>9, <1>10 DEF Fits

--------------------------------------------------------------------------------
(* The invariant                                                           *)

\* The explanation stored with a run.
LEMMA WinnersExplanationType ==
    ASSUME NEW q \in RequestRow, NEW S \in SUBSET CandidateRow, OneOfAType(S),
           \A k \in S : Fits(k, q)
    PROVE  /\ WinnersExplanation(S, q) \in ExplanationType \cup {Null}
           /\ WinnersExplanation(S, q) # "EXPIRATION_PRIORITY"
<1>1. CASE S = {}
  <2>1. Null # Explanations[3]
    BY NullAssumption
  <2>. QED
    BY <1>1, <2>1 DEF WinnersExplanation, Explanations
<1>2. CASE S # {}
  <2> DEFINE Wins(c) == \A d \in S : ~Ahead(d, c, q)
             winner == CHOOSE c \in S : Wins(c)
  <2>1. \E c \in S : Wins(c)
    BY <1>2, WinnerExists
  <2>2. winner \in S
    <3>. HIDE DEF Wins
    <3>. QED
      BY <2>1
  <2>3. WinnersExplanation(S, q) = Explanation(winner, q)
    BY <1>2 DEF WinnersExplanation
  <2>. HIDE DEF winner
  <2>4. Explanation(winner, q) \in ExplanationType \ {"EXPIRATION_PRIORITY"}
    BY <2>2, CandidateExplanation
  <2>. QED
    BY <2>3, <2>4
<1>. QED
  BY <1>1, <1>2

\* The rows saved for a call whose run is stored: candidates fit the request, so they
\* are no larger than what the columns of the run hold.
LEMMA RankedType ==
    ASSUME NEW q \in RequestRow, NEW S \in SUBSET CandidateRow, OneOfAType(S),
           q.minutes \in Int4, q.budget \in Int4, \A k \in S : Fits(k, q)
    PROVE  Ranked(S, q) \subseteq AlternativeRow
<1>1. ASSUME NEW c \in S
      PROVE  [type |-> c.type, rank |-> Rank(c, S, q), score |-> Score(c, q),
              minutes |-> c.minutes, cost |-> c.cost] \in AlternativeRow
  <2>1. c.type \in Types /\ c.minutes \in Int4 /\ c.cost \in Int4
    BY MaxInt4Assumption DEF CandidateRow, Fits, Int4
  <2>2. Rank(c, S, q) \in 1..3 /\ Score(c, q) \in 0..100
    BY RankBounds, ScoreBounds
  <2>. QED
    BY <2>1, <2>2 DEF AlternativeRow
<1>. QED
  BY <1>1 DEF Ranked

LEMMA InitInv == Init => IInv
<1>. SUFFICES ASSUME Init PROVE IInv
  OBVIOUS
<1>1. TypeOK
  BY CountAssumption DEF Init, TypeOK, NoCall, CallRow, PC
<1>2. RunsRepeatTheirCall
  BY DEF Init, RunsRepeatTheirCall
<1>3. AlternativesBelongToAnswers
  BY DEF Init, AlternativesBelongToAnswers
<1>4. SavedCallsAreStored
  BY DEF Init, SavedCallsAreStored
<1>5. CandidatesFit
  BY DEF Init, CandidatesFit, NoCall, OneOfAType
<1>. QED
  BY <1>1, <1>2, <1>3, <1>4, <1>5 DEF IInv

Early == {"idle", "expiring", "restaurants", "meals", "rank"}

\* A call that has saved nothing moves on: the tables and the other calls stay.
LEMMA EarlyStep ==
    ASSUME IInv, TypeOK', NEW c \in Call, NEW k, NEW label \in PC \ {"idle", "answered", "saveAlternatives"},
           pc[c] \in Early, pc' = [pc EXCEPT ![c] = label], call' = [call EXCEPT ![c] = k],
           accounts' = accounts, runs' = runs, alternatives' = alternatives,
           k.request \in Request, OneOfAType(k.candidates),
           \A x \in k.candidates : Fits(x, k.request)
    PROVE  IInv'
<1>1. pc \in [Call -> PC] /\ call \in [Call -> CallRow]
  BY DEF IInv, TypeOK
<1>2. /\ pc'[c] = label /\ call'[c] = k
      /\ \A r \in Call \ {c} : pc'[r] = pc[r] /\ call'[r] = call[r]
  BY <1>1
<1>3. c \notin DOMAIN runs /\ \A a \in alternatives : a.run # c
  BY DEF IInv, RunsRepeatTheirCall, AlternativesBelongToAnswers, Early
<1>4. ASSUME NEW r \in Call \ {c} PROVE Rows(r)' = Rows(r)
  BY <1>2 DEF Rows
<1>5. RunsRepeatTheirCall'
  BY <1>2, <1>3 DEF IInv, RunsRepeatTheirCall
<1>6. AlternativesBelongToAnswers'
  <2>1. SUFFICES ASSUME NEW a \in alternatives
                 PROVE  a.run \in DOMAIN runs /\ pc'[a.run] = "answered" /\ a \in Rows(a.run)'
    BY DEF AlternativesBelongToAnswers
  <2>2. a.run \in DOMAIN runs /\ pc[a.run] = "answered" /\ a \in Rows(a.run)
    BY DEF IInv, AlternativesBelongToAnswers
  <2>3. a.run \in Call \ {c}
    BY <1>3, <2>2 DEF IInv, RunsRepeatTheirCall
  <2>4. Rows(a.run)' = Rows(a.run)
    BY <2>3, <1>4
  <2>. QED
    BY <1>2, <2>2, <2>3, <2>4
<1>7. SavedCallsAreStored'
  <2>1. SUFFICES ASSUME NEW r \in Call, call'[r].user \in accounts
                 PROVE  /\ pc'[r] \in {"saveAlternatives", "answered"} => r \in DOMAIN runs
                        /\ pc'[r] = "answered" => Rows(r)' \subseteq alternatives
    BY DEF SavedCallsAreStored
  <2>2. CASE r = c
    BY <1>2, <2>2
  <2>3. CASE r # c
    BY <1>2, <1>4, <2>1, <2>3 DEF IInv, SavedCallsAreStored
  <2>. QED
    BY <2>2, <2>3
<1>8. CandidatesFit'
  BY <1>2 DEF IInv, CandidatesFit
<1>. QED
  BY <1>5, <1>6, <1>7, <1>8 DEF IInv

\* The steps of compare before anything is stored.
LEMMA ReadingStep ==
    ASSUME IInv, NEW c \in Call,
           \/ \E u \in User, q \in Request : Arrive(c, u, q)
           \/ ReadExpiring(c)
           \/ ReadRestaurants(c)
           \/ ReadMeals(c)
           \/ RankCandidates(c)
    PROVE  IInv'
<1>1. /\ pc \in [Call -> PC] /\ call \in [Call -> CallRow] /\ call[c] \in CallRow
      /\ accounts \subseteq User /\ pantry \in [User -> ExpiringCount] /\ catalog \in Catalog
  BY DEF IInv, TypeOK
<1>2. ASSUME NEW k \in CallRow, NEW label \in PC, call' = [call EXCEPT ![c] = k],
             pc' = [pc EXCEPT ![c] = label],
             UNCHANGED <<accounts, pantry, catalog, runs, alternatives>>
      PROVE  TypeOK'
  <2>1. call' \in [Call -> CallRow] /\ pc' \in [Call -> PC]
    BY <1>1, <1>2
  <2>. QED
    BY <1>2, <2>1 DEF IInv, TypeOK
<1>3. /\ OneOfAType(call[c].candidates)
      /\ \A x \in call[c].candidates : Fits(x, call[c].request)
      /\ pc[c] = "idle" => call[c].candidates = {}
      /\ pc[c] # "idle" => call[c].request \in Request
  BY DEF IInv, CandidatesFit
<1>4. ASSUME NEW u \in User, NEW q \in Request, Arrive(c, u, q) PROVE IInv'
  <2> DEFINE k == [call[c] EXCEPT !.user = u, !.request = q]
  <2>1. /\ pc[c] = "idle" /\ pc' = [pc EXCEPT ![c] = "expiring"]
        /\ UNCHANGED <<accounts, pantry, catalog, runs, alternatives>>
    BY <1>4 DEF Arrive, Goto
  <2>2. call' = [call EXCEPT ![c] = k]
    BY <1>1, <1>4 DEF Arrive
  <2>3. k \in CallRow /\ k.request = q /\ k.candidates = {}
    BY <1>1, <1>3, <2>1 DEF CallRow
  <2>. HIDE DEF k
  <2>4. TypeOK'
    BY <1>2, <2>1, <2>2, <2>3 DEF PC
  <2>. QED
    BY <2>1, <2>2, <2>3, <2>4, EarlyStep DEF PC, Early, OneOfAType
<1>5. CASE ReadExpiring(c)
  <2> DEFINE n == IF call[c].user \in accounts THEN pantry[call[c].user] ELSE 0
             k == [call[c] EXCEPT !.expiring = n]
  <2>1. /\ pc[c] = "expiring" /\ pc' = [pc EXCEPT ![c] = "restaurants"]
        /\ UNCHANGED <<accounts, pantry, catalog, runs, alternatives>>
    BY <1>5 DEF ReadExpiring, Goto
  <2>2. call' = [call EXCEPT ![c] = k]
    BY <1>1, <1>5 DEF ReadExpiring
  <2>3. n \in Nat
    BY <1>1, CountAssumption
  <2>. HIDE DEF n
  <2>4. k \in CallRow /\ k.request = call[c].request /\ k.candidates = call[c].candidates
    BY <1>1, <2>3 DEF CallRow
  <2>. HIDE DEF k
  <2>5. TypeOK'
    BY <1>2, <2>1, <2>2, <2>4 DEF PC
  <2>. QED
    BY <1>3, <2>1, <2>2, <2>4, <2>5, EarlyStep DEF PC, Early
<1>6. CASE ReadRestaurants(c)
  <2> DEFINE k == [call[c] EXCEPT !.restaurants = catalog.restaurants]
  <2>1. /\ pc[c] = "restaurants" /\ pc' = [pc EXCEPT ![c] = "meals"]
        /\ UNCHANGED <<accounts, pantry, catalog, runs, alternatives>>
    BY <1>6 DEF ReadRestaurants, Goto
  <2>2. call' = [call EXCEPT ![c] = k]
    BY <1>1, <1>6 DEF ReadRestaurants
  <2>3. k \in CallRow /\ k.request = call[c].request /\ k.candidates = call[c].candidates
    BY <1>1, CatalogAssumption DEF CallRow
  <2>. HIDE DEF k
  <2>4. TypeOK'
    BY <1>2, <2>1, <2>2, <2>3 DEF PC
  <2>. QED
    BY <1>3, <2>1, <2>2, <2>3, <2>4, EarlyStep DEF PC, Early
<1>7. CASE ReadMeals(c)
  <2> DEFINE k == [call[c] EXCEPT !.meals = catalog.meals]
  <2>1. /\ pc[c] = "meals" /\ pc' = [pc EXCEPT ![c] = "rank"]
        /\ UNCHANGED <<accounts, pantry, catalog, runs, alternatives>>
    BY <1>7 DEF ReadMeals, Goto
  <2>2. call' = [call EXCEPT ![c] = k]
    BY <1>1, <1>7 DEF ReadMeals
  <2>3. k \in CallRow /\ k.request = call[c].request /\ k.candidates = call[c].candidates
    BY <1>1, CatalogAssumption DEF CallRow
  <2>. HIDE DEF k
  <2>4. TypeOK'
    BY <1>2, <2>1, <2>2, <2>3 DEF PC
  <2>. QED
    BY <1>3, <2>1, <2>2, <2>3, <2>4, EarlyStep DEF PC, Early
<1>8. CASE RankCandidates(c)
  <2> DEFINE b == call[c]
             asked == {e.restaurant.id : e \in Eligible(b.restaurants, b.meals, b.request)}
  <2>1. /\ pc[c] = "rank" /\ pc' = [pc EXCEPT ![c] = "saveRun"]
        /\ UNCHANGED <<accounts, pantry, catalog, runs, alternatives>>
    BY <1>8 DEF RankCandidates, Goto
  <2>2. PICK walk \in [asked -> WalkMinutes \cup {Null}] :
          \E S \in CandidateSets(b.expiring, b.restaurants, b.meals, walk, b.request) :
             call' = [call EXCEPT ![c].candidates = S,
                                  ![c].restaurants = {}, ![c].meals = {}, ![c].expiring = 0]
    BY <1>8 DEF RankCandidates
  <2>3. PICK S \in CandidateSets(b.expiring, b.restaurants, b.meals, walk, b.request) :
             call' = [call EXCEPT ![c].candidates = S,
                                  ![c].restaurants = {}, ![c].meals = {}, ![c].expiring = 0]
    BY <2>2
  <2> DEFINE k == [b EXCEPT !.candidates = S, !.restaurants = {}, !.meals = {}, !.expiring = 0]
  <2>4. call' = [call EXCEPT ![c] = k]
    BY <1>1, <2>3
  <2>5. b.request \in Request /\ b.request \in RequestRow
    BY <1>3, <2>1, RequestAssumption
  <2>6. b.expiring \in Nat /\ b.restaurants \in SUBSET RestaurantRow /\ b.meals \in SUBSET MealRow
    BY <1>1 DEF CallRow
  <2>7. S \subseteq CandidateRow /\ OneOfAType(S) /\ \A x \in S : Fits(x, b.request)
    BY <2>2, <2>3, <2>5, <2>6, CandidateSetFits
  <2>8. k \in CallRow /\ k.request = b.request /\ k.candidates = S
    BY <1>1, <2>7 DEF CallRow
  <2>. HIDE DEF k
  <2>9. TypeOK'
    BY <1>2, <2>1, <2>4, <2>8 DEF PC
  <2>. QED
    BY <2>1, <2>4, <2>5, <2>7, <2>8, <2>9, EarlyStep DEF PC, Early
<1>. QED
  BY <1>4, <1>5, <1>6, <1>7, <1>8

\* The run is stored, or refused.
LEMMA SaveRunStep ==
    ASSUME IInv, NEW c \in Call, SaveRun(c)
    PROVE  IInv'
<1>1. /\ pc \in [Call -> PC] /\ call \in [Call -> CallRow] /\ accounts \subseteq User
      /\ pc[c] = "saveRun" /\ UNCHANGED <<accounts, pantry, catalog, alternatives, call>>
  BY DEF IInv, TypeOK, SaveRun
<1>2. c \notin DOMAIN runs /\ \A a \in alternatives : a.run # c
  BY <1>1 DEF IInv, RunsRepeatTheirCall, AlternativesBelongToAnswers
<1>3. \A r \in Call : Rows(r)' = Rows(r)
  BY <1>1 DEF Rows
<1>4. call[c].request \in Request /\ call[c].request \in RequestRow
  BY <1>1, RequestAssumption DEF IInv, CandidatesFit
<1> DEFINE row == [user |-> call[c].user, minutes |-> call[c].request.minutes,
                   budget |-> call[c].request.budget,
                   explanation |-> WinnersExplanation(call[c].candidates, call[c].request)]
<1>5. CASE pc' = [pc EXCEPT ![c] = "failed"] /\ runs' = runs
  <2>1. pc' \in [Call -> PC] /\ pc'[c] = "failed" /\ \A r \in Call \ {c} : pc'[r] = pc[r]
    BY <1>1, <1>5 DEF PC
  <2>2. TypeOK'
    BY <1>1, <1>5, <2>1 DEF IInv, TypeOK
  <2>3. RunsRepeatTheirCall'
    BY <1>1, <1>2, <1>5, <2>1 DEF IInv, RunsRepeatTheirCall
  <2>4. AlternativesBelongToAnswers'
    BY <1>1, <1>2, <1>3, <1>5, <2>1 DEF IInv, AlternativesBelongToAnswers, RunsRepeatTheirCall
  <2>5. SavedCallsAreStored'
    BY <1>1, <1>3, <1>5, <2>1 DEF IInv, SavedCallsAreStored
  <2>6. CandidatesFit'
    BY <1>1, <1>5, <2>1 DEF IInv, CandidatesFit
  <2>. QED
    BY <2>2, <2>3, <2>4, <2>5, <2>6 DEF IInv
<1>6. CASE /\ call[c].user \in accounts
           /\ ~(call[c].request.minutes > MaxInt4) /\ ~(call[c].request.budget > MaxInt4)
           /\ runs' = [r \in DOMAIN runs \cup {c} |-> IF r = c THEN row ELSE runs[r]]
           /\ pc' = [pc EXCEPT ![c] = IF call[c].candidates = {} THEN "answered"
                                      ELSE "saveAlternatives"]
  <2>1. /\ pc' \in [Call -> PC] /\ \A r \in Call \ {c} : pc'[r] = pc[r]
        /\ pc'[c] = IF call[c].candidates = {} THEN "answered" ELSE "saveAlternatives"
    BY <1>1, <1>6 DEF PC
  <2>2. row \in RunRow
    <3>1. call[c].user \in User
      BY <1>1, <1>6
    <3>2. call[c].request.minutes \in Int4 \ {0} /\ call[c].request.budget \in Int4
      BY <1>4, <1>6, MaxInt4Assumption DEF RequestRow, Int4
    <3>3. call[c].candidates \in SUBSET CandidateRow
      BY <1>1 DEF CallRow
    <3>4. WinnersExplanation(call[c].candidates, call[c].request) \in ExplanationType \cup {Null}
      BY <1>4, <3>3, WinnersExplanationType DEF IInv, CandidatesFit
    <3>. QED
      BY <3>1, <3>2, <3>4 DEF RunRow
  <2>. HIDE DEF row
  <2>3. /\ DOMAIN runs' = DOMAIN runs \cup {c} /\ runs'[c] = row
        /\ \A r \in DOMAIN runs : runs'[r] = runs[r]
    BY <1>2, <1>6
  <2>4. TypeOK'
    <3>1. DOMAIN runs' \subseteq Call /\ \A r \in DOMAIN runs' : runs'[r] \in RunRow
      BY <2>2, <2>3 DEF IInv, TypeOK
    <3>. QED
      BY <1>1, <2>1, <3>1 DEF IInv, TypeOK
  <2>5. RunsRepeatTheirCall'
    <3>1. ASSUME NEW r \in DOMAIN runs
          PROVE  /\ r \in Call /\ r # c
                 /\ pc'[r] \in {"saveAlternatives", "answered", "lost"}
                 /\ call[r].user \in accounts
                 /\ call[r].request \in Request
                 /\ runs'[r] = [user |-> call[r].user, minutes |-> call[r].request.minutes,
                                budget |-> call[r].request.budget,
                                explanation |-> WinnersExplanation(call[r].candidates, call[r].request)]
      BY <1>2, <2>1, <2>3 DEF IInv, RunsRepeatTheirCall
    <3>2. pc'[c] \in {"saveAlternatives", "answered", "lost"} /\ runs'[c] = row
      BY <2>1, <2>3
    <3>. QED
      BY <1>1, <1>4, <1>6, <2>3, <3>1, <3>2 DEF RunsRepeatTheirCall, row
  <2>6. AlternativesBelongToAnswers'
    BY <1>1, <1>2, <1>3, <2>1, <2>3 DEF IInv, AlternativesBelongToAnswers, RunsRepeatTheirCall
  <2>7. SavedCallsAreStored'
    <3>1. pc'[c] = "answered" => Rows(c) = {}
      BY <2>1 DEF Rows, Ranked
    <3>2. SUFFICES ASSUME NEW r \in Call, call'[r].user \in accounts'
                   PROVE  /\ pc'[r] \in {"saveAlternatives", "answered"} => r \in DOMAIN runs'
                          /\ pc'[r] = "answered" => Rows(r)' \subseteq alternatives'
      BY DEF SavedCallsAreStored
    <3>3. CASE r = c
      BY <1>1, <1>3, <2>3, <3>1, <3>3
    <3>4. CASE r # c
      BY <1>1, <1>3, <2>1, <2>3, <3>2, <3>4 DEF IInv, SavedCallsAreStored
    <3>. QED
      BY <3>3, <3>4
  <2>8. CandidatesFit'
    BY <1>1, <2>1 DEF IInv, CandidatesFit
  <2>. QED
    BY <2>4, <2>5, <2>6, <2>7, <2>8 DEF IInv
<1>. QED
  BY <1>5, <1>6 DEF SaveRun, Goto

\* The alternatives are stored together, or refused with the run they belong to.
LEMMA SaveAlternativesStep ==
    ASSUME IInv, NEW c \in Call, SaveAlternatives(c)
    PROVE  IInv'
<1>1. /\ pc \in [Call -> PC] /\ call \in [Call -> CallRow]
      /\ pc[c] = "saveAlternatives" /\ UNCHANGED <<accounts, pantry, catalog, runs, call>>
  BY DEF IInv, TypeOK, SaveAlternatives
<1>2. \A r \in Call : Rows(r)' = Rows(r)
  BY <1>1 DEF Rows
<1>3. /\ call[c].request \in Request /\ call[c].request \in RequestRow
      /\ call[c].candidates \in SUBSET CandidateRow /\ OneOfAType(call[c].candidates)
  BY <1>1, RequestAssumption DEF IInv, CandidatesFit, CallRow
<1>4. \A a \in alternatives : a.run # c
  BY <1>1 DEF IInv, AlternativesBelongToAnswers
<1>5. CASE c \notin DOMAIN runs /\ pc' = [pc EXCEPT ![c] = "failed"] /\ alternatives' = alternatives
  <2>1. pc' \in [Call -> PC] /\ pc'[c] = "failed" /\ \A r \in Call \ {c} : pc'[r] = pc[r]
    BY <1>1, <1>5 DEF PC
  <2>2. TypeOK'
    BY <1>1, <1>5, <2>1 DEF IInv, TypeOK
  <2>3. RunsRepeatTheirCall'
    BY <1>1, <1>5, <2>1 DEF IInv, RunsRepeatTheirCall
  <2>4. AlternativesBelongToAnswers'
    BY <1>1, <1>2, <1>4, <1>5, <2>1 DEF IInv, AlternativesBelongToAnswers, RunsRepeatTheirCall
  <2>5. SavedCallsAreStored'
    BY <1>1, <1>2, <1>5, <2>1 DEF IInv, SavedCallsAreStored
  <2>6. CandidatesFit'
    BY <1>1, <1>5, <2>1 DEF IInv, CandidatesFit
  <2>. QED
    BY <2>2, <2>3, <2>4, <2>5, <2>6 DEF IInv
<1>6. CASE /\ c \in DOMAIN runs /\ pc' = [pc EXCEPT ![c] = "answered"]
           /\ alternatives' = alternatives \cup Rows(c)
  <2>1. pc' \in [Call -> PC] /\ pc'[c] = "answered" /\ \A r \in Call \ {c} : pc'[r] = pc[r]
    BY <1>1, <1>6 DEF PC
  <2>2. TypeOK'
    <3>1. call[c].request.minutes \in Int4 /\ call[c].request.budget \in Int4
      BY <1>6 DEF IInv, TypeOK, RunsRepeatTheirCall, RunRow
    <3>2. \A k \in call[c].candidates : Fits(k, call[c].request)
      BY DEF IInv, CandidatesFit
    <3>3. Ranked(call[c].candidates, call[c].request) \subseteq AlternativeRow
      BY <1>3, <3>1, <3>2, RankedType
    <3>4. Rows(c) \subseteq [run : Call, row : AlternativeRow]
      BY <3>3 DEF Rows
    <3>. QED
      BY <1>1, <1>6, <2>1, <3>4 DEF IInv, TypeOK
  <2>3. RunsRepeatTheirCall'
    BY <1>1, <1>6, <2>1 DEF IInv, RunsRepeatTheirCall
  <2>4. AlternativesBelongToAnswers'
    <3>1. ASSUME NEW a \in alternatives
          PROVE  a.run \in DOMAIN runs /\ pc'[a.run] = "answered" /\ a \in Rows(a.run)'
      BY <1>2, <1>4, <2>1, <3>1 DEF IInv, AlternativesBelongToAnswers, RunsRepeatTheirCall
    <3>2. ASSUME NEW a \in Rows(c)
          PROVE  a.run \in DOMAIN runs /\ pc'[a.run] = "answered" /\ a \in Rows(a.run)'
      <4>1. a.run = c
        BY DEF Rows
      <4>. QED
        BY <1>2, <1>6, <2>1, <4>1
    <3>. QED
      BY <1>1, <1>6, <3>1, <3>2 DEF AlternativesBelongToAnswers
  <2>5. SavedCallsAreStored'
    <3>1. SUFFICES ASSUME NEW r \in Call, call'[r].user \in accounts'
                   PROVE  /\ pc'[r] \in {"saveAlternatives", "answered"} => r \in DOMAIN runs'
                          /\ pc'[r] = "answered" => Rows(r)' \subseteq alternatives'
      BY DEF SavedCallsAreStored
    <3>2. CASE r = c
      BY <1>1, <1>2, <1>6, <3>2
    <3>3. CASE r # c
      BY <1>1, <1>2, <1>6, <2>1, <3>1, <3>3 DEF IInv, SavedCallsAreStored
    <3>. QED
      BY <3>2, <3>3
  <2>6. CandidatesFit'
    BY <1>1, <2>1 DEF IInv, CandidatesFit
  <2>. QED
    BY <2>2, <2>3, <2>4, <2>5, <2>6 DEF IInv
<1>. QED
  BY <1>5, <1>6 DEF SaveAlternatives, Goto

\* Running calls are lost; what they have stored stays as it is.
LEMMA CrashStep ==
    ASSUME IInv, Crash
    PROVE  IInv'
<1>1. /\ pc \in [Call -> PC]
      /\ UNCHANGED <<accounts, pantry, catalog, runs, alternatives, call>>
      /\ pc' = [c \in Call |->
                  IF pc[c] \in {"idle", "answered", "failed"} THEN pc[c] ELSE "lost"]
  BY DEF IInv, TypeOK, Crash
<1>2. \A r \in Call : Rows(r)' = Rows(r)
  BY <1>1 DEF Rows
<1>3. /\ pc' \in [Call -> PC]
      /\ \A r \in Call : \/ pc'[r] = pc[r]
                         \/ pc'[r] = "lost" /\ pc[r] \notin {"idle", "answered"}
  BY <1>1 DEF PC
<1>4. TypeOK'
  BY <1>1, <1>3 DEF IInv, TypeOK
<1>5. RunsRepeatTheirCall'
  BY <1>1, <1>3 DEF IInv, RunsRepeatTheirCall
<1>6. AlternativesBelongToAnswers'
  BY <1>1, <1>2, <1>3 DEF IInv, AlternativesBelongToAnswers, RunsRepeatTheirCall
<1>7. SavedCallsAreStored'
  BY <1>1, <1>2, <1>3 DEF IInv, SavedCallsAreStored
<1>8. CandidatesFit'
  BY <1>1, <1>3 DEF IInv, CandidatesFit
<1>. QED
  BY <1>4, <1>5, <1>6, <1>7, <1>8 DEF IInv

\* A deleted account takes its runs with it, and their alternatives.
LEMMA DeleteAccountStep ==
    ASSUME IInv, NEW u \in User, DeleteAccount(u)
    PROVE  IInv'
<1>1. /\ accounts' = accounts \ {u}
      /\ DOMAIN runs' = {s \in DOMAIN runs : runs[s].user # u}
      /\ \A r \in DOMAIN runs' : runs'[r] = runs[r]
      /\ alternatives' = {a \in alternatives : runs[a.run].user # u}
      /\ UNCHANGED <<pantry, catalog, pc, call>>
  BY DEF DeleteAccount
<1>2. \A r \in Call : Rows(r)' = Rows(r)
  BY <1>1 DEF Rows
<1>3. \A r \in DOMAIN runs : r \in Call /\ runs[r].user = call[r].user
  BY DEF IInv, RunsRepeatTheirCall
<1>4. TypeOK'
  BY <1>1 DEF IInv, TypeOK
<1>5. RunsRepeatTheirCall'
  BY <1>1, <1>3 DEF IInv, RunsRepeatTheirCall
<1>6. AlternativesBelongToAnswers'
  BY <1>1, <1>2, <1>3 DEF IInv, AlternativesBelongToAnswers
<1>7. SavedCallsAreStored'
  <2>1. SUFFICES ASSUME NEW c \in Call, call[c].user \in accounts \ {u}
                 PROVE  /\ pc[c] \in {"saveAlternatives", "answered"} => c \in DOMAIN runs'
                        /\ pc[c] = "answered" => Rows(c) \subseteq alternatives'
    BY <1>1, <1>2 DEF SavedCallsAreStored
  <2>2. /\ pc[c] \in {"saveAlternatives", "answered"} => c \in DOMAIN runs
        /\ pc[c] = "answered" => Rows(c) \subseteq alternatives
    BY <2>1 DEF IInv, SavedCallsAreStored
  <2>3. \A a \in Rows(c) : a.run = c
    BY DEF Rows
  <2>. QED
    BY <1>1, <1>3, <2>1, <2>2, <2>3
<1>8. CandidatesFit'
  BY <1>1 DEF IInv, CandidatesFit
<1>. QED
  BY <1>4, <1>5, <1>6, <1>7, <1>8 DEF IInv

\* Nothing the invariant speaks of changes but the pantry and the catalogue.
LEMMA OutsideStep ==
    ASSUME IInv, (\E u \in User : ChangePantry(u)) \/ ChangeCatalog \/ UNCHANGED vars
    PROVE  IInv'
<1>1. UNCHANGED <<accounts, runs, alternatives, pc, call>>
  BY DEF ChangePantry, ChangeCatalog, vars
<1>2. pantry' \in [User -> ExpiringCount] /\ catalog' \in Catalog
  BY DEF ChangePantry, ChangeCatalog, vars, IInv, TypeOK
<1>3. \A r \in Call : Rows(r)' = Rows(r)
  BY <1>1 DEF Rows
<1>4. TypeOK'
  BY <1>1, <1>2 DEF IInv, TypeOK
<1>5. RunsRepeatTheirCall'
  BY <1>1 DEF IInv, RunsRepeatTheirCall
<1>6. AlternativesBelongToAnswers'
  BY <1>1, <1>3 DEF IInv, AlternativesBelongToAnswers, RunsRepeatTheirCall
<1>7. SavedCallsAreStored'
  BY <1>1, <1>3 DEF IInv, SavedCallsAreStored
<1>8. CandidatesFit'
  BY <1>1 DEF IInv, CandidatesFit
<1>. QED
  BY <1>4, <1>5, <1>6, <1>7, <1>8 DEF IInv

\* Every stored run and alternative traces back to the call that decided it, and every
\* answered call with an account left has all of its own: the invariant of compare.
THEOREM Traced == Spec => []IInv
<1>1. IInv /\ [Next]_vars => IInv'
  <2>1. SUFFICES ASSUME IInv, [Next]_vars PROVE IInv'
    OBVIOUS
  <2>2. ASSUME NEW c \in Call,
               \/ \E u \in User, q \in Request : Arrive(c, u, q)
               \/ ReadExpiring(c)
               \/ ReadRestaurants(c)
               \/ ReadMeals(c)
               \/ RankCandidates(c)
        PROVE  IInv'
    BY <2>1, <2>2, ReadingStep
  <2>3. ASSUME NEW c \in Call, SaveRun(c) PROVE IInv'
    BY <2>1, <2>3, SaveRunStep
  <2>4. ASSUME NEW c \in Call, SaveAlternatives(c) PROVE IInv'
    BY <2>1, <2>4, SaveAlternativesStep
  <2>5. CASE Crash
    BY <2>1, <2>5, CrashStep
  <2>6. ASSUME NEW u \in User, DeleteAccount(u) PROVE IInv'
    BY <2>1, <2>6, DeleteAccountStep
  <2>7. CASE (\E u \in User : ChangePantry(u)) \/ ChangeCatalog \/ UNCHANGED vars
    BY <2>1, <2>7, OutsideStep
  <2>. QED
    BY <2>1, <2>2, <2>3, <2>4, <2>5, <2>6, <2>7 DEF Next
<1>. QED
  BY <1>1, InitInv, PTL DEF Spec

--------------------------------------------------------------------------------
(* What follows from it                                                    *)

\* Every variable keeps its type; ranks are 1..3 and scores 0..100, as the CHECK
\* constraints of recommendation_alternatives demand, so no answer is refused by them;
\* what is stored of minutes and amounts fits int4, though the DTO has no upper bound.
THEOREM Typed == Spec => []TypeOK
<1>1. IInv => TypeOK
  BY DEF IInv
<1>. QED
  BY <1>1, Traced, PTL

\* A stored alternative fits the minutes and the budget stored with its run.
THEOREM Fitting == Spec => []AlternativesFit
<1>1. IInv => AlternativesFit
  <2>1. SUFFICES ASSUME IInv, NEW a \in alternatives
                 PROVE  /\ a.row.minutes <= runs[a.run].minutes
                        /\ a.row.cost <= runs[a.run].budget
    BY DEF AlternativesFit
  <2>2. a.run \in DOMAIN runs /\ a \in Rows(a.run)
    BY <2>1 DEF IInv, AlternativesBelongToAnswers
  <2>3. /\ a.run \in Call
        /\ runs[a.run].minutes = call[a.run].request.minutes
        /\ runs[a.run].budget = call[a.run].request.budget
    BY <2>1, <2>2 DEF IInv, RunsRepeatTheirCall
  <2>4. PICK x \in call[a.run].candidates : a.row.minutes = x.minutes /\ a.row.cost = x.cost
    BY <2>2 DEF Rows, Ranked
  <2>. QED
    BY <2>1, <2>3, <2>4 DEF IInv, CandidatesFit, Fits
<1>. QED
  BY <1>1, Traced, PTL

\* A deleted account leaves no run and no alternative, wherever compare was.
THEOREM NothingLeft == Spec => []NothingOutlivesItsAccount
<1>1. IInv => NothingOutlivesItsAccount
  BY DEF IInv, RunsRepeatTheirCall, AlternativesBelongToAnswers, NothingOutlivesItsAccount
<1>. QED
  BY <1>1, Traced, PTL

\* The rows of an invariant state, seen through their call.
LEMMA StoredRowsAreRanked ==
    ASSUME IInv, NEW c \in Call
    PROVE  /\ StoredRows(c) \subseteq Ranked(call[c].candidates, call[c].request)
           /\ StoredRows(c) # {} => pc[c] = "answered" /\ c \in DOMAIN runs
           /\ Rows(c) \subseteq alternatives =>
                Ranked(call[c].candidates, call[c].request) \subseteq StoredRows(c)
<1>1. ASSUME NEW x \in StoredRows(c)
      PROVE  /\ x \in Ranked(call[c].candidates, call[c].request)
             /\ pc[c] = "answered" /\ c \in DOMAIN runs
  <2>1. PICK a \in alternatives : a.run = c /\ x = a.row
    BY DEF StoredRows
  <2>2. a \in Rows(c) /\ pc[c] = "answered" /\ c \in DOMAIN runs
    BY <2>1 DEF IInv, AlternativesBelongToAnswers
  <2>. QED
    BY <2>1, <2>2 DEF Rows
<1>2. ASSUME Rows(c) \subseteq alternatives, NEW x \in Ranked(call[c].candidates, call[c].request)
      PROVE  x \in StoredRows(c)
  <2>1. [run |-> c, row |-> x] \in alternatives
    BY <1>2 DEF Rows
  <2>. QED
    BY <2>1 DEF StoredRows
<1>. QED
  BY <1>1, <1>2

\* A client with an answer finds the run and every alternative it was shown.
THEOREM Complete == Spec => []AnsweredRunIsComplete
<1>1. IInv => AnsweredRunIsComplete
  <2>1. SUFFICES ASSUME IInv, NEW c \in Call, pc[c] = "answered", call[c].user \in accounts
                 PROVE  /\ c \in DOMAIN runs
                        /\ StoredRows(c) = Ranked(call[c].candidates, call[c].request)
    BY DEF AnsweredRunIsComplete
  <2>2. c \in DOMAIN runs /\ Rows(c) \subseteq alternatives
    BY <2>1 DEF IInv, SavedCallsAreStored
  <2>. QED
    BY <2>1, <2>2, StoredRowsAreRanked
<1>. QED
  BY <1>1, Traced, PTL

\* An alternative at least as good in everything, and faster or cheaper, ranks first:
\* four roundings and a mean never turn the order round, for any minutes and budget.
THEOREM BetterFirst == Spec => []BetterRanksFirst
<1>1. IInv => BetterRanksFirst
  <2>1. SUFFICES ASSUME IInv, NEW c \in Call,
                        NEW a \in call[c].candidates, NEW b \in call[c].candidates,
                        Dominates(a, b), NEW x \in StoredRows(c), NEW y \in StoredRows(c),
                        x.type = a.type, y.type = b.type
                 PROVE  x.rank < y.rank
    BY DEF BetterRanksFirst
  <2> DEFINE S == call[c].candidates
             q == call[c].request
  <2>2. /\ S \in SUBSET CandidateRow /\ OneOfAType(S) /\ q \in RequestRow
        /\ \A k \in S : Fits(k, q)
    <3>1. pc[c] = "answered" /\ c \in DOMAIN runs
      BY <2>1, StoredRowsAreRanked
    <3>. QED
      BY <2>1, <3>1, RequestAssumption DEF IInv, TypeOK, CandidatesFit, CallRow
  <2>3. x \in Ranked(S, q) /\ y \in Ranked(S, q)
    BY <2>1, StoredRowsAreRanked
  <2>4. x.rank = Rank(a, S, q) /\ y.rank = Rank(b, S, q)
    BY <2>1, <2>2, <2>3 DEF Ranked, OneOfAType
  <2>. HIDE DEF S, q
  <2>5. Ahead(a, b, q)
    BY <2>1, <2>2, DominatesAhead DEF S
  <2>. QED
    BY <2>2, <2>4, <2>5, <2>1, RankFollowsOrder DEF S
<1>. QED
  BY <1>1, Traced, PTL

\* The strategy documented as the core signal of the comparison never explains one.
THEOREM NeverExpiration == Spec => []ExpirationNeverExplains
<1>1. IInv => ExpirationNeverExplains
  <2>1. SUFFICES ASSUME IInv, NEW r \in DOMAIN runs
                 PROVE  runs[r].explanation # "EXPIRATION_PRIORITY"
    BY DEF ExpirationNeverExplains
  <2>2. /\ r \in Call /\ call[r].request \in Request
        /\ runs[r].explanation = WinnersExplanation(call[r].candidates, call[r].request)
    BY <2>1 DEF IInv, RunsRepeatTheirCall
  <2>3. /\ call[r].candidates \in SUBSET CandidateRow /\ call[r].request \in RequestRow
        /\ OneOfAType(call[r].candidates)
        /\ \A k \in call[r].candidates : Fits(k, call[r].request)
    BY <2>1, <2>2, RequestAssumption DEF IInv, TypeOK, CandidatesFit, CallRow
  <2>. QED
    BY <2>2, <2>3, WinnersExplanationType
<1>. QED
  BY <1>1, Traced, PTL
================================================================================
