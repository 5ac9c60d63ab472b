------------------------ MODULE RestaurantSearchProofs ------------------------
(* Searches against tables that change under them, for any number of requests,  *)
(* restaurants and answers of the provider.                                     *)
EXTENDS RestaurantSearch, RestaurantCatalogProofs, OpeningHoursProofs,
        FiniteSetTheorems, WellFoundedInduction, TLAPS

--------------------------------------------------------------------------------
(* Least and greatest numbers                                                  *)

LEMMA LeastNatural ==
  ASSUME NEW S \in SUBSET Nat, S # {}
  PROVE  \E x \in S : \A y \in S : x <= y
<1> DEFINE R == {ss \in Nat \X Nat : ss[1] < ss[2]}
<1>1. IsWellFoundedOn(R, Nat)
  BY NatLessThanWellFounded DEF OpToRel
<1>2. PICK x \in S : \A y \in S : <<y, x>> \notin R
  <2> HIDE DEF R
  <2> QED
    BY <1>1, WFMin
<1>3. ASSUME NEW y \in S PROVE x <= y
  <2>1. x \in Nat /\ y \in Nat
    OBVIOUS
  <2>2. y < x => <<y, x>> \in R
    BY <2>1
  <2> QED
    BY <1>2, <2>1, <2>2
<1> QED
  BY <1>3

LEMMA GreatestIndex ==
  ASSUME NEW n \in Nat, NEW S \in SUBSET (1..n), S # {}
  PROVE  \E x \in S : \A y \in S : y <= x
<1> DEFINE T == {n - x : x \in S}
<1>1. T \in SUBSET Nat /\ T # {}
  <2>1. \A x \in S : n - x \in Nat
    OBVIOUS
  <2>2. PICK x \in S : TRUE
    OBVIOUS
  <2>3. n - x \in T
    OBVIOUS
  <2> QED
    BY <2>1, <2>3
<1>2. PICK t \in T : \A u \in T : t <= u
  <2> HIDE DEF T
  <2> QED
    BY <1>1, LeastNatural
<1>3. PICK x \in S : t = n - x
  BY <1>2
<1>4. ASSUME NEW y \in S PROVE y <= x
  <2>1. n - y \in T
    OBVIOUS
  <2> QED
    BY <1>2, <1>3, <2>1
<1> QED
  BY <1>4

--------------------------------------------------------------------------------
(* The adapters                                                                *)

\* What an adapter owes to the list of destinations whose walks take seconds[i].
Truthful(routes, seconds) ==
  /\ routes.status \in Statuses
  /\ routes.estimates \in [DOMAIN seconds -> Nat]
  /\ \A i \in DOMAIN seconds : routes.estimates[i] \in {NoRoute, Minutes(seconds[i])}
  /\ routes.status = "AVAILABLE" => \A i \in DOMAIN seconds : routes.estimates[i] # NoRoute
  /\ routes.status = "UNAVAILABLE" => \A i \in DOMAIN seconds : routes.estimates[i] = NoRoute
  /\ routes.status = "PARTIAL" => \E i \in DOMAIN seconds : routes.estimates[i] = NoRoute

LEMMA MinutesPositive ==
  ASSUME NEW s \in Nat
  PROVE  Minutes(s) \in Nat \ {0}
BY DEF Minutes

LEMMA SecondsSeq ==
  ASSUME NEW list \in Seq(CandidateRow)
  PROVE  /\ Seconds(list) \in Seq(Nat) /\ Len(Seconds(list)) = Len(list)
         /\ DOMAIN Seconds(list) = DOMAIN list
         /\ \A i \in DOMAIN list : Seconds(list)[i] = DemoOf(list[i].restaurant).seconds
<1>1. ASSUME NEW i \in DOMAIN list PROVE DemoOf(list[i].restaurant).seconds \in Nat
  <2>1. list[i] \in CandidateRow /\ list[i].restaurant \in RestaurantId
    <3>1. list[i] \in CandidateRow
      OBVIOUS
    <3> QED
      BY <3>1 DEF CandidateRow
  <2>2. DemoOf(list[i].restaurant) \in DemoRestaurant
    BY <2>1, DemoAssumption DEF RestaurantId, DemoOf
  <2> QED
    BY <2>2 DEF DemoRestaurant
<1>2. DOMAIN list = 1..Len(list) /\ Len(list) \in Nat
  OBVIOUS
<1> QED
  BY <1>1, <1>2 DEF Seconds

LEMMA ResolvedTruthful ==
  ASSUME NEW seconds \in Seq(Nat), NEW estimates \in [DOMAIN seconds -> Nat],
         \A i \in DOMAIN seconds : estimates[i] \in {NoRoute, Minutes(seconds[i])}
  PROVE  Truthful(Resolved(estimates), seconds)
BY DEF Truthful, Resolved, StatusOf, Statuses

LEMMA UnavailableTruthful ==
  ASSUME NEW seconds \in Seq(Nat)
  PROVE  Truthful(unavailable(Len(seconds)), seconds)
BY DEF Truthful, unavailable, Statuses, NoRoute

\* DeterministicRouteAdapter (deterministic-route.adapter.ts:35-52).
LEMMA DeterministicTruthful ==
  ASSUME NEW seconds \in Seq(Nat)
  PROVE  Truthful(DeterministicResponse(seconds), seconds)
<1> DEFINE e == [i \in DOMAIN seconds |-> Minutes(seconds[i])]
<1>1. e \in [DOMAIN seconds -> Nat] /\ \A i \in DOMAIN seconds : e[i] = Minutes(seconds[i])
  BY MinutesPositive
<1> QED
  BY <1>1, ResolvedTruthful DEF DeterministicResponse

LEMMA RowFacts ==
  ASSUME NEW matrix \in Seq(Seq(Cell)), matrix # <<>>
  PROVE  /\ matrix[1] \in Seq(Cell)
         /\ DOMAIN matrix[1] = 1..Len(matrix[1]) /\ Len(matrix[1]) \in Nat
         /\ \A k \in DOMAIN matrix[1] : /\ matrix[1][k].time \in {NoTime} \cup Nat
                                        /\ matrix[1][k].to \in {NoIndex} \cup Nat
<1>1. matrix[1] \in Seq(Cell)
  OBVIOUS
<1>2. \A k \in DOMAIN matrix[1] : matrix[1][k] \in Cell
  BY <1>1
<1> QED
  BY <1>1, <1>2 DEF Cell

\* ValhallaRouteAdapter.mapResponse (valhalla-route.adapter.ts:90-124): in whatever
\* order an honest provider names the targets, and however often, the time kept for a
\* destination is its own.
THEOREM ValhallaTruthful ==
  ASSUME NEW seconds \in Seq(Nat), NEW matrix \in Seq(Seq(Cell)),
         Honest("valhalla", matrix, seconds)
  PROVE  Truthful(ValhallaResponse(matrix, Len(seconds)), seconds)
<1>1. CASE matrix = <<>>
  BY <1>1, UnavailableTruthful DEF ValhallaResponse
<1>2. CASE matrix # <<>>
  <2> DEFINE row == matrix[1]
             e == [i \in 1..Len(seconds) |-> MinutesOrNone(SecondsByTarget(row, i))]
  <2>1. /\ row \in Seq(Cell) /\ DOMAIN row = 1..Len(row) /\ Len(row) \in Nat
        /\ \A k \in DOMAIN row : row[k].time \in {NoTime} \cup Nat
    BY <1>2, RowFacts
  <2>2. \A k \in DOMAIN row : TargetOf(row, k) \in DOMAIN seconds =>
          row[k].time \in {NoTime, seconds[TargetOf(row, k)]}
    BY <1>2 DEF Honest, TargetOf
  <2>3. DOMAIN seconds = 1..Len(seconds)
    OBVIOUS
  <2> HIDE DEF row
  <2>4. ASSUME NEW i \in DOMAIN seconds
        PROVE  SecondsByTarget(row, i) \in {NoTime, seconds[i]}
    <3>1. CASE TimedCells(row, i) = {}
      BY <3>1 DEF SecondsByTarget
    <3>2. CASE TimedCells(row, i) # {}
      <4>1. TimedCells(row, i) \in SUBSET (1..Len(row))
        BY <2>1 DEF TimedCells
      <4>2. \E k \in TimedCells(row, i) : \A j \in TimedCells(row, i) : j <= k
        BY <3>2, <4>1, <2>1, GreatestIndex
      <4>3. PICK k \in TimedCells(row, i) : SecondsByTarget(row, i) = row[k].time
        BY <3>2, <4>2 DEF SecondsByTarget
      <4>4. TargetOf(row, k) = i /\ k \in DOMAIN row
        BY <4>3 DEF TimedCells
      <4> QED
        BY <4>3, <4>4, <2>2
    <3> QED
      BY <3>1, <3>2
  <2>5. ASSUME NEW i \in DOMAIN seconds
        PROVE  e[i] \in Nat /\ e[i] \in {NoRoute, Minutes(seconds[i])}
    <3>1. seconds[i] \in Nat /\ e[i] = MinutesOrNone(SecondsByTarget(row, i))
      BY <2>3
    <3>2. NoRoute \in Nat /\ seconds[i] # NoTime /\ Minutes(seconds[i]) \in Nat
      BY <3>1, MinutesPositive DEF NoRoute, NoTime
    <3>3. SecondsByTarget(row, i) = NoTime \/ SecondsByTarget(row, i) = seconds[i]
      BY <2>4
    <3>4. e[i] = NoRoute \/ e[i] = Minutes(seconds[i])
      BY <3>1, <3>2, <3>3, Zenon DEF MinutesOrNone
    <3> HIDE DEF e
    <3> QED
      BY <3>2, <3>4
  <2>6. Truthful(Resolved(e), seconds)
    <3>1. e \in [DOMAIN seconds -> Nat]
      BY <2>3, <2>5
    <3> HIDE DEF e
    <3> QED
      BY <3>1, <2>5, ResolvedTruthful
  <2> QED
    BY <1>2, <2>6 DEF ValhallaResponse, row
<1> QED
  BY <1>1, <1>2

\* ExternalRouteAdapter.mapResponse (external-route.adapter.ts:83-105).
LEMMA ExternalTruthful ==
  ASSUME NEW seconds \in Seq(Nat), NEW matrix \in Seq(Seq(Cell)),
         Honest("external", matrix, seconds)
  PROVE  Truthful(ExternalResponse(matrix, Len(seconds)), seconds)
<1> DEFINE e == [i \in 1..Len(seconds) |->
                   IF matrix # <<>> /\ i \in DOMAIN matrix[1] THEN MinutesOrNone(matrix[1][i].time)
                   ELSE NoRoute]
<1>1. DOMAIN seconds = 1..Len(seconds)
  OBVIOUS
<1>2. ASSUME NEW i \in DOMAIN seconds
      PROVE  e[i] \in Nat /\ e[i] \in {NoRoute, Minutes(seconds[i])}
  <2>1. seconds[i] \in Nat
    BY <1>1
  <2>2. CASE matrix # <<>> /\ i \in DOMAIN matrix[1]
    <3>1. matrix[1][i].time \in {NoTime, seconds[i]}
      BY <2>2 DEF Honest
    <3> QED
      BY <3>1, <2>1, <2>2, <1>1, MinutesPositive DEF MinutesOrNone, NoRoute
  <2>3. CASE ~(matrix # <<>> /\ i \in DOMAIN matrix[1])
    BY <2>3, <1>1 DEF NoRoute
  <2> QED
    BY <2>2, <2>3
<1>3. e \in [DOMAIN seconds -> Nat]
  BY <1>1, <1>2
<1>4. Truthful(Resolved(e), seconds)
  <2> HIDE DEF e
  <2> QED
    BY <1>2, <1>3, ResolvedTruthful
<1> QED
  BY <1>4 DEF ExternalResponse

LEMMA HonestTruthful ==
  ASSUME routeMode \in {"external", "valhalla"}, NEW list \in Seq(CandidateRow),
         NEW routes \in HonestRoutes(list)
  PROVE  Truthful(routes, Seconds(list))
<1>1. PICK matrix \in Matrix : /\ Honest(routeMode, matrix, Seconds(list))
                               /\ routes = mapResponse(routeMode, matrix, Len(list))
  BY DEF HonestRoutes
<1>2. matrix \in Seq(Seq(Cell)) /\ Seconds(list) \in Seq(Nat) /\ Len(Seconds(list)) = Len(list)
  BY MatrixAssumption, SecondsSeq
<1> QED
  BY <1>1, <1>2, ValhallaTruthful, ExternalTruthful DEF mapResponse

--------------------------------------------------------------------------------
(* Candidates                                                                  *)

LEMMA DemoFacts ==
  ASSUME NEW r \in RestaurantId
  PROVE  DemoOf(r) \in DemoRestaurant /\ DemoOf(r).seconds \in Nat
         /\ DemoOf(r).hours \in SUBSET Periods
<1>1. DemoOf(r) \in DemoRestaurant
  BY DemoAssumption DEF RestaurantId, DemoOf
<1> QED
  BY <1>1 DEF DemoRestaurant

LEMMA OpeningFacts ==
  ASSUME NEW r \in RestaurantId, NEW at \in Int
  PROVE  /\ Opening(r, at) \in OpeningStatuses
         /\ Opening(r, at) # "CLOSED" <=> OpenAt(DemoOf(r).hours, at)
BY DemoFacts, OpeningStatusType, ClosedExactly DEF Opening

LEMMA CheapestType ==
  ASSUME NEW S \in SUBSET MealRow, S # {}
  PROVE  /\ Cheapest(S) \in Nat
         /\ \E m \in S : MealOf(m).price = Cheapest(S)
         /\ \A m \in S : Cheapest(S) <= MealOf(m).price
<1> DEFINE P == {MealOf(m).price : m \in S}
<1>1. ASSUME NEW m \in S PROVE MealOf(m).price \in Nat
  <2>1. m.restaurant \in RestaurantId /\ m.item \in DOMAIN DemoOf(m.restaurant).meals
    BY DEF MealRow
  <2>2. DemoOf(m.restaurant).meals \in Seq(DemoMeal)
    BY <2>1, DemoFacts DEF DemoRestaurant
  <2>3. MealOf(m) \in DemoMeal
    BY <2>1, <2>2 DEF MealOf
  <2> QED
    BY <2>3 DEF DemoMeal
<1>2. P \in SUBSET Nat /\ P # {}
  BY <1>1
<1>3. \E p \in P : \A q \in P : p <= q
  <2> HIDE DEF P
  <2> QED
    BY <1>2, LeastNatural
<1>4. \E p \in P : \A m \in S : p <= MealOf(m).price
  BY <1>3
<1>5. Cheapest(S) \in P /\ \A m \in S : Cheapest(S) <= MealOf(m).price
  BY <1>4 DEF Cheapest
<1> QED
  BY <1>2, <1>5

LEMMA FiniteImage ==
  ASSUME NEW S, IsFiniteSet(S), NEW T, NEW f \in [S -> T], \A t \in T : \E x \in S : f[x] = t
  PROVE  IsFiniteSet(T)
<1>1. f \in Surjection(S, T)
  BY DEF Surjection
<1> QED
  BY <1>1, FS_Surjection

LEMMA CandidatesFacts ==
  ASSUME NEW found \in SUBSET RestaurantId, IsFiniteSet(found),
         NEW available \in SUBSET MealRow, NEW a \in AskRow
  PROVE  LET S == Candidates(found, a, available)
         IN /\ IsFiniteSet(S) /\ S \in SUBSET CandidateRow
            /\ \A k \in S : /\ k.restaurant \in found \cap Offering(a, available)
                            /\ OpenAt(DemoOf(k.restaurant).hours, a.at)
                            /\ \E m \in Fitting(a, available) :
                                 m.restaurant = k.restaurant /\ MealOf(m).price = k.price
                            /\ \A m \in Fitting(a, available) :
                                 m.restaurant = k.restaurant => k.price <= MealOf(m).price
            /\ \A r \in found \cap Offering(a, available) :
                 OpenAt(DemoOf(r).hours, a.at) => \E k \in S : k.restaurant = r
<1> DEFINE R == {x \in found : Opening(x, a.at) # "CLOSED" /\ Eligible(x, a, available) # {}}
           S == Candidates(found, a, available)
           f == [r \in R |-> Candidate(r, a, available)]
<1>1. S = {Candidate(r, a, available) : r \in R}
  BY DEF Candidates
<1>2. a.at \in Int
  BY DEF AskRow
<1>3. \A r \in RestaurantId : r \in R <=> /\ r \in found \cap Offering(a, available)
                                          /\ OpenAt(DemoOf(r).hours, a.at)
  BY <1>2, OpeningFacts DEF Offering
<1>4. R \in SUBSET found /\ R \in SUBSET RestaurantId
  OBVIOUS
<1>5. IsFiniteSet(R)
  BY <1>4, FS_Subset
<1>6. \A r \in R : LET k == Candidate(r, a, available)
                  IN /\ k \in CandidateRow /\ k.restaurant = r
                     /\ \E m \in Fitting(a, available) : m.restaurant = r /\ MealOf(m).price = k.price
                     /\ \A m \in Fitting(a, available) :
                          m.restaurant = r => k.price <= MealOf(m).price
  <2> SUFFICES ASSUME NEW r \in R
               PROVE  LET k == Candidate(r, a, available)
                      IN /\ k \in CandidateRow /\ k.restaurant = r
                         /\ \E m \in Fitting(a, available) : m.restaurant = r /\ MealOf(m).price = k.price
                         /\ \A m \in Fitting(a, available) :
                              m.restaurant = r => k.price <= MealOf(m).price
    OBVIOUS
  <2>1. Opening(r, a.at) \in OpeningStatuses /\ r \in RestaurantId
    BY <1>2, <1>4, OpeningFacts
  <2> DEFINE E == Eligible(r, a, available)
  <2>2. E = {m \in Fitting(a, available) : m.restaurant = r} /\ Fitting(a, available) \in SUBSET MealRow
    BY DEF Eligible, Fitting
  <2>3. E # {}
    OBVIOUS
  <2>4. /\ Candidate(r, a, available).restaurant = r
        /\ Candidate(r, a, available).price = Cheapest(E)
        /\ Candidate(r, a, available) = [restaurant |-> r, opening |-> Opening(r, a.at),
                                         price |-> Cheapest(E)]
    BY DEF Candidate
  <2> HIDE DEF E
  <2>5. /\ Cheapest(E) \in Nat
        /\ \E m \in E : MealOf(m).price = Cheapest(E)
        /\ \A m \in E : Cheapest(E) <= MealOf(m).price
    BY <2>2, <2>3, CheapestType
  <2>6. Candidate(r, a, available) \in CandidateRow
    BY <2>1, <2>4, <2>5 DEF CandidateRow
  <2> QED
    BY <2>2, <2>4, <2>5, <2>6
<1> HIDE DEF R, S
<1>7. IsFiniteSet(S)
  <2>1. f \in [R -> S] /\ \A t \in S : \E x \in R : f[x] = t
    BY <1>1
  <2> HIDE DEF f
  <2> QED
    BY <2>1, <1>5, FiniteImage
<1>8. /\ S \in SUBSET CandidateRow
      /\ \A k \in S : /\ k.restaurant \in R
                      /\ \E m \in Fitting(a, available) :
                           m.restaurant = k.restaurant /\ MealOf(m).price = k.price
                      /\ \A m \in Fitting(a, available) :
                           m.restaurant = k.restaurant => k.price <= MealOf(m).price
  BY <1>1, <1>6
<1>9. \A r \in R : \E k \in S : k.restaurant = r
  BY <1>1, <1>6
<1> QED
  BY <1>3, <1>4, <1>7, <1>8, <1>9 DEF S

LEMMA ListFacts ==
  ASSUME NEW S \in SUBSET CandidateRow, IsFiniteSet(S), NEW list \in ByName(S)
  PROVE  /\ list \in Seq(CandidateRow)
         /\ \A i \in DOMAIN list : list[i] \in S
         /\ \A k \in S : \E i \in DOMAIN list : list[i] = k
<1>1. Cardinality(S) \in Nat
  BY FS_CardinalityType
<1>2. list \in [1..Cardinality(S) -> S] /\ \A k \in S : \E i \in DOMAIN list : list[i] = k
  BY DEF ByName, Listings
<1>3. list \in [1..Cardinality(S) -> CandidateRow]
  BY <1>2
<1>4. list \in Seq(CandidateRow)
  BY <1>1, <1>3
<1> QED
  BY <1>2, <1>4

\* ORDER BY never leaves ReadMeals without a list: put a candidate with the least name
\* before a listing of the others.
LEMMA FirstByName ==
  ASSUME NEW S \in SUBSET CandidateRow, S # {}
  PROVE  \E x \in S : \A y \in S : DemoOf(x.restaurant).name <= DemoOf(y.restaurant).name
<1> DEFINE N == {DemoOf(x.restaurant).name : x \in S}
<1>1. \A x \in S : DemoOf(x.restaurant).name \in Nat
  <2> SUFFICES ASSUME NEW x \in S PROVE DemoOf(x.restaurant).name \in Nat
    OBVIOUS
  <2>1. x.restaurant \in RestaurantId
    BY DEF CandidateRow
  <2> QED
    BY <2>1, DemoFacts DEF DemoRestaurant
<1>2. N \in SUBSET Nat /\ N # {}
  BY <1>1
<1>3. \E n \in N : \A m \in N : n <= m
  <2> HIDE DEF N
  <2> QED
    BY <1>2, LeastNatural
<1> QED
  BY <1>3

LEMMA ByNameExtends ==
  ASSUME NEW S \in SUBSET CandidateRow, IsFiniteSet(S), NEW x \in S,
         \A y \in S : DemoOf(x.restaurant).name <= DemoOf(y.restaurant).name,
         NEW g \in ByName(S \ {x})
  PROVE  ByName(S) # {}
<1> DEFINE n == Cardinality(S)
           T == S \ {x}
           f == [i \in 1..n |-> IF i = 1 THEN x ELSE g[i - 1]]
<1>1. n \in Nat /\ Cardinality(T) = n - 1 /\ n # 0
  BY FS_CardinalityType, FS_RemoveElement, FS_EmptySet
<1>2. /\ g \in [1..(n - 1) -> T]
      /\ \A y \in T : \E i \in 1..(n - 1) : g[i] = y
      /\ \A i, j \in 1..(n - 1) :
           i < j => DemoOf(g[i].restaurant).name <= DemoOf(g[j].restaurant).name
  BY <1>1 DEF ByName, Listings
<1> HIDE DEF n
<1>3. \A i \in 1..n : i = 1 \/ i - 1 \in 1..(n - 1)
  BY <1>1
<1>4. f \in [1..n -> S]
  BY <1>1, <1>2, <1>3
<1>5. \A y \in S : \E i \in 1..n : f[i] = y
  <2>1. 1 \in 1..n /\ f[1] = x
    BY <1>1
  <2>2. \A i \in 1..(n - 1) : i + 1 \in 1..n /\ f[i + 1] = g[i]
    BY <1>1
  <2> HIDE DEF f
  <2>3. ASSUME NEW y \in T PROVE \E i \in 1..n : f[i] = y
    <3>1. PICK i \in 1..(n - 1) : g[i] = y
      BY <1>2
    <3> QED
      BY <2>2, <3>1
  <2> QED
    BY <2>1, <2>3
<1>6. ASSUME NEW i \in 1..n, NEW j \in 1..n, i < j
      PROVE  DemoOf(f[i].restaurant).name <= DemoOf(f[j].restaurant).name
  <2>1. CASE i = 1
    BY <2>1, <1>4
  <2>2. CASE i # 1
    <3>1. i - 1 \in 1..(n - 1) /\ j - 1 \in 1..(n - 1) /\ i - 1 < j - 1 /\ j # 1
      BY <2>2, <1>1, <1>6
    <3>2. f[i] = g[i - 1] /\ f[j] = g[j - 1]
      BY <2>2, <3>1
    <3> QED
      BY <3>1, <3>2, <1>2
  <2> QED
    BY <2>1, <2>2
<1>7. DOMAIN f = 1..n
  OBVIOUS
<1> HIDE DEF f
<1>8. f \in ByName(S)
  BY <1>4, <1>5, <1>6, <1>7 DEF ByName, Listings, n
<1> QED
  BY <1>8

LEMMA ByNameExists ==
  ASSUME NEW S \in SUBSET CandidateRow, IsFiniteSet(S)
  PROVE  ByName(S) # {}
<1> DEFINE Unlisted == {n \in Nat : \E T \in SUBSET S : Cardinality(T) = n /\ ByName(T) = {}}
<1>1. SUFFICES ASSUME ByName(S) = {} PROVE FALSE
  OBVIOUS
<1>2. Cardinality(S) \in Nat
  BY FS_CardinalityType
<1>3. Unlisted \in SUBSET Nat /\ Unlisted # {}
  BY <1>1, <1>2
<1>4. PICK n \in Unlisted : \A m \in Unlisted : n <= m
  <2> HIDE DEF Unlisted
  <2> QED
    BY <1>3, LeastNatural
<1>5. PICK T \in SUBSET S : Cardinality(T) = n /\ ByName(T) = {}
  OBVIOUS
<1>6. IsFiniteSet(T) /\ T \in SUBSET CandidateRow
  BY FS_Subset
<1>7. T # {}
  <2>1. ASSUME T = {} PROVE <<>> \in ByName(T)
    <3>1. Cardinality(T) = 0
      BY <2>1, FS_EmptySet
    <3>2. <<>> \in [1..0 -> T]
      OBVIOUS
    <3> QED
      BY <2>1, <3>1, <3>2 DEF ByName, Listings
  <2> QED
    BY <1>5, <2>1
<1>8. PICK x \in T : \A y \in T : DemoOf(x.restaurant).name <= DemoOf(y.restaurant).name
  BY <1>6, <1>7, FirstByName
<1>9. ByName(T \ {x}) = {}
  BY <1>5, <1>6, <1>8, ByNameExtends
<1>10. Cardinality(T \ {x}) = n - 1 /\ Cardinality(T \ {x}) \in Nat
  BY <1>5, <1>6, FS_RemoveElement, FS_CardinalityType
<1>11. n - 1 \in Unlisted
  BY <1>9, <1>10
<1> QED
  BY <1>4, <1>11

\* The list ReadMeals makes, against the tables at its two reads.
LEMMA CandidatesCover ==
  ASSUME NEW found \in SUBSET RestaurantId, IsFiniteSet(found),
         NEW available \in SUBSET MealRow, NEW a \in AskRow, NEW h,
         NEW list \in ByName(Candidates(found, a, available)),
         found \subseteq h.active, h.steady \subseteq found,
         Fitting(a, available) \subseteq h.fitting, h.lasting \subseteq Fitting(a, available),
         h.steady \subseteq Offering(a, available)
  PROVE  list \in Seq(CandidateRow) /\ Covering(list, a, h)
<1> DEFINE S == Candidates(found, a, available)
<1>1. /\ IsFiniteSet(S) /\ S \in SUBSET CandidateRow
      /\ \A k \in S : /\ k.restaurant \in found \cap Offering(a, available)
                      /\ OpenAt(DemoOf(k.restaurant).hours, a.at)
                      /\ \E m \in Fitting(a, available) :
                           m.restaurant = k.restaurant /\ MealOf(m).price = k.price
                      /\ \A m \in Fitting(a, available) :
                           m.restaurant = k.restaurant => k.price <= MealOf(m).price
      /\ \A r \in found \cap Offering(a, available) :
           OpenAt(DemoOf(r).hours, a.at) => \E k \in S : k.restaurant = r
  BY CandidatesFacts
<1> HIDE DEF S
<1>2. /\ list \in Seq(CandidateRow)
      /\ \A i \in DOMAIN list : list[i] \in S
      /\ \A k \in S : \E i \in DOMAIN list : list[i] = k
  BY <1>1, ListFacts DEF S
<1>3. ASSUME NEW i \in DOMAIN list
      PROVE  /\ list[i].restaurant \in h.active
             /\ Priced(list[i], h)
             /\ OpenAt(DemoOf(list[i].restaurant).hours, a.at)
  <2>1. list[i] \in S
    BY <1>2
  <2> QED
    BY <1>1, <2>1 DEF Priced
<1>4. ASSUME NEW r \in h.steady, OpenAt(DemoOf(r).hours, a.at)
      PROVE  \E i \in DOMAIN list : list[i].restaurant = r
  <2>1. PICK k \in S : k.restaurant = r
    BY <1>1, <1>4
  <2>2. PICK i \in DOMAIN list : list[i] = k
    BY <1>2
  <2> QED
    BY <2>1, <2>2
<1> QED
  BY <1>2, <1>3, <1>4 DEF Covering

--------------------------------------------------------------------------------
(* Answers                                                                     *)

RowsOf(answered) == {x.row : x \in answered.results}
ShownBy(answered) == {x.restaurant : x \in RowsOf(answered)}

\* EstimatesBelong and AnswerBetween, of one answer to a.
GoodEstimates(answered, a) ==
  /\ \A x \in RowsOf(answered) : x.walk # NoRoute =>
       /\ x.walk = Minutes(DemoOf(x.restaurant).seconds)
       /\ Total(x.walk) <= a.minutes
  /\ answered.status = "AVAILABLE" => \A x \in RowsOf(answered) : x.walk # NoRoute
  /\ answered.status = "UNAVAILABLE" => \A x \in RowsOf(answered) : x.walk = NoRoute
  /\ answered.status = "PARTIAL" => \E x \in RowsOf(answered) : x.walk = NoRoute

GoodChoice(answered, a, h) ==
  /\ ShownBy(answered) \subseteq h.active
  /\ \A x \in RowsOf(answered) : Priced(x, h)
  /\ \A r \in ShownBy(answered) : OpenAt(DemoOf(r).hours, a.at)
  /\ \A r \in h.steady :
       \/ ~OpenAt(DemoOf(r).hours, a.at)
       \/ r \in ShownBy(answered)
       \/ Total(Minutes(DemoOf(r).seconds)) > a.minutes

InOrder(answered) ==
  \A x, y \in answered.results : Precedes(x.row, y.row) <=> x.place < y.place

\* What the comparison looks at.
LEMMA KeyTypes ==
  ASSUME NEW x \in ResultRow
  PROVE  /\ x.walk \in Nat /\ x.price \in Nat
         /\ DemoOf(x.restaurant).rating \in Nat /\ DemoOf(x.restaurant).name \in Nat
<1>1. x.restaurant \in RestaurantId /\ x.walk \in Nat /\ x.price \in Nat
  BY DEF ResultRow
<1>2. DemoOf(x.restaurant) \in DemoRestaurant
  BY <1>1, DemoFacts
<1>3. /\ DemoOf(x.restaurant).rating \in 0..500
      /\ DemoOf(x.restaurant).name \in Nat
  BY <1>2 DEF DemoRestaurant
<1> QED
  BY <1>1, <1>3

\* compareRestaurantResults is one order: no cycle, and two rows that tie in every key
\* stand the same way to every third row (restaurants.service.ts:248-273).
THEOREM ComparisonIsAnOrder ==
  ASSUME NEW x \in ResultRow, NEW y \in ResultRow, NEW z \in ResultRow
  PROVE  /\ ~Precedes(x, x)
         /\ Precedes(x, y) /\ Precedes(y, z) => Precedes(x, z)
         /\ ~Precedes(x, y) /\ ~Precedes(y, x) => (Precedes(z, x) <=> Precedes(z, y))
BY KeyTypes DEF Precedes, NoRoute

\* The place of a row among any results says what the comparison says of two of them.
LEMMA PlacesFollowOrder ==
  ASSUME NEW S \in SUBSET ResultRow, IsFiniteSet(S), NEW x \in S, NEW y \in S
  PROVE  /\ Place(x, S) \in Nat
         /\ Precedes(x, y) <=> Place(x, S) < Place(y, S)
<1> DEFINE Before(z) == {w \in S : Precedes(w, z)}
<1>1. ASSUME NEW z \in S
      PROVE  IsFiniteSet(Before(z)) /\ Cardinality(Before(z)) \in Nat
  <2> DEFINE T == Before(z)
  <2>1. T \in SUBSET S
    OBVIOUS
  <2> HIDE DEF T
  <2>2. IsFiniteSet(T)
    BY <2>1, FS_Subset
  <2>3. Cardinality(T) \in Nat
    BY <2>2, FS_CardinalityType
  <2> QED
    BY <2>2, <2>3 DEF T
<1>2. ASSUME NEW u \in S, NEW v \in S, Precedes(u, v)
      PROVE  Cardinality(Before(u)) < Cardinality(Before(v))
  <2> DEFINE T == Before(u)
             U == Before(v)
  <2>1. T \in SUBSET U
    <3> SUFFICES ASSUME NEW w \in T PROVE w \in U
      OBVIOUS
    <3>1. w \in ResultRow /\ u \in ResultRow /\ v \in ResultRow /\ Precedes(w, u)
      OBVIOUS
    <3>2. Precedes(w, v)
      BY <1>2, <3>1, ComparisonIsAnOrder
    <3> QED
      BY <3>2
  <2>2. u \in U /\ u \notin T
    <3>1. ~Precedes(u, u)
      BY ComparisonIsAnOrder
    <3> QED
      BY <1>2, <3>1
  <2>3. IsFiniteSet(U) /\ Cardinality(U) \in Nat /\ Cardinality(T) \in Nat
    BY <1>1
  <2> HIDE DEF T, U
  <2>4. Cardinality(T) <= Cardinality(U) /\ Cardinality(T) # Cardinality(U)
    BY <2>1, <2>2, <2>3, FS_Subset
  <2>5. Cardinality(T) < Cardinality(U)
    BY <2>3, <2>4
  <2> QED
    BY <2>5 DEF T, U
<1>3. ASSUME ~Precedes(x, y), ~Precedes(y, x)
      PROVE  Before(x) = Before(y)
  <2> SUFFICES ASSUME NEW w \in S PROVE Precedes(w, x) <=> Precedes(w, y)
    OBVIOUS
  <2>1. w \in ResultRow /\ x \in ResultRow /\ y \in ResultRow
    OBVIOUS
  <2> QED
    BY <1>3, <2>1, ComparisonIsAnOrder
<1>4. Place(x, S) = 1 + Cardinality(Before(x)) /\ Place(y, S) = 1 + Cardinality(Before(y))
  BY DEF Place
<1>5. Cardinality(Before(x)) \in Nat /\ Cardinality(Before(y)) \in Nat
  BY <1>1
<1>6. CASE Precedes(x, y)
  <2>1. Cardinality(Before(x)) < Cardinality(Before(y))
    BY <1>2, <1>6
  <2> HIDE DEF Before
  <2> QED
    BY <1>4, <1>5, <1>6, <2>1
<1>7. CASE Precedes(y, x)
  <2>1. Cardinality(Before(y)) < Cardinality(Before(x))
    BY <1>2, <1>7
  <2>2. ~Precedes(x, y)
    <3>1. ~Precedes(x, x) /\ (Precedes(x, y) /\ Precedes(y, x) => Precedes(x, x))
      BY ComparisonIsAnOrder
    <3> QED
      BY <1>7, <3>1
  <2> HIDE DEF Before
  <2> QED
    BY <1>4, <1>5, <2>1, <2>2
<1>8. CASE ~Precedes(x, y) /\ ~Precedes(y, x)
  <2>1. Cardinality(Before(x)) = Cardinality(Before(y))
    BY <1>3, <1>8
  <2> HIDE DEF Before
  <2> QED
    BY <1>4, <1>5, <1>8, <2>1
<1> QED
  BY <1>6, <1>7, <1>8

LEMMA SortedFacts ==
  ASSUME NEW S \in SUBSET ResultRow, IsFiniteSet(S)
  PROVE  /\ Sorted(S) \in SUBSET [row : ResultRow, place : Nat]
         /\ {x.row : x \in Sorted(S)} = S
         /\ \A x, y \in Sorted(S) : Precedes(x.row, y.row) <=> x.place < y.place
<1>1. ASSUME NEW x \in S PROVE Place(x, S) \in Nat
  BY PlacesFollowOrder
<1>2. Sorted(S) \in SUBSET [row : ResultRow, place : Nat]
  BY <1>1 DEF Sorted
<1>3. ASSUME NEW y \in Sorted(S) PROVE y.row \in S
  BY DEF Sorted
<1>4. ASSUME NEW x \in S PROVE \E y \in Sorted(S) : y.row = x
  <2>1. [row |-> x, place |-> Place(x, S)] \in Sorted(S)
    BY DEF Sorted
  <2> QED
    BY <2>1
<1>5. {x.row : x \in Sorted(S)} = S
  BY <1>3, <1>4
<1>6. ASSUME NEW x \in Sorted(S), NEW y \in Sorted(S)
      PROVE  Precedes(x.row, y.row) <=> x.place < y.place
  <2>1. /\ x.row \in S /\ x.place = Place(x.row, S)
        /\ y.row \in S /\ y.place = Place(y.row, S)
    BY DEF Sorted
  <2> QED
    BY <2>1, PlacesFollowOrder
<1> QED
  BY <1>2, <1>5, <1>6

LEMMA GoodAnswer ==
  ASSUME NEW list \in Seq(CandidateRow), NEW a \in AskRow, NEW h, NEW routes,
         Truthful(routes, Seconds(list)), Covering(list, a, h)
  PROVE  LET answered == [status |-> routes.status,
                          results |-> Sorted(Results(list, routes.estimates, a))]
         IN /\ answered \in [status : Statuses, results : SUBSET [row : ResultRow, place : Nat]]
            /\ GoodEstimates(answered, a) /\ GoodChoice(answered, a, h)
            /\ InOrder(answered)
<1> DEFINE e == routes.estimates
           fits == {j \in DOMAIN list : FitsTime(e[j], a)}
           S == Results(list, e, a)
           answered == [status |-> routes.status, results |-> Sorted(S)]
<1>1. DOMAIN Seconds(list) = DOMAIN list /\ DOMAIN list = 1..Len(list) /\ Len(list) \in Nat
      /\ \A i \in DOMAIN list : /\ Seconds(list)[i] = DemoOf(list[i].restaurant).seconds
                                /\ list[i] \in CandidateRow
  BY SecondsSeq
<1>2. /\ routes.status \in Statuses /\ e \in [DOMAIN list -> Nat]
      /\ \A i \in DOMAIN list :
           e[i] \in {NoRoute, Minutes(DemoOf(list[i].restaurant).seconds)}
      /\ routes.status = "AVAILABLE" => \A i \in DOMAIN list : e[i] # NoRoute
      /\ routes.status = "UNAVAILABLE" => \A i \in DOMAIN list : e[i] = NoRoute
      /\ routes.status = "PARTIAL" => \E i \in DOMAIN list : e[i] = NoRoute
  BY <1>1 DEF Truthful
<1>3. S = {Result(list[i], e[i]) : i \in fits}
  BY DEF Results
<1>4. \A i \in DOMAIN list : /\ Result(list[i], e[i]) \in ResultRow
                             /\ Result(list[i], e[i]).restaurant = list[i].restaurant
                             /\ Result(list[i], e[i]).price = list[i].price
                             /\ Result(list[i], e[i]).walk = e[i]
  BY <1>1, <1>2 DEF Result, ResultRow, CandidateRow
<1>5. S \in SUBSET ResultRow
  BY <1>3, <1>4
<1>6. IsFiniteSet(S)
  <2> DEFINE f == [i \in fits |-> Result(list[i], e[i])]
  <2>1. IsFiniteSet(fits)
    <3>1. IsFiniteSet(1..Len(list))
      <4>1. 1 \in Int /\ Len(list) \in Int
        OBVIOUS
      <4> QED
        BY <4>1, FS_Interval, Zenon
    <3>2. fits \in SUBSET (1..Len(list))
      BY <1>1
    <3> QED
      BY <3>1, <3>2, FS_Subset
  <2>2. f \in [fits -> S] /\ \A t \in S : \E i \in fits : f[i] = t
    BY <1>3
  <2> HIDE DEF f, fits, S
  <2> QED
    BY <2>1, <2>2, FiniteImage
<1>7. RowsOf(answered) = S /\ Sorted(S) \in SUBSET [row : ResultRow, place : Nat]
  BY <1>5, <1>6, SortedFacts DEF RowsOf
<1>8. answered \in [status : Statuses, results : SUBSET [row : ResultRow, place : Nat]]
  BY <1>2, <1>7
<1> HIDE DEF S, e
<1>9. \A x \in S : \E i \in fits : /\ x.restaurant = list[i].restaurant /\ x.walk = e[i]
                                   /\ x.price = list[i].price
  BY <1>3, <1>4
<1>10. \A i \in fits : \E x \in S : x.restaurant = list[i].restaurant /\ x.walk = e[i]
  BY <1>3, <1>4
<1>11. GoodEstimates(answered, a)
  <2>1. ASSUME NEW x \in S, x.walk # NoRoute
        PROVE  x.walk = Minutes(DemoOf(x.restaurant).seconds) /\ Total(x.walk) <= a.minutes
    <3>1. PICK i \in DOMAIN list : /\ x.restaurant = list[i].restaurant /\ x.walk = e[i]
                                   /\ FitsTime(e[i], a)
      BY <1>9
    <3> QED
      BY <3>1, <2>1, <1>2 DEF FitsTime
  <2>2. routes.status = "PARTIAL" => \E x \in S : x.walk = NoRoute
    <3>1. \A i \in DOMAIN list : e[i] = NoRoute => i \in fits
      BY DEF FitsTime
    <3> QED
      BY <3>1, <1>2, <1>10
  <2> QED
    BY <2>1, <2>2, <1>2, <1>7, <1>9 DEF GoodEstimates
<1>12. GoodChoice(answered, a, h)
  <2>1. ASSUME NEW x \in S
        PROVE  /\ x.restaurant \in h.active
               /\ Priced(x, h)
               /\ OpenAt(DemoOf(x.restaurant).hours, a.at)
    BY <1>9 DEF Covering, Priced
  <2>2. ASSUME NEW r \in h.steady, OpenAt(DemoOf(r).hours, a.at),
               ~(Total(Minutes(DemoOf(r).seconds)) > a.minutes)
        PROVE  \E x \in S : x.restaurant = r
    <3>1. PICK i \in DOMAIN list : list[i].restaurant = r
      BY <2>2 DEF Covering
    <3>2. DemoOf(r).seconds \in Nat
      BY <3>1, <1>1, DemoFacts DEF CandidateRow
    <3>3. Total(Minutes(DemoOf(r).seconds)) \in Nat /\ a.minutes \in Nat
      <4>1. Minutes(DemoOf(r).seconds) \in Nat
        BY <3>2, MinutesPositive
      <4>2. a.minutes \in Nat
        BY DEF AskRow
      <4> QED
        BY <4>1, <4>2 DEF Total, DEFAULT_DINING_MINUTES
    <3>4. FitsTime(e[i], a)
      BY <2>2, <3>1, <3>3, <1>2 DEF FitsTime
    <3> QED
      BY <3>1, <3>4, <1>10
  <2>3. ShownBy(answered) = {x.restaurant : x \in S}
    BY <1>7 DEF ShownBy
  <2> QED
    BY <1>7, <2>1, <2>2, <2>3 DEF GoodChoice
<1>13. InOrder(answered)
  <2>1. answered.results = Sorted(S)
    OBVIOUS
  <2> HIDE DEF answered
  <2> QED
    BY <2>1, <1>5, <1>6, SortedFacts DEF InOrder
<1> QED
  BY <1>8, <1>11, <1>12, <1>13 DEF answered, S, e

--------------------------------------------------------------------------------
(* The invariant, request by request                                           *)

CallRow == [ask : Ask \cup {None}, target : Target \cup {None},
            found : SUBSET RestaurantId, candidates : Seq(CandidateRow)]
AnswerRow == [status : Statuses, results : SUBSET [row : ResultRow, place : Nat]]
DuringRow == [active : SUBSET RestaurantId, fitting : SUBSET MealRow,
              steady : SUBSET RestaurantId, lasting : SUBSET MealRow]

Types ==
  /\ routeMode \in RouteMode
  /\ pc \in [Call -> PC]
  /\ call \in [Call -> CallRow]
  /\ timer = {c \in Call : pc[c] \in {"fetch", "body"}}
  /\ answer \in [Call -> AnswerRow]
  /\ during \in [Call -> DuringRow]

One(c) ==
  /\ RequestIInv(c)
  /\ Answered(c) => /\ GoodEstimates(answer[c], call[c].ask)
                    /\ GoodChoice(answer[c], call[c].ask, during[c])
  /\ InOrder(answer[c])

Parts ==
  /\ Types
  /\ CatalogIInv /\ IsFiniteSet(restaurants)
  /\ \A c \in Call : One(c)

LEMMA PartsAreIInv == Parts <=> IInv
<1>1. TypeOK <=> Types /\ CatalogTypeOK
  BY DEF TypeOK, Types, CallRow, AnswerRow, DuringRow
<1>2. \A c \in Call : RowsOf(answer[c]) = Rows(c) /\ ShownBy(answer[c]) = Shown(c)
  BY DEF RowsOf, ShownBy, Rows, Shown
<1>3. EstimatesBelong <=> \A c \in Call : Answered(c) => GoodEstimates(answer[c], call[c].ask)
  BY <1>2 DEF EstimatesBelong, GoodEstimates
<1>4. AnswerBetween <=> \A c \in Call : Answered(c) => GoodChoice(answer[c], call[c].ask, during[c])
  BY <1>2 DEF AnswerBetween, GoodChoice
<1>5. ResultsInOrder <=> \A c \in Call : InOrder(answer[c])
  BY DEF ResultsInOrder, InOrder
<1> QED
  BY <1>1, <1>3, <1>4, <1>5 DEF Parts, IInv, One, CatalogIInv

LEMMA Tables ==
  ASSUME CatalogTypeOK
  PROVE  Active \in SUBSET RestaurantId /\ Available \in SUBSET MealRow
BY DEF CatalogTypeOK, Active, Available

\* A step of request c that leaves the tables and the other requests alone.
LEMMA RequestFrame ==
  ASSUME Parts, NEW c \in Call, UNCHANGED catalogVars, Types', One(c)',
         \A d \in Call : d # c => /\ pc'[d] = pc[d] /\ call'[d] = call[d]
                                  /\ answer'[d] = answer[d] /\ during'[d] = during[d],
         routeMode' = routeMode
  PROVE  Parts'
<1>1. Active' = Active /\ Available' = Available /\ restaurants' = restaurants
  BY DEF catalogVars, Active, Available
<1>2. CatalogIInv' /\ IsFiniteSet(restaurants')
  BY CatalogStep, <1>1 DEF Parts
<1>3. ASSUME NEW d \in Call, d # c PROVE One(d)'
  <2>1. One(d)
    BY DEF Parts
  <2>2. /\ pc'[d] = pc[d] /\ call'[d] = call[d]
        /\ answer'[d] = answer[d] /\ during'[d] = during[d]
    BY <1>3
  <2> QED
    BY <2>1, <2>2, <1>1 DEF One, RequestIInv, HistoryCovers, Answered
<1>4. \A d \in Call : One(d)'
  BY <1>3
<1> QED
  BY <1>2, <1>4 DEF Parts

LEMMA InitParts == Init => Parts
<1> SUFFICES ASSUME Init PROVE Parts
  OBVIOUS
<1>1. CatalogIInv /\ IsFiniteSet(restaurants)
  BY CatalogInitInv, FS_EmptySet DEF Init, CatalogInit
<1>2. \A c \in Call : /\ pc[c] = "idle" /\ call[c] = NoCall
                      /\ InOrder(answer[c])
  BY DEF Init, RequestInit, NoAnswer, InOrder
<1>3. Types
  <2>1. Seen(None, {}, {}) \in DuringRow
    BY DEF Seen, DuringRow
  <2>2. NoCall \in CallRow /\ NoAnswer \in AnswerRow
    BY DEF NoCall, CallRow, NoAnswer, AnswerRow, Statuses
  <2> QED
    BY <2>1, <2>2 DEF Init, RequestInit, Types, PC
<1>4. \A c \in Call : One(c)
  <2>1. \A c \in Call : call[c].ask = None /\ call[c].found = {}
    BY <1>2 DEF NoCall
  <2>2. IsFiniteSet({})
    BY FS_EmptySet
  <2> QED
    BY <1>2, <2>1, <2>2 DEF One, RequestIInv, Answered, Searching
<1> QED
  BY <1>1, <1>3, <1>4 DEF Parts

--------------------------------------------------------------------------------
(* One lemma per action                                                        *)

LEMMA SearchArrivesStep ==
  ASSUME Parts, NEW c \in Call, NEW a \in Ask, SearchArrives(c, a)
  PROVE  Parts'
<1> DEFINE h == Seen(a, Active, Available)
<1>1. Types /\ CatalogTypeOK /\ One(c)
  BY DEF Parts, CatalogIInv
<1>2. Active \in SUBSET RestaurantId /\ Available \in SUBSET MealRow
  BY <1>1, Tables
<1>3. a # None
  BY AskAssumption, NoneAssumption
<1>4. /\ h \in DuringRow /\ h.active = Active
      /\ h.fitting = Fitting(a, Available) /\ h.steady = Active \cap Offering(a, Available)
      /\ h.lasting = Fitting(a, Available)
  <2>1. Fitting(a, Available) \in SUBSET MealRow
    BY <1>2 DEF Fitting
  <2>2. h = [active |-> Active, fitting |-> Fitting(a, Available),
             steady |-> Active \cap Offering(a, Available), lasting |-> Fitting(a, Available)]
    BY <1>3 DEF Seen
  <2> HIDE DEF h
  <2> QED
    BY <2>1, <2>2, <1>2 DEF DuringRow
<1> HIDE DEF h
<1>5. /\ UNCHANGED catalogVars /\ routeMode' = routeMode
      /\ Active' = Active /\ Available' = Available
  BY DEF SearchArrives, catalogVars, Active, Available
<1>6. /\ pc'[c] = "restaurants" /\ call'[c] = [call[c] EXCEPT !.ask = a]
      /\ answer' = answer /\ during'[c] = h
      /\ call'[c].ask = a /\ call'[c].found = call[c].found
  BY <1>1 DEF SearchArrives, Goto, Types, CallRow, h
<1>7. \A d \in Call : d # c => /\ pc'[d] = pc[d] /\ call'[d] = call[d]
                               /\ answer'[d] = answer[d] /\ during'[d] = during[d]
  BY <1>1 DEF SearchArrives, Goto, Types
<1>8. Types'
  BY <1>1, <1>4 DEF SearchArrives, Goto, Types, PC, CallRow, h
<1>9. One(c)'
  BY <1>1, <1>3, <1>4, <1>5, <1>6 DEF One, RequestIInv, HistoryCovers, Answered, Searching
<1> QED
  BY <1>5, <1>7, <1>8, <1>9, RequestFrame

LEMMA DetailArrivesStep ==
  ASSUME Parts, NEW c \in Call, NEW r \in Target, DetailArrives(c, r)
  PROVE  Parts'
<1>1. Types /\ CatalogTypeOK /\ One(c)
  BY DEF Parts, CatalogIInv
<1>2. Seen(None, Active, Available) \in DuringRow
  BY <1>1, Tables DEF Seen, DuringRow
<1>3. UNCHANGED catalogVars /\ routeMode' = routeMode
  BY DEF DetailArrives
<1>4. /\ pc[c] = "idle" /\ pc'[c] = "detail" /\ call'[c] = [call[c] EXCEPT !.target = r]
      /\ call'[c].ask = call[c].ask /\ call'[c].found = call[c].found /\ call'[c].target = r
  BY <1>1 DEF DetailArrives, Goto, Types, CallRow
<1>5. \A d \in Call : d # c => /\ pc'[d] = pc[d] /\ call'[d] = call[d]
                               /\ answer'[d] = answer[d] /\ during'[d] = during[d]
  BY <1>1 DEF DetailArrives, Goto, Types
<1>6. Types'
  BY <1>1, <1>2 DEF DetailArrives, Goto, Types, PC, CallRow
<1>7. One(c)'
  <2>1. r # None
    BY TargetAssumption, NoneAssumption
  <2>2. answer' = answer
    BY DEF DetailArrives
  <2> QED
    BY <2>1, <2>2, <1>1, <1>4 DEF One, RequestIInv, Answered, Searching
<1> QED
  BY <1>3, <1>5, <1>6, <1>7, RequestFrame

LEMMA ReadRestaurantsStep ==
  ASSUME Parts, NEW c \in Call, ReadRestaurants(c)
  PROVE  Parts'
<1>1. Types /\ CatalogTypeOK /\ One(c) /\ IsFiniteSet(restaurants)
  BY DEF Parts, CatalogIInv
<1>2. Active \in SUBSET RestaurantId /\ IsFiniteSet(Active)
  BY <1>1, Tables, FS_Subset DEF Active
<1>3. /\ UNCHANGED catalogVars /\ routeMode' = routeMode
      /\ Active' = Active /\ Available' = Available
  BY DEF ReadRestaurants, catalogVars, Active, Available
<1>4. /\ pc[c] = "restaurants" /\ pc'[c] = "meals" /\ during' = during
      /\ call'[c].ask = call[c].ask /\ call'[c].found = Active
  BY <1>1 DEF ReadRestaurants, Goto, Types, CallRow
<1>5. \A d \in Call : d # c => /\ pc'[d] = pc[d] /\ call'[d] = call[d]
                               /\ answer'[d] = answer[d] /\ during'[d] = during[d]
  BY <1>1 DEF ReadRestaurants, Goto, Types
<1>6. Types'
  BY <1>1, <1>2 DEF ReadRestaurants, Goto, Types, PC, CallRow
<1>7. One(c)'
  <2>1. call[c].ask # None /\ HistoryCovers(c)
    BY <1>1, <1>4 DEF One, RequestIInv, Searching
  <2>2. HistoryCovers(c)'
    BY <2>1, <1>3, <1>4 DEF HistoryCovers
  <2>3. answer' = answer
    BY DEF ReadRestaurants
  <2> QED
    BY <2>1, <2>2, <2>3, <1>1, <1>2, <1>4 DEF One, RequestIInv, HistoryCovers, Answered, Searching
<1> QED
  BY <1>3, <1>5, <1>6, <1>7, RequestFrame

\* A step that only moves c on: HeadersArrive, ReadDetail and QueryFails.
LEMMA MovesOn ==
  ASSUME Parts, NEW c \in Call,
         HeadersArrive(c) \/ ReadDetail(c) \/ QueryFails(c)
  PROVE  Parts'
<1>1. Types /\ One(c)
  BY DEF Parts
<1>2. /\ UNCHANGED catalogVars /\ routeMode' = routeMode
      /\ Active' = Active /\ Available' = Available
  BY DEF HeadersArrive, ReadDetail, QueryFails, catalogVars, Active, Available
<1>3. /\ call' = call /\ during' = during /\ answer' = answer /\ timer' = timer
      /\ \/ pc[c] = "fetch" /\ pc' = [pc EXCEPT ![c] = "body"]
         \/ pc[c] = "detail" /\ pc' = [pc EXCEPT ![c] = "detailMeals"]
         \/ pc[c] \notin {"fetch", "body"} /\ pc' = [pc EXCEPT ![c] = "notFound"]
         \/ pc[c] \notin {"fetch", "body"} /\ pc' = [pc EXCEPT ![c] = "failed"]
  BY DEF HeadersArrive, ReadDetail, QueryFails, Goto
<1>4. \A d \in Call : d # c => /\ pc'[d] = pc[d] /\ call'[d] = call[d]
                               /\ answer'[d] = answer[d] /\ during'[d] = during[d]
  BY <1>1, <1>3 DEF Types
<1>5. Types'
  BY <1>1, <1>2, <1>3 DEF Types, PC
<1>6. One(c)'
  <2>1. CASE pc[c] = "fetch" /\ pc'[c] = "body"
    <3>1. call[c].ask # None /\ HistoryCovers(c)
      BY <2>1, <1>1 DEF One, RequestIInv, Searching
    <3>2. HistoryCovers(c)'
      BY <3>1, <1>2, <1>3 DEF HistoryCovers
    <3> QED
      BY <2>1, <3>1, <3>2, <1>1, <1>2, <1>3 DEF One, RequestIInv, Answered, Searching
  <2>2. CASE pc[c] = "detail" /\ pc'[c] = "detailMeals"
    BY <2>2, <1>1, <1>3 DEF One, RequestIInv, Answered, Searching
  <2>3. CASE pc'[c] \in {"notFound", "failed"}
    BY <2>3, <1>1, <1>3 DEF One, RequestIInv, Answered, Searching
  <2> QED
    BY <2>1, <2>2, <2>3, <1>1, <1>3 DEF Types
<1> QED
  BY <1>2, <1>4, <1>5, <1>6, RequestFrame

\* A search of c is answered with list, of which an adapter made routes.
LEMMA AnsweredOne ==
  ASSUME Parts, NEW c \in Call, NEW list \in Seq(CandidateRow), NEW routes,
         Respond(c, list, routes), call[c].ask # None,
         Truthful(routes, Seconds(list)), Covering(list, call[c].ask, during[c]),
         call' \in [Call -> CallRow], during' = during, routeMode' = routeMode,
         timer' = timer \ {c}, UNCHANGED catalogVars,
         call'[c].ask = call[c].ask, call'[c].found = call[c].found,
         \A d \in Call : d # c => call'[d] = call[d]
  PROVE  Parts'
<1> DEFINE a == call[c].ask
           w == [status |-> routes.status,
                 results |-> Sorted(Results(list, routes.estimates, a))]
<1>1. Types /\ One(c)
  BY DEF Parts
<1>2. a \in AskRow
  BY <1>1, AskAssumption DEF Types, CallRow
<1>3. w \in AnswerRow /\ GoodEstimates(w, a) /\ GoodChoice(w, a, during[c]) /\ InOrder(w)
  BY <1>2, GoodAnswer DEF AnswerRow
<1> HIDE DEF w
<1>4. pc' = [pc EXCEPT ![c] = "answered"] /\ answer' = [answer EXCEPT ![c] = w]
  BY DEF Respond, Goto, w
<1>5. pc'[c] = "answered" /\ answer'[c] = w
  BY <1>1, <1>4 DEF Types
<1>6. \A d \in Call : d # c => /\ pc'[d] = pc[d] /\ call'[d] = call[d]
                               /\ answer'[d] = answer[d] /\ during'[d] = during[d]
  BY <1>1, <1>4 DEF Types
<1>7. Types'
  BY <1>1, <1>3, <1>4 DEF Types, PC
<1>8. One(c)'
  BY <1>1, <1>3, <1>5 DEF One, RequestIInv, Answered, Searching
<1> QED
  BY <1>6, <1>7, <1>8, RequestFrame

LEMMA SettleStep ==
  ASSUME Parts, NEW c \in Call, pc[c] \in {"fetch", "body"}, NEW routes,
         Truthful(routes, Seconds(call[c].candidates)), Settle(c, routes)
  PROVE  Parts'
<1>1. Types /\ One(c)
  BY DEF Parts
<1>2. call[c].candidates \in Seq(CandidateRow)
  BY <1>1 DEF Types, CallRow
<1>3. call[c].ask # None /\ Covering(call[c].candidates, call[c].ask, during[c])
  BY <1>1 DEF One, RequestIInv, Searching
<1>4. /\ Respond(c, call[c].candidates, routes) /\ timer' = timer \ {c}
      /\ UNCHANGED catalogVars /\ routeMode' = routeMode /\ call' = call /\ during' = during
  BY DEF Settle
<1> QED
  BY <1>1, <1>2, <1>3, <1>4, AnsweredOne DEF Types

\* BodyArrives, ProviderFails and TimerFires.
LEMMA ProviderStep ==
  ASSUME Parts, NEW c \in Call,
         BodyArrives(c) \/ ProviderFails(c) \/ TimerFires(c)
  PROVE  Parts'
<1> DEFINE list == call[c].candidates
<1>1. Types /\ One(c)
  BY DEF Parts
<1>2. list \in Seq(CandidateRow)
  BY <1>1 DEF Types, CallRow
<1>3. pc[c] \in {"fetch", "body"}
  BY <1>1 DEF BodyArrives, ProviderFails, TimerFires, Types
<1>4. routeMode \in {"external", "valhalla"}
  BY <1>1, <1>3, ModeAssumption DEF One, RequestIInv, Types
<1>5. Truthful(unavailable(Len(list)), Seconds(list))
  BY <1>2, SecondsSeq, UnavailableTruthful
<1>6. CASE BodyArrives(c)
  <2>1. PICK routes \in HonestRoutes(list) : Settle(c, routes)
    BY <1>6 DEF BodyArrives
  <2>2. Truthful(routes, Seconds(list))
    BY <1>2, <1>4, HonestTruthful
  <2> QED
    BY <1>3, <2>1, <2>2, SettleStep
<1>7. CASE ProviderFails(c) \/ TimerFires(c)
  <2>1. Settle(c, unavailable(Len(list)))
    BY <1>7 DEF ProviderFails, TimerFires
  <2> QED
    BY <1>3, <1>5, <2>1, SettleStep
<1> QED
  BY <1>6, <1>7

LEMMA ReadMealsStep ==
  ASSUME Parts, NEW c \in Call, ReadMeals(c)
  PROVE  Parts'
<1> DEFINE a == call[c].ask
<1>1. Types /\ CatalogTypeOK /\ One(c) /\ pc[c] = "meals"
  BY DEF Parts, CatalogIInv, ReadMeals
<1>2. /\ UNCHANGED catalogVars /\ routeMode' = routeMode /\ during' = during
      /\ Active' = Active /\ Available' = Available
  BY DEF ReadMeals, catalogVars, Active, Available
<1>3. /\ a # None /\ HistoryCovers(c) /\ IsFiniteSet(call[c].found)
      /\ call[c].found \subseteq during[c].active /\ during[c].steady \subseteq call[c].found
  BY <1>1 DEF One, RequestIInv, Searching
<1>4. a \in AskRow /\ call[c].found \in SUBSET RestaurantId
  BY <1>1, <1>3, AskAssumption DEF Types, CallRow
<1>5. Available \in SUBSET MealRow
  BY <1>1, Tables
<1>6. PICK list \in ByName(Candidates(call[c].found, a, Available)) :
         /\ call' = [call EXCEPT ![c].candidates = list]
         /\ \/ /\ list = <<>>
               /\ Respond(c, list, [status |-> "AVAILABLE", estimates |-> <<>>])
               /\ UNCHANGED timer
            \/ /\ list # <<>> /\ routeMode = "deterministic"
               /\ Respond(c, list, DeterministicResponse(Seconds(list)))
               /\ UNCHANGED timer
            \/ /\ list # <<>> /\ routeMode # "deterministic"
               /\ Goto(c, "fetch")
               /\ timer' = timer \cup {c}
               /\ UNCHANGED answer
  BY DEF ReadMeals
<1>7. list \in Seq(CandidateRow) /\ Covering(list, a, during[c])
  BY <1>3, <1>4, <1>5, CandidatesCover DEF HistoryCovers
<1>8. /\ call' \in [Call -> CallRow] /\ \A d \in Call : d # c => call'[d] = call[d]
      /\ call'[c].ask = a /\ call'[c].found = call[c].found /\ call'[c].candidates = list
  BY <1>1, <1>6, <1>7 DEF Types, CallRow
<1>9. c \notin timer
  BY <1>1 DEF Types
<1>10. CASE /\ list = <<>>
            /\ Respond(c, list, [status |-> "AVAILABLE", estimates |-> <<>>])
            /\ UNCHANGED timer
  <2> DEFINE routes == [status |-> "AVAILABLE", estimates |-> <<>>]
  <2>1. DOMAIN Seconds(list) = {}
    <3>1. DOMAIN Seconds(list) = DOMAIN list
      BY <1>7, SecondsSeq
    <3> QED
      BY <3>1, <1>10
  <2>2. Truthful(routes, Seconds(list))
    BY <2>1 DEF Truthful, Statuses
  <2>3. timer' = timer \ {c}
    BY <1>9, <1>10
  <2> HIDE DEF routes
  <2>4. Respond(c, list, routes)
    BY <1>10 DEF routes
  <2> QED
    BY <2>2, <2>3, <2>4, <1>2, <1>3, <1>7, <1>8, AnsweredOne
<1>11. CASE /\ Respond(c, list, DeterministicResponse(Seconds(list)))
            /\ UNCHANGED timer
  <2>1. Truthful(DeterministicResponse(Seconds(list)), Seconds(list))
    BY <1>7, SecondsSeq, DeterministicTruthful
  <2>2. timer' = timer \ {c}
    BY <1>9, <1>11
  <2> QED
    BY <2>1, <2>2, <1>2, <1>3, <1>7, <1>8, <1>11, AnsweredOne
<1>12. CASE /\ routeMode # "deterministic"
            /\ Goto(c, "fetch")
            /\ timer' = timer \cup {c}
            /\ UNCHANGED answer
  <2>1. pc' = [pc EXCEPT ![c] = "fetch"] /\ pc'[c] = "fetch"
    BY <1>1, <1>12 DEF Goto, Types
  <2>2. Types'
    BY <1>1, <1>2, <1>8, <1>12, <2>1 DEF Types, PC
  <2>3. HistoryCovers(c)'
    BY <1>2, <1>3, <1>8 DEF HistoryCovers
  <2>4. One(c)'
    BY <2>1, <2>3, <1>1, <1>2, <1>3, <1>7, <1>8, <1>12 DEF One, RequestIInv, Answered, Searching
  <2>5. \A d \in Call : d # c => /\ pc'[d] = pc[d] /\ call'[d] = call[d]
                                 /\ answer'[d] = answer[d] /\ during'[d] = during[d]
    BY <1>1, <1>2, <1>8, <1>12, <2>1 DEF Types
  <2> QED
    BY <1>2, <2>2, <2>4, <2>5, RequestFrame
<1> QED
  BY <1>6, <1>10, <1>11, <1>12

LEMMA ReadDetailMealsStep ==
  ASSUME Parts, NEW c \in Call, ReadDetailMeals(c)
  PROVE  Parts'
<1> DEFINE r == call[c].target
           offer == {m \in Available : m.restaurant = r}
           k(now) == [restaurant |-> r, opening |-> Opening(r, now),
                      price |-> IF offer = {} THEN 0 ELSE Cheapest(offer)]
           w(now) == [status |-> "UNAVAILABLE", results |-> Sorted({Result(k(now), NoRoute)})]
<1>1. Types /\ CatalogTypeOK /\ One(c) /\ pc[c] = "detailMeals" /\ call[c].ask = None
  BY DEF Parts, CatalogIInv, ReadDetailMeals, One, RequestIInv
<1>2. /\ UNCHANGED catalogVars /\ routeMode' = routeMode /\ call' = call
      /\ during' = during /\ timer' = timer
  BY DEF ReadDetailMeals
<1>3. PICK now \in Instant : answer' = [answer EXCEPT ![c] = w(now)]
  BY DEF ReadDetailMeals
<1>4. r \in RestaurantId
  BY <1>1, TargetAssumption DEF One, RequestIInv, Types, CallRow
<1>5. Opening(r, now) \in OpeningStatuses
  BY <1>4, InstantAssumption, OpeningFacts
<1>6. offer # {} => Cheapest(offer) \in Nat
  <2>1. offer \in SUBSET MealRow
    BY <1>1, Tables
  <2> QED
    BY <2>1, CheapestType
<1>7. Result(k(now), NoRoute) \in ResultRow
  BY <1>4, <1>5, <1>6 DEF Result, ResultRow, NoRoute
<1> HIDE DEF k
<1>8. w(now) \in AnswerRow /\ InOrder(w(now))
  <2> DEFINE S == {Result(k(now), NoRoute)}
  <2>1. IsFiniteSet(S) /\ S \in SUBSET ResultRow
    BY <1>7, FS_Singleton
  <2> HIDE DEF S
  <2>2. /\ Sorted(S) \in SUBSET [row : ResultRow, place : Nat]
        /\ \A x, y \in Sorted(S) : Precedes(x.row, y.row) <=> x.place < y.place
    BY <2>1, SortedFacts
  <2>3. w(now) = [status |-> "UNAVAILABLE", results |-> Sorted(S)]
    BY DEF S
  <2> HIDE DEF w
  <2> QED
    BY <2>2, <2>3 DEF AnswerRow, Statuses, InOrder
<1> HIDE DEF w
<1>9. pc' = [pc EXCEPT ![c] = "answered"] /\ pc'[c] = "answered"
  BY <1>1 DEF ReadDetailMeals, Goto, Types
<1>10. \A d \in Call : d # c => /\ pc'[d] = pc[d] /\ call'[d] = call[d]
                                /\ answer'[d] = answer[d] /\ during'[d] = during[d]
  BY <1>1, <1>2, <1>3, <1>9 DEF Types
<1>11. Types'
  BY <1>1, <1>2, <1>3, <1>8, <1>9 DEF Types, PC
<1>12. One(c)'
  <2>1. answer'[c] = w(now)
    BY <1>1, <1>3 DEF Types
  <2>2. InOrder(answer[c])'
    BY <1>8, <2>1 DEF InOrder
  <2> QED
    BY <2>2, <1>1, <1>2, <1>9 DEF One, RequestIInv, Answered, Searching
<1> QED
  BY <1>2, <1>10, <1>11, <1>12, RequestFrame

\* The tables change: what a running request may have seen widens with them.
LEMMA CatalogChangesStep ==
  ASSUME Parts, CatalogChanges
  PROVE  Parts'
<1>1. /\ Types /\ CatalogIInv /\ CatalogTypeOK /\ IsFiniteSet(restaurants)
      /\ \A c \in Call : One(c)
  BY DEF Parts, CatalogIInv
<1>2. CatalogIInv' /\ CatalogTypeOK'
  <2>1. CatalogIInv'
    BY <1>1, CatalogStep DEF CatalogChanges
  <2> QED
    BY <2>1 DEF CatalogIInv
<1>3. IsFiniteSet(restaurants')
  <2>1. restaurants' = restaurants \/ \E s \in SeedRun : restaurants' = restaurants \cup {<<s, seed[s].demo>>}
    BY DEF CatalogChanges, CatalogNext, StartSeed, FindByName, SaveRestaurant, SaveMeal, KillSeed,
           SwitchRestaurant, SwitchMeal
  <2> QED
    BY <1>1, <2>1, FS_AddElement
<1>4. routeMode' = routeMode /\ pc' = pc /\ call' = call /\ timer' = timer /\ answer' = answer
  BY DEF CatalogChanges, searchVars
<1>5. Active' \in SUBSET RestaurantId /\ Available' \in SUBSET MealRow
  BY <1>2 DEF CatalogTypeOK, Active, Available
<1>6. during' = [c \in Call |-> IF Running(c)
                                THEN Widened(during[c], call[c].ask, Active', Available')
                                ELSE during[c]]
  BY DEF CatalogChanges, Active, Available
<1>7. \A c \in Call : /\ Running(c) => during'[c] = Widened(during[c], call[c].ask, Active', Available')
                      /\ ~Running(c) => during'[c] = during[c]
  BY <1>6
<1>8. ASSUME NEW h \in DuringRow, NEW a
      PROVE  LET g == Widened(h, a, Active', Available')
             IN /\ g \in DuringRow
                /\ h.active \subseteq g.active /\ h.fitting \subseteq g.fitting
                /\ g.steady \subseteq h.steady /\ g.lasting \subseteq h.lasting
                /\ Active' \subseteq g.active
                /\ a # None => /\ Fitting(a, Available') \subseteq g.fitting
                               /\ g.steady \subseteq Active' \cap Offering(a, Available')
                               /\ g.lasting \subseteq Fitting(a, Available')
  <2> DEFINE o == IF a = None THEN {} ELSE Active' \cap Offering(a, Available')
             f == IF a = None THEN {} ELSE Fitting(a, Available')
             g == [active |-> h.active \cup Active', fitting |-> h.fitting \cup f,
                   steady |-> h.steady \cap o, lasting |-> h.lasting \cap f]
  <2>1. Widened(h, a, Active', Available') = g
    BY DEF Widened, Seen
  <2>2. f \in SUBSET MealRow
    BY <1>5 DEF Fitting
  <2> HIDE DEF o, f
  <2>3. /\ g \in DuringRow
        /\ h.active \subseteq g.active /\ h.fitting \subseteq g.fitting
        /\ g.steady \subseteq h.steady /\ g.lasting \subseteq h.lasting
        /\ Active' \subseteq g.active
        /\ f \subseteq g.fitting /\ g.steady \subseteq o /\ g.lasting \subseteq f
    BY <1>5, <2>2 DEF DuringRow
  <2> HIDE DEF g
  <2> QED
    BY <2>1, <2>3 DEF o, f
<1>9. Types'
  <2>1. \A c \in Call : during'[c] \in DuringRow
    BY <1>1, <1>7, <1>8 DEF Types
  <2>2. during' \in [Call -> DuringRow]
    BY <1>6, <2>1
  <2> QED
    BY <1>1, <1>4, <2>2 DEF Types
<1>10. ASSUME NEW c \in Call PROVE One(c)'
  <2>1. One(c) /\ during[c] \in DuringRow /\ pc[c] \in PC
    BY <1>1 DEF Types
  <2>2. CASE Running(c)
    <3>1. /\ during[c].active \subseteq during'[c].active
          /\ during[c].fitting \subseteq during'[c].fitting
          /\ during'[c].steady \subseteq during[c].steady
          /\ during'[c].lasting \subseteq during[c].lasting
          /\ Active' \subseteq during'[c].active
          /\ call[c].ask # None =>
               /\ Fitting(call[c].ask, Available') \subseteq during'[c].fitting
               /\ during'[c].steady \subseteq Active' \cap Offering(call[c].ask, Available')
               /\ during'[c].lasting \subseteq Fitting(call[c].ask, Available')
      BY <1>7, <1>8, <2>1, <2>2
    <3>2. call[c].ask # None => HistoryCovers(c)'
      BY <3>1, <1>4 DEF HistoryCovers
    <3>3. Covering(call[c].candidates, call[c].ask, during[c]) =>
            Covering(call[c].candidates, call[c].ask, during'[c])
      BY <3>1 DEF Covering, Priced
    <3>4. RequestIInv(c)'
      BY <2>1, <3>1, <3>2, <3>3, <1>4 DEF One, RequestIInv
    <3>5. pc'[c] # "answered"
      BY <2>2, <1>4 DEF Running
    <3> QED
      BY <2>1, <3>4, <3>5, <1>4 DEF One, Answered
  <2>3. CASE ~Running(c)
    <3>1. during'[c] = during[c]
      BY <1>7, <2>3
    <3>2. pc[c] \notin Searching
      BY <2>3 DEF Running, Searching
    <3> QED
      BY <2>1, <3>1, <3>2, <1>4 DEF One, RequestIInv, Answered, Searching
  <2> QED
    BY <2>2, <2>3
<1> QED
  BY <1>2, <1>3, <1>9, <1>10 DEF Parts

LEMMA PartsStep ==
  ASSUME Parts, [Next]_vars
  PROVE  Parts'
<1>1. CASE CatalogChanges
  BY <1>1, CatalogChangesStep
<1>2. CASE \E c \in Call : RequestNext(c)
  <2>1. PICK c \in Call : RequestNext(c)
    BY <1>2
  <2> QED
    BY <2>1, SearchArrivesStep, DetailArrivesStep, ReadRestaurantsStep, ReadMealsStep, MovesOn,
       ProviderStep, ReadDetailMealsStep DEF RequestNext, SearchStep
<1>3. CASE UNCHANGED vars
  <2>1. UNCHANGED <<catalogVars, searchVars, during>>
    BY <1>3 DEF vars
  <2>2. Active' = Active /\ Available' = Available /\ restaurants' = restaurants
        /\ UNCHANGED <<routeMode, pc, call, timer, answer, during, catalogVars>>
    BY <2>1 DEF catalogVars, searchVars, Active, Available
  <2>3. CatalogIInv'
    BY <2>2, CatalogStep DEF Parts
  <2> QED
    BY <2>2, <2>3 DEF Parts, Types, One, RequestIInv, HistoryCovers, Answered
<1> QED
  BY <1>1, <1>2, <1>3, [Next]_vars DEF Next

--------------------------------------------------------------------------------
(* Theorems                                                                    *)

\* The invariant, for any number of requests and seed runs, any schedules and any
\* answers of the provider.
THEOREM IInvHolds == Spec => []IInv
<1>1. Spec => []Parts
  BY InitParts, PartsStep, PTL DEF Spec
<1> QED
  BY <1>1, PartsAreIInv, PTL

\* The types; a timer is armed exactly while an adapter waits for its provider
\* (valhalla-route.adapter.ts:45-72).
THEOREM TypeCorrect == Spec => []TypeOK
<1>1. IInv => TypeOK
  BY DEF IInv
<1> QED
  BY <1>1, IInvHolds, PTL

\* A walking time shown is the restaurant's own, whatever the provider reorders, leaves
\* out or repeats (restaurants.service.ts:40-128, valhalla-route.adapter.ts:90-124).
THEOREM EstimatesAreOwn == Spec => []EstimatesBelong
<1>1. IInv => EstimatesBelong
  BY DEF IInv
<1> QED
  BY <1>1, IInvHolds, PTL

\* An answer shows, up to closing times and walks, what the tables held while the
\* request ran (restaurants.service.ts:40-128).
THEOREM AnswersBetweenReads == Spec => []AnswerBetween
<1>1. IInv => AnswerBetween
  BY DEF IInv
<1> QED
  BY <1>1, IInvHolds, PTL

\* The results of a search or a detail stand in the order of the comparison, equal rows
\* side by side (restaurants.service.ts:121).
THEOREM ResultsAreInOrder == Spec => []ResultsInOrder
<1>1. IInv => ResultsInOrder
  BY DEF IInv
<1> QED
  BY <1>1, IInvHolds, PTL

\* Searches do not disturb the seed: what it promises holds beside them
\* (restaurants.seed.ts:176-225).
THEOREM SeedIdempotentBesideSearches == Spec => []SeedIdempotent
<1>1. IInv => SeedIdempotent
  BY DEF IInv, CatalogIInv
<1> QED
  BY <1>1, IInvHolds, PTL

--------------------------------------------------------------------------------
(* Progress                                                                    *)

\* Where a request stands: it waits for a statement, or for the provider.
Reading(c) == pc[c] \in {"restaurants", "meals", "detail", "detailMeals"}
Asking(c) == pc[c] \in {"fetch", "body"}

\* Fairness with the guards of the two actions written out: ENABLED is beyond the
\* provers.  SearchStep(c) is possible while c reads, as a finite set of candidates has
\* a listing by name and Instant is not empty; TimerFires(c) while the timer is armed.
Served ==
    \A c \in Call :
       /\ []<>(~Reading(c)) \/ []<><<SearchStep(c)>>_vars
       /\ []<>(c \notin timer) \/ []<><<TimerFires(c)>>_vars

\* ReadMeals(c) finds a list to go on with, whatever it has read (restaurants.service.ts:43-82).
THEOREM CandidatesCanBeListed ==
  Spec => [](\A c \in Call : pc[c] = "meals" =>
               ByName(Candidates(call[c].found, call[c].ask, Available)) # {})
<1>1. ASSUME Parts, NEW c \in Call, pc[c] = "meals"
      PROVE  ByName(Candidates(call[c].found, call[c].ask, Available)) # {}
  <2>1. Types /\ CatalogTypeOK /\ One(c)
    BY <1>1 DEF Parts, CatalogIInv
  <2>2. call[c].ask # None /\ IsFiniteSet(call[c].found)
    BY <1>1, <2>1 DEF One, RequestIInv, Searching
  <2>3. call[c].ask \in AskRow /\ call[c].found \in SUBSET RestaurantId
    BY <2>1, <2>2, AskAssumption DEF Types, CallRow
  <2>4. Available \in SUBSET MealRow
    BY <2>1, Tables
  <2> QED
    BY <2>2, <2>3, <2>4, CandidatesFacts, ByNameExists
<1>2. Parts => \A c \in Call : pc[c] = "meals" =>
                 ByName(Candidates(call[c].found, call[c].ask, Available)) # {}
  BY <1>1
<1> QED
  BY <1>2, InitParts, PartsStep, PTL DEF Spec

\* A step of c reads on, asks, or ends; steps of others leave c where it stands.
LEMMA ReadingMoves ==
  ASSUME TypeOK, [Next]_vars, NEW c \in Call, Reading(c)
  PROVE  /\ \/ pc'[c] = pc[c]
            \/ ~Running(c)'
            \/ pc[c] = "restaurants" /\ pc'[c] = "meals"
            \/ pc[c] = "meals" /\ Asking(c)'
            \/ pc[c] = "detail" /\ pc'[c] = "detailMeals"
         /\ SearchStep(c) => pc'[c] # pc[c]
<1> USE DEF TypeOK, Reading, Asking, Running
<1>1. ASSUME NEW d \in Call, d # c, RequestNext(d) PROVE pc'[c] = pc[c]
  BY <1>1 DEF RequestNext, SearchArrives, DetailArrives, SearchStep, ReadRestaurants, ReadMeals,
              ReadDetail, ReadDetailMeals, HeadersArrive, BodyArrives, ProviderFails, TimerFires,
              QueryFails, Settle, Respond, Goto
<1>2. CatalogChanges \/ UNCHANGED vars => pc' = pc
  BY DEF CatalogChanges, searchVars, vars
<1>3. ~(\E a \in Ask : SearchArrives(c, a)) /\ ~(\E r \in Target : DetailArrives(c, r))
  BY DEF SearchArrives, DetailArrives
<1>4. ~HeadersArrive(c) /\ ~BodyArrives(c) /\ ~ProviderFails(c) /\ ~TimerFires(c)
  BY DEF HeadersArrive, BodyArrives, ProviderFails, TimerFires
<1>5. SearchStep(c) => \/ ~Running(c)'
                       \/ pc[c] = "restaurants" /\ pc'[c] = "meals"
                       \/ pc[c] = "meals" /\ Asking(c)'
                       \/ pc[c] = "detail" /\ pc'[c] = "detailMeals"
  BY DEF SearchStep, ReadRestaurants, ReadMeals, ReadDetail, ReadDetailMeals, Respond, Goto
<1>6. QueryFails(c) => ~Running(c)'
  BY DEF QueryFails, Goto
<1>7. SearchStep(c) => pc'[c] # pc[c]
  BY DEF SearchStep, ReadRestaurants, ReadMeals, ReadDetail, ReadDetailMeals, Respond, Goto
<1>8. (\E d \in Call : RequestNext(d)) \/ CatalogChanges \/ UNCHANGED vars
  BY DEF Next
<1>9. CASE RequestNext(c)
  BY <1>3, <1>4, <1>5, <1>6, <1>7, <1>9 DEF RequestNext
<1> QED
  BY <1>1, <1>2, <1>7, <1>8, <1>9

\* The wait for the provider goes on or ends the request, and the timer ends it.
LEMMA AskingEnds ==
  ASSUME TypeOK, [Next]_vars, NEW c \in Call, Asking(c)
  PROVE  /\ Asking(c)' \/ ~Running(c)'
         /\ TimerFires(c) => ~Running(c)'
<1> USE DEF TypeOK, Asking, Running
<1>1. ASSUME NEW d \in Call, d # c, RequestNext(d) PROVE pc'[c] = pc[c]
  BY <1>1 DEF RequestNext, SearchArrives, DetailArrives, SearchStep, ReadRestaurants, ReadMeals,
              ReadDetail, ReadDetailMeals, HeadersArrive, BodyArrives, ProviderFails, TimerFires,
              QueryFails, Settle, Respond, Goto
<1>2. CASE CatalogChanges \/ UNCHANGED vars
  BY <1>2 DEF CatalogChanges, searchVars, vars, TimerFires, Settle, Respond, Goto
<1>3. RequestNext(c) => HeadersArrive(c) \/ BodyArrives(c) \/ ProviderFails(c) \/ TimerFires(c)
  BY DEF RequestNext, SearchArrives, DetailArrives, SearchStep, ReadRestaurants, ReadMeals,
         ReadDetail, ReadDetailMeals, QueryFails
<1>4. HeadersArrive(c) => Asking(c)'
  BY DEF HeadersArrive, Goto
<1>5. BodyArrives(c) \/ ProviderFails(c) \/ TimerFires(c) => ~Running(c)'
  BY DEF BodyArrives, ProviderFails, TimerFires, Settle, Respond, Goto
<1>6. (\E d \in Call : RequestNext(d)) \/ CatalogChanges \/ UNCHANGED vars
  BY DEF Next
<1> QED
  BY <1>1, <1>2, <1>3, <1>4, <1>5, <1>6

\* Every request is answered although the provider never has to be: the database
\* answers, and the one timer that finally disarms covers the wait for the headers and
\* the wait for the body (restaurants.service.ts:40-128, valhalla-route.adapter.ts:45-72).
THEOREM EveryRequestEnds == Spec /\ Served => RequestAnswered
<1>1. SUFFICES ASSUME NEW c \in Call
               PROVE  Spec /\ Served => (Running(c) ~> ~Running(c))
  BY DEF RequestAnswered
<1>2. Served => /\ []<>(~Reading(c)) \/ []<><<SearchStep(c)>>_vars
                /\ []<>(c \notin timer) \/ []<><<TimerFires(c)>>_vars
  BY DEF Served
<1>3. TypeOK => /\ Running(c) => Reading(c) \/ Asking(c)
                /\ c \notin timer <=> ~Asking(c)
                /\ Reading(c) <=> \/ pc[c] = "restaurants" \/ pc[c] = "meals"
                                  \/ pc[c] = "detail" \/ pc[c] = "detailMeals"
  BY DEF TypeOK, PC, Running, Reading, Asking
<1>4. TypeOK /\ [Next]_vars /\ pc[c] = "restaurants" =>
        /\ (pc[c] = "restaurants")' \/ (pc[c] = "meals")' \/ ~Running(c)'
        /\ SearchStep(c) => ~(pc[c] = "restaurants")'
  BY ReadingMoves DEF Reading, Asking
<1>5. TypeOK /\ [Next]_vars /\ pc[c] = "meals" =>
        /\ (pc[c] = "meals")' \/ Asking(c)' \/ ~Running(c)'
        /\ SearchStep(c) => ~(pc[c] = "meals")'
  BY ReadingMoves DEF Reading, Asking
<1>6. TypeOK /\ [Next]_vars /\ pc[c] = "detail" =>
        /\ (pc[c] = "detail")' \/ (pc[c] = "detailMeals")' \/ ~Running(c)'
        /\ SearchStep(c) => ~(pc[c] = "detail")'
  BY ReadingMoves DEF Reading, Asking
<1>7. TypeOK /\ [Next]_vars /\ pc[c] = "detailMeals" =>
        /\ (pc[c] = "detailMeals")' \/ ~Running(c)'
        /\ SearchStep(c) => ~(pc[c] = "detailMeals")'
  BY ReadingMoves DEF Reading, Asking
<1>8. TypeOK /\ [Next]_vars /\ Asking(c) =>
        /\ Asking(c)' \/ ~Running(c)'
        /\ TimerFires(c) => ~Running(c)'
  BY AskingEnds
<1>9. ~Running(c) => ~Reading(c) /\ ~Asking(c)
  BY DEF Running, Reading, Asking
<1> QED
  BY <1>2, <1>3, <1>4, <1>5, <1>6, <1>7, <1>8, <1>9, TypeCorrect, PTL DEF Spec
================================================================================
