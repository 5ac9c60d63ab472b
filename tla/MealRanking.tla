------------------------------ MODULE MealRanking ------------------------------
(***************************************************************************)
(* The pure part of the Cook / Walk / Order comparison: which candidates   *)
(* a request admits, the four strategy scores, and the order of the        *)
(* answer.  MealDecisions runs it as a handler against the database.       *)
(*                                                                         *)
(* Ratings are counted in hundredths of a star (0..500).  Names are ranks  *)
(* in the locale's order, since they only break ties.                      *)
(***************************************************************************)
EXTENDS Integers, FiniteSets

CONSTANTS TiesDown,   \* <<part, whole>> whose double falls just below an exact half
          Null

ASSUME TiesDownAssumption == TiesDown \subseteq Nat \X Nat

Types == {"COOK", "WALK", "ORDER"}
Explanations == <<"TIME_PRIORITY", "BUDGET_PRIORITY",
                  "EXPIRATION_PRIORITY", "CONTEXT_COMPATIBILITY">>

ASSUME NullAssumption == Null \notin Int /\ \A i \in 1..4 : Null # Explanations[i]

CookMinutes == 20
CookCost == 0
DiningMinutes == 15

--------------------------------------------------------------------------------
(* Candidates                                                              *)

\* Meals of a restaurant that fit the budget and everything the request asks for.
MatchingMeals(r, meals, q) ==
  {m \in meals : m.restaurant = r.id /\ m.price <= q.budget /\ q.wants \subseteq m.labels}

\* The cheapest matching meal is the one shown (name and id only choose among equals).
SelectedMeals(r, meals, q) ==
  {m \in MatchingMeals(r, meals, q) :
     \A n \in MatchingMeals(r, meals, q) : m.price <= n.price}

\* The restaurants open at the requested instant, each with its selected meal.
Eligible(restaurants, meals, q) ==
  {e \in [restaurant : restaurants, meal : meals] :
     /\ q.at \in e.restaurant.openAt
     /\ e.meal \in SelectedMeals(e.restaurant, meals, q)}

WalkTotal(walkingMinutes) == 2 * walkingMinutes + DiningMinutes

\* What WALK can offer: a restaurant without a route or out of time is dropped.
WalkOptions(eligible, walk, q) ==
  {[minutes |-> WalkTotal(walk[e.restaurant.id]), fee |-> 0, price |-> e.meal.price,
    rating |-> e.restaurant.rating, name |-> e.restaurant.name] :
     e \in {f \in eligible : /\ walk[f.restaurant.id] # Null
                            /\ WalkTotal(walk[f.restaurant.id]) <= q.minutes}}

DeliveryOf(e) ==
  [minutes |-> e.restaurant.deliveryMinutes, fee |-> e.restaurant.fee, price |-> e.meal.price,
   rating |-> e.restaurant.rating, name |-> e.restaurant.name]

\* Fault: only the meal is held against the budget, not the delivery fee.
OrderOptionsWithoutFee(eligible, q) ==
  {DeliveryOf(e) : e \in {f \in eligible :
     q.delivery /\ f.restaurant.delivers /\ f.restaurant.deliveryMinutes <= q.minutes}}

\* What ORDER can offer: the fee counts against the budget.
OrderOptions(eligible, q) ==
  {DeliveryOf(e) : e \in {f \in eligible :
     /\ q.delivery
     /\ f.restaurant.delivers
     /\ f.restaurant.deliveryMinutes <= q.minutes
     /\ f.meal.price + f.restaurant.fee <= q.budget}}

\* Less time, then a cheaper meal, then a better rating, then the name.
Better(a, b) ==
  \/ a.minutes < b.minutes
  \/ a.minutes = b.minutes /\ a.price < b.price
  \/ a.minutes = b.minutes /\ a.price = b.price /\ a.rating > b.rating
  \/ /\ a.minutes = b.minutes /\ a.price = b.price /\ a.rating = b.rating
     /\ a.name < b.name

\* Among equals the first row read wins; the query has no ORDER BY, so any may.
Best(options) == {o \in options : \A p \in options : ~Better(p, o)}

AsCandidate(type, o) ==
  [type |-> type, minutes |-> o.minutes, cost |-> o.price + o.fee,
   expiring |-> 0, rating |-> o.rating]

CookCandidates(expiring, q) ==
  {c \in {[type |-> "COOK", minutes |-> CookMinutes, cost |-> CookCost,
           expiring |-> expiring, rating |-> Null]} :
     expiring > 0 /\ c.minutes <= q.minutes /\ c.cost <= q.budget}

\* At most one candidate of a type: any of the best options, when there is one.
Offers(type, options) ==
  IF options = {} THEN {{}} ELSE {{AsCandidate(type, o)} : o \in Best(options)}

\* Every set of candidates the request may be answered with.
CandidateSets(expiring, restaurants, meals, walk, q) ==
  LET eligible == Eligible(restaurants, meals, q)
  IN {CookCandidates(expiring, q) \cup w \cup o :
        w \in Offers("WALK", WalkOptions(eligible, walk, q)),
        o \in Offers("ORDER", OrderOptions(eligible, q))}

--------------------------------------------------------------------------------
(* Scores                                                                  *)

\* Math.round(100 * (1 - part / whole)).  Half rounds up, except where the
\* double of an exact half lies just below it.
FitScore(part, whole) ==
  LET left == 200 * (whole - part)
      dips == left % (2 * whole) = whole /\ <<part, whole>> \in TiesDown
  IN (left + whole) \div (2 * whole) - (IF dips THEN 1 ELSE 0)

TimeFit(c, q) == IF c.minutes > q.minutes THEN 0 ELSE FitScore(c.minutes, q.minutes)

\* Fault: no budget means no score, even for what costs nothing.
BudgetFitWithoutBudget(c, q) ==
  IF q.budget = 0 \/ c.cost > q.budget THEN 0 ELSE FitScore(c.cost, q.budget)

BudgetFit(c, q) ==
  IF q.budget = 0 THEN IF c.cost = 0 THEN 100 ELSE 0
  ELSE IF c.cost > q.budget THEN 0 ELSE FitScore(c.cost, q.budget)

ExpirationPriority(c) == IF c.expiring >= 4 THEN 100 ELSE 25 * c.expiring

\* Null for COOK only; hundredths of a star times 100 / 5, rounded, are fifths.
ContextCompatibility(c) == IF c.rating = Null THEN 100 ELSE (c.rating + 2) \div 5

StrategyScores(c, q) ==
  <<TimeFit(c, q), BudgetFit(c, q), ExpirationPriority(c), ContextCompatibility(c)>>

\* Fault: the mean of three strategies after a fourth has been added.
ScoreOfThree(c, q) ==
  LET s == StrategyScores(c, q) IN (s[1] + s[2] + s[3] + s[4] + 1) \div 3

Score(c, q) ==
  LET s == StrategyScores(c, q) IN (s[1] + s[2] + s[3] + s[4] + 2) \div 4

\* The first strategy with the highest score explains the candidate.
Dominant(s) ==
  CHOOSE i \in 1..4 : (\A j \in 1..4 : s[j] <= s[i]) /\ (\A j \in 1..(i - 1) : s[j] < s[i])

Explanation(c, q) == Explanations[Dominant(StrategyScores(c, q))]

--------------------------------------------------------------------------------
(* Ranking                                                                 *)

TypeOrder(type) == CASE type = "COOK" -> 0 [] type = "WALK" -> 1 [] type = "ORDER" -> 2

\* Fault: equal scores are ordered by type alone.
AheadByType(a, b, q) ==
  \/ Score(a, q) > Score(b, q)
  \/ Score(a, q) = Score(b, q) /\ TypeOrder(a.type) < TypeOrder(b.type)

Ahead(a, b, q) ==
  \/ Score(a, q) > Score(b, q)
  \/ /\ Score(a, q) = Score(b, q)
     /\ \/ a.minutes < b.minutes
        \/ a.minutes = b.minutes /\ a.cost < b.cost
        \/ a.minutes = b.minutes /\ a.cost = b.cost /\ TypeOrder(a.type) < TypeOrder(b.type)

Rank(c, candidates, q) == 1 + Cardinality({d \in candidates : Ahead(d, c, q)})

\* One row per candidate; rank 1 is the recommended one.
Ranked(candidates, q) ==
  {[type |-> c.type, rank |-> Rank(c, candidates, q), score |-> Score(c, q),
    minutes |-> c.minutes, cost |-> c.cost] : c \in candidates}

\* The explanation stored with the run: the winner's, or none without a winner.
WinnersExplanation(candidates, q) ==
  IF candidates = {} THEN Null
  ELSE Explanation(CHOOSE c \in candidates : \A d \in candidates : ~Ahead(d, c, q), q)
================================================================================
