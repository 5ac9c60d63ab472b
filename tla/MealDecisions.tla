----------------------------- MODULE MealDecisions -----------------------------
(***************************************************************************)
(* POST meal-decisions/compare as it runs against the database: three      *)
(* reads, one request to the route provider, then the run and, in a        *)
(* transaction of its own, its alternatives.  Between two steps the pantry *)
(* and the catalogue change, the account may be deleted and the process    *)
(* may stop.                                                               *)
(*                                                                         *)
(* A run is named by the call that stores it (its id is gen_random_uuid).  *)
(* The route provider, the inventory and the catalogue are seen only       *)
(* through what compare reads from them.                                   *)
(***************************************************************************)
EXTENDS MealRanking

CONSTANTS
    Call,           \* the compare requests clients ever send
    User,           \* accounts
    Request,        \* the bodies clients send
    Catalog,        \* states of the tables restaurants and meals
    Restaurant,     \* the ids of restaurants
    Label,          \* dietary tags and meal categories
    ExpiringCount,  \* how many active items of a user may expire in three days
    WalkMinutes,    \* the walking times the route provider answers with
    MaxInt4         \* largest value of a PostgreSQL integer column

VARIABLES
    accounts,      \* table users
    pantry,        \* pantry[u]: items of u expiring within three days
    catalog,       \* tables restaurants and meals
    runs,          \* table recommendation_runs: a function on the stored runs
    alternatives,  \* table recommendation_alternatives
    pc,            \* pc[c]: the next step of call c
    call           \* call[c]: what c asks, what it has read, its candidates

vars == <<accounts, pantry, catalog, runs, alternatives, pc, call>>

RequestRow == [minutes : Nat \ {0}, budget : Nat, delivery : BOOLEAN,
               wants : SUBSET Label, at : Nat]
RestaurantRow == [id : Restaurant, name : Nat, rating : 0..500, openAt : SUBSET Nat,
                  delivers : BOOLEAN, deliveryMinutes : Nat, fee : Nat]
MealRow == [restaurant : Restaurant, price : Nat, labels : SUBSET Label]

ASSUME RequestAssumption == Request \subseteq RequestRow
ASSUME CatalogAssumption ==
    Catalog \subseteq [restaurants : SUBSET RestaurantRow, meals : SUBSET MealRow]
ASSUME CountAssumption == ExpiringCount \subseteq Nat
ASSUME WalkAssumption == WalkMinutes \subseteq Nat \ {0}
ASSUME MaxInt4Assumption == MaxInt4 \in Nat

--------------------------------------------------------------------------------

NoCall == [user |-> Null, request |-> Null, expiring |-> 0, restaurants |-> {},
           meals |-> {}, candidates |-> {}]

Init ==
    /\ accounts = User
    /\ pantry \in [User -> ExpiringCount]
    /\ catalog \in Catalog
    /\ runs = [c \in {} |-> Null]
    /\ alternatives = {}
    /\ pc = [c \in Call |-> "idle"]
    /\ call = [c \in Call |-> NoCall]

Goto(c, label) == pc' = [pc EXCEPT ![c] = label]

\* The guard has found the account; its existence is not checked again.
Arrive(c, u, q) ==
    /\ pc[c] = "idle"
    /\ u \in accounts
    /\ call' = [call EXCEPT ![c].user = u, ![c].request = q]
    /\ Goto(c, "expiring")
    /\ UNCHANGED <<accounts, pantry, catalog, runs, alternatives>>

\* getExpiring(user, 3): only the number of items matters to the ranking.
ReadExpiring(c) ==
    /\ pc[c] = "expiring"
    /\ call' = [call EXCEPT ![c].expiring =
                   IF call[c].user \in accounts THEN pantry[call[c].user] ELSE 0]
    /\ Goto(c, "restaurants")
    /\ UNCHANGED <<accounts, pantry, catalog, runs, alternatives>>

ReadRestaurants(c) ==
    /\ pc[c] = "restaurants"
    /\ call' = [call EXCEPT ![c].restaurants = catalog.restaurants]
    /\ Goto(c, "meals")
    /\ UNCHANGED <<accounts, pantry, catalog, runs, alternatives>>

ReadMeals(c) ==
    /\ pc[c] = "meals"
    /\ call' = [call EXCEPT ![c].meals = catalog.meals]
    /\ Goto(c, "rank")
    /\ UNCHANGED <<accounts, pantry, catalog, runs, alternatives>>

\* The provider answers a time or nothing for each restaurant it is asked about;
\* a failed request is nothing for all of them, never an error.
RankCandidates(c) ==
    /\ pc[c] = "rank"
    /\ LET k == call[c]
           asked == {e.restaurant.id : e \in Eligible(k.restaurants, k.meals, k.request)}
       IN \E walk \in [asked -> WalkMinutes \cup {Null}] :
          \E candidates \in CandidateSets(k.expiring, k.restaurants, k.meals, walk, k.request) :
             call' = [call EXCEPT ![c].candidates = candidates,
                                  ![c].restaurants = {}, ![c].meals = {}, ![c].expiring = 0]
    /\ Goto(c, "saveRun")
    /\ UNCHANGED <<accounts, pantry, catalog, runs, alternatives>>

\* Fault: the answer does not wait for the alternatives.
SaveRunOnly(c) ==
    /\ pc[c] = "saveRun"
    /\ call[c].user \in accounts
    /\ runs' = [r \in DOMAIN runs \cup {c} |->
                  IF r = c
                  THEN [user |-> call[c].user, minutes |-> call[c].request.minutes,
                        budget |-> call[c].request.budget,
                        explanation |-> WinnersExplanation(call[c].candidates, call[c].request)]
                  ELSE runs[r]]
    /\ Goto(c, "answered")
    /\ UNCHANGED <<accounts, pantry, catalog, alternatives, call>>

\* INSERT INTO recommendation_runs: the columns are 32-bit, the account must exist.
SaveRun(c) ==
    /\ pc[c] = "saveRun"
    /\ LET k == call[c]
       IN IF \/ k.user \notin accounts
             \/ k.request.minutes > MaxInt4
             \/ k.request.budget > MaxInt4
          THEN Goto(c, "failed") /\ UNCHANGED runs
          ELSE /\ runs' = [r \in DOMAIN runs \cup {c} |->
                             IF r = c
                             THEN [user |-> k.user, minutes |-> k.request.minutes,
                                   budget |-> k.request.budget,
                                   explanation |-> WinnersExplanation(k.candidates, k.request)]
                             ELSE runs[r]]
               /\ Goto(c, IF k.candidates = {} THEN "answered" ELSE "saveAlternatives")
    /\ UNCHANGED <<accounts, pantry, catalog, alternatives, call>>

Rows(c) == {[run |-> c, row |-> a] : a \in Ranked(call[c].candidates, call[c].request)}

\* Fault: no foreign key from the alternatives to their run.
SaveAlternativesUnchecked(c) ==
    /\ pc[c] = "saveAlternatives"
    /\ Goto(c, "answered")
    /\ alternatives' = alternatives \cup Rows(c)
    /\ UNCHANGED <<accounts, pantry, catalog, runs, call>>

\* One transaction for all rows; it fails when the run has gone with its account.
SaveAlternatives(c) ==
    /\ pc[c] = "saveAlternatives"
    /\ IF c \notin DOMAIN runs
       THEN Goto(c, "failed") /\ UNCHANGED alternatives
       ELSE Goto(c, "answered") /\ alternatives' = alternatives \cup Rows(c)
    /\ UNCHANGED <<accounts, pantry, catalog, runs, call>>

--------------------------------------------------------------------------------
(* The environment                                                         *)

\* The process stops: the running calls are never answered.
Crash ==
    /\ \E c \in Call : pc[c] \notin {"idle", "answered", "failed", "lost"}
    /\ pc' = [c \in Call |->
                IF pc[c] \in {"idle", "answered", "failed"} THEN pc[c] ELSE "lost"]
    /\ UNCHANGED <<accounts, pantry, catalog, runs, alternatives, call>>

ChangePantry(u) ==
    /\ u \in accounts
    /\ \E n \in ExpiringCount : pantry' = [pantry EXCEPT ![u] = n]
    /\ UNCHANGED <<accounts, catalog, runs, alternatives, pc, call>>

ChangeCatalog ==
    /\ catalog' \in Catalog
    /\ UNCHANGED <<accounts, pantry, runs, alternatives, pc, call>>

\* DELETE FROM users cascades to the runs and to their alternatives.
DeleteAccount(u) ==
    /\ u \in accounts
    /\ accounts' = accounts \ {u}
    /\ runs' = [r \in {s \in DOMAIN runs : runs[s].user # u} |-> runs[r]]
    /\ alternatives' = {a \in alternatives : runs[a.run].user # u}
    /\ UNCHANGED <<pantry, catalog, pc, call>>

Next ==
    \/ \E c \in Call :
         \/ \E u \in User, q \in Request : Arrive(c, u, q)
         \/ ReadExpiring(c)
         \/ ReadRestaurants(c)
         \/ ReadMeals(c)
         \/ RankCandidates(c)
         \/ SaveRun(c)
         \/ SaveAlternatives(c)
    \/ Crash
    \/ ChangeCatalog
    \/ \E u \in User : ChangePantry(u) \/ DeleteAccount(u)

Spec == Init /\ [][Next]_vars

--------------------------------------------------------------------------------
(* Properties                                                              *)

PC == {"idle", "expiring", "restaurants", "meals", "rank", "saveRun",
       "saveAlternatives", "answered", "failed", "lost"}
CandidateRow == [type : Types, minutes : Nat, cost : Nat, expiring : Nat,
                 rating : 0..500 \cup {Null}]
ExplanationType == {Explanations[i] : i \in 1..4}
Int4 == 0..MaxInt4
RunRow == [user : User, minutes : Int4 \ {0}, budget : Int4,
           explanation : ExplanationType \cup {Null}]
CallRow == [user : User \cup {Null}, request : Request \cup {Null}, expiring : Nat,
            restaurants : SUBSET RestaurantRow, meals : SUBSET MealRow,
            candidates : SUBSET CandidateRow]
AlternativeRow == [type : Types, rank : 1..3, score : 0..100, minutes : Int4, cost : Int4]

\* The types of the variables.  The rank and score columns also carry the CHECK
\* constraints of the entity (rank > 0, 0 <= score <= 100): no answer breaks them.
\* Minutes and amounts are int4 columns, and the DTO has no upper bound: what is stored
\* fits them, and once the run is stored so does every alternative, fee included.
TypeOK ==
    /\ accounts \subseteq User
    /\ pantry \in [User -> ExpiringCount]
    /\ catalog \in Catalog
    /\ DOMAIN runs \subseteq Call
    /\ \A r \in DOMAIN runs : runs[r] \in RunRow
    /\ alternatives \subseteq [run : Call, row : AlternativeRow]
    /\ pc \in [Call -> PC]
    /\ call \in [Call -> CallRow]

StoredRows(c) == {a.row : a \in {b \in alternatives : b.run = c}}

\* Whatever changes while compare runs, each stored alternative fits the minutes
\* and the budget stored with its run: round trip and delivery fee included.
AlternativesFit ==
    \A a \in alternatives :
       a.run \in DOMAIN runs =>
          /\ a.row.minutes <= runs[a.run].minutes
          /\ a.row.cost <= runs[a.run].budget

\* A client that has a recommendationId finds behind it the run and every
\* alternative it was shown, as long as its account exists (saveRun returns the id
\* only after both saves).
AnsweredRunIsComplete ==
    \A c \in Call :
       pc[c] = "answered" /\ call[c].user \in accounts =>
          /\ c \in DOMAIN runs
          /\ StoredRows(c) = Ranked(call[c].candidates, call[c].request)

\* An account deleted at any point of a compare leaves no run and no alternative.
NothingOutlivesItsAccount ==
    /\ \A r \in DOMAIN runs : runs[r].user \in accounts
    /\ \A a \in alternatives : a.run \in DOMAIN runs

\* At least as good in everything the strategies look at, better in time or cost.
Dominates(a, b) ==
    /\ a.minutes <= b.minutes /\ a.cost <= b.cost
    /\ a.minutes < b.minutes \/ a.cost < b.cost
    /\ a.expiring >= b.expiring
    /\ ContextCompatibility(a) >= ContextCompatibility(b)

\* Rounding four scores and their mean never lets an alternative overtake one that
\* is at least as good in every respect and faster or cheaper.
BetterRanksFirst ==
    \A c \in Call : \A a, b \in call[c].candidates :
       Dominates(a, b) =>
          \A x, y \in StoredRows(c) : x.type = a.type /\ y.type = b.type => x.rank < y.rank

\* The strategy "smart feature's core signal" never explains a run: where COOK
\* wins its cost of 0 already scores 100, and the first best strategy is taken.
ExpirationNeverExplains ==
    \A r \in DOMAIN runs : runs[r].explanation # "EXPIRATION_PRIORITY"

\* What mainExplanation says of the recommended alternative: BUDGET_PRIORITY is
\* "the cheapest option that fits your available time", TIME_PRIORITY "the fastest
\* option that fits your budget".
MainExplanationHolds ==
    \A r \in DOMAIN runs : \A x, y \in StoredRows(r) :
       x.rank = 1 =>
          /\ runs[r].explanation = "BUDGET_PRIORITY" => x.cost <= y.cost
          /\ runs[r].explanation = "TIME_PRIORITY" => x.minutes <= y.minutes

--------------------------------------------------------------------------------
(* The inductive invariant of the proofs                                   *)

\* A run repeats what its call asked and decided, and exists only once saved.
RunsRepeatTheirCall ==
    \A r \in DOMAIN runs :
       /\ r \in Call
       /\ pc[r] \in {"saveAlternatives", "answered", "lost"}
       /\ call[r].user \in accounts
       /\ call[r].request \in Request
       /\ runs[r] = [user |-> call[r].user, minutes |-> call[r].request.minutes,
                     budget |-> call[r].request.budget,
                     explanation |-> WinnersExplanation(call[r].candidates, call[r].request)]

\* Alternatives are those of an answered call whose run is still there.
AlternativesBelongToAnswers ==
    \A a \in alternatives :
       a.run \in DOMAIN runs /\ pc[a.run] = "answered" /\ a \in Rows(a.run)

\* A call that has saved its run and still has its account has its run, and once it
\* is answered every alternative too.
SavedCallsAreStored ==
    \A c \in Call :
       call[c].user \in accounts =>
          /\ pc[c] \in {"saveAlternatives", "answered"} => c \in DOMAIN runs
          /\ pc[c] = "answered" => Rows(c) \subseteq alternatives

Fits(k, q) ==
    /\ k \in CandidateRow
    /\ k.minutes <= q.minutes /\ k.cost <= q.budget
    /\ k.rating = Null => k.cost = 0
    /\ k.rating # Null => k.expiring = 0

OneOfAType(S) == \A x, y \in S : x.type = y.type => x = y

\* The candidates of a call are its request's: at most one of each type, fitting.
CandidatesFit ==
    \A c \in Call :
       /\ pc[c] = "idle" => call[c].candidates = {}
       /\ pc[c] # "idle" => call[c].request \in Request
       /\ OneOfAType(call[c].candidates)
       /\ \A k \in call[c].candidates : Fits(k, call[c].request)

\* The inductive invariant: stored runs and alternatives trace back to their call.
IInv ==
    /\ TypeOK
    /\ RunsRepeatTheirCall
    /\ AlternativesBelongToAnswers
    /\ SavedCallsAreStored
    /\ CandidatesFit
================================================================================
