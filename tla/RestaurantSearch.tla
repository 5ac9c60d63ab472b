---------------------------- MODULE RestaurantSearch ----------------------------
(***************************************************************************)
(* POST restaurants/search and GET restaurants/:id against the tables of   *)
(* RestaurantCatalog and a route provider outside the program.             *)
(*                                                                         *)
(* A handler reads restaurants and meals in two statements, then asks the  *)
(* configured adapter for walking times.  The adapter of an external       *)
(* provider arms a timer before the request and disarms it when the body   *)
(* has been read, or the request has failed; the provider may answer, fail *)
(* or stay silent.  Everything a handler does between two waits is one     *)
(* step: nothing else runs in the process meanwhile.                       *)
(***************************************************************************)
EXTENDS RestaurantCatalog, RouteMatrix, FiniteSets

CONSTANTS
    Call,        \* requests
    Ask,         \* bodies of POST restaurants/search
    Target,      \* the restaurants clients ask the detail of
    Instant,     \* instants at which a detail may be answered
    Matrix,      \* what an external provider may answer
    RouteMode,   \* ROUTE_PROVIDER_MODE, as configured
    None

AskRow == [minutes : Nat \ {0}, budget : Nat, wants : SUBSET Label, at : Int]

ASSUME AskAssumption == Ask \subseteq AskRow
ASSUME TargetAssumption == Target \subseteq RestaurantId
ASSUME InstantAssumption == Instant \subseteq Int
ASSUME MatrixAssumption == Matrix \subseteq Seq(Seq(Cell))
ASSUME ModeAssumption == RouteMode \subseteq {"deterministic", "external", "valhalla"}
ASSUME NoneAssumption == None \notin AskRow /\ None \notin RestaurantId

VARIABLES
    routeMode,   \* the adapter in use, fixed at start
    pc,          \* pc[c]: the next step of request c
    call,        \* call[c]: what c asks, found, and takes for candidates
    timer,       \* the requests whose abort timer is armed
    answer,      \* answer[c]: the response to c
    during       \* history: what the tables held while c was running

searchVars == <<routeMode, pc, call, timer, answer>>
vars == <<catalogVars, searchVars, during>>

--------------------------------------------------------------------------------
(* The parts of a search                                                   *)

DEFAULT_DINING_MINUTES == 15
Total(walk) == 2 * walk + DEFAULT_DINING_MINUTES

\* The meals that fit the budget, the diet and the category, and those of a restaurant.
Fitting(a, available) ==
  {m \in available : MealOf(m).price <= a.budget /\ a.wants \subseteq MealOf(m).labels}

Eligible(r, a, available) == {m \in Fitting(a, available) : m.restaurant = r}

Cheapest(S) ==
  CHOOSE p \in {MealOf(m).price : m \in S} : \A m \in S : p <= MealOf(m).price

Opening(r, at) == evaluateOpeningStatus(DemoOf(r).hours, at)

Candidate(r, a, available) ==
  [restaurant |-> r, opening |-> Opening(r, a.at), price |-> Cheapest(Eligible(r, a, available))]

Candidates(found, a, available) ==
  {Candidate(r, a, available) :
     r \in {x \in found : Opening(x, a.at) # "CLOSED" /\ Eligible(x, a, available) # {}}}

\* The sequences that list each element of a set once.
Listings(S) == {f \in [1..Cardinality(S) -> S] : \A x \in S : \E i \in DOMAIN f : f[i] = x}

\* ORDER BY name, id; the ids are random.
ByName(S) ==
  {f \in Listings(S) : \A i, j \in DOMAIN f :
     i < j => DemoOf(f[i].restaurant).name <= DemoOf(f[j].restaurant).name}

\* A restaurant is dropped only when its route is known and takes too long.
FitsTime(walk, a) == walk = NoRoute \/ Total(walk) <= a.minutes

Result(k, walk) == [restaurant |-> k.restaurant, opening |-> k.opening, price |-> k.price, walk |-> walk]

Results(list, estimates, a) ==
  {Result(list[i], estimates[i]) : i \in {j \in DOMAIN list : FitsTime(estimates[j], a)}}

\* compareRestaurantResults, up to the id: a known route first, then the shorter, the
\* cheaper, the better rated one, then the name.
Precedes(x, y) ==
  LET p == DemoOf(x.restaurant)
      q == DemoOf(y.restaurant)
  IN \/ x.walk # NoRoute /\ y.walk = NoRoute
     \/ x.walk < y.walk /\ x.walk # NoRoute
     \/ /\ x.walk = y.walk
        /\ \/ x.price < y.price
           \/ x.price = y.price /\ p.rating > q.rating
           \/ x.price = y.price /\ p.rating = q.rating /\ p.name < q.name

\* The trailing sort, as the place of each result; the random id parts equals.
Place(x, S) == 1 + Cardinality({y \in S : Precedes(y, x)})
Sorted(S) == {[row |-> x, place |-> Place(x, S)] : x \in S}

--------------------------------------------------------------------------------
(* History: what a request may have seen                                   *)

Offering(a, available) == {r \in RestaurantId : Eligible(r, a, available) # {}}

\* The restaurants that were active, and the fitting meals that were available, at some
\* time while c ran; the restaurants that were active and had one, and the fitting meals
\* that were available, all the time.
Seen(a, active, available) ==
  IF a = None THEN [active |-> active, fitting |-> {}, steady |-> {}, lasting |-> {}]
  ELSE [active |-> active, fitting |-> Fitting(a, available),
        steady |-> active \cap Offering(a, available), lasting |-> Fitting(a, available)]

Widened(h, a, active, available) ==
  LET now == Seen(a, active, available)
  IN [active |-> h.active \cup now.active, fitting |-> h.fitting \cup now.fitting,
      steady |-> h.steady \cap now.steady, lasting |-> h.lasting \cap now.lasting]

Running(c) == pc[c] \notin {"idle", "answered", "notFound", "failed"}

--------------------------------------------------------------------------------
(* Search                                                                  *)

NoCall == [ask |-> None, target |-> None, found |-> {}, candidates |-> <<>>]
NoAnswer == [status |-> "UNAVAILABLE", results |-> {}]

RequestInit ==
    /\ pc = [c \in Call |-> "idle"]
    /\ call = [c \in Call |-> NoCall]
    /\ timer = {}
    /\ answer = [c \in Call |-> NoAnswer]
    /\ during = [c \in Call |-> Seen(None, {}, {})]

Init == CatalogInit /\ RequestInit /\ routeMode \in RouteMode

Goto(c, label) == pc' = [pc EXCEPT ![c] = label]

SearchArrives(c, a) ==
    /\ pc[c] = "idle"
    /\ Goto(c, "restaurants")
    /\ call' = [call EXCEPT ![c].ask = a]
    /\ during' = [during EXCEPT ![c] = Seen(a, Active, Available)]
    /\ UNCHANGED <<catalogVars, routeMode, timer, answer>>

ReadRestaurants(c) ==
    /\ pc[c] = "restaurants"
    /\ Goto(c, "meals")
    /\ call' = [call EXCEPT ![c].found = Active]
    /\ UNCHANGED <<catalogVars, routeMode, timer, answer, during>>

\* The response to c, given a candidate list and what the adapter made of it.
Respond(c, list, routes) ==
    /\ Goto(c, "answered")
    /\ answer' = [answer EXCEPT ![c] =
          [status |-> routes.status,
           results |-> Sorted(Results(list, routes.estimates, call[c].ask))]]

Seconds(list) == [i \in DOMAIN list |-> DemoOf(list[i].restaurant).seconds]

\* Without a candidate no adapter is asked; the deterministic one answers at once.
ReadMeals(c) ==
    /\ pc[c] = "meals"
    /\ UNCHANGED <<catalogVars, routeMode, during>>
    /\ \E candidates \in {Candidates(call[c].found, call[c].ask, Available)} :
       \E list \in ByName(candidates) :
         /\ call' = [call EXCEPT ![c].candidates = list]
         /\ \/ /\ list = <<>>
               /\ Respond(c, list, [status |-> "AVAILABLE", estimates |-> <<>>])
               /\ UNCHANGED timer
            \/ /\ list # <<>> /\ routeMode = "deterministic"
               /\ Respond(c, list, DeterministicResponse(Seconds(list)))
               /\ UNCHANGED timer
            \/ /\ list # <<>> /\ routeMode # "deterministic"
               /\ Goto(c, "fetch")
               /\ timer' = timer \cup {c}
               /\ UNCHANGED answer

--------------------------------------------------------------------------------
(* The adapters of an external provider                                    *)

\* Fault: the timer is disarmed as soon as the headers have arrived.
HeadersDisarm(c) ==
    /\ pc[c] = "fetch"
    /\ Goto(c, "body")
    /\ timer' = timer \ {c}
    /\ UNCHANGED <<catalogVars, routeMode, call, answer, during>>

\* fetch resolves with a 2xx status; response.json() still waits for the body.
HeadersArrive(c) ==
    /\ pc[c] = "fetch"
    /\ Goto(c, "body")
    /\ UNCHANGED <<catalogVars, routeMode, call, timer, answer, during>>

\* The finally block, on every way out of the request.
Settle(c, routes) ==
    /\ Respond(c, call[c].candidates, routes)
    /\ timer' = timer \ {c}
    /\ UNCHANGED <<catalogVars, routeMode, call, during>>

\* What an honest answer of the provider may be turned into.
HonestRoutes(list) ==
  {mapResponse(routeMode, matrix, Len(list)) :
     matrix \in {m \in Matrix : Honest(routeMode, m, Seconds(list))}}

BodyArrives(c) ==
    /\ pc[c] = "body"
    /\ \E routes \in HonestRoutes(call[c].candidates) : Settle(c, routes)

\* No connection, a status that is not 2xx, or a body that is not JSON.
ProviderFails(c) ==
    /\ pc[c] \in {"fetch", "body"}
    /\ Settle(c, unavailable(Len(call[c].candidates)))

\* Fault: the abort reaches fetch only, and the wait for the body goes on.
AbortReachesFetchOnly(c) ==
    /\ c \in timer /\ pc[c] = "fetch"
    /\ Settle(c, unavailable(Len(call[c].candidates)))

\* The abort makes fetch, or json, reject; both are caught.
TimerFires(c) ==
    /\ c \in timer
    /\ Settle(c, unavailable(Len(call[c].candidates)))

--------------------------------------------------------------------------------
(* Detail                                                                  *)

DetailArrives(c, r) ==
    /\ pc[c] = "idle"
    /\ Goto(c, "detail")
    /\ call' = [call EXCEPT ![c].target = r]
    /\ during' = [during EXCEPT ![c] = Seen(None, Active, Available)]
    /\ UNCHANGED <<catalogVars, routeMode, timer, answer>>

ReadDetail(c) ==
    /\ pc[c] = "detail"
    /\ Goto(c, IF call[c].target \in Active THEN "detailMeals" ELSE "notFound")
    /\ UNCHANGED <<catalogVars, routeMode, call, timer, answer, during>>

\* The cheapest meal on offer, or 0; the route is not part of a detail.
ReadDetailMeals(c) ==
    /\ pc[c] = "detailMeals"
    /\ \E now \in Instant :
         LET r == call[c].target
             offer == {m \in Available : m.restaurant = r}
             summary == [restaurant |-> r, opening |-> Opening(r, now),
                         price |-> IF offer = {} THEN 0 ELSE Cheapest(offer)]
         IN answer' = [answer EXCEPT ![c] =
                         [status |-> "UNAVAILABLE", results |-> Sorted({Result(summary, NoRoute)})]]
    /\ Goto(c, "answered")
    /\ UNCHANGED <<catalogVars, routeMode, call, timer, during>>

\* A query that fails ends the request with an error.
QueryFails(c) ==
    /\ pc[c] \in {"restaurants", "meals", "detail", "detailMeals"}
    /\ Goto(c, "failed")
    /\ UNCHANGED <<catalogVars, routeMode, call, timer, answer, during>>

CatalogChanges ==
    /\ CatalogNext
    /\ UNCHANGED searchVars
    /\ during' = [c \in Call |->
                    IF Running(c)
                    THEN Widened(during[c], call[c].ask, restaurants' \ inactive', meals' \ soldOut')
                    ELSE during[c]]

SearchStep(c) == ReadRestaurants(c) \/ ReadMeals(c) \/ ReadDetail(c) \/ ReadDetailMeals(c)

RequestNext(c) ==
    \/ \E a \in Ask : SearchArrives(c, a)
    \/ \E r \in Target : DetailArrives(c, r)
    \/ SearchStep(c)
    \/ HeadersArrive(c)
    \/ BodyArrives(c)
    \/ ProviderFails(c)
    \/ TimerFires(c)
    \/ QueryFails(c)

Next == CatalogChanges \/ \E c \in Call : RequestNext(c)

Spec == Init /\ [][Next]_vars

\* The database answers and the event loop runs timers.  Nothing makes the provider
\* answer, a client ask, or a seed run.
Fairness == \A c \in Call : WF_vars(SearchStep(c)) /\ WF_vars(TimerFires(c))

FairSpec == Spec /\ Fairness

--------------------------------------------------------------------------------
(* Properties                                                              *)

PC == {"idle", "restaurants", "meals", "fetch", "body", "detail", "detailMeals",
       "answered", "notFound", "failed"}
CandidateRow == [restaurant : RestaurantId, opening : OpeningStatuses, price : Nat]
ResultRow == [restaurant : RestaurantId, opening : OpeningStatuses, price : Nat, walk : Nat]

\* The types of the variables; a timer is armed exactly while an adapter waits, so no
\* request leaves one behind.
TypeOK ==
    /\ CatalogTypeOK
    /\ routeMode \in RouteMode
    /\ pc \in [Call -> PC]
    /\ call \in [Call -> [ask : Ask \cup {None}, target : Target \cup {None},
                          found : SUBSET RestaurantId, candidates : Seq(CandidateRow)]]
    /\ timer = {c \in Call : pc[c] \in {"fetch", "body"}}
    /\ answer \in [Call -> [status : Statuses, results : SUBSET [row : ResultRow, place : Nat]]]
    /\ during \in [Call -> [active : SUBSET RestaurantId, fitting : SUBSET MealRow,
                            steady : SUBSET RestaurantId, lasting : SUBSET MealRow]]

Answered(c) == pc[c] = "answered" /\ call[c].ask # None
Rows(c) == {x.row : x \in answer[c].results}
Shown(c) == {x.restaurant : x \in Rows(c)}

\* However the provider orders, shortens or spoils its answer and whenever the timer
\* fires: a walking time shown is that of its restaurant, leaves time for the round
\* trip and the meal, and routeProviderStatus says which restaurants have one.
EstimatesBelong ==
    \A c \in Call : Answered(c) =>
       /\ \A x \in Rows(c) : x.walk # NoRoute =>
            /\ x.walk = Minutes(DemoOf(x.restaurant).seconds)
            /\ Total(x.walk) <= call[c].ask.minutes
       /\ answer[c].status = "AVAILABLE" => \A x \in Rows(c) : x.walk # NoRoute
       /\ answer[c].status = "UNAVAILABLE" => \A x \in Rows(c) : x.walk = NoRoute
       /\ answer[c].status = "PARTIAL" => \E x \in Rows(c) : x.walk = NoRoute

\* The price of a row is that of a fitting meal of its restaurant, available meanwhile,
\* and none that was available all the time is cheaper.
Priced(row, h) ==
    /\ \E m \in h.fitting : m.restaurant = row.restaurant /\ MealOf(m).price = row.price
    /\ \A m \in h.lasting : m.restaurant = row.restaurant => row.price <= MealOf(m).price

\* Whatever seeds and operator change between the two reads and the answer: a search
\* shows only restaurants that were active and offered a fitting meal while it ran and
\* are open at the requested instant, at the price of such a meal, and hides none that
\* was and did all the time, unless the way there takes too long.
AnswerBetween ==
    \A c \in Call : Answered(c) =>
       LET a == call[c].ask
       IN /\ Shown(c) \subseteq during[c].active
          /\ \A x \in Rows(c) : Priced(x, during[c])
          /\ \A r \in Shown(c) : OpenAt(DemoOf(r).hours, a.at)
          /\ \A r \in during[c].steady :
               \/ ~OpenAt(DemoOf(r).hours, a.at)
               \/ r \in Shown(c)
               \/ Total(Minutes(DemoOf(r).seconds)) > a.minutes

\* A row is placed before another exactly if the comparison prefers it, whatever the
\* other rows are: the chain of ties in compareRestaurantResults is one order
\* (restaurants.service.ts:248-273).
ResultsInOrder ==
    \A c \in Call : \A x, y \in answer[c].results :
       Precedes(x.row, y.row) <=> x.place < y.place

\* Every request is answered, even when the provider never is: the timer covers the
\* wait for the headers and the wait for the body.
RequestAnswered == \A c \in Call : Running(c) ~> ~Running(c)

--------------------------------------------------------------------------------
(* The inductive invariant of the proofs                                   *)

\* What the history says of a search that is still running.
HistoryCovers(c) ==
    LET a == call[c].ask
    IN /\ Active \subseteq during[c].active
       /\ Fitting(a, Available) \subseteq during[c].fitting
       /\ during[c].steady \subseteq Active \cap Offering(a, Available)
       /\ during[c].lasting \subseteq Fitting(a, Available)

\* A candidate was active and offered a fitting meal at its price; only closed
\* restaurants that were and did all the time are not among the candidates.
Covering(list, a, h) ==
    /\ \A i \in DOMAIN list :
         /\ list[i].restaurant \in h.active
         /\ Priced(list[i], h)
         /\ OpenAt(DemoOf(list[i].restaurant).hours, a.at)
    /\ \A r \in h.steady :
         OpenAt(DemoOf(r).hours, a.at) => \E i \in DOMAIN list : list[i].restaurant = r

Searching == {"restaurants", "meals", "fetch", "body"}

RequestIInv(c) ==
    /\ pc[c] \in {"idle", "detail", "detailMeals"} => call[c].ask = None
    /\ pc[c] \in {"detail", "detailMeals"} => call[c].target # None
    /\ pc[c] \in Searching => call[c].ask # None /\ HistoryCovers(c)
    /\ pc[c] = "meals" => /\ call[c].found \subseteq during[c].active
                          /\ during[c].steady \subseteq call[c].found
    /\ pc[c] \in {"fetch", "body"} => /\ routeMode # "deterministic"
                                      /\ Covering(call[c].candidates, call[c].ask, during[c])
    /\ IsFiniteSet(call[c].found)

IInv ==
    /\ TypeOK /\ CatalogIInv
    /\ IsFiniteSet(restaurants)
    /\ \A c \in Call : RequestIInv(c)
    /\ EstimatesBelong /\ AnswerBetween /\ ResultsInOrder
================================================================================
