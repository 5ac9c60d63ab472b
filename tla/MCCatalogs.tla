------------------------------ MODULE MCCatalogs ------------------------------
(* The two catalogs side by side: restaurants with their searches, and         *)
(* recipes.  They share no state, so a behavior of the one says nothing about  *)
(* the other: focus chooses which of them moves, and TLC explores the sum of   *)
(* their states instead of the product.                                        *)
EXTENDS RestaurantSearch, RecipeCatalog, TLC

CONSTANTS s1, s2, s3, c1

VARIABLE focus

(* Restaurants: of a weekday and of a night, and a day that never opens.       *)
MCLabel == {"VEGAN"}
Hours(day, from, to) == [dayOfWeek |-> day, opensAt |-> from, closesAt |-> to]
Dish(price, labels) == [price |-> price, labels |-> labels]

MCDemo ==
    <<[name |-> 2, rating |-> 460, seconds |-> 290,
       hours |-> {Hours(5, <<7, 0>>, <<20, 0>>), Hours(6, <<9, 0>>, <<9, 0>>)},
       meals |-> <<Dish(17, {"VEGAN"}), Dish(12, {})>>],
      [name |-> 1, rating |-> 420, seconds |-> 650,
       hours |-> {Hours(5, <<18, 0>>, <<2, 0>>)},
       meals |-> <<Dish(12, {"VEGAN"})>>]>>

(* Searches while both are open, where the farther one is just out of reach or *)
(* just within it, and one after midnight.                                     *)
Friday(hour, minute) == 20756 * MinutesPerDay + (hour + 5) * 60 + minute
Asking(minutes, budget, wants, at) == [minutes |-> minutes, budget |-> budget, wants |-> wants, at |-> at]
MCAsk == {Asking(36, 12, {}, Friday(19, 40)), Asking(37, 12, {"VEGAN"}, Friday(25, 45))}
MCTarget == {<<s1, 2>>}
MCInstant == {Friday(25, 0)}
MCRouteMode == {"deterministic", "external", "valhalla"}

(* Destinations are listed by name, the farther restaurant first.  The provider *)
(* sends no row, an empty one, one by position, some targets in another order,  *)
(* and a null that a later cell for the same target overrules.                  *)
CellOf(to, time) == [to |-> to, time |-> time]
MCMatrix ==
    {<<>>, <<<<>>>>,
     <<<<CellOf(NoIndex, 650), CellOf(NoIndex, 290)>>>>,
     <<<<CellOf(NoIndex, NoTime), CellOf(NoIndex, 290)>>>>,
     <<<<CellOf(1, 290), CellOf(0, 650)>>>>,
     <<<<CellOf(1, 290)>>>>,
     <<<<CellOf(1, NoTime), CellOf(0, 650)>>>>,
     <<<<CellOf(0, NoTime), CellOf(1, 650), CellOf(0, 650)>>>>}

(* Recipe catalogs: two contents of one version, a second version, and one in  *)
(* which tomato satisfies two ingredients.                                     *)
Part(keys, optional) == [keys |-> keys, optional |-> optional]
Recipe(id, parts) == [id |-> id, ingredients |-> parts, inBounds |-> TRUE]
Release(version, at, recipes) ==
    [version |-> version, generatedAt |-> at, recipes |-> recipes, inBounds |-> TRUE]

MCText == {"Tomato", "tomato", "salt"}
MCNormal == [t \in MCText |-> IF t = "Tomato" THEN "tomato" ELSE t]
Soup == Recipe("soup", <<Part(<<"tomato">>, FALSE), Part(<<"salt">>, TRUE)>>)
Twice == Recipe("twice", <<Part(<<"tomato">>, FALSE), Part(<<"salt", "tomato">>, TRUE)>>)
MCAuthored ==
    {Release("v1", 1, <<Soup>>), Release("v1", 1, <<>>), Release("v2", 2, <<Soup>>),
     Release("v3", 3, <<Twice>>)}

(* The tables after an undisturbed run s1, a state the seed reaches.           *)
Seeded ==
    /\ restaurants = {<<s1, d>> : d \in DOMAIN Demo}
    /\ meals = {m \in [restaurant : restaurants, item : 1..2] :
                  m.item \in DOMAIN DemoOf(m.restaurant).meals}
    /\ inactive = {} /\ soldOut = {} /\ abandoned = {} /\ edits = 0
    /\ seed = [s \in SeedRun |-> [pc |-> IF s = s1 THEN "done" ELSE "idle",
                                  demo |-> IF s = s1 THEN 2 ELSE 1, item |-> 1, before |-> {}]]

(* Everything is tried with the adapter in production; the others start on     *)
(* seeded tables.                                                              *)
MCInit ==
    /\ focus \in {"restaurants", "recipes"}
    /\ routeMode \in RouteMode
    /\ IF focus = "recipes" \/ routeMode = "valhalla" THEN CatalogInit ELSE Seeded
    /\ RequestInit
    /\ RecipeInit
    /\ focus = "restaurants" => authored = [s \in RecipeRun |-> Release("v2", 2, <<Soup>>)]
    /\ focus = "recipes" => routeMode = "valhalla"

(* Bound: the tables stop changing when every request has read them; what they  *)
(* hold afterwards only widens what AnswerBetween lets an answer be.            *)
StillReading(c) == pc[c] \in {"idle", "restaurants", "meals", "detail", "detailMeals"}

MCNext ==
    \/ /\ focus = "restaurants"
       /\ \/ CatalogChanges /\ \E c \in Call : StillReading(c)
          \/ \E c \in Call : RequestNext(c)
       /\ UNCHANGED <<focus, recipeVars>>
    \/ /\ focus = "recipes"
       /\ RecipeNext
       /\ UNCHANGED <<focus, vars>>

MCSpec == MCInit /\ [][MCNext]_<<focus, vars, recipeVars>> /\ Fairness
=============================================================================
