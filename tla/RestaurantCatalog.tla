--------------------------- MODULE RestaurantCatalog ---------------------------
(***************************************************************************)
(* The tables restaurants and meals and what writes them: runs of the      *)
(* restaurant seed, each statement a transaction of its own, that may      *)
(* overlap and may be killed; and an operator with SQL, who switches       *)
(* restaurants and meals off and on (the API never writes these tables).   *)
(*                                                                         *)
(* A run creates at most one row per demo restaurant, so <<run, demo>>     *)
(* names the row and [restaurant, item] its meals; the code draws the ids  *)
(* with gen_random_uuid.  What a row says is found in Demo.                *)
(***************************************************************************)
EXTENDS OpeningHours

CONSTANTS
    SeedRun,     \* executions of npm run seed:restaurants
    Demo,        \* DEMO_RESTAURANTS, each with its meals
    Label,       \* dietary tags and meal categories
    MaxEdits     \* bound: how often the operator switches something

\* Names are ranks in the locale's order, ratings count hundredths of a star, and
\* seconds is the walk from where the requests are made.
DemoMeal == [price : Nat, labels : SUBSET Label]
DemoRestaurant == [name : Nat, rating : 0..500, seconds : Nat, hours : SUBSET Periods,
                   meals : Seq(DemoMeal) \ {<<>>}]

ASSUME DemoAssumption == Demo \in Seq(DemoRestaurant) \ {<<>>}
ASSUME EditsAssumption == MaxEdits \in Nat

VARIABLES
    restaurants,   \* the rows of restaurants, by id
    meals,         \* the rows of meals
    inactive,      \* the restaurants with active = FALSE
    soldOut,       \* the meals with available = FALSE
    seed,          \* seed[s]: where run s is, and which runs had ended when it began
    abandoned,     \* history: the restaurants a killed run was filling
    edits          \* how often the operator has switched something

catalogVars == <<restaurants, meals, inactive, soldOut, seed, abandoned, edits>>

RestaurantId == SeedRun \X DOMAIN Demo
DemoOf(r) == Demo[r[2]]

MealRow == {m \in [restaurant : RestaurantId, item : Nat \ {0}] :
              m.item \in DOMAIN DemoOf(m.restaurant).meals}
MealOf(m) == DemoOf(m.restaurant).meals[m.item]

Active == restaurants \ inactive
Available == meals \ soldOut

--------------------------------------------------------------------------------
(* The seed                                                                *)

CatalogInit ==
    /\ restaurants = {} /\ meals = {} /\ inactive = {} /\ soldOut = {}
    /\ seed = [s \in SeedRun |-> [pc |-> "idle", demo |-> 1, item |-> 1, before |-> {}]]
    /\ abandoned = {}
    /\ edits = 0

Ended(s) == seed[s].pc \in {"done", "killed"}

StartSeed(s) ==
    /\ seed[s].pc = "idle"
    /\ seed' = [seed EXCEPT ![s].pc = "find", ![s].before = {t \in SeedRun : Ended(t)}]
    /\ UNCHANGED <<restaurants, meals, inactive, soldOut, abandoned, edits>>

\* The next round of the loop over DEMO_RESTAURANTS, or its end.
NextDemo(k) == IF k.demo = Len(Demo) THEN [k EXCEPT !.pc = "done"]
               ELSE [k EXCEPT !.pc = "find", !.demo = k.demo + 1, !.item = 1]

\* Fault: restaurants that were switched off are not found.
FindActiveByName(s) ==
    /\ seed[s].pc = "find"
    /\ seed' = [seed EXCEPT ![s] =
                  IF \E r \in Active : r[2] = seed[s].demo THEN NextDemo(seed[s])
                  ELSE [seed[s] EXCEPT !.pc = "create"]]
    /\ UNCHANGED <<restaurants, meals, inactive, soldOut, abandoned, edits>>

\* A restaurant of this name is left as it is, with the meals it has or has not.
FindByName(s) ==
    /\ seed[s].pc = "find"
    /\ seed' = [seed EXCEPT ![s] =
                  IF \E r \in restaurants : r[2] = seed[s].demo THEN NextDemo(seed[s])
                  ELSE [seed[s] EXCEPT !.pc = "create"]]
    /\ UNCHANGED <<restaurants, meals, inactive, soldOut, abandoned, edits>>

SaveRestaurant(s) ==
    /\ seed[s].pc = "create"
    /\ restaurants' = restaurants \cup {<<s, seed[s].demo>>}
    /\ seed' = [seed EXCEPT ![s].pc = "fill"]
    /\ UNCHANGED <<meals, inactive, soldOut, abandoned, edits>>

SaveMeal(s) ==
    /\ seed[s].pc = "fill"
    /\ LET k == seed[s]
       IN /\ meals' = meals \cup {[restaurant |-> <<s, k.demo>>, item |-> k.item]}
          /\ seed' = [seed EXCEPT ![s] =
                        IF k.item = Len(Demo[k.demo].meals) THEN NextDemo(k)
                        ELSE [k EXCEPT !.item = k.item + 1]]
    /\ UNCHANGED <<restaurants, inactive, soldOut, abandoned, edits>>

\* The process dies, or a statement of it fails and ends it.
KillSeed(s) ==
    /\ seed[s].pc \in {"find", "create", "fill"}
    /\ seed' = [seed EXCEPT ![s].pc = "killed"]
    /\ abandoned' = IF seed[s].pc = "fill" THEN abandoned \cup {<<s, seed[s].demo>>} ELSE abandoned
    /\ UNCHANGED <<restaurants, meals, inactive, soldOut, edits>>

--------------------------------------------------------------------------------
(* The operator                                                            *)

Switched(S, x) == IF x \in S THEN S \ {x} ELSE S \cup {x}

SwitchRestaurant(r) ==
    /\ edits < MaxEdits
    /\ inactive' = Switched(inactive, r)
    /\ edits' = edits + 1
    /\ UNCHANGED <<restaurants, meals, soldOut, seed, abandoned>>

SwitchMeal(m) ==
    /\ edits < MaxEdits
    /\ soldOut' = Switched(soldOut, m)
    /\ edits' = edits + 1
    /\ UNCHANGED <<restaurants, meals, inactive, seed, abandoned>>

CatalogNext ==
    \/ \E s \in SeedRun :
         \/ StartSeed(s)
         \/ FindByName(s)
         \/ SaveRestaurant(s)
         \/ SaveMeal(s)
         \/ KillSeed(s)
    \/ \E r \in restaurants : SwitchRestaurant(r)
    \/ \E m \in meals : SwitchMeal(m)

CatalogSpec == CatalogInit /\ [][CatalogNext]_catalogVars

--------------------------------------------------------------------------------
(* Properties                                                              *)

SeedPC == {"idle", "find", "create", "fill", "done", "killed"}

\* The types of the tables and of the runs of the seed.
CatalogTypeOK ==
    /\ restaurants \subseteq RestaurantId
    /\ meals \subseteq MealRow
    /\ inactive \subseteq restaurants
    /\ soldOut \subseteq meals
    /\ seed \in [SeedRun -> [pc : SeedPC, demo : DOMAIN Demo, item : Nat \ {0},
                             before : SUBSET SeedRun]]
    /\ abandoned \subseteq restaurants
    /\ edits \in 0..MaxEdits

Overlap(s, t) == s \notin seed[t].before /\ t \notin seed[s].before

\* A run that ends normally leaves no demo restaurant missing.
NoneMissing ==
    \A s \in SeedRun : seed[s].pc = "done" =>
       \A d \in DOMAIN Demo : \E r \in restaurants : r[2] = d

\* Only runs that overlap create a restaurant twice.
NoneTwice ==
    \A r, q \in restaurants : r[2] = q[2] /\ r # q => Overlap(r[1], q[1])

\* Only a kill leaves a restaurant without all of its meals.
NoneHalf ==
    \A r \in restaurants :
       \/ \A i \in DOMAIN DemoOf(r).meals : [restaurant |-> r, item |-> i] \in meals
       \/ seed[r[1]].pc = "fill" /\ seed[r[1]].demo = r[2]
       \/ r \in abandoned

\* What "Idempotent" (src/src/database/seeds/restaurants.seed.ts:11) holds for: after
\* any number of runs, whatever the operator switched, each demo restaurant is there,
\* once unless runs overlapped, and complete unless a run was killed on it.
SeedIdempotent == NoneMissing /\ NoneTwice /\ NoneHalf

--------------------------------------------------------------------------------
(* The inductive invariant of the proofs                                   *)

HasRow(d) == \E r \in restaurants : r[2] = d

\* How far each run has come: what it has passed over exists, and what it fills
\* contains the items before the next one.
Progress ==
    \A s \in SeedRun :
       /\ seed[s].pc \in {"find", "create", "fill"} => \A d \in 1..(seed[s].demo - 1) : HasRow(d)
       /\ seed[s].pc \in {"idle", "find", "create"} => seed[s].item = 1
       /\ seed[s].pc = "idle" => seed[s].demo = 1
       /\ seed[s].pc = "fill" =>
            /\ <<s, seed[s].demo>> \in restaurants
            /\ seed[s].item \in DOMAIN Demo[seed[s].demo].meals
            /\ \A i \in 1..(seed[s].item - 1) :
                 [restaurant |-> <<s, seed[s].demo>>, item |-> i] \in meals

\* A run that ended earlier stays ended, and what it left is found.
EarlierRuns ==
    \A s \in SeedRun :
       /\ \A t \in seed[s].before : Ended(t)
       /\ seed[s].pc = "idle" => \A r \in restaurants : r[1] # s
       /\ seed[s].pc = "create" =>
            \A r \in restaurants : r[2] = seed[s].demo => r[1] \notin seed[s].before

CatalogIInv == CatalogTypeOK /\ SeedIdempotent /\ Progress /\ EarlierRuns
================================================================================
