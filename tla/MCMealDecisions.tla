---------------------------- MODULE MCMealDecisions ----------------------------
(* Values for model checking MealDecisions: restaurants and meals chosen so    *)
(* that scores tie, round in both directions and just fail to fit.             *)
EXTENDS MealDecisions

Place(id, name, rating, delivers, minutes, fee, openAt) ==
    [id |-> id, name |-> name, rating |-> rating, openAt |-> openAt,
     delivers |-> delivers, deliveryMinutes |-> minutes, fee |-> fee]
Dish(r, price, labels) == [restaurant |-> r, price |-> price, labels |-> labels]

MCRestaurant == {"r1", "r2"}
MCLabel == {"VEGAN"}

\* r1 is close and well rated; it delivers, does not, or has closed down.  r2 is
\* cheap to order from but slow, and at the limit of the budget once the fee is added.
Close(delivers) == Place("r1", 1, 400, delivers, 16, 0, {0, 1})
Slow == Place("r2", 2, 250, TRUE, 23, 3, {0})

MCCatalog ==
    {[restaurants |-> {Close(TRUE), Slow},
      meals |-> {Dish("r1", 5, {"VEGAN"}), Dish("r2", 1, {}), Dish("r2", 37, {"VEGAN"})}],
     [restaurants |-> {Close(FALSE), Slow},
      meals |-> {Dish("r1", 5, {"VEGAN"}), Dish("r2", 1, {})}],
     [restaurants |-> {Slow},
      meals |-> {Dish("r1", 5, {"VEGAN"}), Dish("r2", 38, {})}]}

Ask(minutes, budget, delivery, wants, at) ==
    [minutes |-> minutes, budget |-> budget, delivery |-> delivery, wants |-> wants, at |-> at]

MCRequest ==
    {Ask(40, 40, TRUE, {}, 0), Ask(40, 40, FALSE, {"VEGAN"}, 0), Ask(23, 40, TRUE, {}, 1),
     Ask(60, 0, TRUE, {}, 0), Ask(1000, 40, TRUE, {}, 0), Ask(20, 1001, TRUE, {}, 0)}

MCTiesDown == {<<17, 40>>, <<27, 40>>, <<31, 40>>, <<37, 40>>}
================================================================================
