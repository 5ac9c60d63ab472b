------------------------------ MODULE MCAnalytics ------------------------------
(* Interactions for model checking Analytics: two accounts, one of them with   *)
(* the same clientEventId as the other, on both sides of a month's end.        *)
EXTENDS Analytics

Used(id, user, feature, at) ==
    [id |-> id, user |-> user, type |-> "FEATURE_USED", feature |-> feature,
     zone |-> "centro", band |-> "LOW", at |-> at]

MCUsageBody ==
    {Used("e1", "u1", "RESTAURANT_SEARCH", 1), Used("e2", "u1", "RESTAURANT_SEARCH", 1),
     Used("e1", "u2", "RESTAURANT_DETAIL", 1),
     [Used("e3", "u2", "RECIPES", 4) EXCEPT !.type = "SESSION_STARTED"],
     [Used("e4", "u2", Null, 3) EXCEPT !.type = "SESSION_STARTED", !.zone = Null, !.band = Null]}

MCRun ==
    {[id |-> "r1", user |-> "u1", explanation |-> "TIME_PRIORITY", zone |-> "centro",
      offers |-> {[type |-> "COOK", category |-> Null, cost |-> 0],
                  [type |-> "ORDER", category |-> "SUSHI", cost |-> 16000]}],
     [id |-> "r2", user |-> "u2", explanation |-> Null, zone |-> "centro", offers |-> {}]}

MCEventBody ==
    {[id |-> "e5", user |-> "u1", run |-> "r1", type |-> "RECOMMENDATION_IMPRESSION",
      selected |-> "COOK", at |-> 1],
     [id |-> "e6", user |-> "u1", run |-> "r1", type |-> "RECOMMENDATION_SELECTED",
      selected |-> "ORDER", at |-> 1],
     [id |-> "e7", user |-> "u2", run |-> "r1", type |-> "RECOMMENDATION_SELECTED",
      selected |-> "COOK", at |-> 2]}

MCWindow == {<<0, 0>>, <<1, 0>>, <<0, 2>>}
MCEventId == {"e1", "e2", "e3", "e4", "e5", "e6", "e7"}
MCFeature == {"RESTAURANT_SEARCH", "RESTAURANT_DETAIL", "RECIPES"}
================================================================================
