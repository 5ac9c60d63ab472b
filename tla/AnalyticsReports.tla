---------------------------- MODULE AnalyticsReports ----------------------------
(***************************************************************************)
(* The three reports of the analytics endpoints as functions of the rows   *)
(* their queries return: feature adoption (BQ6), explanation selection     *)
(* (BQ8) and zone demand (BQ9).                                            *)
(*                                                                         *)
(* An instant counts hours of the application's time zone, so a day and a  *)
(* month are intervals of instants (of equal lengths here).                *)
(***************************************************************************)
EXTENDS Integers, FiniteSets

CONSTANTS
    Null,
    Feature,      \* the features whose use is recorded
    DayLength,    \* hours in a day
    MonthLength,  \* days in a month
    MinUsers      \* fewest accounts a published cell of BQ9 may stand for

ASSUME LengthAssumption == DayLength \in Nat \ {0} /\ MonthLength \in Nat \ {0}
ASSUME MinUsersAssumption == MinUsers \in Nat \ {0}
ASSUME FeatureAssumption == Null \notin Feature

Hour(t) == t % DayLength
Day(t) == t \div DayLength
Month(t) == Day(t) \div MonthLength
Within(from, to, t) == from <= Day(t) /\ Day(t) <= to

Users(rows) == {r.user : r \in rows}

--------------------------------------------------------------------------------
(* BQ6: feature adoption                                                   *)

LowUseBelow == 2

InMonth(usage, month) == {r \in usage : Month(r.at) = month}

Uses(usage, month, user, feature) ==
  Cardinality({r \in InMonth(usage, month) : r.user = user /\ r.feature = feature})

\* Fault: the report joins the uses, so an account with none is not seen.
LowUseAmongUsers(usage, month, feature) ==
  {u \in {r.user : r \in {s \in InMonth(usage, month) : s.feature = feature}} :
     Uses(usage, month, u, feature) < LowUseBelow}

\* Every active account is crossed with the feature: no use at all is low use.
LowUse(usage, month, feature) ==
  {u \in Users(InMonth(usage, month)) : Uses(usage, month, u, feature) < LowUseBelow}

\* At least 80 %, compared in integers.
Flagged(low, active) == low * 5 >= active * 4

Adoption(usage, month) ==
  LET active == Cardinality(Users(InMonth(usage, month)))
  IN [active |-> active,
      results |-> IF active = 0 THEN {}
                  ELSE {[feature |-> f, low |-> Cardinality(LowUse(usage, month, f)),
                         flagged |-> Flagged(Cardinality(LowUse(usage, month, f)), active)] :
                          f \in Feature}]

--------------------------------------------------------------------------------
(* BQ8: explanation selection                                              *)

\* Fault: a run whose impression got lost is not displayed.
DisplayedByImpression(events, runs, explanation, from, to) ==
  {r \in runs : /\ r.explanation = explanation
                /\ \E e \in events : /\ e.run = r.id /\ Within(from, to, e.at)
                                     /\ e.type = "RECOMMENDATION_IMPRESSION"}

Displayed(events, runs, explanation, from, to) ==
  {r \in runs : /\ r.explanation = explanation
                /\ \E e \in events : e.run = r.id /\ Within(from, to, e.at)}

Chosen(events, runs, explanation, from, to) ==
  {r \in runs : /\ r.explanation = explanation
                /\ \E e \in events : /\ e.run = r.id /\ Within(from, to, e.at)
                                     /\ e.type = "RECOMMENDATION_SELECTED"}

\* Runs without an explanation have no line in the report, nor have unseen ones.
SelectionRates(events, runs, from, to) ==
  {[explanation |-> x,
    impressions |-> Cardinality(Displayed(events, runs, x, from, to)),
    selections |-> Cardinality(Chosen(events, runs, x, from, to))] :
     x \in {r.explanation : r \in {s \in runs :
              /\ s.explanation # Null
              /\ \E e \in events : e.run = s.id /\ Within(from, to, e.at)}}}

--------------------------------------------------------------------------------
(* BQ9: zone demand                                                        *)

Known(value) == IF value = Null THEN "unknown" ELSE value

\* The band of a price in COP.
PriceBand(cost) == IF cost <= 15000 THEN "LOW" ELSE IF cost <= 25000 THEN "MEDIUM" ELSE "HIGH"

\* What the two queries return, as interactions of one shape.  Restaurant
\* searches and details come from the usage events ...
UsageInteractions(usage, from, to) ==
  {[user |-> r.user, row |-> <<r.id, r.copy>>, kind |-> r.feature, zone |-> Known(r.zone),
    band |-> Known(r.band), category |-> "unknown", hour |-> Hour(r.at)] :
     r \in {s \in usage : /\ s.feature \in {"RESTAURANT_SEARCH", "RESTAURANT_DETAIL"}
                          /\ Within(from, to, s.at)}}

\* ... and selections from the events that select a WALK or ORDER the run offers.
SelectionInteractions(events, runs, from, to) ==
  LET selected == {e \in events : /\ e.type = "RECOMMENDATION_SELECTED"
                                  /\ e.selected \in {"WALK", "ORDER"}
                                  /\ Within(from, to, e.at)}
      Joined(e, r) ==
        {[user |-> e.user, row |-> <<e.id, e.copy>>, kind |-> "SELECTION", zone |-> Known(r.zone),
          band |-> PriceBand(a.cost), category |-> Known(a.category), hour |-> Hour(e.at)] :
           a \in {o \in r.offers : o.type = e.selected}}
  IN UNION {UNION {Joined(e, r) : r \in {s \in runs : s.id = e.run}} : e \in selected}

Number(rows, kind) == Cardinality({r \in rows : r.kind = kind})

Suppressed == [suppressed |-> TRUE]

Counts(rows) ==
  [suppressed |-> FALSE,
   searches |-> Number(rows, "RESTAURANT_SEARCH"),
   details |-> Number(rows, "RESTAURANT_DETAIL"),
   selections |-> Number(rows, "SELECTION"),
   users |-> Cardinality(Users(rows))]

\* Fault: the interactions are counted, not who made them.
CellByInteractions(rows) == IF Cardinality(rows) < MinUsers THEN Suppressed ELSE Counts(rows)

Cell(rows) == IF Cardinality(Users(rows)) < MinUsers THEN Suppressed ELSE Counts(rows)

Selections(rows) == {r \in rows : r.kind = "SELECTION"}
Searches(rows) == {r \in rows : r.kind = "RESTAURANT_SEARCH"}

\* The breakdowns of a zone: searches by budget only, prices from the other two.
Breakdowns(rows) ==
  [categories |-> [x \in {r.category : r \in Selections(rows)} |->
                     Cell({r \in Selections(rows) : r.category = x})],
   budgets |-> [x \in {r.band : r \in Searches(rows)} |->
                  Cell({r \in Searches(rows) : r.band = x})],
   prices |-> [x \in {r.band : r \in rows \ Searches(rows)} |->
                 Cell({r \in rows \ Searches(rows) : r.band = x})],
   hours |-> [x \in {r.hour : r \in rows} |-> Cell({r \in rows : r.hour = x})]]

NoBreakdowns == [categories |-> <<>>, budgets |-> <<>>, prices |-> <<>>, hours |-> <<>>]

\* A zone that is suppressed as a whole shows no breakdown either.
ZoneDemand(rows) ==
  [z \in {r.zone : r \in rows} |->
     LET here == {r \in rows : r.zone = z}
     IN [totals |-> Cell(here),
         cells |-> IF Cell(here).suppressed THEN NoBreakdowns ELSE Breakdowns(here)]]
================================================================================
