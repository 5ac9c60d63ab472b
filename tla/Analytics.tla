------------------------------- MODULE Analytics -------------------------------
(***************************************************************************)
(* The analytics endpoints against the tables usage_events and             *)
(* analytics_events.  Clients send every interaction as often as they like *)
(* and in any order (a retry after a lost response, the replay of an       *)
(* outbox); analysts read reports meanwhile; accounts are deleted and the  *)
(* process may stop between any two queries.                               *)
(***************************************************************************)
EXTENDS AnalyticsReports

CONSTANTS
    User,
    Sender,       \* requests of clients: each handles one interaction at a time
    Reader,       \* requests of analysts
    EventId,      \* the clientEventIds clients generate
    Run,          \* rows of recommendation_runs, with the alternatives they offer
    UsageBody,    \* the usage events clients send, each with its account
    EventBody,    \* the impressions and selections clients send
    MaxSkew,      \* how far in the future an event may have occurred
    MaxAge,       \* how far back
    Window,       \* the pairs of days analysts ask about
    MaxDays,      \* longest window of a BQ9 report
    MaxClock      \* bound on time for model checking

VARIABLES
    accounts,     \* table users
    runs,         \* table recommendation_runs
    usage,        \* table usage_events
    events,       \* table analytics_events
    accepted,     \* interactions that a 202 was due for
    clock,
    sender,       \* sender[c]: the step of request c and the interaction it handles
    reader        \* reader[c]: the step of request c, what it asks and has read

vars == <<accounts, runs, usage, events, accepted, clock, sender, reader>>

UsageType == {"SESSION_STARTED", "FEATURE_USED"}
EventType == {"RECOMMENDATION_IMPRESSION", "RECOMMENDATION_SELECTED"}
Meal == {"COOK", "WALK", "ORDER"}

\* What the DTOs let through: a FEATURE_USED names a feature, a selection an
\* alternative; the other kind of body may name one as well.
ASSUME UsageBodyAssumption ==
    /\ UsageBody \subseteq [id : EventId, user : User, type : UsageType,
                            feature : Feature \cup {Null}, zone : STRING \cup {Null},
                            band : {"LOW", "MEDIUM", "HIGH", Null}, at : Nat]
    /\ \A b \in UsageBody : b.type = "FEATURE_USED" => b.feature # Null

ASSUME EventBodyAssumption ==
    /\ EventBody \subseteq [id : EventId, user : User, run : {r.id : r \in Run},
                            type : EventType, selected : Meal \cup {Null}, at : Nat]
    /\ \A b \in EventBody : b.type = "RECOMMENDATION_SELECTED" => b.selected # Null

\* A client generates an id once per interaction; the ids of two accounts may
\* meet in the usage events, where the account is part of the key.
ASSUME IdAssumption ==
    /\ \A a, b \in UsageBody : a.id = b.id /\ a.user = b.user => a = b
    /\ \A a, b \in EventBody : a.id = b.id => a = b

ASSUME RunAssumption == \A r, s \in Run : r.id = s.id => r = s

\* Bodies are of bounded size, and a table has finitely many rows: those with the
\* alternatives of a run, too.
ASSUME FiniteAssumption ==
    /\ IsFiniteSet(UsageBody) /\ IsFiniteSet(EventBody) /\ IsFiniteSet(Run)
    /\ \A r \in Run : IsFiniteSet(r.offers)

ASSUME TimeAssumption == {MaxSkew, MaxAge, MaxDays, MaxClock} \subseteq Nat
ASSUME WindowAssumption == Window \subseteq Nat \X Nat

--------------------------------------------------------------------------------

Idle == [step |-> "idle", body |-> Null]
NoQuestion == [step |-> "idle", ask |-> Null, read |-> Null]

Init ==
    /\ accounts = User
    /\ runs = Run
    /\ usage = {} /\ events = {} /\ accepted = {}
    /\ clock = 0
    /\ sender = [c \in Sender |-> Idle]
    /\ reader = [c \in Reader |-> NoQuestion]

Handles(c, step, body) == sender' = [sender EXCEPT ![c] = [step |-> step, body |-> body]]

\* A request ends with 202, or with an error.  The answer counts when it is due:
\* whether it then gets lost with the process changes nothing but what clients send.
Accept(c, body) ==
    /\ accepted' = accepted \cup {body}
    /\ sender' = [sender EXCEPT ![c] = Idle]

Reject(c) ==
    /\ sender' = [sender EXCEPT ![c] = Idle]
    /\ UNCHANGED accepted

\* Rows with equal columns are told apart by copy, as by their generated ids.
Copies(rows, row) == Cardinality({r \in rows : [r EXCEPT !.copy = 0] = row})
Inserted(rows, row) == rows \cup {[row EXCEPT !.copy = Copies(rows, row)]}

--------------------------------------------------------------------------------
(* POST analytics/usage-events                                             *)

\* Fault: an event of any age is taken.
RecentUnbounded(at) == at <= clock + MaxSkew

Recent(at) == at <= clock + MaxSkew /\ at >= clock - MaxAge

\* A session with a feature and an instant out of range are refused at once.
UsageArrives(c, b) ==
    /\ sender[c].step = "idle"
    /\ b.user \in accounts
    /\ IF (b.type = "SESSION_STARTED" /\ b.feature # Null) \/ ~Recent(b.at)
       THEN UNCHANGED sender
       ELSE Handles(c, "insertUsage", b)
    /\ UNCHANGED <<accounts, runs, usage, events, accepted, clock, reader>>

UsageRow(b) ==
    [id |-> b.id, user |-> b.user, type |-> b.type,
     feature |-> IF b.type = "FEATURE_USED" THEN b.feature ELSE Null,
     zone |-> b.zone, band |-> b.band, at |-> b.at, copy |-> 0]

\* Fault: the id alone is the key.
SameUsageId(r, b) == r.id = b.id

SameUsage(r, b) == r.id = b.id /\ r.user = b.user

\* Fault: no unique key, so a retry is one more row.
InsertUsageAgain(c) ==
    /\ sender[c].step = "insertUsage"
    /\ LET b == sender[c].body
       IN IF b.user \notin accounts
          THEN Reject(c) /\ UNCHANGED usage
          ELSE Accept(c, b) /\ usage' = Inserted(usage, UsageRow(b))
    /\ UNCHANGED <<accounts, runs, events, clock, reader>>

\* INSERT ... ON CONFLICT DO NOTHING: a known event is not an error.
InsertUsage(c) ==
    /\ sender[c].step = "insertUsage"
    /\ LET b == sender[c].body
       IN IF \E r \in usage : SameUsage(r, b)
          THEN Accept(c, b) /\ UNCHANGED usage
          ELSE IF b.user \notin accounts
          THEN Reject(c) /\ UNCHANGED usage
          ELSE Accept(c, b) /\ usage' = Inserted(usage, UsageRow(b))
    /\ UNCHANGED <<accounts, runs, events, clock, reader>>

--------------------------------------------------------------------------------
(* POST analytics/events                                                   *)

EventArrives(c, b) ==
    /\ sender[c].step = "idle"
    /\ b.user \in accounts
    /\ Handles(c, "checkOwner", b)
    /\ UNCHANGED <<accounts, runs, usage, events, accepted, clock, reader>>

\* Fault: any run that exists will do.
OwnsSome(b) == \E r \in runs : r.id = b.run

Owns(b) == \E r \in runs : r.id = b.run /\ r.user = b.user

CheckOwner(c) ==
    /\ sender[c].step = "checkOwner"
    /\ IF Owns(sender[c].body)
       THEN Handles(c, "insertEvent", sender[c].body)
       ELSE sender' = [sender EXCEPT ![c] = Idle]
    /\ UNCHANGED <<accounts, runs, usage, events, accepted, clock, reader>>

\* Fault: an impression keeps the alternative its body names.
EventRowAsSent(b) ==
    [id |-> b.id, user |-> b.user, run |-> b.run, type |-> b.type,
     selected |-> b.selected, at |-> b.at, copy |-> 0]

EventRow(b) ==
    [id |-> b.id, user |-> b.user, run |-> b.run, type |-> b.type,
     selected |-> IF b.type = "RECOMMENDATION_SELECTED" THEN b.selected ELSE Null,
     at |-> b.at, copy |-> 0]

\* The owner was checked a query ago: the foreign keys find out if it has gone since.
InsertEvent(c) ==
    /\ sender[c].step = "insertEvent"
    /\ LET b == sender[c].body
       IN IF \E r \in events : r.id = b.id
          THEN Accept(c, b) /\ UNCHANGED events
          ELSE IF b.user \notin accounts \/ ~OwnsSome(b)
          THEN Reject(c) /\ UNCHANGED events
          ELSE Accept(c, b) /\ events' = Inserted(events, EventRow(b))
    /\ UNCHANGED <<accounts, runs, usage, clock, reader>>

--------------------------------------------------------------------------------
(* The reports                                                             *)

Reads(c, step, ask, read) ==
    /\ reader' = [reader EXCEPT ![c] = [step |-> step, ask |-> ask, read |-> read]]
    /\ UNCHANGED <<accounts, runs, usage, events, accepted, clock, sender>>

\* GET feature-adoption: the counts come first, the number of events later.
AskAdoption(c, month) ==
    /\ reader[c].step = "idle"
    /\ Reads(c, "countEvents", [report |-> "adoption", month |-> month],
             [counts |-> Adoption(usage, month), received |-> Null])

CountEvents(c) ==
    /\ reader[c].step = "countEvents"
    /\ LET ask == reader[c].ask
       IN Reads(c, "answered", ask,
                [reader[c].read EXCEPT !.received = Cardinality(InMonth(usage, ask.month))])

\* GET explanation-selection is a single query; a reversed range is refused.
AskSelection(c, from, to) ==
    /\ reader[c].step = "idle"
    /\ from <= to
    /\ Reads(c, "answered", [report |-> "selection", from |-> from, to |-> to],
             SelectionRates(events, runs, from, to))

\* GET zone-demand: the usage events first, the selections in a second query.
AskDemand(c, from, to) ==
    /\ reader[c].step = "idle"
    /\ from <= to /\ to - from + 1 <= MaxDays
    /\ Reads(c, "readSelections", [report |-> "demand", from |-> from, to |-> to],
             UsageInteractions(usage, from, to))

ReadSelections(c) ==
    /\ reader[c].step = "readSelections"
    /\ LET ask == reader[c].ask
       IN Reads(c, "answered", ask,
                ZoneDemand(reader[c].read
                             \cup SelectionInteractions(events, runs, ask.from, ask.to)))

Close(c) ==
    /\ reader[c].step = "answered"
    /\ Reads(c, "idle", Null, Null)

--------------------------------------------------------------------------------
(* The environment                                                         *)

Tick ==
    /\ clock < MaxClock
    /\ clock' = clock + 1
    /\ UNCHANGED <<accounts, runs, usage, events, accepted, sender, reader>>

\* DELETE FROM users cascades to the runs and to both tables of events.
DeleteAccount(u) ==
    /\ u \in accounts
    /\ accounts' = accounts \ {u}
    /\ runs' = {r \in runs : r.user # u}
    /\ usage' = {r \in usage : r.user # u}
    /\ events' = {r \in events : r.user # u /\ \E s \in runs' : s.id = r.run}
    /\ UNCHANGED <<accepted, clock, sender, reader>>

\* The process stops: no running request is answered.
Crash ==
    /\ sender' = [c \in Sender |-> Idle]
    /\ reader' = [c \in Reader |-> NoQuestion]
    /\ UNCHANGED <<accounts, runs, usage, events, accepted, clock>>

Months == 0..(Month(MaxClock + MaxSkew))

Next ==
    \/ \E c \in Sender :
         \/ \E b \in UsageBody : UsageArrives(c, b)
         \/ InsertUsage(c)
         \/ \E b \in EventBody : EventArrives(c, b)
         \/ CheckOwner(c)
         \/ InsertEvent(c)
    \/ \E c \in Reader :
         \/ \E month \in Months : AskAdoption(c, month)
         \/ CountEvents(c)
         \/ \E w \in Window : AskSelection(c, w[1], w[2]) \/ AskDemand(c, w[1], w[2])
         \/ ReadSelections(c)
         \/ Close(c)
    \/ \E u \in User : DeleteAccount(u)
    \/ Tick
    \/ Crash

Spec == Init /\ [][Next]_vars

--------------------------------------------------------------------------------
(* Properties                                                              *)

Step == {"idle", "insertUsage", "checkOwner", "insertEvent"}

\* The types of the variables, with the CHECK constraints of both tables: a feature
\* exactly for a use, an alternative exactly for a selection.
TypeOK ==
    /\ accounts \subseteq User
    /\ runs \subseteq Run
    /\ \A r \in usage : /\ r.user \in User /\ r.id \in EventId /\ r.at \in Nat /\ r.copy \in Nat
                        /\ r.type \in UsageType /\ r.feature \in Feature \cup {Null}
                        /\ r.type = "FEATURE_USED" <=> r.feature # Null
    /\ \A r \in events : /\ r.user \in User /\ r.id \in EventId /\ r.at \in Nat /\ r.copy \in Nat
                         /\ r.type \in EventType /\ r.selected \in Meal \cup {Null}
                         /\ r.type = "RECOMMENDATION_SELECTED" <=> r.selected # Null
    /\ accepted \subseteq UsageBody \cup EventBody
    /\ clock \in 0..MaxClock
    /\ \A c \in Sender :
         \/ sender[c] = Idle
         \/ sender[c].step = "insertUsage" /\ sender[c].body \in UsageBody
         \/ sender[c].step \in {"checkOwner", "insertEvent"} /\ sender[c].body \in EventBody

\* A client that was answered 202, for the first time or for a retry, finds its
\* interaction stored as it was sent, as long as its account exists.
AcceptedIsStored ==
    \A b \in accepted :
       b.user \in accounts =>
          \/ b \in UsageBody /\ UsageRow(b) \in usage
          \/ b \in EventBody /\ EventRow(b) \in events

\* "Recompositions, retries and replays never count": however often it is sent, the
\* uses counted for an account are its distinct interactions.
UsesAreInteractions ==
    \A u \in User, f \in Feature, m \in Months :
       Uses(usage, m, u, f) <=
          Cardinality({b \in UsageBody : b.user = u /\ b.type = "FEATURE_USED" /\ b.feature = f
                                         /\ Month(b.at) = m})

\* Every event is about a stored run of the account that sent it, although its owner
\* is checked a query before the insert and accounts may go in between.
EventsOfTheOwner ==
    /\ \A r \in usage : r.user \in accounts
    /\ \A e \in events : \E r \in runs : r.id = e.run /\ r.user = e.user

\* A month that ended longer ago than an event may be old, with none on its way.
Settled(m) ==
    /\ clock - MaxAge >= (m + 1) * MonthLength * DayLength
    /\ \A c \in Sender : sender[c].step = "insertUsage" => Month(sender[c].body.at) # m

\* A settled month stays settled, and its report only ever loses the events of
\* deleted accounts: what an analyst reads of it is final.
SettledMonthIsFinal ==
    [][\A m \in Months :
         Settled(m) => Settled(m)' /\ InMonth(usage', m) \subseteq usage]_vars

\* The interactions an account was answered 202 for in a month, and its uses of a
\* feature among them.
Sent(u, m) == {b \in accepted \cap UsageBody : b.user = u /\ Month(b.at) = m}
SentUses(u, m, f) == {b \in Sent(u, m) : b.type = "FEATURE_USED" /\ b.feature = f}

\* "Counting users with zero uses" (analytics.controller.ts:141): the low users of a
\* feature, read off the rows, are the accounts that did anything in that month and used
\* the feature less than twice, whatever was repeated, lost, late or deleted.
LowUseIsExact ==
    \A m \in Months, f \in Feature :
       LowUse(usage, m, f) =
          {u \in accounts : Sent(u, m) # {} /\ Cardinality(SentUses(u, m, f)) < LowUseBelow}

\* "A lost impression event cannot push the rate above 1": no explanation is selected
\* more often than it is displayed, in any window.
RateAtMostOne ==
    \A w \in Window : \A line \in SelectionRates(events, runs, w[1], w[2]) :
       line.selections <= line.impressions /\ line.impressions > 0

\* The units that count k holds in all the cells: as many as the counts add up to.
SumOf(cells, k) == Cardinality(UNION {{x} \X (1..cells[x][k]) : x \in DOMAIN cells})

\* A published cell stands for at least MinUsers accounts, and counts that are all
\* published add up to the total.
AddsUp(cells, totals, counts) ==
    /\ \A x \in DOMAIN cells : ~cells[x].suppressed => cells[x].users \in MinUsers..totals.users
    /\ (\A x \in DOMAIN cells : ~cells[x].suppressed) =>
          \A k \in counts : totals[k] = SumOf(cells, k)

\* What is published of a zone.
ZoneAddsUp(totals, cells) ==
    IF totals.suppressed
    THEN \A breakdown \in DOMAIN cells : DOMAIN cells[breakdown] = {}
    ELSE /\ totals.users >= MinUsers
         /\ AddsUp(cells.hours, totals, {"searches", "details", "selections"})
         /\ AddsUp(cells.categories, totals, {"selections"})
         /\ AddsUp(cells.budgets, totals, {"searches"})
         /\ AddsUp(cells.prices, totals, {"details", "selections"})

\* A suppressed zone shows no breakdown, a published cell stands for at least MinUsers
\* accounts, and every breakdown without a suppressed cell adds up to the totals of its
\* zone, whatever was stored or deleted between the two queries of the report.
DemandAddsUp ==
    \A c \in Reader :
       reader[c].step = "answered" /\ reader[c].ask.report = "demand" =>
          \A z \in DOMAIN reader[c].read :
             ZoneAddsUp(reader[c].read[z].totals, reader[c].read[z].cells)
================================================================================
