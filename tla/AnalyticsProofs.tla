---------------------------- MODULE AnalyticsProofs ----------------------------
(***************************************************************************)
(* Theorems about the analytics endpoints for all sets of accounts, runs,  *)
(* interactions and concurrent requests and all lengths of days and        *)
(* months.                                                                 *)
(***************************************************************************)
EXTENDS Analytics, FiniteSetTheorems, TLAPS

--------------------------------------------------------------------------------
(* The rows of the two tables                                              *)

UsageRows == {UsageRow(b) : b \in UsageBody}
EventRows == {EventRow(b) : b \in EventBody}

\* What a row tells of its body, from the types the DTOs guarantee.
LEMMA UsageRowFields ==
    ASSUME NEW b \in UsageBody
    PROVE  LET r == UsageRow(b)
           IN /\ r.id = b.id /\ b.id \in EventId
              /\ r.user = b.user /\ b.user \in User
              /\ r.at = b.at /\ b.at \in Nat
              /\ r.type = b.type /\ b.type \in UsageType
              /\ r.feature = IF b.type = "FEATURE_USED" THEN b.feature ELSE Null
              /\ r.copy = 0
              /\ b.feature \in Feature \cup {Null}
              /\ b.type = "FEATURE_USED" => b.feature # Null
<1>1. b \in [id : EventId, user : User, type : UsageType,
             feature : Feature \cup {Null}, zone : STRING \cup {Null},
             band : {"LOW", "MEDIUM", "HIGH", Null}, at : Nat]
  BY UsageBodyAssumption
<1>2. b.type = "FEATURE_USED" => b.feature # Null
  BY UsageBodyAssumption
<1>. QED
  BY <1>1, <1>2 DEF UsageRow

LEMMA EventRowFields ==
    ASSUME NEW b \in EventBody
    PROVE  LET r == EventRow(b)
           IN /\ r.id = b.id /\ b.id \in EventId
              /\ r.user = b.user /\ b.user \in User
              /\ r.run = b.run
              /\ r.at = b.at /\ b.at \in Nat
              /\ r.type = b.type /\ b.type \in EventType
              /\ r.selected = IF b.type = "RECOMMENDATION_SELECTED" THEN b.selected ELSE Null
              /\ r.copy = 0
              /\ b.selected \in Meal \cup {Null}
              /\ b.type = "RECOMMENDATION_SELECTED" => b.selected # Null
<1>1. b \in [id : EventId, user : User, run : {r.id : r \in Run},
             type : EventType, selected : Meal \cup {Null}, at : Nat]
  BY EventBodyAssumption
<1>2. b.type = "RECOMMENDATION_SELECTED" => b.selected # Null
  BY EventBodyAssumption
<1>. QED
  BY <1>1, <1>2 DEF EventRow

\* The key of a row determines the body it was made from.
LEMMA UsageKey ==
    ASSUME NEW a \in UsageBody, NEW b \in UsageBody, SameUsage(UsageRow(a), b)
    PROVE  a = b
BY UsageRowFields, IdAssumption DEF SameUsage

LEMMA EventKey ==
    ASSUME NEW a \in EventBody, NEW b \in EventBody, EventRow(a).id = b.id
    PROVE  a = b
BY EventRowFields, IdAssumption

\* The tables are finite: there is one row for each body at most.
LEMMA FiniteRows == IsFiniteSet(UsageRows) /\ IsFiniteSet(EventRows)
<1>1. IsFiniteSet(UsageRows)
  <2> DEFINE f == [b \in UsageBody |-> UsageRow(b)]
  <2>1. f \in Surjection(UsageBody, UsageRows)
    BY DEF Surjection, UsageRows
  <2>. QED
    BY <2>1, FS_Surjection, FiniteAssumption
<1>2. IsFiniteSet(EventRows)
  <2> DEFINE f == [b \in EventBody |-> EventRow(b)]
  <2>1. f \in Surjection(EventBody, EventRows)
    BY DEF Surjection, EventRows
  <2>. QED
    BY <2>1, FS_Surjection, FiniteAssumption
<1>. QED
  BY <1>1, <1>2

\* A row with a new key is stored as it is, not as a second copy.
LEMMA InsertsUsage ==
    ASSUME NEW rows \in SUBSET UsageRows, NEW b \in UsageBody,
           \A r \in rows : ~SameUsage(r, b)
    PROVE  Inserted(rows, UsageRow(b)) = rows \cup {UsageRow(b)}
<1>1. \A r \in rows : [r EXCEPT !.copy = 0] # UsageRow(b)
  <2> SUFFICES ASSUME NEW r \in rows, [r EXCEPT !.copy = 0] = UsageRow(b)
               PROVE  FALSE
    OBVIOUS
  <2>1. PICK a \in UsageBody : r = UsageRow(a)
    BY DEF UsageRows
  <2>2. [r EXCEPT !.copy = 0].id = r.id /\ [r EXCEPT !.copy = 0].user = r.user
    BY <2>1 DEF UsageRow
  <2>3. UsageRow(b).id = b.id /\ UsageRow(b).user = b.user
    BY UsageRowFields
  <2>4. r.id = b.id /\ r.user = b.user
    BY <2>2, <2>3
  <2>. QED
    BY <2>4 DEF SameUsage
<1>2. {r \in rows : [r EXCEPT !.copy = 0] = UsageRow(b)} = {}
  BY <1>1
<1>3. Copies(rows, UsageRow(b)) = 0
  BY <1>2, FS_EmptySet DEF Copies
<1>4. [UsageRow(b) EXCEPT !.copy = 0] = UsageRow(b)
  BY DEF UsageRow
<1>. QED
  BY <1>3, <1>4 DEF Inserted

LEMMA InsertsEvent ==
    ASSUME NEW rows \in SUBSET EventRows, NEW b \in EventBody,
           \A r \in rows : r.id # b.id
    PROVE  Inserted(rows, EventRow(b)) = rows \cup {EventRow(b)}
<1>1. \A r \in rows : [r EXCEPT !.copy = 0] # EventRow(b)
  <2> SUFFICES ASSUME NEW r \in rows, [r EXCEPT !.copy = 0] = EventRow(b)
               PROVE  FALSE
    OBVIOUS
  <2>1. PICK a \in EventBody : r = EventRow(a)
    BY DEF EventRows
  <2>2. [r EXCEPT !.copy = 0].id = r.id
    BY <2>1 DEF EventRow
  <2>. QED
    BY <2>2, EventRowFields
<1>2. {r \in rows : [r EXCEPT !.copy = 0] = EventRow(b)} = {}
  BY <1>1
<1>3. Copies(rows, EventRow(b)) = 0
  BY <1>2, FS_EmptySet DEF Copies
<1>4. [EventRow(b) EXCEPT !.copy = 0] = EventRow(b)
  BY DEF EventRow
<1>. QED
  BY <1>3, <1>4 DEF Inserted
--------------------------------------------------------------------------------
(* The inductive invariant                                                 *)

\* A stored row was made from a body the DTOs accept.
RowsAreBodies == usage \subseteq UsageRows /\ events \subseteq EventRows

\* A usage row was stored in the step that answered its body.
UsageWasAccepted == \A r \in usage : \E b \in accepted \cap UsageBody : r = UsageRow(b)

SenderState ==
    {Idle} \cup [step : {"insertUsage"}, body : UsageBody]
           \cup [step : {"checkOwner", "insertEvent"}, body : EventBody]

\* A request about to insert an event has seen that the run is its sender's, and
\* runs never change hands.
SenderInv ==
    /\ sender \in [Sender -> SenderState]
    /\ \A c \in Sender :
         sender[c].step = "insertEvent" =>
            \E r \in Run : r.id = sender[c].body.run /\ r.user = sender[c].body.user

\* Why it is needed: that an accepted interaction survives a conflict takes that the
\* row with its key was made from the same body, and that a row belongs to the owner
\* of its run takes what CheckOwner saw a query ago.
IInv ==
    /\ accounts \subseteq User
    /\ runs \subseteq Run
    /\ accepted \subseteq UsageBody \cup EventBody
    /\ clock \in 0..MaxClock
    /\ RowsAreBodies
    /\ SenderInv
    /\ UsageWasAccepted
    /\ AcceptedIsStored
    /\ EventsOfTheOwner

LEMMA InitInv == Init => IInv
BY TimeAssumption
   DEF Init, IInv, RowsAreBodies, UsageWasAccepted, SenderInv, SenderState, AcceptedIsStored, EventsOfTheOwner, Idle

\* A usage event that is stored, for the first time or already, keeps the invariant.
LEMMA InsertUsageInv ==
    ASSUME IInv, NEW c \in Sender, InsertUsage(c)
    PROVE  IInv'
<1> DEFINE b == sender[c].body
<1>1. sender[c] \in SenderState /\ sender[c].step = "insertUsage"
  BY DEF IInv, SenderInv, InsertUsage
<1>2. b \in UsageBody
  BY <1>1 DEF SenderState, Idle
<1>3. UNCHANGED <<accounts, runs, events, clock>>
  BY DEF InsertUsage
<1>4. sender' = [sender EXCEPT ![c] = Idle]
  BY DEF InsertUsage, Accept, Reject
<1>5. SenderInv'
  BY <1>4 DEF IInv, SenderInv, SenderState, Idle
<1>6. CASE \E r \in usage : SameUsage(r, b)
  <2>1. usage' = usage /\ accepted' = accepted \cup {b}
    BY <1>6 DEF InsertUsage, Accept
  <2>2. UsageRow(b) \in usage
    BY <1>2, <1>6, UsageKey DEF IInv, RowsAreBodies, UsageRows
  <2>. HIDE DEF b
  <2>3. AcceptedIsStored'
    BY <1>2, <1>3, <2>1, <2>2 DEF IInv, AcceptedIsStored
  <2>. QED
    BY <1>2, <1>3, <1>5, <2>1, <2>3 DEF IInv, RowsAreBodies, UsageWasAccepted, EventsOfTheOwner
<1>7. CASE (\A r \in usage : ~SameUsage(r, b)) /\ b.user \notin accounts
  <2>1. usage' = usage /\ accepted' = accepted
    BY <1>7 DEF InsertUsage, Reject
  <2>. QED
    BY <1>3, <1>5, <2>1 DEF IInv, RowsAreBodies, UsageWasAccepted, EventsOfTheOwner, AcceptedIsStored
<1>8. CASE (\A r \in usage : ~SameUsage(r, b)) /\ b.user \in accounts
  <2>1. usage' = Inserted(usage, UsageRow(b)) /\ accepted' = accepted \cup {b}
    BY <1>8 DEF InsertUsage, Accept
  <2>. HIDE DEF b
  <2>2. usage' = usage \cup {UsageRow(b)}
    BY <1>2, <1>8, <2>1, InsertsUsage DEF IInv, RowsAreBodies
  <2>3. UsageRow(b) \in UsageRows /\ UsageRow(b).user = b.user
    BY <1>2, UsageRowFields DEF UsageRows
  <2>4. AcceptedIsStored'
    BY <1>2, <1>3, <2>1, <2>2 DEF IInv, AcceptedIsStored
  <2>5. EventsOfTheOwner'
    BY <1>3, <1>8, <2>2, <2>3 DEF IInv, EventsOfTheOwner
  <2>6. UsageWasAccepted'
    BY <1>2, <2>1, <2>2 DEF IInv, UsageWasAccepted
  <2>. QED
    BY <1>2, <1>3, <1>5, <2>1, <2>2, <2>3, <2>4, <2>5, <2>6 DEF IInv, RowsAreBodies
<1>. QED
  BY <1>6, <1>7, <1>8

LEMMA InsertEventInv ==
    ASSUME IInv, NEW c \in Sender, InsertEvent(c)
    PROVE  IInv'
<1> DEFINE b == sender[c].body
<1>1. sender[c] \in SenderState /\ sender[c].step = "insertEvent"
  BY DEF IInv, SenderInv, InsertEvent
<1>2. b \in EventBody
  BY <1>1 DEF SenderState, Idle
<1>3. UNCHANGED <<accounts, runs, usage, clock>>
  BY DEF InsertEvent
<1>4. sender' = [sender EXCEPT ![c] = Idle]
  BY DEF InsertEvent, Accept, Reject
<1>5. SenderInv'
  BY <1>4 DEF IInv, SenderInv, SenderState, Idle
<1>6. CASE \E r \in events : r.id = b.id
  <2>1. events' = events /\ accepted' = accepted \cup {b}
    BY <1>6 DEF InsertEvent, Accept
  <2>2. EventRow(b) \in events
    BY <1>2, <1>6, EventKey DEF IInv, UsageWasAccepted, RowsAreBodies, EventRows
  <2>. HIDE DEF b
  <2>3. AcceptedIsStored'
    BY <1>2, <1>3, <2>1, <2>2 DEF IInv, AcceptedIsStored
  <2>. QED
    BY <1>2, <1>3, <1>5, <2>1, <2>3 DEF IInv, UsageWasAccepted, RowsAreBodies, EventsOfTheOwner
<1>7. CASE (\A r \in events : r.id # b.id) /\ (b.user \notin accounts \/ ~OwnsSome(b))
  <2>1. events' = events /\ accepted' = accepted
    BY <1>7 DEF InsertEvent, Reject
  <2>. QED
    BY <1>3, <1>5, <2>1 DEF IInv, UsageWasAccepted, RowsAreBodies, EventsOfTheOwner, AcceptedIsStored
<1>8. CASE (\A r \in events : r.id # b.id) /\ b.user \in accounts /\ OwnsSome(b)
  <2>1. events' = Inserted(events, EventRow(b)) /\ accepted' = accepted \cup {b}
    BY <1>8 DEF InsertEvent, Accept
  <2>2. \E r \in runs : r.id = b.run /\ r.user = b.user
    BY <1>1, <1>8, RunAssumption DEF IInv, SenderInv, OwnsSome
  <2>. HIDE DEF b
  <2>3. events' = events \cup {EventRow(b)}
    BY <1>2, <1>8, <2>1, InsertsEvent DEF IInv, UsageWasAccepted, RowsAreBodies
  <2>4. EventRow(b) \in EventRows /\ EventRow(b).user = b.user /\ EventRow(b).run = b.run
    BY <1>2, EventRowFields DEF EventRows
  <2>5. AcceptedIsStored'
    BY <1>2, <1>3, <2>1, <2>3 DEF IInv, AcceptedIsStored
  <2>6. EventsOfTheOwner'
    BY <1>3, <2>2, <2>3, <2>4 DEF IInv, EventsOfTheOwner
  <2>. QED
    BY <1>2, <1>3, <1>5, <2>1, <2>3, <2>4, <2>5, <2>6 DEF IInv, UsageWasAccepted, RowsAreBodies
<1>. QED
  BY <1>6, <1>7, <1>8

\* What a report reads or answers is no part of the invariant.
LEMMA ReportsInv ==
    ASSUME IInv, UNCHANGED <<accounts, runs, usage, events, accepted, clock, sender>>
    PROVE  IInv'
BY DEF IInv, RowsAreBodies, UsageWasAccepted, SenderInv, AcceptedIsStored, EventsOfTheOwner

\* A step that only moves a sender on keeps the invariant if it keeps SenderInv.
LEMMA SenderMoves ==
    ASSUME IInv, UNCHANGED <<accounts, runs, usage, events, accepted, clock>>, SenderInv'
    PROVE  IInv'
BY DEF IInv, RowsAreBodies, UsageWasAccepted, AcceptedIsStored, EventsOfTheOwner

\* The cascade takes the rows of the account with it and no others: the run of an
\* event belongs to the sender of the event.
LEMMA DeleteAccountInv ==
    ASSUME IInv, NEW u \in User, DeleteAccount(u)
    PROVE  IInv'
<1>1. /\ accounts' = accounts \ {u}
      /\ runs' = {r \in runs : r.user # u}
      /\ usage' = {r \in usage : r.user # u}
      /\ events' = {r \in events : r.user # u /\ \E s \in runs' : s.id = r.run}
      /\ UNCHANGED <<accepted, clock, sender>>
  BY DEF DeleteAccount
<1>2. \A r \in events : r.user # u => r \in events'
  BY <1>1 DEF IInv, EventsOfTheOwner
<1>3. AcceptedIsStored'
  <2> SUFFICES ASSUME NEW b \in accepted, b.user \in accounts, b.user # u
               PROVE  \/ b \in UsageBody /\ UsageRow(b) \in usage'
                      \/ b \in EventBody /\ EventRow(b) \in events'
    BY <1>1 DEF AcceptedIsStored
  <2>1. CASE b \in UsageBody /\ UsageRow(b) \in usage
    BY <1>1, <2>1, UsageRowFields
  <2>2. CASE b \in EventBody /\ EventRow(b) \in events
    BY <1>2, <2>2, EventRowFields
  <2>. QED
    BY <2>1, <2>2 DEF IInv, AcceptedIsStored
<1>4. EventsOfTheOwner'
  BY <1>1 DEF IInv, EventsOfTheOwner
<1>5. SenderInv'
  BY <1>1 DEF IInv, SenderInv
<1>. QED
  BY <1>1, <1>3, <1>4, <1>5 DEF IInv, RowsAreBodies, UsageWasAccepted

LEMMA NextInv ==
    ASSUME IInv, [Next]_vars
    PROVE  IInv'
<1>1. ASSUME NEW c \in Sender, NEW b \in UsageBody, UsageArrives(c, b) PROVE IInv'
  <2>1. sender' = sender \/ sender' = [sender EXCEPT ![c] = [step |-> "insertUsage", body |-> b]]
    BY <1>1 DEF UsageArrives, Handles
  <2>2. SenderInv'
    BY <2>1 DEF IInv, SenderInv, SenderState
  <2>. QED
    BY <1>1, <2>2, SenderMoves DEF UsageArrives
<1>2. ASSUME NEW c \in Sender, InsertUsage(c) PROVE IInv'
  BY <1>2, InsertUsageInv
<1>3. ASSUME NEW c \in Sender, NEW b \in EventBody, EventArrives(c, b) PROVE IInv'
  <2>1. sender' = [sender EXCEPT ![c] = [step |-> "checkOwner", body |-> b]]
    BY <1>3 DEF EventArrives, Handles
  <2>2. SenderInv'
    BY <2>1 DEF IInv, SenderInv, SenderState
  <2>. QED
    BY <1>3, <2>2, SenderMoves DEF EventArrives
<1>4. ASSUME NEW c \in Sender, CheckOwner(c) PROVE IInv'
  <2>1. sender[c] \in SenderState /\ sender[c].step = "checkOwner"
    BY <1>4 DEF IInv, SenderInv, CheckOwner
  <2>2. sender[c].body \in EventBody
    BY <2>1 DEF SenderState, Idle
  <2>3. CASE Owns(sender[c].body)
    <3>1. sender' = [sender EXCEPT ![c] = [step |-> "insertEvent", body |-> sender[c].body]]
      BY <1>4, <2>3 DEF CheckOwner, Handles
    <3>2. \E r \in Run : r.id = sender[c].body.run /\ r.user = sender[c].body.user
      BY <2>3 DEF Owns, IInv
    <3>3. SenderInv'
      BY <2>2, <3>1, <3>2 DEF IInv, SenderInv, SenderState
    <3>. QED
      BY <1>4, <3>3, SenderMoves DEF CheckOwner
  <2>4. CASE ~Owns(sender[c].body)
    <3>1. sender' = [sender EXCEPT ![c] = Idle]
      BY <1>4, <2>4 DEF CheckOwner
    <3>2. SenderInv'
      BY <3>1 DEF IInv, SenderInv, SenderState, Idle
    <3>. QED
      BY <1>4, <3>2, SenderMoves DEF CheckOwner
  <2>. QED
    BY <2>3, <2>4
<1>5. ASSUME NEW c \in Sender, InsertEvent(c) PROVE IInv'
  BY <1>5, InsertEventInv
<1>6. ASSUME NEW c \in Reader,
             \/ \E month \in Months : AskAdoption(c, month)
             \/ CountEvents(c)
             \/ \E w \in Window : AskSelection(c, w[1], w[2]) \/ AskDemand(c, w[1], w[2])
             \/ ReadSelections(c)
             \/ Close(c)
      PROVE  IInv'
  <2>1. UNCHANGED <<accounts, runs, usage, events, accepted, clock, sender>>
    BY <1>6 DEF AskAdoption, CountEvents, AskSelection, AskDemand, ReadSelections, Close, Reads
  <2>. QED
    BY <2>1, ReportsInv
<1>7. ASSUME NEW u \in User, DeleteAccount(u) PROVE IInv'
  BY <1>7, DeleteAccountInv
<1>8. ASSUME Tick PROVE IInv'
  BY <1>8, TimeAssumption
     DEF Tick, IInv, RowsAreBodies, UsageWasAccepted, SenderInv, AcceptedIsStored, EventsOfTheOwner
<1>9. ASSUME Crash PROVE IInv'
  <2>1. SenderInv'
    BY <1>9 DEF Crash, SenderInv, SenderState, Idle
  <2>. QED
    BY <1>9, <2>1, SenderMoves DEF Crash
<1>10. ASSUME UNCHANGED vars PROVE IInv'
  BY <1>10, ReportsInv DEF vars
<1>. QED
  BY <1>1, <1>2, <1>3, <1>4, <1>5, <1>6, <1>7, <1>8, <1>9, <1>10 DEF Next

\* Stored rows are made from accepted bodies, belong to their sender and survive
\* conflicts, whatever is sent, repeated, deleted or stopped.
THEOREM Invariance == Spec => []IInv
<1>1. Init => IInv
  BY InitInv
<1>2. IInv /\ [Next]_vars => IInv'
  BY NextInv
<1>. QED
  BY <1>1, <1>2, PTL DEF Spec

\* The columns have their types, and the CHECK constraints of both tables never refuse
\* what the handlers insert.
THEOREM TypeCorrect == Spec => []TypeOK
<1>1. ASSUME IInv PROVE TypeOK
  <2>1. \A r \in usage : /\ r.user \in User /\ r.id \in EventId /\ r.at \in Nat /\ r.copy \in Nat
                         /\ r.type \in UsageType /\ r.feature \in Feature \cup {Null}
                         /\ r.type = "FEATURE_USED" <=> r.feature # Null
    <3> SUFFICES ASSUME NEW r \in usage
                 PROVE  /\ r.user \in User /\ r.id \in EventId /\ r.at \in Nat /\ r.copy \in Nat
                        /\ r.type \in UsageType /\ r.feature \in Feature \cup {Null}
                        /\ r.type = "FEATURE_USED" <=> r.feature # Null
      OBVIOUS
    <3>1. PICK b \in UsageBody : r = UsageRow(b)
      BY <1>1 DEF IInv, RowsAreBodies, UsageRows
    <3>. QED
      BY <3>1, UsageRowFields
  <2>2. \A r \in events : /\ r.user \in User /\ r.id \in EventId /\ r.at \in Nat /\ r.copy \in Nat
                          /\ r.type \in EventType /\ r.selected \in Meal \cup {Null}
                          /\ r.type = "RECOMMENDATION_SELECTED" <=> r.selected # Null
    <3> SUFFICES ASSUME NEW r \in events
                 PROVE  /\ r.user \in User /\ r.id \in EventId /\ r.at \in Nat /\ r.copy \in Nat
                        /\ r.type \in EventType /\ r.selected \in Meal \cup {Null}
                        /\ r.type = "RECOMMENDATION_SELECTED" <=> r.selected # Null
      OBVIOUS
    <3>1. PICK b \in EventBody : r = EventRow(b)
      BY <1>1 DEF IInv, RowsAreBodies, EventRows
    <3>. QED
      BY <3>1, EventRowFields
  <2>3. \A c \in Sender :
           \/ sender[c] = Idle
           \/ sender[c].step = "insertUsage" /\ sender[c].body \in UsageBody
           \/ sender[c].step \in {"checkOwner", "insertEvent"} /\ sender[c].body \in EventBody
    BY <1>1 DEF IInv, SenderInv, SenderState
  <2>. QED
    BY <1>1, <2>1, <2>2, <2>3 DEF IInv, TypeOK
<1>. QED
  BY <1>1, Invariance, PTL

\* A client that was answered 202 finds its interaction stored as it was sent.
THEOREM AcceptedStaysStored == Spec => []AcceptedIsStored
<1>1. IInv => AcceptedIsStored
  BY DEF IInv
<1>. QED
  BY <1>1, Invariance, PTL

\* Every event is about a stored run of the account that sent it.
THEOREM OwnersEvents == Spec => []EventsOfTheOwner
<1>1. IInv => EventsOfTheOwner
  BY DEF IInv
<1>. QED
  BY <1>1, Invariance, PTL

--------------------------------------------------------------------------------
(* The reports                                                             *)

LEMMA FiniteUsage ==
    ASSUME RowsAreBodies, NEW T \in SUBSET usage
    PROVE  IsFiniteSet(T) /\ Cardinality(T) \in Nat
<1>1. T \in SUBSET UsageRows
  BY DEF RowsAreBodies
<1>2. IsFiniteSet(T)
  BY <1>1, FiniteRows, FS_Subset
<1>. QED
  BY <1>2, FS_CardinalityType

\* A use is counted for the one interaction its row was made from.
LEMMA UsesBounded ==
    ASSUME RowsAreBodies, NEW u \in User, NEW f \in Feature, NEW m \in Months
    PROVE  Uses(usage, m, u, f) <=
             Cardinality({b \in UsageBody : b.user = u /\ b.type = "FEATURE_USED"
                                            /\ b.feature = f /\ Month(b.at) = m})
<1> DEFINE R == {r \in InMonth(usage, m) : r.user = u /\ r.feature = f}
           B == {b \in UsageBody : b.user = u /\ b.type = "FEATURE_USED"
                                   /\ b.feature = f /\ Month(b.at) = m}
           body == [r \in R |-> CHOOSE b \in B : UsageRow(b) = r]
<1>1. \A r \in R : \E b \in B : UsageRow(b) = r
  <2> SUFFICES ASSUME NEW r \in R PROVE \E b \in B : UsageRow(b) = r
    OBVIOUS
  <2>1. r \in usage /\ Month(r.at) = m /\ r.user = u /\ r.feature = f
    BY DEF InMonth
  <2>2. PICK b \in UsageBody : UsageRow(b) = r
    BY <2>1 DEF RowsAreBodies, UsageRows
  <2>3. b.user = u /\ b.at = r.at
    BY <2>1, <2>2, UsageRowFields
  <2>4. b.type = "FEATURE_USED" /\ b.feature = f
    BY <2>1, <2>2, UsageRowFields, FeatureAssumption
  <2>. QED
    BY <2>1, <2>2, <2>3, <2>4
<1>2. \A r \in R : body[r] \in B /\ UsageRow(body[r]) = r
  BY <1>1
<1>3. body \in Injection(R, B)
  <2>1. DOMAIN body = R /\ body = [r \in R |-> body[r]]
    OBVIOUS
  <2>. HIDE DEF R, B, body
  <2>2. body \in [R -> B]
    BY <1>2, <2>1
  <2>3. \A r, s \in R : body[r] = body[s] => r = s
    BY <1>2
  <2>. QED
    BY <2>1, <2>2, <2>3 DEF Injection, IsInjective
<1>4. IsFiniteSet(B)
  BY FiniteAssumption, FS_Subset
<1>5. Cardinality(R) <= Cardinality(B)
  BY <1>3, <1>4, FS_Injection
<1>. QED
  BY <1>5 DEF Uses

\* However often a use is sent, it is counted once.
THEOREM UsesCounted == Spec => []UsesAreInteractions
<1>1. IInv => UsesAreInteractions
  BY UsesBounded DEF IInv, UsesAreInteractions
<1>. QED
  BY <1>1, Invariance, PTL

\* A body is of one of the two kinds.
LEMMA KindsDiffer == UsageBody \cap EventBody = {}
<1> SUFFICES ASSUME NEW b \in UsageBody, b \in EventBody PROVE FALSE
  OBVIOUS
<1>1. "run" \notin DOMAIN b
  BY UsageBodyAssumption
<1>2. "run" \in DOMAIN b
  BY EventBodyAssumption
<1>. QED
  BY <1>1, <1>2

\* The rows of an account are those of what it was answered 202 for.
LEMMA RowsOfSent ==
    ASSUME IInv, NEW u \in accounts, NEW r
    PROVE  r \in usage /\ r.user = u <=> \E b \in accepted \cap UsageBody : b.user = u /\ r = UsageRow(b)
<1>1. ASSUME r \in usage, r.user = u
      PROVE  \E b \in accepted \cap UsageBody : b.user = u /\ r = UsageRow(b)
  <2>1. PICK b \in accepted \cap UsageBody : r = UsageRow(b)
    BY <1>1 DEF IInv, UsageWasAccepted
  <2>. QED
    BY <1>1, <2>1, UsageRowFields
<1>2. ASSUME NEW b \in accepted \cap UsageBody, b.user = u, r = UsageRow(b)
      PROVE  r \in usage /\ r.user = u
  <2>1. UsageRow(b) \in usage
    BY <1>2, KindsDiffer DEF IInv, AcceptedIsStored
  <2>. QED
    BY <1>2, <2>1, UsageRowFields
<1>. QED
  BY <1>1, <1>2

\* The uses a report counts for an account are the interactions it was answered for.
LEMMA UsesAreSent ==
    ASSUME IInv, NEW m \in Months, NEW f \in Feature, NEW u \in accounts
    PROVE  Uses(usage, m, u, f) = Cardinality(SentUses(u, m, f))
<1> DEFINE R == {r \in InMonth(usage, m) : r.user = u /\ r.feature = f}
           B == SentUses(u, m, f)
           row == [b \in B |-> UsageRow(b)]
<1>1. ASSUME NEW b \in B PROVE UsageRow(b) \in R
  <2>1. /\ b \in accepted \cap UsageBody /\ b.user = u
        /\ Month(b.at) = m /\ b.type = "FEATURE_USED" /\ b.feature = f
    BY <1>1 DEF SentUses, Sent
  <2>2. UsageRow(b) \in usage /\ UsageRow(b).user = u
    BY <2>1, RowsOfSent
  <2>3. UsageRow(b).at = b.at /\ UsageRow(b).feature = f
    BY <2>1, UsageRowFields
  <2>. QED
    BY <2>1, <2>2, <2>3 DEF InMonth
<1>2. ASSUME NEW r \in R PROVE \E b \in B : r = UsageRow(b)
  <2>1. r \in usage /\ Month(r.at) = m /\ r.user = u /\ r.feature = f
    BY <1>2 DEF InMonth
  <2>2. PICK b \in accepted \cap UsageBody : b.user = u /\ r = UsageRow(b)
    BY <2>1, RowsOfSent
  <2>3. b.at = r.at /\ b.type = "FEATURE_USED" /\ b.feature = f
    BY <2>1, <2>2, UsageRowFields, FeatureAssumption
  <2>. QED
    BY <2>1, <2>2, <2>3 DEF SentUses, Sent
<1>3. ASSUME NEW a \in B, NEW b \in B, UsageRow(a) = UsageRow(b) PROVE a = b
  <2>1. a \in UsageBody /\ b \in UsageBody
    BY <1>3 DEF SentUses, Sent
  <2>. QED
    BY <1>3, <2>1, UsageKey, UsageRowFields DEF SameUsage
<1>4. IsFiniteSet(B)
  <2>1. B \in SUBSET UsageBody
    BY DEF SentUses, Sent
  <2>. HIDE DEF B
  <2>. QED
    BY <2>1, FiniteAssumption, FS_Subset
<1>5. row \in Bijection(B, R)
  <2>1. DOMAIN row = B /\ \A b \in B : row[b] = UsageRow(b)
    OBVIOUS
  <2>2. row = [b \in B |-> row[b]]
    OBVIOUS
  <2>. HIDE DEF R, B, row
  <2>3. row \in [B -> R]
    BY <1>1, <2>1, <2>2
  <2>4. \A a, b \in B : row[a] = row[b] => a = b
    BY <1>3, <2>1
  <2>5. \A r \in R : \E b \in B : row[b] = r
    BY <1>2, <2>1
  <2>. QED
    BY <2>1, <2>3, <2>4, <2>5 DEF Bijection, Injection, Surjection, IsInjective
<1>6. Cardinality(R) = Cardinality(B)
  <2>. HIDE DEF R, B, row
  <2>. QED
    BY <1>4, <1>5, FS_Bijection DEF ExistsBijection
<1>. QED
  BY <1>6 DEF Uses

\* An account without a single use has no row of the feature, and yet is a low user.
THEOREM LowUsersExact == Spec => []LowUseIsExact
<1>1. ASSUME IInv, NEW m \in Months, NEW f \in Feature, NEW u
      PROVE  u \in LowUse(usage, m, f)
               <=> /\ u \in accounts
                   /\ Sent(u, m) # {}
                   /\ Cardinality(SentUses(u, m, f)) < LowUseBelow
  <2>1. u \in Users(InMonth(usage, m)) <=> u \in accounts /\ Sent(u, m) # {}
    <3>1. ASSUME NEW r \in usage, Month(r.at) = m, r.user = u
          PROVE  u \in accounts /\ Sent(u, m) # {}
      <4>1. u \in accounts
        BY <1>1, <3>1 DEF IInv, EventsOfTheOwner
      <4>2. PICK b \in accepted \cap UsageBody : b.user = u /\ r = UsageRow(b)
        BY <1>1, <3>1, <4>1, RowsOfSent
      <4>3. b.at = r.at
        BY <4>2, UsageRowFields
      <4>. QED
        BY <3>1, <4>1, <4>2, <4>3 DEF Sent
    <3>2. ASSUME u \in accounts, NEW b \in Sent(u, m)
          PROVE  \E r \in usage : Month(r.at) = m /\ r.user = u
      <4>1. b \in accepted \cap UsageBody /\ b.user = u /\ Month(b.at) = m
        BY <3>2 DEF Sent
      <4>2. UsageRow(b) \in usage /\ UsageRow(b).user = u
        BY <1>1, <3>2, <4>1, RowsOfSent
      <4>3. UsageRow(b).at = b.at
        BY <4>1, UsageRowFields
      <4>. QED
        BY <4>1, <4>2, <4>3
    <3>. QED
      BY <3>1, <3>2 DEF Users, InMonth
  <2>2. u \in accounts => Uses(usage, m, u, f) = Cardinality(SentUses(u, m, f))
    BY <1>1, UsesAreSent
  <2>. QED
    BY <2>1, <2>2 DEF LowUse
<1>2. IInv => LowUseIsExact
  BY <1>1 DEF LowUseIsExact
<1>. QED
  BY <1>2, Invariance, PTL

\* A run that was selected in a window was displayed in it.
LEMMA Rates ==
    ASSUME NEW from, NEW to, runs \subseteq Run,
           NEW line \in SelectionRates(events, runs, from, to)
    PROVE  line.selections <= line.impressions /\ line.impressions > 0
<1>1. PICK r \in runs :
         /\ \E e \in events : e.run = r.id /\ Within(from, to, e.at)
         /\ line = [explanation |-> r.explanation,
                    impressions |-> Cardinality(Displayed(events, runs, r.explanation, from, to)),
                    selections |-> Cardinality(Chosen(events, runs, r.explanation, from, to))]
  BY DEF SelectionRates
<1> DEFINE D == Displayed(events, runs, r.explanation, from, to)
           S == Chosen(events, runs, r.explanation, from, to)
<1>2. r \in D
  BY <1>1 DEF Displayed
<1>3. D \in SUBSET Run /\ S \in SUBSET D
  BY DEF Displayed, Chosen
<1>4. line.impressions = Cardinality(D) /\ line.selections = Cardinality(S)
  BY <1>1
<1>. HIDE DEF D, S
<1>5. IsFiniteSet(D)
  BY <1>3, FiniteAssumption, FS_Subset
<1>6. Cardinality(S) <= Cardinality(D)
  BY <1>3, <1>5, FS_Subset
<1>7. Cardinality(D) \in Nat /\ Cardinality(D) # 0
  BY <1>2, <1>5, FS_CardinalityType, FS_EmptySet
<1>. QED
  BY <1>4, <1>6, <1>7

\* No explanation is selected more often than displayed, and none divides by zero.
THEOREM RatesAtMostOne == Spec => []RateAtMostOne
<1>1. IInv => RateAtMostOne
  BY Rates DEF IInv, RateAtMostOne
<1>. QED
  BY <1>1, Invariance, PTL

--------------------------------------------------------------------------------
(* Late events and settled months                                          *)

LEMMA QuotientAtLeast ==
    ASSUME NEW n \in Nat \ {0}, NEW k \in Nat, NEW a \in Nat, k * n <= a
    PROVE  a \div n \in Nat /\ k <= a \div n
<1> DEFINE q == a \div n
<1>1. q \in Nat /\ a < n * (q + 1)
  BY SMT
<1> HIDE DEF q
<1>2. SUFFICES ASSUME q + 1 <= k PROVE FALSE
  BY <1>1 DEF q
<1>3. n * (q + 1) <= k * n
  BY <1>1, <1>2, SMT
<1>. QED
  BY <1>1, <1>3, SMT

\* An instant after the end of a month is not in the month.
LEMMA AfterMonth ==
    ASSUME NEW m \in Nat, NEW t \in Nat, (m + 1) * MonthLength * DayLength <= t
    PROVE  Month(t) # m
<1> DEFINE k == (m + 1) * MonthLength
           d == t \div DayLength
<1>1. k \in Nat
  BY LengthAssumption
<1>2. k * DayLength <= t
  OBVIOUS
<1>. HIDE DEF k
<1>3. d \in Nat /\ k <= d
  BY <1>1, <1>2, LengthAssumption, QuotientAtLeast
<1>. HIDE DEF d
<1>4. m + 1 <= d \div MonthLength /\ d \div MonthLength \in Nat
  BY <1>3, LengthAssumption, QuotientAtLeast DEF k
<1>. QED
  BY <1>4 DEF Month, Day, d

\* Recent lets no event of a settled month in.
LEMMA SettledRefuses ==
    ASSUME IInv, NEW m \in Nat, NEW b \in UsageBody, Recent(b.at),
           clock - MaxAge >= (m + 1) * MonthLength * DayLength
    PROVE  Month(b.at) # m
<1> DEFINE e == (m + 1) * MonthLength * DayLength
<1>1. b.at \in Nat
  BY UsageRowFields
<1>2. e \in Nat
  BY LengthAssumption
<1>3. clock \in Nat /\ MaxAge \in Nat
  BY TimeAssumption DEF IInv
<1>. HIDE DEF e
<1>4. clock - MaxAge >= e
  BY DEF e
<1>5. e <= b.at
  BY <1>1, <1>2, <1>3, <1>4 DEF Recent
<1>. QED
  BY <1>1, <1>5, AfterMonth DEF e

\* A step leaves a settled month settled and adds nothing to its report.
LEMMA StepSettles ==
    ASSUME IInv, [Next]_vars, NEW m \in Months, Settled(m)
    PROVE  Settled(m)' /\ InMonth(usage', m) \subseteq usage
<1> DEFINE end == (m + 1) * MonthLength * DayLength
           Quiet(s) == \A c \in Sender : s[c].step = "insertUsage" => Month(s[c].body.at) # m
<1>1. m \in Nat
  BY DEF Months
<1>2. clock - MaxAge >= end /\ Quiet(sender)
  BY DEF Settled
<1>3. clock \in Nat /\ MaxAge \in Nat /\ end \in Nat
  BY <1>1, TimeAssumption, LengthAssumption DEF IInv
<1>4. sender \in [Sender -> SenderState]
  BY DEF IInv, SenderInv
<1>5. SUFFICES clock' - MaxAge >= end /\ Quiet(sender') /\ InMonth(usage', m) \subseteq usage
  BY DEF Settled
<1>6. InMonth(usage, m) \subseteq usage
  BY DEF InMonth
<1>. HIDE DEF end
<1>7. ASSUME NEW c \in Sender, NEW b \in UsageBody, UsageArrives(c, b)
      PROVE  clock' - MaxAge >= end /\ Quiet(sender') /\ InMonth(usage', m) \subseteq usage
  <2>1. clock' = clock /\ usage' = usage
    BY <1>7 DEF UsageArrives
  <2>2. CASE Recent(b.at)
    <3>1. sender' = sender \/ sender' = [sender EXCEPT ![c] = [step |-> "insertUsage", body |-> b]]
      BY <1>7 DEF UsageArrives, Handles
    <3>2. Month(b.at) # m
      BY <1>1, <1>2, <2>2, SettledRefuses DEF end
    <3>. QED
      BY <1>2, <1>4, <1>6, <2>1, <3>1, <3>2
  <2>3. CASE ~Recent(b.at)
    BY <1>2, <1>6, <1>7, <2>1, <2>3 DEF UsageArrives
  <2>. QED
    BY <2>2, <2>3
<1>8. ASSUME NEW c \in Sender, InsertUsage(c)
      PROVE  clock' - MaxAge >= end /\ Quiet(sender') /\ InMonth(usage', m) \subseteq usage
  <2> DEFINE b == sender[c].body
  <2>1. clock' = clock /\ sender' = [sender EXCEPT ![c] = Idle]
    BY <1>8 DEF InsertUsage, Accept, Reject
  <2>2. Quiet(sender')
    BY <1>2, <1>4, <2>1 DEF Idle
  <2>3. b \in UsageBody /\ Month(b.at) # m
    BY <1>2, <1>4, <1>8 DEF InsertUsage, SenderState, Idle
  <2>4. usage' = usage \/ usage' = Inserted(usage, UsageRow(b))
    BY <1>8 DEF InsertUsage
  <2>5. InMonth(usage', m) \subseteq usage
    <3>1. \A n : Month([UsageRow(b) EXCEPT !.copy = n].at) # m
      BY <2>3 DEF UsageRow
    <3>. QED
      BY <1>6, <2>4, <3>1 DEF InMonth, Inserted
  <2>. QED
    BY <1>2, <2>1, <2>2, <2>5
<1>9. ASSUME NEW c \in Sender,
             \/ \E b \in EventBody : EventArrives(c, b)
             \/ CheckOwner(c)
             \/ InsertEvent(c)
      PROVE  clock' - MaxAge >= end /\ Quiet(sender') /\ InMonth(usage', m) \subseteq usage
  <2>1. clock' = clock /\ usage' = usage
    BY <1>9 DEF EventArrives, CheckOwner, InsertEvent
  <2>2. \E state : sender' = [sender EXCEPT ![c] = state] /\ state.step # "insertUsage"
    BY <1>9 DEF EventArrives, CheckOwner, InsertEvent, Handles, Accept, Reject, Idle
  <2>3. Quiet(sender')
    BY <1>2, <1>4, <2>2
  <2>. QED
    BY <1>2, <1>6, <2>1, <2>3
<1>10. ASSUME NEW c \in Reader,
              \/ \E month \in Months : AskAdoption(c, month)
              \/ CountEvents(c)
              \/ \E w \in Window : AskSelection(c, w[1], w[2]) \/ AskDemand(c, w[1], w[2])
              \/ ReadSelections(c)
              \/ Close(c)
       PROVE  clock' - MaxAge >= end /\ Quiet(sender') /\ InMonth(usage', m) \subseteq usage
  <2>1. clock' = clock /\ usage' = usage /\ sender' = sender
    BY <1>10 DEF AskAdoption, CountEvents, AskSelection, AskDemand, ReadSelections, Close, Reads
  <2>. QED
    BY <1>2, <1>6, <2>1
<1>11. ASSUME NEW u \in User, DeleteAccount(u)
       PROVE  clock' - MaxAge >= end /\ Quiet(sender') /\ InMonth(usage', m) \subseteq usage
  BY <1>2, <1>11 DEF DeleteAccount, InMonth
<1>12. ASSUME Tick
       PROVE  clock' - MaxAge >= end /\ Quiet(sender') /\ InMonth(usage', m) \subseteq usage
  <2>1. clock' = clock + 1 /\ usage' = usage /\ sender' = sender
    BY <1>12 DEF Tick
  <2>. QED
    BY <1>2, <1>3, <1>6, <2>1
<1>13. ASSUME Crash
       PROVE  clock' - MaxAge >= end /\ Quiet(sender') /\ InMonth(usage', m) \subseteq usage
  BY <1>2, <1>6, <1>13 DEF Crash, Idle
<1>14. ASSUME UNCHANGED vars
       PROVE  clock' - MaxAge >= end /\ Quiet(sender') /\ InMonth(usage', m) \subseteq usage
  <2>1. clock' = clock /\ usage' = usage /\ sender' = sender
    BY <1>14 DEF vars
  <2>. QED
    BY <1>2, <1>6, <2>1
<1>. QED
  BY <1>7, <1>8, <1>9, <1>10, <1>11, <1>12, <1>13, <1>14 DEF Next

\* What an analyst reads of a settled month is final, but for deleted accounts.
THEOREM SettledIsFinal == Spec => SettledMonthIsFinal
<1>1. ASSUME IInv, [Next]_vars
      PROVE  [\A m \in Months :
                Settled(m) => Settled(m)' /\ InMonth(usage', m) \subseteq usage]_vars
  BY <1>1, StepSettles
<1>. QED
  BY <1>1, Invariance, PTL DEF Spec, SettledMonthIsFinal

--------------------------------------------------------------------------------
(* Published counts                                                        *)

LEMMA FiniteImage ==
    ASSUME NEW S, IsFiniteSet(S), NEW f, NEW T, \A y \in T : \E x \in S : y = f[x]
    PROVE  IsFiniteSet(T)
<1> DEFINE Image == {f[x] : x \in S}
           g == [x \in S |-> f[x]]
<1>1. g \in Surjection(S, Image)
  BY DEF Surjection
<1>2. T \subseteq Image
  OBVIOUS
<1>. HIDE DEF Image, g
<1>. QED
  BY <1>1, <1>2, FS_Surjection, FS_Subset

\* S is split into classes by the key of its elements, a value of D.
Partition(S, D, key, class) ==
    /\ \A s \in S : key[s] \in D
    /\ \A x \in D : class[x] \subseteq S /\ \A s \in S : s \in class[x] <=> key[s] = x

\* n holds the sizes of the classes, or the numbers of their interactions of a kind.
Sizes(D, n, class) == \A x \in D : n[x] = Cardinality(class[x])
Numbers(D, n, class, kind) == \A x \in D : n[x] = Number(class[x], kind)

\* What the counts n stand for.
AreUnits(D, n, Units) == \A p : p \in Units <=> \E x \in D : \E i \in 1..n[x] : p = <<x, i>>

\* A finite set is counted by the sizes of its classes: the units they stand for are
\* as many as its elements.
LEMMA ClassesAddUp ==
    ASSUME NEW S, IsFiniteSet(S), NEW D, NEW f, NEW class, Partition(S, D, f, class),
           NEW n, Sizes(D, n, class), NEW Units, AreUnits(D, n, Units)
    PROVE  Cardinality(Units) = Cardinality(S)
<1>. USE DEF Partition, Sizes, AreUnits
<1> DEFINE count == [x \in D |-> CHOOSE g : g \in Bijection(class[x], 1..n[x])]
           unit == [s \in S |-> <<f[s], count[f[s]][s]>>]
<1>1. \A x \in D : n[x] \in Nat /\ count[x] \in Bijection(class[x], 1..n[x])
  <2> SUFFICES ASSUME NEW x \in D
               PROVE  n[x] \in Nat /\ \E g : g \in Bijection(class[x], 1..n[x])
    OBVIOUS
  <2>1. IsFiniteSet(class[x]) /\ n[x] = Cardinality(class[x])
    BY FS_Subset
  <2>2. n[x] \in Nat /\ IsFiniteSet(1..n[x]) /\ Cardinality(1..n[x]) = n[x]
    BY <2>1, FS_CardinalityType, FS_Interval
  <2>3. ExistsBijection(class[x], 1..n[x])
    BY <2>1, <2>2, FS_SameCardinalityBij
  <2>. QED
    BY <2>2, <2>3 DEF ExistsBijection
<1>. HIDE DEF count
<1>2. \A s \in S : f[s] \in D /\ s \in class[f[s]] /\ count[f[s]][s] \in 1..n[f[s]]
  BY <1>1 DEF Bijection, Injection
<1>3. unit \in [S -> Units]
  BY <1>2
<1>4. \A s, t \in S : unit[s] = unit[t] => s = t
  <2> SUFFICES ASSUME NEW s \in S, NEW t \in S, unit[s] = unit[t] PROVE s = t
    OBVIOUS
  <2>1. f[s] = f[t] /\ count[f[s]][s] = count[f[s]][t]
    OBVIOUS
  <2>2. s \in class[f[s]] /\ t \in class[f[s]] /\ f[s] \in D
    BY <1>2, <2>1
  <2>. QED
    BY <1>1, <2>1, <2>2 DEF Bijection, Injection, IsInjective
<1>5. \A p \in Units : \E s \in S : unit[s] = p
  <2> SUFFICES ASSUME NEW p \in Units PROVE \E s \in S : unit[s] = p
    OBVIOUS
  <2>1. PICK x \in D : \E i \in 1..n[x] : p = <<x, i>>
    OBVIOUS
  <2>2. PICK i \in 1..n[x] : p = <<x, i>>
    BY <2>1
  <2>3. PICK s \in class[x] : count[x][s] = i
    BY <1>1 DEF Bijection, Surjection
  <2>4. s \in S /\ f[s] = x
    BY <2>3
  <2>. QED
    BY <2>2, <2>3, <2>4
<1>. HIDE DEF unit
<1>6. unit \in Bijection(S, Units)
  BY <1>3, <1>4, <1>5 DEF Bijection, Injection, Surjection, IsInjective
<1>. QED
  BY <1>6, FS_Bijection DEF ExistsBijection

\* What a published cell shows, and that a larger set of rows has no fewer accounts.
LEMMA CellFields ==
    ASSUME NEW rows, IsFiniteSet(rows)
    PROVE  LET cell == Cell(rows)
           IN /\ cell.suppressed \in BOOLEAN
              /\ cell.suppressed <=> Cardinality(Users(rows)) < MinUsers
              /\ ~cell.suppressed =>
                    /\ cell["searches"] = Number(rows, "RESTAURANT_SEARCH")
                    /\ cell["details"] = Number(rows, "RESTAURANT_DETAIL")
                    /\ cell["selections"] = Number(rows, "SELECTION")
                    /\ cell.users = Cardinality(Users(rows))
                    /\ cell.users \in Nat /\ cell.users >= MinUsers
<1> DEFINE f == [r \in rows |-> r.user]
<1>1. \A u \in Users(rows) : \E r \in rows : u = f[r]
  BY DEF Users
<1>. HIDE DEF f
<1>2. IsFiniteSet(Users(rows))
  BY <1>1, FiniteImage
<1>3. Cardinality(Users(rows)) \in Nat
  BY <1>2, FS_CardinalityType
<1>4. CASE Cardinality(Users(rows)) < MinUsers
  BY <1>4 DEF Cell, Suppressed
<1>5. CASE ~(Cardinality(Users(rows)) < MinUsers)
  <2>1. Cell(rows) = Counts(rows)
    BY <1>5 DEF Cell
  <2>. QED
    BY <1>3, <1>5, <2>1, MinUsersAssumption DEF Counts
<1>. QED
  BY <1>4, <1>5

LEMMA MoreUsers ==
    ASSUME NEW rows, IsFiniteSet(rows), NEW part \in SUBSET rows
    PROVE  Cardinality(Users(part)) <= Cardinality(Users(rows))
<1> DEFINE f == [r \in rows |-> r.user]
<1>1. \A u \in Users(rows) : \E r \in rows : u = f[r]
  BY DEF Users
<1>2. Users(part) \subseteq Users(rows)
  BY DEF Users
<1>. HIDE DEF f
<1>. QED
  BY <1>1, <1>2, FiniteImage, FS_Subset

\* The rows of a part include all those of a kind, or all that some counts count.
AllIn(rows, kind, part) == \A r \in rows : r.kind = kind => r \in part

Covers(rows, counts, part) ==
    /\ part \subseteq rows
    /\ "searches" \in counts => AllIn(rows, "RESTAURANT_SEARCH", part)
    /\ "details" \in counts => AllIn(rows, "RESTAURANT_DETAIL", part)
    /\ "selections" \in counts => AllIn(rows, "SELECTION", part)

AreCells(cells, class) == \A x \in DOMAIN cells : cells[x] = Cell(class[x])

\* The interactions of one kind, split by a key, add up.
LEMMA NumbersAddUp ==
    ASSUME NEW rows, IsFiniteSet(rows), NEW kind, NEW part, AllIn(rows, kind, part),
           NEW D, NEW key, NEW class, part \subseteq rows, Partition(part, D, key, class),
           NEW n, Numbers(D, n, class, kind), NEW Units, AreUnits(D, n, Units)
    PROVE  Cardinality(Units) = Number(rows, kind)
<1> DEFINE S == {r \in rows : r.kind = kind}
           classOf == [x \in D |-> {r \in class[x] : r.kind = kind}]
<1>1. IsFiniteSet(S)
  BY FS_Subset
<1>2. Partition(S, D, key, classOf)
  BY DEF Partition, AllIn
<1>3. Sizes(D, n, classOf)
  BY DEF Sizes, Numbers, Number
<1>4. Number(rows, kind) = Cardinality(S)
  BY DEF Number
<1>. HIDE DEF S, classOf
<1>. QED
  BY <1>1, <1>2, <1>3, <1>4, ClassesAddUp

\* A breakdown of a published zone by a key of the rows of some kinds.
LEMMA BreakdownAddsUp ==
    ASSUME NEW rows, IsFiniteSet(rows), ~Cell(rows).suppressed,
           NEW counts \in SUBSET {"searches", "details", "selections"},
           NEW part, Covers(rows, counts, part),
           NEW cells, NEW class, AreCells(cells, class),
           NEW key, Partition(part, DOMAIN cells, key, class)
    PROVE  AddsUp(cells, Cell(rows), counts)
<1> DEFINE D == DOMAIN cells
           total == Cell(rows)
<1>1. \A x \in D : cells[x] = Cell(class[x])
  BY DEF AreCells
<1>2. \A x \in D : IsFiniteSet(class[x]) /\ class[x] \in SUBSET rows
  <2>1. \A x \in D : class[x] \in SUBSET rows
    BY DEF Partition, Covers
  <2>. QED
    BY <2>1, FS_Subset
<1>4. ASSUME NEW x \in D, ~cells[x].suppressed
      PROVE  cells[x].users \in MinUsers..total.users
  <2>1. cells[x].users = Cardinality(Users(class[x])) /\ cells[x].users \in Nat
          /\ cells[x].users >= MinUsers
    BY <1>1, <1>2, <1>4, CellFields
  <2>2. total.users = Cardinality(Users(rows)) /\ total.users \in Nat
    BY CellFields
  <2>3. Cardinality(Users(class[x])) <= Cardinality(Users(rows))
    BY <1>2, MoreUsers
  <2>. QED
    BY <2>1, <2>2, <2>3, MinUsersAssumption
<1>5. ASSUME \A x \in D : ~cells[x].suppressed, NEW k \in counts
      PROVE  total[k] = SumOf(cells, k)
  <2> DEFINE n == [x \in D |-> cells[x][k]]
             Units == UNION {{x} \X (1..cells[x][k]) : x \in D}
  <2>1. SumOf(cells, k) = Cardinality(Units)
    BY DEF SumOf
  <2>2. PICK kind :
          /\ AllIn(rows, kind, part)
          /\ total[k] = Number(rows, kind)
          /\ Numbers(D, n, class, kind)
    <3>1. CASE k = "searches"
      <4>1. \A x \in D : cells[x][k] = Number(class[x], "RESTAURANT_SEARCH")
        BY <1>1, <1>2, <1>5, <3>1, CellFields
      <4>2. total[k] = Number(rows, "RESTAURANT_SEARCH")
        BY <3>1, CellFields
      <4>3. AllIn(rows, "RESTAURANT_SEARCH", part)
        BY <3>1 DEF Covers
      <4>. QED
        BY <4>1, <4>2, <4>3 DEF Numbers
    <3>2. CASE k = "details"
      <4>1. \A x \in D : cells[x][k] = Number(class[x], "RESTAURANT_DETAIL")
        BY <1>1, <1>2, <1>5, <3>2, CellFields
      <4>2. total[k] = Number(rows, "RESTAURANT_DETAIL")
        BY <3>2, CellFields
      <4>3. AllIn(rows, "RESTAURANT_DETAIL", part)
        BY <3>2 DEF Covers
      <4>. QED
        BY <4>1, <4>2, <4>3 DEF Numbers
    <3>3. CASE k = "selections"
      <4>1. \A x \in D : cells[x][k] = Number(class[x], "SELECTION")
        BY <1>1, <1>2, <1>5, <3>3, CellFields
      <4>2. total[k] = Number(rows, "SELECTION")
        BY <3>3, CellFields
      <4>3. AllIn(rows, "SELECTION", part)
        BY <3>3 DEF Covers
      <4>. QED
        BY <4>1, <4>2, <4>3 DEF Numbers
    <3>. QED
      BY <3>1, <3>2, <3>3
  <2>3. AreUnits(D, n, Units)
    BY DEF AreUnits
  <2>. HIDE DEF n, total, Units
  <2>4. part \subseteq rows /\ Partition(part, D, key, class)
    BY DEF Covers
  <2>. HIDE DEF D
  <2>5. Cardinality(Units) = Number(rows, kind)
    BY <2>2, <2>3, <2>4, NumbersAddUp
  <2>. QED
    BY <2>1, <2>2, <2>5
<1>. QED
  BY <1>1, <1>4, <1>5 DEF AddsUp

\* The report on any finite set of interactions adds up.
LEMMA ZonesAddUp ==
    ASSUME NEW rows, IsFiniteSet(rows), NEW z \in DOMAIN ZoneDemand(rows)
    PROVE  ZoneAddsUp(ZoneDemand(rows)[z].totals, ZoneDemand(rows)[z].cells)
<1> DEFINE here == {r \in rows : r.zone = z}
<1>1. ZoneDemand(rows)[z] =
        [totals |-> Cell(here),
         cells |-> IF Cell(here).suppressed THEN NoBreakdowns ELSE Breakdowns(here)]
  BY DEF ZoneDemand
<1>2. IsFiniteSet(here)
  BY FS_Subset
<1>. HIDE DEF here
<1>4. CASE Cell(here).suppressed
  BY <1>1, <1>4 DEF ZoneAddsUp, NoBreakdowns
<1>5. CASE ~Cell(here).suppressed
  <2> DEFINE cells == Breakdowns(here)
             hour == [r \in here |-> r.hour]
             category == [r \in here |-> r.category]
             band == [r \in here |-> r.band]
  <2>1. Cell(here).users >= MinUsers
    BY <1>2, <1>5, CellFields
  <2>2. AddsUp(cells.hours, Cell(here), {"searches", "details", "selections"})
    <3> DEFINE breakdown == cells.hours
               part == here
               class == [x \in DOMAIN breakdown |-> {r \in part : hour[r] = x}]
    <3>1. Covers(here, {"searches", "details", "selections"}, part)
      BY DEF Covers, AllIn
    <3>2. AreCells(breakdown, class)
      BY DEF AreCells, Breakdowns
    <3>3. Partition(part, DOMAIN breakdown, hour, class)
      BY DEF Partition, Breakdowns
    <3>. HIDE DEF breakdown, part, class, hour
    <3>4. AddsUp(breakdown, Cell(here), {"searches", "details", "selections"})
      BY <1>2, <1>5, <3>1, <3>2, <3>3, BreakdownAddsUp
    <3>. QED
      BY <3>4 DEF breakdown
  <2>3. AddsUp(cells.categories, Cell(here), {"selections"})
    <3> DEFINE breakdown == cells.categories
               part == Selections(here)
               class == [x \in DOMAIN breakdown |-> {r \in part : category[r] = x}]
    <3>1. Covers(here, {"selections"}, part)
      BY DEF Covers, AllIn, Selections
    <3>2. AreCells(breakdown, class)
      BY DEF AreCells, Breakdowns, Selections
    <3>3. Partition(part, DOMAIN breakdown, category, class)
      BY DEF Partition, Breakdowns, Selections
    <3>. HIDE DEF breakdown, part, class, category
    <3>4. AddsUp(breakdown, Cell(here), {"selections"})
      BY <1>2, <1>5, <3>1, <3>2, <3>3, BreakdownAddsUp
    <3>. QED
      BY <3>4 DEF breakdown
  <2>4. AddsUp(cells.budgets, Cell(here), {"searches"})
    <3> DEFINE breakdown == cells.budgets
               part == Searches(here)
               class == [x \in DOMAIN breakdown |-> {r \in part : band[r] = x}]
    <3>1. Covers(here, {"searches"}, part)
      BY DEF Covers, AllIn, Searches
    <3>2. AreCells(breakdown, class)
      BY DEF AreCells, Breakdowns, Searches
    <3>3. Partition(part, DOMAIN breakdown, band, class)
      BY DEF Partition, Breakdowns, Searches
    <3>. HIDE DEF breakdown, part, class, band
    <3>4. AddsUp(breakdown, Cell(here), {"searches"})
      BY <1>2, <1>5, <3>1, <3>2, <3>3, BreakdownAddsUp
    <3>. QED
      BY <3>4 DEF breakdown
  <2>5. AddsUp(cells.prices, Cell(here), {"details", "selections"})
    <3> DEFINE breakdown == cells.prices
               part == here \ Searches(here)
               class == [x \in DOMAIN breakdown |-> {r \in part : band[r] = x}]
    <3>1. Covers(here, {"details", "selections"}, part)
      BY DEF Covers, AllIn, Searches
    <3>2. AreCells(breakdown, class)
      BY DEF AreCells, Breakdowns, Searches
    <3>3. Partition(part, DOMAIN breakdown, band, class)
      BY DEF Partition, Breakdowns, Searches
    <3>. HIDE DEF breakdown, part, class, band
    <3>4. AddsUp(breakdown, Cell(here), {"details", "selections"})
      BY <1>2, <1>5, <3>1, <3>2, <3>3, BreakdownAddsUp
    <3>. QED
      BY <3>4 DEF breakdown
  <2>. HIDE DEF cells
  <2>6. ZoneAddsUp(Cell(here), cells)
    BY <1>5, <2>1, <2>2, <2>3, <2>4, <2>5 DEF ZoneAddsUp
  <2>. QED
    BY <1>1, <1>5, <2>6 DEF cells
<1>. QED
  BY <1>4, <1>5

\* Both queries return finitely many interactions.
LEMMA FiniteInteractions ==
    ASSUME IInv, NEW from, NEW to
    PROVE  /\ IsFiniteSet(UsageInteractions(usage, from, to))
           /\ IsFiniteSet(SelectionInteractions(events, runs, from, to))
<1>1. IsFiniteSet(UsageInteractions(usage, from, to))
  <2> DEFINE f == [r \in usage |->
                     [user |-> r.user, row |-> <<r.id, r.copy>>, kind |-> r.feature,
                      zone |-> Known(r.zone), band |-> Known(r.band), category |-> "unknown",
                      hour |-> Hour(r.at)]]
  <2>1. IsFiniteSet(usage)
    BY FiniteUsage DEF IInv
  <2>2. \A i \in UsageInteractions(usage, from, to) : \E r \in usage : i = f[r]
    BY DEF UsageInteractions
  <2>. HIDE DEF f
  <2>. QED
    BY <2>1, <2>2, FiniteImage
<1>2. IsFiniteSet(SelectionInteractions(events, runs, from, to))
  <2> DEFINE offersOf == [r \in runs |-> r.offers]
             Offers == UNION {offersOf[r] : r \in runs}
             Joins == (events \X runs) \X Offers
             f == [j \in Joins |->
                     [user |-> j[1][1].user, row |-> <<j[1][1].id, j[1][1].copy>>,
                      kind |-> "SELECTION", zone |-> Known(j[1][2].zone),
                      band |-> PriceBand(j[2].cost), category |-> Known(j[2].category),
                      hour |-> Hour(j[1][1].at)]]
  <2>1. IsFiniteSet(events) /\ IsFiniteSet(runs)
    BY FiniteRows, FiniteAssumption, FS_Subset DEF IInv, RowsAreBodies
  <2>2. IsFiniteSet(Offers)
    <3> DEFINE Sets == {offersOf[r] : r \in runs}
    <3>1. \A o \in Sets : \E r \in runs : o = offersOf[r]
      OBVIOUS
    <3>2. \A o \in Sets : IsFiniteSet(o)
      BY FiniteAssumption DEF IInv
    <3>. HIDE DEF Sets, offersOf
    <3>3. IsFiniteSet(Sets)
      BY <2>1, <3>1, FiniteImage
    <3>4. IsFiniteSet(UNION Sets)
      BY <3>2, <3>3, FS_UNION
    <3>. QED
      BY <3>4 DEF Sets
  <2>3. IsFiniteSet(Joins)
    <3>. HIDE DEF Offers
    <3>. QED
      BY <2>1, <2>2, FS_Product
  <2>4. \A i \in SelectionInteractions(events, runs, from, to) : \E j \in Joins : i = f[j]
    <3> SUFFICES ASSUME NEW i \in SelectionInteractions(events, runs, from, to)
                 PROVE  \E j \in Joins : i = f[j]
      OBVIOUS
    <3>1. PICK e \in events, r \in runs : \E a \in r.offers :
            i = [user |-> e.user, row |-> <<e.id, e.copy>>, kind |-> "SELECTION",
                 zone |-> Known(r.zone), band |-> PriceBand(a.cost),
                 category |-> Known(a.category), hour |-> Hour(e.at)]
      BY DEF SelectionInteractions
    <3>2. PICK a \in r.offers :
            i = [user |-> e.user, row |-> <<e.id, e.copy>>, kind |-> "SELECTION",
                 zone |-> Known(r.zone), band |-> PriceBand(a.cost),
                 category |-> Known(a.category), hour |-> Hour(e.at)]
      BY <3>1
    <3>3. <<<<e, r>>, a>> \in Joins
      OBVIOUS
    <3>4. f[<<<<e, r>>, a>>] = i
      BY <3>2, <3>3
    <3>. QED
      BY <3>3, <3>4
  <2>. HIDE DEF Joins, f
  <2>. QED
    BY <2>3, <2>4, FiniteImage
<1>. QED
  BY <1>1, <1>2

\* Why it is needed: a report that adds up takes that the interactions of the first
\* query are finitely many, and that other reports are not taken for a BQ9 report.
ReaderInv ==
    /\ reader = [c \in Reader |-> [step |-> reader[c].step, ask |-> reader[c].ask,
                                   read |-> reader[c].read]]
    /\ \A c \in Reader :
          /\ reader[c].step = "readSelections" => IsFiniteSet(reader[c].read)
          /\ reader[c].step = "countEvents" => reader[c].ask.report = "adoption"
    /\ DemandAddsUp

\* A reader's step keeps the invariant if what it leaves behind fits it.
LEMMA ReaderStep ==
    ASSUME ReaderInv, NEW d \in Reader, NEW step, NEW ask, NEW read, Reads(d, step, ask, read),
           step = "readSelections" => IsFiniteSet(read),
           step = "countEvents" => ask.report = "adoption",
           step = "answered" /\ ask.report = "demand" =>
              \A z \in DOMAIN read : ZoneAddsUp(read[z].totals, read[z].cells)
    PROVE  ReaderInv'
<1> DEFINE next == [step |-> step, ask |-> ask, read |-> read]
<1>1. reader' = [reader EXCEPT ![d] = next]
  BY DEF Reads
<1>2. DOMAIN reader = Reader
  BY DEF ReaderInv
<1>3. reader'[d] = next /\ \A c \in Reader : c # d => reader'[c] = reader[c]
  BY <1>1, <1>2
<1>4. reader' = [c \in Reader |-> [step |-> reader'[c].step, ask |-> reader'[c].ask,
                                   read |-> reader'[c].read]]
  <2>1. reader' = [c \in Reader |-> reader'[c]]
    BY <1>1, <1>2
  <2>2. \A c \in Reader : reader'[c] = [step |-> reader'[c].step, ask |-> reader'[c].ask,
                                        read |-> reader'[c].read]
    <3>1. \A c \in Reader : reader[c] = [step |-> reader[c].step, ask |-> reader[c].ask,
                                         read |-> reader[c].read]
      BY DEF ReaderInv
    <3>. QED
      BY <1>3, <3>1
  <2>. QED
    BY <2>1, <2>2
<1>5. ASSUME NEW c \in Reader
      PROVE  /\ reader'[c].step = "readSelections" => IsFiniteSet(reader'[c].read)
             /\ reader'[c].step = "countEvents" => reader'[c].ask.report = "adoption"
             /\ reader'[c].step = "answered" /\ reader'[c].ask.report = "demand" =>
                  \A z \in DOMAIN reader'[c].read :
                     ZoneAddsUp(reader'[c].read[z].totals, reader'[c].read[z].cells)
  <2>1. CASE c = d
    <3>1. reader'[c].step = step /\ reader'[c].ask = ask /\ reader'[c].read = read
      BY <1>3, <2>1
    <3>. QED
      BY <3>1
  <2>2. CASE c # d
    BY <1>3, <2>2 DEF ReaderInv, DemandAddsUp
  <2>. QED
    BY <2>1, <2>2
<1>. QED
  BY <1>4, <1>5 DEF ReaderInv, DemandAddsUp

LEMMA ReaderNext ==
    ASSUME IInv, ReaderInv, [Next]_vars
    PROVE  ReaderInv'
<1>1. ASSUME NEW c \in Reader, NEW month \in Months, AskAdoption(c, month) PROVE ReaderInv'
  BY <1>1, ReaderStep DEF AskAdoption
<1>2. ASSUME NEW c \in Reader, CountEvents(c) PROVE ReaderInv'
  <2>1. reader[c].ask.report = "adoption"
    BY <1>2 DEF CountEvents, ReaderInv
  <2>2. PICK read : Reads(c, "answered", reader[c].ask, read)
    BY <1>2 DEF CountEvents
  <2>. QED
    BY <2>1, <2>2, ReaderStep
<1>3. ASSUME NEW c \in Reader, NEW w \in Window, AskSelection(c, w[1], w[2]) PROVE ReaderInv'
  BY <1>3, ReaderStep DEF AskSelection
<1>4. ASSUME NEW c \in Reader, NEW w \in Window, AskDemand(c, w[1], w[2]) PROVE ReaderInv'
  BY <1>4, ReaderStep, FiniteInteractions DEF AskDemand
<1>5. ASSUME NEW c \in Reader, ReadSelections(c) PROVE ReaderInv'
  <2> DEFINE ask == reader[c].ask
             rows == reader[c].read \cup SelectionInteractions(events, runs, ask.from, ask.to)
  <2>1. Reads(c, "answered", ask, ZoneDemand(rows))
    BY <1>5 DEF ReadSelections
  <2>2. IsFiniteSet(reader[c].read)
    BY <1>5 DEF ReadSelections, ReaderInv
  <2>3. IsFiniteSet(rows)
    BY <2>2, FiniteInteractions, FS_Union
  <2>. HIDE DEF rows, ask
  <2>4. \A z \in DOMAIN ZoneDemand(rows) :
           ZoneAddsUp(ZoneDemand(rows)[z].totals, ZoneDemand(rows)[z].cells)
    BY <2>3, ZonesAddUp
  <2>. QED
    BY <2>1, <2>4, ReaderStep
<1>6. ASSUME NEW c \in Reader, Close(c) PROVE ReaderInv'
  BY <1>6, ReaderStep DEF Close
<1>7. ASSUME Crash PROVE ReaderInv'
  BY <1>7 DEF Crash, ReaderInv, DemandAddsUp, NoQuestion
<1>8. ASSUME UNCHANGED reader PROVE ReaderInv'
  BY <1>8 DEF ReaderInv, DemandAddsUp
<1>. QED
  BY <1>1, <1>2, <1>3, <1>4, <1>5, <1>6, <1>7, <1>8
     DEF Next, vars, UsageArrives, InsertUsage, EventArrives, CheckOwner, InsertEvent, Tick,
         DeleteAccount

\* Whatever happens between the two queries of a report, what it publishes of a zone
\* stands for enough accounts and adds up in every breakdown.
THEOREM PublishedAddsUp == Spec => []DemandAddsUp
<1>1. Init => ReaderInv
  BY DEF Init, ReaderInv, DemandAddsUp, NoQuestion
<1>2. IInv /\ ReaderInv /\ [Next]_vars => ReaderInv'
  BY ReaderNext
<1>3. ReaderInv => DemandAddsUp
  BY DEF ReaderInv
<1>. QED
  BY <1>1, <1>2, <1>3, Invariance, PTL DEF Spec
================================================================================
