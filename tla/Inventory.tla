------------------------------ MODULE Inventory ------------------------------
(***************************************************************************)
(* The five inventory endpoints (src/src/inventory/inventory.service.ts    *)
(* and inventory.repository.ts) over the table inventory_items.            *)
(*                                                                         *)
(* Every await is a point where other requests run, so one action is the   *)
(* code between two database round trips.  PATCH needs three of them: the  *)
(* SELECT of the service, then the SELECT and the UPDATE of the save of    *)
(* TypeORM, which compares the whole entity with the row it has just read  *)
(* and writes every column that differs, by id alone.                      *)
(*                                                                         *)
(* Days are counted as integers.  Each item is named by the request that   *)
(* created it (its id is drawn with gen_random_uuid), or is in the table   *)
(* already.                                                                *)
(***************************************************************************)
EXTENDS Integers

CONSTANTS
    Request,    \* the requests clients ever make
    StoredItem, \* items in the table at the start
    User,       \* accounts
    Column,     \* the columns a client may write: name, quantity, unit, ...
    Value,      \* what a column may hold; those of expirationDate are days
    Null,       \* what a PATCH may ask for and no column may hold
    Body,       \* the PATCH bodies clients send: functions on a set of columns
    Within,     \* the withinDays clients ask for
    Ops,        \* the endpoints clients call: a subset of OpName
    MaxDay,     \* bound on the calendar
    None        \* no id

VARIABLES
    today,      \* the calendar day in Bogota
    accounts,   \* table users
    items,      \* table inventory_items
    pc,         \* pc[r]: the next step of request r
    call,       \* call[r]: what request r asks
    copy,       \* copy[r]: the entity a PATCH has read and modified
    stored,     \* stored[r]: the row the save of a PATCH compares it with
    result,     \* result[r]: the items r is about to return
    day,        \* day[r]: the day the remainingDays of r are counted from
    answer,     \* answer[r]: the outcome of r, "none" while it runs
    raced       \* history: the PATCHes whose row another request changed
                \* between the SELECT of the service and that of the save

vars == <<today, accounts, items, pc, call, copy, stored, result, day, answer, raced>>

OpName == {"list", "expiring", "create", "update", "deactivate"}
Item == StoredItem \cup Request

ASSUME NoneAssumption == None \notin Item \cup User
ASSUME ItemAssumption == StoredItem \cap Request = {}
ASSUME ColumnAssumption == "expirationDate" \in Column
ASSUME ValueAssumption == Value \subseteq Int /\ Null \notin Value
ASSUME BodyAssumption ==
    Body \subseteq UNION {[S -> Value \cup {Null}] : S \in SUBSET Column}
ASSUME WithinAssumption == Within \subseteq Nat
ASSUME OpsAssumption == Ops \subseteq OpName
ASSUME MaxDayAssumption == MaxDay \in Nat

-----------------------------------------------------------------------------
(* Rows and local values *)

Fields == [Column -> Value]
NoFields == [c \in Column |-> Null]
NoItem == [userId |-> None, fields |-> NoFields, state |-> "absent"]
Row == [userId : User, fields : Fields, state : {"active", "inactive"}] \cup {NoItem}
Entity == [userId : User, fields : [Column -> Value \cup {Null}],
           state : {"active", "inactive"}] \cup {NoItem}

Call == [op : OpName \cup {"none"}, user : User \cup {None}, item : Item \cup {None},
         body : Body \cup {<<>>}, fields : Fields \cup {NoFields}, within : Nat]
NoCall == [op |-> "none", user |-> None, item |-> None, body |-> <<>>,
           fields |-> NoFields, within |-> 0]

(* An item of a response, as far as the clock matters. *)
Found == [id : Item, expirationDate : Value \cup {Null}]

Step == {"idle", "query", "insert", "find", "load", "write", "deactivate", "respond", "done"}
Answer == {"none", "ok", "notFound", "validationError", "serverError"}

TypeOK ==
    /\ today \in 0..MaxDay
    /\ accounts \in SUBSET User
    /\ items \in [Item -> Row]
    /\ pc \in [Request -> Step]
    /\ call \in [Request -> Call]
    /\ copy \in [Request -> Entity]
    /\ stored \in [Request -> Row]
    /\ result \in [Request -> SUBSET Found]
    /\ day \in [Request -> 0..MaxDay]
    /\ answer \in [Request -> Answer]
    /\ raced \in SUBSET Request

(* Some active items of some accounts. *)
StoredRows ==
    {t \in [Item -> Row] :
        \A i \in Item : t[i].state = IF i \in StoredItem THEN "active" ELSE "absent"}

Init ==
    /\ today = 0
    /\ accounts = User
    /\ items \in StoredRows
    /\ pc = [r \in Request |-> "idle"]
    /\ call = [r \in Request |-> NoCall]
    /\ copy = [r \in Request |-> NoItem]
    /\ stored = [r \in Request |-> NoItem]
    /\ result = [r \in Request |-> {}]
    /\ day = [r \in Request |-> 0]
    /\ answer = [r \in Request |-> "none"]
    /\ raced = {}

-----------------------------------------------------------------------------
(* Helpers *)

(* A request of a logged-in account arrives. *)
Ask(r, c) ==
    /\ pc[r] = "idle"
    /\ c.op \in Ops
    /\ c.user \in accounts
    /\ call' = [call EXCEPT ![r] = c]

GoTo(r, step) ==
    /\ pc' = [pc EXCEPT ![r] = step]
    /\ UNCHANGED answer

Reply(r, a) ==
    /\ pc' = [pc EXCEPT ![r] = "done"]
    /\ answer' = [answer EXCEPT ![r] = a]

(* A step that changes a row overtakes the PATCHes that have looked the    *)
(* item up and whose save has not read it yet.                             *)
Overtake ==
    raced' = raced \cup {q \in Request : /\ pc[q] = "load"
                                         /\ items'[call[q].item] # items[call[q].item]}

(* The rows of account u that a SELECT or UPDATE with "user_id = u AND     *)
(* active = true" reaches.                                                 *)
OwnedActive(u) == {i \in Item : items[i].state = "active" /\ items[i].userId = u}

(* The part of an item that toItemResponse measures. *)
Show(i, fields) == [id |-> i, expirationDate |-> fields["expirationDate"]]

-----------------------------------------------------------------------------
(* Reading: list and getExpiring *)

ListArrives(r) ==
    /\ \E u \in User : Ask(r, [NoCall EXCEPT !.op = "list", !.user = u])
    /\ GoTo(r, "query")
    /\ UNCHANGED <<today, accounts, items, copy, stored, result, day, raced>>

(* getExpiring resolves today before it queries. *)
ExpiringArrives(r) ==
    /\ \E u \in User, n \in Within :
          Ask(r, [NoCall EXCEPT !.op = "expiring", !.user = u, !.within = n])
    /\ day' = [day EXCEPT ![r] = today]
    /\ GoTo(r, "query")
    /\ UNCHANGED <<today, accounts, items, copy, stored, result, raced>>

(* findActiveByUser, findExpiringByUser *)
Query(r) ==
    /\ pc[r] = "query"
    /\ LET wanted(i) ==
             \/ call[r].op = "list"
             \/ items[i].fields["expirationDate"] \in day[r] .. (day[r] + call[r].within)
       IN  result' = [result EXCEPT ![r] =
                        {Show(i, items[i].fields) :
                           i \in {j \in OwnedActive(call[r].user) : wanted(j)}}]
    /\ GoTo(r, "respond")
    /\ UNCHANGED <<today, accounts, items, call, copy, stored, day, raced>>

(* Fault: getExpiring resolves today when it builds the response. *)
RespondWithToday(r) ==
    /\ pc[r] = "respond"
    /\ day' = [day EXCEPT ![r] = today]
    /\ Reply(r, "ok")
    /\ UNCHANGED <<today, accounts, items, call, copy, stored, result, raced>>

(* toResponse and toItemResponse; all but getExpiring read the clock here. *)
Respond(r) ==
    /\ pc[r] = "respond"
    /\ day' = [day EXCEPT ![r] = IF call[r].op = "expiring" THEN @ ELSE today]
    /\ Reply(r, "ok")
    /\ UNCHANGED <<today, accounts, items, call, copy, stored, result, raced>>

RemainingDays(r) == {x.expirationDate - day[r] : x \in result[r]}

-----------------------------------------------------------------------------
(* create *)

CreateArrives(r) ==
    /\ \E u \in User, f \in Fields :
          Ask(r, [NoCall EXCEPT !.op = "create", !.user = u, !.fields = f])
    /\ GoTo(r, "insert")
    /\ UNCHANGED <<today, accounts, items, copy, stored, result, day, raced>>

(* createForUser; the foreign key refuses the row of a deleted account. *)
Insert(r) ==
    /\ pc[r] = "insert"
    /\ \/ /\ call[r].user \in accounts
          /\ items' = [items EXCEPT ![r] = [userId |-> call[r].user,
                                            fields |-> call[r].fields, state |-> "active"]]
          /\ result' = [result EXCEPT ![r] = {Show(r, call[r].fields)}]
          /\ GoTo(r, "respond")
       \/ /\ call[r].user \notin accounts
          /\ Reply(r, "serverError")
          /\ UNCHANGED <<items, result>>
    /\ UNCHANGED <<today, accounts, call, copy, stored, day, raced>>

-----------------------------------------------------------------------------
(* update *)

UpdateArrives(r) ==
    /\ \E u \in User, i \in Item, b \in Body :
          /\ Ask(r, [NoCall EXCEPT !.op = "update", !.user = u, !.item = i, !.body = b])
          /\ IF DOMAIN b = {} THEN Reply(r, "validationError") ELSE GoTo(r, "find")
    /\ UNCHANGED <<today, accounts, items, copy, stored, result, day, raced>>

(* Fault: what the body omits is reset to a default. *)
MergeDefaults(body, fields) ==
    [c \in Column |-> IF c \in DOMAIN body THEN body[c] ELSE CHOOSE v \in Value : TRUE]

(* The columns of a body over those of a row. *)
Merge(body, fields) ==
    [c \in Column |-> IF c \in DOMAIN body THEN body[c] ELSE fields[c]]

(* Fault: the lookup does not ask for the owner. *)
FindAnyActive(r) ==
    /\ pc[r] = "find"
    /\ items[call[r].item].state = "active"
    /\ copy' = [copy EXCEPT ![r] = [items[call[r].item] EXCEPT !.fields = Merge(call[r].body, @)]]
    /\ GoTo(r, "load")
    /\ UNCHANGED <<today, accounts, items, call, stored, result, day, raced>>

(* Fault: the lookup does not ask for active = true. *)
FindOwnedInactive(r) ==
    /\ pc[r] = "find"
    /\ items[call[r].item].userId = call[r].user
    /\ copy' = [copy EXCEPT ![r] = [items[call[r].item] EXCEPT !.fields = Merge(call[r].body, @)]]
    /\ GoTo(r, "load")
    /\ UNCHANGED <<today, accounts, items, call, stored, result, day, raced>>

(* findOwnedActiveById, then the assignments to the entity. *)
FindOwnedActive(r) ==
    /\ pc[r] = "find"
    /\ LET i == call[r].item
       IN \/ /\ i \in OwnedActive(call[r].user)
             /\ copy' = [copy EXCEPT ![r] = [items[i] EXCEPT !.fields = Merge(call[r].body, @)]]
             /\ GoTo(r, "load")
          \/ /\ i \notin OwnedActive(call[r].user)
             /\ Reply(r, "notFound")
             /\ UNCHANGED copy
    /\ UNCHANGED <<today, accounts, items, call, stored, result, day, raced>>

(* save, first half: SELECT the row by its primary key. *)
LoadStored(r) ==
    /\ pc[r] = "load"
    /\ stored' = [stored EXCEPT ![r] = items[call[r].item]]
    /\ GoTo(r, "write")
    /\ UNCHANGED <<today, accounts, items, call, copy, result, day, raced>>

(* The columns in which the entity differs from the row that save read. *)
Changed(r) == {c \in Column : copy[r].fields[c] # stored[r].fields[c]}

(* Fault: the save writes the whole entity. *)
WrittenWhole(r) ==
    LET row == items[call[r].item]
    IN  IF row.state = "absent" THEN row ELSE copy[r]

(* The row after UPDATE ... SET <changed columns> WHERE id = ...; a row    *)
(* that is gone is not updated.                                            *)
Written(r) ==
    LET row == items[call[r].item]
    IN  IF row.state = "absent" THEN row
        ELSE [userId |-> row.userId,
              fields |-> [c \in Column |-> IF c \in Changed(r) THEN copy[r].fields[c]
                                                               ELSE row.fields[c]],
              state  |-> IF copy[r].state # stored[r].state THEN copy[r].state ELSE row.state]

(* Fault: no NOT NULL constraint. *)
WriteNulls(r) ==
    /\ pc[r] = "write"
    /\ stored[r].state # "absent"
    /\ items' = [items EXCEPT ![call[r].item] = Written(r)]
    /\ result' = [result EXCEPT ![r] = {Show(call[r].item, copy[r].fields)}]
    /\ GoTo(r, "respond")
    /\ Overtake
    /\ UNCHANGED <<today, accounts, call, copy, stored, day>>

(* save, second half.  A row that was gone when save looked is inserted,   *)
(* which its foreign key refuses, since rows leave only with their         *)
(* account; a column that became null is refused as well.                  *)
WriteChanges(r) ==
    /\ pc[r] = "write"
    /\ LET refused == stored[r].state = "absent" \/ \E c \in Changed(r) : copy[r].fields[c] = Null
       IN \/ /\ refused
             /\ Reply(r, "serverError")
             /\ UNCHANGED <<items, result>>
          \/ /\ ~refused
             /\ items' = [items EXCEPT ![call[r].item] = Written(r)]
             /\ result' = [result EXCEPT ![r] = {Show(call[r].item, copy[r].fields)}]
             /\ GoTo(r, "respond")
    /\ Overtake
    /\ UNCHANGED <<today, accounts, call, copy, stored, day>>

-----------------------------------------------------------------------------
(* deactivate *)

DeactivateArrives(r) ==
    /\ \E u \in User, i \in Item :
          Ask(r, [NoCall EXCEPT !.op = "deactivate", !.user = u, !.item = i])
    /\ GoTo(r, "deactivate")
    /\ UNCHANGED <<today, accounts, items, copy, stored, result, day, raced>>

(* deactivateOwnedActive: one conditional UPDATE. *)
Deactivate(r) ==
    /\ pc[r] = "deactivate"
    /\ LET i == call[r].item
       IN \/ /\ i \in OwnedActive(call[r].user)
             /\ items' = [items EXCEPT ![i].state = "inactive"]
             /\ Reply(r, "ok")
          \/ /\ i \notin OwnedActive(call[r].user)
             /\ Reply(r, "notFound")
             /\ UNCHANGED items
    /\ Overtake
    /\ UNCHANGED <<today, accounts, call, copy, stored, result, day>>

-----------------------------------------------------------------------------
(* Around the requests *)

(* An account is deleted, and its items with it (ON DELETE CASCADE). *)
DeleteAccount(u) ==
    /\ u \in accounts
    /\ accounts' = accounts \ {u}
    /\ items' = [i \in Item |-> IF items[i].userId = u THEN NoItem ELSE items[i]]
    /\ UNCHANGED <<today, pc, call, copy, stored, result, day, answer, raced>>

Midnight ==
    /\ today < MaxDay
    /\ today' = today + 1
    /\ UNCHANGED <<accounts, items, pc, call, copy, stored, result, day, answer, raced>>

Arrive(r) ==
    ListArrives(r) \/ ExpiringArrives(r) \/ CreateArrives(r) \/ UpdateArrives(r) \/ DeactivateArrives(r)

Serve(r) ==
    \/ Query(r) \/ Respond(r) \/ Insert(r)
    \/ FindOwnedActive(r) \/ LoadStored(r) \/ WriteChanges(r) \/ Deactivate(r)

Next ==
    \/ \E r \in Request : Arrive(r) \/ Serve(r)
    \/ \E u \in User : DeleteAccount(u)
    \/ Midnight

Spec == Init /\ [][Next]_vars

-----------------------------------------------------------------------------
(* Properties *)

(* "A caller can never reach another user's row" (inventory.repository.ts: *)
(* 13-17), although save updates by id alone: a row changes only in a step *)
(* of a request of its owner, and never changes hands.                     *)
OwnerOnly ==
    [][\A i \in Item :
          items[i].state # "absent" /\ items'[i] # items[i] /\ items'[i].state # "absent" =>
             /\ items'[i].userId = items[i].userId
             /\ \E r \in Request :
                   /\ call[r].item = i
                   /\ call[r].user = items[i].userId
                   /\ pc'[r] # pc[r]]_vars

(* No PATCH in progress has read item i. *)
Unread(i) == \A r \in Request : pc[r] \in {"load", "write"} => call[r].item # i

(* An item that is inactive while no PATCH holds a copy of it is gone for  *)
(* good: it never becomes active, and no PATCH gets hold of it again,      *)
(* whatever arrives and runs concurrently.                                 *)
QuietDeletionIsFinal ==
    [][\A i \in Item :
          items[i].state = "inactive" /\ Unread(i) => items'[i].state # "active" /\ Unread(i)']_vars

(* The items getExpiring returns are in the window the client asked for,   *)
(* also when midnight passes between the query and the response: their     *)
(* remainingDays are in 0..withinDays (inventory.service.ts:37-40).        *)
ExpiringInWindow ==
    \A r \in Request :
        call[r].op = "expiring" /\ answer[r] = "ok" => RemainingDays(r) \subseteq 0 .. call[r].within

(* "Omitted fields keep their stored value" (inventory.service.ts:67) in   *)
(* any overlap of requests, but for a PATCH whose row another request      *)
(* changed between its two SELECTs: what others write after the second one *)
(* is safe, since the UPDATE names the changed columns only.               *)
FreshPatchKeepsOmitted ==
    [][\A r \in Request \ raced :
          pc[r] = "write" /\ pc'[r] = "respond" =>
             \A c \in Column \ DOMAIN call[r].body :
                items'[call[r].item].fields[c] = items[call[r].item].fields[c]]_vars

(* A deleted item comes back in one case only, whatever overlaps: through  *)
(* the save of a PATCH that looked it up before the DELETE and read it     *)
(* again after it.                                                         *)
OnlyRacedPatchReactivates ==
    [][\A i \in Item :
          items[i].state = "inactive" /\ items'[i].state = "active" =>
             \E r \in raced : call[r].item = i /\ pc[r] = "write"]_vars

(* "Omitted fields keep their stored value" (inventory.service.ts:67): the *)
(* step that writes a PATCH changes no column the body does not name.      *)
OmittedFieldsKept ==
    [][\A r \in Request :
          pc[r] = "write" /\ pc'[r] = "respond" =>
             \A c \in Column \ DOMAIN call[r].body :
                items'[call[r].item].fields[c] = items[call[r].item].fields[c]]_vars

(* "There is no reactivation endpoint": an inactive item never becomes     *)
(* active again (docs/BACKEND_IMPLEMENTATION.md:127).                      *)
NoReactivation ==
    [][\A i \in Item : items[i].state = "inactive" => items'[i].state # "active"]_vars

-----------------------------------------------------------------------------
(* Why the properties hold: what is true between the steps of the handlers *)

(* Where a request stands agrees with what it asks. *)
HandlerInv ==
    \A r \in Request :
        /\ pc[r] # "idle" => call[r].user \in User
        /\ pc[r] = "query" => call[r].op \in {"list", "expiring"}
        /\ pc[r] = "insert" => call[r].op = "create" /\ call[r].fields \in Fields
        /\ pc[r] \in {"find", "load", "write"} =>
              call[r].op = "update" /\ call[r].item \in Item /\ call[r].body \in Body
        /\ pc[r] = "deactivate" => call[r].op = "deactivate" /\ call[r].item \in Item

(* An item that was created exists only once its request has inserted it. *)
RowInv ==
    \A i \in Request : items[i].state # "absent" => pc[i] \in {"respond", "done"}

(* A PATCH that holds a copy read an active row of its user, which is      *)
(* still his unless it is gone; and a row that is gone cannot come back.   *)
CopyInv ==
    \A r \in Request :
        pc[r] \in {"load", "write"} =>
           LET i == call[r].item
           IN  /\ copy[r].state = "active"
               /\ items[i].state # "absent" => items[i].userId = call[r].user
               /\ i \in Request => pc[i] \in {"respond", "done"}

(* Whatever getExpiring holds in its hands is in the window. *)
WindowInv ==
    \A r \in Request :
        /\ pc[r] \in {"idle", "query"} => result[r] = {}
        /\ call[r].op = "expiring" => RemainingDays(r) \subseteq 0 .. call[r].within

(* Only a PATCH that has looked its item up can be overtaken. *)
RacedInv == \A r \in raced : pc[r] \in {"load", "write", "respond", "done"}

(* The copy of a PATCH that nobody overtook is its body over the row as it *)
(* is, and then over the row the save has read.                            *)
FreshInv ==
    \A r \in Request \ raced :
        LET i == call[r].item
        IN  /\ pc[r] = "load" /\ items[i].state # "absent" =>
                  items[i].state = "active" /\ copy[r].fields = Merge(call[r].body, items[i].fields)
            /\ pc[r] = "write" /\ stored[r].state # "absent" =>
                  stored[r].state = "active" /\ copy[r].fields = Merge(call[r].body, stored[r].fields)

(* The inductive invariant; TypeOK is inductive together with it. *)
IInv == HandlerInv /\ RowInv /\ CopyInv /\ WindowInv /\ RacedInv /\ FreshInv

-----------------------------------------------------------------------------
(* The promise of InventoryStore *)

(* The item and the body of each of these PATCHes. *)
Targets(patches) == {<<call[r].item, call[r].body>> : r \in patches}

(* The PATCHes that have looked their item up and not written it. *)
Open == {r \in Request : pc[r] \in {"load", "write"}}

Store == INSTANCE InventoryStore WITH
            rows <- items, Stored <- StoredRows,
            open <- Targets(Open), stale <- Targets(Open \cap raced)

(* Each step of the endpoints is a step of the store, whatever overlaps. *)
ImplementsInventoryStore == Store!Spec
=============================================================================
