-------------------------- MODULE InventoryProofs --------------------------
(***************************************************************************)
(* Proofs about Inventory, for any number of requests, items and accounts, *)
(* any columns and values and any calendar.                                *)
(***************************************************************************)
EXTENDS Inventory, TLAPS

(* Moving a handler on keeps pc and answer in their types. *)
LEMMA GoToType ==
    ASSUME NEW r \in Request, NEW step \in Step, TypeOK, GoTo(r, step)
    PROVE  pc' \in [Request -> Step] /\ answer' \in [Request -> Answer]
  BY DEF TypeOK, GoTo

(* So does answering. *)
LEMMA ReplyType ==
    ASSUME NEW r \in Request, NEW a \in Answer, TypeOK, Reply(r, a)
    PROVE  pc' \in [Request -> Step] /\ answer' \in [Request -> Answer]
  BY DEF TypeOK, Reply, Step

(* The values that stand for nothing are well typed. *)
LEMMA EmptyValues ==
    /\ NoItem \in Row
    /\ NoItem \in Entity
    /\ NoItem.state = "absent"
    /\ NoItem.userId = None
    /\ NoCall \in Call
  BY DEF NoItem, Row, Entity, NoCall, Call, OpName

(* A row that is not absent belongs to an account and holds values. *)
LEMMA RealRow ==
    ASSUME NEW row \in Row, row.state # "absent"
    PROVE  row \in [userId : User, fields : Fields, state : {"active", "inactive"}]
  BY DEF Row, NoItem

(* A copy that is not absent belongs to an account and holds values or     *)
(* nulls.                                                                  *)
LEMMA RealCopy ==
    ASSUME NEW e \in Entity, e.state # "absent"
    PROVE  e \in [userId : User, fields : [Column -> Value \cup {Null}],
                  state : {"active", "inactive"}]
  BY DEF Entity, NoItem

(* A body over the columns of a row gives columns of values or nulls. *)
LEMMA MergeType ==
    ASSUME NEW b \in Body \cup {<<>>}, NEW f \in [Column -> Value \cup {Null}]
    PROVE  Merge(b, f) \in [Column -> Value \cup {Null}]
  <1>1. ASSUME NEW c \in Column, c \in DOMAIN b PROVE b[c] \in Value \cup {Null}
    <2>1. CASE b \in Body
      <3>1. PICK S \in SUBSET Column : b \in [S -> Value \cup {Null}]
        BY <2>1, BodyAssumption
      <3>2. QED
        BY <1>1, <3>1
    <2>2. CASE b = <<>>
      BY <1>1, <2>2
    <2>3. QED
      BY <2>1, <2>2
  <1>2. QED
    BY <1>1 DEF Merge

(* A PATCH that is not refused writes no null. *)
LEMMA WrittenType ==
    ASSUME NEW r \in Request, TypeOK,
           call[r].item \in Item,
           copy[r].state = "active",
           ~ \E c \in Changed(r) : copy[r].fields[c] = Null
    PROVE  /\ Written(r) \in Row
           /\ items[call[r].item].state # "absent" => Written(r).fields \in Fields
           /\ Written(r).userId = items[call[r].item].userId
           /\ Written(r).state = "absent" <=> items[call[r].item].state = "absent"
  <1> DEFINE row == items[call[r].item]
  <1>1. row \in Row /\ copy[r] \in Entity
    BY DEF TypeOK
  <1>2. CASE row.state = "absent"
    BY <1>1, <1>2 DEF Written
  <1>3. CASE row.state # "absent"
    <2>1. row \in [userId : User, fields : Fields, state : {"active", "inactive"}]
      BY <1>1, <1>3, RealRow
    <2>2. copy[r].fields \in [Column -> Value \cup {Null}]
      BY <1>1, RealCopy
    <2>3. [c \in Column |-> IF c \in Changed(r) THEN copy[r].fields[c] ELSE row.fields[c]] \in Fields
      BY <2>1, <2>2 DEF Fields, Changed
    <2>4. QED
      BY <1>3, <2>1, <2>3 DEF Written, Row
  <1>4. QED
    BY <1>2, <1>3

-----------------------------------------------------------------------------
(* Types *)

(* The initial state is well typed. *)
LEMMA TypeInit == Init => TypeOK
  BY EmptyValues, MaxDayAssumption DEF Init, TypeOK, StoredRows, Step, Answer

(* A request that arrives leaves its parameters in call. *)
LEMMA AskType ==
    ASSUME NEW r \in Request, TypeOK, NEW c \in Call, Ask(r, c)
    PROVE  call' \in [Request -> Call]
  BY DEF TypeOK, Ask

(* Every step keeps the types.  The write of a PATCH needs the copy to be  *)
(* of a real row, and the insert the columns of a create.                  *)
LEMMA TypeNext == TypeOK /\ HandlerInv /\ CopyInv /\ [Next]_vars => TypeOK'
  <1> SUFFICES ASSUME TypeOK, HandlerInv, CopyInv, [Next]_vars PROVE TypeOK'
    OBVIOUS
  <1> USE DEF Step, Answer
  <1>1. ASSUME NEW r \in Request, ListArrives(r) PROVE TypeOK'
    <2>1. PICK u \in User : Ask(r, [NoCall EXCEPT !.op = "list", !.user = u])
      BY <1>1 DEF ListArrives
    <2>2. [NoCall EXCEPT !.op = "list", !.user = u] \in Call
      BY DEF NoCall, Call, OpName
    <2>3. call' \in [Request -> Call]
      BY <2>1, <2>2, AskType
    <2>4. QED
      BY <1>1, <2>3, GoToType DEF ListArrives, TypeOK
  <1>2. ASSUME NEW r \in Request, ExpiringArrives(r) PROVE TypeOK'
    <2>1. PICK u \in User, n \in Within :
             Ask(r, [NoCall EXCEPT !.op = "expiring", !.user = u, !.within = n])
      BY <1>2 DEF ExpiringArrives
    <2>2. [NoCall EXCEPT !.op = "expiring", !.user = u, !.within = n] \in Call
      BY WithinAssumption DEF NoCall, Call, OpName
    <2>3. call' \in [Request -> Call]
      BY <2>1, <2>2, AskType
    <2>4. QED
      BY <1>2, <2>3, GoToType DEF ExpiringArrives, TypeOK
  <1>3. ASSUME NEW r \in Request, CreateArrives(r) PROVE TypeOK'
    <2>1. PICK u \in User, f \in Fields :
             Ask(r, [NoCall EXCEPT !.op = "create", !.user = u, !.fields = f])
      BY <1>3 DEF CreateArrives
    <2>2. [NoCall EXCEPT !.op = "create", !.user = u, !.fields = f] \in Call
      BY DEF NoCall, Call, OpName
    <2>3. call' \in [Request -> Call]
      BY <2>1, <2>2, AskType
    <2>4. QED
      BY <1>3, <2>3, GoToType DEF CreateArrives, TypeOK
  <1>4. ASSUME NEW r \in Request, UpdateArrives(r) PROVE TypeOK'
    <2>1. PICK u \in User, i \in Item, b \in Body :
             /\ Ask(r, [NoCall EXCEPT !.op = "update", !.user = u, !.item = i, !.body = b])
             /\ IF DOMAIN b = {} THEN Reply(r, "validationError") ELSE GoTo(r, "find")
      BY <1>4 DEF UpdateArrives
    <2>2. [NoCall EXCEPT !.op = "update", !.user = u, !.item = i, !.body = b] \in Call
      BY DEF NoCall, Call, OpName
    <2>3. call' \in [Request -> Call]
      BY <2>1, <2>2, AskType
    <2>4. pc' \in [Request -> Step] /\ answer' \in [Request -> Answer]
      BY <2>1, GoToType, ReplyType
    <2>5. QED
      BY <1>4, <2>3, <2>4 DEF UpdateArrives, TypeOK
  <1>5. ASSUME NEW r \in Request, DeactivateArrives(r) PROVE TypeOK'
    <2>1. PICK u \in User, i \in Item :
             Ask(r, [NoCall EXCEPT !.op = "deactivate", !.user = u, !.item = i])
      BY <1>5 DEF DeactivateArrives
    <2>2. [NoCall EXCEPT !.op = "deactivate", !.user = u, !.item = i] \in Call
      BY DEF NoCall, Call, OpName
    <2>3. call' \in [Request -> Call]
      BY <2>1, <2>2, AskType
    <2>4. QED
      BY <1>5, <2>3, GoToType DEF DeactivateArrives, TypeOK
  <1>6. ASSUME NEW r \in Request, Query(r) PROVE TypeOK'
    <2>1. ASSUME NEW i \in OwnedActive(call[r].user) PROVE Show(i, items[i].fields) \in Found
      <3>1. items[i] \in Row /\ items[i].state # "absent"
        BY <2>1 DEF OwnedActive, TypeOK
      <3>2. items[i].fields \in Fields
        BY <3>1, RealRow
      <3>3. QED
        BY <2>1, <3>2, ColumnAssumption DEF Show, Found, Fields, OwnedActive
    <2>2. result' \in [Request -> SUBSET Found]
      BY <1>6, <2>1 DEF Query, TypeOK
    <2>3. QED
      BY <1>6, <2>2, GoToType DEF Query, TypeOK
  <1>7. ASSUME NEW r \in Request, Respond(r) PROVE TypeOK'
    <2>1. day' \in [Request -> 0..MaxDay]
      BY <1>7 DEF Respond, TypeOK
    <2>2. QED
      BY <1>7, <2>1, ReplyType DEF Respond, TypeOK
  <1>8. ASSUME NEW r \in Request, Insert(r) PROVE TypeOK'
    <2>1. call[r].op = "create" /\ call[r].user \in User /\ call[r].fields \in Fields
      BY <1>8 DEF Insert, HandlerInv
    <2>2. [userId |-> call[r].user, fields |-> call[r].fields, state |-> "active"] \in Row
      BY <2>1 DEF Row
    <2>3. items' \in [Item -> Row]
      BY <1>8, <2>2 DEF Insert, TypeOK
    <2>4. Show(r, call[r].fields) \in Found
      BY <2>1, ColumnAssumption DEF Show, Found, Fields, Item
    <2>5. result' \in [Request -> SUBSET Found]
      BY <1>8, <2>4 DEF Insert, TypeOK
    <2>6. pc' \in [Request -> Step] /\ answer' \in [Request -> Answer]
      BY <1>8, GoToType, ReplyType DEF Insert
    <2>7. QED
      BY <1>8, <2>3, <2>5, <2>6 DEF Insert, TypeOK
  <1>9. ASSUME NEW r \in Request, FindOwnedActive(r) PROVE TypeOK'
    <2>1. pc' \in [Request -> Step] /\ answer' \in [Request -> Answer]
      BY <1>9, GoToType, ReplyType DEF FindOwnedActive
    <2>2. copy' \in [Request -> Entity]
      <3> DEFINE i == call[r].item
      <3>1. CASE UNCHANGED copy
        BY <3>1 DEF TypeOK
      <3>2. CASE /\ i \in OwnedActive(call[r].user)
                 /\ copy' = [copy EXCEPT ![r] = [items[i] EXCEPT !.fields = Merge(call[r].body, @)]]
        <4>1. items[i] \in Row /\ items[i].state # "absent"
          BY <3>2 DEF OwnedActive, TypeOK
        <4>2. items[i] \in [userId : User, fields : Fields, state : {"active", "inactive"}]
          BY <4>1, RealRow
        <4>3. Merge(call[r].body, items[i].fields) \in [Column -> Value \cup {Null}]
          <5>1. call[r].body \in Body \cup {<<>>}
            BY DEF TypeOK, Call
          <5>2. items[i].fields \in [Column -> Value \cup {Null}]
            BY <4>2 DEF Fields
          <5>3. QED
            BY <5>1, <5>2, MergeType
        <4>4. [items[i] EXCEPT !.fields = Merge(call[r].body, @)] \in Entity
          BY <4>2, <4>3 DEF Entity
        <4>5. copy \in [Request -> Entity]
          BY DEF TypeOK
        <4>6. QED
          BY <3>2, <4>4, <4>5
      <3>3. QED
        BY <1>9, <3>1, <3>2 DEF FindOwnedActive
    <2>3. QED
      BY <1>9, <2>1, <2>2 DEF FindOwnedActive, TypeOK
  <1>10. ASSUME NEW r \in Request, LoadStored(r) PROVE TypeOK'
    <2>1. call[r].item \in Item
      BY <1>10 DEF LoadStored, HandlerInv
    <2>2. stored' \in [Request -> Row]
      BY <1>10, <2>1 DEF LoadStored, TypeOK
    <2>3. QED
      BY <1>10, <2>2, GoToType DEF LoadStored, TypeOK
  <1>11. ASSUME NEW r \in Request, WriteChanges(r) PROVE TypeOK'
    <2>1. call[r].item \in Item /\ copy[r].state = "active"
      BY <1>11 DEF WriteChanges, HandlerInv, CopyInv
    <2>2. pc' \in [Request -> Step] /\ answer' \in [Request -> Answer]
      BY <1>11, GoToType, ReplyType DEF WriteChanges
    <2>3. CASE UNCHANGED <<items, result>>
      BY <1>11, <2>2, <2>3 DEF WriteChanges, Overtake, TypeOK
    <2>4. CASE /\ ~ \E c \in Changed(r) : copy[r].fields[c] = Null
               /\ items' = [items EXCEPT ![call[r].item] = Written(r)]
               /\ result' = [result EXCEPT ![r] = {Show(call[r].item, copy[r].fields)}]
      <3>1. items' \in [Item -> Row]
        BY <2>1, <2>4, WrittenType DEF TypeOK
      <3>2. copy[r].fields \in [Column -> Value \cup {Null}]
        BY <2>1, RealCopy DEF TypeOK
      <3>3. Show(call[r].item, copy[r].fields) \in Found
        BY <2>1, <3>2, ColumnAssumption DEF Show, Found
      <3>4. result' \in [Request -> SUBSET Found]
        BY <2>4, <3>3 DEF TypeOK
      <3>5. QED
        BY <1>11, <2>2, <3>1, <3>4 DEF WriteChanges, Overtake, TypeOK
    <2>5. QED
      BY <1>11, <2>3, <2>4 DEF WriteChanges
  <1>12. ASSUME NEW r \in Request, Deactivate(r) PROVE TypeOK'
    <2> DEFINE i == call[r].item
    <2>1. pc' \in [Request -> Step] /\ answer' \in [Request -> Answer]
      BY <1>12, ReplyType DEF Deactivate
    <2>2. ASSUME i \in OwnedActive(call[r].user) PROVE [items[i] EXCEPT !.state = "inactive"] \in Row
      <3>1. items[i] \in Row /\ items[i].state # "absent"
        BY <2>2 DEF OwnedActive, TypeOK
      <3>2. items[i] \in [userId : User, fields : Fields, state : {"active", "inactive"}]
        BY <3>1, RealRow
      <3>3. QED
        BY <3>2 DEF Row
    <2>3. items' \in [Item -> Row]
      BY <1>12, <2>2 DEF Deactivate, TypeOK
    <2>4. QED
      BY <1>12, <2>1, <2>3 DEF Deactivate, Overtake, TypeOK
  <1>13. ASSUME NEW u \in User, DeleteAccount(u) PROVE TypeOK'
    BY <1>13, EmptyValues DEF DeleteAccount, TypeOK
  <1>14. CASE Midnight
    BY <1>14, MaxDayAssumption DEF Midnight, TypeOK
  <1>15. CASE UNCHANGED vars
    BY <1>15 DEF vars, TypeOK
  <1>16. QED
    BY <1>1, <1>2, <1>3, <1>4, <1>5, <1>6, <1>7, <1>8, <1>9, <1>10, <1>11, <1>12,
       <1>13, <1>14, <1>15 DEF Next, Arrive, Serve

-----------------------------------------------------------------------------
(* What a step does *)

(* The part of the state that belongs to request q stays as it is. *)
Rests(q) ==
    /\ pc'[q] = pc[q]
    /\ call'[q] = call[q]
    /\ copy'[q] = copy[q]
    /\ stored'[q] = stored[q]
    /\ result'[q] = result[q]
    /\ day'[q] = day[q]
    /\ answer'[q] = answer[q]

(* A step of one request touches no other request. *)
LEMMA OneMoves ==
    ASSUME TypeOK, NEW r \in Request, Arrive(r) \/ Serve(r), NEW q \in Request, q # r
    PROVE  Rests(q)
  <1> USE DEF Rests, Ask, GoTo, Reply
  <1>types. /\ pc \in [Request -> Step]
            /\ call \in [Request -> Call]
            /\ copy \in [Request -> Entity]
            /\ stored \in [Request -> Row]
            /\ result \in [Request -> SUBSET Found]
            /\ day \in [Request -> 0..MaxDay]
            /\ answer \in [Request -> Answer]
    BY DEF TypeOK
  <1>1. CASE ListArrives(r) \/ ExpiringArrives(r) \/ CreateArrives(r)
    BY <1>types, <1>1 DEF ListArrives, ExpiringArrives, CreateArrives
  <1>2. CASE UpdateArrives(r) \/ DeactivateArrives(r)
    BY <1>types, <1>2 DEF UpdateArrives, DeactivateArrives
  <1>3. CASE Query(r) \/ Respond(r) \/ Insert(r)
    BY <1>types, <1>3 DEF Query, Respond, Insert
  <1>4. CASE FindOwnedActive(r) \/ LoadStored(r)
    BY <1>types, <1>4 DEF FindOwnedActive, LoadStored
  <1>5. CASE WriteChanges(r) \/ Deactivate(r)
    BY <1>types, <1>5 DEF WriteChanges, Deactivate
  <1>6. QED
    BY <1>1, <1>2, <1>3, <1>4, <1>5 DEF Arrive, Serve

(* No request moves when an account is deleted or the day changes. *)
LEMMA NoneMoves ==
    ASSUME TypeOK, [Next]_vars, ~ \E r \in Request : Arrive(r) \/ Serve(r),
           NEW q \in Request
    PROVE  Rests(q)
  BY DEF Next, DeleteAccount, Midnight, vars, Rests

(* Who was overtaken stays so. *)
LEMMA RacedGrows ==
    ASSUME TypeOK, [Next]_vars
    PROVE  raced \subseteq raced' /\ raced' \subseteq Request
  BY DEF TypeOK, Next, Arrive, Serve, ListArrives, ExpiringArrives, CreateArrives, UpdateArrives,
         DeactivateArrives, Query, Respond, Insert, FindOwnedActive, LoadStored, WriteChanges,
         Deactivate, DeleteAccount, Midnight, Overtake, vars

(* Where a request may be after a step. *)
LEMMA PcSteps ==
    ASSUME TypeOK, HandlerInv, [Next]_vars, NEW r \in Request
    PROVE  /\ pc[r] = "idle" \/ call'[r] = call[r]
           /\ pc[r] \in {"respond", "done"} => pc'[r] \in {"respond", "done"}
           /\ pc[r] # "idle" => pc'[r] # "idle"
           /\ pc[r] = "done" => pc'[r] = "done"
  <1> USE DEF Ask, GoTo, Reply
  <1>types. /\ pc \in [Request -> Step]
            /\ call \in [Request -> Call]
    BY DEF TypeOK
  <1>1. CASE Arrive(r)
    BY <1>types, <1>1 DEF Arrive, ListArrives, ExpiringArrives, CreateArrives, UpdateArrives,
                          DeactivateArrives
  <1>2. CASE Serve(r)
    BY <1>types, <1>2 DEF Serve, Query, Respond, Insert, FindOwnedActive, LoadStored,
                          WriteChanges, Deactivate
  <1>3. CASE Rests(r)
    BY <1>3 DEF Rests
  <1>4. QED
    BY <1>1, <1>2, <1>3, OneMoves, NoneMoves

(* A step changes a row in one of four ways: the row goes with its         *)
(* account; the request it is named after inserts it; a PATCH that holds a *)
(* copy writes it; a DELETE deactivates it.                                *)
Goes(i) == items'[i].state = "absent"
Comes(i) ==
    /\ items[i].state = "absent"
    /\ i \in Request
    /\ pc[i] = "insert"
    /\ pc'[i] = "respond"
Patched(q, i) ==
    /\ pc[q] = "write"
    /\ pc'[q] = "respond"
    /\ copy[q].state = "active"
    /\ items'[i] = Written(q)
    /\ stored[q].state # "absent"
    /\ items[i].state # "absent"
    /\ items'[i].userId = items[i].userId
    /\ Overtake
    /\ call[q].item = i
    /\ call[q].user = items[i].userId
Hidden(q, i) ==
    /\ pc[q] = "deactivate"
    /\ pc'[q] = "done"
    /\ items[i].state = "active"
    /\ items'[i].state = "inactive"
    /\ items'[i].userId = items[i].userId
    /\ items'[i].fields = items[i].fields
    /\ Overtake
    /\ call[q].item = i
    /\ call[q].user = items[i].userId

(* These are all the ways. *)
LEMMA ItemSteps ==
    ASSUME TypeOK, HandlerInv, RowInv, CopyInv, [Next]_vars, NEW i \in Item
    PROVE  \/ items'[i] = items[i]
           \/ Goes(i)
           \/ Comes(i)
           \/ \E q \in Request : Patched(q, i) \/ Hidden(q, i)
  <1>types. /\ pc \in [Request -> Step]
            /\ items \in [Item -> Row]
    BY DEF TypeOK
  <1>1. ASSUME NEW r \in Request, Insert(r)
        PROVE  items'[i] = items[i] \/ Comes(i)
    <2>1. CASE UNCHANGED items
      BY <2>1
    <2>2. CASE i # r
      BY <1>1, <1>types, <2>2 DEF Insert
    <2>3. CASE i = r /\ ~UNCHANGED items
      <3>1. pc[r] = "insert" /\ pc'[r] = "respond"
        BY <1>1, <1>types, <2>3 DEF Insert, GoTo
      <3>2. items[r].state = "absent"
        BY <3>1 DEF RowInv
      <3>3. QED
        BY <2>3, <3>1, <3>2 DEF Comes
    <2>4. QED
      BY <2>1, <2>2, <2>3
  <1>2. ASSUME NEW r \in Request, WriteChanges(r)
        PROVE  items'[i] = items[i] \/ Goes(i) \/ Patched(r, i)
    <2>1. /\ call[r].item \in Item
          /\ copy[r].state = "active"
          /\ items[call[r].item].state # "absent" => items[call[r].item].userId = call[r].user
      BY <1>2 DEF WriteChanges, HandlerInv, CopyInv
    <2>2. CASE UNCHANGED items
      BY <2>2
    <2>3. CASE i # call[r].item
      BY <1>2, <1>types, <2>3 DEF WriteChanges
    <2>4. CASE i = call[r].item /\ ~UNCHANGED items
      <3>1. /\ ~ \E c \in Changed(r) : copy[r].fields[c] = Null
            /\ items' = [items EXCEPT ![call[r].item] = Written(r)]
            /\ stored[r].state # "absent"
            /\ GoTo(r, "respond")
            /\ Overtake
        BY <1>2, <2>4 DEF WriteChanges
      <3>2. /\ items'[i] = Written(r)
            /\ pc[r] = "write"
            /\ pc'[r] = "respond"
        BY <1>2, <1>types, <2>4, <3>1 DEF WriteChanges, GoTo
      <3>3. /\ Written(r).userId = items[i].userId
            /\ Written(r).state = "absent" <=> items[i].state = "absent"
        BY <2>1, <2>4, <3>1, WrittenType
      <3>4. QED
        BY <2>1, <2>4, <3>1, <3>2, <3>3 DEF Patched, Goes
    <2>5. QED
      BY <2>2, <2>3, <2>4
  <1>3. ASSUME NEW r \in Request, Deactivate(r)
        PROVE  items'[i] = items[i] \/ Hidden(r, i)
    <2>1. CASE UNCHANGED items
      BY <2>1
    <2>2. CASE i # call[r].item
      BY <1>3, <1>types, <2>2 DEF Deactivate
    <2>3. CASE i = call[r].item /\ ~UNCHANGED items
      <3>1. /\ i \in OwnedActive(call[r].user)
            /\ items' = [items EXCEPT ![i].state = "inactive"]
            /\ pc[r] = "deactivate"
            /\ Reply(r, "ok")
            /\ Overtake
        BY <1>3, <2>3 DEF Deactivate
      <3>2. /\ items[i].state = "active"
            /\ items[i].userId = call[r].user
            /\ pc'[r] = "done"
        BY <3>1, <1>types DEF OwnedActive, Reply
      <3>3. items[i] \in [userId : User, fields : Fields, state : {"active", "inactive"}]
        BY <1>types, <3>2, RealRow
      <3>4. QED
        BY <1>types, <2>3, <3>1, <3>2, <3>3 DEF Hidden
    <2>4. QED
      BY <2>1, <2>2, <2>3
  <1>4. ASSUME NEW u \in User, DeleteAccount(u)
        PROVE  items'[i] = items[i] \/ Goes(i)
    BY <1>4, EmptyValues DEF DeleteAccount, Goes
  <1>5. CASE \E r \in Request : Insert(r) \/ WriteChanges(r) \/ Deactivate(r)
    BY <1>1, <1>2, <1>3, <1>5
  <1>6. CASE \E u \in User : DeleteAccount(u)
    BY <1>4, <1>6
  <1>7. CASE UNCHANGED items
    BY <1>7
  <1>8. QED
    BY <1>5, <1>6, <1>7
       DEF Next, Arrive, Serve, ListArrives, ExpiringArrives, CreateArrives, UpdateArrives,
           DeactivateArrives, Query, Respond, FindOwnedActive, LoadStored, Midnight, vars

(* How a PATCH gets to hold a copy, and keeps it. *)
LEMMA CopySteps ==
    ASSUME TypeOK, [Next]_vars, NEW r \in Request, pc'[r] \in {"load", "write"}
    PROVE  \/ FindOwnedActive(r) /\ pc'[r] = "load"
           \/ LoadStored(r) /\ pc'[r] = "write"
           \/ Rests(r)
  <1> USE DEF Ask, GoTo, Reply
  <1>types. /\ pc \in [Request -> Step]
            /\ call \in [Request -> Call]
    BY DEF TypeOK
  <1>1. CASE Arrive(r)
    BY <1>types, <1>1 DEF Arrive, ListArrives, ExpiringArrives, CreateArrives, UpdateArrives,
                          DeactivateArrives
  <1>2. CASE Query(r) \/ Respond(r) \/ Insert(r) \/ WriteChanges(r) \/ Deactivate(r)
    BY <1>types, <1>2 DEF Query, Respond, Insert, WriteChanges, Deactivate
  <1>3. CASE FindOwnedActive(r) \/ LoadStored(r)
    BY <1>types, <1>3 DEF FindOwnedActive, LoadStored
  <1>4. QED
    BY <1>1, <1>2, <1>3, OneMoves, NoneMoves DEF Serve

-----------------------------------------------------------------------------
(* The inductive invariant *)

(* No request has arrived in the initial state. *)
LEMMA HandlerInit == Init => HandlerInv
  <1> SUFFICES ASSUME Init, NEW r \in Request PROVE pc[r] = "idle"
    BY DEF HandlerInv
  <1>1. QED
    BY DEF Init

(* Every step takes its request to a place that fits what it asks. *)
LEMMA HandlerNext == TypeOK /\ HandlerInv /\ [Next]_vars => HandlerInv'
  <1> SUFFICES ASSUME TypeOK, HandlerInv, [Next]_vars PROVE HandlerInv'
    OBVIOUS
  <1> SUFFICES ASSUME NEW r \in Request
               PROVE  /\ pc'[r] # "idle" => call'[r].user \in User
                      /\ pc'[r] = "query" => call'[r].op \in {"list", "expiring"}
                      /\ pc'[r] = "insert" => call'[r].op = "create" /\ call'[r].fields \in Fields
                      /\ pc'[r] \in {"find", "load", "write"} =>
                            call'[r].op = "update" /\ call'[r].item \in Item /\ call'[r].body \in Body
                      /\ pc'[r] = "deactivate" => call'[r].op = "deactivate" /\ call'[r].item \in Item
    BY DEF HandlerInv
  <1> USE DEF Ask, GoTo, Reply
  <1>types. /\ pc \in [Request -> Step]
            /\ call \in [Request -> Call]
    BY DEF TypeOK
  <1>1. CASE ListArrives(r)
    BY <1>types, <1>1 DEF ListArrives, NoCall
  <1>2. CASE ExpiringArrives(r)
    BY <1>types, <1>2 DEF ExpiringArrives, NoCall
  <1>3. CASE CreateArrives(r)
    BY <1>types, <1>3 DEF CreateArrives, NoCall
  <1>4. CASE UpdateArrives(r)
    BY <1>types, <1>4 DEF UpdateArrives, NoCall
  <1>5. CASE DeactivateArrives(r)
    BY <1>types, <1>5 DEF DeactivateArrives, NoCall
  <1>6. CASE Serve(r)
    BY <1>types, <1>6 DEF HandlerInv, Serve, Query, Respond, Insert, FindOwnedActive, LoadStored,
                          WriteChanges, Deactivate
  <1>7. CASE Rests(r)
    BY <1>7 DEF Rests, HandlerInv
  <1>8. QED
    BY <1>1, <1>2, <1>3, <1>4, <1>5, <1>6, <1>7, OneMoves, NoneMoves DEF Arrive

(* Only stored items exist in the initial state. *)
LEMMA RowInit == Init => RowInv
  BY ItemAssumption DEF Init, RowInv, StoredRows, Item

(* A row appears in the step that takes its request to respond. *)
LEMMA RowNext == TypeOK /\ HandlerInv /\ RowInv /\ CopyInv /\ [Next]_vars => RowInv'
  <1> SUFFICES ASSUME TypeOK, HandlerInv, RowInv, CopyInv, [Next]_vars,
                      NEW i \in Request, items'[i].state # "absent"
               PROVE  pc'[i] \in {"respond", "done"}
    BY DEF RowInv
  <1>1. CASE items[i].state # "absent"
    BY <1>1, PcSteps DEF RowInv
  <1>2. CASE items[i].state = "absent"
    <2>1. i \in Item
      BY DEF Item
    <2>2. Comes(i)
      BY <1>2, <2>1, ItemSteps DEF Goes, Patched, Hidden
    <2>3. QED
      BY <2>2 DEF Comes
  <1>3. QED
    BY <1>1, <1>2

(* No PATCH holds a copy in the initial state. *)
LEMMA CopyInit == Init => CopyInv
  BY DEF Init, CopyInv

(* The copy is of a real row of the user, and the row keeps its owner or   *)
(* goes for good.                                                          *)
LEMMA CopyNext == TypeOK /\ HandlerInv /\ RowInv /\ CopyInv /\ [Next]_vars => CopyInv'
  <1> SUFFICES ASSUME TypeOK, HandlerInv, RowInv, CopyInv, [Next]_vars,
                      NEW r \in Request, pc'[r] \in {"load", "write"}
               PROVE  /\ copy'[r].state = "active"
                      /\ items'[call'[r].item].state # "absent" =>
                            items'[call'[r].item].userId = call'[r].user
                      /\ call'[r].item \in Request => pc'[call'[r].item] \in {"respond", "done"}
    BY DEF CopyInv
  <1> DEFINE i == call[r].item
  <1>1. CASE FindOwnedActive(r) /\ pc'[r] = "load"
    <2>1. /\ items' = items
          /\ call' = call
          /\ i \in Item
          /\ i \in OwnedActive(call[r].user)
          /\ copy' = [copy EXCEPT ![r] = [items[i] EXCEPT !.fields = Merge(call[r].body, @)]]
      BY <1>1 DEF FindOwnedActive, HandlerInv, Reply, TypeOK
    <2>2. items[i].state = "active" /\ items[i].userId = call[r].user /\ items[i] \in Row
      BY <2>1 DEF OwnedActive, TypeOK
    <2>3. items[i] \in [userId : User, fields : Fields, state : {"active", "inactive"}]
      BY <2>2, RealRow
    <2>4. copy'[r].state = "active"
      BY <2>1, <2>2, <2>3 DEF TypeOK
    <2>5. i \in Request => pc'[i] \in {"respond", "done"}
      BY <2>2, PcSteps DEF RowInv
    <2>6. QED
      BY <2>1, <2>2, <2>4, <2>5
  <1>2. CASE pc[r] \in {"load", "write"} /\ call'[r] = call[r] /\ copy'[r] = copy[r]
    <2>1. /\ copy[r].state = "active"
          /\ items[i].state # "absent" => items[i].userId = call[r].user
          /\ i \in Request => pc[i] \in {"respond", "done"}
          /\ i \in Item
      BY <1>2 DEF CopyInv, HandlerInv
    <2>2. ~Comes(i)
      BY <2>1 DEF Comes
    <2>3. items'[i].state # "absent" => items'[i].userId = items[i].userId /\ items[i].state # "absent"
      BY <2>1, <2>2, ItemSteps DEF Goes, Patched, Hidden
    <2>4. i \in Request => pc'[i] \in {"respond", "done"}
      BY <2>1, PcSteps
    <2>5. QED
      BY <1>2, <2>1, <2>3, <2>4
  <1>3. CASE LoadStored(r) /\ pc'[r] = "write"
    BY <1>2, <1>3 DEF LoadStored
  <1>4. CASE Rests(r)
    BY <1>2, <1>4 DEF Rests
  <1>5. QED
    BY <1>1, <1>3, <1>4, CopySteps

(* Nothing has been found in the initial state. *)
LEMMA WindowInit == Init => WindowInv
  BY DEF Init, WindowInv, RemainingDays, NoCall

(* The query takes items in the window, and nothing later changes them or  *)
(* the day they are measured from.                                         *)
LEMMA WindowNext == TypeOK /\ HandlerInv /\ WindowInv /\ [Next]_vars => WindowInv'
  <1> SUFFICES ASSUME TypeOK, HandlerInv, WindowInv, [Next]_vars, NEW r \in Request
               PROVE  /\ pc'[r] \in {"idle", "query"} => result'[r] = {}
                      /\ call'[r].op = "expiring" =>
                            {x.expirationDate - day'[r] : x \in result'[r]} \subseteq 0 .. call'[r].within
    BY DEF WindowInv, RemainingDays
  <1> USE DEF GoTo, Reply
  <1>types. /\ pc \in [Request -> Step]
            /\ call \in [Request -> Call]
            /\ result \in [Request -> SUBSET Found]
            /\ day \in [Request -> 0..MaxDay]
            /\ call[r].within \in Nat
            /\ day[r] \in Int
    BY MaxDayAssumption DEF TypeOK, Call
  <1>old. /\ pc[r] \in {"idle", "query"} => result[r] = {}
          /\ call[r].op = "expiring" =>
                {x.expirationDate - day[r] : x \in result[r]} \subseteq 0 .. call[r].within
    BY DEF WindowInv, RemainingDays
  <1>1. CASE Arrive(r)
    <2>1. pc[r] = "idle" /\ result' = result
      BY <1>1 DEF Arrive, ListArrives, ExpiringArrives, CreateArrives, UpdateArrives,
                  DeactivateArrives, Ask
    <2>2. QED
      BY <1>old, <2>1
  <1>2. CASE Query(r)
    <2>1. /\ pc'[r] = "respond"
          /\ call' = call
          /\ day' = day
      BY <1>2, <1>types DEF Query
    <2>2. ASSUME call[r].op = "expiring", NEW x \in result'[r]
          PROVE  x.expirationDate - day[r] \in 0 .. call[r].within
      <3>1. PICK i \in OwnedActive(call[r].user) :
               /\ x = Show(i, items[i].fields)
               /\ items[i].fields["expirationDate"] \in day[r] .. (day[r] + call[r].within)
        BY <1>2, <1>types, <2>2 DEF Query
      <3>2. x.expirationDate \in day[r] .. (day[r] + call[r].within)
        BY <3>1 DEF Show
      <3>3. QED
        BY <1>types, <3>2
    <2>3. QED
      BY <2>1, <2>2
  <1>3. CASE Respond(r)
    <2>1. /\ pc'[r] = "done"
          /\ call' = call
          /\ result' = result
          /\ call[r].op = "expiring" => day'[r] = day[r]
      BY <1>3, <1>types DEF Respond
    <2>2. QED
      BY <1>old, <2>1
  <1>4. CASE Insert(r) \/ FindOwnedActive(r) \/ LoadStored(r) \/ WriteChanges(r) \/ Deactivate(r)
    <2>1. call' = call /\ call[r].op # "expiring"
      BY <1>4 DEF Insert, FindOwnedActive, LoadStored, WriteChanges, Deactivate, HandlerInv
    <2>2. pc'[r] \notin {"idle", "query"}
      BY <1>4, <1>types DEF Insert, FindOwnedActive, LoadStored, WriteChanges, Deactivate
    <2>3. QED
      BY <2>1, <2>2
  <1>5. CASE Rests(r)
    BY <1>5, <1>old DEF Rests
  <1>6. QED
    BY <1>1, <1>2, <1>3, <1>4, <1>5, OneMoves, NoneMoves DEF Serve

(* Nobody was overtaken in the initial state, and nobody holds a copy. *)
LEMMA FreshInit == Init => RacedInv /\ FreshInv
  BY DEF Init, RacedInv, FreshInv

(* A PATCH that is overtaken has looked its item up. *)
LEMMA RacedNext == TypeOK /\ HandlerInv /\ RacedInv /\ [Next]_vars => RacedInv'
  <1> SUFFICES ASSUME TypeOK, HandlerInv, RacedInv, [Next]_vars, NEW r \in raced'
               PROVE  pc'[r] \in {"load", "write", "respond", "done"}
    BY DEF RacedInv
  <1> USE DEF Ask, GoTo, Reply
  <1>types. r \in Request /\ pc \in [Request -> Step]
    BY RacedGrows DEF TypeOK
  <1>1. pc[r] \in {"load", "write", "respond", "done"}
    BY DEF RacedInv, Next, Arrive, Serve, ListArrives, ExpiringArrives, CreateArrives, UpdateArrives,
           DeactivateArrives, Query, Respond, Insert, FindOwnedActive, LoadStored, WriteChanges,
           Deactivate, DeleteAccount, Midnight, Overtake, vars
  <1>2. CASE Arrive(r)
    BY <1>1, <1>2 DEF Arrive, ListArrives, ExpiringArrives, CreateArrives, UpdateArrives,
                      DeactivateArrives
  <1>3. CASE Serve(r)
    BY <1>types, <1>1, <1>3 DEF Serve, Query, Respond, Insert, FindOwnedActive, LoadStored,
                                WriteChanges, Deactivate
  <1>4. CASE Rests(r)
    BY <1>1, <1>4 DEF Rests
  <1>5. QED
    BY <1>types, <1>2, <1>3, <1>4, OneMoves, NoneMoves

(* The row of a PATCH between its SELECTs stays as it is or goes, unless   *)
(* the PATCH is overtaken.                                                 *)
LEMMA RowWaits ==
    ASSUME TypeOK, HandlerInv, RowInv, CopyInv, [Next]_vars,
           NEW r \in Request \ raced', pc[r] = "load"
    PROVE  items'[call[r].item] = items[call[r].item] \/ Goes(call[r].item)
  <1> DEFINE i == call[r].item
  <1>1. i \in Item /\ (i \in Request => pc[i] \in {"respond", "done"})
    BY DEF HandlerInv, CopyInv
  <1>2. ASSUME NEW q \in Request, Patched(q, i) \/ Hidden(q, i), items'[i] # items[i] PROVE FALSE
    BY <1>2 DEF Patched, Hidden, Overtake
  <1>3. QED
    BY <1>1, <1>2, ItemSteps DEF Comes

(* The copy of a PATCH nobody overtook follows the row until the save has  *)
(* read it, and what the save has read from then on.                       *)
LEMMA FreshNext ==
    TypeOK /\ HandlerInv /\ RowInv /\ CopyInv /\ FreshInv /\ [Next]_vars => FreshInv'
  <1> SUFFICES ASSUME TypeOK, HandlerInv, RowInv, CopyInv, FreshInv, [Next]_vars,
                      NEW r \in Request \ raced', pc'[r] \in {"load", "write"}
               PROVE  /\ pc'[r] = "load" /\ items'[call'[r].item].state # "absent" =>
                            /\ items'[call'[r].item].state = "active"
                            /\ copy'[r].fields = Merge(call'[r].body, items'[call'[r].item].fields)
                      /\ pc'[r] = "write" /\ stored'[r].state # "absent" =>
                            /\ stored'[r].state = "active"
                            /\ copy'[r].fields = Merge(call'[r].body, stored'[r].fields)
    BY DEF FreshInv, Merge
  <1> DEFINE i == call[r].item
  <1>old. r \in Request \ raced
    BY RacedGrows
  <1>1. CASE FindOwnedActive(r) /\ pc'[r] = "load"
    <2>1. /\ items' = items
          /\ call' = call
          /\ i \in Item
          /\ i \in OwnedActive(call[r].user)
          /\ copy' = [copy EXCEPT ![r] = [items[i] EXCEPT !.fields = Merge(call[r].body, @)]]
      BY <1>1 DEF FindOwnedActive, HandlerInv, Reply, TypeOK
    <2>2. items[i].state = "active" /\ items[i] \in Row
      BY <2>1 DEF OwnedActive, TypeOK
    <2>3. items[i] \in [userId : User, fields : Fields, state : {"active", "inactive"}]
      BY <2>2, RealRow
    <2>4. copy'[r].fields = Merge(call[r].body, items[i].fields)
      BY <2>1, <2>3 DEF TypeOK
    <2>5. QED
      BY <1>1, <2>1, <2>2, <2>4
  <1>2. CASE LoadStored(r) /\ pc'[r] = "write"
    <2>1. /\ call' = call
          /\ copy' = copy
          /\ pc[r] = "load"
          /\ stored'[r] = items[i]
      BY <1>2 DEF LoadStored, TypeOK
    <2>2. QED
      BY <1>2, <1>old, <2>1 DEF FreshInv
  <1>3. CASE Rests(r)
    <2>1. /\ pc'[r] = pc[r]
          /\ call'[r] = call[r]
          /\ copy'[r] = copy[r]
          /\ stored'[r] = stored[r]
      BY <1>3 DEF Rests
    <2>2. CASE pc[r] = "load"
      <3>1. items'[i] = items[i] \/ Goes(i)
        BY <2>2, RowWaits
      <3>2. QED
        BY <1>old, <2>1, <2>2, <3>1 DEF FreshInv, Goes
    <2>3. CASE pc[r] = "write"
      BY <1>old, <2>1, <2>3 DEF FreshInv
    <2>4. QED
      BY <2>1, <2>2, <2>3
  <1>4. QED
    BY <1>1, <1>2, <1>3, CopySteps

(* The invariant holds in the initial state. *)
LEMMA IInvInit == Init => IInv
  BY HandlerInit, RowInit, CopyInit, WindowInit, FreshInit DEF IInv

(* Every step preserves the invariant. *)
LEMMA IInvNext == TypeOK /\ IInv /\ [Next]_vars => TypeOK' /\ IInv'
  <1> SUFFICES ASSUME TypeOK, IInv, [Next]_vars PROVE TypeOK' /\ IInv'
    OBVIOUS
  <1>1. HandlerInv /\ RowInv /\ CopyInv /\ WindowInv /\ RacedInv /\ FreshInv
    BY DEF IInv
  <1>2. TypeOK' /\ HandlerInv' /\ RowInv' /\ CopyInv' /\ WindowInv'
    BY <1>1, TypeNext, HandlerNext, RowNext, CopyNext, WindowNext
  <1>3. RacedInv' /\ FreshInv'
    BY <1>1, RacedNext, FreshNext
  <1>4. QED
    BY <1>2, <1>3 DEF IInv

-----------------------------------------------------------------------------
(* What follows for every behaviour *)

(* Every reachable state is well typed and satisfies the invariant. *)
THEOREM Invariance == Spec => [](TypeOK /\ IInv)
  <1>1. Init => TypeOK /\ IInv
    BY TypeInit, IInvInit
  <1>2. TypeOK /\ IInv /\ [Next]_vars => (TypeOK /\ IInv)'
    BY IInvNext
  <1>3. QED
    BY <1>1, <1>2, PTL DEF Spec

(* Every reachable state is well typed: in particular no row ever holds a  *)
(* null.                                                                   *)
THEOREM TypeCorrect == Spec => []TypeOK
  BY Invariance, PTL

(* The items of getExpiring stay in the window across midnight. *)
THEOREM WindowHolds == Spec => []ExpiringInWindow
  <1>1. TypeOK /\ IInv => ExpiringInWindow
    BY DEF IInv, WindowInv, ExpiringInWindow
  <1>2. QED
    BY <1>1, Invariance, PTL

(* A row changes only on behalf of its owner, and never changes hands.     *)
(* The lookup compared the owner, and the owner of a row that still exists *)
(* is the one it had then.                                                 *)
THEOREM OnlyOwnerChanges == Spec => OwnerOnly
  <1>1. TypeOK /\ IInv /\ [Next]_vars =>
           \A i \in Item :
              items[i].state # "absent" /\ items'[i] # items[i] /\ items'[i].state # "absent" =>
                 /\ items'[i].userId = items[i].userId
                 /\ \E r \in Request :
                       /\ call[r].item = i
                       /\ call[r].user = items[i].userId
                       /\ pc'[r] # pc[r]
    <2> SUFFICES ASSUME TypeOK, IInv, [Next]_vars, NEW i \in Item,
                        items[i].state # "absent", items'[i] # items[i],
                        items'[i].state # "absent"
                 PROVE  /\ items'[i].userId = items[i].userId
                        /\ \E r \in Request :
                              /\ call[r].item = i
                              /\ call[r].user = items[i].userId
                              /\ pc'[r] # pc[r]
      OBVIOUS
    <2>1. PICK r \in Request : Patched(r, i) \/ Hidden(r, i)
      BY ItemSteps DEF IInv, Goes, Comes
    <2>2. QED
      BY <2>1 DEF Patched, Hidden
  <1>2. QED
    BY <1>1, Invariance, PTL DEF Spec, OwnerOnly

(* An item deleted while no PATCH holds a copy of it is gone for good. *)
THEOREM QuietDeletionHolds == Spec => QuietDeletionIsFinal
  <1>1. TypeOK /\ IInv /\ [Next]_vars =>
           \A i \in Item :
              items[i].state = "inactive" /\ Unread(i) =>
                 /\ items'[i].state # "active"
                 /\ \A r \in Request : pc'[r] \in {"load", "write"} => call'[r].item # i
    <2> SUFFICES ASSUME TypeOK, IInv, [Next]_vars, NEW i \in Item,
                        items[i].state = "inactive", Unread(i)
                 PROVE  /\ items'[i].state # "active"
                        /\ \A r \in Request : pc'[r] \in {"load", "write"} => call'[r].item # i
      OBVIOUS
    <2>1. items'[i].state # "active"
      <3>1. ASSUME NEW q \in Request, Patched(q, i) PROVE FALSE
        BY <3>1 DEF Patched, Unread
      <3>2. QED
        BY <3>1, ItemSteps DEF IInv, Goes, Comes, Hidden
    <2>2. ASSUME NEW r \in Request, pc'[r] \in {"load", "write"} PROVE call'[r].item # i
      <3>1. CASE FindOwnedActive(r) /\ pc'[r] = "load"
        <4>1. call' = call /\ call[r].item \in OwnedActive(call[r].user)
          BY <3>1 DEF FindOwnedActive, Reply, TypeOK
        <4>2. QED
          BY <4>1 DEF OwnedActive
      <3>2. CASE LoadStored(r) /\ pc'[r] = "write"
        BY <3>2 DEF LoadStored, Unread
      <3>3. CASE Rests(r)
        BY <2>2, <3>3 DEF Rests, Unread
      <3>4. QED
        BY <2>2, <3>1, <3>2, <3>3, CopySteps
    <2>3. QED
      BY <2>1, <2>2
  <1>2. TypeOK /\ IInv /\ [Next]_vars =>
           \A i \in Item :
              items[i].state = "inactive" /\ Unread(i) => items'[i].state # "active" /\ Unread(i)'
    BY <1>1 DEF Unread
  <1>3. QED
    BY <1>2, Invariance, PTL DEF Spec, QuietDeletionIsFinal

-----------------------------------------------------------------------------
(* What a PATCH writes *)

(* A PATCH leaves the step of its UPDATE only by that UPDATE. *)
LEMMA WriteStep ==
    ASSUME TypeOK, [Next]_vars, NEW r \in Request, pc[r] = "write", pc'[r] # "write"
    PROVE  WriteChanges(r)
  <1> USE DEF Ask, GoTo, Reply
  <1>1. CASE Arrive(r)
    BY <1>1 DEF Arrive, ListArrives, ExpiringArrives, CreateArrives, UpdateArrives,
                DeactivateArrives
  <1>2. CASE Serve(r)
    BY <1>2 DEF Serve, Query, Respond, Insert, FindOwnedActive, LoadStored, Deactivate
  <1>3. CASE Rests(r)
    BY <1>3 DEF Rests
  <1>4. QED
    BY <1>1, <1>2, <1>3, OneMoves, NoneMoves

(* The UPDATE of a PATCH nobody overtook leaves a column as it is, or      *)
(* writes what the body says; and it writes nothing but columns.           *)
LEMMA WrittenFresh ==
    ASSUME TypeOK, HandlerInv, CopyInv, FreshInv, NEW r \in Request \ raced, pc[r] = "write",
           ~ \E c \in Changed(r) : copy[r].fields[c] = Null,
           stored[r].state # "absent",
           items[call[r].item].state # "absent"
    PROVE  /\ Written(r) = [items[call[r].item] EXCEPT !.fields = Written(r).fields]
           /\ \A c \in Column :
                 Written(r).fields[c] # items[call[r].item].fields[c] =>
                    c \in DOMAIN call[r].body /\ Written(r).fields[c] = call[r].body[c]
  <1> DEFINE i == call[r].item
  <1>1. i \in Item /\ copy[r].state = "active"
    BY DEF HandlerInv, CopyInv
  <1>2. stored[r].state = "active" /\ copy[r].fields = Merge(call[r].body, stored[r].fields)
    BY DEF FreshInv
  <1>3. items[i] \in [userId : User, fields : Fields, state : {"active", "inactive"}]
    BY <1>1, RealRow DEF TypeOK
  <1>4. Written(r) = [userId |-> items[i].userId,
                      fields |-> [c \in Column |-> IF c \in Changed(r) THEN copy[r].fields[c]
                                                                       ELSE items[i].fields[c]],
                      state  |-> items[i].state]
    BY <1>1, <1>2 DEF Written
  <1>5. ASSUME NEW c \in Changed(r)
        PROVE  c \in DOMAIN call[r].body /\ copy[r].fields[c] = call[r].body[c]
    BY <1>2, <1>5 DEF Changed, Merge
  <1>6. Written(r) = [items[i] EXCEPT !.fields = Written(r).fields]
    BY <1>3, <1>4
  <1>7. ASSUME NEW c \in Column, Written(r).fields[c] # items[i].fields[c]
        PROVE  c \in DOMAIN call[r].body /\ Written(r).fields[c] = call[r].body[c]
    BY <1>4, <1>5, <1>7
  <1>8. QED
    BY <1>6, <1>7

(* A PATCH changes only what its body names, in any overlap, unless        *)
(* another request changed its row between its two SELECTs.                *)
THEOREM NoLostUpdate == Spec => FreshPatchKeepsOmitted
  <1>1. TypeOK /\ IInv /\ [Next]_vars =>
           \A r \in Request \ raced :
              pc[r] = "write" /\ pc'[r] = "respond" =>
                 \A c \in Column \ DOMAIN call[r].body :
                    items'[call[r].item].fields[c] = items[call[r].item].fields[c]
    <2> SUFFICES ASSUME TypeOK, IInv, [Next]_vars, NEW r \in Request \ raced,
                        pc[r] = "write", pc'[r] = "respond",
                        NEW c \in Column \ DOMAIN call[r].body
                 PROVE  items'[call[r].item].fields[c] = items[call[r].item].fields[c]
      OBVIOUS
    <2>1. HandlerInv /\ CopyInv /\ FreshInv
      BY DEF IInv
    <2>2. WriteChanges(r)
      BY WriteStep
    <2>3. /\ ~ \E d \in Changed(r) : copy[r].fields[d] = Null
          /\ stored[r].state # "absent"
          /\ items' = [items EXCEPT ![call[r].item] = Written(r)]
      BY <2>2 DEF WriteChanges, Reply, TypeOK
    <2>4. call[r].item \in Item /\ items \in [Item -> Row]
      BY <2>1 DEF HandlerInv, TypeOK
    <2>5. CASE items[call[r].item].state = "absent"
      BY <2>3, <2>4, <2>5 DEF Written
    <2>6. CASE items[call[r].item].state # "absent"
      BY <2>1, <2>3, <2>4, <2>6, WrittenFresh
    <2>7. QED
      BY <2>5, <2>6
  <1>2. QED
    BY <1>1, Invariance, PTL DEF Spec, FreshPatchKeepsOmitted

(* A deleted item becomes active again only through a PATCH that was       *)
(* overtaken between its SELECTs.                                          *)
THEOREM OnlyRacedReactivates == Spec => OnlyRacedPatchReactivates
  <1>1. TypeOK /\ IInv /\ [Next]_vars =>
           \A i \in Item :
              items[i].state = "inactive" /\ items'[i].state = "active" =>
                 \E r \in raced : call[r].item = i /\ pc[r] = "write"
    <2> SUFFICES ASSUME TypeOK, IInv, [Next]_vars, NEW i \in Item,
                        items[i].state = "inactive", items'[i].state = "active"
                 PROVE  \E r \in raced : call[r].item = i /\ pc[r] = "write"
      OBVIOUS
    <2>1. HandlerInv /\ RowInv /\ CopyInv /\ FreshInv
      BY DEF IInv
    <2>2. PICK q \in Request : Patched(q, i)
      BY <2>1, ItemSteps DEF Goes, Comes, Hidden
    <2>3. CASE q \in raced
      BY <2>2, <2>3 DEF Patched
    <2>4. CASE q \notin raced
      <3>1. copy[q].state = stored[q].state
        BY <2>1, <2>2, <2>4 DEF Patched, FreshInv
      <3>2. items'[i].state = items[i].state
        BY <2>2, <3>1 DEF Patched, Written
      <3>3. QED
        BY <3>2
    <2>5. QED
      BY <2>3, <2>4
  <1>2. QED
    BY <1>1, Invariance, PTL DEF Spec, OnlyRacedPatchReactivates

(* A PATCH is opened by a lookup that finds its item active, and gets      *)
(* stale only in a step that changes the row.                              *)
LEMMA LookupsFollow == TypeOK /\ IInv /\ [Next]_vars => Store!Lookups
  <1> SUFFICES ASSUME TypeOK, IInv, [Next]_vars PROVE Store!Lookups
    OBVIOUS
  <1>inv. HandlerInv /\ CopyInv /\ RacedInv
    BY DEF IInv
  <1>1. ASSUME NEW p \in Targets(Open)' \ Targets(Open) PROVE items[p[1]].state = "active"
    <2>1. PICK r \in Request : pc'[r] \in {"load", "write"} /\ p = <<call'[r].item, call'[r].body>>
      BY <1>1 DEF Targets, Open
    <2>2. CASE FindOwnedActive(r) /\ pc'[r] = "load"
      <3>1. call' = call /\ call[r].item \in OwnedActive(call[r].user)
        BY <2>2 DEF FindOwnedActive, Reply, TypeOK
      <3>2. QED
        BY <2>1, <3>1 DEF OwnedActive
    <2>3. CASE pc[r] \in {"load", "write"} /\ call'[r] = call[r]
      BY <1>1, <2>1, <2>3 DEF Targets, Open
    <2>4. QED
      BY <2>1, <2>2, <2>3, CopySteps DEF LoadStored, Rests
  <1>2. ASSUME NEW p \in Targets(Open \cap raced)' \ Targets(Open \cap raced)
        PROVE  p \in Targets(Open) /\ items'[p[1]] # items[p[1]]
    <2>1. PICK r \in raced' : /\ r \in Request
                              /\ pc'[r] \in {"load", "write"}
                              /\ p = <<call'[r].item, call'[r].body>>
      BY <1>2 DEF Targets, Open
    <2>2. CASE r \in raced
      <3>1. pc[r] \in {"load", "write"} /\ call'[r] = call[r]
        BY <1>inv, <2>1, <2>2, CopySteps DEF RacedInv, FindOwnedActive, LoadStored, Rests
      <3>2. QED
        BY <1>2, <2>1, <2>2, <3>1 DEF Targets, Open
    <2>3. CASE r \notin raced
      <3>1. pc[r] = "load" /\ items'[call[r].item] # items[call[r].item]
        BY <2>1, <2>3
           DEF Next, Arrive, Serve, ListArrives, ExpiringArrives, CreateArrives, UpdateArrives,
               DeactivateArrives, Query, Respond, Insert, FindOwnedActive, LoadStored,
               WriteChanges, Deactivate, DeleteAccount, Midnight, Overtake, vars
      <3>2. call'[r] = call[r]
        BY <2>1, <3>1, <1>inv, PcSteps
      <3>3. QED
        BY <2>1, <3>1, <3>2 DEF Targets, Open
    <2>4. QED
      BY <2>2, <2>3
  <1>3. Targets(Open \cap raced)' \subseteq Targets(Open)'
    BY DEF Targets, Open
  <1>4. QED
    BY <1>1, <1>2, <1>3 DEF Store!Lookups

(* Each step of the endpoints is a step of the store, or none: the INSERT  *)
(* adds an item, the UPDATE of a PATCH patches it, or overwrites it when   *)
(* it was overtaken, that of a DELETE hides it, and an account takes its   *)
(* items with it.                                                          *)
THEOREM EndpointsImplementStore == Spec => ImplementsInventoryStore
  <1> USE DEF Store!RowStep
  <1>1. Init => Store!Init
    BY DEF Init, Store!Init, Targets, Open
  <1>2. TypeOK /\ IInv /\ [Next]_vars => Store!RowStep
    <2> SUFFICES ASSUME TypeOK, IInv, [Next]_vars, ~UNCHANGED items
                 PROVE  Store!RowStep
      OBVIOUS
    <2>types. items \in [Item -> Row] /\ call \in [Request -> Call]
      BY DEF TypeOK
    <2>inv. HandlerInv /\ RowInv /\ CopyInv /\ FreshInv
      BY DEF IInv
    <2>1. ASSUME NEW r \in Request, Insert(r) PROVE Store!RowStep
      <3>1. /\ r \in Item
            /\ items[r].state = "absent"
            /\ call[r].user \in User
            /\ call[r].fields \in [Column -> Value]
        BY <2>1, <2>inv DEF Insert, HandlerInv, RowInv, Item, Fields
      <3>2. items' = [items EXCEPT ![r] = [userId |-> call[r].user,
                                           fields |-> call[r].fields, state |-> "active"]]
        BY <2>1 DEF Insert
      <3>3. Store!Add(r, call[r].user, call[r].fields)
        BY <3>1, <3>2 DEF Store!Add
      <3>4. QED
        BY <3>1, <3>3
    <2>2. ASSUME NEW r \in Request, WriteChanges(r) PROVE Store!RowStep
      <3> DEFINE i == call[r].item
                 b == call[r].body
                 f == Written(r).fields
      <3>1. /\ i \in Item
            /\ call[r].op = "update"
            /\ pc[r] = "write"
            /\ copy[r].state = "active"
            /\ ~ \E c \in Changed(r) : copy[r].fields[c] = Null
            /\ stored[r].state # "absent"
            /\ items' = [items EXCEPT ![i] = Written(r)]
        BY <2>2, <2>inv DEF WriteChanges, HandlerInv, CopyInv
      <3>2. items[i].state # "absent"
        BY <3>1, <2>types DEF Written
      <3>3. f \in [Column -> Value]
        BY <3>1, <3>2, WrittenType DEF Fields
      <3>4. <<i, b>> \in Targets(Open)
        BY <3>1 DEF Targets, Open
      <3>5. b \in Body
        BY <2>inv, <3>1 DEF HandlerInv
      <3>6. CASE r \notin raced
        <4>1. /\ Written(r) = [items[i] EXCEPT !.fields = f]
              /\ \A c \in Column : f[c] # items[i].fields[c] => c \in DOMAIN b /\ f[c] = b[c]
          BY <2>inv, <3>1, <3>2, <3>6, WrittenFresh
        <4>2. items' = [items EXCEPT ![i].fields = f]
          BY <3>1, <4>1
        <4>3. Store!Patch(i, b, f)
          BY <3>2, <3>4, <4>1, <4>2 DEF Store!Patch
        <4>4. QED
          BY <3>1, <3>3, <3>5, <4>3
      <3>7. CASE r \in raced
        <4> DEFINE s == Written(r).state
        <4>1. <<i, b>> \in Targets(Open \cap raced)
          BY <3>1, <3>7 DEF Targets, Open
        <4>2. items[i] \in [userId : User, fields : Fields, state : {"active", "inactive"}]
          BY <3>1, <3>2, <2>types, RealRow
        <4>3. Written(r) = [userId |-> items[i].userId, fields |-> f, state |-> s]
          BY <3>2 DEF Written
        <4> HIDE DEF f, s
        <4>4. s \in {items[i].state, "active"}
          BY <3>1, <3>2 DEF Written, s
        <4>5. items' = [items EXCEPT ![i] = [userId |-> items[i].userId, fields |-> f, state |-> s]]
          BY <3>1, <4>3
        <4>6. Store!Overwrite(i, b, f, s)
          BY <3>2, <4>1, <4>4, <4>5 DEF Store!Overwrite
        <4>7. s \in {"active", "inactive"}
          BY <4>2, <4>4
        <4>8. QED
          BY <3>1, <3>3, <3>5, <4>6, <4>7
      <3>8. QED
        BY <3>6, <3>7
    <2>3. ASSUME NEW r \in Request, Deactivate(r) PROVE Store!RowStep
      <3>1. /\ call[r].item \in Item
            /\ items[call[r].item].state = "active"
            /\ items' = [items EXCEPT ![call[r].item].state = "inactive"]
        BY <2>3 DEF Deactivate, OwnedActive
      <3>2. Store!Deactivate(call[r].item)
        BY <3>1 DEF Store!Deactivate
      <3>3. QED
        BY <3>1, <3>2
    <2>4. ASSUME NEW u \in User, DeleteAccount(u) PROVE Store!RowStep
      <3>1. Store!Purge(u)
        BY <2>4 DEF DeleteAccount, Store!Purge
      <3>2. QED
        BY <3>1
    <2>5. QED
      BY <2>1, <2>2, <2>3, <2>4
         DEF Next, Arrive, Serve, ListArrives, ExpiringArrives, CreateArrives, UpdateArrives,
             DeactivateArrives, Query, Respond, FindOwnedActive, LoadStored, Midnight, vars
  <1>3. TypeOK /\ IInv /\ [Next]_vars => Store!Next
    BY <1>2, LookupsFollow DEF Store!Next
  <1>4. QED
    BY <1>1, <1>3, Invariance, PTL DEF Spec, Store!Spec, ImplementsInventoryStore
=============================================================================
