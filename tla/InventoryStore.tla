--------------------------- MODULE InventoryStore ---------------------------
(***************************************************************************)
(* What the inventory endpoints promise about the rows: an item belongs to *)
(* one account, a PATCH reaches items that are active when it looks them   *)
(* up and changes the columns it names, a DELETE hides the item, and rows  *)
(* leave the table only with their account.                                *)
(*                                                                         *)
(* A PATCH is open between its lookup and its write.  The promise says     *)
(* when an open PATCH may do more than it was asked: only when its row     *)
(* changed after the lookup, and only until it has been written.           *)
(*                                                                         *)
(* The promise is src/src/inventory/inventory.controller.ts:103-128.       *)
(***************************************************************************)
CONSTANTS
    Item,       \* ids of items
    User,       \* ids of accounts
    Column,     \* the columns a client may write
    Value,      \* what a column may hold
    Body,       \* the PATCH bodies: functions on a set of columns
    NoItem,     \* the row that stands for no row
    Stored      \* the possible contents of the table at the start

VARIABLES
    rows,       \* rows[i]: the row of item i
    open,       \* the open PATCHes, as <<item, body>>
    stale       \* those that may hold an outdated row

Init ==
    /\ rows \in Stored
    /\ open = {}
    /\ stale = {}

Add(i, u, f) ==
    /\ rows[i].state = "absent"
    /\ rows' = [rows EXCEPT ![i] = [userId |-> u, fields |-> f, state |-> "active"]]

(* A column is left as it is, or the body names it and it gets that value. *)
Patch(i, b, f) ==
    /\ <<i, b>> \in open
    /\ rows[i].state # "absent"
    /\ \A c \in Column : f[c] # rows[i].fields[c] => c \in DOMAIN b /\ f[c] = b[c]
    /\ rows' = [rows EXCEPT ![i].fields = f]

(* A PATCH with an outdated row may write other columns and reactivate the *)
(* item, and never changes its owner.                                      *)
Overwrite(i, b, f, s) ==
    /\ <<i, b>> \in stale
    /\ rows[i].state # "absent"
    /\ s \in {rows[i].state, "active"}
    /\ rows' = [rows EXCEPT ![i] = [userId |-> rows[i].userId, fields |-> f, state |-> s]]

Deactivate(i) ==
    /\ rows[i].state = "active"
    /\ rows' = [rows EXCEPT ![i].state = "inactive"]

Purge(u) ==
    rows' = [i \in Item |-> IF rows[i].userId = u THEN NoItem ELSE rows[i]]

(* Only an active item is looked up, and an open PATCH gets stale only in  *)
(* a step that changes its row.                                            *)
Lookups ==
    /\ \A p \in open' \ open : rows[p[1]].state = "active"
    /\ \A p \in stale' \ stale : p \in open /\ rows'[p[1]] # rows[p[1]]
    /\ stale' \subseteq open'

RowStep ==
    \/ \E i \in Item, f \in [Column -> Value] :
          \/ \E u \in User : Add(i, u, f)
          \/ \E b \in Body : Patch(i, b, f) \/ \E s \in {"active", "inactive"} : Overwrite(i, b, f, s)
    \/ \E i \in Item : Deactivate(i)
    \/ \E u \in User : Purge(u)
    \/ UNCHANGED rows

Next == Lookups /\ RowStep

Spec == Init /\ [][Next]_<<rows, open, stale>>
=============================================================================
