---------------------------- MODULE MCInventory ----------------------------
(* Instances of Inventory for TLC. *)
EXTENDS Inventory, TLC

CONSTANTS r1, r2, r3, u1, u2, i1

RequestSymmetry == Permutations(Request)

(* The date alone, where only ownership, deletion and dates matter. *)
OneColumn == {"expirationDate"}
OneColumnBody == {<<>>, "expirationDate" :> 1, "expirationDate" :> Null}

(* A column without and a column with a date, and PATCHes of either. *)
TwoColumns == {"quantity", "expirationDate"}
TwoColumnBody ==
    {"quantity" :> 0, "quantity" :> 1, "expirationDate" :> 1,
     "quantity" :> 1 @@ "expirationDate" :> 0, "quantity" :> Null}
=============================================================================
