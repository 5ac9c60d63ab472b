---------------------------- MODULE CatalogRegister ----------------------------
(***************************************************************************)
(* What the recipe catalog promises, with no transactions, locks or seeds: *)
(* one register that is empty until the first catalog is published, whose  *)
(* content changes only together with its version, and whose readers get   *)
(* what is published and nothing else.                                     *)
(*                                                                         *)
(* RecipeCatalog implements this specification; the promise is that of     *)
(* docs/SPRINT3_BQ3.md:111-117 and of recipes.seed.ts:22-24.               *)
(***************************************************************************)
CONSTANTS
    Catalog,    \* the catalogs fit to be published, each with its version
    NoRow       \* nothing is published

VARIABLES
    stored,     \* the published catalog
    answer      \* what the last reader was told

vars == <<stored, answer>>

Init == stored = NoRow /\ answer = NoRow

Publish(c) ==
    /\ stored = NoRow \/ stored.version # c.version
    /\ stored' = c
    /\ UNCHANGED answer

Read ==
    /\ answer' = stored
    /\ UNCHANGED stored

Next == Read \/ \E c \in Catalog : Publish(c)

Spec == Init /\ [][Next]_vars
================================================================================
