----------------------------- MODULE RecipeCatalog -----------------------------
(***************************************************************************)
(* The recipe catalog: one row, written by runs of the recipe seed, each   *)
(* with the catalog its build carries, and read by GET recipes.            *)
(*                                                                         *)
(* A run checks its catalog before it connects and then runs one           *)
(* transaction.  SELECT ... FOR UPDATE locks the row when there is one; a  *)
(* first INSERT holds the entry of the primary key until it commits, and   *)
(* makes a second one wait for it and fail.  The row is visible to readers *)
(* from the commit on.  A kill rolls the transaction back.                 *)
(***************************************************************************)
EXTENDS Integers, Sequences

CONSTANTS
    RecipeRun,  \* executions of npm run seed:recipes
    Authored,   \* the catalogs the builds carry: [version, generatedAt, recipes, inBounds]
    Text,       \* ingredient names, as written
    Normal,     \* normalizeIngredientName
    NoRow,      \* no row in recipe_catalog; in an answer, a 503
    NoRun

ASSUME NoRunAssumption == NoRun \notin RecipeRun

VARIABLES
    stored,     \* the committed row of recipe_catalog
    lock,       \* the run that holds the row lock or the uncommitted key entry
    recipePc,   \* recipePc[s]: the next step of run s
    authored,   \* authored[s]: the catalog of run s
    recipeAnswer  \* what the last GET recipes answered

recipeVars == <<stored, lock, recipePc, authored, recipeAnswer>>

--------------------------------------------------------------------------------
(* catalogProblems.  A recipe is [id, ingredients, inBounds], an           *)
(* ingredient [keys, optional]: its normalizedName, then its aliases.      *)
(* inBounds stands for the limits of the other fields (RECIPE_LIMITS).     *)

\* A key already taken, by an earlier ingredient or by the same one.
KeyTwice(recipe) ==
  \E i, j \in DOMAIN recipe.ingredients :
    LET mine == recipe.ingredients[i].keys
        other == recipe.ingredients[j].keys
    IN \E k \in DOMAIN mine, l \in DOMAIN other : <<i, k>> # <<j, l>> /\ mine[k] = other[l]

NotNormalized(recipe) ==
  \E i \in DOMAIN recipe.ingredients :
    LET keys == recipe.ingredients[i].keys
    IN \E k \in DOMAIN keys : Normal[keys[k]] # keys[k]

AllOptional(recipe) == \A i \in DOMAIN recipe.ingredients : recipe.ingredients[i].optional

HasProblems(c) ==
  \/ ~c.inBounds
  \/ \E i, j \in DOMAIN c.recipes : i # j /\ c.recipes[i].id = c.recipes[j].id
  \/ \E i \in DOMAIN c.recipes :
       LET recipe == c.recipes[i]
       IN \/ ~recipe.inBounds
          \/ AllOptional(recipe)
          \/ NotNormalized(recipe)
          \/ KeyTwice(recipe)

--------------------------------------------------------------------------------
(* The seed                                                                *)

RecipeInit ==
    /\ stored = NoRow
    /\ lock = NoRun
    /\ recipePc = [s \in RecipeRun |-> "idle"]
    /\ authored \in [RecipeRun -> Authored]
    /\ recipeAnswer = NoRow

RecipeGoto(s, label) == recipePc' = [recipePc EXCEPT ![s] = label]

Start(s) ==
    /\ recipePc[s] = "idle"
    /\ RecipeGoto(s, IF HasProblems(authored[s]) THEN "refused" ELSE "select")
    /\ UNCHANGED <<stored, lock, authored, recipeAnswer>>

\* What the transaction goes on to do with the row it has selected.
Decision(c) ==
  IF stored = NoRow THEN "insert"
  ELSE IF stored.version # c.version THEN "update"
  ELSE IF stored = c THEN "unchanged"
  ELSE "refused"

\* Fault: a plain SELECT, which locks nothing.
SelectWithoutLock(s) ==
    /\ recipePc[s] = "select"
    /\ RecipeGoto(s, Decision(authored[s]))
    /\ UNCHANGED <<stored, lock, authored, recipeAnswer>>

\* SELECT ... FOR UPDATE waits for the holder of the row and reads what it left; an
\* uncommitted first row is invisible and makes nobody wait.
SelectForUpdate(s) ==
    /\ recipePc[s] = "select"
    /\ stored # NoRow => lock = NoRun
    /\ RecipeGoto(s, Decision(authored[s]))
    /\ lock' = IF stored # NoRow /\ stored.version # authored[s].version THEN s ELSE lock
    /\ UNCHANGED <<stored, authored, recipeAnswer>>

\* The INSERT waits for an uncommitted one and fails on a committed one.
InsertRow(s) ==
    /\ recipePc[s] = "insert"
    /\ lock = NoRun
    /\ IF stored = NoRow THEN RecipeGoto(s, "commit") /\ lock' = s
       ELSE RecipeGoto(s, "failed") /\ UNCHANGED lock
    /\ UNCHANGED <<stored, authored, recipeAnswer>>

UpdateRow(s) ==
    /\ recipePc[s] = "update"
    /\ RecipeGoto(s, "commit")
    /\ UNCHANGED <<stored, lock, authored, recipeAnswer>>

Commit(s) ==
    /\ recipePc[s] = "commit"
    /\ RecipeGoto(s, "published")
    /\ stored' = authored[s]
    /\ lock' = NoRun
    /\ UNCHANGED <<authored, recipeAnswer>>

\* The process dies, or a statement fails: the transaction is rolled back.
Kill(s) ==
    /\ recipePc[s] \in {"select", "insert", "update", "commit"}
    /\ RecipeGoto(s, "killed")
    /\ lock' = IF lock = s THEN NoRun ELSE lock
    /\ UNCHANGED <<stored, authored, recipeAnswer>>

--------------------------------------------------------------------------------

\* GET recipes: one statement; a missing row is a 503, an empty catalog an answer.
GetCatalog ==
    /\ recipeAnswer' = stored
    /\ UNCHANGED <<stored, lock, recipePc, authored>>

RecipeNext ==
    \/ \E s \in RecipeRun :
         \/ Start(s)
         \/ SelectForUpdate(s)
         \/ InsertRow(s)
         \/ UpdateRow(s)
         \/ Commit(s)
         \/ Kill(s)
    \/ GetCatalog

RecipeSpec == RecipeInit /\ [][RecipeNext]_recipeVars

--------------------------------------------------------------------------------
(* Properties                                                              *)

RecipePC == {"idle", "select", "insert", "update", "commit",
             "refused", "unchanged", "failed", "published", "killed"}

RecipeTypeOK ==
    /\ stored \in Authored \cup {NoRow}
    /\ lock \in RecipeRun \cup {NoRun}
    /\ recipePc \in [RecipeRun -> RecipePC]
    /\ authored \in [RecipeRun -> Authored]
    /\ recipeAnswer \in Authored \cup {NoRow}

\* An item of the inventory matches an ingredient when its normalized name is a key.
Matches(text, ingredient) == \E k \in DOMAIN ingredient.keys : ingredient.keys[k] = Normal[text]

\* "One inventory name must never satisfy two ingredients of the same recipe"
\* (src/src/database/seeds/recipes.seed.ts:100), and one ingredient is required.
Unambiguous(recipe) ==
    /\ \A text \in Text : \A i, j \in DOMAIN recipe.ingredients :
         Matches(text, recipe.ingredients[i]) /\ Matches(text, recipe.ingredients[j]) => i = j
    /\ \E i \in DOMAIN recipe.ingredients : ~recipe.ingredients[i].optional

Publishable == {c \in Authored : \A i \in DOMAIN c.recipes : Unambiguous(c.recipes[i])}

Register == INSTANCE CatalogRegister WITH Catalog <- Publishable, answer <- recipeAnswer

\* Whatever runs overlap, race to insert the first row, wait for each other or are
\* killed: the row behaves as one register, whose content never changes under an
\* unchanged version, and every catalog in it is unambiguous.
PublishesAtomically == Register!Spec

--------------------------------------------------------------------------------
(* The inductive invariant of the proofs                                   *)

\* Who decided to write holds the row, and what it decided on is still true.
WritersHoldTheRow ==
    \A s \in RecipeRun :
       /\ recipePc[s] \in {"update", "commit"} => lock = s
       /\ recipePc[s] = "update" => stored # NoRow
       /\ recipePc[s] \in {"update", "commit"} => stored = NoRow \/ stored.version # authored[s].version

\* Only catalogs without problems reach the transaction.
CheckedBeforeConnecting ==
    \A s \in RecipeRun : recipePc[s] \notin {"idle", "refused", "killed"} => ~HasProblems(authored[s])

RecipeIInv == RecipeTypeOK /\ WritersHoldTheRow /\ CheckedBeforeConnecting
================================================================================
