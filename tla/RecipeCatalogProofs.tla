-------------------------- MODULE RecipeCatalogProofs --------------------------
(* RecipeCatalog implements CatalogRegister, for any set of runs and any set of *)
(* catalogs their builds carry.                                                 *)
EXTENDS RecipeCatalog, TLAPS

--------------------------------------------------------------------------------
(* What catalogProblems lets through                                           *)

\* catalogProblems (recipes.seed.ts:38-134): in a recipe without problems no inventory
\* name satisfies two ingredients, and one ingredient is required.
LEMMA AcceptedRecipeUnambiguous ==
  ASSUME NEW recipe, ~AllOptional(recipe), ~KeyTwice(recipe)
  PROVE  Unambiguous(recipe)
<1>1. \E i \in DOMAIN recipe.ingredients : ~recipe.ingredients[i].optional
  BY DEF AllOptional
<1>2. ASSUME NEW text \in Text,
             NEW i \in DOMAIN recipe.ingredients, NEW j \in DOMAIN recipe.ingredients,
             Matches(text, recipe.ingredients[i]), Matches(text, recipe.ingredients[j])
      PROVE  i = j
  <2>1. PICK k \in DOMAIN recipe.ingredients[i].keys : recipe.ingredients[i].keys[k] = Normal[text]
    BY <1>2 DEF Matches
  <2>2. PICK l \in DOMAIN recipe.ingredients[j].keys : recipe.ingredients[j].keys[l] = Normal[text]
    BY <1>2 DEF Matches
  <2>3. SUFFICES ASSUME i # j PROVE FALSE
    OBVIOUS
  <2>4. <<i, k>> # <<j, l>>
    BY <2>3
  <2> QED
    BY <2>1, <2>2, <2>4 DEF KeyTwice
<1> QED
  BY <1>1, <1>2 DEF Unambiguous

LEMMA AcceptedCatalogPublishable ==
  ASSUME NEW c \in Authored, ~HasProblems(c)
  PROVE  c \in Publishable
<1>1. \A i \in DOMAIN c.recipes : ~AllOptional(c.recipes[i]) /\ ~KeyTwice(c.recipes[i])
  BY DEF HasProblems
<1>2. \A i \in DOMAIN c.recipes : Unambiguous(c.recipes[i])
  BY <1>1, AcceptedRecipeUnambiguous
<1> QED
  BY <1>2 DEF Publishable

--------------------------------------------------------------------------------
(* The inductive invariant                                                     *)

LEMMA IInvInit == RecipeInit => RecipeIInv
BY DEF RecipeInit, RecipeIInv, RecipeTypeOK, WritersHoldTheRow, CheckedBeforeConnecting, RecipePC

LEMMA IInvStep ==
  ASSUME RecipeIInv, [RecipeNext]_recipeVars
  PROVE  RecipeIInv'
<1> USE DEF RecipeIInv, RecipeTypeOK, WritersHoldTheRow, CheckedBeforeConnecting, RecipePC, RecipeGoto
<1>1. ASSUME NEW s \in RecipeRun, Start(s) PROVE RecipeIInv'
  BY <1>1 DEF Start
<1>2. ASSUME NEW s \in RecipeRun, SelectForUpdate(s) PROVE RecipeIInv'
  <2>1. Decision(authored[s]) \in {"insert", "update", "unchanged", "refused"}
    BY DEF Decision
  <2>2. RecipeTypeOK' /\ CheckedBeforeConnecting'
    BY <1>2, <2>1 DEF SelectForUpdate
  <2>3. Decision(authored[s]) = "update" =>
          stored # NoRow /\ stored.version # authored[s].version /\ lock' = s
    BY <1>2 DEF SelectForUpdate, Decision
  <2>4. ASSUME NEW t \in RecipeRun, t # s, recipePc[t] \in {"update", "commit"}
        PROVE  lock' = t
    BY <1>2, <2>4, NoRunAssumption DEF SelectForUpdate
  <2>5. WritersHoldTheRow'
    BY <1>2, <2>1, <2>3, <2>4 DEF SelectForUpdate
  <2> QED
    BY <2>2, <2>5
<1>3. ASSUME NEW s \in RecipeRun, InsertRow(s) PROVE RecipeIInv'
  <2>1. \A t \in RecipeRun : recipePc[t] \notin {"update", "commit"}
    BY <1>3, NoRunAssumption DEF InsertRow
  <2> QED
    BY <1>3, <2>1 DEF InsertRow
<1>4. ASSUME NEW s \in RecipeRun, UpdateRow(s) PROVE RecipeIInv'
  BY <1>4 DEF UpdateRow
<1>5. ASSUME NEW s \in RecipeRun, Commit(s) PROVE RecipeIInv'
  <2>1. \A t \in RecipeRun : t # s => recipePc[t] \notin {"update", "commit"}
    BY <1>5 DEF Commit
  <2> QED
    BY <1>5, <2>1 DEF Commit
<1>6. ASSUME NEW s \in RecipeRun, Kill(s) PROVE RecipeIInv'
  BY <1>6 DEF Kill
<1>7. CASE GetCatalog
  BY <1>7 DEF GetCatalog
<1>8. CASE UNCHANGED recipeVars
  BY <1>8 DEF recipeVars
<1> QED
  BY <1>1, <1>2, <1>3, <1>4, <1>5, <1>6, <1>7, <1>8, [RecipeNext]_recipeVars DEF RecipeNext

\* Under FOR UPDATE whoever decided to write holds the row, what it decided on is
\* still true, and only checked catalogs reach the transaction (recipes.seed.ts:142-191).
THEOREM IInvHolds ==
  RecipeSpec => []RecipeIInv
<1>1. RecipeIInv /\ [RecipeNext]_recipeVars => RecipeIInv'
  BY IInvStep
<1> QED
  BY IInvInit, <1>1, PTL DEF RecipeSpec

\* Nobody waits for a run that itself waits: whoever holds the row only has its own
\* statement and the COMMIT left, so the waiting of SELECT FOR UPDATE and of a second
\* INSERT cannot form a cycle (recipes.seed.ts:142-191).
THEOREM HolderNeverWaits ==
  RecipeSpec => [](lock # NoRun => recipePc[lock] \in {"update", "commit"})
<1> DEFINE HolderWrites == lock # NoRun => recipePc[lock] \in {"update", "commit"}
<1>1. RecipeInit => HolderWrites
  BY DEF RecipeInit
<1>2. ASSUME RecipeIInv, HolderWrites, [RecipeNext]_recipeVars
      PROVE  HolderWrites'
  <2> USE <1>2 DEF RecipeIInv, RecipeTypeOK, WritersHoldTheRow, RecipeGoto
  <2>1. ASSUME NEW s \in RecipeRun, Start(s) PROVE HolderWrites'
    BY <2>1 DEF Start
  <2>2. ASSUME NEW s \in RecipeRun, SelectForUpdate(s) PROVE HolderWrites'
    BY <2>2 DEF SelectForUpdate, Decision
  <2>3. ASSUME NEW s \in RecipeRun, InsertRow(s) PROVE HolderWrites'
    BY <2>3 DEF InsertRow
  <2>4. ASSUME NEW s \in RecipeRun, UpdateRow(s) PROVE HolderWrites'
    BY <2>4 DEF UpdateRow
  <2>5. ASSUME NEW s \in RecipeRun, Commit(s) PROVE HolderWrites'
    BY <2>5 DEF Commit
  <2>6. ASSUME NEW s \in RecipeRun, Kill(s) PROVE HolderWrites'
    BY <2>6 DEF Kill
  <2>7. CASE GetCatalog
    BY <2>7 DEF GetCatalog
  <2>8. CASE UNCHANGED recipeVars
    BY <2>8 DEF recipeVars
  <2> QED
    BY <2>1, <2>2, <2>3, <2>4, <2>5, <2>6, <2>7, <2>8 DEF RecipeNext
<1> QED
  BY <1>1, <1>2, IInvHolds, PTL DEF RecipeSpec

--------------------------------------------------------------------------------
(* The refinement                                                              *)

LEMMA CommitPublishes ==
  ASSUME RecipeIInv, NEW s \in RecipeRun, Commit(s)
  PROVE  Register!Publish(authored[s]) /\ authored[s] \in Publishable
<1>1. stored = NoRow \/ stored.version # authored[s].version
  BY DEF RecipeIInv, WritersHoldTheRow, Commit
<1>2. authored[s] \in Authored /\ ~HasProblems(authored[s])
  BY DEF RecipeIInv, RecipeTypeOK, CheckedBeforeConnecting, Commit
<1> QED
  BY <1>1, <1>2, AcceptedCatalogPublishable DEF Commit, Register!Publish

LEMMA StepImplements ==
  ASSUME RecipeIInv, [RecipeNext]_recipeVars
  PROVE  [Register!Next]_(Register!vars)
<1> USE DEF Register!vars
<1>1. CASE \E s \in RecipeRun : Commit(s)
  BY <1>1, CommitPublishes DEF Register!Next
<1>2. CASE GetCatalog
  BY <1>2 DEF GetCatalog, Register!Next, Register!Read
<1>3. CASE \E s \in RecipeRun : \/ Start(s) \/ SelectForUpdate(s) \/ InsertRow(s)
                              \/ UpdateRow(s) \/ Kill(s)
  BY <1>3 DEF Start, SelectForUpdate, InsertRow, UpdateRow, Kill
<1>4. CASE UNCHANGED recipeVars
  BY <1>4 DEF recipeVars
<1> QED
  BY <1>1, <1>2, <1>3, <1>4, [RecipeNext]_recipeVars DEF RecipeNext

\* Whatever seed runs overlap, race for the first row or are killed
\* (recipes.seed.ts:142-191), readers see one register of unambiguous catalogs, whose
\* content never changes under an unchanged version.
THEOREM RecipeCatalogImplementsRegister ==
  RecipeSpec => PublishesAtomically
<1>1. RecipeInit => Register!Init
  BY DEF RecipeInit, Register!Init
<1>2. RecipeIInv /\ [RecipeNext]_recipeVars => [Register!Next]_(Register!vars)
  BY StepImplements
<1>3. RecipeSpec => []RecipeIInv
  BY IInvHolds
<1> QED
  BY <1>1, <1>2, <1>3, PTL DEF RecipeSpec, PublishesAtomically, Register!Spec
================================================================================
