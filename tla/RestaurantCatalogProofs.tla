------------------------ MODULE RestaurantCatalogProofs ------------------------
(* What runs of the restaurant seed leave behind, for any list of demo          *)
(* restaurants, any number of runs and any number of switches by the operator.  *)
EXTENDS RestaurantCatalog, TLAPS

SeedRow == [pc : SeedPC, demo : DOMAIN Demo, item : Nat \ {0}, before : SUBSET SeedRun]

LEMMA DemoShape ==
  /\ DOMAIN Demo = 1..Len(Demo) /\ Len(Demo) \in Nat \ {0}
  /\ \A d \in DOMAIN Demo : /\ DOMAIN Demo[d].meals = 1..Len(Demo[d].meals)
                            /\ Len(Demo[d].meals) \in Nat \ {0}
<1>1. ASSUME NEW d \in DOMAIN Demo
      PROVE  /\ DOMAIN Demo[d].meals = 1..Len(Demo[d].meals)
             /\ Len(Demo[d].meals) \in Nat \ {0}
  <2>1. Demo[d] \in DemoRestaurant
    BY DemoAssumption
  <2>2. Demo[d].meals \in Seq(DemoMeal) \ {<<>>}
    BY <2>1 DEF DemoRestaurant
  <2> QED
    BY <2>2
<1>2. DOMAIN Demo = 1..Len(Demo) /\ Len(Demo) \in Nat \ {0}
  BY DemoAssumption
<1> QED
  BY <1>1, <1>2

LEMMA RowOf ==
  ASSUME CatalogTypeOK, NEW s \in SeedRun
  PROVE  seed[s] \in SeedRow /\ seed \in [SeedRun -> SeedRow]
BY DEF CatalogTypeOK, SeedRow

LEMMA NextDemoCases ==
  ASSUME NEW k \in SeedRow
  PROVE  /\ NextDemo(k) \in SeedRow
         /\ NextDemo(k).before = k.before
         /\ k.demo = Len(Demo) => NextDemo(k).pc = "done"
         /\ k.demo # Len(Demo) => /\ NextDemo(k).pc = "find" /\ NextDemo(k).item = 1
                                  /\ NextDemo(k).demo = k.demo + 1
<1>1. k.demo \in 1..Len(Demo) /\ Len(Demo) \in Nat /\ DOMAIN Demo = 1..Len(Demo)
  BY DemoShape DEF SeedRow
<1>2. CASE k.demo = Len(Demo)
  BY <1>2 DEF NextDemo, SeedRow, SeedPC
<1>3. CASE k.demo # Len(Demo)
  <2>1. k.demo + 1 \in DOMAIN Demo
    BY <1>1, <1>3
  <2> DEFINE n == k.demo + 1
  <2>2. NextDemo(k) = [k EXCEPT !.pc = "find", !.demo = n, !.item = 1]
    BY <1>3 DEF NextDemo
  <2>3. n \in DOMAIN Demo
    BY <2>1
  <2> HIDE DEF n
  <2>4. NextDemo(k) = [pc |-> "find", demo |-> n, item |-> 1, before |-> k.before]
    BY <2>2 DEF SeedRow
  <2>5. k.before \in SUBSET SeedRun
    BY DEF SeedRow
  <2>6. NextDemo(k) \in SeedRow
    BY <2>3, <2>4, <2>5 DEF SeedRow, SeedPC
  <2> QED
    BY <1>3, <2>4, <2>6 DEF n
<1> QED
  BY <1>2, <1>3

LEMMA CatalogInitInv == CatalogInit => CatalogIInv
<1> SUFFICES ASSUME CatalogInit PROVE CatalogIInv
  OBVIOUS
<1>1. \A s \in SeedRun : /\ seed[s].pc = "idle" /\ seed[s].demo = 1 /\ seed[s].item = 1
                         /\ seed[s].before = {}
  BY DEF CatalogInit
<1>2. CatalogTypeOK
  BY DemoShape, EditsAssumption DEF CatalogInit, CatalogTypeOK, SeedPC
<1>3. SeedIdempotent /\ Progress /\ EarlierRuns
  BY <1>1 DEF CatalogInit, SeedIdempotent, NoneMissing, NoneTwice, NoneHalf, Progress, EarlierRuns
<1> QED
  BY <1>2, <1>3 DEF CatalogIInv

--------------------------------------------------------------------------------
(* One lemma per action                                                        *)

LEMMA StartSeedInv ==
  ASSUME CatalogIInv, NEW s \in SeedRun, StartSeed(s)
  PROVE  CatalogIInv'
<1> USE DEF CatalogIInv
<1>1. seed[s] \in SeedRow /\ seed \in [SeedRun -> SeedRow]
  BY RowOf
<1>2. /\ seed'[s].pc = "find" /\ seed'[s].before = {t \in SeedRun : Ended(t)}
      /\ seed'[s].demo = 1 /\ seed'[s].item = 1
      /\ seed[s].pc = "idle"
  BY <1>1 DEF StartSeed, Progress, SeedRow
<1>3. \A t \in SeedRun : t # s => seed'[t] = seed[t]
  BY <1>1 DEF StartSeed
<1>4. restaurants' = restaurants /\ meals' = meals /\ abandoned' = abandoned
  BY DEF StartSeed
<1>5. CatalogTypeOK'
  BY <1>1 DEF StartSeed, CatalogTypeOK, SeedRow, SeedPC
<1>6. \A r \in restaurants : r[1] # s
  BY <1>2 DEF EarlierRuns
<1>7. \A t \in SeedRun : Ended(t) => Ended(t)' /\ t # s
  BY <1>2, <1>3 DEF Ended
<1>8. SeedIdempotent'
  <2>1. NoneMissing'
    BY <1>2, <1>3, <1>4 DEF SeedIdempotent, NoneMissing
  <2>2. NoneTwice'
    <3>1. ASSUME NEW r \in restaurants, NEW q \in restaurants, r[2] = q[2], r # q
          PROVE  Overlap(r[1], q[1])'
      <4>1. r[1] \in SeedRun /\ q[1] \in SeedRun /\ r[1] # s /\ q[1] # s
        BY <1>6 DEF CatalogTypeOK, RestaurantId
      <4> QED
        BY <3>1, <4>1, <1>3 DEF SeedIdempotent, NoneTwice, Overlap
    <3> QED
      BY <3>1, <1>4 DEF NoneTwice
  <2>3. NoneHalf'
    <3>1. \A r \in restaurants : r[1] \in SeedRun /\ r[1] # s
      BY <1>6 DEF CatalogTypeOK, RestaurantId
    <3> QED
      BY <3>1, <1>3, <1>4 DEF SeedIdempotent, NoneHalf, DemoOf
  <2> QED
    BY <2>1, <2>2, <2>3 DEF SeedIdempotent
<1>9. Progress'
  BY <1>2, <1>3, <1>4 DEF Progress, HasRow
<1>10. EarlierRuns'
  <2>1. ASSUME NEW t \in SeedRun PROVE \A u \in seed'[t].before : Ended(u)'
    BY <1>1, <1>2, <1>3, <1>7 DEF EarlierRuns, SeedRow, CatalogTypeOK
  <2> QED
    BY <2>1, <1>2, <1>3, <1>4 DEF EarlierRuns
<1> QED
  BY <1>5, <1>8, <1>9, <1>10

LEMMA FindByNameInv ==
  ASSUME CatalogIInv, NEW s \in SeedRun, FindByName(s)
  PROVE  CatalogIInv'
<1> USE DEF CatalogIInv
<1> DEFINE d == seed[s].demo
<1>1. seed[s] \in SeedRow /\ seed \in [SeedRun -> SeedRow] /\ seed[s].pc = "find"
  BY RowOf DEF FindByName
<1>2. restaurants' = restaurants /\ meals' = meals /\ abandoned' = abandoned
  BY DEF FindByName
<1>3. \A t \in SeedRun : t # s => seed'[t] = seed[t]
  BY <1>1 DEF FindByName
<1>4. \/ HasRow(d) /\ seed'[s] = NextDemo(seed[s])
      \/ ~HasRow(d) /\ seed'[s] = [seed[s] EXCEPT !.pc = "create"]
  BY <1>1 DEF FindByName, HasRow
<1>5. seed'[s] \in SeedRow /\ seed'[s].before = seed[s].before
      /\ seed'[s].pc \in {"find", "create", "done"}
  BY <1>1, <1>4, NextDemoCases DEF SeedRow, SeedPC
<1>6. /\ seed'[s].pc \in {"find", "create"} =>
           /\ seed'[s].item = 1
           /\ \A e \in 1..(seed'[s].demo - 1) : HasRow(e)
      /\ seed'[s].pc = "done" => \A e \in DOMAIN Demo : HasRow(e)
      /\ seed'[s].pc = "create" => ~HasRow(seed'[s].demo)
  <2>1. \A e \in 1..(d - 1) : HasRow(e)
    BY <1>1 DEF Progress
  <2>2. d \in 1..Len(Demo) /\ Len(Demo) \in Nat /\ DOMAIN Demo = 1..Len(Demo)
    BY <1>1, DemoShape DEF SeedRow
  <2>3. CASE HasRow(d) /\ seed'[s] = NextDemo(seed[s])
    BY <2>1, <2>2, <2>3, <1>1, NextDemoCases
  <2>4. CASE ~HasRow(d) /\ seed'[s] = [seed[s] EXCEPT !.pc = "create"]
    <3>1. seed[s].item = 1
      BY <1>1 DEF Progress
    <3> QED
      BY <2>1, <2>4, <3>1, <1>1 DEF SeedRow
  <2> QED
    BY <1>4, <2>3, <2>4
<1>7. CatalogTypeOK'
  <2>1. seed' \in [SeedRun -> SeedRow]
    BY <1>1, <1>5 DEF FindByName
  <2> QED
    BY <2>1 DEF FindByName, CatalogTypeOK, SeedRow
<1>8. \A t \in SeedRun : /\ Ended(t) => Ended(t)'
                         /\ seed'[t].before = seed[t].before
  BY <1>1, <1>3, <1>5 DEF Ended
<1>9. SeedIdempotent'
  <2>1. NoneMissing'
    BY <1>2, <1>3, <1>6 DEF SeedIdempotent, NoneMissing, HasRow
  <2>2. NoneTwice'
    BY <1>2, <1>8 DEF SeedIdempotent, NoneTwice, Overlap, CatalogTypeOK, RestaurantId
  <2>3. NoneHalf'
    <3>1. ASSUME NEW r \in restaurants, seed[r[1]].pc = "fill"
          PROVE  seed'[r[1]] = seed[r[1]]
      <4>1. r[1] \in SeedRun
        BY DEF CatalogTypeOK, RestaurantId
      <4> QED
        BY <1>1, <1>3, <3>1, <4>1
    <3> QED
      BY <1>2, <3>1 DEF SeedIdempotent, NoneHalf, DemoOf
  <2> QED
    BY <2>1, <2>2, <2>3 DEF SeedIdempotent
<1>10. Progress'
  BY <1>2, <1>3, <1>5, <1>6 DEF Progress, HasRow
<1>11. EarlierRuns'
  <2>1. \A t \in SeedRun : \A u \in seed'[t].before : Ended(u)'
    BY <1>1, <1>8 DEF EarlierRuns, SeedRow
  <2> QED
    BY <2>1, <1>2, <1>3, <1>5, <1>6 DEF EarlierRuns, HasRow
<1> QED
  BY <1>7, <1>9, <1>10, <1>11

LEMMA SaveRestaurantInv ==
  ASSUME CatalogIInv, NEW s \in SeedRun, SaveRestaurant(s)
  PROVE  CatalogIInv'
<1> USE DEF CatalogIInv
<1> DEFINE d == seed[s].demo
           row == <<s, d>>
<1>1. seed[s] \in SeedRow /\ seed \in [SeedRun -> SeedRow] /\ seed[s].pc = "create"
      /\ d \in DOMAIN Demo
  BY RowOf DEF SaveRestaurant, SeedRow
<1>2. restaurants' = restaurants \cup {row} /\ meals' = meals /\ abandoned' = abandoned
  BY DEF SaveRestaurant
<1>3. \A t \in SeedRun : t # s => seed'[t] = seed[t]
  BY <1>1 DEF SaveRestaurant
<1>4. seed'[s] = [seed[s] EXCEPT !.pc = "fill"]
  BY <1>1 DEF SaveRestaurant
<1>5. /\ seed'[s].pc = "fill" /\ seed'[s].demo = d /\ seed'[s].item = 1
      /\ seed'[s].before = seed[s].before /\ seed'[s] \in SeedRow
  <2>1. seed[s].item = 1
    BY <1>1 DEF Progress
  <2> QED
    BY <1>1, <1>4, <2>1 DEF SeedRow, SeedPC
<1>6. CatalogTypeOK'
  <2>1. seed' \in [SeedRun -> SeedRow] /\ row \in RestaurantId
    BY <1>1, <1>5 DEF SaveRestaurant, RestaurantId
  <2> QED
    BY <2>1 DEF SaveRestaurant, CatalogTypeOK, SeedRow
<1>7. \A t \in SeedRun : /\ Ended(t) => Ended(t)' /\ t # s
                         /\ seed'[t].before = seed[t].before
  BY <1>1, <1>3, <1>5 DEF Ended
<1>8. \A e \in DOMAIN Demo : HasRow(e) => HasRow(e)'
  BY <1>2 DEF HasRow
<1>9. SeedIdempotent'
  <2>1. NoneMissing'
    BY <1>2, <1>3, <1>5 DEF SeedIdempotent, NoneMissing
  <2>2. NoneTwice'
    <3>1. ASSUME NEW q \in restaurants, q[2] = d, q # row
          PROVE  Overlap(q[1], s) /\ Overlap(s, q[1])
      <4>1. q[1] \in SeedRun /\ s \notin seed[q[1]].before
        BY <1>7, <1>1 DEF EarlierRuns, CatalogTypeOK, RestaurantId
      <4>2. q[1] \notin seed[s].before
        BY <3>1, <1>1 DEF EarlierRuns
      <4> QED
        BY <4>1, <4>2 DEF Overlap
    <3>2. \A q \in restaurants : q[1] \in SeedRun
      BY DEF CatalogTypeOK, RestaurantId
    <3> QED
      BY <1>2, <1>7, <3>1, <3>2 DEF SeedIdempotent, NoneTwice, Overlap
  <2>3. NoneHalf'
    <3>1. ASSUME NEW r \in restaurants, seed[r[1]].pc = "fill"
          PROVE  seed'[r[1]] = seed[r[1]]
      <4>1. r[1] \in SeedRun
        BY DEF CatalogTypeOK, RestaurantId
      <4> QED
        BY <1>1, <1>3, <3>1, <4>1
    <3> QED
      BY <1>2, <1>5, <3>1 DEF SeedIdempotent, NoneHalf, DemoOf
  <2> QED
    BY <2>1, <2>2, <2>3 DEF SeedIdempotent
<1>10. Progress'
  <2>1. ASSUME NEW t \in SeedRun, t # s,
               seed[t].pc \in {"find", "create", "fill"}, NEW e \in 1..(seed[t].demo - 1)
        PROVE  HasRow(e)'
    BY <1>2, <2>1 DEF Progress, HasRow
  <2>2. ASSUME NEW e \in 1..(d - 1) PROVE HasRow(e)'
    BY <1>1, <1>2 DEF Progress, HasRow
  <2>3. 1 \in DOMAIN Demo[d].meals
    BY <1>1, DemoShape
  <2> QED
    BY <1>2, <1>3, <1>5, <2>1, <2>2, <2>3 DEF Progress
<1>11. EarlierRuns'
  <2>1. \A t \in SeedRun : \A u \in seed'[t].before : Ended(u)'
    BY <1>1, <1>7 DEF EarlierRuns, SeedRow
  <2>2. ASSUME NEW t \in SeedRun, t # s
        PROVE  s \notin seed[t].before
    BY <1>1, <1>7 DEF EarlierRuns
  <2>3. ASSUME NEW t \in SeedRun, t # s
        PROVE  /\ seed[t].pc = "idle" => \A r \in restaurants' : r[1] # t
               /\ seed[t].pc = "create" =>
                    \A r \in restaurants' : r[2] = seed[t].demo => r[1] \notin seed[t].before
    BY <1>2, <2>2, <2>3 DEF EarlierRuns
  <2> QED
    BY <2>1, <2>3, <1>3, <1>5 DEF EarlierRuns
<1> QED
  BY <1>6, <1>9, <1>10, <1>11

LEMMA SaveMealInv ==
  ASSUME CatalogIInv, NEW s \in SeedRun, SaveMeal(s)
  PROVE  CatalogIInv'
<1> USE DEF CatalogIInv
<1> DEFINE d == seed[s].demo
           i == seed[s].item
           row == <<s, d>>
           meal == [restaurant |-> row, item |-> i]
<1>1. /\ seed[s] \in SeedRow /\ seed \in [SeedRun -> SeedRow] /\ seed[s].pc = "fill"
      /\ d \in DOMAIN Demo /\ i \in Nat \ {0}
  BY RowOf DEF SaveMeal, SeedRow
<1>2. restaurants' = restaurants /\ meals' = meals \cup {meal} /\ abandoned' = abandoned
  BY DEF SaveMeal
<1>3. \A t \in SeedRun : t # s => seed'[t] = seed[t]
  BY <1>1 DEF SaveMeal
<1>4. \/ i = Len(Demo[d].meals) /\ seed'[s] = NextDemo(seed[s])
      \/ i # Len(Demo[d].meals) /\ seed'[s] = [seed[s] EXCEPT !.item = i + 1]
  BY <1>1 DEF SaveMeal
<1>5. /\ row \in restaurants /\ i \in 1..Len(Demo[d].meals) /\ Len(Demo[d].meals) \in Nat
      /\ DOMAIN Demo[d].meals = 1..Len(Demo[d].meals)
      /\ \A j \in 1..(i - 1) : [restaurant |-> row, item |-> j] \in meals
      /\ \A e \in 1..(d - 1) : HasRow(e)
      /\ HasRow(d)
  BY <1>1, DemoShape DEF Progress, HasRow
<1>6. \A j \in 1..i : [restaurant |-> row, item |-> j] \in meals'
  <2>1. ASSUME NEW j \in 1..i PROVE j = i \/ j \in 1..(i - 1)
    BY <1>1
  <2> QED
    BY <1>2, <1>5, <2>1
<1>7. /\ seed'[s] \in SeedRow /\ seed'[s].before = seed[s].before
      /\ seed'[s].pc \in {"find", "fill", "done"}
      /\ seed'[s].pc = "find" => /\ seed'[s].item = 1
                                 /\ \A e \in 1..(seed'[s].demo - 1) : HasRow(e)
      /\ seed'[s].pc = "done" => \A e \in DOMAIN Demo : HasRow(e)
      /\ seed'[s].pc = "fill" => /\ seed'[s].demo = d /\ seed'[s].item = i + 1
                                 /\ i + 1 \in DOMAIN Demo[d].meals
      /\ seed'[s].pc # "fill" => i = Len(Demo[d].meals)
  <2>1. d \in 1..Len(Demo) /\ Len(Demo) \in Nat /\ DOMAIN Demo = 1..Len(Demo)
    BY <1>1, DemoShape
  <2>2. CASE i = Len(Demo[d].meals) /\ seed'[s] = NextDemo(seed[s])
    <3>1. CASE d = Len(Demo)
      <4>1. \A e \in DOMAIN Demo : e = d \/ e \in 1..(d - 1)
        BY <2>1, <3>1
      <4> QED
        BY <2>2, <3>1, <4>1, <1>1, <1>5, NextDemoCases
    <3>2. CASE d # Len(Demo)
      <4>1. \A e \in 1..(d + 1 - 1) : e = d \/ e \in 1..(d - 1)
        BY <2>1
      <4>2. /\ seed'[s] \in SeedRow /\ seed'[s].before = seed[s].before
            /\ seed'[s].pc = "find" /\ seed'[s].item = 1 /\ seed'[s].demo = d + 1
        BY <2>2, <3>2, <1>1, NextDemoCases
      <4>3. ASSUME NEW e \in 1..(seed'[s].demo - 1) PROVE HasRow(e)
        <5>1. seed'[s].demo = d + 1 /\ d \in Nat
          BY <4>2, <2>1
        <5>2. e \in 1..(d + 1 - 1)
          BY <5>1
        <5> QED
          BY <4>1, <5>2, <1>5
      <4> QED
        BY <2>2, <4>2, <4>3
    <3> QED
      BY <3>1, <3>2
  <2>3. CASE i # Len(Demo[d].meals) /\ seed'[s] = [seed[s] EXCEPT !.item = i + 1]
    <3>1. i + 1 \in DOMAIN Demo[d].meals
      BY <2>3, <1>5
    <3> DEFINE n == i + 1
    <3>2. n \in Nat \ {0} /\ seed'[s] = [seed[s] EXCEPT !.item = n]
      BY <1>1, <2>3
    <3> HIDE DEF n
    <3>3. /\ seed'[s] \in SeedRow /\ seed'[s].before = seed[s].before
          /\ seed'[s].pc = "fill" /\ seed'[s].demo = d /\ seed'[s].item = n
      BY <1>1, <3>2 DEF SeedRow
    <3> QED
      BY <3>1, <3>3 DEF n
  <2> QED
    BY <1>4, <2>2, <2>3
<1> HIDE DEF row, meal
<1>8. CatalogTypeOK'
  <2>1. seed' \in [SeedRun -> SeedRow]
    BY <1>1, <1>7 DEF SaveMeal
  <2>2. meal \in MealRow
    <3>1. row \in RestaurantId /\ DemoOf(row) = Demo[d]
      BY <1>5 DEF CatalogTypeOK, DemoOf, row
    <3> QED
      BY <3>1, <1>1, <1>5 DEF MealRow, meal
  <2>3. meals' \subseteq MealRow /\ soldOut \subseteq meals'
    BY <1>2, <2>2 DEF CatalogTypeOK
  <2> QED
    BY <2>1, <2>3 DEF SaveMeal, CatalogTypeOK, SeedRow
<1>9. \A t \in SeedRun : /\ Ended(t) => Ended(t)'
                         /\ seed'[t].before = seed[t].before
  BY <1>1, <1>3, <1>7 DEF Ended
<1>10. SeedIdempotent'
  <2>1. NoneMissing'
    BY <1>2, <1>3, <1>7 DEF SeedIdempotent, NoneMissing, HasRow
  <2>2. NoneTwice'
    BY <1>2, <1>9 DEF SeedIdempotent, NoneTwice, Overlap, CatalogTypeOK, RestaurantId
  <2>3. NoneHalf'
    <3>1. ASSUME NEW r \in restaurants, r # row, seed[r[1]].pc = "fill", seed[r[1]].demo = r[2]
          PROVE  seed'[r[1]] = seed[r[1]]
      <4>1. r[1] \in SeedRun /\ r = <<r[1], r[2]>>
        BY DEF CatalogTypeOK, RestaurantId
      <4>2. r[1] # s
        BY <3>1, <4>1 DEF row
      <4> QED
        BY <1>3, <4>1, <4>2
    <3>2. \/ seed'[s].pc = "fill" /\ seed'[s].demo = d
          \/ \A j \in DOMAIN Demo[d].meals : [restaurant |-> row, item |-> j] \in meals'
      BY <1>5, <1>6, <1>7
    <3>3. row[1] = s /\ row[2] = d
      BY DEF row
    <3>4. ASSUME NEW r \in restaurants, r # row
          PROVE  \/ \A j \in DOMAIN DemoOf(r).meals : [restaurant |-> r, item |-> j] \in meals'
                 \/ seed'[r[1]].pc = "fill" /\ seed'[r[1]].demo = r[2]
                 \/ r \in abandoned
      BY <1>2, <3>1, <3>4 DEF SeedIdempotent, NoneHalf
    <3> QED
      BY <1>2, <3>2, <3>3, <3>4 DEF NoneHalf, DemoOf
  <2> QED
    BY <2>1, <2>2, <2>3 DEF SeedIdempotent
<1>11. Progress'
  <2>1. \A t \in SeedRun : t # s =>
          /\ seed'[t].pc \in {"find", "create", "fill"} => \A e \in 1..(seed'[t].demo - 1) : HasRow(e)
          /\ seed'[t].pc \in {"idle", "find", "create"} => seed'[t].item = 1
          /\ seed'[t].pc = "idle" => seed'[t].demo = 1
          /\ seed'[t].pc = "fill" =>
               /\ <<t, seed'[t].demo>> \in restaurants
               /\ seed'[t].item \in DOMAIN Demo[seed'[t].demo].meals
               /\ \A j \in 1..(seed'[t].item - 1) :
                    [restaurant |-> <<t, seed'[t].demo>>, item |-> j] \in meals'
    BY <1>2, <1>3 DEF Progress
  <2>2. i + 1 - 1 = i
    BY <1>1
  <2>3. /\ seed'[s].pc \in {"find", "create", "fill"} => \A e \in 1..(seed'[s].demo - 1) : HasRow(e)
        /\ seed'[s].pc \in {"idle", "find", "create"} => seed'[s].item = 1
        /\ seed'[s].pc # "idle"
        /\ seed'[s].pc = "fill" =>
             /\ <<s, seed'[s].demo>> \in restaurants
             /\ seed'[s].item \in DOMAIN Demo[seed'[s].demo].meals
             /\ \A j \in 1..(seed'[s].item - 1) :
                  [restaurant |-> <<s, seed'[s].demo>>, item |-> j] \in meals'
    BY <1>5, <1>6, <1>7, <2>2 DEF row
  <2> QED
    BY <1>2, <2>1, <2>3 DEF Progress, HasRow
<1>12. EarlierRuns'
  <2>1. \A t \in SeedRun : \A u \in seed'[t].before : Ended(u)'
    BY <1>1, <1>9 DEF EarlierRuns, SeedRow
  <2> QED
    BY <2>1, <1>2, <1>3, <1>7 DEF EarlierRuns
<1> QED
  BY <1>8, <1>10, <1>11, <1>12

LEMMA KillSeedInv ==
  ASSUME CatalogIInv, NEW s \in SeedRun, KillSeed(s)
  PROVE  CatalogIInv'
<1> USE DEF CatalogIInv
<1> DEFINE row == <<s, seed[s].demo>>
<1>1. /\ seed[s] \in SeedRow /\ seed \in [SeedRun -> SeedRow]
      /\ seed[s].pc \in {"find", "create", "fill"}
  BY RowOf DEF KillSeed
<1>2. restaurants' = restaurants /\ meals' = meals
  BY DEF KillSeed
<1>3. \A t \in SeedRun : t # s => seed'[t] = seed[t]
  BY <1>1 DEF KillSeed
<1>4. /\ seed'[s].pc = "killed" /\ seed'[s].before = seed[s].before /\ seed'[s] \in SeedRow
  BY <1>1 DEF KillSeed, SeedRow, SeedPC
<1>5. /\ abandoned \subseteq abandoned' /\ abandoned' \subseteq restaurants
      /\ seed[s].pc = "fill" => row \in abandoned'
  <2>1. seed[s].pc = "fill" => row \in restaurants
    BY DEF Progress
  <2> QED
    BY <2>1 DEF KillSeed, CatalogTypeOK
<1>6. CatalogTypeOK'
  <2>1. seed' \in [SeedRun -> SeedRow]
    BY <1>1, <1>4 DEF KillSeed
  <2> QED
    BY <2>1, <1>5 DEF KillSeed, CatalogTypeOK, SeedRow
<1>7. \A t \in SeedRun : /\ Ended(t) => Ended(t)'
                         /\ seed'[t].before = seed[t].before
  BY <1>1, <1>3, <1>4 DEF Ended
<1>8. SeedIdempotent'
  <2>1. NoneMissing'
    BY <1>2, <1>3, <1>4 DEF SeedIdempotent, NoneMissing
  <2>2. NoneTwice'
    BY <1>2, <1>7 DEF SeedIdempotent, NoneTwice, Overlap, CatalogTypeOK, RestaurantId
  <2>3. NoneHalf'
    <3>1. ASSUME NEW r \in restaurants, seed[r[1]].pc = "fill", seed[r[1]].demo = r[2]
          PROVE  seed'[r[1]] = seed[r[1]] \/ r \in abandoned'
      <4>1. r[1] \in SeedRun /\ r = <<r[1], r[2]>>
        BY DEF CatalogTypeOK, RestaurantId
      <4> QED
        BY <1>3, <1>5, <3>1, <4>1
    <3> QED
      BY <1>2, <1>5, <3>1 DEF SeedIdempotent, NoneHalf, DemoOf
  <2> QED
    BY <2>1, <2>2, <2>3 DEF SeedIdempotent
<1>9. Progress'
  BY <1>2, <1>3, <1>4 DEF Progress, HasRow
<1>10. EarlierRuns'
  <2>1. \A t \in SeedRun : \A u \in seed'[t].before : Ended(u)'
    BY <1>1, <1>7 DEF EarlierRuns, SeedRow
  <2> QED
    BY <2>1, <1>2, <1>3, <1>4 DEF EarlierRuns
<1> QED
  BY <1>6, <1>8, <1>9, <1>10

\* The operator touches no row, only the flags.
LEMMA SwitchInv ==
  ASSUME CatalogIInv,
         \/ \E r \in restaurants : SwitchRestaurant(r)
         \/ \E m \in meals : SwitchMeal(m)
  PROVE  CatalogIInv'
<1> USE DEF CatalogIInv
<1>1. restaurants' = restaurants /\ meals' = meals /\ seed' = seed /\ abandoned' = abandoned
  BY DEF SwitchRestaurant, SwitchMeal
<1>2. CatalogTypeOK'
  BY EditsAssumption DEF SwitchRestaurant, SwitchMeal, Switched, CatalogTypeOK
<1>3. SeedIdempotent' /\ Progress' /\ EarlierRuns'
  BY <1>1 DEF SeedIdempotent, NoneMissing, NoneTwice, NoneHalf, Overlap, DemoOf,
              Progress, EarlierRuns, HasRow, Ended
<1> QED
  BY <1>2, <1>3

LEMMA CatalogStep ==
  ASSUME CatalogIInv, [CatalogNext]_catalogVars
  PROVE  CatalogIInv'
<1>1. CASE UNCHANGED catalogVars
  BY <1>1 DEF catalogVars, CatalogIInv, CatalogTypeOK, SeedIdempotent, NoneMissing, NoneTwice,
              NoneHalf, Overlap, DemoOf, Progress, EarlierRuns, HasRow, Ended
<1>2. CASE CatalogNext
  BY <1>2, StartSeedInv, FindByNameInv, SaveRestaurantInv, SaveMealInv, KillSeedInv, SwitchInv
     DEF CatalogNext
<1> QED
  BY <1>1, <1>2

--------------------------------------------------------------------------------
(* Theorems                                                                    *)

\* The tables and the runs of the seed (restaurants.seed.ts:176-225) keep their types,
\* and each run has passed over what exists.
THEOREM CatalogIInvHolds == CatalogSpec => []CatalogIInv
BY CatalogInitInv, CatalogStep, PTL DEF CatalogSpec

\* Runs of the seed in any number and order, killed or overlapping, leave no restaurant
\* missing, twice or half but for the reasons SeedIdempotent names.
THEOREM CatalogSeedIdempotent == CatalogSpec => []SeedIdempotent
<1>1. CatalogIInv => SeedIdempotent
  BY DEF CatalogIInv
<1> QED
  BY <1>1, CatalogIInvHolds, PTL
================================================================================
