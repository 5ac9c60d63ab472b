# CampusMealBack in TLA+

TLA+ modules, TLC configurations and TLAPS proofs for the CampusMeal backend: a NestJS API
(`src/src`) over one PostgreSQL database. The specifications are translated from the TypeScript
code, its entities and its migrations. Paths below are relative to the repository, which is in
`src/`.

## 1. The system

The API is a set of HTTP handlers. A handler is an `async` function: it runs without
interruption up to an `await`, the database does one statement or one transaction, and any
other request may run in the meantime. There may be several Node processes, so the only shared
state is the database, at PostgreSQL's default isolation level READ COMMITTED. Nothing runs in
the background: no queue, no scheduled job. Hence the hard behaviours are

- interleaving: a decision taken on a row that has changed by the time it is acted on,
- atomicity: a crash between two statements that are not in one transaction,
- delivery: a response that is lost, and the retry that follows,
- time: expiry, midnight and timeouts between two steps of one request,
- a provider outside: an answer that is late, partial, reordered or missing,
- numbers and orders: rounding, ties, boundaries of dates and intervals.

| Part (directory of `src/src`) | State it keeps | Operations | Hard behaviour | Correct when | Status |
|---|---|---|---|---|---|
| Auth sessions (`auth`) | `refresh_sessions`: account, current token hash, expiry, revoked | register, login, refresh, logout, me | races between refreshes, between refresh and logout, registrations of one address; lost responses; crashes; expiry | a token is exchanged once, the loser harms nobody, an ended session stays ended, registration is atomic | modelled, proved |
| Users (`users`) | `users`: address (unique), hash, role, active | create, findByEmail, findById | unique constraint against the pre-check; deletion and deactivation under running requests | no two accounts share an address | modelled inside auth sessions |
| Passwords (`auth/password.service.ts`) | a cached dummy hash | hash, verify, verifyDummy | cached rejected promise | same answer for unknown address and wrong password | right or wrong only |
| Access guard (`auth/strategies`, `auth/guards`) | none | validate, role check | account changes after the check | no inactive account passes the check | only the check that the account exists |
| Inventory (`inventory`) | `inventory_items`: owner, columns, active | list, expiring, create, update, deactivate | read-modify-write without a lock; write by id alone; midnight | only the owner changes a row, deletion is final, omitted fields are kept, results are in the window | modelled, proved |
| Calendar dates (`inventory/inventory-date.ts`) | none | today in Bogota, difference of days | years 0..99, month ends | the difference is the number of days | days are integers |
| Recommendations (`recommendations`) | `recommendation_runs`, `recommendation_alternatives` | compare | reads at three instants, ties, rounding, two saves without a transaction, deletion in between | an alternative fits its request, a better one ranks first, an answered run is complete | modelled, proved |
| Restaurants (`restaurants`) | `restaurants`, `meals` (written by a seed and an operator) | search, detail, opening status | intervals that cross midnight; two reads of changing tables | the status agrees with the intervals, a search shows what was on offer while it ran and hides nothing else | modelled, proved |
| Routes (`routes`) | an abort timer per request | getWalkingTimes of three adapters | timeout before the headers or the body, partial and reordered answers | one estimate per destination, its own or null; the timer is always disarmed; every request ends | modelled, proved |
| Analytics (`analytics`) | `usage_events`, `analytics_events` | two ingestion endpoints, three reports | repeated, late, lost and reordered events; an owner checked before the insert; queries without a snapshot; small groups | an accepted event is stored once and with its owner, reports count interactions once, settled months are final, small groups are suppressed | modelled, proved |
| Recipe catalog (`recipes`) | `recipe_catalog`, one row (written by its seed) | read | first runs race to insert, runs wait for each other or die | content changes only with the version, is never half written, never ambiguous | modelled, proved |
| Seeds (`database/seeds`) | all tables | scripts run by hand | crash in the middle, two runs at once | a second run repeats nothing, and loses nothing but what a kill left | restaurants and recipes modelled, proved; accounts as initial states; demonstration rows not modelled |
| Schema (`database/migrations`) | constraints | | | | where a constraint decides a race, it is part of the action |
| Health, configuration, common | none | | | | not modelled: input, output and formatting |

How the parts interact: every other part trusts the access guard, which reads `users` once per
request; deleting an account cascades to sessions, items, runs and events; recommendations call
`InventoryService.getExpiring`, read restaurants and meals and call the route provider, as does
the restaurant search; restaurants, meals and recipes are only written by seeds and by hand;
analytics reads runs and events that recommendations and clients wrote.

## 2. The modules

| Module | What it is |
|---|---|
| `TokenChain` | abstract: a session is a chain of tokens, exchanged one for the next, until it ends |
| `AuthSessions` | the handlers of `auth.service.ts` over `users` and `refresh_sessions`; its invariant; the mapping to `TokenChain` |
| `MCAuthSessions` | instances of `AuthSessions` for TLC |
| `AuthSessionsProofs` | theorems about `AuthSessions` |
| `InventoryStore` | abstract: items that are added, patched as their clients asked, hidden, and purged with their account; what a PATCH whose row changed under it may do besides |
| `Inventory` | the handlers of `inventory.service.ts` over `inventory_items`; its invariant; the mapping to `InventoryStore` |
| `MCInventory` | instances of `Inventory` for TLC |
| `InventoryProofs` | theorems about `Inventory` |
| `MealRanking` | the pure part of compare: candidates, the four scores, their order, the explanation |
| `MealDecisions` | the handler of compare over `recommendation_runs` and `recommendation_alternatives`; its invariant |
| `MCMealDecisions` | a catalogue and requests for TLC |
| `MealDecisionsProofs` | theorems about both |
| `AnalyticsReports` | the three reports as functions of the rows their queries return |
| `Analytics` | the handlers of `analytics.service.ts` over `usage_events` and `analytics_events` |
| `MCAnalytics` | interactions for TLC |
| `AnalyticsProofs` | theorems about both, with the inductive invariant |
| `OpeningHours` | the opening status of a schedule at an instant, and the reference: arcs on the circle of a week |
| `RouteMatrix` | what the three route adapters make of a provider's answer |
| `RestaurantCatalog` | `restaurants` and `meals`, the runs of their seed, and an operator |
| `RestaurantSearch` | search and detail over both tables and a route provider; extends the three above |
| `CatalogRegister` | abstract: one register whose content changes only with its version |
| `RecipeCatalog` | the recipe seed, its transaction and `GET recipes`; the mapping to `CatalogRegister` |
| `MCCatalogs` | restaurants, requests, matrices and recipe catalogs for TLC |
| `OpeningHoursProofs`, `RestaurantCatalogProofs`, `RestaurantSearchProofs`, `RecipeCatalogProofs` | theorems about these, with the inductive invariants |

Operators whose comment starts with "Fault:" are not part of a specification. Each is a bug the
code could plausibly have had, in the place of the operator it stands next to; with it, TLC
finds a property violated. They show that the properties depend on that line of the code.

### 2.1 AuthSessions

One action is the code between two database round trips.

| Endpoint | Actions, in order | Code |
|---|---|---|
| register | `RegisterArrives`, `CheckEmail`, (argon2), `InsertUser`, `CommitRegistration` | `auth.service.ts:71-85`, `users.service.ts:64-85` |
| login | `LoginArrives`, `FindUser`, `VerifyPassword`, `InsertSession` | `auth.service.ts:87-100`, `155-170` |
| refresh | `RefreshArrives` (signature, `exp`), `FindSession`, `LoadUser`, `Rotate` | `auth.service.ts:102-134`, `208-267` |
| logout | `LogoutArrives`, `FindSession`, `Revoke` | `auth.service.ts:136-153` |

State: `users` and `sessions` are the tables, `claims[r]` is what the refresh token signed by
request `r` carries, `held` is the set of tokens that reached a client, `pc`, `call`, `found` and
`answer` are the local state of a handler, `now` the clock. The code draws session ids, token
ids and account ids with `randomUUID`; each request draws at most one of each, so the id is the
name of the request. A token hash is the token: equality is all the code asks of it.

`InsertUser` and `CommitRegistration` are two steps of one transaction. Between them the row
holds the entry of the unique index, so the INSERT of another registration of the same address
waits (`InsertingEmail`), as it does in PostgreSQL; the row is visible from the commit on.
`Rotate` and `Revoke` are single conditional UPDATEs, whose WHERE clause is evaluated on the
current row.

Around the handlers: `Deliver` (a response with tokens arrives, or never does), `Crash` (the
process dies under a request, its transaction is rolled back), `Deactivate`, `Activate` and
`DeleteUser` (an operator with SQL; the API never changes `users.active`), and `Tick`. The
stored expiry is read from the clock after the token was signed, possibly some ticks later
(`RefreshExpiry`). The API's clock and the database's are one clock.

### 2.2 Inventory

| Endpoint | Actions, in order | Code |
|---|---|---|
| GET inventory | `ListArrives`, `Query`, `Respond` | `inventory.service.ts:31-34` |
| GET inventory/expiring | `ExpiringArrives` (reads today), `Query`, `Respond` | `inventory.service.ts:36-51` |
| POST | `CreateArrives`, `Insert`, `Respond` | `inventory.service.ts:53-64` |
| PATCH | `UpdateArrives`, `FindOwnedActive`, `LoadStored`, `WriteChanges`, `Respond` | `inventory.service.ts:66-103` |
| DELETE | `DeactivateArrives`, `Deactivate` | `inventory.service.ts:105-113` |

The lines of `inventory.service.ts:100` and `inventory.repository.ts:73` are one call of
TypeORM's `save`, which does two statements: it selects the row by primary key, compares the
whole entity with it, and updates the columns that differ, by id alone. They are `LoadStored`
and `WriteChanges`, modelled from the use and marked external in the map of `PROJECT.json`.
`copy[r]` is the entity in memory, `stored[r]` the row `save` compared it with, `result[r]` and
`day[r]` what the response is made of.

A row's columns are a function `Column -> Value`; a PATCH body is a function on some of the
columns, in which `Null` stands for a JSON null, that the validation lets through and the NOT
NULL constraints of the table refuse. `DeleteAccount` and `Midnight` interfere. A crash needs no
action: it loses nothing here that stopping for ever does not lose, as each write is one
statement.

`raced` is history: the PATCHes whose row another request changed between their two SELECTs,
`FindOwnedActive` and `LoadStored` (`Overtake`, a conjunct of the steps that change rows). The
code does not know of it and does not prevent it; it exists to say exactly when a PATCH does
more than its body asks. See section 4.

### 2.3 MealRanking and MealDecisions

`POST meal-decisions/compare` is one request in seven steps.

| Step | Action | Code |
|---|---|---|
| the guard finds the account | `Arrive` | `recommendations.controller.ts:14-31` |
| items expiring in three days | `ReadExpiring` | `recommendations.service.ts:149-155` |
| restaurants, then meals | `ReadRestaurants`, `ReadMeals` | `recommendations.service.ts:183-189` |
| walking times, candidates | `RankCandidates` | `recommendations.service.ts:113-333` |
| the run | `SaveRun` | `recommendations.repository.ts:19-38` |
| its alternatives, in a transaction of their own | `SaveAlternatives` | `recommendations.repository.ts:40-58` |

`MealRanking` holds what needs no database. Numbers are integers: ratings are hundredths of a
star, and `Math.round(100 * (1 - x / y))` is an integer quotient that rounds a half up. The
code computes it in doubles, where an exact half may come out just below; `TiesDown` is the set
of quotients for which it does, so the theorems hold whichever they are. The run takes
those among its own requests. A catalogue query without ORDER BY may return rows in any
order, so among equal restaurants `CandidateSets` offers each.

The pantry and the catalogue are what compare reads of them: a number of items, two sets of
rows. They change at any step (`ChangePantry`, `ChangeCatalog`). `DeleteAccount` cascades to
runs and alternatives, `Crash` ends every running call. The route provider answers a time or
nothing for each restaurant, the outcomes `RouteMatrix` computes from an answer (section 2.5).

### 2.4 AnalyticsReports and Analytics

| Endpoint | Actions, in order | Code |
|---|---|---|
| POST usage-events | `UsageArrives`, `InsertUsage` | `analytics.service.ts:191-232` |
| POST events | `EventArrives`, `CheckOwner`, `InsertEvent` | `analytics.service.ts:99-126` |
| GET feature-adoption | `AskAdoption`, `CountEvents` | `analytics.service.ts:241-313` |
| GET explanation-selection | `AskSelection` | `analytics.service.ts:134-184` |
| GET zone-demand | `AskDemand`, `ReadSelections` | `analytics.service.ts:315-750` |

`accepted` is the set of interactions answered 202; clients may send any interaction again, at
any time and in any order. Each insert is one statement, with its unique index, its foreign
keys and `ON CONFLICT DO NOTHING`: usage events are unique by account and id, the others by id
alone. Rows have generated ids in the table; here two equal rows would differ in `copy`, and
it is a theorem that no second copy is ever stored.

An instant is a number of hours of the application's time zone, days and months are intervals
of it of equal lengths. The reports are functions of the rows: sets instead of the code's
maps of buckets, so that an hour, a price range or a zone appears when a row has it. A run keeps
the columns the reports join: owner, zone, explanation, and the category and cost of its
alternatives.

### 2.5 OpeningHours, RouteMatrix, RestaurantCatalog and RestaurantSearch

| Request | Actions, in order | Code |
|---|---|---|
| POST restaurants/search | `SearchArrives`, `ReadRestaurants`, `ReadMeals` (candidates, and the call of the adapter) | `restaurants.service.ts:40-94` |
| the adapter of an external provider | `HeadersArrive`, `BodyArrives`, or `ProviderFails`, or `TimerFires` | `valhalla-route.adapter.ts:37-73`, `external-route.adapter.ts:32-70` |
| the response | `Respond`, part of whichever step settles the adapter | `restaurants.service.ts:96-127` |
| GET restaurants/:id | `DetailArrives`, `ReadDetail`, `ReadDetailMeals` | `restaurants.service.ts:130-170` |
| npm run seed:restaurants | `StartSeed`, then for each demo restaurant `FindByName`, `SaveRestaurant`, and `SaveMeal` for each meal | `restaurants.seed.ts:176-225` |

`routeMode` is `ROUTE_PROVIDER_MODE`: the deterministic adapter answers in the step that asks
it, the other two arm a timer (`timer`) and wait, in `fetch` for the headers and in `body` for
`response.json()`. The abort reaches either wait. All ways out pass through `Settle`, the
`finally` block. `Matrix` is what a provider may send; `Honest` is the environment's part, a
time is that of the target it is sent for. It may leave targets out, reorder them, name one
twice or add some; without honesty no property of the answer would hold.

An instant is a number of minutes, a time of day `<<hour, minute>>`, or `<<>>` for a text that
is not of the form HH:mm. `localClock` is the arithmetic behind `Intl.DateTimeFormat` for a
zone that has been at UTC-5 throughout. A walk takes `seconds`, a constant of the demo
restaurant, so the formula of distances on the globe is left out. Names are ranks, ratings
hundredths of a star; `dietaryPreferences` and `foodCategory` are one set of labels, because the
code treats a category as one more thing a meal must have. The last tie-break of the sort is a
random id, so tied results share a `place`.

A run of the seed makes at most one row per demo restaurant: `<<run, demo>>` stands for the
generated id. Each statement is its own transaction. `KillSeed` ends a run anywhere,
`SwitchRestaurant` and `SwitchMeal` are an operator with SQL, and `abandoned` and `before` are
history: the rows a killed run was filling, and the runs that had ended before one began.
`during[c]` is history too: which restaurants were active and which meals that fit what `c` asks
for were available at some time; and which restaurants were active with such a meal, and which
such meals were available, all the time. It exists to state what a search that reads two tables
at two instants can promise: it may combine the two, so a restaurant and a meal of an answer need
not have been on offer together.

### 2.6 RecipeCatalog and CatalogRegister

`npm run seed:recipes` is `Start` (`catalogProblems`, before it connects), then one transaction:
`SelectForUpdate`, `InsertRow` or `UpdateRow`, `Commit` (`recipes.seed.ts:142-191`). `GetCatalog`
is `recipes.service.ts:28-44`. `lock` is the run that holds the lock of the row or the
uncommitted entry of its primary key: FOR UPDATE waits for the first, finds nothing to lock
when the row is not there yet, and then only the primary key keeps two inserts apart.
`Authored` are the catalogs different builds carry. Of a recipe the model keeps its id, the
matching keys of its ingredients, which are optional, and whether all other fields are within
their limits; `Normal` is `normalizeIngredientName` as a function of the names that occur. The
names of its state and specification (`recipePc`, `RecipeSpec`, ...) differ from those of the
search, because `MCCatalogs` extends both.

`CatalogRegister` is what `docs/SPRINT3_BQ3.md` promises the clients, who cache by version.

## 3. What the runs check

| Run | Bounds | States | Checks |
|---|---|---|---|
| `AuthRotation` | 4 requests (symmetric), 1 account, no ticks | 57 653 | `SingleUse`, `SpentNeverCurrent`, `UnspentIsCurrent`, `OnlyLogoutRevokes`, `ImplementsTokenChain` |
| `AuthExpiry` | 3 requests, TTL 2, clock to 4 | 230 574 | `SessionOutlivesToken`, `EndedSessionIsFinal` |
| `AuthRegistration` | 3 requests, 4 endpoints, 2 addresses, 1 seeded | 88 887 | `TypeOK`, `RegisteredHasSession`, `UniqueEmail`, `RejectedLeavesNoTrace` |
| `AuthLiveness` | 2 requests, fairness, no symmetry | 7 726 | `EveryRequestAnswered`, `DeactivationLocksOut` |
| `InventoryOverlap` | 3 requests, update and deactivate, 2 accounts, any overlap | 587 921 | `TypeOK`, `OwnerOnly`, `QuietDeletionIsFinal`, `OnlyRacedPatchReactivates` |
| `InventoryEndpoints` | 2 requests, all endpoints, 2 accounts, 2 columns, 2 days, any overlap | 566 045 | `ExpiringInWindow`, `FreshPatchKeepsOmitted`, `ImplementsInventoryStore` |
| `InventoryLostUpdate` | 2 requests, any overlap | | `OmittedFieldsKept` is violated |
| `InventoryResurrection` | 2 requests, any overlap | | `NoReactivation` is violated |
| `MealDecisions` | 1 call, 6 requests, 3 catalogues, 3 pantries, 3 walking times | 26 343 | `TypeOK`, `AlternativesFit`, `AnsweredRunIsComplete`, `NothingOutlivesItsAccount`, `BetterRanksFirst`, `ExpirationNeverExplains` |
| `MealExplanation` | the same | | `MainExplanationHolds` is violated |
| `Analytics` | 1 sender, 1 reader, 8 interactions, 2 accounts, 3 months of 2 hours, clock to 4 | 253 808 | `TypeOK`, `AcceptedIsStored`, `UsesAreInteractions`, `EventsOfTheOwner`, `LowUseIsExact`, `RateAtMostOne`, `DemandAddsUp`, `SettledMonthIsFinal` |
| `Catalogs` | 1 request, 2 restaurants with 3 meals, 2 runs of their seed, 1 switch, 3 adapters, 8 matrices; 3 runs of the recipe seed, 4 catalogs | 189 717 | `TypeOK`, `EstimatesBelong`, `AnswerBetween`, `SeedIdempotent`, `RequestAnswered`, `PublishesAtomically` |

The inductive invariants of the proofs (`IInv`, `CatalogIInv`, `RecipeIInv`) are in the modules;
they were checked with TLC on these instances before they were proved and are not part of the runs, which
check what they are there for.

Why the bounds are enough. Four requests are a login and three refreshes or logouts: the
shortest history in which a token is exchanged, the winner's token is exchanged again, and a
late loser still acts on the first; each handler has at most one session row in its hands, so
one account and four requests also give two sessions side by side. Expiry needs a token, a
refresh under way while the token expires, and a third request to use what it left: three
requests, a lifetime of two ticks so that a token may be issued, used and expired at different
instants, and a clock that reaches the end of a session extended once. Two addresses and
three requests are the least in which two registrations race for one address while the other
address is taken. For the inventory, a lost update takes two overlapping PATCHes of different
columns, a revival a PATCH and a DELETE; the third request of `InventoryOverlap` arrives after
either. Two days put midnight between any two steps of a request.

Two comparisons share no row: each writes a run and alternatives of its own, and what it reads
changes through the environment. One call is therefore enough, with an account that goes at
any of its steps. The restaurants are chosen so that scores tie, round in both directions and
miss the budget by the delivery fee or by one peso; `MaxInt4` is 1000, and one request asks
for 1001. In `Analytics` an insert is a single statement, so two senders
interleave no more than one sender and repeated requests do; what matters is what happens
between `CheckOwner` and `InsertEvent`, and that is the deletion of an account. The
interactions include two ids that meet in two accounts, two searches of one account, a session
with a feature, a session without anything, an impression that names an alternative, and a
selection of somebody else's recommendation. `MinUsers` is 2 instead of 5, so that cells of one
account are suppressed and cells of two are not. An event may be 2 hours old and a month lasts
2: at clock 4 the first month is settled.

In `Catalogs`, restaurants and recipes share nothing, so `focus` lets one of them move per
behaviour and TLC explores the sum of the two state spaces. Requests share no state with each
other either, only the tables; one is enough. Two runs of the restaurant seed are the least
that overlap, and the least of which the second finds what the first left, complete or killed.
Everything is tried from empty tables with the Valhalla adapter, which is the one deployed; the
other adapters differ only after the reads and start from seeded tables. The tables stop
changing once the request has read both (`StillReading`): later changes only widen what
`AnswerBetween` allows. One of the searches falls on a Saturday at 01:45, in a period that
opened on Friday, half an hour before closing time or less; the other allows one minute less
than the way to the farther restaurant takes. The matrices have no row, an empty row, rows by
position, rows that name their targets in another order, a single target, a null time, and one
target twice. Three runs of the recipe seed with one of four catalogs each are two that race
for the first row and one that comes later, with the same version and other content, with a
newer version, or with an ambiguous recipe.

Every run disables the deadlock check, because a state in which all requests are answered and
clients call no more is a legal end.

Fairness. `FairSpec` adds weak fairness of `Serve(r)`, the steps of the handlers, and nothing
else: the event loop runs every continuation whose promise is settled, and PostgreSQL grants a
lock whose holder commits, aborts or dies. Clients, operators, the network and the clock are
under no obligation. `EveryRequestAnswered` is not immediate: an INSERT waiting for another
registration of its address is disabled until that one commits or crashes, and its fairness is
weak. `DeactivationLocksOut` says what "an inactive account cannot get tokens" means when the
check and the write are separate steps: once the account is out of use for good, a request
that has not yet arrived gets none; one that had already read the account may.

For `RequestAnswered` the database answers (`SearchStep`) and the event loop runs a timer that
is armed (`TimerFires`). Nothing makes the provider answer, so every search with an external
provider ends because the timer covers both waits.

## 4. What the runs found

The first two findings are the read-modify-write of PATCH, `inventory.service.ts:82-100`.

`InventoryLostUpdate`. Two PATCHes of one item, one of the quantity and one of the date, both
read it. The first commits. `save` of the second selects the row afterwards, finds that the
quantity in its entity differs, and writes the old quantity back. The comment of the handler
(`inventory.service.ts:67`) and `docs/API_CONTRACT.md:455` say that omitted fields keep their
value. The step `WriteChanges` breaks that for a column the body does not name.

`InventoryResurrection`. A PATCH reads an active item, a DELETE deactivates it and is answered,
then `save` selects the inactive row, finds `active` different and writes `true`. The item is
back. `docs/BACKEND_IMPLEMENTATION.md:126-127` says an inactive item can no longer be updated
and that there is no reactivation.

How far both go is proved, for any overlap (section 5). A PATCH writes a column its body does not
name only if another request changed the row between the two SELECTs of that PATCH
(`FreshPatchKeepsOmitted`); what others write after the second SELECT is safe, because the UPDATE
names only the columns that differ. A deleted item comes back only through such a PATCH
(`OnlyRacedPatchReactivates`). `ImplementsInventoryStore` says the same of whole behaviours: the
abstract store has these two exceptions and no others. Rows never change hands or for somebody
else, and an item deleted while no PATCH holds a copy of it stays deleted.

`MealExplanation`. The explanation of a run is the winner's strategy with the highest score
(`recommendations.service.ts:358-368`), and a score compares an alternative with the request
alone. The text made from it (`recommendations.service.ts:493-505`) compares alternatives: the
winner "is recommended because it is the cheapest option that fits your available time"
although another alternative of the same answer may cost less. TLC shows such an answer.

A run that is expected to pass says something the code does not: `ExpirationNeverExplains`.
`EXPIRATION_PRIORITY` can only be the highest score of COOK, whose cost of 0 already gives
`BUDGET_PRIORITY` 100, and the first strategy wins a tie. So compare never stores a run with that
explanation, and the report of selection rates has no line for it.

Two limits of the seeds were met on the way. They are no violations of what a run checks,
because the properties say precisely how far the promise goes. "Idempotent"
(`restaurants.seed.ts:11`) holds for runs that end and do not overlap: a run killed while it
fills a restaurant leaves one that later runs find by name and skip, and two runs at once both
create it, as the name is not unique. And the recipe seed compares its version with the stored
row only: an older build puts an older version back, and content other than the one that was
published under it earlier would not be noticed.

## 5. What is proved

All theorems hold for any sets of requests, accounts, addresses, items, columns and values and
any bounds of the clock, under the named assumptions on the constants: `None` is no id, names
of seeded and new rows differ, seeded addresses are distinct, columns include the date, bodies
assign values or null to columns; requests, restaurants and meals have the types the DTOs and
the schema give them; an id names one run and, for an account, one interaction; bodies and
runs are finitely many, and a run has finitely many alternatives; days and months have at least
one hour and one day; demo restaurants,
searches and matrices have the types their interfaces and DTOs give them; `NoRun` is no run of
the recipe seed.

The provers cannot reason about ENABLED, hence not about WF_. Where a theorem is about what must
happen, its hypothesis `Served` is the fairness of the run's specification with the guard of the
action written out: `[]<>(~Able(r)) \/ []<><<Serve(r)>>_vars`. That the guard is ENABLED is what
TLC found on every reachable state of `AuthLiveness` and `Catalogs`; apart from
`FinitelyMany` (see AuthSessionsProofs) nothing else separates these theorems from the
properties of the runs.

### AuthSessionsProofs

`TypeCorrect` and `Invariance` come first. None of the properties is inductive: that a token is
exchanged once follows from what the row says at the moment of the UPDATE, and that needs to
know which token a row may hold at all. `IInv` says so, in five parts and five properties:

- `HandlerInv`: where a request stands fits what it asks, and the token it presents was handed
  out before;
- `ClaimsInv`: the claims of a token name the session and account it was signed for, from the
  signature on;
- `RowInv`: a row belongs to an opened session and holds a token handed out for it;
- `EmailInv`: while a registration holds its index entry the address is free;
- `AccountInv`: an account is there only if its registration was answered with tokens, and it owns
  the session that request opened;
- `SingleUse`, `SpentNeverCurrent`, `UnspentIsCurrent`, `UniqueEmail`, `SessionOutlivesToken`.

The step that matters is `Rotate`: it exchanges the token in the row (`StillCurrent`), by
`SpentNeverCurrent` nobody exchanged that one before, and it puts a token in its place that
nobody has presented yet. From the invariant follow `TokenIsSingleUse`, `SpentIsGone`,
`WinnerKeepsSession`, `EmailsAreUnique`, `RegistrationIsAtomic`, `TokenExpiresFirst` and the
action properties `LogoutRevokes`, `EndIsFinal`, `RejectionIsHarmless`.

`Refinement` proves that the tables implement `TokenChain`. The mapping reads a session's phase
off its row and its own request, the head off the row, the granted tokens off the answers and
the spent ones off the refreshes that were answered. A committed registration or login is
`Open`, a successful `Rotate` is `Exchange`, `Revoke` and `DeleteUser` are `End`; everything else
is a stutter.

`LockedOut` is about a whole behaviour, not a step: when the account of a seeded user is out of
use from now on and a request has not arrived, that request will never have tokens for it. The
lemma `OwnSteps` says that no step of others touches what a handler remembers, and `KeptFrom`
says what a handler that arrived since can remember: not that the account was found active, and
no token signed for it. It holds for the accounts the operator works on, which are the seeded ones.

The section on progress starts with `LifetimeIsBounded`: no token is valid for longer than its
lifetime from now on, so `RefreshExpiry` always has a value and `Rotate` and `InsertSession` are
never stuck for want of one. `Forward` says that `Serve(r)` takes a handler one round trip
further (`StepsLeft` falls) and that nothing else takes it back. Only an INSERT can wait
(`Waiting`), so

- `NobodyBlocksASession`: a login, refresh or logout is answered whatever other requests do;
- `AddressIsReleased`: a registration that holds an address lets go of it for good;
- `EverybodyIsAnswered`: every request is answered (`EveryRequestAnswered`), if in addition from
  some moment on nobody holds an address, when each request has let go for good
  (`FinitelyMany`). For finitely many requests that is valid, by an induction on their number
  that the provers cannot do; for infinitely many it is false, and so is the theorem: there
  could always be another registration that is just faster.

### InventoryProofs

`IInv` consists of `HandlerInv`; `RowInv` (a new item exists only once its request inserted it);
`CopyInv` (a PATCH that holds a copy read an active row of its user, and the row is still his or
gone for good); `WindowInv` (what getExpiring holds is in the window); `RacedInv` (only a PATCH
past its lookup can have been overtaken); and `FreshInv`: the copy of a PATCH that was not
overtaken is its body over an active row, the row of the table until the second SELECT and the
row `save` has read from then on. `CopyInv` is why a write by id alone is safe: an id is never used twice and
a row never changes hands. The lemma `ItemSteps` says the four ways in which a row can change; the
action properties are read off it.

No theorem assumes anything about overlap: `TypeCorrect`, `Invariance`, `WindowHolds`,
`OnlyOwnerChanges`, `QuietDeletionHolds`, `NoLostUpdate`, `OnlyRacedReactivates` and
`EndpointsImplementStore`, the refinement of `InventoryStore`: a lookup opens a PATCH
(`LookupsFollow`), the INSERT is `Add`, the UPDATE of a PATCH is `Patch`, or `Overwrite` when it was
overtaken, that of a DELETE is `Deactivate`, the cascade is `Purge`.

### MealDecisionsProofs

The first half is about `MealRanking`, for any minutes and budgets: a score is in 0..100
(`FitScoreBounds`, `ScoreBounds`), falls with the minutes and the cost (`FitScoreMonotone`,
which needs that no double dips below an equal score: `HalfDrops`), `Ahead` is a strict total
order on candidates of different types (`AheadTotal`, `AheadTransitive`), so a winner exists and
ranks are 1 to 3, and an alternative at least as good in every respect and faster or cheaper is
ahead (`DominatesAhead`): with equal scores, minutes and cost decide.

The second half is the run. `IInv` ties the tables to the calls: a run repeats what its call
asked and decided, alternatives are those of an answered call whose run is there, a call past
its saves is stored while its account exists, and candidates fit the request. Completeness
needs it because a cascade between the two saves must be seen by the second one. From it follow
`Traced`, `Typed`, `Fitting`, `NothingLeft`, `Complete`, `BetterFirst` and `NeverExpiration`.
`Typed` contains that every stored number fits its int4 column: the DTO has no upper bound, the
INSERT of the run refuses what is too large, and alternatives fit a run that was stored.

### AnalyticsProofs

`IInv` says that each stored row was made from a body the DTOs accept (`RowsAreBodies`), that a
request about to insert an event has seen that the run is its sender's (`SenderInv`), that a
stored use was answered for (`UsageWasAccepted`), and `AcceptedIsStored` and `EventsOfTheOwner`, which need each other: the cascade of a deleted
account spares the events of others only because an event belongs to the owner of its run. A
conflict means the same body, because the key of a row determines the body it was made from
(`UsageKey`, `EventKey`); hence a retry may be answered 202 without a second look.

The theorems are `Invariance`, `TypeCorrect`, `AcceptedStaysStored`, `OwnersEvents`;
`UsesCounted` (an injection from the counted rows to the interactions), `LowUsersExact` (the rows
of an account and the interactions it was answered for correspond one to one, `UsesAreSent`; so
an account without a row of a feature is a low user of it, and nobody else is) and
`RatesAtMostOne` about the reports of any reachable tables; and `SettledIsFinal`, for any
lengths of days and months: a recent event is younger than the end of a settled month
(`AfterMonth`), and none that was recent once is still on its way.

`PublishedAddsUp` is about the numbers the code prints, for any tables and limits. Its sums are
cardinalities of sets of units, so no induction is needed: the interactions behind a breakdown
are partitioned by its key (`Partition`), the unit `<<x, i>>` is the i-th interaction of cell
`x`, and a bijection per cell makes one for the whole breakdown (`NumbersAddUp`). The four
breakdowns are instances with different keys and parts: selections have a category, searches a
band of budget, details and selections a price (`ZonesAddUp`). The invariant it needs,
`ReaderInv`, is about the two queries of the report: what the first one read is finite and stays
with the handler, and no other report is taken for this one.

### OpeningHoursProofs

`ActiveMinutesExact` compares the two branches of the code with an arc on the circle of a week:
for every period whose times are valid, and every minute of the week, the code finds a number of
minutes exactly when the arc covers that minute, and the number is what is left of the arc. The
periods after midnight, from Saturday to Sunday as well, are the cases of the proof. A period with
equal times covers nothing. `ClosedExactly` lifts it to schedules and instants, and
`ClosingSoonExactly` says which of the open ones close soon: those with a period around the
instant that has `CLOSING_SOON_MINUTES` or less left, however many other periods overlap it.

### RestaurantCatalogProofs and RestaurantSearchProofs

`SeedIdempotent` is not inductive: that none is missing when a run ends needs to know what the
run has passed over (`Progress`), and that none is double unless runs overlap needs that a run
about to create a restaurant has no earlier run's row of that name before it (`EarlierRuns`).
`CatalogIInv` adds both; `CatalogSeedIdempotent` follows, for any number of runs and any
catalog, and `SeedIdempotentBesideSearches` carries it to the composition, where
`CatalogChanges` takes the same steps.

`ValhallaTruthful` says that an honest matrix gives each destination its own rounded time or
none. The invariant `IInv` of the search is about a request between its reads: what the history
covers (`HistoryCovers`), that restaurants found were active and include those that are active
throughout, and that the candidates in the hands of the adapter were on offer at the price they
carry, are open, and leave out none that was on offer all the time (`Covering`). With `ClosedExactly` this gives
`AnswersBetweenReads`, and with `ValhallaTruthful` and its counterparts `EstimatesAreOwn`, for
any number of requests, restaurants, answers and instants of the abort. `TypeCorrect` contains
that a timer is armed exactly while an adapter waits.

`ComparisonIsAnOrder` says of `compareRestaurantResults`, a chain of six comparisons of which the
second is skipped for rows without a route, what a comparison must satisfy for a sort to have a meaning: it is a strict order,
and rows that tie in all keys but the random id stand alike to every other row.
`ResultsAreInOrder` lifts it to the answers: a row's place is before another's exactly if the
comparison prefers it (`PlacesFollowOrder`: rows before the better one are properly included in
those before the other).

`EveryRequestEnds` is `RequestAnswered` for any provider. It rests on that part of `TypeCorrect`,
and on `CandidatesCanBeListed`: any finite set of candidates has an order by name (`ByNameExists`: in a
smallest set without one, the first by name could be put before an order of the others), so
`ReadMeals` can always be taken. While a request reads, its reads are fair; when it waits, the
timer is; `ReadingMoves` and `AskingEnds` are the two halves.

### RecipeCatalogProofs

`RecipeIInv`: a run that decided to write holds the row, and what it decided on (no row, or another
version) is still so (`WritersHoldTheRow`); only catalogs without problems get that far.
`RecipeCatalogImplementsRegister` maps `Commit` to `Publish`, `GetCatalog` to `Read` and
everything else to a stutter. That a published recipe is unambiguous needs two of the things
`catalogProblems` asks, one ingredient that is not optional and no key that occurs twice: the name a client looks up is
normalized once and compared with the keys, so it equals one of them at most. That keys are
normalized themselves makes them reachable, not unambiguous.

`HolderNeverWaits` is the absence of deadlock: runs wait for the one that holds the row or its
uncommitted key, and that one has only its statement and its COMMIT before it. So waiting never
forms a cycle.

### Only model-checked

- The liveness properties under the specifications' own fairness. `EveryRequestAnswered` and
  `RequestAnswered` are proved under `Served`; that `FairSpec` implies `Served` is a statement
  about ENABLED, and that `FinitelyMany` holds for finitely many requests is an induction.
- The three violations: they are counterexamples.

Nothing else: every invariant and action property of the passing runs is stated by a theorem.
Induction over data would be needed for recursive functions; the modules with proofs therefore
use no recursion.

## 6. What is not modelled

In the parts that are modelled: hashing, the password policy and the equal timing of failed
logins; HTTP, validation and error formats, except that an empty PATCH is refused and null is
let through; access tokens and roles; the order of lists; the form of dates; rate limits, of
which there are none. The two clocks of refresh (`Date.now()` and the database's `now()`) are
one, so nothing here says what a difference between them would do. Several columns that behave alike are one or two.

In recommendations: texts, metadata and the list of supporting reasons; a restaurant's opening
hours are the set of instants at which it is open. In analytics: the flag and the count that
mark demonstration data, the platform, the food category (no report reads it), the order of
lines, and the number of suppressed cells. Two accounts that generate the same UUID for an
impression or a selection are excluded (`IdAssumption`): the second would be answered 202 and
dropped. Nothing checks that a selected alternative was offered by the run; the zone report
joins such a selection away, the selection rate counts it.

In restaurants and routes: display texts, the tags of a result, `lastUpdatedAt`, the two columns
of delivery (they are in `MealRanking`), coordinates and the distance between them, and the
fraction of a minute an instant may have. In recipes: the limits of each field, which count as
one flag, and the mapping of the row to the response.

Not at all: the calendar behind the days of `Inventory` (`inventory-date.ts` is a conversion
around JavaScript's `Date`, and its boundary years are listed as a hazard), tokens and roles in
the access guard (it keeps no state; what can change under a request, the account, is modelled
where it matters), the dummy hash of the password service, and the inventory, usage and bq9
seeds, which write demonstration rows for fixed accounts by hand and promise nothing to anyone
else. Health, configuration and common code hold no state that a request changes.
`PROJECT.json` lists, under "hazards", what can go wrong in these parts, with its line and the
reason why no property covers it.

## 7. Plan

1. Auth sessions: done.
2. Inventory: done.
3. Recommendations: done.
4. Analytics: done.
5. Opening hours, restaurant search, seed of restaurants: done.
6. Route adapters with their timer: done; `MealDecisions` still takes the outcome of an adapter
   as a choice, and could be composed with `RouteMatrix`.
7. Recipe catalog and its seed: done.
8. Left: the access guard with roles for the endpoints of analysts, the calendar days behind
   `Inventory`, the demonstration seeds.

Composition: `MealDecisions` sees the window of `Inventory` as a number and the catalogue as two
sets of rows, `Analytics` sees the runs of `MealDecisions` as the columns its queries join,
`RestaurantSearch` is `RestaurantCatalog` with requests around it.
