# Verification of Grocery Router

TLA+ models of Grocery Router, a Go server with a PostgreSQL database in which a household plans
the recipes of a week and keeps the grocery list the server derives from them. The modules are
translated from the Go, SQL and migration sources; `PROJECT.json` maps each definition to the
lines it stands for and lists the runs, mutants, findings, hazards and theorems.

Run TLC with `tlc -workers 2 -config week_rows.cfg MCWeekTx.tla` (`PROJECT.json` names the module
of each `.cfg`), and the proofs with `tlapm` on each of `WeekRowsProofs`, `WeekHistoryProofs`,
`WeekPlanProofs`, `ListReadsProofs`, `AggregateProofs`, `SessionsProofs`, `SignInProofs` and
`BootstrapProofs`.

## 1. The system

One process (`cmd/grocery-router`) migrates the database, imports the approved recipe corpus and
then serves HTTP. There is one replica and a connection pool of ten, so requests of the two owners
run concurrently. All durable state is in PostgreSQL; isolation is READ COMMITTED
(`BeginTx(ctx, nil)`, `internal/week/service.go:295-305`).

| Component | State | Operations | Interacts by | Hard behaviour |
|---|---|---|---|---|
| Week service, planning (`internal/week`) | `weeks`, `week_recipes` | Generate, Add, Remove, Swap, RandomSwap; each ends with `recompute` | one transaction per request | interleaved statements, row locks, triggers, deadlock, midnight |
| Week service, checklist | `shopping_lists`, `shopping_lines`, `shopping_line_contributions` | AddManualLine, SetLineRemoved, SetLineCompleted, SetLineOverride | one transaction | edits race the rebuild of the list; line ids go stale |
| Aggregation (`internal/grocery`) | none | Aggregate | called by `recompute` | exact rationals in int64, unspecified quantities never merge |
| HTTP API (`internal/httpapi`) | none | pages of a week, a list, a line, a past week; the list after an edit | several queries outside a transaction | every query sees another moment; two or three clock readings in one request |
| Recipe documents and audit (`internal/ingest/document.go`, `internal/trueup`) | none | Validate, ReadDirectory, MatchApprovedCorpus | called before the import | what the audit of one document at a time cannot find |
| Import and bootstrap (`internal/ingest/import.go`, `main.go`) | the corpus tables | migrate, Import, serve; the `ingest` command | one transaction per import, one per migration | crash and restart, the next release's image, an operator's import beside the pod |
| Recipe lifecycle (triggers of `00001_corpus.sql`) | `recipes` and children | draft, review, verify, archive | the import; read by the week service | guards that see other transactions' old rows |
| Sessions (`internal/auth`) | `auth_sessions` | CreateSession, Authenticate, Revoke | every request authenticates first | SELECT and UPDATE without a transaction |
| Sign-in (`internal/auth`) | `app_users`, `user_identities`, `household_memberships`, cookies | googleStart, googleCallback, ResolveIdentity, RequireSession, AuthorizeHousehold, logout | Google, cookies shared by tabs | first sign-ins at once, addresses moving between accounts, another allow list after a restart |
| Household | `household_memberships` | claim; trigger on removal of an owner | operator's SQL | write skew |
| Rate limiter | counters per address | Allow | mutex | window edges |
| Web client (`web/src`) | query cache | mutations and refetches | HTTP | stale line ids |

What makes each correct: the list always equals the ingredients of the pool, every contribution
has its line and its occurrence, edits survive a recompute, past weeks are final, every request
ends (week service); one line per key with the exact sum (aggregation); a page never puts a name
to the wrong line, a past week's page is one state, an edit's answer shows the edit (API); what
the audit accepts can be imported (documents); the corpus is complete, once, and the pod serves it
(import); limits and revocations hold and use keeps a session alive (sessions); one account per
address and Google account, and access that was taken away stays away (sign-in).

## 2. Modules

| Module | Models |
|---|---|
| `Corpus` | what the week service reads of recipes: shoppable ingredients per recipe, the aggregation key. Parameters, no state. |
| `WeekPlan` | the abstract specification: a request changes the pool and replaces the list by the requirements of the new pool, in one step. |
| `WeekTx` | the week service statement by statement, with the database it runs on. `RefinesPlan` is `WeekPlan!Spec` under the mapping pool <- committed occurrences, list <- committed contributions. |
| `WeekTxInvariant` | the inductive invariants: `RowsInvariant`, `WeekInvariant` and `RecipeInvariant` for every interleaving; `PlanInvariant` and `StatesInvariant` for requests that are safe together, and which those are (`SafeTogether`, `TicksApart`). |
| `ListReads` | extends `WeekTx` by the handlers that read: the composition of the HTTP API and the week service. |
| `Aggregate` | the aggregation of requirements into lines, exact fractions of bounded width, one requirement per step. |
| `Sessions` | login sessions: rows, requests between SELECT and UPDATE, logouts, days. |
| `SignIn` | sign-in and access: accounts, memberships, the cookies of browsers, restarts, operators. |
| `Document` | a recipe document, its validation, and the rows the import makes of it with their constraints. No state. |
| `Bootstrap` | the pod, its restarts and releases, and commands that import, on one database. |
| `CorpusOnce` | the abstract specification of `Bootstrap`: nothing, then one whole corpus, then no change. |
| `MCWeekTx` | a corpus of two recipes, starting pools and sets of operations that may overlap. |
| `MCListReads`, `MCAggregate`, `MCSessions`, `MCSignIn`, `MCBootstrap` | the other instances. |
| `WeekRowsProofs`, `WeekHistoryProofs`, `WeekPlanProofs` | theorems about `WeekTx`; the last are the refinement of `WeekPlan` and what it rests on. |
| `ListReadsProofs`, `AggregateProofs`, `SessionsProofs`, `SignInProofs`, `BootstrapProofs` | theorems about the others. |

Definitions headed "Fault" are plausible mistakes in the code next to them. They are in no
next-state relation; each is a mutant that breaks a property.

### WeekTx and the code

Committed rows are sets of records (`weeks`, `occs`, `lines`, `contribs`); `work[t]` holds the
uncommitted writes of transaction `t`, `seen[t]` the Go variables its earlier statements filled,
`pc[t]` the next statement, `req[t]` the request. A statement sees the committed rows as they are
when it runs plus its own writes (`VisibleOccs`, `VisibleLines`, `VisibleContribs`). An operation
of the service is the path of its statements:

* Generate: `GetWeek`, `CreateWeek` (when missing), `DeleteWeekRecipes`, `DeletedWeekRecipes`,
  `CascadeOccurrence`, `CreateWeekRecipes`, recompute
* Add: `NextWeekRecipePosition`, `CreateWeekRecipes`, recompute
* Remove: `DeleteWeekRecipe`, `CascadeOccurrence`, recompute
* Swap, RandomSwap: (`Pick`,) `UpdateWeekRecipe`, recompute
* recompute: `ReadStates`, `ReadRequirements`, `DeleteGeneratedLines`, `DeletedGeneratedLines`,
  `CascadeLines`, `RebuildAndCommit`
* checklist edits: `UpdateLine` or `CreateManualLine`

A multi-row DELETE is two steps, its snapshot and its effect, because rows may be inserted or
deleted between the two while it waits. `WaitsFor` says which open transactions a statement waits
for (row locks of deleted and updated rows, uncommitted keys of unique indexes, key shares of
foreign keys); a cycle makes `DeadlockVictim` possible; `Cancel` is the request context ending or
the server stopping before COMMIT, at any statement. A missing row, a unique key or the
contribution trigger ends the transaction by `Fail`, which keeps nothing.

Merged or left out, on purpose:

* the inserts of `recompute`, `TouchWeek` and COMMIT are one step: the rows they write are
  invisible to others before COMMIT and their locks are taken and released together;
* reading the target occurrence is merged with the write that repeats its condition;
* a checklist edit is one step: it has one writing statement;
* the text of an override, the name and position of a manual line, quantities and timestamps are
  not represented. A manual line, whose aggregation key is NULL in SQL, has the key
  `<<"manual", t>>` so that no two collide;
* row ids are `<<transaction, position or key>>`: identity columns never repeat;
* the corpus is constant, as it is once it is loaded (`LoadsOnce` of `Bootstrap`).

### ListReads and the code

A handler is a reader `r`, and `page[r]` its place and what its queries have returned. Each query
of `CurrentWeek`, `Checklist`, `Contributions` and `PastWeek` is an action that looks at the
committed rows as they are then. A checklist edit is a transaction of `WeekTx`; once it has
committed, `WriteGroceries` starts the second read of the same request, with another look at the
clock, and `LabelGroceries` takes the third, for the date on the answer. `ask` remembers the edit
a transaction served. `settled` (no request was changing the past week when it was found) and
`traced` (the contributions when the lines were read) record what the properties compare with; the
program has neither. Listing the weeks is one SELECT that changes nothing, and left out.

### Aggregate and the code

`Take(r)` is one pass of the loop of `Aggregate` over the next requirement, so that every prefix of
every sequence of requirements is a call of the function; `Returned` is its last loop. `Opened` and
`IndexOf` are the lookup in `byKey` and the new line, `Put` the end of a pass, `Fail` an error
return. Fractions are kept in lowest terms as `big.Rat` keeps them, stated as having the smallest
denominator that leaves a whole numerator, and each result is compared with `MaxInt` where
`fromRat` does. `RequirementAssumption` is what the CHECKs of `recipe_ingredients` and `units`
admit; `validateRequirement` accepts all of it. A package is its type and size as written (the code compares the text of the key, not the
value). Names and store sections are left out. In `Corpus`, which the week service uses, only the
key remains.

### Sessions and SignIn and the code

`Sessions` is about time. `rows` is `auth_sessions`; `Load` is Authenticate up to its UPDATE,
`Renew` that UPDATE and the served request, `Refuse` an error in between (every error is answered
401 by `RequireSession`). `Logout` revokes or fails to, and answers 204 in both cases. Time is in
days. Users, memberships and the allow list are constant there.

`SignIn` is about who. A flow is one visit of `googleStart` and its callback, `flow[f]` the values
of the Go functions, `pc[f]` the next statement. The state, nonce and signed cookie of a login
transaction are the identity of its flow: `jar[b]` holds the last flow that browser `b` started,
whichever tab did, and its session. Cryptography is taken to do what it should; the ten minutes of
the cookie are the choice in `GoogleCallback`. `ResolveIdentity` is two paths: SELECT, UPDATE, its
unique index, COMMIT for a known Google account; SELECT, collision SELECT, three INSERTs and
COMMIT for a new one. What a transaction has written follows from its statement, so there is no
separate set of uncommitted rows. A request with a session is `RequireSession`, `LoadSession` (the
join of session and user, and the allow list), `AuthorizeHousehold` (a second SELECT) and
`Receive`; its `lost` records whether access was already gone when it came in. Around the program
are restarts with another configured list, operators who disable users and change memberships,
and Google, which vouches for any address for any account. Renewal and expiry stay in `Sessions`.

### Bootstrap, Document and the code

`recipes`, `items` and `sections` are committed rows, `work[p]` what the import of process `p` has
written, `doc[p]` and `ing[p]` its loops. `Migrate` and `ApplyMigration` are Goose, which takes no
lock between reading the version and applying the next migration. A recipe, section or item is
inserted under unique keys and names, and an insert waits for another transaction with the same
value. Inside one document, what follows the ingredients (steps, flags, reviewable, verified)
touches only that document's rows and is one step, `FinishRecipe`. The pod follows
`container-entrypoint.sh`: bootstrap, then serve; it can stop at any statement and comes back from
the same image or a later one. A command is run once, from a checkout.

An image is a sequence of documents and the inventory of approvals. `Document` says which of them
`Validate` and `MatchApprovedCorpus` accept, and which rows the tables' CHECKs accept: `Overlooked`
in `Bootstrap` is the difference, what an audited image may still fail the import by. The format
version, dates, source and readable body of a document are one flag, `front`; a text is written,
blank or missing, `image` standing for both optional texts of a recipe that must not be white space
(`image_url`, `yield_text`) and `note` for both of an ingredient (`display_note`, `preparation`); a number is a fraction, missing or malformed.

## 3. What the runs check

| Run | Question | Bounds |
|---|---|---|
| `week_plan` | Does each COMMIT do one operation of the plan, and do Generate and Add keep ticks, removals and overrides, when only operations of one safe mix overlap? Are the invariants of those proofs invariant? | every operation, three requests at once, from no week or two occurrences |
| `week_rows` | Which facts about rows survive every interleaving? | three of Generate, Add, Remove, Swap at once, with deadlocks and aborts |
| `week_liveness` | Does every request end? | three requests of Remove and Swap, two at a time, over two weeks |
| `list_reads` | What do pages show while requests commit between their queries and midnight passes; are past weeks final and manual lines kept? | two requests (Add with line edits, Generate with manual lines), one page at a time and the list after each edit, two weeks |
| `aggregate` | Are lines exactly the combinable requirements with their exact totals, in every order, and storable? Is the invariant of the proofs invariant? | sequences of five of nine requirements, integers up to 100 |
| `sessions` | Do limits hold, does use keep a session alive, does a revocation last? | two sessions, two requests at a time, lifetimes 2 and 6 days, nine days |
| `sign_in` | Is there one account per person, is access that was taken away refused, is every callback answered? | two flows in one browser, two Google accounts, two addresses, one restart, users known before or not |
| `bootstrap` | Is the corpus loaded whole and once, does the audit suffice, does the pod serve in the end? | 36 images: a good one, six other releases and inventories, 17 other documents and 12 quantities; one command, one stop, two migrations |
| `week_lost_ingredients`, `week_lost_tick`, `session_last_days`, `aggregate_check_overflow` | Section 4. | the smallest instance that shows it |

Why the bounds are enough. Three transactions make the interleavings that matter in the week
service: a writer, one that reads before and writes after it, and one that waits for either; a
deadlock needs two. The corpus has two recipes that share a measured ingredient (their lines
collide), one of which also has an ingredient without a quantity (its line never merges). `Mixes`
says which operations may be open at one time. Five requirements of nine kinds give every order of
two units that convert, two that do not, a package, no quantity and presence, with repetition;
integers up to 100 overflow in some of them. Lifetimes 2 and 6 keep the proportion of the
configured 30 and 90 days, so that a session sees renewals before, across and inside its last idle
period. Two flows with two accounts and two addresses contain two first sign-ins of one address,
two tabs with one cookie, and a swap of addresses, whose updates deadlock. In `bootstrap` each
wrong image differs from the good one in one place and sits behind a good first document, so the
import fails with work to undo.

Fairness.

* `week_liveness`: a statement that can run runs (the server and PostgreSQL are not stopped between
  statements), and the deadlock detector rolls a victim back. The second is needed: two Removes
  cascade over each other's contributions in opposite orders and wait for one another. No client
  has to act, and cancellation is not assumed.
* `sign_in`: a flow's statement that can run runs, the victim of a deadlock included. No person has
  to sign in, and no callback has to arrive.
* `bootstrap`: the pod is started again when it is down and its steps are taken, because the
  deployment does that. A command's step is taken when it is possible again and again: its insert
  may wait for the pod, and PostgreSQL grants the lock before a pod that failed is back. Nobody has
  to run a command or stop the pod.

Behaviours are finite in requests, flows, restarts and stops, so liveness is about the end of a
finite burst. `CHECK_DEADLOCK FALSE` everywhere: when every transaction or flow has been used, the
last day is over or the pod serves, the instance stops.

## 4. Where the program differs from what its documents say

Each of these is a run with `expect: violation` and an entry under `findings`.

1. `week_lost_ingredients`: an Add and a Swap that overlap both commit, and the later one's list
   lacks ingredients of the earlier one's occurrence: `recompute` reads the pool and replaces the
   list in statements with snapshots of their own and nothing serializes two of them.
2. `week_lost_tick`: an edit of the checklist that commits between recompute's read of the states
   and its DELETE is answered with success and lost.
3. `session_last_days`: the renewed idle limit is capped at the absolute limit and so equals it,
   which the table's CHECK forbids: in the last 30 of 90 days a valid session is answered 401.
4. `aggregate_check_overflow`: the CHECK of a range line multiplies BIGINTs, which can overflow
   although each fraction fits. With the units table of the migration 1/3-1/2 tsp, 10 ml and
   1/8 tsp of one item are enough; every change of such a week then fails.

Which operations are safe together is what `week_plan` checks: Generates among themselves, because
they collide on the first position; Adds, because they read the same next position; Swap,
RandomSwap and Remove, because every contribution they insert is checked against the occurrence
(trigger and foreign key) and they block on one another's rows. The last needs every recipe to
have a shoppable ingredient: for an occurrence of a recipe without, nothing is inserted that could be
refused, and TLC finds a COMMIT that no operation of the plan explains. The theorems of section 5
hold for every instance in which only such requests overlap. An Add is safe with none of the
others: TLC finds ingredients lost as in 1 with two requests when a Swap or RandomSwap overlaps it,
and with three when Removes or Generates do. What survives every mix is checked by `week_rows`: the list may lack
ingredients, but an occurrence has all or none of the ingredients of a recipe (`WholeRecipes`), every
generated line has a contribution and every contribution its line and occurrence (`LinesExplained`),
and positions and keys are unique (`UniqueRows`).

The list of such a safe mix is right; the ticks on it need more. Generates and Adds keep them
(`PlansKeepState`), because two that overlap cannot both commit. Requests that reshape the pool do
not always, without any edit beside them, as a fourth transaction in `week_plan` would show: a line
is ticked, a Swap reads the states and the pool, two other Swaps take the recipe away and bring it
back, so that its line is now unticked, and the first Swap, whose reading of the pool is true
again, commits the old tick. `RecomputePreservesState` is thus claimed for one request at a
time only, and what an overlap does to it is `week_lost_tick`.

Seen while modelling, without a run of their own:

* logout drops the error of Revoke, clears the cookie and answers 204 with the session open
  (`internal/auth/http.go:152`; `AUTH_HOUSEHOLDS_SPEC.md:127` has logout revoke it);
* an Add that inserts its contributions before an overlapping Swap commits leaves contributions of
  the recipe that was swapped out, when the two lists have no key in common: the contribution
  trigger (`00001_corpus.sql:384`) looks at committed rows, and only at the INSERT;
* the session that a browser already has stays open when it signs in again
  (`AUTH_HOUSEHOLDS_SPEC.md:126` rotates sessions after sign-in);
* the import compares the name of a store section only when it reads it from the table, not when
  the section is in its map (`internal/ingest/import.go:210-226`), so another name for it in a later
  document is ignored. `ItemsAgree` therefore promises that an item's section is stored with the
  name that the ingredient's own or another document of the corpus gives it, not always the own;
  the last of the 17 documents of `bootstrap` is one whose name is ignored;
* two owners removed in two transactions at once each count the other as remaining
  (`00002_auth_identity.sql:65`);
* two audited releases without a common key or name, imported at once into an empty database,
  would both commit: only the unique keys of recipes stop a second import once both have counted
  none. `ReleasesOverlap` states that this does not happen between real releases.

## 5. What is proved

The runs check small instances; the theorems hold for every value of the constants that satisfies
the assumptions named.

**Week service** (`CorpusAssumption`, `BoundsAssumption`: ingredients belong to one recipe, the
bounds are numbers, recipes are finitely many, initial pools are pools); any corpus, any number of
weeks, transactions and concurrent requests.

* `WeekRowsProofs!TypeCorrect`: `TypeOK`.
* `WeekRowsProofs!RowsInvariantHolds`, `RowsAreUnique`, `LinesAreExplained`: `RowsInvariant`,
  `UniqueRows`, `LinesExplained`. The last two are not inductive: whether a COMMIT keeps rows unique
  depends on what other transactions did since this one wrote. `RowsInvariant` adds what a
  transaction knows at each statement: ids name committed transactions and so never collide with new
  rows (`RowIdentity`); snapshots and deletions name rows that were committed (`Snapshots`); a
  position inserted is nobody else's and an updated occurrence has kept its place (`Places`); after a
  cascade no contribution of a deleted row is left, because a transaction that would add one waits
  for the row lock (`Cascades`); and open transactions hold different rows (`Apart`). One lemma per
  statement.
* `WeekHistoryProofs!HistoryStays`, `ManualLinesStay`: the action properties `HistoryFinal` and
  `ManualLinesKept`. They follow from `WeekInvariant`: what a transaction updates or deletes is of the
  week of its request, so a later week's requests reach no past one, and the lines a recompute
  deletes are generated ones.
* `WeekHistoryProofs!WholeRecipesAlways`: `WholeRecipes`. `RecipeInvariant` says that the
  contributions one request wrote for an occurrence come together, and that whoever deletes one of
  their lines deletes all: lines of one commit are either all in a snapshot of the list or none.

With the hypothesis `SafeTogether` (one request at a time, or each mix has only operations that
are safe in pairs: Generates; Adds; Remove, Swap and RandomSwap over recipes that all have something
to shop; checklist edits and manual lines beside any of them) for every corpus, number of weeks and
transactions. It is a hypothesis on constants, as weak as the findings of section 4 allow. The code
does not enforce it: nothing in the server keeps an Add and a Swap apart. The theorems say
when the server keeps its promise, `week_lost_ingredients` that it does not always.

* `WeekPlanProofs!PlanInvariantHolds`, `ListIsThePool`: `PlanInvariant`, and with it `ListMatchesPool`,
  which no statement but COMMIT touches and which is not inductive: whether a COMMIT keeps it depends
  on whether the pool that `recompute` read is still the pool. The invariant says why it is, or why
  the request must fail. A Generate holds every row of the pool from its first DELETE on; another
  Generate that committed in between has left a row at position 0, where this one inserts (`Replaces`).
  An Add's position is one past all others or has been taken (`Appends`). A request that reshapes
  the pool holds one occurrence of it (`Holds`). What it has read may be out of date, but then it has
  read too much, never too little (`PoolRead`): occurrences that another has swapped or removed. It
  then has contributions to insert for one that is gone or has another recipe, because every recipe
  has some, and the trigger or the foreign key stops it; likewise when it has not deleted all the
  lines (`LinesRead`), because another request's list then came after its reading. `OneWriter`: all
  generated lines of a week come from one COMMIT, so to miss one line of a newer list is to miss all.
* `PlanIsKept`: the refinement `Spec => WeekPlan!Spec`. Every statement but COMMIT is a stuttering step;
  a COMMIT is the plan's Generate, Add, Remove or Swap, one lemma each, with the list that the
  invariant says it writes.
* `StatesInvariantHolds`, `PlansKeepTicks`, with `TicksApart` as well (no edit of a line overlaps a
  Generate or an Add): what these two have read of the ticks is true until they commit, since the
  requests beside them that replace lines take the position they insert at, and they fail.
* `SerialKeepsTicks`: `RecomputePreservesState` when requests come one at a time (`InFlight <= 1`).

**Reads** (`PagesAssumption`: a page is not a transaction, and the above).

* `ListReadsProofs!ReadsAreStutters`: `ReadSpec => Spec`; a handler that reads is a stuttering step
  of `WeekTx`, so that all of the theorems above hold in the composed system.
* `LabelsMatch`, `HistoryPagesAreOneState`, `EditsAreShown`, `TracesAreWhole`: the four invariants
  of `list_reads`, from `ReadInvariant`: the contributions of a line never change while the line is
  there, and one that is gone does not come back (ids never repeat), so that a page's later queries
  find all of its occurrences or none; a settled past week cannot be entered by a request again
  (clocks do not go back); and a flag stays as an edit left it until another edit of that line.

**Aggregation** (`RequirementAssumption`, above; `NoneAssumption`: the absent value is no error);
any set of requirements, any width of integers, calls of any length.

* `AggregateProofs!AggregateInvariantHolds`, and from it `LinesAlwaysCombine`, `NothingIsDropped`,
  `LinesAreStorable` and `OnlyOverflowEverFails`. The code keeps a map from text keys to lines;
  `AggregateInvariant` says what that map is good for: a line has all the requirements of its key and
  no others, each requirement so far has a line, and a line agrees in kind, package and dimension
  with all it stands for. Two keys are equal exactly when the requirements may be combined, so the
  unit of any requirement converts to that of its line and the error for incompatible units cannot
  be reached. For the kind of a line the invariant also needs that totals are in lowest terms, the
  lower one at most the upper one: the code calls a line exact by comparing numerators and denominators.
* `TotalsAreExact`: `TotalsExact`. It rests on lemmas about fractions: equal values have one
  representation in lowest terms, so adding and converting commute with taking the value, whatever
  was reduced in between; and on the equation of the recursive sum `PartialSums`, with which a sum
  gains exactly the amount just taken. Both inductions are taken as the least element of a set of
  naturals, because the library's induction rules are out of the provers' reach.

**Sessions** (`LifetimeAssumption`: 0 < Idle < Absolute); any sessions and requests.

* `SessionsTypeCorrect`, `SessionsInvariantHolds`, `LimitsAlwaysHold`, `UseAlwaysKeepsAlive`,
  `RevocationsLast`. The argument: a renewal that passes the CHECK is uncapped, so it writes
  exactly its clock reading plus Idle; requests last less than a day, so the idle limit is at
  most a day behind the latest use.

**Sign-in** (`SignInAssumption`: allow lists are lists of addresses, accounts known before have one
address each); any flows, browsers, accounts, restarts and lists.

* `SignInInvariantHolds`, `SignInTypeCorrect`, `OneAccountAlways`, `SessionsMatchAlways`, `LostIsLostAlways`,
  `NoMembershipBackAlways`. `SignInInvariant` adds `AddressesReserved`: an address a transaction has
  put into the unique index belongs to no committed user and to no other open transaction, and
  likewise a Google account. The waiting of `insertUser`, `index` and `insertIdentity` is what keeps
  it. `RequestsLost` follows a request from check to check: what it has not yet checked is what it
  had lost.

**Import** (`HoldsAssumption`: images are sequences of documents whose numbers are integers and whose
review decisions are records; `ReleasesOverlap`: two audited releases share a recipe's key or
name); any images, commands, migrations and stops.

* `BootstrapProofs!ImportInvariantHolds`, `CorpusIsWhole`, `PodServesCorpus`, `ItemsAlwaysAgree`,
  and `CorpusLoadsOnce`, the refinement `Spec => Once!Spec`. `ImportInvariant` says which rows an
  import has written at each of its statements, document for document, and that no two imports, nor
  an import and the committed corpus, have a recipe in common (`Apart`). `SectionsMet` is what
  `ItemsAgree` rests on for the names of sections: the keys in the import's map are those of the
  ingredients it has met, and one of these gave the name that is stored. At COMMIT an import has
  written all of a release, so anything committed before would overlap it: the table is still empty.
* `AuditInvariantHolds`, `AuditAlwaysSuffices`: `AuditSuffices`. Each statement of an import can fail
  in its own way, and the audit has to have excluded it: the CHECKs of every row a document becomes,
  the unique keys, the agreement with items and sections that are there already, and the lifecycle
  trigger at `FinishRecipe`. `AuditInvariant` says which rows those can be. Until an import commits,
  the corpus is empty but for the section "Other" of the migration, so what an import that is alone
  disagrees with it wrote itself, from its own image; its documents are still the audited ones; and
  nobody migrates once an import has begun. What is left are the cases of `Overlooked`.

Only model-checked: `RequestsEnd`, `CallbacksEnd` and `PodServes`, because liveness under fairness is
outside the prover's reach. Every other property of a passing run is a theorem.

## 6. Plan

Done: the week service, its reads, aggregation, sessions, sign-in, documents and import. Left, in
order of importance:

1. `RecipeLifecycle`: the triggers on recipes and their children with two transactions, once a
   command or handler edits recipes after their import.
2. Two membership changes at once, with the trigger's count, once the program has a way to make one.
3. `RateLimiter`: the fixed window of one address and the growth of the table.
4. `WebClient`: line ids in the query cache, composed with `ListReads`.

## 7. Not modelled

* Rate limiter: a counter per address under one mutex; no interleaving, only arithmetic.
* Web client: its state is the cache of a library. What it does with a line id that is gone is an
  edit that fails, which `WeekTx` has.
* Lifecycle beyond the import: returning a recipe to draft, and the triggers that guard the children
  of a verified recipe, meet only queries that no command or handler calls.
* Household membership changes two at a time: they are operator's SQL.
* `listRecipes`, `getRecipe` and `weekHistory`: each reads and formats what one or two queries
  return, and changes nothing.
* Readable rendering of documents, generated query functions that no command or handler calls (the
  others are modelled where they are called), routing and encoding, Helm chart, scripts, corpus data and one-off tools: they keep no
  state the properties are about.
