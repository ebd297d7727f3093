# StockFlow: a TLA+ model of the invoicing backend

StockFlow is a NestJS service over PostgreSQL (Prisma). Users keep a catalogue of
products with a quantity on hand, draft invoices over them, and issue, pay or cancel
those invoices. This directory holds a model of its core in TLA+, the TLC
configurations that check it on small instances, and TLAPS proofs of its main
invariants for every instance. Paths below are relative to the repository.

    cd tla
    tlc -config FlowRace.cfg MCStockFlow      # one run
    tlapm StockFlowProofs.tla                 # one module's proofs

## 1. The system

| part | state | operations | where |
|---|---|---|---|
| invoice mutations | `Invoice`, `InvoiceItem`, `InvoiceIdempotency`; per request its transaction | create, draft update, issue, pay, void (cancel a draft), cancel an issued invoice | `src/invoices/invoices.service.ts`, `src/invoices/repositories/prisma-invoice.repository.ts` |
| stock and its ledger | `Product.quantityOnHand`, `StockMovement` | take goods out, put them back, count by hand | same, and `src/products/repositories/prisma-product.repository.ts` |
| product catalogue | `Product` (owner, SKU, `updatedAt`, `deletedAt`) | create, update, soft delete | `src/products/` |
| invoice totals | none (pure) | `resolveInvoice`, `storableCents` | `src/invoices/invoices.service.ts` |
| sessions | `User`, `Session` | register, login, authenticate a request, logout | `src/auth/auth.service.ts`, `src/auth/session-auth.guard.ts` |
| login rate limiter | a map in the memory of one process | `canActivate` | `src/auth/login-rate-limit.guard.ts` |
| lists and reads | none (two statements per answer) | get and list invoices, list products | both repositories, `src/common/pagination.ts` |
| HTTP pipeline | per request: what the guards have read | body parser, CORS, session, role, origin and limit guards, validation pipe, exception filter | `src/main.ts`, `src/auth/*.guard.ts`, `src/common/filters/`, the controllers' decorators |
| configuration | the configuration, or none | `createAppConfiguration` | `src/config/app-config.service.ts` |
| seed | two accounts, the seed's products and their first movements | `prisma db seed`, any number of times | `prisma/seed.ts`, `prisma/seed-products.ts` |
| health, API document | none | constant answers | not modelled |

Interactions. The parts share nothing but the database. Invoice mutations and product
updates meet on the product rows: an issue decrements `quantityOnHand` inside a
SERIALIZABLE transaction, a product update reads the row, writes it under
`WHERE updatedAt = ...` and records the difference in the ledger inside a READ COMMITTED
one. Every mutation of an invoice carries a version (`If-Match`) and a key
(`Idempotency-Key`); the key is looked up before the transaction, looked up again in it,
inserted, and completed before the commit. Prisma reports write conflicts, serialization
failures and deadlocks as P2034, which `mutateWithIdempotency` retries twice.

What is hard here: checks that are made before the transaction and relied on in it; two
requests with one key; two transactions that lock products in opposite orders; a commit
whose answer is lost, and the client's repetition of it; product updates that race with
sales; limits of the INTEGER columns; a guard that decides on a row read earlier; an answer put together
from two statements; pages cut by offset from a list that changes; a seed that dies midway or
meets another seed; clocks that show one millisecond twice or are set back; texts that two
parsers read differently. The list with lines is under `hazards` in `PROJECT.json`.

What makes each part correct:

* tables: stock in range, the ledger explains the stock, goods leave once and come back at
  most once, every version of an invoice is owned by one key;
* requests: the tables change only as atomic operations would change them; one winner per
  version; answers agree with the key table; everybody is answered;
* catalogue: active SKUs are unique however they are spelled, deleted rows never change,
  a row is changed only by its owner or an administrator, a 409 has a cause;
* totals: what is stored is exact, what is refused does not fit;
* sessions: dead tokens are refused, live ones are not, as the right account, and a
  revocation is final;
* limiter: a bound on every span of time, no refusal without cause, nobody locked out, and on a
  real clock the same;
* reads: what is shown under a current version is current, settled invoices are shown whole; a
  walk through a list misses no more than left it;
* pipeline: no handler runs for a request that is not entitled to it;
* configuration: a service that starts can work, one that does not was given something wrong;
* seed: nothing is opened twice or left half done, success means that all of it is there.

## 2. Modules

| module | what it is |
|---|---|
| `StockTables` | the five tables, what each commit writes, and the invariants that tie them together |
| `StockContract` | the abstract specification: each successful request is one atomic step on the tables |
| `StockFlow` | the concurrent implementation: requests statement by statement, with transactions, locks, retries, lost answers, product updates and deletions |
| `ProductCatalog` | creation, update and deletion of products with ownership, roles and the partial unique index |
| `InvoiceTotals` | the cents arithmetic of one invoice |
| `Sessions` | accounts, sessions, requests that authenticate, and a clock |
| `LoginRateLimit` | the fixed window per address |
| `LimiterClock` | the limiter as it is written, with start times on a clock that may be set back and a process that may restart; implements `LoginRateLimit` |
| `InvoiceReads` | `StockContract` with clients that read invoices and lines in two statements |
| `Listing` | a client that walks through the pages of a list that changes |
| `RequestPipeline` | what every request goes through before its handler |
| `ProductClock` | one product whose `updatedAt` is a time in milliseconds |
| `AppConfiguration` | the checks of `createAppConfiguration` in their order |
| `Seeding` | seeds at once with each other and the service |
| `ServiceParts` | `LimiterClock`, `InvoiceTotals`, `Listing`, `RequestPipeline`, `AppConfiguration` and `ProductClock` side by side |
| `MC*` | small instances for TLC; `MCParts` is that of `ServiceParts` |
| `Sums` | lemmas about sums over finite sets |
| `*Proofs` | TLAPS proofs; `PartsProofs` those about `ServiceParts` |

`StockContract` and `StockFlow` both extend `StockTables`; `StockFlow` instantiates
`StockContract` as `Contract`, with the tables themselves as the refinement mapping, and
`Refines == Contract!Spec`.

### StockTables and StockContract

Everything is one user's slice of the database, since every query of both repositories
filters by `userId`. An invoice row is joined with its lines (`validateLineItems` admits a
product once), so `items` is a function from products to quantities. The ledger is kept as
the sum of `quantityDelta` per product and reason plus the set of
(invoice, product, reason) the partial unique index is on. A key row says which request it
was (the fingerprint is a hash of the body: here, the body's fields themselves) and which
version it produced. Both identifiers and versions are as in the code: a draft has version
1, each mutation adds one.

`StockContract` has `Create`, `EditDraft`, `Issue`, `Settle` (pay, void), `CancelIssued` and
`Adjust`, each with the guard that the service promises for it.

### StockFlow

A request goes through the program points `replay`, `load`, `resolve`, `create`, `begin`,
`insert`, `mutate`, `lines`, `dup`, `done`; each step is one SQL statement with the code up
to the next `await`:

* `Replay`: `findIdempotentResult` before anything else. `Load`: `requireInvoice`, the
  version and the choice of the transition. `Resolve`: the products are there and in stock
  (the reads of `Promise.all` are one step).
* `Begin`: the first statement of the transaction, which looks the key up and fixes the
  snapshot of a SERIALIZABLE one. `Insert`: the key row. `SetStatus`, `EditDraft`: the guarded
  UPDATE and the commit. `Open`, `Line`, `Finish`: issue and cancel, one product at a time, in
  any order, then the invoice, the key's completion and the commit.
* `Retry`: P2034, up to three attempts, then a 409. `Dup`: the P2002 handler outside the
  transaction. `SerializationFailure`, `DeadlockVictim`, `Lose`: what PostgreSQL, the process
  and the network may do.
* `EditRead`, `EditWrite`, `Delete`: the product repository.

PostgreSQL is modelled as the code uses it. A SERIALIZABLE transaction reads from a
snapshot (`snap`) and its update of a row that was committed since fails (`missed` holds the
rows committed since); a READ COMMITTED one sees the latest commit. Row locks and the
uncommitted key row are read off the program counters (`HasLine`, `HasKey`): whoever needs
such a row waits. Serialization failures may also come without a write conflict, as
PostgreSQL's predicate locks may be coarse.

Why statements may be merged: the writes of a transaction are visible to nobody before its
commit, so they are all in the step that commits; only the locks show earlier, and they are
modelled. The key row, once committed, never changes. The lock on the invoice row is taken in
the step that commits. The second `requireInvoice` of `changeStatus` only chooses the wording
of a 409. Branches that cannot be reached are left out: `count = 0` after the row was locked and
seen, `IdempotencyProcessingError`, P2002 of a movement, P2003 of a soft deletion.

`stamp` counts the writes of a product row and stands for `updatedAt`: two writes of one row never
share it. What happens when two do, or when the clock is set back, is in `ProductClock`. The quantity a client may count is bounded by the
column here (`MaxInt`), by 100,000,000 in the DTO: the model admits more. Collisions of
`invoiceNumber` are not modelled.

### ProductCatalog

Creation with its INITIAL_STOCK movement commits in one step. An update reads the row and writes
it in a later step, under `updatedAt`; the write may hit the unique index on
`(userId, sku) WHERE deletedAt IS NULL`. A deletion is an administrator's and leaves the row.
Prices, names, descriptions and quantities decide nothing and are left out; of validation only
"at least one field" is kept. Roles do not change (no handler changes them).

### InvoiceTotals

One step per line and per amount, each refused by `storableCents` when it leaves `0 .. MaxCents`.
The code computes with doubles: a value that is not a safe integer is beyond the column anyway, and
the quotient of an integer below 2^31 * 10^4 by 10000 rounds to the same cent as the exact one,
because exact halves are representable and other quotients are at least 10^-4 away from a half.

### Sessions

A clock, accounts under the normalised address, sessions under their token. `FindSession` and
`Authenticate` are two steps, so that sign-outs and time come between the read and the decision;
so are `FindUser` and `Login`. `stale` is a history variable: whether the token was dead when
the request arrived. The clock is monotone; accounts are never deleted, so the guard's second read
always finds the account and is merged; expired sessions are never pruned, in the code as in the model.

### LoginRateLimit

`canActivate` is synchronous, so it is one step. Instead of a clock the model keeps the age of each
window, capped at the window's length, and the count capped at one past the limit; both caps lose
nothing, since the code only compares them. `admitted` is a history variable: how many attempts were
let through, by age. Clock readings, restarts and a clock that is set back are in `LimiterClock`.

### LimiterClock

The guard with the variables it has: `Date.now()` and `{count, startedAt}` per address. `SetBack` and
`Restart` are actions. `Refines` says that every step which is neither is a step of `LoginRateLimit`
under the mapping of start times to ages (capped at the window's length) and of counts to counts (capped
at one past the limit). `BurstBounded` and `RefusedForCause` are stated over true time: a clock that is
set back lets nothing more through and keeps a window open as much longer, a restart costs one more
window's worth of attempts.

### InvoiceReads

Prisma reads invoices first and their items second. Under READ COMMITTED each statement sees the latest
commit, so an answer can pair the row of one moment with the lines of a later one. The steps in between
are those of `StockContract`, which `StockFlow` implements. `get` and `list` are one shape: a subset of
the invoices is asked for.

### Listing

One page is `findMany` and `count`, two statements of the array form of `$transaction`. Between any two
statements rows come and go (created, deleted, changed so that they match or no longer match). Where
`ORDER BY` does not decide, the database may order as it likes, differently each time. `list` says which
of the two lists it is: products are ordered by `createdAt` and `id` (`TieBreak`), invoices by `createdAt` alone. `WalkAccounted` covers the
rows whose place is determined by their columns: for invoices of one millisecond nothing holds, since
they may change places between two pages.

### RequestPipeline

The steps of a route are a sequence: `json`, `cors`, the guards (class first, then those of the method
from the one nearest to it upwards), `pipe`, `handler`. Each is a step of its own, because sessions end and
roles change (by the seed) while a guard waits for the database. A header is trusted, foreign or absent.
What a failure is answered with comes from `HttpExceptionFilter`. What the handlers decide is in the
other modules; the limiter's decision is a free choice here.

### ProductClock

Updates under `WHERE updatedAt = ...` where the column holds what the code writes: a time in whole
milliseconds, taken by Prisma when it sends the statement. Times may repeat and go backwards. `again`
remembers that some write bore the time of an earlier one.

### AppConfiguration

A text is abstracted to how `Number.parseInt`, `Number` and `URL.canParse` read it (functions given as
constants), so that their disagreements stay: `"2.5"` and `"5x"` are positive integers for one and not for
the other, the empty text is a tax rate of 0. `Order` is the order of the checks, which decides what the
error names.

### Seeding

Two upserts of accounts, each a commit of its own, then one READ COMMITTED transaction: per product
`Find`, `Insert`, `Look`, `Move`. `Find` sees what is committed; `Insert` and `Move` wait for an uncommitted
row in the unique index. That the upsert of a product is a select and then an insert is an assumption
about Prisma: it has nothing to update and its unique constraint was replaced by a partial index, so no
native upsert can serve it; it finds deleted rows too, as its condition says nothing of `deletedAt`. The service creates, adjusts and deletes products at the same time; a seed may
be lost between any two statements (the other one, which may begin after it, is its repetition). Products older than the ledger (`Legacy`) have no
movement until a seed gives them one, for the seed's quantity; `Explained` therefore speaks of the others.

### ServiceParts

Six small parts that share no state (the limiter on its clock, totals, a list of products or of invoices, pipeline,
configuration, product clock), instantiated with the constants of one module: `part` says which one moves, the
variables of the others have the value `None`. A behaviour is one of a single part, so that the states add up and do
not multiply. `PartsAssumption` collects what the parts assume of their constants. `MCParts` gives TLC the sets of a
small instance.

## 3. Runs

| run | module, cfg | question | bounds |
|---|---|---|---|
| `contract` | `MCStockContract`, `Contract.cfg` | do the atomic operations keep the tables consistent, and what do readers see of them? | 2 invoices (one not created yet), 2 products, 4 keys, one reader: an invoice can go through issue, cancellation and every refused follow-up, and each of these may come between the reader's statements |
| `flow_race` | `MCStockFlow`, `FlowRace.cfg` | three requests race on one draft: same key twice, key reused, stale versions, every transition, a creation | 3 requests out of 10 calls, no product update |
| `flow_stock` | `MCStockFlow`, `FlowStock.cfg` | two drafts want more than there is, while a product is counted, renamed and deleted | 2 requests out of 4 calls, 2 editors, at most one deletion |
| `flow_live` | `MCStockFlow`, `FlowLive.cfg` | is everybody answered, are repetitions replayed? | 2 requests whose lines cross, 1 editor |
| `flow_retry_safe`, `flow_key_reuse`, `flow_not_found` | `MCStockFlow` | three statements of the API documentation that the code does not keep (section 6) | 2 or 3 requests |
| `catalog` | `MCProductCatalog`, `Catalog.cfg` | SKUs, ownership, deletion | 4 requests out of 13, 2 users, 3 ids, one SKU in two spellings and another |
| `sessions` | `MCSessions`, `Sessions.cfg` | who is admitted, as whom? | 4 requests, 2 tokens, 3 ticks, sessions of 2 |
| `rate_limit` | `LoginRateLimit`, `RateLimit.cfg` | bursts, lock-out | limit 3, window of 4 ticks, 2 addresses |
| `seeding` | `MCSeeding`, `Seeding.cfg` | two seeds at once with each other and with the service, any of them lost | 2 seeds of 2 accounts and 2 products; an empty database, an older product, a deleted one, or both; 2 ids for the service |
| `parts` | `MCParts`, `Parts.cfg` | the small parts, one at a time | limiter: limit 2, window of 3 ticks, 8 ticks, 2 of them taken back, one restart; totals: up to 3 lines, 5 rates, a column of 16 cents; lists: 5 rows, 2 of one millisecond, pages of 2, 3 changes; pipeline: one request on every route with every header, body and role; configuration: every environment that differs from an empty one in two variables; product: 2 editors, 3 times, stock up to 2 |

Why these bounds are enough to be interesting: two products and two transactions are what a deadlock
needs; three requests are what a commit between another's lookup and its insert needs, with a third that
waits; three attempts are exhausted because every abort may happen again; `MaxInt = 3` is reached by
cancelling after a recount; 16 cents put every intermediate amount on both sides of the limit. The
safety results for the tables and the answers do not rest on them: they are proved for all bounds
(section 5). Requests come to an end, so deadlock is not checked in runs where all of them may be done;
that nobody waits for ever is the liveness property of `flow_live`.

Properties worth a word:

* `ShownIsCurrent` (`contract`): if the version of an answer is still the invoice's, the answer is the invoice.
  It depends on the order of the two statements: with the items first it is false.
* `WalkAccounted` (`parts`): whatever comes and goes between rows and count, a client that stops when
  `page * pageSize` reaches the total has missed no more rows than left, and was shown no more twice than came.
* `StartsForCause` (`parts`): the assumptions the other modules make of their constants are what the
  configuration guarantees; and a refusal names a variable that is wrong by its own meaning.
* `HandledForCause` (`parts`): in particular a foreign page gets no handler even where no origin guard
  stands (sign-in, registration), because the CORS callback fails first.
* `EndsTruly`, `Explained` (`seeding`): a seed is repeatable and its partial failures leave nothing behind; only
  the index of the last migration keeps two seeds from opening a product twice.
* `SomebodyGoesOn`, `EverySeedEnds` (`seeding`): seeds wait for each other's rows in two indexes and never in a
  circle, because all of them take the products in one order. That some of them find products that were there before,
  and wait only for movements, changes nothing.
* `LedgerUnlessAgain` (`parts`): the optimistic lock on `updatedAt` needs times that do not come again, and
  nothing else of the clock.
* `OneWinner` (`flow_race`): of the requests naming one version of one invoice, at most one is told 200
  for a mutation it applied.
* `AnswersMatchRecords`: a 200 means the key is recorded for this very request; every recorded key has
  an author who was told so or lost the answer. So refusals change nothing and retries apply nothing twice.
* `Isolation`: why early checks still hold at the commit (section 5). It is the inductive invariant, checked
  by TLC first.
* `OutstandingMatches` (`contract`): the issue and cancel movements of a product add up to what is on the
  issued and paid invoices.
* `LiveTokensAdmitted`: although the guard decides on an old row, it never refuses a session that is live.
* `BurstBounded`: a fixed window lets less than twice its limit through in any span of its length; with
  restarts (`parts`), as many limits more.

The type invariants of `contract`, `sessions`, `catalog`, `seeding` and `rate_limit` are not among the runs' properties: they
are theorems (section 5).

## 4. Fairness

`StockFlow!FairSpec` gives weak fairness to each request's `Step` and each editor's `EditStep`: the event
loop runs every promise and PostgreSQL gives a lock to a waiter that stays first. `DeadlockVictim` is part
of `Step`, because the deadlock detector does run. `SerializationFailure` and `Lose` get no fairness: nobody
promises them. `Seeding!FairSpec` gives weak fairness to each seed's own statements and to nothing else: the
process goes on as long as PostgreSQL answers; what the service does meanwhile, and the loss of a seed, need not
happen; no victim of the deadlock detector is needed, since there is no deadlock. Retries are bounded by the code, not by fairness. `LoginRateLimit!FairSpec` lets time pass and
every address try again and again: the worst case for a limiter that might extend its window.

## 5. Proofs

All for arbitrary (also infinite) sets of products, invoices, keys, requests, editors, users, tokens and
addresses, and arbitrary bounds. Assumptions are the named `ASSUME`s of the modules: types of the constants, that a
call carries the body of its own operation, that normalising an address or a SKU twice is normalising it once. The
rows of a list are finitely many (`RowsAssumption`), the lines of an invoice too. Of how texts are
read, `TextsAssumption` and `EnvironmentsAssumption` say only what the language defines: decimal digits
are read alike by `parseInt` and `Number`.

Every invariant, action property and refinement that a run checks is a theorem; what remains for TLC alone is liveness.

| module | theorems | argument |
|---|---|---|
| `Sums` | lemmas only | below |
| `StockContractProofs` | types, `StockInRange`, `StockMatchesLedger`, `MovementsMatchStatus`, `VersionsAccounted` of the atomic contract | inductive, except versions, which need that a row has a version from the start (`VersionInv`) |
| | `ContractOutstanding` | each operation adds one invoice to those that are out, takes one away, or leaves their lines alone, and moves the ledger by the same lines (`OutInv`, which also says that finitely many are out) |
| | of the readers: types, `ShownIsCurrent`, `SettledIsWhole` | between its two statements a reader holds, of each invoice it found, a version that is at most the current one, and if it is the current one the status has not changed; settled lines stay (`ReadsInv`, on top of the contract's `VersionInv`) |
| `StockFlowProofs` | types of the implementation | one lemma per way a request goes on or answers |
| | `FlowIsolation`, `FlowRefines`, and with them stock, ledger, movements, versions and outstanding goods of the implementation | below |
| | `FlowAnswersMatchRecords`, `FlowOneWinner` | every step is one of five kinds (goes on, refused, created, repeated, recorded), and the agreement is strengthened by: answers are final, a duplicate's handler runs when the key is there, a key tells one request "ok" |
| `ProductCatalogProofs` | types, `SkuUnique`, `HistoryKept`, `ChangedByRight`, `ConflictHasCause` | stored SKUs are normalised, and the partial index is unique (`SkuInv`); of the last two, what each answer says of its step (`StepAnswers`) |
| `SeedingProofs` | types, `Explained`, `EndsTruly`, `SomebodyGoesOn` | below |
| `SessionsProofs` | types, `RevocationIsFinal`, `DeadTokensRefused`, `LiveTokensAdmitted`, `OneAccount`, `AdmittedAsOwner` | what a request has read is true of its row or of a later state of it (`RequestsInv`, `AnswersInv`, `OwnerInv`) |
| `LoginRateLimitProofs` | types, `LimiterBurstBounded`, `LimiterRefusedForCause` | below |
| `PartsProofs` | `ClockRefines`, `SteadyClockImplements` | ages only need the types: each action is matched with `CanActivate` or `Tick` of the abstract limiter, under any history of restarts and set-backs. If the bounds on both are 0, this is `Spec => Limiter!Spec` |
| | `ClockBurstBounded`, `ClockRefusedForCause` | below |
| | `TotalsStoredExactly`, `TotalsRefusedOnlyTooLarge`, `ListWalkAccounted`, `PipelineHandledForCause`, `ConfigStartsForCause`, `ShelfLedgerUnlessAgain`, `PartsTyped` | below; `PartsInv` puts the parts' invariants side by side |

The refinement. The invariant is `FlowInv == TypeOK /\ Isolation /\ StockInRange`. `Isolation` says of each open
transaction that it is entitled to what it has not committed yet: it is on the path its body asks for; its
snapshot is still true or known to be missed; the products it has updated are still sufficient (or still have
room); its key is still free; no other transaction holds its key or its products; and an editor that finds
its time stamp finds its quantity. A step is one request's or one editor's. Its own part is re-established by
what the step checks; the others are bystanders (`Bystander`, `Harmless`): what they rely on is locked, or the
step adds the rows it commits to what they missed. At the commit, `Isolation` gives exactly the guard of the
atomic operation. The invariants of the contract then carry over, instantiated from `StockContractProofs`.

The seeds. Their invariant, `Inv` of `SeedingProofs`, has four parts. `RowsInv`: what a seed writes has the id of
its line and is as the line says until it commits; an id without a row has no movements. `MovesInv`: a product
is opened once, and while it is not committed by nobody but the seed that wrote it, so that a rollback takes both or
neither. `OpenedInv`: each stock is explained by its movement, or its seed is about to write that. `SeedInv`: what a
seed has found stays, what it has behind it is complete, and what it did not find is not there while nobody else
commits (`Uncrossed`). A step is one seed's or the service's; a seed that does not move keeps its part
if it still sees what it saw and sees nothing new, or `crossed` tells (`BystanderKeeps`). Besides the types it
assumes that ids of new products are new (`IdsAssumption`), that what is stored at the start was written by the
service (`StoredAssumption`) and that the seed's SKUs differ (`LinesAssumption`).

That no seeds deadlock is shown by a rank. A row that is not committed is of a line its seed is at least past
inserting (`RowsInv`), a movement that is not committed of a line its seed has behind it (`WrittenInv`); lines have
different SKUs. So whoever waits, at its line, waits for a seed of a higher `Rank`, and the seed of the highest waits for
nobody. This is the safety half of `EverySeedEnds`.

Sums. The library sums `f` over a set by a function that is chosen to satisfy a recursive equation. `Sums` shows
first that on a finite set there is exactly one such function, without an induction theorem: of the subsets where
two solutions differ, or where there is none, take a smallest one (`SmallestSet`, from the well-foundedness of strict
inclusion on the subsets of a finite set). Then a sum does not depend on the order of its elements, and changes
by one term when one element comes, goes or changes. Outstanding goods, subtotals and counted attempts use only that.

The limiter. `UpTo(f, j)` is what was let through at ages `0 .. j`. The recent attempts that are younger than an
address's window are its own, fewer than it has let through, since the one that started it is as old as the window; those that came
before it are fewer than one limit (`Bounded`; on the clock, `BurstKept`, one limit more for each restart). And what a
window has counted was let through since it started (`RefusalKept`). Once the clock was set back, the guard does
not know how old its window is. The invariant says that there is some age, at least what the clock shows, for which the first
holds, and the second at the age the clock shows plus all that it was set back.

Totals. While lines are added, what has been added is the sum of the first lines (`Reckoned`). A sum of some of
the lines is at most the sum of all, so what does not fit on the way does not fit at the end; and there is one nearest cent.

The walk through a list. A row's place is the number of rows before it, and `Edge` is how many rows the client has
asked for. `Missed` are the placed rows before the edge that it has not been shown; `Repeated` those it has been shown
more than once, or once although they now lie beyond the edge and will be shown again. A page shows just the placed
rows between the old edge and the new one, whatever order the database chose (`AtItsPlace`), so that reading adds to neither
set; nor does the count. A row that leaves can pull one row across the edge unseen, the one at it, and a row that comes
can push one back, the one before it: no two placed rows share a place (`OnePlace`). When the walk is over all the rows
lie before the edge, or did when they were counted and none has come across since but one for each that left.

The pipeline. What the steps behind a request have found stays true of it (`Found`, `Behind`): it is about the request's own
headers, about whether its session was over when it arrived, or about its account having been an
administrator's since. What a guard reads is true when it is read and implies these (`Remembered`). The handler is
the last step of each route and comes after the route's guards (`StepsOf`).

The configuration. A running service has passed every check (`ConfigInv`), and a check that fails is about a variable that is wrong:
`WrongOnly`, one variable at a time. That a number is right only in decimal digits is part of the property
because the theorem is false without it: `0x10` is 16 to `Number` and 0 to `parseInt`.

The product clock. As long as no time came twice, an editor that has the row's latest time has its stock too (`ReadTruly`).

Only model-checked, not proved: the liveness properties `EveryRequestAnswered`, `RetriesReplay`, `NeverLockedOut` and
`EverySeedEnds`. Fairness and ENABLED are out of the prover's reach. The three runs that expect a violation
show behaviours, which is not a matter for proof.

## 6. Where the code and its documentation disagree

* `RetrySafe`: `invoices.controller.ts:172` calls the key "Unique key for retry-safe mutation". A repetition
  that looks its key up before the first request commits, and reads the invoice after, is refused with 409
  although its key is recorded for it by then.
* `KeyReuseIsConflict`: `invoices.controller.ts:180` documents a 409 for conflicts. The branch that cancels an
  issued invoice does not map `IdempotencyConflictError` (`invoices.service.ts:223`); it is answered with 500.
* `NotFoundMeansGone`: `products.controller.ts:128` documents 404 as "Product not found". An update that loses a
  race with another write to the row gets the same answer.

Seen while modelling, without a run of their own:

* an `Origin` that is not configured is answered 500 by the CORS callback (`main.ts:26`, a plain `Error`), before
  `CsrfOriginGuard` could answer the 403 that `invoices.controller.ts:90` documents; nothing gets through
  (`HandledForCause`), only the status differs;
* signing out without a session is answered 200, `auth.controller.ts:116` documents a 401;
* `positiveInteger` takes `2.5` for 2 and `5x` for 5, and refuses `0x10`, although its error says that the value must be a
  positive integer (`app-config.service.ts:25`, `27`);
* `CORS_ORIGINS` accepts an address with a path, which no `Origin` header ever equals, although its error asks for
  valid origins (`app-config.service.ts:65`, `67`).

## 7. Not modelled

* Health and the API document: constant answers.
* The wording of messages, `helmet`'s headers, logging, the limits the DTOs put on lengths and numbers.
* Hashing of passwords and tokens: equality of the values stands for them.
* Migrations before the latest. (`20260903060000` makes `(productId, reason)` unique, which fails on a ledger with two
  sales of one product; the next migration takes it back.)
* `POST /invoices` takes no key: its repetition makes a second draft, in the model as in the code; no promise is made.
* The limiter's map is never pruned: plain from the code, and no bound is promised.
* A page number without an upper limit, and a session duration so large that its expiry is no date: what Prisma and
  `Date` make of them is outside the source.
* Several processes behind one address: the limiter's map is one process's.

## 8. Plan

Done, in this order: tables and contract; the concurrent flow and its liveness; totals; limiter; sessions;
catalogue; proofs of the contract, the flow's types, catalogue, sessions; the refinement; the answers; reads and their
proofs; the limiter on a clock and its refinement; the pipeline; lists; the seed; the millisecond clock; the
configuration; the proofs of the whole catalogue and of the seeds; sums, and with them the outstanding goods and the
limiter's bounds; the proofs of all small parts; that no seeds deadlock.

Next:

1. the safety half of the liveness of requests: that one which is not done can always go on or waits for one that
   can, as an invariant of `StockFlow` (of the seeds it is done, `SomebodyGoesOn`);
2. what `InvoiceReads` shows, carried over to the steps of `StockFlow` instead of those of `StockContract`;
3. several limiter processes behind one address: what the bound becomes;
4. a composition of `Sessions` and `ProductCatalog`: a role read by the guard and used by the handler.
