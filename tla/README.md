# c3x-pricing-api: specification

TLA+ modules, TLC configurations and TLAPS proofs for the pricing API in `src/`:
a Go program that scrapes the price catalogues of AWS, Azure and GCP into
Postgres (`scrape`), loads them from a file (`seed`), and serves them over
GraphQL (`serve`).

## 1. The system

| Part | Source | State it keeps | Operations | Talks to |
|---|---|---|---|---|
| Scrape orchestration | `cmd/server/main.go` | locals of `runOneScrape`: run id, start time, total, failed services | lock, `SELECT now()`, insert the run, scrape, guards, stale cleanup, outcome, prune, clear, unlock | storage by SQL, scrapers by the handler callback, sibling vendors by the errgroup context |
| Scrapers | `internal/scraper/{aws,azure,gcp}.go` | failed-service counter, per-service products | fan out over services, page with retries, fold rows into products, hand batches over | vendors' HTTP APIs, the handler |
| Storage | `internal/db` | `products`, `scrape_runs`, `scrape_seen` (UNLOGGED), advisory locks | upsert, mark, count, delete, prune, reap, clear, seed, query | everyone |
| Reaper | `server.go` (`New`) | none | every 15 min, fail runs older than 6 h | `scrape_runs` |
| `/status` | `server.go` | none | two queries, one verdict per vendor | `scrape_runs` |
| `/graphql` | `server.go`, `internal/graphql` | in-flight semaphore, request budget | admit, batch loop, timeout, resolve, refund | connection pool |
| Rate limiter | `server.go` | LRU of token buckets and its map | get, evict at the cap, sweep, allow | every request |
| Product query | `internal/db/queries.go`, `internal/graphql/schema.go` | regex cache | SQL construction, keyset and OFFSET paging, `MatchRegexPattern`, `FilterPrices` | resolver |
| `serve` process | `cmd/server/main.go`, `server.go` (`Start`), `db.go` | pool of sessions, advisory lock 42 | open the pool, migrate, listen, stop on SIGTERM, close the pool | other replicas through the lock |
| Response writers | `gzip.go`, `server.go` | per request: buffered bytes, status | track, record the status, compress, recover from a panic | handlers above, net/http below |
| Edge | `server.go`, `metrics.go`, `catalog.go`, `config.go` | counters | auth, client IP, CORS, headers, metrics, static bundle | - |

What is hard: several scrape commands and a server work on one database without
transactions around their statements; every statement can fail, be refused
because the context ended, or be applied although the client saw an error;
processes are killed and leave statements in Postgres that commit later, outside the
lock; Postgres crashes and truncates the unlogged `scrape_seen`; one vendor's error cancels the others; stale cleanup deletes whatever the run did
not see, so anything that makes a run *see less than it thinks* destroys data.
On the serving side a document may outlive its request, and a budget is reserved
and refunded across aliases, batch items, errors and timeouts; replicas start,
migrate, stop and are killed next to each other; a client pages through a table
that a scrape is changing; and regexes with lookarounds, which Go does not have,
are emulated for prices and left to Postgres for attributes. `PROJECT.json`
lists each of these hazards at its line with the properties that cover it.

What makes each part correct:

* orchestration and storage: one scrape per vendor; a row leaves only when its
  service was scraped completely and did not list it; what was fetched is served;
  the seen-set is whole until the cleanup is over; every run gets one outcome;
* scrapers: a service's products are complete or the service fails; the order of
  pages does not decide an amount;
* `/status`: a steady vendor is reported as what it is, alarms are never false, as far
  as retention leaves the newest run;
* `/graphql`: the budget is exact, every item is answered, slots and connections
  come back, every request ends;
* rate limiter: list and map agree, and eviction does not multiply a client's rate;
* product query: a walk returns nothing twice and misses nothing that matched all
  along; a price is shown only when its description really matches;
* `serve`: one migration at a time, the lock comes back, a start and a stop end, and
  what the handler wrote is what the client gets, a panic in the middle of it included.

## 2. Modules

| Module | Models | Status |
|---|---|---|
| `ScrapeRun` | `scrapeCmd`, `runOneScrape`, the SQL of `internal/db`, the fan-out of the scrapers, the reaper, `seed` | core |
| `ScrapeRun_proofs`, `ScrapeTables_proofs` | TLAPS proofs about `ScrapeRun`: lock, outcomes, cleanup; what the tables hold | section 5 |
| `RunHistory` | abstract promise of the `scrape_runs` table | implemented by `ScrapeRun` (`TableKeepsPromise`), used by `Status` |
| `Catalogue` | abstract promise of the `products` table | implemented by `ScrapeRun` (`CatalogueKeepsPromise`) |
| `Status` | `handleStatus`, `vendorStatus` over a `RunHistory` | |
| `Status_proofs` | TLAPS proofs about `Status` | section 5 |
| `GraphQLServer` | in-flight limit, `handleGraphQL`, resolver, `RequestBudget`, pool | |
| `GraphQLServer_proofs` | TLAPS proofs about `GraphQLServer` | section 5 |
| `QueryAST` | query depth and introspection over parsed documents | decides what `GraphQLServer` refuses (`MCGraphQLServer`) |
| `RateLimiter` | `getLimiter`, `evictIdleLimiters`, `Allow` | |
| `RateLimiter_proofs` | TLAPS proofs about `RateLimiter` | section 5 |
| `AzureService` | one Azure service: pages, retries, regions, price folding | composed in `VendorFolds` |
| `GCPCompute` | GCP Compute Engine: pages, retries, SKUs, machine types | composed in `VendorFolds` |
| `AWSPriceFile` | one AWS price file: streaming decoder, terms, regions, currency | composed in `VendorFolds` |
| `VendorFolds` | `scrape --vendor`: one of the three modules above runs | |
| `VendorFolds_proofs` | TLAPS proofs about `VendorFolds` | section 5 |
| `Enumeration` | abstract promise of paging | implemented by `ProductQuery` (`KeysetKeepsPromise`) |
| `ProductQuery` | `QueryProducts` page by page, `FilterPrices` | extends `PatternMatch` |
| `PatternMatch` | the regexes of filters, as Postgres and as `MatchRegexPattern` read them | |
| `ProductQuery_proofs` | TLAPS proofs about `ProductQuery` | section 5 |
| `Response` | the chain of writers of one response | |
| `Serve` | `serveCmd` of several replicas, migrations, requests, SIGTERM, kills | extends `Response` |
| `Serve_proofs` | TLAPS proofs about `Serve` | section 5 |
| `MC*` | the instances TLC checks | |

### ScrapeRun

One process is one `runOneScrape` goroutine; processes with the same `CommandOf`
share an errgroup context (`ctxDone`). `pc` names the SQL statement that comes
next, in the order of the function:

`lock` (AcquireScrapeLock), `begin` (SelectNow), `insert` (StartScrapeRun),
`scrape` (the services: FetchService, FetchFails, ServiceUndiscovered; the
handler: UpsertBatch chunk by chunk, then MarkSeen, or HandlerFails), `prev`
(ReadPrevCount and the guards), `count` and `delete` (the two statements of
`deleteStaleIfSeenSetComplete`), `finish*`, `prune`, `clear`, `unlock`, `done`.

Each action is a whole statement with the ways it can go: done, refused because
the context is done, failed without effect, failed after it was applied. A
product is its hash; sku, attributes and prices are one `Contents` value, because
the upsert only asks whether they differ. `now` is a logical clock that moves at
`SELECT now()` and when an outcome is written, so `updated_at < scrapeStart` is
true exactly of rows that were last changed before the run began. Batches carry
their list length (`BatchLen`), since the program counts in-batch duplicates in
`totalProducts` and compares that count with the distinct seen-set.

The three scrapers differ in ways that matter here and are kept: AWS counts every
fetch error, collects all services outside EC2 and hands them over in one batch,
then streams EC2 by region, where handler errors are counted and an all-failed
result is returned; Azure and GCP hand over service by service, return a handler
error, and return the context's error once it is done; GCP scrapes only the
services that discovery found. The machine types GCP synthesizes count as
products of a service here; `GCPCompute` models what they are.

Around the processes: `Cancel` (SIGTERM), `Kill`, `PgCrash`, `ReapStaleScrapeRuns`,
`UpstreamChange`, `Seed`. `LongRuns = FALSE` is the assumption that no live run
is older than six hours.

A run's statements and its lock are on different sessions: `AcquireScrapeLock` keeps a
connection of its own (`db.go:102`), the handler's upserts and marks and the cleanup's
DELETE take whatever session the pool gives them. When the process is killed the lock is
free at once, while a statement in flight goes on in Postgres without its client; a
context that ends, or a connection that breaks, gives a statement up in the same way.
`Kill` and the actions of a failing statement may therefore leave statements in `stray`
(`Stranded`, `UnderWay`: any of those the fan-out can have in flight at once, from
different services), and `StrayCommits` lets each take effect at any later step, after
the next run took the lock, or never. A Postgres crash ends them. An upsert keeps the
contents and the `now()` of its transaction; a DELETE removes those of the rows it would
have removed when its client left that have not been changed since the run began. That
snapshot is the moment the client dies: a DELETE that scanned earlier would remove no
more. The statements on `scrape_runs`, the prune and the clear are taken to end with
their client, which is an idealisation: a late INSERT of a run would leave one more
`running` row for the reaper, a late outcome, prune or clear would do what it would have
done in time.

### Catalogue

What the API may rely on in the table it serves. A vendor has one *reading* at a time;
each of its services is `unread`, `read` (as the vendor listed it at that moment) or
`lost`. `Store` writes rows only as the reading found them, `Sweep` removes rows only
when every service of the vendor was read, everything found is stored and the rows
removed were not found; `EndReadings` drops the readings of processes that end, `Seeded`
is the bulk load, which writes beside the readings. A reading cut short may leave
statements behind (`Leave`), each of which the reading could have made at that moment
(`MayLeave`); `Late` is one of them taking effect, once. The refinement mapping of
`ScrapeRun`: the reading of a vendor is what the process that holds its lock has
scraped (`reading`, `found`), nothing when the lock is free. So the lock, the fan-out,
the failure counters, the guards and the seen-set, of which `Catalogue` knows nothing,
are together shown to make overlapping, failing and dying scrapes look like one reading
per vendor.

### RunHistory and Status

`RunHistory` says what the readers of `scrape_runs` may rely on: rows start
`running`, get one outcome, a success only with products and only while the row
is its vendor's newest, and are deleted only afterwards. `ScrapeRun` implements it
with the identity mapping; `Status` builds on it: `HistoryStep` interleaves with
the two queries of a request. `lastRun` and `truth` are history variables: the newest
run each vendor ever had, and every status that held for the vendor during the request.
The README's table speaks of runs ("the most recent run failed", "no scrape has ever
run"), the code of the rows that are left, so `TrueStatus` goes by `lastRun`: 0 is
`never`; and when `PruneScrapeRuns` has taken that run's row (`db.go:172` deletes whatever
finished before the retention, the newest included) the truth is `forgotten`, a status
the table has no word for.

### GraphQLServer

`rpc` is the handler, `epc` the goroutine `gql.Do` starts for a document; when the
context ends, `gql.Do` (graphql-go) returns and the goroutine goes on by itself.
A document is whether it is refused before execution and the limits of its
`products` fields. `Begin` may answer 400 to any body, because what makes a body
unreadable is outside the model. What is refused comes from `QueryAST`: the two
recursive walks over the parsed document (`selectionSetDepth`,
`selectionSetHasIntrospection`), with the map of visited fragments threaded through
siblings as in the code. `MCGraphQLServer` gives `GraphQLServer` the documents and
takes its `Refused` from those walks; the reference they are compared with writes
every spread out.

What a query reads and what its field uses of the budget are two counts. `scanProducts`
hands over what it has when the rows end with an error, and nothing when a row cannot be
scanned or unmarshalled (`queries.go:236-246`), so a failed query may have read rows whose
reservation is refunded as a whole (`Kept`): `rowsRead` goes up, `productsUsed` does not.

### RateLimiter and the vendors

`RateLimiter` moves in whole seconds; a request holds its bucket between
`getLimiter` and `Allow`, outside the mutex, so the bucket may be evicted in
between. `AzureService` and `GCPCompute` make a page one row or SKU, listed in any
order, of `GCPCompute` also more than once (`MaxRepeated`: an expired page token gives a
repeated page, `provider-quirks.md:85`); prices are natural numbers, `0` in
`GCPCompute`'s index is "no entry" (the code skips zero prices). The index of core
and RAM prices is built product by product,
one iteration of the loop of `indexCPURAMPrices` a step, and is gone when
`synthesizeMachineTypes` returns. In `GCPCompute`, `SetToSeqs` stands for Go's map
iteration order. `AWSPriceFile` decodes sections entry by entry from a stream that
may break at any moment, then builds the product list: regions from codes or
location names, dollars from yuan, terms without an amount and upfront fees left
out. `VendorFolds` runs one of the three, as `scrape --vendor` does.

### ProductQuery, PatternMatch, Enumeration

A product stands for its hash, which is the order of the result. A walk is one
client sending `QueryProducts` until a page comes back empty; each page has the
limit that `EffectiveLimit` and the request's budget leave, so it may be shorter
than asked for. `KeysetWalks` continue from the last hash (`AfterHash`), the others,
like GraphQL's `products`, by OFFSET. `ChangeRow` is a scrape's upsert or cleanup
between two pages. `steady` and `quiet` are history variables: what has matched ever
since the walk began, and whether anything changed. `Enumeration` is the promise;
the refinement mapping gives it `steady \ got` as what is owed.

A text is a sequence of words; a pattern is a record of what the code and the
engines tell apart: its form, flag, anchors, lookarounds and body. `Denotes` is what
a regex with lookarounds means (what Postgres does), `MatchRegexPattern` what the Go
code does with the same pattern.

### Serve and Response

`pc` of a replica goes through `serveCmd`: `lock`, `locking`, `schema`, `applying`,
`unlock` (the statements of `RunMigrations`, each on the session the pool hands out),
`listen`, `serving`, `stopping` (SIGTERM was seen), `returning`, `closing`
(`database.Close`), `telemetry`, `down`. Sessions belong to a replica's pool; those
of a killed process that are in a statement stay in Postgres until it ends (`Lost`).
`Expire` is the pool's health check, `Reap` the reaper's use of the pool. A response
passes the chain of `Response`: the tracker of `recoverMiddleware`, the
`statusWriter`, `gzipResponseWriter`, net/http, each a function on one record, since
all of them run on the request's goroutine. A body is its length. The handler's
`WriteHeader` (`Respond`) and its writes (`Write`, in pieces of any length) are steps of
their own, and `Panic` may come before, between and after them: while nothing was written
`recoverMiddleware` answers 500, later the response is `truncated`, as the comments at
`server.go:925` and `941` say; a panic on a route without that middleware resets the
connection. The body of an answer to HEAD is dropped by net/http.

## 3. Runs

| Run | Question | Result |
|---|---|---|
| `ScrapeOverlap` | two commands on one vendor, a kill and the statement it leaves behind, a catalogue change, reaper, pruner; both tables keep their promises | holds |
| `ScrapeFaults` | one command on two vendors, a signal and one failing statement anywhere; which rows stay `running` and what the others say | holds |
| `ScrapeCrash` | kill, Postgres crash, failed discovery, seed, with fairness | holds |
| `ScrapePgCrash` | does a truncated seen-set only ever skip the cleanup? | violated |
| `ScrapeUndiscovered` | is cleanup skipped when any service failed? | violated |
| `StatusSteady` | is `/status` right and are its alarms true? | holds |
| `GraphQLServing` | budget, completeness, slots, connections, termination, exact refusals | holds |
| `RateLimit` | list and map, sweep order, rate across the sweep and the cap | holds |
| `VendorFolds` | completeness and amounts for every small feed, catalogue and price file, in every order | holds |
| `ServeLifecycle` | migrations, lock 42, answers whole or truncated as they should be, starts and stops that end | holds |
| `ShutdownDrops` | is a request in flight at SIGTERM answered? | violated |
| `ProductPaging` | paging over a changing table, emulated regexes | holds |

The violated runs are disagreements between the code and what it says of itself:

* `ScrapePgCrash`: `schema.sql:47` says a crash that truncates `scrape_seen` "just
  means that run's cleanup is skipped/redone". A crash early in a run is made up
  for by later marks (half of the count is enough), and one between the count and
  the delete is not seen; live rows are deleted and stay away until the next run.
* `ScrapeUndiscovered`: `ARCHITECTURE.md:103` says cleanup is skipped when any
  service failed. A failed GCP service discovery counts no failure, and the
  cleanup deletes the products of every discoverable service.
* `ShutdownDrops`: `README.md:136` and `server.go:289` call the shutdown graceful.
  `Shutdown` closes the listener, whereupon `ListenAndServe` and `Start` return;
  nobody waits for `Shutdown`, and the process ends under the requests in flight.

### What the repository says and the code does not do

Some comments and documents claim more than the code keeps. The properties of the runs
above say what the code keeps; the claim itself is a definition beside them with a
configuration of its own, and `tlc -config <name>.cfg <module>` gives the behaviour that
refutes it.

| Claim | Configuration (module) | What happens | The property that holds |
|---|---|---|---|
| `db.go:97-98`: with the lock overlapping runs "do not trample each other"; `CHANGELOG.md:416`: it "prevent[s] concurrent writes per vendor" (`ServedAsFetched`) | `ScrapeStray` (`MCScrapeRun`) | the upsert of a killed run, on another session than its lock (`db.go:102`), commits after the next run stored newer contents | `FetchedIsServed`, `CatalogueKeepsPromise` |
| `main.go:289`: no cleanup when the count drops by more than 50% (`HalfDropSkipsCleanup`) | `ScrapeHalfDrop` (`MCScrapeRun`) | `prevCount/2` rounds down (`main.go:322`): 1 after 3 cleans up | `CleanupAgainstBaseline` |
| `sigterm_integration_test.go:53`: `runOneScrape` "always uses context.Background() for the post-cancel bookkeeping"; `CHANGELOG.md:382` (`CancelledRunsAreRecorded`) | `ScrapeSigterm` (`MCScrapeRun`) | after a scrape that returned no error `FinishScrapeRun` gets the cancelled context (`main.go:310`, `336`): the row stays `running` | `ExitsRecordOutcome` |
| `queries.go:689`: `ClearSeen` keeps the rows of other runs in flight (`SeenSetKept` with `LongRuns`) | `ScrapeLongRun` (`MCScrapeRun`) | the reaper fails a live run older than six hours; its seen-set is swept | `SeenSetKept` without `LongRuns` |
| `README.md:67`: `never` is a vendor for which "no scrape has ever run" (`NeverMeansNoRun`) | `StatusForgotten` (`MCStatus`) | retention deletes the last rows of a vendor that is no longer scraped (`db.go:172`) | `SteadyIsReported` |
| `provider-quirks.md:61`: "last-price-wins" (`LastPriceWins`) | `VendorTierOrder` (`MCVendorFolds`) | the lowest amount stays, as `azure.go:335` says | `OneLowestPricePerTier` |
| `gcp.go:456`: "last match wins" (`LastMatchWins`) | `VendorMatchOrder` (`MCVendorFolds`) | the lowest amount stays (`gcp.go:577`) | `MachineTypesAreSums` |
| `queries.go:306`: patterns like `^(?!.*(Excluded1\|Excluded2)$).*$` are handled (`LookaheadsHandled`) | `ProductLookahead` (`MCProductQuery`) | the `$` is trimmed off (`queries.go:344`): a price with the term in its middle is hidden | `EmulationIsFaithful` |

### Bounds

* `ScrapeRun`: one vendor with two services and two overlapping commands, or two
  vendors (AWS with a collected service and an EC2 region, Azure) in one command.
  One product per service, contents of two values, chunks of one row. Two
  processes suffice for a race on a lock or a sweep, two services for "one failed,
  one did not". A batch containing `b` counts two extra duplicates, so the
  half-count guards are met on both sides, odd counts (3 after 1, 1 after 3) included. In
  `ScrapeOverlap` one product may be new or repriced and the other listed or not
  (`OverlapStored`, `OverlapUpstream`), which keeps the stray statements affordable: one
  kill, or one fault, leaves statements behind (`Budget["stray"] = 1`). `Budget` bounds each kind of event;
  every guarantee is about one event at the wrong moment, so one of each is
  enough and they are combined within a run. `MaxRuns` bounds the ids: two runs
  and one more for the reaper and the previous count.
* `Status`: one vendor (the verdicts are independent), three runs, a clock of 4
  with `StaleAge = 1`, so that a success can become stale and a run can be reaped
  and pruned during a request.
* `GraphQLServer`: two requests over one slot (`PoolMax = 3`), budgets of 3 rows
  and 2 queries against limits of 1, 2 and the default, so that budgets run out in
  the middle of a batch; bodies with aliases, refused items, none and too many.
* `RateLimiter`: three clients for two entries, two requests, 4 seconds against
  `MaxAge = 4`, four buckets: one more than clients, so that one the cap evicted or the
  sweep dropped comes back with a new bucket while a request still holds the old one.
* `VendorFolds`: feeds of up to three rows of 15, up to four SKUs of 7, and price
  files of two products with the terms before or after them: two sources of one slot
  and one that must not interfere. `GCPCompute` scrapes twice, and a page repeats while
  the list has fewer than three products (`MaxRepeated`).
* `ServeLifecycle`: two replicas of one start each, two sessions in Postgres (so that
  a pool can be at its limit while a lost session still migrates), one request on any
  route, GET or HEAD, a body on either side of the compression threshold, in pieces. Two replicas suffice for
  a race on lock 42, one request for a stop that overtakes it; the proofs cover any
  number.
* `ProductPaging`: three hashes, two contents of a row, one walk of each kind, two
  changes. Three rows with pages of one or two give a change before, at and behind the
  cursor. The patterns are the shapes the repository's tests and queries use, with and
  without the flag, the anchor and the group.

Symmetry is used only over interchangeable processes or clients and in runs
without liveness properties. `CHECK_DEADLOCK FALSE` appears where the behaviour
really ends: the invocations, requests or scrapes are bounded.

### Fairness

`ScrapeRun`: weak fairness of every process's steps (Go runs its goroutines, every
statement has an answer or an error) and of the reaper's ticker. Nothing from the
environment is fair. `GraphQLServer`: handlers run, the timeout fires, and an
executor moves *once its context is done*, since pgx gives up then; no fairness
makes Postgres answer, so `EveryRequestEnds` and `ConnsComeBack` hold even if it
never does. `Serve`: weak fairness of each replica's main goroutine and of the end of
every statement (each session has a `statement_timeout`); requests, signals and kills
are not fair. The lock wait ends too, by being granted or by the same timeout.

## 4. Limits of the passing runs

`RowsLeaveOnlyWhenUnlisted`, `CatalogueKeepsPromise` and `SeenSetKept` pass without Postgres crashes,
failed discoveries and runs of over six hours; `ScrapePgCrash`, `ScrapeUndiscovered` and
`ScrapeLongRun` show each to be needed.
`FetchedIsServed` is `ServedAsFetched` as long as no statement has outlived its client,
and `ScrapeStray` shows that this is needed too; what late statements can do at most is
`CatalogueKeepsPromise`, which has no such condition. `OneScrapePerVendor` is lost with a Postgres crash,
which ends the session holding the lock. `CleanupAgainstBaseline` allows for the code's
rounding, half a product in the guard and three quarters of a row in what is left
(`ScrapeHalfDrop` is the claim without it), and is checked
without statement faults: the read of the previous count discards its error, and
then the half-drop guard is off for that run. `ExitsRecordOutcome` excuses a
row when a statement has failed, and, as `ScrapeSigterm` shows it must, when the context was done after a scrape without
an error: after such a signal, or the error of a sibling vendor, `FinishScrapeRun` is
called with the cancelled context (`main.go:310`, `336`) and the row stays
`running` until the reaper comes (`RunningRowsResolve`). A scrape that returned an
error is recorded under a background context (`main.go:282`) and is not excused.
`SteadyIsReported` excludes requests with a failed query, whose error
`handleStatus` swallows, and vendors whose status changed during the request. So a
vendor whose first run ends well between the two queries is `never` for one request: the
first query saw no success, the second sees the newest run succeed. Both status
properties leave out vendors whose newest run retention has deleted
(`StatusForgotten`): an old row that the reaper failed late may outlive it, and then
decides the report.
`BudgetRespected` bounds the products handed to a request by its cap, as the documentation
of the cap does. The rows Postgres reads for it are not bounded by that cap: a query whose
rows cannot be scanned refunds its whole reservation, so they are bounded by the cap for
each query sent.
`ConnsWithinSlots` bounds the connections of requests that are not over; executors
abandoned at the deadline may hold more until their query is cancelled.
`RateKept` leaves out requests that took their token from a bucket already evicted.
`LockReturned` holds with `DB_MIN_CONNS` at its default 0: until a replica listens its
pool has one session, so the unlock meets the lock. With more the pool may run the
unlock on another session, where it only gives a warning.
`OffsetExactWhenQuiet` says nothing of a table that changes: rows are skipped or come
twice then. `EmulationIsFaithful` leaves out three shapes the emulation gets wrong by
construction, showing prices they exclude: an escape among the excluded terms, a group of
excluded terms before a body that says something, and a lookbehind beside a lookahead. In
the other direction the emulation hides prices that match. It looks for a lookahead's
terms anywhere in the text, whatever `$` or missing `.*` the lookahead has, and drops
escaped terms; `TakenFor` is the pattern read so, and the property says that what matches
*that* is shown. It says so for patterns that begin with `^` when they have a lookahead
(without it, Postgres may skip over the excluded term), whose body is anchored and
without `.*` when they have a lookbehind alone, and that are closed and not too long.
`EveryTermPriced` leaves out a stream that breaks exactly between two top-level
sections (`endedEarly`): the decoder takes what it has for the whole file.

Behaviours the models have and no property forbids, for a reader of the code:

* A run that the reaper failed while it was alive overwrites that outcome by its own.
* Of two rows of one tier with equal amounts and different units, in a virtual region, the
  first to come stays, so the unit depends on the order of the pages.
* The price lists of GCP machine types and AWS products come in map iteration order,
  and the upsert compares them as ordered arrays, so unchanged rows with several
  prices are rewritten at random.
* An attribute regex that begins with a slash and never closes drops its clause from
  the SQL; in a price filter the same pattern rejects every price.
* `ARCHITECTURE.md` lists `__Type` among what the introspection check blocks; the code
  looks for `__schema` and `__type`.

## 5. Proofs

Every theorem holds for all values of the constants that meet the named assumptions of
its module: functions have their domains, numbers are naturals, a list is at least as
long as the set of its products, markers such as `Nobody` and `Absent` are not members
of the sets they are told apart from, descriptions and price regexes are texts and
patterns (`TextAssumption`), Azure's prices are integers, a SKU has finitely many regions
and a finite list of prices, which are naturals, there are finitely many purchase options
(`GCPAssumption`), a price file is a sequence of sequences that repeats no section, SKU or
term type, as JSON keys (`AWSAssumption`; of repeated keys the code's maps would keep the
last), `gzipMinSize` is more than one byte (it is 1024), and ten
idle minutes refill a bucket with room for the requests that have it in hand
(`IdleAssumption`). TLC evaluates these on the runs of their modules.

| Module | Theorem | States | Extra assumption |
|---|---|---|---|
| `ScrapeRun_proofs` | `TypeCorrect` | `[]TypeOK` | - |
| | `MutualExclusion` | `[]OneScrapePerVendor` | no Postgres crash |
| | `SeenSetSafe` | `[]SeenSetKept` | no Postgres crash, no over-long run |
| | `CleanupSafe` | `RowsLeaveOnlyWhenUnlisted` | no Postgres crash, no over-long run, no failed discovery |
| `ScrapeTables_proofs` | `HistoryImplemented` | `TableKeepsPromise`: `ScrapeRun` implements `RunHistory` | no Postgres crash, no over-long run |
| | `CatalogueImplemented` | `CatalogueKeepsPromise`: `ScrapeRun` implements `Catalogue` | no Postgres crash, no over-long run, no failed discovery |
| | `FetchedServed` | `[]FetchedIsServed` | no Postgres crash, no over-long run, no seed |
| | `CleanupGuarded` | `[]CleanupAgainstBaseline` | no Postgres crash, no over-long run, no failing statement, finitely many products |
| | `ExitsRecorded` | `[]ExitsRecordOutcome` | - |
| `Status_proofs` | `AlarmsTrue`, `SteadyReported` | `[]AlarmWasTrue`, `[]SteadyIsReported` | - |
| `GraphQLServer_proofs` | `BudgetHolds`, `BudgetExact` | `[]BudgetRespected`, `[]NothingLost` | - |
| | `RepliesComplete` | `[]RepliesAreComplete` | - |
| | `SlotsBoundConns` | `[]ConnsWithinSlots` | - |
| | `ExecutorsExclude` | `OneExecutorPerRequest` | - |
| `RateLimiter_proofs` | `MapAndListAgree`, `IdleEntriesLast` | `[]MapMatchesList`, `[]IdleAtTheBack` | - |
| | `RateHolds` | `[]RateKept` | - |
| `ProductQuery_proofs` | `KeysetRefines` | `KeysetKeepsPromise`: keyset paging implements `Enumeration` | - |
| | `OffsetExact`, `EmulationHolds` | `[]OffsetExactWhenQuiet`, `[]EmulationIsFaithful` | - |
| `Serve_proofs` | `SchemaExclusive`, `LockLeft` | `[]MigrationsExclude`, `[]LockReturned` | - |
| | `AnswersWhole` | `[]AnswerIsWhole` | - |
| `VendorFolds_proofs` | `TermsPriced` | `[]EveryTermPriced` (`AWSPriceFile`) | - |
| | `RowsPriced`, `LowestPerTier` | `[]EveryRowPriced`, `[]OneLowestPricePerTier` (`AzureService`) | - |
| | `PrimaryWins` | `[]PrimaryRowsWin` (`AzureService`) | - |
| | `SKUsPriced`, `MachinesAreSums` | `[]EverySKUPriced`, `[]MachineTypesAreSums` (`GCPCompute`) | - |

None of these properties is inductive by itself; each conjunct of an inductive
invariant has a lemma with one step per action.

### The scrape

An event is ruled out by `Budget[e] = 0`; `BudgetKept` carries that through the
behaviour. `TypeCorrect` needs that the last successful run exists among the rows
(`GreatestExists`: a finite set of rows has one with the greatest `finished_at`,
from the well-foundedness of strict inclusion). `OneScrapePerVendor` follows from
`LockHeld` (a process past the lock is the one the lock names), which is inductive
because only a Postgres crash takes a lock from a live holder. `RunsOwned` (runs in
progress have rows of their own, still `running`, and ids not yet drawn have none)
makes `FinishScrapeRun` overwrite nothing and keeps other runs' sweeps off a live
run's seen-set; with it `SeenSetKept` is inductive. For the cleanup, `FailuresCounted`
(a service given up was counted or the scrape returns an error), `FreshLocals` and
`CleanupComplete` (the guards let a run through to `delete` only when every
service of its vendor is done) combine with `SeenSetKept`: a row to be deleted is
not in the seen-set, so its fetched batch did not contain it.

The refinement of `RunHistory` adds `NewestOwned` (a run in progress is its vendor's
newest, because the lock lets one in at a time), `StampsKept` (`finished_at` is set exactly
on rows with an outcome, and no stamp is in the future) and `ProductsCounted` (a run on its way to success has a count above
zero); each statement then maps to `Start`, `End`, `Reap`, `Prune`, `Tick` or a stutter.

The refinement of `Catalogue` adds `HoldersHold`, the converse of `LockHeld`: a lock that
is held is held by a process of its vendor that is past `AcquireScrapeLock`. It makes
`reading` change only with the holder's own steps (`ReadingOfOthersStays`). Taking the
lock then starts with nothing read (`FreshLocals`), a fetch maps to `Read`, an upsert and
a failing statement to `Store` (`GivenUpIsLost`), the cleanup to `Sweep`, because
`CleanupComplete` and `AllDiscovered` say that every service was read, `UpsertedIsStored`
that all of it is stored and `SeenSetKept` that what is deleted was not found; unlocking
and dying map to `EndReadings`, and everything else to a stutter. The mapping of `late`
is `stray` itself: what a killed or failing process leaves in flight is something its
reading might have done at that moment (`UnderWayMayLeave`, `StraysLeave`), and
`StrayCommits` maps to `Late` (`StraysAreLate`). Seeds, kills, signals
and failing statements may come at any moment.

`FetchedIsServed` rests on `UpsertedIsStored`: what a process has upserted is in the
table, since the lock keeps other writers of the vendor out, `SeenSetKept` keeps its
own cleanup off it, and no statement of an earlier run is still under way
(`NoStrayYet`; `StraysCounted` says that then `stray` is empty). For `CleanupAgainstBaseline`, `BaselineRead` says that a run
between its guards and the delete still meets them: the last success cannot change under
it, since the run holds the lock and no two successes finished at the same instant
(`SuccessesOrdered`). `SeenIsStored` adds that the seen-set is among the vendor's rows,
which bounds what the cleanup leaves from below.
`ExitsRecorded` carries `OutcomesRecorded`: a process past its outcome has left its row
as the property says, `success` or `failed` as the call returned, one that is not has no row yet or no error yet, so that only the
path under the background context ends with one; a context that is done stays done until
the next invocation, and `FaultsBefore` says that the step of a fault is seen in the budget.

### Serving

`Status`: `HistoryInv` (`RowsSound`, `SuccessesInOrder`) describes what `RunHistory`
allows, `LastRunSound` that `lastRun` is the newest row of a vendor wherever retention has
left that row, so that the rows tell the true status (`RowsTell`), `TruthCurrent` that the status that holds now is in `truth`, and `RequestsSound`
relates what either query found (`SuccessRead`, `LatestRead`) to the statuses that held
since the request began. The hard case is age: a success found by the second query, in a
request that saw nothing but `stale` or nothing but `ready`, is still as old or as young
when the reply is made.

`GraphQLServer`: per request `ExecutorInv` (when the goroutine of a document may be
active), `ItemInv` (the item it works on is one of the body's), `BudgetInv` (left + reserved + handed over = budget, through reservation,
refund and failure, whatever a failed query had read), `StepRowsInv` (each query reads at
most its reservation) and `ResultsInv` (items before the current one are answered,
and only the last of them can be cancelled: the loop does not go on from there); `SlotInv` counts the tokens.

`RateLimiter`: `ListInv` and `MapPointsIntoList` carry the map and the list through
promotion, eviction and the sweep. `RateKept` needs `TokensInShare`: what a client took
and what its bucket still holds is within its share; and `QuietSinceLastUse`: since the
last use of an entry only requests with its bucket in hand can have taken from it. When the sweep drops an
entry, `MaxAge` has passed since, in which the bucket would have filled up anyway
(`IdleAssumption`), so the fresh one is worth no more.

`ProductQuery`: `KeysetRefines` rests on `CursorInv`: all that a keyset walk got is at or
before its cursor, and what has matched ever since and is at or before the cursor was
returned. It is inductive because a page is a front of what lies behind the cursor
(`FrontPage`, from the monotonicity of `Rank`), never empty while something does
(`RoomForOne`: the limit is at least 1 whatever cap and budget leave), and because a
change can only take from `steady`. Each step then maps to `Yield`, `Finish`, `Change`
or a stutter. `OffsetExact` adds `OffsetInv`: on a quiet table a walk got the first
`offset` rows of its selection, and the next page are the rows after them (`NextPage`).
`EmulationHolds` is an argument about the operators (`EmulationSound`, `EmulationExact`:
case by case over the forms of a pattern; `TakenForMeans` says what the pattern, as the
emulation takes it, denotes) and `ShownInv` that what is shown went through
`FilterPrices`.

`Serve`: `PoolInv` says that a replica has exactly one session until it listens,
`SessionInv` that the session running the schema is the one holding lock 42; both follow
the session through kills, timeouts and the pool's own closing of it. `RequestInv` keeps
requests away from replicas that are starting. `AnswersWhole` follows the chain of writers
link by link. `Holds` says what the chain holds of a reply, header or not and any number
of body bytes, and is kept by every link (`NetHeaderSends`, `NetWriteSends`,
`HeaderHolds`, `WriteHolds`), so that it can be finished at any moment: by the handler's
return (`HoldsWhole`) or by its panic (`RecoveredWhole`).

### The vendors

`AWSPriceFile`: `DecoderInv` says where the decoder is and that between two sections the
last one is behind it as a whole, `RawInv` that everything behind it is in
`awsRawPricing`. `AzureService`: `FoldedInv`, the builder holds under each key exactly
the prices of the rows fetched for it; `SlotIsKept` and `TierIsLeft` (a finite set has a
minimal element, `MinimalExists`) then say what the two deduplications leave.
`GCPCompute`: `CatalogueInv`, every SKU fetched is in the list in each region, whatever
order the map iteration gave (`SeqOfSet`). For the machine types `IndexInv` says that the
index holds, under every key, the lowest positive price among the products indexed so
far (0 for none), which one more product keeps (`LowerIsLowest`); when all are indexed
and all SKUs fetched that is the lowest list price (`IndexIsListPrice`), so the options a
type is sold under are those offered (`SoldIsOffered`). `OffersInv` carries the rows
across scrapes: a later one finds the same catalogue and writes the same prices, in
another order perhaps.

### Only model-checked

* Liveness (`RunningRowsResolve`, `LocksAreReleased`, `EveryRequestEnds`, `ConnsComeBack`,
  `SignalledServerExits`, `StartsEnd`): fairness and ENABLED are beyond the prover.
* `RefusalIsExact`: `QueryAST` walks a document recursively, and what a recursive
  operator computes for every input needs an induction the prover cannot do. It is the
  only invariant of a run that no theorem states.
* The three violated runs, and the claims the repository makes and the code does not
  keep (section 3), are refuted by counterexamples, which need no proof.

## 6. Not modelled

* Authentication, client address, CORS, security headers, request ids: functions of
  one request's headers without state.
* Metrics and tracing: counters nothing in the program reads; the status a request is
  counted under is part of `AnswerIsWhole`.
* Configuration: read once; its values are the CONSTANTS.
* The catalogue bundle: embedded files; its answers (200, 304) are among those of
  `Serve`.
* Hashing: a product's identity stands for its hash.
* `RecordPriceSnapshots`: off by default, a table without a reader.
* Attribute extraction and normalisation of the three scrapers, and product families:
  pure functions on strings that no property tells apart.
* Flush, Hijack and pre-set Content-Encoding in `gzipResponseWriter`: no handler of this
  program uses them.
* Deadlocks between two upserts inside Postgres: row locks are below this model; their
  effect, one statement fails, is an outcome of every statement in `ScrapeRun`.

## 7. Plan

1. Model GCP's handler call for the machine types as a step of `ScrapeRun`.
2. Abstract: a `FanOut` specification (each service ends done, counted or in the
   returned error) that the scrapers' part of `ScrapeRun` implements, and the proof that
   it does.
3. Compose `Status` with `ScrapeRun` through `HistoryImplemented`: the theorems about
   `/status` then hold of the table the scrapes write.
