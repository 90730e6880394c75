----------------------------- MODULE ScrapeRun -----------------------------
(***************************************************************************)
(* The scrape command over its Postgres database: cmd/server/main.go's     *)
(* scrapeCmd and runOneScrape, with the statements of internal/db they     *)
(* issue.  One process is one runOneScrape goroutine, the processes of one *)
(* `scrape' command share an errgroup context, and every SQL statement is  *)
(* one step.  The scrapers are modelled by what runOneScrape sees of them: *)
(* a set of services fetched one by one and handed to the handler.         *)
(*                                                                         *)
(* The data kept: a product is its hash; its sku, attributes and prices    *)
(* are one value (Contents), because the upsert only asks whether they     *)
(* changed.  A scrape_runs row keeps the columns the program reads back.   *)
(***************************************************************************)
EXTENDS Integers, FiniteSets

CONSTANTS
  Vendors, Services, Products, Contents,
  ServiceVendor,   \* the vendor of a service
  ServiceOf,       \* the service a product is listed by
  Procs, Commands,
  VendorOf,        \* the vendor a process scrapes
  CommandOf,       \* the `scrape' command a process is a goroutine of
  AWSTasks,        \* services of the AWS scraper: a fetch error is always counted
  EC2Regions,      \* AWSTasks streamed per region, after the collected ones
  Discoverable,    \* GCP services whose id comes from service discovery
  BatchLen,        \* len(products) of a batch: counts in-batch duplicates
  ChunkSize,       \* rows of one upsert statement (1000 in the code)
  Concurrency,     \* ConcurrencyForVendor: services in flight at once
  MaxRuns,         \* bound: scrape_runs ids
  LongRuns,        \* may a live run be older than the reaper's timeout?
  Budget,          \* bound: how often each environment event may happen
  InitUpstream,    \* the catalogues upstream may start with
  InitStored,      \* the products earlier runs or `seed' may have left
  Absent, NoProc

EnvEvents == {"invoke", "fault", "kill", "stray", "pgcrash", "cancel", "undiscovered", "change", "seed"}

RunIds == 1 .. MaxRuns

ASSUME StructureAssumption ==
  /\ ServiceVendor \in [Services -> Vendors]
  /\ ServiceOf \in [Products -> Services]
  /\ VendorOf \in [Procs -> Vendors]
  /\ CommandOf \in [Procs -> Commands]
  /\ EC2Regions \subseteq AWSTasks
  /\ AWSTasks \subseteq Services
  /\ Discoverable \subseteq Services
  /\ Absent \notin Contents \cup Vendors
  /\ NoProc \notin Procs
  /\ InitUpstream \subseteq [Products -> Contents \cup {Absent}]
  /\ InitStored \subseteq [Products -> Contents \cup {Absent}]

ASSUME NumberAssumption ==
  /\ BatchLen \in [SUBSET Products -> Nat]
  /\ ChunkSize \in Nat \ {0}
  /\ Concurrency \in Nat \ {0}
  /\ MaxRuns \in Nat
  /\ LongRuns \in BOOLEAN
  /\ Budget \in [EnvEvents -> Nat]

\* A list is at least as long as the set of its products.
ASSUME BatchLenAssumption ==
  \A B \in SUBSET Products :
    /\ B # {} => BatchLen[B] > 0
    /\ IsFiniteSet(B) => BatchLen[B] >= Cardinality(B)

VARIABLES
  \* upstream price APIs
  upstream,
  \* Postgres
  products, updatedAt, scrapeRuns, nextRun, scrapeSeen, locks, now,
  \* statements whose client is gone, still under way in Postgres
  stray,
  \* the scrape processes
  pc, res, ctxDone, runID, scrapeStart, svc, batch, pending, total, failed,
  scrapeErr, prevCount,
  \* what is left of Budget
  budget

db == <<products, updatedAt, stray, scrapeRuns, nextRun, scrapeSeen, locks, now>>
table == <<products, updatedAt, stray>>
scraping == <<svc, batch, pending, total, failed, scrapeErr>>
locals == <<runID, scrapeStart, scraping, prevCount>>
control == <<pc, res, ctxDone>>
vars == <<upstream, db, control, locals, budget>>

-----------------------------------------------------------------------------
(* Rows *)

NoRun == [vendor |-> Absent, status |-> "absent", startedAt |-> 0, finishedAt |-> 0, products |-> 0]

RunRow == [vendor : Vendors \cup {Absent},
           status : {"absent", "running", "success", "failed"},
           startedAt : Nat, finishedAt : Nat, products : Nat]

\* A statement on products or scrape_seen: the rows it names (Absent elsewhere), and
\* the NOW() of an upsert or the cutoff of a DELETE.
Statement == [kind : {"upsert", "mark", "delete"}, run : RunIds \cup {0}, at : Nat,
              rows : [Products -> Contents \cup {Absent}]]

RowsOf(o) == {h \in Products : o.rows[h] # Absent}

Steps == {"lock", "begin", "insert", "scrape", "finishErr", "prev", "finishEmpty",
          "count", "delete", "finish", "prune", "clear", "unlock", "done"}

\* Between AcquireScrapeLock and its deferred release.
Holding == Steps \ {"lock", "done"}

\* A run has its scrape_runs row and has not yet written its outcome.
Unfinished == {"scrape", "finishErr", "prev", "finishEmpty", "count", "delete", "finish"}

SvcStates == {"todo", "fetched", "done", "failed", "missed"}

TypeOK ==
  /\ upstream \in [Products -> Contents \cup {Absent}]
  /\ products \in [Products -> Contents \cup {Absent}]
  /\ updatedAt \in [Products -> Nat]
  /\ scrapeRuns \in [RunIds -> RunRow]
  /\ nextRun \in 1 .. MaxRuns + 1
  /\ scrapeSeen \in [RunIds -> SUBSET Products]
  /\ locks \in [Vendors -> Procs \cup {NoProc}]
  /\ now \in Nat
  /\ stray \in SUBSET Statement
  /\ pc \in [Procs -> Steps]
  /\ res \in [Procs -> {"ok", "empty", "err", "killed"}]
  /\ ctxDone \in [Procs -> BOOLEAN]
  /\ runID \in [Procs -> RunIds \cup {0}]
  /\ scrapeStart \in [Procs -> Nat]
  /\ svc \in [Procs -> [Services -> SvcStates]]
  /\ batch \in [Procs -> [Products -> Contents \cup {Absent}]]
  /\ pending \in [Procs -> SUBSET Products]
  /\ total \in [Procs -> Nat]
  /\ failed \in [Procs -> Nat]
  /\ scrapeErr \in [Procs -> BOOLEAN]
  /\ prevCount \in [Procs -> Nat]
  /\ budget \in [EnvEvents -> Nat]

\* The database holds what earlier runs or `seed' left in it, all stamped 0;
\* no scrape has been recorded and no command is running.
Init ==
  /\ upstream \in InitUpstream
  /\ products \in InitStored
  /\ updatedAt = [h \in Products |-> 0]
  /\ scrapeRuns = [r \in RunIds |-> NoRun]
  /\ nextRun = 1
  /\ scrapeSeen = [r \in RunIds |-> {}]
  /\ locks = [v \in Vendors |-> NoProc]
  /\ now = 0
  /\ stray = {}
  /\ pc = [p \in Procs |-> "done"]
  /\ res = [p \in Procs |-> "ok"]
  /\ ctxDone = [p \in Procs |-> FALSE]
  /\ runID = [p \in Procs |-> 0]
  /\ scrapeStart = [p \in Procs |-> 0]
  /\ svc = [p \in Procs |-> [s \in Services |-> "todo"]]
  /\ batch = [p \in Procs |-> [h \in Products |-> Absent]]
  /\ pending = [p \in Procs |-> {}]
  /\ total = [p \in Procs |-> 0]
  /\ failed = [p \in Procs |-> 0]
  /\ scrapeErr = [p \in Procs |-> FALSE]
  /\ prevCount = [p \in Procs |-> 0]
  /\ budget = Budget

Spend(e) == budget[e] > 0 /\ budget' = [budget EXCEPT ![e] = @ - 1]

ServicesOf(v) == {s \in Services : ServiceVendor[s] = v}
ProductsOf(v) == {h \in Products : ServiceVendor[ServiceOf[h]] = v}

-----------------------------------------------------------------------------
(* How a statement can go wrong.  With its context already done pgx        *)
(* refuses it and nothing reaches the server; a fault is a lost connection *)
(* or a server error, and the statement may have been applied all the same *)
(* or be applied later: its session in Postgres outlives the client's.     *)

Refused(cancelled) == cancelled /\ UNCHANGED budget

Faulted == Spend("fault")

\* The client's connections are lost by event e, the statements S run on without it.
Stranded(e, S) ==
  /\ budget[e] > 0 /\ budget["stray"] > 0
  /\ budget' = [budget EXCEPT ![e] = @ - 1, !["stray"] = @ - 1]
  /\ stray' = stray \cup S

\* The handler runs under the errgroup's context, which the first error cancels.
HandlerCancelled(p) == ctxDone[p] \/ scrapeErr[p]

Goto(p, step) == pc' = [pc EXCEPT ![p] = step]

-----------------------------------------------------------------------------
(* Lock, start of the run *)

For(S, f, x) == [p \in Procs |-> IF p \in S THEN x ELSE f[p]]

\* The locals of runOneScrape and of its scraper go with the call.
Discard(S) ==
  /\ scrapeStart' = For(S, scrapeStart, 0)
  /\ svc' = For(S, svc, [s \in Services |-> "todo"])
  /\ batch' = For(S, batch, [h \in Products |-> Absent])
  /\ pending' = For(S, pending, {})
  /\ total' = For(S, total, 0)
  /\ failed' = For(S, failed, 0)
  /\ scrapeErr' = For(S, scrapeErr, FALSE)
  /\ prevCount' = For(S, prevCount, 0)

\* scrapeCmd: a command starts one goroutine per vendor under a fresh context.
Invoke(c) ==
  LET mine == {p \in Procs : CommandOf[p] = c}
  IN /\ Spend("invoke")
     /\ mine # {} /\ \A p \in mine : pc[p] = "done"
     /\ pc' = For(mine, pc, "lock")
     /\ res' = For(mine, res, "ok")
     /\ ctxDone' = For(mine, ctxDone, FALSE)
     /\ runID' = For(mine, runID, 0)
     /\ UNCHANGED <<upstream, db, scrapeStart, scraping, prevCount>>

\* runOneScrape returns: an error cancels the context the command's goroutines share.
Return(p, r) ==
  /\ Goto(p, "done")
  /\ res' = [res EXCEPT ![p] = r]
  /\ ctxDone' = [q \in Procs |-> ctxDone[q] \/ (r = "err" /\ CommandOf[q] = CommandOf[p])]
  /\ Discard({p})
  /\ UNCHANGED runID

\* Mutant: the result of pg_try_advisory_lock is not looked at.
MutantLockFree(v) == TRUE

LockFree(v) == locks[v] = NoProc

\* pg_try_advisory_lock on a connection of its own; a busy lock skips the run
\* and counts as a good result, and a connection that failed is not reused.
AcquireScrapeLock(p) ==
  /\ pc[p] = "lock"
  /\ \/ /\ ~ctxDone[p] /\ LockFree(VendorOf[p])
        /\ locks' = [locks EXCEPT ![VendorOf[p]] = p]
        /\ Goto(p, "begin")
        /\ UNCHANGED <<res, ctxDone, locals, budget>>
     \/ /\ ~ctxDone[p] /\ ~LockFree(VendorOf[p])
        /\ Return(p, "ok")
        /\ UNCHANGED <<locks, budget>>
     \/ /\ Refused(ctxDone[p]) \/ Faulted
        /\ Return(p, "err")
        /\ UNCHANGED locks
  /\ UNCHANGED <<upstream, table, scrapeRuns, nextRun, scrapeSeen, now>>

\* Errors before the run is recorded: only the lock is to be released.
FailEarly(p) ==
  /\ Goto(p, "unlock")
  /\ res' = [res EXCEPT ![p] = "err"]
  /\ UNCHANGED ctxDone

\* SELECT now(): everything already written is older than scrapeStart.
SelectNow(p) ==
  /\ pc[p] = "begin"
  /\ \/ /\ ~ctxDone[p]
        /\ now' = now + 1
        /\ scrapeStart' = [scrapeStart EXCEPT ![p] = now + 1]
        /\ Goto(p, "insert")
        /\ UNCHANGED <<res, ctxDone, budget>>
     \/ /\ Refused(ctxDone[p]) \/ Faulted
        /\ FailEarly(p)
        /\ UNCHANGED <<now, scrapeStart>>
  /\ UNCHANGED <<upstream, table, scrapeRuns, nextRun, scrapeSeen, locks, runID, scraping, prevCount>>

InsertRun(p) ==
  /\ nextRun <= MaxRuns
  /\ nextRun' = nextRun + 1
  /\ scrapeRuns' = [scrapeRuns EXCEPT ![nextRun] =
       [vendor |-> VendorOf[p], status |-> "running", startedAt |-> scrapeStart[p],
        finishedAt |-> 0, products |-> 0]]

StartScrapeRun(p) ==
  /\ pc[p] = "insert"
  /\ \/ /\ ~ctxDone[p]
        /\ InsertRun(p)
        /\ runID' = [runID EXCEPT ![p] = nextRun]
        /\ Goto(p, "scrape")
        /\ UNCHANGED <<res, ctxDone, budget>>
     \/ /\ \/ (Refused(ctxDone[p]) \/ Faulted) /\ UNCHANGED <<scrapeRuns, nextRun>>
           \/ ~ctxDone[p] /\ Faulted /\ InsertRun(p)
        /\ FailEarly(p)
        /\ UNCHANGED runID
  /\ UNCHANGED <<upstream, table, scrapeSeen, locks, now, scrapeStart, scraping, prevCount>>

-----------------------------------------------------------------------------
(* ScrapeWithHandler and the handler *)

\* The services one handler call covers: AWS collects everything outside the
\* EC2 regions and hands it over at once, the others hand over each service.
Unit(s) == IF s \in AWSTasks \ EC2Regions
             THEN {t \in AWSTasks \ EC2Regions : ServiceVendor[t] = ServiceVendor[s]}
             ELSE {s}

UnitsOf(v) == {Unit(s) : s \in ServicesOf(v)}

Settled(p, S) == \A s \in S : svc[p][s] \in {"done", "failed", "missed"}

\* EC2 regions start once the collected services were handed over.
MayStart(p, s) ==
  /\ pc[p] = "scrape" /\ s \in ServicesOf(VendorOf[p]) /\ svc[p][s] = "todo"
  /\ s \in EC2Regions => /\ Settled(p, ServicesOf(VendorOf[p]) \ EC2Regions)
                         /\ ~scrapeErr[p]

InFlight(p) == {s \in Services : svc[p][s] = "fetched"}

\* scrapeService returned its products; a service without any needs no handler.
FetchService(p, s) ==
  LET listed == {h \in Products : ServiceOf[h] = s /\ upstream[h] # Absent}
  IN /\ MayStart(p, s) /\ ~HandlerCancelled(p)
     /\ Cardinality(InFlight(p) \ Unit(s)) < Concurrency
     /\ batch' = [batch EXCEPT ![p] = [h \in Products |->
                    IF ServiceOf[h] = s THEN upstream[h] ELSE batch[p][h]]]
     /\ pending' = [pending EXCEPT ![p] = @ \cup listed]
     /\ svc' = [svc EXCEPT ![p][s] = IF listed = {} THEN "done" ELSE "fetched"]
     /\ UNCHANGED <<upstream, db, control, runID, scrapeStart, total, failed, scrapeErr, prevCount, budget>>

\* The service is given up: the group's error, or one more failed service.
GiveUp(p, S, isErr) ==
  /\ svc' = [svc EXCEPT ![p] = [t \in Services |-> IF t \in S THEN "failed" ELSE svc[p][t]]]
  /\ scrapeErr' = [scrapeErr EXCEPT ![p] = @ \/ isErr]
  /\ failed' = [failed EXCEPT ![p] = IF isErr THEN @ ELSE @ + 1]

\* A fetch error.  Azure and GCP return it when the context is done; AWS counts it.
FetchFails(p, s) ==
  /\ MayStart(p, s)
  /\ GiveUp(p, {s}, HandlerCancelled(p) /\ s \notin AWSTasks)
  /\ UNCHANGED <<upstream, db, control, runID, scrapeStart, batch, pending, total, prevCount, budget>>

\* Service discovery failed or did not list the service: it is not scraped and
\* nothing is counted.
ServiceUndiscovered(p, s) ==
  /\ MayStart(p, s) /\ s \in Discoverable
  /\ Spend("undiscovered")
  /\ svc' = [svc EXCEPT ![p][s] = "missed"]
  /\ UNCHANGED <<upstream, db, control, runID, scrapeStart, batch, pending, total, failed, scrapeErr, prevCount>>

\* The handler call of unit u is under way.
Handling(p, u) ==
  /\ pc[p] = "scrape"
  /\ \A s \in u : svc[p][s] # "todo"
  /\ \E s \in u : svc[p][s] = "fetched"

Fetched(p, u) == {s \in u : svc[p][s] = "fetched"}
Handed(p, u) == {h \in Products : ServiceOf[h] \in Fetched(p, u) /\ batch[p][h] # Absent}
ToUpsert(p, u) == Handed(p, u) \cap pending[p]

\* Mutant: ON CONFLICT DO NOTHING.
MutantUpsert(B, content) ==
  LET inserted == {h \in B : products[h] = Absent}
  IN /\ products' = [h \in Products |-> IF h \in inserted THEN content[h] ELSE products[h]]
     /\ updatedAt' = [h \in Products |-> IF h \in inserted THEN now ELSE updatedAt[h]]

\* INSERT ... ON CONFLICT: an unchanged row is skipped and keeps its updated_at.
UpsertAt(B, content, stamp) ==
  LET changed == {h \in B : products[h] # content[h]}
  IN /\ products' = [h \in Products |-> IF h \in changed THEN content[h] ELSE products[h]]
     /\ updatedAt' = [h \in Products |-> IF h \in changed THEN stamp ELSE updatedAt[h]]

Upsert(B, content) == UpsertAt(B, content, now)

\* One statement of UpsertProducts: full chunks until the rest fits.
IsChunk(C, rest) == C # {} /\ (Cardinality(C) = ChunkSize \/ (C = rest /\ Cardinality(C) < ChunkSize))

UpsertBatch(p, u) ==
  /\ Handling(p, u) /\ ~HandlerCancelled(p)
  /\ \E C \in SUBSET ToUpsert(p, u) :
       /\ IsChunk(C, ToUpsert(p, u))
       /\ Upsert(C, batch[p])
       /\ pending' = [pending EXCEPT ![p] = @ \ C]
  /\ UNCHANGED <<upstream, stray, scrapeRuns, nextRun, scrapeSeen, locks, now, control, runID, scrapeStart,
                 svc, batch, total, failed, scrapeErr, prevCount, budget>>

\* The whole batch is upserted: mark it seen, then add its length to the total.
MarkSeen(p, u) ==
  /\ Handling(p, u) /\ ToUpsert(p, u) = {} /\ ~HandlerCancelled(p)
  /\ scrapeSeen' = [scrapeSeen EXCEPT ![runID[p]] = @ \cup Handed(p, u)]
  /\ total' = [total EXCEPT ![p] = @ + BatchLen[Handed(p, u)]]
  /\ svc' = [svc EXCEPT ![p] = [s \in Services |-> IF s \in Fetched(p, u) THEN "done" ELSE svc[p][s]]]
  /\ UNCHANGED <<upstream, table, scrapeRuns, nextRun, locks, now, control, runID, scrapeStart,
                 batch, pending, failed, scrapeErr, prevCount, budget>>

StatementOf(p, kind, at, C, content) ==
  [kind |-> kind, run |-> runID[p], at |-> at,
   rows |-> [h \in Products |-> IF h \in C THEN content[h] ELSE Absent]]

\* The statement the handler call of unit u is at: a chunk, or the marks.
HandlerStatements(p, u) ==
  IF ~Handling(p, u) \/ HandlerCancelled(p) THEN {}
  ELSE IF ToUpsert(p, u) = {} THEN {StatementOf(p, "mark", now, Handed(p, u), batch[p])}
  ELSE {StatementOf(p, "upsert", now, C, batch[p]) :
          C \in {D \in SUBSET ToUpsert(p, u) : IsChunk(D, ToUpsert(p, u))}}

\* A statement of the handler fails: EC2 regions count it, the others return it.
HandlerFails(p, u) ==
  /\ Handling(p, u)
  /\ \/ Refused(HandlerCancelled(p)) /\ UNCHANGED <<table, scrapeSeen>>
     \/ Faulted /\ UNCHANGED <<table, scrapeSeen>>
     \/ /\ ~HandlerCancelled(p) /\ Faulted
        /\ IF ToUpsert(p, u) # {}
             THEN /\ \E C \in SUBSET ToUpsert(p, u) : IsChunk(C, ToUpsert(p, u)) /\ Upsert(C, batch[p])
                  /\ UNCHANGED scrapeSeen
             ELSE /\ scrapeSeen' = [scrapeSeen EXCEPT ![runID[p]] = @ \cup Handed(p, u)]
                  /\ UNCHANGED <<products, updatedAt>>
        /\ UNCHANGED stray
     \/ /\ \E o \in HandlerStatements(p, u) : Stranded("fault", {o})
        /\ UNCHANGED <<products, updatedAt, scrapeSeen>>
  /\ GiveUp(p, Fetched(p, u), u \cap EC2Regions = {})
  /\ UNCHANGED <<upstream, scrapeRuns, nextRun, locks, now, control, runID, scrapeStart,
                 batch, pending, total, prevCount>>

\* streamEC2ByRegion: some region failed and none brought a product.
AllRegionsFailed(p) ==
  LET regions == EC2Regions \cap ServicesOf(VendorOf[p])
  IN /\ \E s \in regions : svc[p][s] = "failed"
     /\ \A h \in Products : ServiceOf[h] \in regions /\ svc[p][ServiceOf[h]] = "done" => batch[p][h] = Absent

ScrapeReturnsNil(p) ==
  /\ pc[p] = "scrape"
  /\ Settled(p, ServicesOf(VendorOf[p]))
  /\ ~scrapeErr[p] /\ ~AllRegionsFailed(p)
  /\ Goto(p, "prev")
  /\ UNCHANGED <<upstream, db, res, ctxDone, locals, budget>>

\* g.Wait returned an error, the EC2 region index could not be read, or every
\* EC2 region failed.
ScrapeReturnsError(p) ==
  LET mine == ServicesOf(VendorOf[p])
      regions == EC2Regions \cap mine
  IN /\ pc[p] = "scrape"
     /\ InFlight(p) = {}
     /\ \/ scrapeErr[p]
        \/ /\ regions # {} /\ Settled(p, mine \ regions)
           /\ \A s \in regions : svc[p][s] = "todo"
        \/ Settled(p, mine) /\ AllRegionsFailed(p)
     /\ Goto(p, "finishErr")
     /\ UNCHANGED <<upstream, db, res, ctxDone, locals, budget>>

-----------------------------------------------------------------------------
(* After the scrape: guards, stale cleanup, bookkeeping *)

SuccessRuns(v) == {r \in RunIds : scrapeRuns[r].vendor = v /\ scrapeRuns[r].status = "success"}

\* Mutant: a missing row scans as -1.
MutantLastSuccessCount(v) == -1

\* ORDER BY finished_at DESC LIMIT 1; no row leaves prevCount at 0.
LastSuccessCount(v) ==
  IF SuccessRuns(v) = {} THEN 0
  ELSE LET last == CHOOSE r \in SuccessRuns(v) :
                     \A q \in SuccessRuns(v) : scrapeRuns[q].finishedAt <= scrapeRuns[r].finishedAt
       IN scrapeRuns[last].products

\* Mutants of AfterPrev: no half-drop guard, failed services ignored, an empty
\* run returns without recording anything.
MutantNoHalfGuard(p, prev) ==
  IF total[p] = 0 THEN "finishEmpty" ELSE IF failed[p] > 0 THEN "finish" ELSE "count"
MutantIgnoresFailed(p, prev) ==
  IF total[p] = 0 THEN "finishEmpty" ELSE "count"
MutantEmptyReturns(p, prev) ==
  IF total[p] = 0 THEN "clear" ELSE IF failed[p] > 0 THEN "finish" ELSE "count"

\* The guards of the cleanup switch, in the order of its cases.
AfterPrev(p, prev) ==
  IF total[p] = 0 THEN "finishEmpty"
  ELSE IF failed[p] > 0 THEN "finish"
  ELSE IF prev > 0 /\ total[p] < prev \div 2 THEN "finish"
  ELSE "count"

\* The previous run's count is read and its error ignored.
ReadPrevCount(p) ==
  /\ pc[p] = "prev"
  /\ \E prev \in {0, LastSuccessCount(VendorOf[p])} :
       /\ \/ ~ctxDone[p] /\ prev = LastSuccessCount(VendorOf[p]) /\ UNCHANGED budget
          \/ prev = 0 /\ (Refused(ctxDone[p]) \/ Faulted)
       /\ prevCount' = [prevCount EXCEPT ![p] = prev]
       /\ Goto(p, AfterPrev(p, prev))
  /\ UNCHANGED <<upstream, db, res, ctxDone, runID, scrapeStart, scraping>>

seenSetComplete(seen, ingested) == seen > 0 /\ seen >= ingested \div 2

\* deleteStaleIfSeenSetComplete, first statement: its error skips the cleanup.
CountSeen(p) ==
  /\ pc[p] = "count"
  /\ \/ /\ ~ctxDone[p] /\ UNCHANGED budget
        /\ Goto(p, IF seenSetComplete(Cardinality(scrapeSeen[runID[p]]), total[p])
                     THEN "delete" ELSE "finish")
     \/ /\ Refused(ctxDone[p]) \/ Faulted
        /\ Goto(p, "finish")
  /\ UNCHANGED <<upstream, db, res, ctxDone, locals>>

\* Mutant: staleness by updated_at alone, as before scrape_seen existed.
MutantStaleProducts(p) ==
  {h \in ProductsOf(VendorOf[p]) : products[h] # Absent /\ updatedAt[h] < scrapeStart[p]}

StaleProducts(p) ==
  {h \in ProductsOf(VendorOf[p]) :
     products[h] # Absent /\ updatedAt[h] < scrapeStart[p] /\ h \notin scrapeSeen[runID[p]]}

Delete(S) == products' = [h \in Products |-> IF h \in S THEN Absent ELSE products[h]]

\* The DELETE as sent: the rows it sees stale are fixed by its snapshot.
CleanupStatement(p) == StatementOf(p, "delete", scrapeStart[p], StaleProducts(p), products)

DeleteStaleProducts(p) ==
  /\ pc[p] = "delete"
  /\ \/ ~ctxDone[p] /\ (UNCHANGED budget \/ Faulted) /\ Delete(StaleProducts(p)) /\ UNCHANGED stray
     \/ (Refused(ctxDone[p]) \/ Faulted) /\ UNCHANGED <<products, stray>>
     \/ ~ctxDone[p] /\ Stranded("fault", {CleanupStatement(p)}) /\ UNCHANGED products
  /\ Goto(p, "finish")
  /\ UNCHANGED <<upstream, updatedAt, scrapeRuns, nextRun, scrapeSeen, locks, now, res, ctxDone, locals>>

\* A row as its outcome leaves it.
Outcome(row, status, n) ==
  [vendor |-> row.vendor, status |-> status, startedAt |-> row.startedAt,
   finishedAt |-> now + 1, products |-> n]

\* UPDATE scrape_runs ... WHERE id: no row, no effect; a finished row is overwritten.
SetOutcome(r, status, n) ==
  /\ now' = now + 1
  /\ scrapeRuns' = IF scrapeRuns[r].status = "absent" THEN scrapeRuns
                   ELSE [scrapeRuns EXCEPT ![r] = Outcome(scrapeRuns[r], status, n)]

\* FinishScrapeRun under a context; its error is at most logged.
FinishScrapeRun(p, cancelled, status, n) ==
  \/ ~cancelled /\ (UNCHANGED budget \/ Faulted) /\ SetOutcome(runID[p], status, n)
  \/ (Refused(cancelled) \/ Faulted) /\ UNCHANGED <<scrapeRuns, now>>

\* The three ways a run ends: a scrape error (recorded under a background
\* context), no products at all, and success.
Finish(p) ==
  /\ \/ /\ pc[p] = "finishErr"
        /\ FinishScrapeRun(p, FALSE, "failed", total[p])
        /\ res' = [res EXCEPT ![p] = "err"]
        /\ Goto(p, "clear")
     \/ /\ pc[p] = "finishEmpty"
        /\ FinishScrapeRun(p, ctxDone[p], "failed", 0)
        /\ res' = [res EXCEPT ![p] = "empty"]
        /\ Goto(p, "clear")
     \/ /\ pc[p] = "finish"
        /\ FinishScrapeRun(p, ctxDone[p], "success", total[p])
        /\ UNCHANGED res
        /\ Goto(p, "prune")
  /\ UNCHANGED <<upstream, table, nextRun, scrapeSeen, locks, ctxDone, locals>>

\* Rows finished before the retention cutoff go, whichever vendor's; cutoff 0
\* is retention switched off.
PruneScrapeRuns(p) ==
  /\ pc[p] = "prune"
  /\ \/ /\ ~ctxDone[p] /\ UNCHANGED budget
        /\ \E cutoff \in 0 .. now :
             scrapeRuns' = [r \in RunIds |->
               IF scrapeRuns[r].finishedAt # 0 /\ scrapeRuns[r].finishedAt < cutoff
                 THEN NoRun ELSE scrapeRuns[r]]
     \/ (Refused(ctxDone[p]) \/ Faulted) /\ UNCHANGED scrapeRuns
  /\ Goto(p, "clear")
  /\ UNCHANGED <<upstream, table, nextRun, scrapeSeen, locks, now, res, ctxDone, locals>>

\* Mutant: the sweep does not ask which runs are still running.
MutantSweptRuns(r) == RunIds

\* Its own rows, and those of every run that is not recorded as running.
SweptRuns(r) == {r} \cup {q \in RunIds : scrapeRuns[q].status # "running"}

\* Deferred, under a background context.
ClearSeen(p) ==
  /\ pc[p] = "clear"
  /\ \/ /\ UNCHANGED budget \/ Faulted
        /\ scrapeSeen' = [q \in RunIds |-> IF q \in SweptRuns(runID[p]) THEN {} ELSE scrapeSeen[q]]
     \/ Faulted /\ UNCHANGED scrapeSeen
  /\ Goto(p, "unlock")
  /\ UNCHANGED <<upstream, table, scrapeRuns, nextRun, locks, now, res, ctxDone, locals>>

\* Mutant: the deferred unlock is lost.
MutantFreed(S) == locks

Freed(S) == [v \in Vendors |-> IF locks[v] \in S THEN NoProc ELSE locks[v]]

\* Deferred release; the connection goes back to the pool only if it still works,
\* so the session's lock goes either way.
Unlock(p) ==
  /\ pc[p] = "unlock"
  /\ locks' = Freed({p})
  /\ Return(p, res[p])
  /\ UNCHANGED <<upstream, table, scrapeRuns, nextRun, scrapeSeen, now, budget>>

-----------------------------------------------------------------------------
(* Everything around the scrape processes *)

\* SIGTERM or SIGINT cancels the command's context.
Cancel(c) ==
  /\ Spend("cancel")
  /\ \E p \in Procs : CommandOf[p] = c /\ pc[p] # "done" /\ ~ctxDone[p]
  /\ ctxDone' = [p \in Procs |-> ctxDone[p] \/ CommandOf[p] = c]
  /\ UNCHANGED <<upstream, db, pc, res, locals>>

\* What p may have under way on products and scrape_seen.
UnderWay(p) ==
  (UNION {HandlerStatements(p, u) : u \in UnitsOf(VendorOf[p])})
    \cup (IF pc[p] = "delete" /\ ~ctxDone[p] THEN {CleanupStatement(p)} ELSE {})

\* A run has several statements under way only for different handler calls.
Apart(o, q) ==
  o.run = q.run => \A h \in RowsOf(o), k \in RowsOf(q) : Unit(ServiceOf[h]) # Unit(ServiceOf[k])

\* The process dies, and the session that holds its advisory locks ends.  The
\* statements it had under way run on sessions of their own: they end with it, or
\* go on although the lock is free.
Kill(c) ==
  LET mine == {p \in Procs : CommandOf[p] = c /\ pc[p] # "done"}
  IN /\ mine # {}
     /\ \/ Spend("kill") /\ UNCHANGED stray
        \/ \E S \in SUBSET UNION {UnderWay(p) : p \in mine} :
             /\ S # {} /\ \A o, q \in S : o # q => Apart(o, q)
             /\ Stranded("kill", S)
     /\ pc' = For(mine, pc, "done")
     /\ res' = For(mine, res, "killed")
     /\ locks' = Freed(mine)
     /\ Discard(mine)
     /\ UNCHANGED <<upstream, products, updatedAt, scrapeRuns, nextRun, scrapeSeen, now, ctxDone, runID>>

\* A statement without a client commits.  An upsert is stamped with its own NOW(); a
\* DELETE looks again at the rows that were changed meanwhile.
StrayCommits ==
  \E o \in stray :
    /\ stray' = stray \ {o}
    /\ \/ /\ o.kind = "upsert"
          /\ UpsertAt(RowsOf(o), o.rows, o.at)
          /\ UNCHANGED scrapeSeen
       \/ /\ o.kind = "mark"
          /\ scrapeSeen' = [scrapeSeen EXCEPT ![o.run] = @ \cup RowsOf(o)]
          /\ UNCHANGED <<products, updatedAt>>
       \/ /\ o.kind = "delete"
          /\ Delete({h \in RowsOf(o) : updatedAt[h] < o.at})
          /\ UNCHANGED <<updatedAt, scrapeSeen>>
    /\ UNCHANGED <<upstream, scrapeRuns, nextRun, locks, now, control, locals, budget>>

\* Postgres crashes and recovers: the unlogged scrape_seen is truncated and no
\* session survives, neither its lock nor its statement.  The pool reconnects and the processes go on.
PgCrash ==
  /\ Spend("pgcrash")
  /\ scrapeSeen' = [r \in RunIds |-> {}]
  /\ locks' = [v \in Vendors |-> NoProc]
  /\ stray' = {}
  /\ UNCHANGED <<upstream, products, updatedAt, scrapeRuns, nextRun, now, control, locals>>

\* Mutant: the comparison is the wrong way round.
MutantReapsYoung(cutoff) == {r \in RunIds : scrapeRuns[r].status = "running" /\ scrapeRuns[r].startedAt > cutoff}

\* Rows the reaper takes for dead at this cutoff.
Reapable(cutoff) == {r \in RunIds : scrapeRuns[r].status = "running" /\ scrapeRuns[r].startedAt < cutoff}

\* The server's ticker: rows running since before the cutoff are failed.  Without
\* LongRuns no live run is that old.
ReapStaleScrapeRuns ==
  /\ \E cutoff \in 1 .. now + 1 :
       /\ Reapable(cutoff) # {}
       /\ LongRuns \/ \A p \in Procs : pc[p] \in Unfinished => runID[p] \notin Reapable(cutoff)
       /\ scrapeRuns' = [r \in RunIds |->
            IF r \in Reapable(cutoff)
              THEN Outcome(scrapeRuns[r], "failed", scrapeRuns[r].products)
              ELSE scrapeRuns[r]]
  /\ now' = now + 1
  /\ UNCHANGED <<upstream, table, nextRun, scrapeSeen, locks, control, locals, budget>>

\* A vendor lists, drops or reprices a product.
UpstreamChange ==
  /\ Spend("change")
  /\ \E h \in Products, x \in Contents \cup {Absent} :
       x # upstream[h] /\ upstream' = [upstream EXCEPT ![h] = x]
  /\ UNCHANGED <<db, control, locals>>

\* SeedFromFile upserts products beside any scrape, one chunk at a time.
Seed ==
  /\ Spend("seed")
  /\ \E C \in SUBSET Products, x \in Contents :
       C # {} /\ Cardinality(C) <= ChunkSize /\ Upsert(C, [h \in Products |-> x])
  /\ UNCHANGED <<upstream, stray, scrapeRuns, nextRun, scrapeSeen, locks, now, control, locals>>

-----------------------------------------------------------------------------

ScrapeStep(p) ==
  \/ AcquireScrapeLock(p) \/ SelectNow(p) \/ StartScrapeRun(p)
  \/ \E s \in Services : FetchService(p, s) \/ FetchFails(p, s) \/ ServiceUndiscovered(p, s)
  \/ \E u \in UnitsOf(VendorOf[p]) : UpsertBatch(p, u) \/ MarkSeen(p, u) \/ HandlerFails(p, u)
  \/ ScrapeReturnsNil(p) \/ ScrapeReturnsError(p)
  \/ ReadPrevCount(p) \/ CountSeen(p) \/ DeleteStaleProducts(p)
  \/ Finish(p) \/ PruneScrapeRuns(p) \/ ClearSeen(p) \/ Unlock(p)

Next ==
  \/ \E p \in Procs : ScrapeStep(p)
  \/ \E c \in Commands : Invoke(c) \/ Cancel(c) \/ Kill(c)
  \/ StrayCommits \/ PgCrash \/ ReapStaleScrapeRuns \/ UpstreamChange \/ Seed

Spec == Init /\ [][Next]_vars

\* The processes and the server's reaper keep running; nothing else has to happen.
Fairness == /\ \A p \in Procs : WF_vars(ScrapeStep(p))
            /\ WF_vars(ReapStaleScrapeRuns)

FairSpec == Spec /\ Fairness

-----------------------------------------------------------------------------
(* Properties *)

\* The advisory lock keeps overlapping commands off one vendor: two processes
\* are never both between AcquireScrapeLock and its release for the same vendor.
OneScrapePerVendor ==
  \A p, q \in Procs :
    pc[p] \in Holding /\ pc[q] \in Holding /\ VendorOf[p] = VendorOf[q] => p = q

\* The cleanup p is at may remove h: p read h's service completely and did not
\* find h listed.
Condemned(p, h) ==
  /\ pc[p] = "delete"
  /\ VendorOf[p] = ServiceVendor[ServiceOf[h]]
  /\ svc[p][ServiceOf[h]] = "done"
  /\ batch[p][h] = Absent

\* A products row disappears only in a stale cleanup whose own run fetched the
\* row's service completely and did not find the product listed; a DELETE that
\* commits after its run is gone was sent by such a cleanup.
RowsLeaveOnlyWhenUnlisted ==
  [][/\ \A h \in Products :
          products[h] # Absent /\ products'[h] = Absent =>
            \/ \E p \in Procs : Condemned(p, h)
            \/ \E o \in stray : o.kind = "delete" /\ h \in RowsOf(o)
     /\ \A o \in stray' \ stray : \A h \in RowsOf(o) :
          o.kind = "delete" => \E p \in Procs : Condemned(p, h)]_vars

\* No statement has outlived its client so far.
NoStrayYet == budget["stray"] = Budget["stray"]

\* The lock keeps overlapping scrapes from trampling each other (db.go:97-98): once the
\* scrape has returned and until the run lets go of its lock, the API serves every
\* product it handled with the contents it fetched.  Not so when a statement outlives
\* its client (ScrapeStray.cfg).
ServedAsFetched ==
  \A p \in Procs, h \in Products :
    /\ pc[p] \in {"prev", "count", "delete", "finish", "prune", "clear", "unlock"}
    /\ VendorOf[p] = ServiceVendor[ServiceOf[h]]
    /\ svc[p][ServiceOf[h]] = "done" /\ batch[p][h] # Absent
    => products[h] = batch[p][h]

\* So it does, unless a statement of an earlier scrape outlived its client.
FetchedIsServed == NoStrayYet => ServedAsFetched

\* A cleanup only follows a run that ingested half of what the vendor's last
\* successful run recorded, less half a product at most (the code halves in
\* integers), and leaves the vendor a quarter of that many rows, less three quarters
\* of a row at most.  The guard's comment promises more: HalfDropSkipsCleanup.
CleanupAgainstBaseline ==
  \A p \in Procs :
    pc[p] = "delete" =>
      LET base == LastSuccessCount(VendorOf[p])
          left == {h \in ProductsOf(VendorOf[p]) : products[h] # Absent} \ StaleProducts(p)
      IN /\ 2 * total[p] + 1 >= base
         /\ NoStrayYet => 4 * Cardinality(left) + 3 >= base

\* Guard 2 as its comment has it (main.go:289): stale products are only deleted when
\* the product count did not drop by more than half.  Not so of 1 after 3
\* (ScrapeHalfDrop.cfg).
HalfDropSkipsCleanup ==
  \A p \in Procs : pc[p] = "delete" => 2 * total[p] >= LastSuccessCount(VendorOf[p])

\* The seen-set of a run in progress is complete until its cleanup is over:
\* whatever it upserted and marked is still in scrape_seen.  "Rows of other in-flight
\* runs are kept" (queries.go:689): not those of a run that the reaper takes for dead
\* (ScrapeLongRun.cfg).
SeenSetKept ==
  \A p \in Procs, h \in Products :
    /\ pc[p] \in Unfinished
    /\ svc[p][ServiceOf[h]] = "done" /\ batch[p][h] # Absent
    => h \in scrapeSeen[runID[p]]

NoFaultYet == budget["fault"] = Budget["fault"]

\* The outcome a process leaves on its row is that of the call: success when
\* runOneScrape returned true, failed when it returned false or an error.
OutcomeOf(p) == IF res[p] = "ok" THEN "success" ELSE "failed"

\* A scrape_runs row says how its run ended.  While no statement has failed, the row
\* of a process that is gone, not killed, carries the outcome of the call (or was
\* pruned); if the scrape returned an error even when its context was done, else
\* unless its context was done, which FinishScrapeRun then runs under.  The SIGTERM
\* test says there is no such case: CancelledRunsAreRecorded.
ExitsRecordOutcome ==
  \A p \in Procs :
    pc[p] = "done" /\ res[p] # "killed" /\ runID[p] # 0 /\ NoFaultYet =>
      \/ scrapeRuns[runID[p]].status \in {OutcomeOf(p), "absent"}
      \/ ctxDone[p] /\ res[p] # "err"

\* What the SIGTERM test says of runOneScrape: its bookkeeping survives the
\* cancellation, so the row of a process that is gone is never left running.  Not so
\* after a scrape without an error (ScrapeSigterm.cfg).
CancelledRunsAreRecorded ==
  \A p \in Procs :
    pc[p] = "done" /\ res[p] # "killed" /\ runID[p] # 0 => scrapeRuns[runID[p]].status # "running"

\* With fair scheduling every row leaves 'running': its run records the outcome
\* or the reaper does.
RunningRowsResolve ==
  \A r \in RunIds : scrapeRuns[r].status = "running" ~> scrapeRuns[r].status # "running"

History == INSTANCE RunHistory WITH
  Vendors <- Vendors, MaxRuns <- MaxRuns, Absent <- Absent,
  scrapeRuns <- scrapeRuns, nextRun <- nextRun, now <- now

\* scrape_runs keeps the promise of RunHistory to its readers: one outcome per
\* row, recorded while the run is the vendor's newest, a success only with
\* products, and no row deleted before it has one.
TableKeepsPromise == History!HistorySpec

\* The reading of a vendor is what the holder of its lock has scraped.
ReadingOf(p, s) ==
  IF p = NoProc \/ svc[p][s] = "todo" THEN "unread"
  ELSE IF svc[p][s] \in {"fetched", "done"} THEN "read" ELSE "lost"

reading == [s \in Services |-> ReadingOf(locks[ServiceVendor[s]], s)]

found == [h \in Products |->
  IF reading[ServiceOf[h]] = "read" THEN batch[locks[ServiceVendor[ServiceOf[h]]]][h] ELSE Absent]

\* Found and upserted by that process.
stored == {h \in Products : found[h] # Absent /\ h \notin pending[locks[ServiceVendor[ServiceOf[h]]]]}

Prices == INSTANCE Catalogue WITH reading <- reading, found <- found, stored <- stored, late <- stray

\* The products table keeps the promise of Catalogue to the API: rows are written as
\* the vendor's one reading of now found them and removed only after a complete
\* reading that was stored and did not find them; an older reading reaches the table
\* only through the statements it had under way when it was cut short, each once.
CatalogueKeepsPromise == Prices!CatalogueSpec

\* The vendor's lock is always given back.
LocksAreReleased ==
  \A v \in Vendors : ~LockFree(v) ~> LockFree(v)
-----------------------------------------------------------------------------
(* What the properties rest on: the parts of the inductive invariant.      *)

\* An event without budget never gets any.
BudgetKept == \A e \in EnvEvents : Budget[e] = 0 => budget[e] = 0

\* A process past AcquireScrapeLock is the one the lock names.
LockHeld == \A p \in Procs : pc[p] \in Holding => locks[VendorOf[p]] = p

\* A lock is held by a process of its vendor that is past AcquireScrapeLock.
HoldersHold ==
  \A v \in Vendors : ~LockFree(v) => VendorOf[locks[v]] = v /\ pc[locks[v]] \in Holding

InRun == Unfinished \cup {"prune", "clear"}

\* Runs in progress have rows of their own, running until the run ends them;
\* ids not yet drawn have no row, and a running row has no finished_at.
RunsOwned ==
  /\ \A p \in Procs : pc[p] \in InRun => runID[p] \in RunIds /\ runID[p] < nextRun
  /\ \A p, q \in Procs : pc[p] \in InRun /\ pc[q] \in InRun /\ runID[p] = runID[q] => p = q
  /\ \A p \in Procs : pc[p] \in Unfinished => scrapeRuns[runID[p]].status = "running"
  /\ \A r \in RunIds : r >= nextRun => scrapeRuns[r].status = "absent"
  /\ \A r \in RunIds : scrapeRuns[r].status = "running" => scrapeRuns[r].finishedAt = 0

\* A run starts with nothing scraped.
FreshLocals ==
  \A p \in Procs, s \in Services :
    pc[p] \in {"done", "lock", "begin", "insert"} => svc[p][s] = "todo"

\* A service given up was counted, or the scrape is going to return an error.
FailuresCounted ==
  \A p \in Procs, s \in Services : svc[p][s] = "failed" => failed[p] > 0 \/ scrapeErr[p]

\* Cleanup is only reached when every service of the vendor was scraped.
CleanupComplete ==
  \A p \in Procs, s \in Services :
    ServiceVendor[s] = VendorOf[p] =>
      /\ pc[p] = "prev" => svc[p][s] \in {"done", "failed", "missed"} /\ ~scrapeErr[p]
      /\ pc[p] \in {"count", "delete"} => svc[p][s] \in {"done", "missed"}

\* No service was skipped by a failed discovery.
AllDiscovered == \A p \in Procs, s \in Services : svc[p][s] # "missed"

\* The row of a run in progress is its vendor's newest.
NewestOwned ==
  \A p \in Procs : pc[p] \in Unfinished =>
    /\ scrapeRuns[runID[p]].vendor = VendorOf[p]
    /\ \A r \in RunIds : scrapeRuns[r].vendor = VendorOf[p] => r <= runID[p]

\* finished_at is set exactly on rows with an outcome, and no later than now; a
\* row that is gone has no vendor; a run is stamped before it is inserted.
StampsKept ==
  /\ \A r \in RunIds : /\ scrapeRuns[r].finishedAt <= now
                       /\ scrapeRuns[r].finishedAt # 0 <=> scrapeRuns[r].status \in {"success", "failed"}
                       /\ scrapeRuns[r].status = "absent" => scrapeRuns[r].vendor = Absent
  /\ \A p \in Procs : scrapeStart[p] <= now

\* A run that gets past the empty guard has products.
ProductsCounted ==
  \A p \in Procs : pc[p] \in {"count", "delete", "finish"} => total[p] > 0

\* What a process has scraped and upserted stays in the table until the lock
\* goes, with the contents it wrote unless `seed' overwrites them.
UpsertedIsStored ==
  \A p \in Procs, h \in Products :
    /\ NoStrayYet
    /\ pc[p] \in Holding
    /\ VendorOf[p] = ServiceVendor[ServiceOf[h]]
    /\ svc[p][ServiceOf[h]] = "done" \/ (svc[p][ServiceOf[h]] = "fetched" /\ h \notin pending[p])
    /\ batch[p][h] # Absent
    => products[h] # Absent /\ (Budget["seed"] = 0 => products[h] = batch[p][h])

\* No two successful runs finished at the same instant.
SuccessesOrdered ==
  \A r, q \in RunIds :
    /\ scrapeRuns[r].status = "success" /\ scrapeRuns[q].status = "success"
    /\ scrapeRuns[r].finishedAt = scrapeRuns[q].finishedAt
    => r = q

\* Cleanup is only reached with the half-drop guard passed, unless the context
\* was cancelled, and only deletes with a seen-set that passed its own guard.
BaselineRead ==
  \A p \in Procs :
    /\ pc[p] = "delete" \/ (pc[p] = "count" /\ ~ctxDone[p]) =>
         total[p] >= LastSuccessCount(VendorOf[p]) \div 2
    /\ pc[p] = "delete" => Cardinality(scrapeSeen[runID[p]]) >= total[p] \div 2

\* What a run has marked seen is stored, under its own vendor; nothing is seen
\* under an id not yet drawn.
SeenIsStored ==
  NoStrayYet =>
    /\ \A p \in Procs : pc[p] \in Unfinished =>
         \A h \in scrapeSeen[runID[p]] : ServiceVendor[ServiceOf[h]] = VendorOf[p] /\ products[h] # Absent
    /\ \A r \in RunIds : r >= nextRun => scrapeSeen[r] = {}

\* A handed-over service was upserted as a whole.
DoneIsUpserted ==
  \A p \in Procs, h \in Products :
    svc[p][ServiceOf[h]] = "done" /\ batch[p][h] # Absent => h \notin pending[p]

\* Every process has an id of its own, drawn before.
IdsDistinct ==
  /\ \A p \in Procs : runID[p] < nextRun
  /\ \A p, q \in Procs : runID[p] = runID[q] /\ runID[p] # 0 => p = q

\* A process that is past its outcome, or gone without being killed, left its row as
\* ExitsRecordOutcome says; before its insert it has no row, and until its outcome no
\* error.
OutcomesRecorded ==
  \A p \in Procs :
    /\ pc[p] \in {"lock", "begin", "insert"} => runID[p] = 0
    /\ pc[p] \in {"lock", "begin", "insert"} \cup Unfinished => res[p] = "ok"
    /\ runID[p] # 0 /\ (pc[p] \in {"prune", "clear", "unlock"} \/ (pc[p] = "done" /\ res[p] # "killed")) /\ NoFaultYet
         => scrapeRuns[runID[p]].status \in {OutcomeOf(p), "absent"} \/ (ctxDone[p] /\ res[p] # "err")

BudgetBounded == \A e \in EnvEvents : budget[e] <= Budget[e]

\* The statements that outlived their clients were counted.
StraysCounted == NoStrayYet => stray = {}
=============================================================================
