------------------------ MODULE ScrapeTables_proofs ------------------------
(* Theorems about what ScrapeRun leaves in scrape_runs and products, for   *)
(* every value of its constants.                                           *)
EXTENDS ScrapeRun_proofs

-----------------------------------------------------------------------------
(* What the steps do to the rows of scrape_runs *)

\* The clock only moves forward, and a process is stamped with the clock.
LEMMA ClockMoves ==
  ASSUME TypeOK, [Next]_vars
  PROVE  /\ now' >= now
         /\ \A p \in Procs : scrapeStart'[p] \in {scrapeStart[p], 0, now'}
<1>t. now \in Nat /\ scrapeStart \in [Procs -> Nat]
  BY DEF TypeOK
<1>d. ASSUME NEW S, Discard(S) PROVE \A q \in Procs : scrapeStart'[q] \in {scrapeStart[q], 0}
  BY <1>d DEF Discard, For
<1>1. ASSUME NEW p \in Procs, ScrapeStep(p)
      PROVE  now' >= now /\ \A q \in Procs : scrapeStart'[q] \in {scrapeStart[q], 0, now'}
  <2>1. CASE AcquireScrapeLock(p)
    <3>1. UNCHANGED now /\ (UNCHANGED scrapeStart \/ Discard({p}))
      BY <2>1 DEF AcquireScrapeLock, Return, locals
    <3> QED BY <1>t, <1>d, <3>1
  <2>2. CASE SelectNow(p)
    BY <1>t, <2>2 DEF SelectNow
  <2>3. CASE StartScrapeRun(p)
    BY <1>t, <2>3 DEF StartScrapeRun
  <2>4. CASE \E s \in Services : FetchService(p, s) \/ FetchFails(p, s) \/ ServiceUndiscovered(p, s)
    BY <1>t, <2>4 DEF FetchService, FetchFails, ServiceUndiscovered, db
  <2>5. CASE \E u \in UnitsOf(VendorOf[p]) : UpsertBatch(p, u) \/ MarkSeen(p, u) \/ HandlerFails(p, u)
    BY <1>t, <2>5 DEF UpsertBatch, MarkSeen, HandlerFails
  <2>6. CASE ScrapeReturnsNil(p) \/ ScrapeReturnsError(p)
    BY <1>t, <2>6 DEF ScrapeReturnsNil, ScrapeReturnsError, db, locals
  <2>7. CASE ReadPrevCount(p) \/ CountSeen(p) \/ DeleteStaleProducts(p)
    BY <1>t, <2>7 DEF ReadPrevCount, CountSeen, DeleteStaleProducts, db, locals
  <2>8. CASE Finish(p)
    <3>1. UNCHANGED scrapeStart /\ (UNCHANGED now \/ now' = now + 1)
      BY <2>8 DEF Finish, FinishScrapeRun, SetOutcome, locals
    <3> QED BY <1>t, <3>1
  <2>9. CASE PruneScrapeRuns(p) \/ ClearSeen(p)
    BY <1>t, <2>9 DEF PruneScrapeRuns, ClearSeen, locals
  <2>10. CASE Unlock(p)
    BY <1>t, <1>d, <2>10 DEF Unlock, Return
  <2> QED BY <1>1, <2>1, <2>2, <2>3, <2>4, <2>5, <2>6, <2>7, <2>8, <2>9, <2>10 DEF ScrapeStep
<1>2. ASSUME NEW c \in Commands, Invoke(c) \/ Cancel(c) \/ Kill(c)
      PROVE  now' >= now /\ \A q \in Procs : scrapeStart'[q] \in {scrapeStart[q], 0, now'}
  <2>1. ASSUME Kill(c) PROVE UNCHANGED now /\ \E S : Discard(S)
    BY <2>1 DEF Kill
  <2>2. ASSUME Invoke(c) \/ Cancel(c) PROVE UNCHANGED <<now, scrapeStart>>
    BY <2>2 DEF Invoke, Cancel, db, locals
  <2> QED BY <1>t, <1>d, <1>2, <2>1, <2>2
<1>3. CASE PgCrash \/ UpstreamChange \/ Seed \/ StrayCommits \/ UNCHANGED vars
  <2>1. UNCHANGED <<now, scrapeStart>>
    BY <1>3 DEF PgCrash, UpstreamChange, Seed, StrayCommits, vars, db, locals
  <2> QED BY <1>t, <2>1
<1>4. CASE ReapStaleScrapeRuns
  <2>1. now' = now + 1 /\ UNCHANGED scrapeStart BY <1>4 DEF ReapStaleScrapeRuns, locals
  <2> QED BY <1>t, <2>1
<1> QED BY <1>1, <1>2, <1>3, <1>4 DEF Next

\* What one step may do to one row: insert it under the next id, end it, prune
\* it or leave it.  Only a running row ends, and a row is pruned before any
\* success that finished later.
RowInserted(r, p) ==
  /\ pc[p] = "insert" /\ r = nextRun
  /\ scrapeRuns'[r] = [vendor |-> VendorOf[p], status |-> "running",
                       startedAt |-> scrapeStart[p], finishedAt |-> 0, products |-> 0]

RowEnded(r) ==
  /\ scrapeRuns[r].status = "running" /\ now' = now + 1
  /\ \E status \in {"success", "failed"}, n \in Nat :
       /\ scrapeRuns'[r] = Outcome(scrapeRuns[r], status, n)
       /\ status = "success" => \E p \in Procs : Finish(p) /\ pc[p] = "finish" /\ runID[p] = r

RowPruned(r) ==
  /\ scrapeRuns[r].finishedAt # 0 /\ scrapeRuns'[r] = NoRun
  /\ \A q \in RunIds : scrapeRuns[q].finishedAt > scrapeRuns[r].finishedAt \/ scrapeRuns'[q].status # "success"

LEMMA RowStep ==
  ASSUME TypeOK, RunsOwned, StampsKept, [Next]_vars, NEW r \in RunIds
  PROVE  \/ scrapeRuns'[r] = scrapeRuns[r]
         \/ \E p \in Procs : RowInserted(r, p)
         \/ RowEnded(r)
         \/ RowPruned(r)
<1>t. /\ scrapeRuns \in [RunIds -> RunRow] /\ nextRun \in 1 .. MaxRuns + 1 /\ total \in [Procs -> Nat]
  BY DEF TypeOK
<1>1. ASSUME NEW p \in Procs, StartScrapeRun(p)
      PROVE  scrapeRuns'[r] = scrapeRuns[r] \/ RowInserted(r, p)
  BY <1>t, <1>1 DEF StartScrapeRun, InsertRun, RowInserted
<1>2. ASSUME NEW p \in Procs, Finish(p)
      PROVE  scrapeRuns'[r] = scrapeRuns[r] \/ RowEnded(r)
  <2>1. pc[p] \in Unfinished /\ total[p] \in Nat
    BY <1>2, <1>t DEF Finish, Unfinished
  <2>2. runID[p] \in RunIds /\ scrapeRuns[runID[p]].status = "running"
    BY <2>1 DEF RunsOwned, InRun
  <2>3. \/ UNCHANGED scrapeRuns
        \/ \E status \in {"success", "failed"}, n \in Nat :
             /\ now' = now + 1
             /\ scrapeRuns' = [scrapeRuns EXCEPT ![runID[p]] = Outcome(scrapeRuns[runID[p]], status, n)]
             /\ status = "success" => pc[p] = "finish"
    <3>1. ASSUME NEW x, NEW status, NEW n, FinishScrapeRun(p, x, status, n)
          PROVE  \/ UNCHANGED scrapeRuns
                 \/ /\ now' = now + 1
                    /\ scrapeRuns' = [scrapeRuns EXCEPT ![runID[p]] = Outcome(scrapeRuns[runID[p]], status, n)]
      BY <2>2, <3>1 DEF FinishScrapeRun, SetOutcome
    <3>2. CASE pc[p] = "finishErr" /\ FinishScrapeRun(p, FALSE, "failed", total[p])
      <4>1. CASE UNCHANGED scrapeRuns BY <4>1
      <4>2. CASE /\ now' = now + 1
                 /\ scrapeRuns' = [scrapeRuns EXCEPT ![runID[p]] = Outcome(scrapeRuns[runID[p]], "failed", total[p])]
        BY <2>1, <4>2
      <4> QED BY <3>1, <3>2, <4>1, <4>2
    <3>3. CASE pc[p] = "finishEmpty" /\ FinishScrapeRun(p, ctxDone[p], "failed", 0)
      BY <3>1, <3>3
    <3>4. CASE pc[p] = "finish" /\ FinishScrapeRun(p, ctxDone[p], "success", total[p])
      BY <2>1, <3>1, <3>4
    <3> QED BY <1>2, <3>2, <3>3, <3>4 DEF Finish
  <2> QED BY <1>t, <1>2, <2>2, <2>3 DEF RowEnded
<1>3. ASSUME NEW p \in Procs, PruneScrapeRuns(p)
      PROVE  scrapeRuns'[r] = scrapeRuns[r] \/ RowPruned(r)
  <2>1. ASSUME NEW cutoff \in 0 .. now,
               scrapeRuns' = [q \in RunIds |->
                 IF scrapeRuns[q].finishedAt # 0 /\ scrapeRuns[q].finishedAt < cutoff
                   THEN NoRun ELSE scrapeRuns[q]],
               scrapeRuns'[r] # scrapeRuns[r]
        PROVE  RowPruned(r)
    <3>1. \A q \in RunIds : scrapeRuns[q].finishedAt \in Nat BY <1>t DEF RunRow
    <3>2. cutoff \in Int OBVIOUS
    <3>3. scrapeRuns[r].finishedAt # 0 /\ scrapeRuns[r].finishedAt < cutoff /\ scrapeRuns'[r] = NoRun
      BY <2>1
    <3>4. ASSUME NEW q \in RunIds, scrapeRuns'[q].status = "success"
          PROVE  scrapeRuns[q].finishedAt > scrapeRuns[r].finishedAt
      <4>1. scrapeRuns'[q] = scrapeRuns[q] /\ ~(scrapeRuns[q].finishedAt # 0 /\ scrapeRuns[q].finishedAt < cutoff)
        BY <2>1, <3>4 DEF NoRun
      <4>2. scrapeRuns[q].finishedAt # 0 BY <3>4, <4>1 DEF StampsKept
      <4> QED BY <3>1, <3>2, <3>3, <4>1, <4>2
    <3> QED BY <3>3, <3>4 DEF RowPruned
  <2> QED BY <1>3, <2>1 DEF PruneScrapeRuns
<1>4. ASSUME NEW p \in Procs, ScrapeStep(p), ~StartScrapeRun(p), ~Finish(p), ~PruneScrapeRuns(p)
      PROVE  scrapeRuns'[r] = scrapeRuns[r]
  BY <1>4, RowsStay
<1>5. ASSUME NEW c \in Commands, Invoke(c) \/ Cancel(c) \/ Kill(c) PROVE scrapeRuns'[r] = scrapeRuns[r]
  BY <1>5 DEF Invoke, Cancel, Kill, db
<1>6. CASE ReapStaleScrapeRuns
  <2>1. scrapeRuns[r].products \in Nat
    BY <1>t DEF RunRow
  <2> QED BY <1>6, <2>1 DEF ReapStaleScrapeRuns, Reapable, RowEnded
<1>7. CASE PgCrash \/ UpstreamChange \/ Seed \/ StrayCommits \/ UNCHANGED vars
  BY <1>7 DEF PgCrash, UpstreamChange, Seed, StrayCommits, vars, db
<1> QED BY <1>1, <1>2, <1>3, <1>4, <1>5, <1>6, <1>7 DEF Next

LEMMA StepStampsKept ==
  ASSUME TypeOK, RunsOwned, StampsKept, [Next]_vars
  PROVE  StampsKept'
<1>t. now \in Nat /\ scrapeStart \in [Procs -> Nat] /\ scrapeRuns \in [RunIds -> RunRow]
  BY DEF TypeOK
<1>n. now' \in Nat BY StepTypeOK DEF TypeOK
<1>1. \A p \in Procs : scrapeStart'[p] <= now'
  BY <1>t, <1>n, ClockMoves DEF StampsKept
<1>2. ASSUME NEW r \in RunIds
      PROVE  /\ scrapeRuns'[r].finishedAt <= now'
             /\ scrapeRuns'[r].finishedAt # 0 <=> scrapeRuns'[r].status \in {"success", "failed"}
             /\ scrapeRuns'[r].status = "absent" => scrapeRuns'[r].vendor = Absent
  <2>0. scrapeRuns[r].finishedAt \in Nat BY <1>t DEF RunRow
  <2>1. CASE scrapeRuns'[r] = scrapeRuns[r]
    BY <1>t, <1>n, <2>0, <2>1, ClockMoves DEF StampsKept
  <2>2. ASSUME NEW p \in Procs, RowInserted(r, p)
        PROVE  scrapeRuns'[r].finishedAt = 0 /\ scrapeRuns'[r].status = "running"
    BY <2>2 DEF RowInserted
  <2>3. CASE RowEnded(r)
    <3>1. /\ scrapeRuns'[r].finishedAt = now + 1 /\ now' = now + 1
          /\ scrapeRuns'[r].status \in {"success", "failed"}
      BY <2>3 DEF RowEnded, Outcome
    <3> QED BY <1>t, <3>1
  <2>4. CASE RowPruned(r)
    BY <1>n, <2>4 DEF RowPruned, NoRun
  <2> QED BY <1>n, <2>1, <2>2, <2>3, <2>4, RowStep
<1> QED BY <1>1, <1>2 DEF StampsKept

\* The count of a run changes in its scrape and goes with its process.
LEMMA TotalsMove ==
  ASSUME TypeOK, [Next]_vars, NEW q \in Procs
  PROVE  total'[q] = total[q] \/ pc'[q] \in {"scrape", "done"}
<1>t. pc \in [Procs -> Steps] /\ total \in [Procs -> Nat]
  BY DEF TypeOK
<1>d. ASSUME NEW S \in SUBSET Procs, Discard(S), \A p \in S : pc'[p] = "done"
      PROVE  total'[q] = total[q] \/ pc'[q] = "done"
  BY <1>d DEF Discard, For
<1>1. ASSUME NEW p \in Procs, ScrapeStep(p) PROVE total'[q] = total[q] \/ pc'[q] \in {"scrape", "done"}
  <2>r. ASSUME NEW r, Return(p, r) PROVE total'[q] = total[q] \/ pc'[q] = "done"
    BY <1>t, <1>d, <2>r DEF Return, Goto
  <2>1. CASE AcquireScrapeLock(p) \/ Unlock(p)
    BY <2>1, <2>r DEF AcquireScrapeLock, Unlock, locals, scraping
  <2>2. CASE SelectNow(p) \/ StartScrapeRun(p)
    BY <2>2 DEF SelectNow, StartScrapeRun, scraping
  <2>3. CASE \E s \in Services : FetchService(p, s) \/ FetchFails(p, s) \/ ServiceUndiscovered(p, s)
    BY <2>3 DEF FetchService, FetchFails, ServiceUndiscovered
  <2>4. CASE \E u \in UnitsOf(VendorOf[p]) : UpsertBatch(p, u) \/ HandlerFails(p, u)
    BY <2>4 DEF UpsertBatch, HandlerFails
  <2>5. CASE \E u \in UnitsOf(VendorOf[p]) : MarkSeen(p, u)
    BY <1>t, <2>5 DEF MarkSeen, Handling, control
  <2>6. CASE ScrapeReturnsNil(p) \/ ScrapeReturnsError(p)
    BY <2>6 DEF ScrapeReturnsNil, ScrapeReturnsError, locals, scraping
  <2>7. CASE ReadPrevCount(p) \/ CountSeen(p) \/ DeleteStaleProducts(p)
    BY <2>7 DEF ReadPrevCount, CountSeen, DeleteStaleProducts, locals, scraping
  <2>8. CASE Finish(p) \/ PruneScrapeRuns(p) \/ ClearSeen(p)
    BY <2>8 DEF Finish, PruneScrapeRuns, ClearSeen, locals, scraping
  <2> QED BY <1>1, <2>1, <2>2, <2>3, <2>4, <2>5, <2>6, <2>7, <2>8 DEF ScrapeStep
<1>2. ASSUME NEW c \in Commands, Invoke(c) \/ Cancel(c) PROVE total'[q] = total[q]
  BY <1>2 DEF Invoke, Cancel, locals, scraping
<1>3. ASSUME NEW c \in Commands, Kill(c) PROVE total'[q] = total[q] \/ pc'[q] = "done"
  <2> DEFINE mine == {p \in Procs : CommandOf[p] = c /\ pc[p] # "done"}
  <2>1. Discard(mine) /\ pc' = For(mine, pc, "done")
    BY <1>3 DEF Kill
  <2> QED BY <2>1 DEF Discard, For
<1>4. CASE PgCrash \/ ReapStaleScrapeRuns \/ UpstreamChange \/ Seed \/ StrayCommits \/ UNCHANGED vars
  BY <1>4 DEF PgCrash, ReapStaleScrapeRuns, UpstreamChange, Seed, StrayCommits, vars, locals, scraping
<1> QED BY <1>1, <1>2, <1>3, <1>4 DEF Next

\* Which step takes a process to the cleanup and past it.
LEMMA CleanupMoves ==
  ASSUME TypeOK, [Next]_vars, NEW q \in Procs, pc'[q] \in {"count", "delete", "finish"}
  PROVE  \/ pc[q] = pc'[q]
         \/ ReadPrevCount(q) /\ pc'[q] \in {"count", "finish"}
         \/ CountSeen(q) /\ pc'[q] \in {"delete", "finish"}
         \/ DeleteStaleProducts(q) /\ pc'[q] = "finish"
<1>t. pc \in [Procs -> Steps] BY DEF TypeOK
<1>1. ASSUME NEW p \in Procs, ScrapeStep(p), p # q PROVE pc[q] = pc'[q]
  BY <1>1, OthersStay
<1>2. ASSUME ScrapeStep(q), ~ReadPrevCount(q), ~CountSeen(q), ~DeleteStaleProducts(q) PROVE pc[q] = pc'[q]
  <2>1. CASE AcquireScrapeLock(q) \/ SelectNow(q) \/ StartScrapeRun(q)
    BY <1>t, <2>1 DEF AcquireScrapeLock, SelectNow, StartScrapeRun, FailEarly, Return, Goto
  <2>2. CASE \E s \in Services : FetchService(q, s) \/ FetchFails(q, s) \/ ServiceUndiscovered(q, s)
    BY <2>2 DEF FetchService, FetchFails, ServiceUndiscovered, control
  <2>3. CASE \E u \in UnitsOf(VendorOf[q]) : UpsertBatch(q, u) \/ MarkSeen(q, u) \/ HandlerFails(q, u)
    BY <2>3 DEF UpsertBatch, MarkSeen, HandlerFails, control
  <2>4. CASE ScrapeReturnsNil(q) \/ ScrapeReturnsError(q)
    BY <1>t, <2>4 DEF ScrapeReturnsNil, ScrapeReturnsError, Goto
  <2>5. CASE Finish(q) \/ PruneScrapeRuns(q) \/ ClearSeen(q) \/ Unlock(q)
    BY <1>t, <2>5 DEF Finish, PruneScrapeRuns, ClearSeen, Unlock, Return, Goto
  <2> QED BY <1>2, <2>1, <2>2, <2>3, <2>4, <2>5 DEF ScrapeStep
<1>3. ReadPrevCount(q) => pc'[q] # "delete"
  BY <1>t DEF ReadPrevCount, AfterPrev, Goto
<1>4. CountSeen(q) => pc'[q] # "count"
  BY <1>t DEF CountSeen, Goto
<1>5. DeleteStaleProducts(q) => pc'[q] = "finish"
  BY <1>t DEF DeleteStaleProducts, Goto
<1>6. CASE \A p \in Procs : ~ScrapeStep(p)
  BY <1>6, EnvServices
<1> QED BY <1>1, <1>2, <1>3, <1>4, <1>5, <1>6

LEMMA StepProductsCounted ==
  ASSUME TypeOK, ProductsCounted, [Next]_vars
  PROVE  ProductsCounted'
<1> SUFFICES ASSUME NEW q \in Procs, pc'[q] \in {"count", "delete", "finish"} PROVE total'[q] > 0
  BY DEF ProductsCounted
<1>t. pc \in [Procs -> Steps] /\ total \in [Procs -> Nat] BY DEF TypeOK
<1>1. total'[q] = total[q] BY TotalsMove
<1>2. CASE pc[q] \in {"count", "delete", "finish"}
  BY <1>1, <1>2 DEF ProductsCounted
<1>3. CASE ReadPrevCount(q)
  BY <1>t, <1>1, <1>3 DEF ReadPrevCount, AfterPrev, Goto
<1> QED BY <1>2, <1>3, CleanupMoves DEF CountSeen, DeleteStaleProducts

\* A process in a run was in it before the step, or has just inserted its row.
LEMMA UnfinishedMoves ==
  ASSUME TypeOK, [Next]_vars, NEW q \in Procs, pc'[q] \in Unfinished
  PROVE  \/ pc[q] \in Unfinished /\ runID'[q] = runID[q]
         \/ StartScrapeRun(q) /\ InsertRun(q) /\ runID'[q] = nextRun
<1>t. pc \in [Procs -> Steps] /\ runID \in [Procs -> RunIds \cup {0}] BY DEF TypeOK
<1>1. ASSUME NEW p \in Procs, ScrapeStep(p), p # q PROVE pc[q] \in Unfinished /\ runID'[q] = runID[q]
  <2>1. pc[q] = pc'[q] BY <1>1, OthersStay
  <2>2. CASE StartScrapeRun(p) BY <1>t, <1>1, <2>1, <2>2 DEF StartScrapeRun
  <2>3. CASE ~StartScrapeRun(p) BY <1>1, <2>1, <2>3, RunMoves
  <2> QED BY <2>2, <2>3
<1>2. CASE StartScrapeRun(q)
  BY <1>t, <1>2 DEF StartScrapeRun, FailEarly, Goto, Unfinished
<1>3. CASE ScrapeStep(q) /\ ~StartScrapeRun(q)
  BY <1>3, RunMoves
<1>4. CASE \A p \in Procs : ~ScrapeStep(p)
  <2>1. ASSUME NEW c \in Commands, Invoke(c) \/ Cancel(c) \/ Kill(c)
        PROVE  pc[q] \in Unfinished /\ runID'[q] = runID[q]
    BY <2>1 DEF Invoke, Cancel, Kill, For, locals, Unfinished
  <2>2. CASE PgCrash \/ ReapStaleScrapeRuns \/ UpstreamChange \/ Seed \/ StrayCommits \/ UNCHANGED vars
    BY <2>2 DEF PgCrash, ReapStaleScrapeRuns, UpstreamChange, Seed, StrayCommits, vars, control, locals
  <2> QED BY <1>4, <2>1, <2>2 DEF Next
<1> QED BY <1>1, <1>2, <1>3, <1>4

\* While a run is in progress nobody else inserts a row for its vendor.
LEMMA StepNewestOwned ==
  ASSUME TypeOK, LockHeld, RunsOwned, StampsKept, NewestOwned, [Next]_vars
  PROVE  NewestOwned'
<1> USE StructureAssumption, NumberAssumption
<1>t. /\ pc \in [Procs -> Steps] /\ scrapeRuns \in [RunIds -> RunRow]
      /\ runID \in [Procs -> RunIds \cup {0}] /\ nextRun \in 1 .. MaxRuns + 1
  BY DEF TypeOK
<1> SUFFICES ASSUME NEW q \in Procs, pc'[q] \in Unfinished
             PROVE  /\ scrapeRuns'[runID'[q]].vendor = VendorOf[q]
                    /\ \A r \in RunIds : scrapeRuns'[r].vendor = VendorOf[q] => r <= runID'[q]
  BY DEF NewestOwned
<1>h. Unfinished \subseteq Holding /\ "insert" \in Holding
  BY DEF Unfinished, Holding, Steps
<1>1. CASE pc[q] \in Unfinished /\ runID'[q] = runID[q]
  <2>1. /\ runID[q] \in RunIds /\ runID[q] < nextRun /\ scrapeRuns[runID[q]].status = "running"
        /\ scrapeRuns[runID[q]].finishedAt = 0
    BY <1>1 DEF RunsOwned, InRun
  <2>2. scrapeRuns'[runID[q]].vendor = VendorOf[q]
    <3>1. scrapeRuns[runID[q]].vendor = VendorOf[q] BY <1>1 DEF NewestOwned
    <3>2. ASSUME NEW p \in Procs PROVE ~RowInserted(runID[q], p)
      BY <1>t, <2>1 DEF RowInserted, RunIds
    <3>3. CASE RowEnded(runID[q]) BY <3>1, <3>3 DEF RowEnded, Outcome
    <3> QED BY <2>1, <3>1, <3>2, <3>3, RowStep DEF RowPruned
  <2>3. ASSUME NEW r \in RunIds, scrapeRuns'[r].vendor = VendorOf[q] PROVE r <= runID[q]
    <3>1. ASSUME NEW p \in Procs, RowInserted(r, p) PROVE FALSE
      <4>1. VendorOf[p] = VendorOf[q] /\ pc[p] = "insert"
        BY <2>3, <3>1 DEF RowInserted
      <4>2. p = q BY <1>1, <1>h, <4>1 DEF LockHeld
      <4> QED BY <1>1, <4>1, <4>2 DEF Unfinished
    <3>2. CASE RowEnded(r)
      <4>1. scrapeRuns[r].vendor = VendorOf[q] BY <2>3, <3>2 DEF RowEnded, Outcome
      <4> QED BY <1>1, <4>1 DEF NewestOwned
    <3>3. ~RowPruned(r)
      BY <2>3 DEF RowPruned, NoRun
    <3>4. CASE scrapeRuns'[r] = scrapeRuns[r]
      BY <1>1, <2>3, <3>4 DEF NewestOwned
    <3> QED BY <3>1, <3>2, <3>3, <3>4, RowStep
  <2> QED BY <1>1, <2>2, <2>3
<1>2. CASE StartScrapeRun(q) /\ InsertRun(q) /\ runID'[q] = nextRun
  <2>1. nextRun \in RunIds /\ scrapeRuns'[nextRun].vendor = VendorOf[q]
    BY <1>t, <1>2 DEF InsertRun, RunIds
  <2>2. ASSUME NEW r \in RunIds, r > nextRun PROVE scrapeRuns'[r].vendor # VendorOf[q]
    <3>1. scrapeRuns[r].status = "absent"
      BY <1>t, <2>2 DEF RunsOwned, RunIds
    <3>2. scrapeRuns[r].vendor = Absent
      BY <3>1 DEF StampsKept
    <3>3. scrapeRuns'[r] = scrapeRuns[r]
      BY <1>t, <1>2, <2>2 DEF InsertRun, RunIds
    <3> QED BY <3>2, <3>3
  <2> QED BY <1>t, <1>2, <2>1, <2>2 DEF RunIds
<1> QED BY <1>1, <1>2, UnfinishedMoves

-----------------------------------------------------------------------------
(* scrape_runs implements RunHistory *)

\* Steps that leave the run records and the clock alone.
LEMMA HistoryStays ==
  ASSUME TypeOK, [Next]_vars,
         \A p \in Procs : ~SelectNow(p) /\ ~StartScrapeRun(p) /\ ~Finish(p) /\ ~PruneScrapeRuns(p),
         ~ReapStaleScrapeRuns
  PROVE  UNCHANGED <<scrapeRuns, nextRun, now>>
<1>1. ASSUME NEW p \in Procs, ScrapeStep(p) PROVE UNCHANGED <<scrapeRuns, nextRun, now>>
  <2>1. CASE AcquireScrapeLock(p) \/ ClearSeen(p) \/ Unlock(p)
    BY <2>1 DEF AcquireScrapeLock, ClearSeen, Unlock
  <2>2. CASE \E s \in Services : FetchService(p, s) \/ FetchFails(p, s) \/ ServiceUndiscovered(p, s)
    BY <2>2 DEF FetchService, FetchFails, ServiceUndiscovered, db
  <2>3. CASE \E u \in UnitsOf(VendorOf[p]) : UpsertBatch(p, u) \/ MarkSeen(p, u) \/ HandlerFails(p, u)
    BY <2>3 DEF UpsertBatch, MarkSeen, HandlerFails
  <2>4. CASE ScrapeReturnsNil(p) \/ ScrapeReturnsError(p)
    BY <2>4 DEF ScrapeReturnsNil, ScrapeReturnsError, db
  <2>5. CASE ReadPrevCount(p) \/ CountSeen(p) \/ DeleteStaleProducts(p)
    BY <2>5 DEF ReadPrevCount, CountSeen, DeleteStaleProducts, db
  <2> QED BY <1>1, <2>1, <2>2, <2>3, <2>4, <2>5 DEF ScrapeStep
<1>2. ASSUME NEW c \in Commands, Invoke(c) \/ Cancel(c) \/ Kill(c) PROVE UNCHANGED <<scrapeRuns, nextRun, now>>
  BY <1>2 DEF Invoke, Cancel, Kill, db
<1>3. CASE PgCrash \/ UpstreamChange \/ Seed \/ StrayCommits \/ UNCHANGED vars
  BY <1>3 DEF PgCrash, UpstreamChange, Seed, StrayCommits, vars, db
<1> QED BY <1>1, <1>2, <1>3 DEF Next

\* The outcome a run records is the end of the vendor's newest run.
LEMMA FinishEnds ==
  ASSUME TypeOK, RunsOwned, ProductsCounted, NewestOwned, NEW p \in Procs, Finish(p),
         ~UNCHANGED <<scrapeRuns, nextRun, now>>
  PROVE  History!HistoryNext
<1>t. scrapeRuns \in [RunIds -> RunRow] /\ total \in [Procs -> Nat] BY DEF TypeOK
<1>1. pc[p] \in Unfinished /\ UNCHANGED nextRun /\ total[p] \in Nat
  BY <1>t DEF Finish, Unfinished
<1>2. /\ runID[p] \in RunIds /\ scrapeRuns[runID[p]].status = "running"
      /\ \A q \in RunIds : scrapeRuns[q].vendor = scrapeRuns[runID[p]].vendor => q <= runID[p]
  <2>1. runID[p] \in RunIds /\ scrapeRuns[runID[p]].status = "running"
    BY <1>1 DEF RunsOwned, InRun
  <2> QED BY <1>1, <2>1 DEF NewestOwned
<1>3. PICK status \in {"success", "failed"}, n \in Nat :
        /\ SetOutcome(runID[p], status, n)
        /\ status = "success" => n > 0
  <2>0. ASSUME NEW x, NEW st, NEW m, FinishScrapeRun(p, x, st, m) PROVE SetOutcome(runID[p], st, m)
    BY <1>1, <2>0 DEF FinishScrapeRun
  <2>1. CASE FinishScrapeRun(p, FALSE, "failed", total[p])
    <3>1. SetOutcome(runID[p], "failed", total[p]) BY <2>0, <2>1
    <3> QED BY <1>1, <3>1
  <2>2. CASE FinishScrapeRun(p, ctxDone[p], "failed", 0)
    <3>1. SetOutcome(runID[p], "failed", 0) BY <2>0, <2>2
    <3> QED BY <3>1
  <2>3. CASE pc[p] = "finish" /\ FinishScrapeRun(p, ctxDone[p], "success", total[p])
    <3>1. SetOutcome(runID[p], "success", total[p]) BY <2>0, <2>3
    <3>2. total[p] > 0 BY <2>3 DEF ProductsCounted
    <3> QED BY <1>1, <3>1, <3>2
  <2> QED BY <2>1, <2>2, <2>3 DEF Finish
<1>4. /\ now' = now + 1
      /\ scrapeRuns' = [scrapeRuns EXCEPT ![runID[p]] = Outcome(scrapeRuns[runID[p]], status, n)]
  BY <1>2, <1>3 DEF SetOutcome
<1>5. scrapeRuns'[runID[p]].products = n
  BY <1>t, <1>2, <1>4 DEF Outcome
<1>6. History!Ended(scrapeRuns[runID[p]], status, n) = Outcome(scrapeRuns[runID[p]], status, n)
  BY DEF History!Ended, Outcome
<1>7. History!End(runID[p], status, n)
  BY <1>1, <1>2, <1>3, <1>4, <1>6 DEF History!End, History!RunIds, RunIds
<1> QED BY <1>2, <1>3, <1>5, <1>7 DEF History!HistoryNext, History!RunIds, RunIds

LEMMA HistorySteps ==
  ASSUME TypeOK, RunsOwned, StampsKept, ProductsCounted, NewestOwned, [Next]_vars
  PROVE  [History!HistoryNext]_<<scrapeRuns, nextRun, now>>
<1> USE StructureAssumption, NumberAssumption
<1>t. /\ now \in Nat /\ scrapeStart \in [Procs -> Nat] /\ nextRun \in 1 .. MaxRuns + 1
      /\ scrapeRuns \in [RunIds -> RunRow]
  BY DEF TypeOK
<1>1. ASSUME NEW p \in Procs, SelectNow(p) PROVE [History!HistoryNext]_<<scrapeRuns, nextRun, now>>
  BY <1>1 DEF SelectNow, History!HistoryNext, History!Tick
<1>2. ASSUME NEW p \in Procs, StartScrapeRun(p) PROVE [History!HistoryNext]_<<scrapeRuns, nextRun, now>>
  <2>1. UNCHANGED now /\ (InsertRun(p) \/ UNCHANGED <<scrapeRuns, nextRun>>)
    BY <1>2 DEF StartScrapeRun
  <2>2. ASSUME InsertRun(p) PROVE History!Start(VendorOf[p])
    <3>1. scrapeStart[p] \in 0 .. now BY <1>t DEF StampsKept
    <3> QED BY <2>1, <2>2, <3>1 DEF InsertRun, History!Start
  <2> QED BY <2>1, <2>2 DEF History!HistoryNext
<1>3. ASSUME NEW p \in Procs, Finish(p) PROVE [History!HistoryNext]_<<scrapeRuns, nextRun, now>>
  BY <1>3, FinishEnds
<1>4. ASSUME NEW p \in Procs, PruneScrapeRuns(p) PROVE [History!HistoryNext]_<<scrapeRuns, nextRun, now>>
  <2>1. UNCHANGED <<nextRun, now>> BY <1>4 DEF PruneScrapeRuns
  <2>2. ASSUME NEW cutoff \in 0 .. now,
               scrapeRuns' = [r \in RunIds |->
                 IF scrapeRuns[r].finishedAt # 0 /\ scrapeRuns[r].finishedAt < cutoff
                   THEN NoRun ELSE scrapeRuns[r]]
        PROVE  History!HistoryNext
    <3>1. \A r \in RunIds : scrapeRuns[r].finishedAt # 0 <=> scrapeRuns[r].status \in {"success", "failed"}
      BY DEF StampsKept
    <3>2. scrapeRuns' = [r \in RunIds |->
            IF scrapeRuns[r].status \in {"success", "failed"} /\ scrapeRuns[r].finishedAt < cutoff
              THEN NoRun ELSE scrapeRuns[r]]
      BY <2>2, <3>1
    <3>3. History!Prune(cutoff)
      BY <2>1, <3>2 DEF History!Prune, History!RunIds, History!NoRun, RunIds, NoRun
    <3>4. cutoff \in 0 .. now + 1 BY <1>t
    <3> QED BY <3>3, <3>4 DEF History!HistoryNext
  <2> QED BY <1>4, <2>1, <2>2 DEF PruneScrapeRuns
<1>5. CASE ReapStaleScrapeRuns
  <2>1. PICK cutoff \in 1 .. now + 1 :
          scrapeRuns' = [r \in RunIds |->
            IF r \in Reapable(cutoff)
              THEN Outcome(scrapeRuns[r], "failed", scrapeRuns[r].products) ELSE scrapeRuns[r]]
    BY <1>5 DEF ReapStaleScrapeRuns
  <2>2. now' = now + 1 /\ UNCHANGED nextRun BY <1>5 DEF ReapStaleScrapeRuns
  <2>3. History!Reap(cutoff)
    BY <2>1, <2>2 DEF History!Reap, History!Ended, History!RunIds, Reapable, Outcome, RunIds
  <2>4. cutoff \in 0 .. now + 1 BY <1>t
  <2> QED BY <2>3, <2>4 DEF History!HistoryNext
<1> QED BY <1>1, <1>2, <1>3, <1>4, <1>5, HistoryStays

\* What scrape_runs promises /status and the guard on the previous count holds
\* of the scrapes: while Postgres stays up and no live run outlasts the reaper,
\* every step of any number of overlapping, failing and killed commands is a
\* step of RunHistory or leaves the table alone.
THEOREM HistoryImplemented ==
  ASSUME Budget["pgcrash"] = 0, LongRuns = FALSE
  PROVE  Spec => TableKeepsPromise
<1> DEFINE Inv == BudgetKept /\ LockHeld /\ RunsOwned /\ StampsKept /\ ProductsCounted /\ NewestOwned
<1>1. Init => Inv
  <2>1. Init => BudgetKept /\ LockHeld /\ ProductsCounted
    BY DEF Init, BudgetKept, LockHeld, Holding, ProductsCounted
  <2>2. Init => NewestOwned BY DEF Init, NewestOwned, Unfinished
  <2>3. Init => StampsKept BY DEF Init, StampsKept, NoRun
  <2> QED BY <2>1, <2>2, <2>3, InitRunsOwned
<1>2. TypeOK /\ Inv /\ [Next]_vars => Inv'
  BY StepBudgetKept, StepLockHeld, StepRunsOwned, StepStampsKept, StepProductsCounted, StepNewestOwned
<1>3. Init => History!HistoryInit
  BY DEF Init, History!HistoryInit, History!RunIds, History!NoRun, RunIds, NoRun
<1>4. TypeOK /\ Inv /\ [Next]_vars => [History!HistoryNext]_(History!history)
  BY HistorySteps DEF History!history
<1> QED BY <1>1, <1>2, <1>3, <1>4, TypeCorrect, PTL DEF Spec, TableKeepsPromise, History!HistorySpec

-----------------------------------------------------------------------------
(* The products table *)

\* A handler call covers services of the process's own vendor.
LEMMA UnitVendor ==
  ASSUME NEW p \in Procs, NEW u \in UnitsOf(VendorOf[p]), NEW h \in Products,
         h \in Handed(p, u) \/ h \in ToUpsert(p, u)
  PROVE  /\ ServiceOf[h] \in Services /\ ServiceVendor[ServiceOf[h]] = VendorOf[p]
         /\ svc[p][ServiceOf[h]] = "fetched" /\ batch[p][h] # Absent
<1>1. ServiceOf[h] \in u /\ svc[p][ServiceOf[h]] = "fetched" /\ batch[p][h] # Absent
  BY DEF ToUpsert, Handed, Fetched
<1>2. \A s \in u : ServiceVendor[s] = VendorOf[p]
  BY DEF UnitsOf, Unit, ServicesOf
<1> QED BY <1>1, <1>2, StructureAssumption

\* How a row of the table comes to change: an upsert by a scrape of its vendor
\* or by `seed', or a stale cleanup of its vendor.
RowUpserted(h, p) ==
  /\ pc[p] = "scrape" /\ VendorOf[p] = ServiceVendor[ServiceOf[h]]
  /\ batch[p][h] # Absent /\ products'[h] = batch[p][h]

RowSeeded(h) == Seed /\ products'[h] # Absent

RowDeleted(h, p) ==
  /\ pc[p] = "delete" /\ VendorOf[p] = ServiceVendor[ServiceOf[h]]
  /\ h \notin scrapeSeen[runID[p]]

LEMMA TableStep ==
  ASSUME TypeOK, [Next]_vars, ~StrayCommits, NEW h \in Products
  PROVE  \/ products'[h] = products[h]
         \/ \E p \in Procs : RowUpserted(h, p) \/ RowDeleted(h, p)
         \/ RowSeeded(h)
<1>t. products \in [Products -> Contents \cup {Absent}] BY DEF TypeOK
<1>1. ASSUME NEW p \in Procs, ScrapeStep(p)
      PROVE  products'[h] = products[h] \/ RowUpserted(h, p) \/ RowDeleted(h, p)
  <2>0. ASSUME NEW u \in UnitsOf(VendorOf[p]), NEW C \in SUBSET ToUpsert(p, u), Upsert(C, batch[p]),
               pc[p] = "scrape"
        PROVE  products'[h] = products[h] \/ RowUpserted(h, p)
    <3>1. CASE h \in C
      BY <2>0, <3>1, UnitVendor DEF Upsert, UpsertAt, RowUpserted
    <3>2. CASE h \notin C
      BY <2>0, <3>2 DEF Upsert, UpsertAt
    <3> QED BY <3>1, <3>2
  <2>1. ASSUME NEW u \in UnitsOf(VendorOf[p]), UpsertBatch(p, u)
        PROVE  products'[h] = products[h] \/ RowUpserted(h, p)
    BY <2>0, <2>1 DEF UpsertBatch, Handling
  <2>2. ASSUME NEW u \in UnitsOf(VendorOf[p]), HandlerFails(p, u)
        PROVE  products'[h] = products[h] \/ RowUpserted(h, p)
    BY <2>0, <2>2 DEF HandlerFails, Handling, table
  <2>3. CASE \E u : MarkSeen(p, u)
    BY <2>3 DEF MarkSeen, table
  <2>4. CASE \E s \in Services : FetchService(p, s) \/ FetchFails(p, s) \/ ServiceUndiscovered(p, s)
    BY <2>4 DEF FetchService, FetchFails, ServiceUndiscovered, db
  <2>5. CASE AcquireScrapeLock(p) \/ SelectNow(p) \/ StartScrapeRun(p) \/ ScrapeReturnsNil(p) \/ ScrapeReturnsError(p)
    BY <2>5 DEF AcquireScrapeLock, SelectNow, StartScrapeRun, ScrapeReturnsNil, ScrapeReturnsError, table, db
  <2>6. CASE ReadPrevCount(p) \/ CountSeen(p) \/ Finish(p) \/ PruneScrapeRuns(p) \/ ClearSeen(p) \/ Unlock(p)
    BY <2>6 DEF ReadPrevCount, CountSeen, Finish, PruneScrapeRuns, ClearSeen, Unlock, table, db
  <2>7. CASE DeleteStaleProducts(p)
    BY <2>7 DEF DeleteStaleProducts, Delete, StaleProducts, ProductsOf, RowDeleted
  <2> QED BY <1>1, <2>1, <2>2, <2>3, <2>4, <2>5, <2>6, <2>7 DEF ScrapeStep
<1>2. ASSUME NEW c \in Commands, Invoke(c) \/ Cancel(c) \/ Kill(c) PROVE products'[h] = products[h]
  BY <1>2 DEF Invoke, Cancel, Kill, db, table
<1>3. CASE PgCrash \/ ReapStaleScrapeRuns \/ UpstreamChange \/ UNCHANGED vars
  BY <1>3 DEF PgCrash, ReapStaleScrapeRuns, UpstreamChange, vars, db, table
<1>4. CASE Seed
  <2>1. PICK C \in SUBSET Products, x \in Contents : Upsert(C, [g \in Products |-> x])
    BY <1>4 DEF Seed
  <2>2. products'[h] = products[h] \/ products'[h] = x
    BY <2>1 DEF Upsert, UpsertAt
  <2> QED BY <1>4, <2>2, StructureAssumption DEF RowSeeded
<1> QED BY <1>1, <1>2, <1>3, <1>4 DEF Next

\* While a process holds its vendor's lock, what it has scraped only changes in
\* its own scraping steps.
LEMMA ScrapedStays ==
  ASSUME TypeOK, [Next]_vars, NEW q \in Procs, pc'[q] \in Holding
  PROVE  \/ /\ pc[q] \in Holding \cup {"lock"}
            /\ svc'[q] = svc[q] /\ batch'[q] = batch[q] /\ pending'[q] = pending[q]
         \/ \E s \in Services : FetchService(q, s) \/ FetchFails(q, s) \/ ServiceUndiscovered(q, s)
         \/ \E u \in UnitsOf(VendorOf[q]) : UpsertBatch(q, u) \/ MarkSeen(q, u) \/ HandlerFails(q, u)
<1>t. /\ pc \in [Procs -> Steps] /\ svc \in [Procs -> [Services -> SvcStates]]
      /\ batch \in [Procs -> [Products -> Contents \cup {Absent}]] /\ pending \in [Procs -> SUBSET Products]
  BY DEF TypeOK
<1>h. "done" \notin Holding /\ "lock" \notin Holding BY DEF Holding
<1> DEFINE Same == svc'[q] = svc[q] /\ batch'[q] = batch[q] /\ pending'[q] = pending[q]
<1>1. ASSUME NEW p \in Procs, ScrapeStep(p), p # q PROVE pc[q] \in Holding /\ Same
  <2>1. pc[q] \in Holding /\ svc'[q] = svc[q] /\ batch'[q] = batch[q]
    BY <1>1, OthersStay, OthersKeep
  <2>2. pending'[q] = pending[q]
    <3>1. CASE AcquireScrapeLock(p) \/ Unlock(p)
      BY <1>t, <1>1, <3>1 DEF AcquireScrapeLock, Unlock, Return, Discard, For, locals, scraping
    <3>2. CASE SelectNow(p) \/ StartScrapeRun(p)
      BY <3>2 DEF SelectNow, StartScrapeRun, scraping
    <3>3. CASE \E s \in Services : FetchService(p, s) \/ FetchFails(p, s) \/ ServiceUndiscovered(p, s)
      BY <1>t, <1>1, <3>3 DEF FetchService, FetchFails, ServiceUndiscovered
    <3>4. CASE \E u \in UnitsOf(VendorOf[p]) : UpsertBatch(p, u) \/ MarkSeen(p, u) \/ HandlerFails(p, u)
      BY <1>t, <1>1, <3>4 DEF UpsertBatch, MarkSeen, HandlerFails
    <3>5. CASE ScrapeReturnsNil(p) \/ ScrapeReturnsError(p)
      BY <3>5 DEF ScrapeReturnsNil, ScrapeReturnsError, locals, scraping
    <3>6. CASE ReadPrevCount(p) \/ CountSeen(p) \/ DeleteStaleProducts(p)
      BY <3>6 DEF ReadPrevCount, CountSeen, DeleteStaleProducts, locals, scraping
    <3>7. CASE Finish(p) \/ PruneScrapeRuns(p) \/ ClearSeen(p)
      BY <3>7 DEF Finish, PruneScrapeRuns, ClearSeen, locals, scraping
    <3> QED BY <1>1, <3>1, <3>2, <3>3, <3>4, <3>5, <3>6, <3>7 DEF ScrapeStep
  <2> QED BY <2>1, <2>2
<1>2. CASE AcquireScrapeLock(q)
  BY <1>t, <1>h, <1>2 DEF AcquireScrapeLock, Return, Goto, locals, scraping
<1>3. CASE SelectNow(q) \/ StartScrapeRun(q)
  BY <1>3 DEF SelectNow, StartScrapeRun, scraping, Holding, Steps
<1>4. CASE ScrapeReturnsNil(q) \/ ScrapeReturnsError(q)
  BY <1>4 DEF ScrapeReturnsNil, ScrapeReturnsError, locals, scraping, Holding, Steps
<1>5. CASE ReadPrevCount(q) \/ CountSeen(q) \/ DeleteStaleProducts(q)
  BY <1>5 DEF ReadPrevCount, CountSeen, DeleteStaleProducts, locals, scraping, Holding, Steps
<1>6. CASE Finish(q) \/ PruneScrapeRuns(q) \/ ClearSeen(q)
  BY <1>6 DEF Finish, PruneScrapeRuns, ClearSeen, locals, scraping, Holding, Steps
<1>7. ~Unlock(q)
  BY <1>t, <1>h DEF Unlock, Return, Goto
<1>8. CASE \A p \in Procs : ~ScrapeStep(p)
  <2>1. ASSUME NEW c \in Commands, Invoke(c) \/ Cancel(c) PROVE pc[q] \in Holding /\ Same
    BY <1>h, <2>1 DEF Invoke, Cancel, For, locals, scraping
  <2>2. ASSUME NEW c \in Commands, Kill(c) PROVE pc[q] \in Holding /\ Same
    BY <1>h, <2>2 DEF Kill, Discard, For
  <2>3. CASE PgCrash \/ ReapStaleScrapeRuns \/ UpstreamChange \/ Seed \/ StrayCommits \/ UNCHANGED vars
    BY <2>3 DEF PgCrash, ReapStaleScrapeRuns, UpstreamChange, Seed, StrayCommits, vars, locals, scraping, control
  <2> QED BY <1>8, <2>1, <2>2, <2>3 DEF Next
<1> HIDE DEF Same
<1>9. CASE ScrapeStep(q)
  BY <1>2, <1>3, <1>4, <1>5, <1>6, <1>7, <1>9 DEF ScrapeStep, Same
<1> QED BY <1>1, <1>8, <1>9 DEF Same

\* Nobody takes a stored product from the process that scraped it: its vendor's
\* lock keeps other scrapes out, and its own cleanup spares what it saw.
LEMMA StoredStays ==
  ASSUME TypeOK, BudgetKept, LockHeld, SeenSetKept, CleanupComplete, [Next]_vars, ~StrayCommits,
         NEW q \in Procs, NEW h \in Products,
         pc[q] \in Holding, VendorOf[q] = ServiceVendor[ServiceOf[h]],
         svc[q][ServiceOf[h]] \in {"done", "fetched"}, batch[q][h] # Absent,
         products[h] # Absent, Budget["seed"] = 0 => products[h] = batch[q][h]
  PROVE  products'[h] # Absent /\ (Budget["seed"] = 0 => products'[h] = batch[q][h])
<1> USE StructureAssumption
<1>h. "scrape" \in Holding /\ "delete" \in Holding
  BY DEF Holding, Steps
<1>1. ASSUME NEW p \in Procs, RowUpserted(h, p) PROVE p = q
  BY <1>h, <1>1 DEF RowUpserted, LockHeld
<1>2. ASSUME NEW p \in Procs, RowDeleted(h, p) PROVE FALSE
  <2>1. p = q /\ pc[q] = "delete" /\ h \notin scrapeSeen[runID[q]]
    BY <1>h, <1>2 DEF RowDeleted, LockHeld
  <2>2. ServiceOf[h] \in Services OBVIOUS
  <2>3. svc[q][ServiceOf[h]] = "done"
    BY <2>1, <2>2 DEF CleanupComplete
  <2> QED BY <2>1, <2>3 DEF SeenSetKept, Unfinished
<1>3. RowSeeded(h) => Budget["seed"] # 0
  BY DEF RowSeeded, Seed, Spend, BudgetKept, EnvEvents
<1>4. ASSUME NEW p \in Procs, RowUpserted(h, p) PROVE products'[h] = batch[q][h]
  BY <1>1, <1>4 DEF RowUpserted
<1>5. RowSeeded(h) => products'[h] # Absent
  BY DEF RowSeeded
<1> QED BY <1>2, <1>3, <1>4, <1>5, TableStep

LEMMA StepUpsertedIsStored ==
  ASSUME TypeOK, BudgetKept, BudgetBounded, StraysCounted, LockHeld, FreshLocals, SeenSetKept, CleanupComplete,
         UpsertedIsStored, [Next]_vars
  PROVE  UpsertedIsStored'
<1> USE StructureAssumption
<1> DEFINE Ready(svcs, pend, h) == svcs[ServiceOf[h]] = "done" \/ (svcs[ServiceOf[h]] = "fetched" /\ h \notin pend)
<1> SUFFICES ASSUME NEW q \in Procs, NEW h \in Products, NoStrayYet', pc'[q] \in Holding,
                    VendorOf[q] = ServiceVendor[ServiceOf[h]],
                    Ready(svc'[q], pending'[q], h), batch'[q][h] # Absent
             PROVE  products'[h] # Absent /\ (Budget["seed"] = 0 => products'[h] = batch'[q][h])
  BY DEF UpsertedIsStored
<1>t. /\ svc \in [Procs -> [Services -> SvcStates]] /\ pending \in [Procs -> SUBSET Products]
      /\ batch \in [Procs -> [Products -> Contents \cup {Absent}]]
      /\ products \in [Products -> Contents \cup {Absent}]
      /\ ServiceOf[h] \in Services
  BY DEF TypeOK
<1>h. "scrape" \in Holding BY DEF Holding, Steps
<1>s. NoStrayYet /\ ~StrayCommits BY StepStraysCounted
\* Stored before the step, it stays.
<1>0. ASSUME pc[q] \in Holding, Ready(svc[q], pending[q], h), batch'[q][h] = batch[q][h]
      PROVE  products'[h] # Absent /\ (Budget["seed"] = 0 => products'[h] = batch'[q][h])
  <2>1. products[h] # Absent /\ (Budget["seed"] = 0 => products[h] = batch[q][h])
    BY <1>0, <1>s DEF UpsertedIsStored
  <2>2. svc[q][ServiceOf[h]] \in {"done", "fetched"}
    BY <1>0
  <2> QED BY <1>0, <1>s, <2>1, <2>2, StoredStays
<1>1. ASSUME pc[q] \in Holding \cup {"lock"}, svc'[q] = svc[q], batch'[q] = batch[q], pending'[q] = pending[q]
      PROVE  products'[h] # Absent /\ (Budget["seed"] = 0 => products'[h] = batch'[q][h])
  <2>1. pc[q] # "lock" BY <1>1, <1>t DEF FreshLocals
  <2> QED BY <1>0, <1>1, <2>1
<1>2. ASSUME NEW s \in Services, FetchService(q, s)
      PROVE  products'[h] # Absent /\ (Budget["seed"] = 0 => products'[h] = batch'[q][h])
  <2>1. pc[q] = "scrape" BY <1>2 DEF FetchService, MayStart
  <2>2. CASE ServiceOf[h] = s
    <3>1. batch'[q][h] = upstream[h] BY <1>t, <1>2, <2>2 DEF FetchService
    <3>2. svc'[q][s] = "fetched" /\ h \in pending'[q]
      BY <1>t, <1>2, <2>2, <3>1 DEF FetchService
    <3> QED BY <2>2, <3>2
  <2>3. CASE ServiceOf[h] # s
    <3>1. batch'[q][h] = batch[q][h] /\ svc'[q][ServiceOf[h]] = svc[q][ServiceOf[h]] /\ pending[q] \subseteq pending'[q]
      BY <1>t, <1>2, <2>3 DEF FetchService
    <3> QED BY <1>0, <1>h, <2>1, <3>1
  <2> QED BY <2>2, <2>3
<1>3. ASSUME NEW s \in Services, FetchFails(q, s) \/ ServiceUndiscovered(q, s)
      PROVE  products'[h] # Absent /\ (Budget["seed"] = 0 => products'[h] = batch'[q][h])
  <2>1. pc[q] = "scrape" /\ UNCHANGED <<batch, pending>>
    BY <1>3 DEF FetchFails, ServiceUndiscovered, MayStart
  <2>2. svc'[q][ServiceOf[h]] \in {svc[q][ServiceOf[h]], "failed", "missed"}
    BY <1>t, <1>3 DEF FetchFails, ServiceUndiscovered, GiveUp
  <2> QED BY <1>0, <1>h, <2>1, <2>2
<1>4. ASSUME NEW u \in UnitsOf(VendorOf[q]), UpsertBatch(q, u)
      PROVE  products'[h] # Absent /\ (Budget["seed"] = 0 => products'[h] = batch'[q][h])
  <2>1. pc[q] = "scrape" /\ UNCHANGED <<batch, svc>> BY <1>4 DEF UpsertBatch, Handling
  <2>2. PICK C : Upsert(C, batch[q]) /\ pending'[q] = pending[q] \ C
    BY <1>t, <1>4 DEF UpsertBatch
  <2>3. CASE h \in C
    <3>1. products'[h] = batch[q][h] BY <2>2, <2>3 DEF Upsert, UpsertAt
    <3> QED BY <2>1, <3>1
  <2>4. CASE h \notin C
    BY <1>0, <1>h, <2>1, <2>2, <2>4
  <2> QED BY <2>3, <2>4
<1>5. ASSUME NEW u \in UnitsOf(VendorOf[q]), MarkSeen(q, u)
      PROVE  products'[h] # Absent /\ (Budget["seed"] = 0 => products'[h] = batch'[q][h])
  <2>1. pc[q] = "scrape" /\ UNCHANGED <<batch, pending>> /\ ToUpsert(q, u) = {}
    BY <1>5 DEF MarkSeen, Handling
  <2>2. svc'[q][ServiceOf[h]] = IF ServiceOf[h] \in Fetched(q, u) THEN "done" ELSE svc[q][ServiceOf[h]]
    BY <1>t, <1>5 DEF MarkSeen
  <2>3. CASE ServiceOf[h] \in Fetched(q, u)
    <3>1. svc[q][ServiceOf[h]] = "fetched" /\ h \in Handed(q, u)
      BY <2>1, <2>3 DEF Fetched, Handed
    <3>2. h \notin pending[q] BY <2>1, <3>1 DEF ToUpsert
    <3> QED BY <1>0, <1>h, <2>1, <3>1, <3>2
  <2>4. CASE ServiceOf[h] \notin Fetched(q, u)
    BY <1>0, <1>h, <2>1, <2>2, <2>4
  <2> QED BY <2>3, <2>4
<1>6. ASSUME NEW u \in UnitsOf(VendorOf[q]), HandlerFails(q, u)
      PROVE  products'[h] # Absent /\ (Budget["seed"] = 0 => products'[h] = batch'[q][h])
  <2>1. pc[q] = "scrape" /\ UNCHANGED <<batch, pending>>
    BY <1>6 DEF HandlerFails, Handling
  <2>2. svc'[q][ServiceOf[h]] \in {svc[q][ServiceOf[h]], "failed"}
    BY <1>t, <1>6 DEF HandlerFails, GiveUp
  <2> QED BY <1>0, <1>h, <2>1, <2>2
<1> QED BY <1>1, <1>2, <1>3, <1>4, <1>5, <1>6, ScrapedStays

\* What a run stores, the API serves: while Postgres stays up, no live run
\* outlasts the reaper and nobody seeds the table, a product that a scrape has
\* upserted is in the table with the contents it fetched until the run lets go
\* of its lock, whatever other commands do at the same time, as long as no
\* statement has outlived its client.
THEOREM FetchedServed ==
  ASSUME Budget["pgcrash"] = 0, Budget["seed"] = 0, LongRuns = FALSE
  PROVE  Spec => []FetchedIsServed
<1> DEFINE Inv == /\ BudgetKept /\ BudgetBounded /\ StraysCounted /\ LockHeld /\ RunsOwned /\ FreshLocals
                  /\ SeenSetKept /\ FailuresCounted /\ CleanupComplete /\ UpsertedIsStored
<1>1. Init => Inv
  <2>1. Init => BudgetKept /\ StraysCounted /\ LockHeld /\ FreshLocals
    BY DEF Init, BudgetKept, StraysCounted, LockHeld, Holding, FreshLocals
  <2>2. Init => FailuresCounted /\ CleanupComplete
    BY DEF Init, FailuresCounted, CleanupComplete
  <2>3. Init => SeenSetKept BY DEF Init, SeenSetKept, Unfinished
  <2>4. Init => UpsertedIsStored BY DEF Init, UpsertedIsStored, Holding
  <2> QED BY <2>1, <2>2, <2>3, <2>4, InitRunsOwned, InitBudgetBounded
<1>2. TypeOK /\ Inv /\ [Next]_vars => Inv'
  BY StepBudgetKept, StepBudgetBounded, StepStraysCounted, StepLockHeld, StepRunsOwned, StepFreshLocals,
     StepSeenSetKept, StepFailuresCounted, StepCleanupComplete, StepUpsertedIsStored
<1>3. Inv => FetchedIsServed
  BY DEF UpsertedIsStored, FetchedIsServed, ServedAsFetched, Holding, Steps
<1> QED BY <1>1, <1>2, <1>3, TypeCorrect, PTL DEF Spec

-----------------------------------------------------------------------------
(* The baseline of a cleanup *)

LEMMA StepSuccessesOrdered ==
  ASSUME TypeOK, RunsOwned, StampsKept, SuccessesOrdered, [Next]_vars
  PROVE  SuccessesOrdered'
<1>t. /\ pc \in [Procs -> Steps] /\ now \in Nat
      /\ \A r \in RunIds : scrapeRuns[r].finishedAt \in Nat /\ scrapeRuns[r].finishedAt <= now
  <2>1. scrapeRuns \in [RunIds -> RunRow] BY DEF TypeOK
  <2> QED BY <2>1 DEF TypeOK, RunRow, StampsKept
\* A success is an earlier one, or the one outcome this step records.
<1>1. ASSUME NEW r \in RunIds, scrapeRuns'[r].status = "success"
      PROVE  \/ scrapeRuns'[r] = scrapeRuns[r]
             \/ /\ scrapeRuns'[r].finishedAt = now + 1
                /\ \E p \in Procs : Finish(p) /\ pc[p] = "finish" /\ runID[p] = r
  <2>1. ASSUME NEW p \in Procs PROVE ~RowInserted(r, p)
    BY <1>1 DEF RowInserted
  <2>2. ~RowPruned(r) BY <1>1 DEF RowPruned, NoRun
  <2>3. CASE RowEnded(r)
    BY <1>1, <2>3 DEF RowEnded, Outcome
  <2> QED BY <2>1, <2>2, <2>3, RowStep
<1>2. ASSUME NEW p \in Procs, NEW q \in Procs, Finish(p), Finish(q) PROVE p = q
  <2>1. ScrapeStep(p) BY <1>2 DEF ScrapeStep
  <2>2. pc'[q] # pc[q] BY <1>t, <1>2 DEF Finish, Goto
  <2> QED BY <2>1, <2>2, OthersStay
<1> SUFFICES ASSUME NEW r \in RunIds, NEW q \in RunIds,
                    scrapeRuns'[r].status = "success", scrapeRuns'[q].status = "success",
                    scrapeRuns'[r].finishedAt = scrapeRuns'[q].finishedAt
             PROVE  r = q
  BY DEF SuccessesOrdered
<1>3. CASE scrapeRuns'[r] = scrapeRuns[r] /\ scrapeRuns'[q] = scrapeRuns[q]
  BY <1>3 DEF SuccessesOrdered
<1>4. CASE scrapeRuns'[r].finishedAt = now + 1
  <2>1. scrapeRuns[r].finishedAt # now + 1 /\ scrapeRuns[q].finishedAt # now + 1
    BY <1>t
  <2>2. scrapeRuns'[r] # scrapeRuns[r] /\ scrapeRuns'[q] # scrapeRuns[q]
    BY <1>4, <2>1
  <2> QED BY <1>1, <1>2, <2>2
<1>5. CASE scrapeRuns'[q].finishedAt = now + 1
  BY <1>4, <1>5
<1> QED BY <1>1, <1>3, <1>4, <1>5

\* Among the rows of a set one finished last.
LEMMA LastFinished ==
  ASSUME NEW runs \in [RunIds -> RunRow], NEW S \in SUBSET RunIds, S # {}
  PROVE  \E r \in S : \A q \in S : runs[q].finishedAt <= runs[r].finishedAt
<1> DEFINE f == [r \in S |-> runs[r].finishedAt]
<1>1. IsFiniteSet(S)
  <2>1. MaxRuns \in Int BY NumberAssumption
  <2>2. IsFiniteSet(RunIds) BY <2>1, FS_Interval DEF RunIds
  <2> QED BY <2>2, FS_Subset
<1>2. f \in [S -> Nat] BY DEF RunRow
<1>3. \E r \in S : \A q \in S : f[q] <= f[r]
  <2> HIDE DEF f
  <2> QED BY <1>1, <1>2, GreatestExists
<1> QED BY <1>3

\* The vendor's last successful count only changes when a run of the vendor
\* records a success; pruning takes the last one only together with all others.
LEMMA BaselineMoves ==
  ASSUME TypeOK, TypeOK', RunsOwned, StampsKept, SuccessesOrdered, NewestOwned, [Next]_vars,
         NEW v \in Vendors,
         \A p \in Procs : VendorOf[p] = v => pc[p] # "finish"
  PROVE  LastSuccessCount(v)' \in {LastSuccessCount(v), 0}
<1> DEFINE S == SuccessRuns(v)
           T == {r \in RunIds : scrapeRuns'[r].vendor = v /\ scrapeRuns'[r].status = "success"}
<1>t. /\ scrapeRuns \in [RunIds -> RunRow] /\ scrapeRuns' \in [RunIds -> RunRow]
      /\ \A r \in RunIds : scrapeRuns[r].finishedAt \in Nat
  <2>1. scrapeRuns \in [RunIds -> RunRow] /\ scrapeRuns' \in [RunIds -> RunRow]
    BY DEF TypeOK
  <2> QED BY <2>1 DEF RunRow
<1>1. ASSUME NEW r \in T PROVE r \in S /\ scrapeRuns'[r] = scrapeRuns[r]
  <2>1. ASSUME NEW p \in Procs PROVE ~RowInserted(r, p)
    BY DEF RowInserted
  <2>2. ~RowPruned(r) BY DEF RowPruned, NoRun
  <2>3. ~RowEnded(r)
    <3> SUFFICES ASSUME RowEnded(r) PROVE FALSE OBVIOUS
    <3>1. /\ scrapeRuns'[r].vendor = scrapeRuns[r].vendor
          /\ \E p \in Procs : pc[p] = "finish" /\ runID[p] = r
      BY DEF RowEnded, Outcome
    <3>2. PICK p \in Procs : pc[p] = "finish" /\ runID[p] = r BY <3>1
    <3>3. VendorOf[p] = v BY <3>1, <3>2 DEF NewestOwned, Unfinished
    <3> QED BY <3>2, <3>3
  <2>4. scrapeRuns'[r] = scrapeRuns[r] BY <2>1, <2>2, <2>3, RowStep
  <2> QED BY <2>4 DEF SuccessRuns
<1>2. ASSUME NEW q \in S, q \notin T, NEW r \in T PROVE scrapeRuns[q].finishedAt < scrapeRuns[r].finishedAt
  <2>1. /\ q \in RunIds /\ scrapeRuns[q].status = "success" /\ scrapeRuns[q].vendor = v
    BY DEF SuccessRuns
  <2>2. scrapeRuns'[q] # scrapeRuns[q] BY <1>2, <2>1
  <2>3. ASSUME NEW p \in Procs PROVE ~RowInserted(q, p)
    <3>1. nextRun \in RunIds => scrapeRuns[nextRun].status = "absent"
      BY NumberAssumption DEF RunsOwned, TypeOK, RunIds
    <3> QED BY <2>1, <3>1 DEF RowInserted
  <2>4. RowPruned(q)
    BY <2>1, <2>2, <2>3, RowStep DEF RowEnded
  <2> QED BY <1>t, <1>1, <2>4 DEF RowPruned
<1>3. LastSuccessCount(v)' = IF T = {} THEN 0
        ELSE scrapeRuns'[CHOOSE r \in T : \A q \in T : scrapeRuns'[q].finishedAt <= scrapeRuns'[r].finishedAt].products
  BY DEF LastSuccessCount, SuccessRuns
<1>4. CASE T # {}
  <2> DEFINE new == CHOOSE r \in T : \A q \in T : scrapeRuns'[q].finishedAt <= scrapeRuns'[r].finishedAt
             old == CHOOSE r \in S : \A q \in S : scrapeRuns[q].finishedAt <= scrapeRuns[r].finishedAt
  <2>s. S \in SUBSET RunIds /\ T \in SUBSET RunIds BY DEF SuccessRuns
  <2>1. new \in T /\ \A q \in T : scrapeRuns'[q].finishedAt <= scrapeRuns'[new].finishedAt
    <3>1. \E r \in T : \A q \in T : scrapeRuns'[q].finishedAt <= scrapeRuns'[r].finishedAt
      <4> HIDE DEF T
      <4> QED BY <1>4, <1>t, <2>s, LastFinished
    <3> QED BY <3>1
  <2>2. old \in S /\ \A q \in S : scrapeRuns[q].finishedAt <= scrapeRuns[old].finishedAt
    <3>0. S # {} BY <1>1, <1>4
    <3>1. \E r \in S : \A q \in S : scrapeRuns[q].finishedAt <= scrapeRuns[r].finishedAt
      <4> HIDE DEF S
      <4> QED BY <3>0, <1>t, <2>s, LastFinished
    <3> QED BY <3>1
  <2>3. LastSuccessCount(v) = scrapeRuns[old].products
    BY <2>2 DEF LastSuccessCount
  <2>4. LastSuccessCount(v)' = scrapeRuns'[new].products
    BY <1>3, <1>4
  <2> HIDE DEF new, old
  <2>5. new \in S /\ scrapeRuns'[new] = scrapeRuns[new] BY <1>1, <2>1
  <2>6. scrapeRuns[old].finishedAt <= scrapeRuns[new].finishedAt
    <3>1. CASE old \in T BY <1>1, <2>1, <2>5, <3>1
    <3>2. CASE old \notin T
      <4>1. scrapeRuns[old].finishedAt < scrapeRuns[new].finishedAt BY <1>2, <2>1, <2>2, <3>2
      <4> QED BY <1>t, <2>s, <2>2, <2>5, <4>1
    <3> QED BY <3>1, <3>2
  <2>7. scrapeRuns[new].finishedAt <= scrapeRuns[old].finishedAt BY <2>2, <2>5
  <2>8. /\ scrapeRuns[old].finishedAt = scrapeRuns[new].finishedAt
        /\ scrapeRuns[old].status = "success" /\ scrapeRuns[new].status = "success"
    <3>1. scrapeRuns[old].finishedAt \in Nat /\ scrapeRuns[new].finishedAt \in Nat
      BY <1>t, <2>s, <2>2, <2>5
    <3> QED BY <2>2, <2>5, <2>6, <2>7, <3>1 DEF SuccessRuns
  <2>9. old = new BY <2>s, <2>2, <2>5, <2>8 DEF SuccessesOrdered
  <2> QED BY <2>3, <2>4, <2>5, <2>9
<1> QED BY <1>3, <1>4

\* A product enters a seen-set when the whole handler call has been upserted.
HandedOver(p, h) ==
  \E u \in UnitsOf(VendorOf[p]) : h \in Handed(p, u) /\ ToUpsert(p, u) = {}

LEMMA SeenSource ==
  ASSUME TypeOK, [Next]_vars, ~StrayCommits, NEW r \in RunIds, NEW h, h \in scrapeSeen'[r], h \notin scrapeSeen[r]
  PROVE  \E p \in Procs : pc[p] = "scrape" /\ runID[p] = r /\ HandedOver(p, h) /\ UNCHANGED products
<1>t. scrapeSeen \in [RunIds -> SUBSET Products] BY DEF TypeOK
<1>1. ASSUME NEW p \in Procs, ScrapeStep(p)
      PROVE  \E u \in UnitsOf(VendorOf[p]) : MarkSeen(p, u) \/ HandlerFails(p, u)
  <2>1. CASE AcquireScrapeLock(p) \/ SelectNow(p) \/ StartScrapeRun(p)
    BY <2>1 DEF AcquireScrapeLock, SelectNow, StartScrapeRun
  <2>2. CASE \E s \in Services : FetchService(p, s) \/ FetchFails(p, s) \/ ServiceUndiscovered(p, s)
    BY <2>2 DEF FetchService, FetchFails, ServiceUndiscovered, db
  <2>3. CASE \E u \in UnitsOf(VendorOf[p]) : UpsertBatch(p, u)
    BY <2>3 DEF UpsertBatch
  <2>4. CASE ScrapeReturnsNil(p) \/ ScrapeReturnsError(p)
    BY <2>4 DEF ScrapeReturnsNil, ScrapeReturnsError, db
  <2>5. CASE ReadPrevCount(p) \/ CountSeen(p) \/ DeleteStaleProducts(p)
    BY <2>5 DEF ReadPrevCount, CountSeen, DeleteStaleProducts, db
  <2>6. CASE Finish(p) \/ PruneScrapeRuns(p) \/ ClearSeen(p) \/ Unlock(p)
    BY <1>t, <2>6 DEF Finish, PruneScrapeRuns, ClearSeen, Unlock
  <2> QED BY <1>1, <2>1, <2>2, <2>3, <2>4, <2>5, <2>6 DEF ScrapeStep
<1>2. \E p \in Procs : ScrapeStep(p)
  <2>1. ASSUME NEW c \in Commands, Invoke(c) \/ Cancel(c) \/ Kill(c) PROVE FALSE
    BY <2>1 DEF Invoke, Cancel, Kill, db
  <2>2. CASE PgCrash \/ ReapStaleScrapeRuns \/ UpstreamChange \/ Seed \/ UNCHANGED vars
    BY <2>2 DEF PgCrash, ReapStaleScrapeRuns, UpstreamChange, Seed, vars, db
  <2> QED BY <2>1, <2>2 DEF Next
<1>p. PICK p \in Procs : ScrapeStep(p) BY <1>2
<1>3. PICK u \in UnitsOf(VendorOf[p]) : MarkSeen(p, u) \/ HandlerFails(p, u)
  BY <1>1, <1>p
<1>4. /\ pc[p] = "scrape" /\ ToUpsert(p, u) = {} /\ UNCHANGED products
      /\ scrapeSeen' = [scrapeSeen EXCEPT ![runID[p]] = @ \cup Handed(p, u)]
  BY <1>3 DEF MarkSeen, HandlerFails, Handling, table
<1>5. runID[p] = r /\ h \in Handed(p, u)
  BY <1>t, <1>4
<1> QED BY <1>4, <1>5 DEF HandedOver

LEMMA StepSeenIsStored ==
  ASSUME TypeOK, BudgetBounded, StraysCounted, LockHeld, RunsOwned, UpsertedIsStored, SeenIsStored, [Next]_vars
  PROVE  SeenIsStored'
<1> USE StructureAssumption
<1>s. NoStrayYet' => NoStrayYet /\ ~StrayCommits BY StepStraysCounted
<1>t. /\ scrapeSeen \in [RunIds -> SUBSET Products] /\ nextRun \in 1 .. MaxRuns + 1
      /\ scrapeSeen' \in [RunIds -> SUBSET Products] /\ nextRun' \in 1 .. MaxRuns + 1
      /\ MaxRuns \in Nat
  BY StepTypeOK, NumberAssumption DEF TypeOK
<1>h. Unfinished \subseteq Holding /\ Unfinished \subseteq InRun /\ "delete" \in Holding /\ "scrape" \in Unfinished
  BY DEF Unfinished, Holding, Steps, InRun
<1>n. nextRun' >= nextRun
  <2>1. ASSUME NEW p \in Procs, ScrapeStep(p) PROVE nextRun' \in {nextRun, nextRun + 1}
    BY <2>1, RunMoves DEF StartScrapeRun, InsertRun
  <2>2. ASSUME NEW c \in Commands, Invoke(c) \/ Cancel(c) \/ Kill(c) PROVE UNCHANGED nextRun
    BY <2>2 DEF Invoke, Cancel, Kill, db
  <2>3. ASSUME PgCrash \/ ReapStaleScrapeRuns \/ UpstreamChange \/ Seed \/ StrayCommits \/ UNCHANGED vars PROVE UNCHANGED nextRun
    BY <2>3 DEF PgCrash, ReapStaleScrapeRuns, UpstreamChange, Seed, StrayCommits, vars, db
  <2>4. nextRun' \in {nextRun, nextRun + 1} BY <2>1, <2>2, <2>3 DEF Next
  <2> QED BY <1>t, <2>4
<1>1. ASSUME NoStrayYet', NEW r \in RunIds, r >= nextRun PROVE scrapeSeen'[r] = {}
  <2>1. ASSUME NEW h \in scrapeSeen'[r] PROVE FALSE
    <3>1. h \notin scrapeSeen[r] BY <1>1, <1>s DEF SeenIsStored
    <3>2. PICK p \in Procs : pc[p] = "scrape" /\ runID[p] = r BY <1>1, <1>s, <3>1, SeenSource
    <3>3. runID[p] < nextRun BY <1>h, <3>2 DEF RunsOwned
    <3> QED BY <1>1, <1>t, <3>2, <3>3 DEF RunIds
  <2> QED BY <2>1
<1>2. ASSUME NoStrayYet', NEW r \in RunIds, r >= nextRun' PROVE scrapeSeen'[r] = {}
  <2>1. r >= nextRun BY <1>2, <1>n, <1>t DEF RunIds
  <2> QED BY <1>1, <1>2, <2>1
<1>3. ASSUME NoStrayYet', NEW q \in Procs, pc'[q] \in Unfinished, NEW h \in scrapeSeen'[runID'[q]]
      PROVE  ServiceVendor[ServiceOf[h]] = VendorOf[q] /\ products'[h] # Absent
  <2>1. CASE StartScrapeRun(q) /\ InsertRun(q) /\ runID'[q] = nextRun
    <3>1. nextRun \in RunIds /\ nextRun >= nextRun BY <1>t, <2>1 DEF InsertRun, RunIds
    <3> QED BY <1>1, <1>3, <2>1, <3>1
  <2>2. CASE pc[q] \in Unfinished /\ runID'[q] = runID[q]
    <3>0. runID[q] \in RunIds /\ h \in Products
      <4>1. runID[q] \in RunIds BY <1>h, <2>2 DEF RunsOwned
      <4> QED BY <1>3, <1>t, <2>2, <4>1
    <3>1. CASE h \in scrapeSeen[runID[q]]
      <4>1. ServiceVendor[ServiceOf[h]] = VendorOf[q] /\ products[h] # Absent
        BY <1>3, <1>s, <2>2, <3>1 DEF SeenIsStored
      <4>2. ASSUME NEW p \in Procs PROVE ~RowDeleted(h, p)
        <5> SUFFICES ASSUME RowDeleted(h, p) PROVE FALSE OBVIOUS
        <5>1. p = q BY <1>h, <2>2, <4>1 DEF RowDeleted, LockHeld
        <5> QED BY <3>1, <5>1 DEF RowDeleted
      <4> QED BY <1>3, <1>s, <3>0, <4>1, <4>2, TableStep DEF RowUpserted, RowSeeded
    <3>2. CASE h \notin scrapeSeen[runID[q]]
      <4>1. PICK p \in Procs : pc[p] = "scrape" /\ runID[p] = runID[q] /\ HandedOver(p, h) /\ UNCHANGED products
        BY <1>3, <1>s, <2>2, <3>0, <3>2, SeenSource
      <4>2. PICK u \in UnitsOf(VendorOf[p]) : h \in Handed(p, u) /\ ToUpsert(p, u) = {}
        BY <4>1 DEF HandedOver
      <4>6. p = q BY <1>h, <2>2, <4>1 DEF RunsOwned
      <4>3. /\ ServiceVendor[ServiceOf[h]] = VendorOf[p] /\ svc[p][ServiceOf[h]] = "fetched"
            /\ batch[p][h] # Absent
        BY <3>0, <4>2, UnitVendor
      <4>4. h \notin pending[p] BY <4>2 DEF ToUpsert
      <4>5. products[h] # Absent BY <1>3, <1>s, <1>h, <3>0, <4>1, <4>3, <4>4 DEF UpsertedIsStored
      <4> QED BY <4>1, <4>3, <4>5, <4>6
    <3> QED BY <3>1, <3>2
  <2> QED BY <1>3, <2>1, <2>2, UnfinishedMoves
<1> QED BY <1>2, <1>3 DEF SeenIsStored

\* A context is never revived under a running process.
LEMMA ContextsStayDone ==
  ASSUME TypeOK, [Next]_vars, NEW q \in Procs, ctxDone[q], pc[q] # "done"
  PROVE  ctxDone'[q]
<1>1. ASSUME NEW p \in Procs, ScrapeStep(p) PROVE ctxDone'[q]
  <2>1. CASE AcquireScrapeLock(p) \/ Unlock(p)
    BY <2>1 DEF AcquireScrapeLock, Unlock, Return
  <2>2. CASE SelectNow(p) \/ StartScrapeRun(p)
    BY <2>2 DEF SelectNow, StartScrapeRun, FailEarly
  <2>3. CASE \E s \in Services : FetchService(p, s) \/ FetchFails(p, s) \/ ServiceUndiscovered(p, s)
    BY <2>3 DEF FetchService, FetchFails, ServiceUndiscovered, control
  <2>4. CASE \E u \in UnitsOf(VendorOf[p]) : UpsertBatch(p, u) \/ MarkSeen(p, u) \/ HandlerFails(p, u)
    BY <2>4 DEF UpsertBatch, MarkSeen, HandlerFails, control
  <2>5. CASE ScrapeReturnsNil(p) \/ ScrapeReturnsError(p)
    BY <2>5 DEF ScrapeReturnsNil, ScrapeReturnsError
  <2>6. CASE ReadPrevCount(p) \/ CountSeen(p) \/ DeleteStaleProducts(p)
    BY <2>6 DEF ReadPrevCount, CountSeen, DeleteStaleProducts
  <2>7. CASE Finish(p) \/ PruneScrapeRuns(p) \/ ClearSeen(p)
    BY <2>7 DEF Finish, PruneScrapeRuns, ClearSeen
  <2> QED BY <1>1, <2>1, <2>2, <2>3, <2>4, <2>5, <2>6, <2>7 DEF ScrapeStep
<1>2. ASSUME NEW c \in Commands, Invoke(c) \/ Cancel(c) \/ Kill(c) PROVE ctxDone'[q]
  BY <1>2 DEF Invoke, Cancel, Kill, For
<1>3. CASE PgCrash \/ ReapStaleScrapeRuns \/ UpstreamChange \/ Seed \/ StrayCommits \/ UNCHANGED vars
  BY <1>3 DEF PgCrash, ReapStaleScrapeRuns, UpstreamChange, Seed, StrayCommits, vars, control
<1> QED BY <1>1, <1>2, <1>3 DEF Next

\* What a run marked seen outlives every step while Postgres stays up.
LEMMA SeenStays ==
  ASSUME Budget["pgcrash"] = 0, TypeOK, BudgetKept, RunsOwned, [Next]_vars, NEW q \in Procs, pc[q] \in Unfinished
  PROVE  scrapeSeen[runID[q]] \subseteq scrapeSeen'[runID[q]]
<1>1. ASSUME NEW p \in Procs, ScrapeStep(p) PROVE scrapeSeen[runID[q]] \subseteq scrapeSeen'[runID[q]]
  BY <1>1, SeenOutlives
<1>2. ASSUME NEW c \in Commands, Invoke(c) \/ Cancel(c) \/ Kill(c) PROVE UNCHANGED scrapeSeen
  BY <1>2 DEF Invoke, Cancel, Kill, db
<1>3. ~PgCrash
  BY DEF PgCrash, Spend, BudgetKept, EnvEvents
<1>4. ASSUME ReapStaleScrapeRuns \/ UpstreamChange \/ Seed \/ UNCHANGED vars PROVE UNCHANGED scrapeSeen
  BY <1>4 DEF ReapStaleScrapeRuns, UpstreamChange, Seed, vars, db
<1>5. ASSUME StrayCommits PROVE scrapeSeen[runID[q]] \subseteq scrapeSeen'[runID[q]]
  <2>1. runID[q] \in RunIds BY DEF RunsOwned, InRun
  <2> QED BY <1>5, <2>1, StrayMarks
<1> QED BY <1>1, <1>2, <1>3, <1>4, <1>5 DEF Next

\* Without statement faults the read of the previous count only fails on a
\* cancelled context, and then the cleanup is refused as well.
LEMMA StepBaselineRead ==
  ASSUME Budget["pgcrash"] = 0, Budget["fault"] = 0, IsFiniteSet(Products),
         TypeOK, BudgetKept, LockHeld, RunsOwned, StampsKept, SuccessesOrdered, NewestOwned, BaselineRead,
         [Next]_vars
  PROVE  BaselineRead'
<1> USE StructureAssumption
<1> SUFFICES ASSUME NEW q \in Procs, pc'[q] \in {"count", "delete"}
             PROVE  /\ pc'[q] = "delete" \/ (pc'[q] = "count" /\ ~ctxDone'[q]) =>
                         total'[q] >= LastSuccessCount(VendorOf[q])' \div 2
                    /\ pc'[q] = "delete" => Cardinality(scrapeSeen'[runID'[q]]) >= total'[q] \div 2
  BY DEF BaselineRead
<1> DEFINE base == LastSuccessCount(VendorOf[q])
<1>t. /\ pc \in [Procs -> Steps] /\ total[q] \in Nat /\ failed[q] \in Nat /\ base \in Nat
      /\ scrapeSeen \in [RunIds -> SUBSET Products] /\ scrapeSeen' \in [RunIds -> SUBSET Products]
      /\ TypeOK'
  <2>1. TypeOK' BY StepTypeOK
  <2> QED BY <2>1, LastSuccessCountType DEF TypeOK
<1>1. total'[q] = total[q] BY TotalsMove
<1>2. runID'[q] = runID[q] /\ pc[q] \in Unfinished
  <2>1. ~(StartScrapeRun(q) /\ runID'[q] = nextRun /\ InsertRun(q))
    BY <1>t DEF StartScrapeRun, FailEarly, Goto
  <2> QED BY <2>1, UnfinishedMoves DEF Unfinished
<1>f. ~Faulted BY DEF Faulted, Spend, BudgetKept, EnvEvents
<1>3. CASE pc[q] = pc'[q]
  <2>1. LastSuccessCount(VendorOf[q])' \in {base, 0}
    <3>1. ASSUME NEW p \in Procs, VendorOf[p] = VendorOf[q] PROVE pc[p] # "finish"
      <4>1. pc[q] \in Holding /\ "finish" \in Holding BY <1>3 DEF Holding, Steps
      <4> QED BY <1>3, <3>1, <4>1 DEF LockHeld
    <3>2. VendorOf[q] \in Vendors OBVIOUS
    <3> QED BY <1>t, <3>1, <3>2, BaselineMoves
  <2>2. ASSUME pc'[q] = "delete" \/ (pc'[q] = "count" /\ ~ctxDone'[q])
        PROVE  total'[q] >= LastSuccessCount(VendorOf[q])' \div 2
    <3>1. pc[q] = "delete" \/ (pc[q] = "count" /\ ~ctxDone[q])
      BY <1>3, <2>2, ContextsStayDone
    <3>2. total[q] >= base \div 2 BY <3>1 DEF BaselineRead
    <3> HIDE DEF base
    <3>3. total[q] >= 0 \div 2 BY <1>t
    <3> QED BY <1>1, <2>1, <3>2, <3>3
  <2>3. ASSUME pc'[q] = "delete" PROVE Cardinality(scrapeSeen'[runID'[q]]) >= total'[q] \div 2
    <3>1. runID[q] \in RunIds BY <1>2 DEF RunsOwned, InRun
    <3> DEFINE A == scrapeSeen[runID[q]]
               B == scrapeSeen'[runID[q]]
    <3>2. A \subseteq B /\ B \subseteq Products BY <1>2, <1>t, <3>1, SeenStays
    <3>3. Cardinality(A) >= total[q] \div 2 BY <1>3, <2>3 DEF BaselineRead
    <3> HIDE DEF A, B
    <3>4. IsFiniteSet(B) BY <3>2, FS_Subset
    <3>5. Cardinality(A) <= Cardinality(B) /\ IsFiniteSet(A) BY <3>2, <3>4, FS_Subset
    <3>6. Cardinality(A) \in Nat /\ Cardinality(B) \in Nat BY <3>4, <3>5, FS_CardinalityType
    <3>7. total[q] \div 2 \in Int BY <1>t
    <3>8. Cardinality(B) >= total[q] \div 2 BY <3>3, <3>5, <3>6, <3>7
    <3> QED BY <1>1, <1>2, <3>8 DEF B
  <2> QED BY <2>2, <2>3
<1>4. CASE ReadPrevCount(q) /\ pc'[q] = "count"
  <2>1. UNCHANGED <<scrapeRuns, ctxDone>> BY <1>4 DEF ReadPrevCount, db
  <2>2. LastSuccessCount(VendorOf[q])' = base BY <2>1 DEF LastSuccessCount, SuccessRuns
  <2>3. ASSUME ~ctxDone'[q] PROVE total[q] >= base \div 2
    <3>1. pc'[q] = AfterPrev(q, base)
      BY <1>4, <1>f, <1>t, <2>1, <2>3 DEF ReadPrevCount, Refused, Goto
    <3>2. ~(base > 0 /\ total[q] < base \div 2)
      BY <1>4, <3>1 DEF AfterPrev
    <3> HIDE DEF base
    <3> QED BY <1>t, <3>2
  <2> HIDE DEF base
  <2> QED BY <1>1, <1>4, <2>2, <2>3
<1>5. CASE CountSeen(q) /\ pc'[q] = "delete"
  <2>1. UNCHANGED <<scrapeRuns, scrapeSeen>> /\ pc[q] = "count" /\ ~ctxDone[q]
    BY <1>5, <1>f, <1>t DEF CountSeen, db, Refused, Goto
  <2>2. LastSuccessCount(VendorOf[q])' = base BY <2>1 DEF LastSuccessCount, SuccessRuns
  <2>3. total[q] >= base \div 2 BY <2>1 DEF BaselineRead
  <2>4. seenSetComplete(Cardinality(scrapeSeen[runID[q]]), total[q])
    BY <1>5, <1>f, <1>t, <2>1 DEF CountSeen, Refused, Goto
  <2>5. Cardinality(scrapeSeen[runID[q]]) >= total[q] \div 2 BY <2>4 DEF seenSetComplete
  <2> HIDE DEF base
  <2> QED BY <1>1, <1>2, <2>1, <2>2, <2>3, <2>5
<1> QED BY <1>3, <1>4, <1>5, CleanupMoves

\* Of what a cleanup leaves, its own seen-set is a part.
LEMMA CleanupLeaves ==
  ASSUME IsFiniteSet(Products), TypeOK, RunsOwned, SeenIsStored, BaselineRead, NEW p \in Procs, pc[p] = "delete"
  PROVE  LET base == LastSuccessCount(VendorOf[p])
             left == {h \in ProductsOf(VendorOf[p]) : products[h] # Absent} \ StaleProducts(p)
         IN /\ 2 * total[p] + 1 >= base
            /\ NoStrayYet => 4 * Cardinality(left) + 3 >= base
<1> DEFINE base == LastSuccessCount(VendorOf[p])
           Left == {h \in ProductsOf(VendorOf[p]) : products[h] # Absent} \ StaleProducts(p)
           Seen == scrapeSeen[runID[p]]
<1>1. runID[p] \in RunIds /\ pc[p] \in Unfinished
  BY DEF RunsOwned, InRun, Unfinished
<1>2. NoStrayYet => Seen \subseteq Left
  <2>1. Seen \subseteq Products BY <1>1 DEF TypeOK
  <2>2. ASSUME NoStrayYet, NEW h \in Seen PROVE h \in Left
    BY <1>1, <2>1, <2>2 DEF SeenIsStored, ProductsOf, StaleProducts
  <2> QED BY <2>2
<1>3. total[p] >= base \div 2 /\ Cardinality(Seen) >= total[p] \div 2
  BY DEF BaselineRead
<1>4. total[p] \in Nat /\ base \in Nat BY LastSuccessCountType DEF TypeOK
<1>5. Left \subseteq Products BY DEF ProductsOf
<1> HIDE DEF base, Left, Seen
<1>6. 2 * total[p] + 1 >= base BY <1>3, <1>4
<1>7. ASSUME NoStrayYet PROVE 4 * Cardinality(Left) + 3 >= base
  <2>1. IsFiniteSet(Left) BY <1>5, FS_Subset
  <2>2. Cardinality(Seen) <= Cardinality(Left) /\ IsFiniteSet(Seen) BY <1>2, <1>7, <2>1, FS_Subset
  <2>3. Cardinality(Seen) \in Nat /\ Cardinality(Left) \in Nat BY <2>1, <2>2, FS_CardinalityType
  <2>4. 4 * Cardinality(Seen) + 2 >= 2 * total[p] BY <1>3, <1>4, <2>3
  <2> QED BY <1>4, <1>6, <2>2, <2>3, <2>4
<1> QED BY <1>6, <1>7 DEF base, Left

\* The guards of the cleanup hold when it deletes, not only when they were read:
\* with a finite catalogue, Postgres up, no live run older than the reaper's
\* timeout and no failed statement, a run that is about to delete ingested half of
\* what the vendor's last success records now, less half a product at most, and,
\* unless a statement has outlived its client, leaves the vendor a quarter of that
\* many rows, less three quarters of a row at most, whatever other commands insert,
\* prune or reap in between and whenever a signal arrives.
THEOREM CleanupGuarded ==
  ASSUME Budget["pgcrash"] = 0, Budget["fault"] = 0, LongRuns = FALSE, IsFiniteSet(Products)
  PROVE  Spec => []CleanupAgainstBaseline
<1> DEFINE Inv == /\ BudgetKept /\ BudgetBounded /\ StraysCounted /\ LockHeld /\ RunsOwned /\ FreshLocals
                  /\ SeenSetKept /\ FailuresCounted /\ CleanupComplete /\ UpsertedIsStored /\ StampsKept
                  /\ NewestOwned /\ SuccessesOrdered /\ SeenIsStored /\ BaselineRead
<1>1. Init => Inv
  <2>1. Init => BudgetKept /\ StraysCounted /\ LockHeld /\ FreshLocals
    BY DEF Init, BudgetKept, StraysCounted, LockHeld, Holding, FreshLocals
  <2>2. Init => FailuresCounted /\ CleanupComplete
    BY DEF Init, FailuresCounted, CleanupComplete
  <2>3. Init => SeenSetKept /\ NewestOwned /\ SeenIsStored
    BY DEF Init, SeenSetKept, NewestOwned, SeenIsStored, Unfinished
  <2>4. Init => UpsertedIsStored BY DEF Init, UpsertedIsStored, Holding
  <2>5. Init => StampsKept /\ SuccessesOrdered BY DEF Init, StampsKept, SuccessesOrdered, NoRun
  <2>6. Init => BaselineRead BY DEF Init, BaselineRead
  <2> QED BY <2>1, <2>2, <2>3, <2>4, <2>5, <2>6, InitRunsOwned, InitBudgetBounded
<1>2. TypeOK /\ Inv /\ [Next]_vars => Inv'
  BY StepBudgetKept, StepBudgetBounded, StepStraysCounted, StepLockHeld, StepRunsOwned, StepFreshLocals,
     StepSeenSetKept, StepFailuresCounted, StepCleanupComplete, StepUpsertedIsStored, StepStampsKept,
     StepNewestOwned, StepSuccessesOrdered, StepSeenIsStored, StepBaselineRead
<1>3. TypeOK /\ Inv => CleanupAgainstBaseline
  BY CleanupLeaves DEF CleanupAgainstBaseline
<1> QED BY <1>1, <1>2, <1>3, TypeCorrect, PTL DEF Spec

-----------------------------------------------------------------------------
(* Every exit records an outcome *)

\* A row that is not running keeps its outcome until it is pruned: only its own run
\* writes it again, and no id is drawn twice.
LEMMA RowsEnd ==
  ASSUME TypeOK, [Next]_vars, NEW r \in RunIds, scrapeRuns[r].status # "running", r # nextRun,
         \A p \in Procs : Finish(p) => runID[p] # r
  PROVE  scrapeRuns'[r].status \in {scrapeRuns[r].status, "absent"}
<1>t. scrapeRuns \in [RunIds -> RunRow] BY DEF TypeOK
<1>1. ASSUME NEW p \in Procs, StartScrapeRun(p) PROVE scrapeRuns'[r] = scrapeRuns[r]
  BY <1>t, <1>1 DEF StartScrapeRun, InsertRun
<1>2. ASSUME NEW p \in Procs, Finish(p) PROVE scrapeRuns'[r] = scrapeRuns[r]
  <2>1. ASSUME NEW x, NEW st, NEW n, FinishScrapeRun(p, x, st, n) PROVE scrapeRuns'[r] = scrapeRuns[r]
    <3>1. \/ UNCHANGED scrapeRuns
          \/ scrapeRuns' = [scrapeRuns EXCEPT ![runID[p]] = Outcome(scrapeRuns[runID[p]], st, n)]
      BY <2>1 DEF FinishScrapeRun, SetOutcome
    <3>2. runID[p] # r BY <1>2
    <3> QED BY <1>t, <3>1, <3>2
  <2> QED BY <1>2, <2>1 DEF Finish
<1>3. ASSUME NEW p \in Procs, PruneScrapeRuns(p)
      PROVE  scrapeRuns'[r].status \in {scrapeRuns[r].status, "absent"}
  BY <1>3 DEF PruneScrapeRuns, NoRun
<1>4. ASSUME NEW p \in Procs, ScrapeStep(p), ~StartScrapeRun(p), ~Finish(p), ~PruneScrapeRuns(p)
      PROVE  scrapeRuns'[r] = scrapeRuns[r]
  BY <1>4, RowsStay
<1>5. ASSUME NEW c \in Commands, Invoke(c) \/ Cancel(c) \/ Kill(c) PROVE scrapeRuns'[r] = scrapeRuns[r]
  BY <1>5 DEF Invoke, Cancel, Kill, db
<1>6. CASE ReapStaleScrapeRuns
  BY <1>6 DEF ReapStaleScrapeRuns, Reapable
<1>7. CASE PgCrash \/ UpstreamChange \/ Seed \/ StrayCommits \/ UNCHANGED vars
  BY <1>7 DEF PgCrash, UpstreamChange, Seed, StrayCommits, vars, db
<1> QED BY <1>1, <1>2, <1>3, <1>4, <1>5, <1>6, <1>7 DEF Next

\* While no statement has failed, none fails in the step that keeps it so.
LEMMA FaultsBefore ==
  ASSUME TypeOK, BudgetBounded, [Next]_vars, NoFaultYet'
  PROVE  NoFaultYet /\ ~Faulted
<1>1. /\ budget["fault"] \in Nat /\ Budget["fault"] \in Nat /\ budget'["fault"] \in Nat
      /\ budget'["fault"] <= budget["fault"] /\ budget["fault"] <= Budget["fault"]
  BY BudgetShrinks, NumberAssumption DEF BudgetBounded, TypeOK, EnvEvents
<1>2. Faulted => budget'["fault"] = budget["fault"] - 1
  BY DEF Faulted, Spend, TypeOK, EnvEvents
<1> QED BY <1>1, <1>2 DEF NoFaultYet

\* A process keeps its id, loses it to a new call or draws the next one.
LEMMA IdsMove ==
  ASSUME TypeOK, [Next]_vars
  PROVE  /\ nextRun' \in {nextRun, nextRun + 1}
         /\ \A q \in Procs : \/ runID'[q] \in {runID[q], 0}
                             \/ StartScrapeRun(q) /\ runID'[q] = nextRun /\ nextRun' = nextRun + 1
                                /\ \A p \in Procs \ {q} : runID'[p] = runID[p]
<1> DEFINE Moved == /\ nextRun' \in {nextRun, nextRun + 1}
                    /\ \A q \in Procs : \/ runID'[q] \in {runID[q], 0}
                                        \/ StartScrapeRun(q) /\ runID'[q] = nextRun /\ nextRun' = nextRun + 1
                                           /\ \A p \in Procs \ {q} : runID'[p] = runID[p]
<1>t. runID \in [Procs -> RunIds \cup {0}] BY DEF TypeOK
<1>1. ASSUME NEW p \in Procs, StartScrapeRun(p) PROVE Moved
  BY <1>t, <1>1 DEF StartScrapeRun, InsertRun
<1>2. ASSUME NEW p \in Procs, ScrapeStep(p), ~StartScrapeRun(p) PROVE Moved
  BY <1>2, RunMoves
<1>3. ASSUME NEW c \in Commands, Invoke(c) \/ Cancel(c) \/ Kill(c) PROVE Moved
  BY <1>3 DEF Invoke, Cancel, Kill, For, db, locals
<1>4. CASE PgCrash \/ ReapStaleScrapeRuns \/ UpstreamChange \/ Seed \/ StrayCommits \/ UNCHANGED vars
  BY <1>4 DEF PgCrash, ReapStaleScrapeRuns, UpstreamChange, Seed, StrayCommits, vars, db, locals
<1> QED BY <1>1, <1>2, <1>3, <1>4 DEF Next

LEMMA StepIdsDistinct == ASSUME TypeOK, IdsDistinct, [Next]_vars PROVE IdsDistinct'
<1>t. runID \in [Procs -> RunIds \cup {0}] /\ nextRun \in 1 .. MaxRuns + 1
  BY DEF TypeOK
<1>n. nextRun \in Nat /\ nextRun > 0 BY <1>t, NumberAssumption
<1>1. ASSUME NEW q \in Procs PROVE runID'[q] < nextRun'
  <2>0. runID[q] \in RunIds \cup {0} BY <1>t
  <2>1. runID[q] \in Nat /\ runID[q] < nextRun BY <2>0, NumberAssumption DEF IdsDistinct, RunIds
  <2>2. nextRun' \in {nextRun, nextRun + 1} /\ (runID'[q] \in {runID[q], 0} \/ (runID'[q] = nextRun /\ nextRun' = nextRun + 1))
    BY IdsMove
  <2> QED BY <1>n, <2>1, <2>2
<1>2. ASSUME NEW p \in Procs, NEW q \in Procs, runID'[p] = runID'[q], runID'[p] # 0 PROVE p = q
  <2>1. runID[p] < nextRun /\ runID[q] < nextRun BY DEF IdsDistinct
  <2>2. CASE runID'[p] = runID[p] /\ runID'[q] = runID[q] BY <1>2, <2>2 DEF IdsDistinct
  <2> QED BY <1>t, <1>n, <1>2, <2>1, <2>2, IdsMove
<1> QED BY <1>1, <1>2 DEF IdsDistinct

LEMMA StepOutcomesRecorded ==
  ASSUME TypeOK, BudgetBounded, IdsDistinct, OutcomesRecorded, [Next]_vars
  PROVE  OutcomesRecorded'
<1> USE NumberAssumption
<1>t. /\ pc \in [Procs -> Steps] /\ runID \in [Procs -> RunIds \cup {0}] /\ nextRun \in 1 .. MaxRuns + 1
      /\ scrapeRuns \in [RunIds -> RunRow] /\ res \in [Procs -> {"ok", "empty", "err", "killed"}]
      /\ ctxDone \in [Procs -> BOOLEAN]
  BY DEF TypeOK
<1>f. NoFaultYet' => NoFaultYet /\ ~Faulted BY FaultsBefore
<1> DEFINE Past(step, r) == step \in {"prune", "clear", "unlock"} \/ (step = "done" /\ r # "killed")
           Early == {"lock", "begin", "insert"}
           Excused(c, r) == c /\ r # "err"
           Told(st, r) == st \in {IF r = "ok" THEN "success" ELSE "failed", "absent"}
           Good(q) == /\ pc'[q] \in Early => runID'[q] = 0
                      /\ pc'[q] \in Early \cup Unfinished => res'[q] = "ok"
                      /\ runID'[q] # 0 /\ Past(pc'[q], res'[q]) /\ NoFaultYet'
                           => Told(scrapeRuns'[runID'[q]].status, res'[q]) \/ Excused(ctxDone'[q], res'[q])
<1> SUFFICES ASSUME NEW q \in Procs PROVE Good(q)
  BY DEF OutcomesRecorded, OutcomeOf
<1>h. /\ pc[q] \in Early => runID[q] = 0
      /\ pc[q] \in Early \cup Unfinished => res[q] = "ok"
      /\ runID[q] # 0 /\ Past(pc[q], res[q]) /\ NoFaultYet
           => Told(scrapeRuns[runID[q]].status, res[q]) \/ Excused(ctxDone[q], res[q])
  BY DEF OutcomesRecorded, OutcomeOf
<1>q. runID[q] < nextRun /\ (runID[q] # 0 => runID[q] \in RunIds)
  BY <1>t DEF IdsDistinct
\* An outcome stays until the row is pruned, and so does a context that is done.
<1>0. ASSUME runID'[q] = runID[q], ~Finish(q), ctxDone[q] => ctxDone'[q],
             pc'[q] \in Early => runID[q] = 0,
             pc'[q] \in Early \cup Unfinished => res'[q] = "ok",
             runID[q] # 0 /\ Past(pc'[q], res'[q]) /\ NoFaultYet'
               => Told(scrapeRuns[runID[q]].status, res'[q]) \/ Excused(ctxDone[q], res'[q])
      PROVE  Good(q)
  <2>1. runID[q] # nextRun BY <1>t, <1>q DEF RunIds
  <2>2. ASSUME runID[q] # 0, Told(scrapeRuns[runID[q]].status, res'[q])
        PROVE  Told(scrapeRuns'[runID[q]].status, res'[q])
    <3>1. scrapeRuns[runID[q]].status # "running" BY <2>2
    <3>2. \A p \in Procs : Finish(p) => runID[p] # runID[q] BY <1>0, <2>2 DEF IdsDistinct
    <3>3. scrapeRuns'[runID[q]].status \in {scrapeRuns[runID[q]].status, "absent"}
      BY <1>q, <2>1, <2>2, <3>1, <3>2, RowsEnd
    <3> QED BY <2>2, <3>3
  <2>3. Excused(ctxDone[q], res'[q]) => Excused(ctxDone'[q], res'[q]) BY <1>0
  <2> HIDE DEF Past, Early, Excused, Told
  <2> QED BY <1>0, <1>q, <2>2, <2>3
\* The process is where it was.
<1>1. ASSUME pc'[q] = pc[q], runID'[q] = runID[q], res'[q] = res[q], ctxDone[q] => ctxDone'[q] PROVE Good(q)
  <2>1. ~Finish(q) BY <1>1, <1>t DEF Finish, Goto
  <2> HIDE DEF Past, Early, Excused, Good, Told
  <2> QED BY <1>0, <1>1, <1>f, <1>h, <2>1
<1>c. ASSUME NEW p \in Procs, NEW r, Return(p, r) PROVE ctxDone[q] => ctxDone'[q]
  BY <1>c DEF Return
<1>2. ASSUME NEW p \in Procs, ScrapeStep(p) PROVE ctxDone[q] => ctxDone'[q]
  <2>1. CASE AcquireScrapeLock(p) \/ Unlock(p)
    BY <1>c, <2>1 DEF AcquireScrapeLock, Unlock
  <2>2. CASE SelectNow(p) \/ StartScrapeRun(p)
    BY <2>2 DEF SelectNow, StartScrapeRun, FailEarly
  <2>3. CASE \E s \in Services : FetchService(p, s) \/ FetchFails(p, s) \/ ServiceUndiscovered(p, s)
    BY <2>3 DEF FetchService, FetchFails, ServiceUndiscovered, control
  <2>4. CASE \E u \in UnitsOf(VendorOf[p]) : UpsertBatch(p, u) \/ MarkSeen(p, u) \/ HandlerFails(p, u)
    BY <2>4 DEF UpsertBatch, MarkSeen, HandlerFails, control
  <2>5. CASE ScrapeReturnsNil(p) \/ ScrapeReturnsError(p) \/ ReadPrevCount(p) \/ CountSeen(p) \/ DeleteStaleProducts(p)
    BY <2>5 DEF ScrapeReturnsNil, ScrapeReturnsError, ReadPrevCount, CountSeen, DeleteStaleProducts
  <2>6. CASE Finish(p) \/ PruneScrapeRuns(p) \/ ClearSeen(p)
    BY <2>6 DEF Finish, PruneScrapeRuns, ClearSeen
  <2> QED BY <1>2, <2>1, <2>2, <2>3, <2>4, <2>5, <2>6 DEF ScrapeStep
<1>3. ASSUME NEW p \in Procs, ScrapeStep(p), p # q PROVE Good(q)
  <2>1. pc'[q] = pc[q] BY <1>3, OthersStay
  <2>2. runID'[q] = runID[q] /\ res'[q] = res[q]
    <3>1. CASE StartScrapeRun(p) BY <1>t, <1>3, <3>1 DEF StartScrapeRun, FailEarly
    <3>2. CASE ~StartScrapeRun(p)
      <4>1. runID' = runID BY <1>3, <3>2, RunMoves
      <4>2. CASE AcquireScrapeLock(p) \/ SelectNow(p) \/ Unlock(p)
        BY <1>t, <1>3, <4>1, <4>2 DEF AcquireScrapeLock, SelectNow, Unlock, FailEarly, Return
      <4>3. CASE \E s \in Services : FetchService(p, s) \/ FetchFails(p, s) \/ ServiceUndiscovered(p, s)
        BY <4>1, <4>3 DEF FetchService, FetchFails, ServiceUndiscovered, control
      <4>4. CASE \E u \in UnitsOf(VendorOf[p]) : UpsertBatch(p, u) \/ MarkSeen(p, u) \/ HandlerFails(p, u)
        BY <4>1, <4>4 DEF UpsertBatch, MarkSeen, HandlerFails, control
      <4>5. CASE ScrapeReturnsNil(p) \/ ScrapeReturnsError(p) \/ ReadPrevCount(p) \/ CountSeen(p) \/ DeleteStaleProducts(p)
        BY <4>1, <4>5 DEF ScrapeReturnsNil, ScrapeReturnsError, ReadPrevCount, CountSeen, DeleteStaleProducts
      <4>6. CASE Finish(p) \/ PruneScrapeRuns(p) \/ ClearSeen(p)
        BY <1>t, <1>3, <4>1, <4>6 DEF Finish, PruneScrapeRuns, ClearSeen
      <4> QED BY <1>3, <3>2, <4>2, <4>3, <4>4, <4>5, <4>6 DEF ScrapeStep
    <3> QED BY <3>1, <3>2
  <2> HIDE DEF Good
  <2> QED BY <1>1, <1>2, <1>3, <2>1, <2>2
<1>4. CASE AcquireScrapeLock(q) \/ SelectNow(q)
  <2>1. runID'[q] = runID[q] /\ runID[q] = 0
    BY <1>4, <1>h DEF AcquireScrapeLock, SelectNow, Return, locals
  <2>2. pc'[q] \in Early \cup Unfinished => res'[q] = "ok"
    BY <1>4, <1>t, <1>h DEF AcquireScrapeLock, SelectNow, Return, FailEarly, Goto, Unfinished
  <2> QED BY <1>q, <2>1, <2>2
<1>5. CASE StartScrapeRun(q)
  <2>0. runID[q] = 0 /\ res[q] = "ok" BY <1>5, <1>h DEF StartScrapeRun
  <2>1. CASE FailEarly(q) /\ UNCHANGED runID
    <3>1. pc'[q] = "unlock" BY <1>t, <2>1 DEF FailEarly, Goto
    <3> QED BY <1>q, <2>0, <2>1, <3>1 DEF Unfinished
  <2>2. CASE InsertRun(q) /\ runID' = [runID EXCEPT ![q] = nextRun] /\ Goto(q, "scrape") /\ UNCHANGED res
    <3>1. runID'[q] = nextRun /\ nextRun' = nextRun + 1 /\ pc'[q] = "scrape" /\ res'[q] = "ok"
      BY <1>t, <2>0, <2>2 DEF InsertRun, Goto
    <3> QED BY <1>t, <3>1
  <2> QED BY <1>5, <2>1, <2>2 DEF StartScrapeRun
<1>6. CASE \/ \E s \in Services : FetchService(q, s) \/ FetchFails(q, s) \/ ServiceUndiscovered(q, s)
           \/ \E u \in UnitsOf(VendorOf[q]) : UpsertBatch(q, u) \/ MarkSeen(q, u) \/ HandlerFails(q, u)
  <2>1. pc' = pc /\ runID' = runID /\ res' = res /\ ctxDone' = ctxDone
    BY <1>6 DEF FetchService, FetchFails, ServiceUndiscovered, UpsertBatch, MarkSeen, HandlerFails, control
  <2> HIDE DEF Good
  <2> QED BY <1>1, <2>1
<1>7. CASE ScrapeReturnsNil(q) \/ ScrapeReturnsError(q) \/ ReadPrevCount(q) \/ CountSeen(q) \/ DeleteStaleProducts(q)
  <2>1. runID'[q] = runID[q] /\ res' = res /\ pc[q] \in Unfinished /\ pc'[q] \in Unfinished
    BY <1>7, <1>t DEF ScrapeReturnsNil, ScrapeReturnsError, ReadPrevCount, CountSeen, DeleteStaleProducts,
                AfterPrev, Goto, locals, Unfinished
  <2> QED BY <1>q, <1>h, <2>1 DEF Unfinished
<1>8. CASE Finish(q)
  <2>1. /\ runID'[q] = runID[q] /\ ctxDone' = ctxDone /\ pc[q] \in Unfinished /\ pc'[q] \in {"clear", "prune"}
        /\ pc[q] # "finishErr" => res'[q] # "err"
    BY <1>8, <1>t, <1>h DEF Finish, Goto, locals, Unfinished
  <2>2. ASSUME NoFaultYet', ~(ctxDone[q] /\ pc[q] # "finishErr")
        PROVE  \E n : SetOutcome(runID[q], IF res'[q] = "ok" THEN "success" ELSE "failed", n)
    <3>1. CASE pc[q] = "finishErr" /\ FinishScrapeRun(q, FALSE, "failed", total[q]) /\ res' = [res EXCEPT ![q] = "err"]
      BY <1>f, <1>t, <2>2, <3>1 DEF FinishScrapeRun, Refused
    <3>2. CASE pc[q] = "finishEmpty" /\ FinishScrapeRun(q, ctxDone[q], "failed", 0) /\ res' = [res EXCEPT ![q] = "empty"]
      BY <1>f, <1>t, <2>2, <3>2 DEF FinishScrapeRun, Refused
    <3>3. CASE pc[q] = "finish" /\ FinishScrapeRun(q, ctxDone[q], "success", total[q]) /\ UNCHANGED res
      <4>1. res'[q] = "ok" BY <1>h, <3>3 DEF Unfinished
      <4> QED BY <1>f, <2>2, <3>3, <4>1 DEF FinishScrapeRun, Refused
    <3> QED BY <1>8, <3>1, <3>2, <3>3 DEF Finish
  <2>3. ASSUME NoFaultYet', ~(ctxDone[q] /\ pc[q] # "finishErr"), runID[q] \in RunIds
        PROVE  Told(scrapeRuns'[runID[q]].status, res'[q])
    BY <1>t, <2>2, <2>3 DEF SetOutcome, Outcome
  <2> QED BY <1>q, <2>1, <2>3 DEF Unfinished
<1>9. CASE PruneScrapeRuns(q) \/ ClearSeen(q)
  <2>1. /\ runID'[q] = runID[q] /\ res' = res /\ ctxDone' = ctxDone
        /\ pc[q] \in {"prune", "clear"} /\ pc'[q] \in {"clear", "unlock"}
    BY <1>9, <1>t DEF PruneScrapeRuns, ClearSeen, Goto, locals
  <2>2. pc'[q] \notin Early \cup Unfinished /\ ~Finish(q) BY <2>1 DEF Unfinished, Finish
  <2>3. Past(pc[q], res[q]) BY <2>1
  <2> HIDE DEF Good, Past, Early, Excused, Told
  <2> QED BY <1>0, <1>f, <1>h, <2>1, <2>2, <2>3
<1>10. CASE Unlock(q)
  <2>1. runID'[q] = runID[q] /\ pc[q] = "unlock" /\ pc'[q] = "done" /\ res'[q] = res[q]
    BY <1>10, <1>t DEF Unlock, Return, Goto
  <2>2. pc'[q] \notin Early \cup Unfinished /\ ~Finish(q) BY <2>1 DEF Unfinished, Finish
  <2>3. Past(pc[q], res[q]) BY <2>1
  <2>4. ctxDone[q] => ctxDone'[q] BY <1>c, <1>10 DEF Unlock
  <2> HIDE DEF Good, Past, Early, Excused, Told
  <2> QED BY <1>0, <1>f, <1>h, <2>1, <2>2, <2>3, <2>4
<1>11. ASSUME NEW c \in Commands, Invoke(c) PROVE Good(q)
  <2>1. \/ runID'[q] = 0 /\ res'[q] = "ok"
        \/ pc'[q] = pc[q] /\ runID'[q] = runID[q] /\ res'[q] = res[q] /\ ctxDone'[q] = ctxDone[q]
    BY <1>11 DEF Invoke, For
  <2>2. CASE runID'[q] = 0 /\ res'[q] = "ok" BY <2>2
  <2> HIDE DEF Good
  <2> QED BY <1>1, <2>1, <2>2
<1>12. ASSUME NEW c \in Commands, Kill(c) PROVE Good(q)
  <2>1. /\ runID'[q] = runID[q] /\ ctxDone' = ctxDone
        /\ \/ pc'[q] = "done" /\ res'[q] = "killed"
           \/ pc'[q] = pc[q] /\ res'[q] = res[q]
    BY <1>12 DEF Kill, For
  <2>2. CASE pc'[q] = "done" /\ res'[q] = "killed" BY <1>q, <2>1, <2>2 DEF Unfinished
  <2> HIDE DEF Good
  <2> QED BY <1>1, <2>1, <2>2
<1>13. ASSUME NEW c \in Commands, Cancel(c) PROVE Good(q)
  <2>1. pc' = pc /\ runID' = runID /\ res' = res /\ (ctxDone[q] => ctxDone'[q])
    BY <1>13 DEF Cancel, locals
  <2> HIDE DEF Good
  <2> QED BY <1>1, <2>1
<1>14. CASE PgCrash \/ ReapStaleScrapeRuns \/ UpstreamChange \/ Seed \/ StrayCommits \/ UNCHANGED vars
  <2>1. pc' = pc /\ runID' = runID /\ res' = res /\ ctxDone' = ctxDone
    BY <1>14 DEF PgCrash, ReapStaleScrapeRuns, UpstreamChange, Seed, StrayCommits, vars, control, locals
  <2> HIDE DEF Good
  <2> QED BY <1>1, <2>1
<1>15. CASE ScrapeStep(q)
  BY <1>4, <1>5, <1>6, <1>7, <1>8, <1>9, <1>10, <1>15 DEF ScrapeStep
<1> HIDE DEF Good
<1> QED BY <1>3, <1>11, <1>12, <1>13, <1>14, <1>15 DEF Next

\* Every way out of runOneScrape records the outcome of the call, for any vendors in a
\* command: while no statement has failed, the row of a process that is gone and was
\* not killed says success when the call returned true and failed otherwise, or was
\* pruned, unless its context (a signal, or the error of another vendor of the
\* command) was done by then and its own scrape returned no error; however long its run
\* was, and even when the reaper or a crash of Postgres came in between.
THEOREM ExitsRecorded == Spec => []ExitsRecordOutcome
<1> DEFINE Inv == BudgetBounded /\ IdsDistinct /\ OutcomesRecorded
<1>1. Init => Inv
  <2>1. Init => IdsDistinct BY DEF Init, IdsDistinct
  <2>2. Init => OutcomesRecorded BY DEF Init, OutcomesRecorded, Unfinished
  <2> QED BY <2>1, <2>2, InitBudgetBounded
<1>2. TypeOK /\ Inv /\ [Next]_vars => Inv'
  BY StepBudgetBounded, StepIdsDistinct, StepOutcomesRecorded
<1>3. Inv => ExitsRecordOutcome
  BY DEF OutcomesRecorded, ExitsRecordOutcome
<1> QED BY <1>1, <1>2, <1>3, TypeCorrect, PTL DEF Spec

-----------------------------------------------------------------------------
(* The catalogue *)

\* Locks are handed to processes that go on and taken from those that end.
LEMMA StepHoldersHold ==
  ASSUME TypeOK, HoldersHold, [Next]_vars
  PROVE  HoldersHold'
<1> USE StructureAssumption
<1>t. pc \in [Procs -> Steps] /\ locks \in [Vendors -> Procs \cup {NoProc}] BY DEF TypeOK
<1> SUFFICES ASSUME NEW v \in Vendors, locks'[v] # NoProc
             PROVE  VendorOf[locks'[v]] = v /\ pc'[locks'[v]] \in Holding
  BY DEF HoldersHold, LockFree
<1>h. locks[v] # NoProc => locks[v] \in Procs /\ VendorOf[locks[v]] = v /\ pc[locks[v]] \in Holding
  BY <1>t DEF HoldersHold, LockFree
<1>0. CASE locks' = locks /\ pc'[locks[v]] \in Holding BY <1>h, <1>0
<1>1. ASSUME NEW p \in Procs, ScrapeStep(p) PROVE VendorOf[locks'[v]] = v /\ pc'[locks'[v]] \in Holding
  <2>1. CASE AcquireScrapeLock(p)
    <3>1. CASE locks' = [locks EXCEPT ![VendorOf[p]] = p] /\ Goto(p, "begin")
      <4>1. CASE v = VendorOf[p]
        BY <1>t, <3>1, <4>1 DEF Goto, Holding, Steps
      <4>2. CASE v # VendorOf[p]
        <5>1. locks'[v] = locks[v] BY <1>t, <3>1, <4>2
        <5>2. locks[v] # p BY <1>h, <4>2
        <5> QED BY <1>t, <1>h, <3>1, <5>1, <5>2 DEF Goto
      <4> QED BY <4>1, <4>2
    <3>2. CASE locks' = locks
      <4>1. locks[v] # p BY <1>h, <2>1 DEF AcquireScrapeLock, Holding
      <4>2. pc'[locks[v]] = pc[locks[v]] BY <1>1, <1>h, <3>2, <4>1, OthersStay
      <4> QED BY <1>0, <1>h, <3>2, <4>2
    <3> QED BY <2>1, <3>1, <3>2 DEF AcquireScrapeLock
  <2>2. CASE Unlock(p)
    <3>1. locks'[v] = locks[v] /\ locks[v] # p BY <2>2 DEF Unlock, Freed
    <3>2. pc'[locks[v]] = pc[locks[v]] BY <1>1, <1>h, <3>1, OthersStay
    <3> QED BY <1>h, <3>1, <3>2
  <2>3. CASE ~AcquireScrapeLock(p) /\ ~Unlock(p)
    <3>1. locks' = locks /\ (pc[p] \in Holding => pc'[p] \in Holding)
      <4>1. CASE SelectNow(p) \/ StartScrapeRun(p)
        BY <1>t, <4>1 DEF SelectNow, StartScrapeRun, FailEarly, Goto, Holding, Steps
      <4>2. CASE \E s \in Services : FetchService(p, s) \/ FetchFails(p, s) \/ ServiceUndiscovered(p, s)
        BY <4>2 DEF FetchService, FetchFails, ServiceUndiscovered, db, control
      <4>3. CASE \E u \in UnitsOf(VendorOf[p]) : UpsertBatch(p, u) \/ MarkSeen(p, u) \/ HandlerFails(p, u)
        BY <4>3 DEF UpsertBatch, MarkSeen, HandlerFails, control
      <4>4. CASE ScrapeReturnsNil(p) \/ ScrapeReturnsError(p)
        BY <1>t, <4>4 DEF ScrapeReturnsNil, ScrapeReturnsError, Goto, Holding, Steps, db
      <4>5. CASE ReadPrevCount(p)
        BY <1>t, <4>5 DEF ReadPrevCount, AfterPrev, Goto, Holding, Steps, db
      <4>6. CASE CountSeen(p) \/ DeleteStaleProducts(p)
        BY <1>t, <4>6 DEF CountSeen, DeleteStaleProducts, Goto, Holding, Steps, db
      <4>7. CASE Finish(p) \/ PruneScrapeRuns(p) \/ ClearSeen(p)
        BY <1>t, <4>7 DEF Finish, PruneScrapeRuns, ClearSeen, Goto, Holding, Steps
      <4> QED BY <1>1, <2>3, <4>1, <4>2, <4>3, <4>4, <4>5, <4>6, <4>7 DEF ScrapeStep
    <3>2. CASE locks[v] = p BY <1>0, <1>h, <3>1, <3>2
    <3>3. CASE locks[v] # p
      <4>1. pc'[locks[v]] = pc[locks[v]] BY <1>1, <1>h, <3>1, <3>3, OthersStay
      <4> QED BY <1>0, <1>h, <3>1, <4>1
    <3> QED BY <3>2, <3>3
  <2> QED BY <2>1, <2>2, <2>3
<1>2. ASSUME NEW c \in Commands, Invoke(c) PROVE VendorOf[locks'[v]] = v /\ pc'[locks'[v]] \in Holding
  BY <1>0, <1>h, <1>2 DEF Invoke, For, Holding, db
<1>3. ASSUME NEW c \in Commands, Cancel(c) PROVE VendorOf[locks'[v]] = v /\ pc'[locks'[v]] \in Holding
  BY <1>0, <1>h, <1>3 DEF Cancel, db
<1>4. ASSUME NEW c \in Commands, Kill(c) PROVE VendorOf[locks'[v]] = v /\ pc'[locks'[v]] \in Holding
  <2> DEFINE mine == {p \in Procs : CommandOf[p] = c /\ pc[p] # "done"}
  <2>1. locks' = Freed(mine) /\ pc' = For(mine, pc, "done") BY <1>4 DEF Kill
  <2>2. locks'[v] = locks[v] /\ locks[v] \notin mine BY <2>1 DEF Freed
  <2> HIDE DEF mine
  <2> QED BY <1>h, <2>1, <2>2 DEF For
<1>5. CASE PgCrash BY <1>5 DEF PgCrash
<1>6. CASE ReapStaleScrapeRuns \/ UpstreamChange \/ Seed \/ StrayCommits \/ UNCHANGED vars
  BY <1>0, <1>h, <1>6 DEF ReapStaleScrapeRuns, UpstreamChange, Seed, StrayCommits, vars, control, db
<1> QED BY <1>1, <1>2, <1>3, <1>4, <1>5, <1>6 DEF Next

LEMMA ReadingIs ==
  /\ reading = [s \in Services |-> ReadingOf(locks[ServiceVendor[s]], s)]
  /\ reading' = [s \in Services |-> ReadingOf(locks[ServiceVendor[s]], s)']
  /\ found = [h \in Products |->
       IF reading[ServiceOf[h]] = "read" THEN batch[locks[ServiceVendor[ServiceOf[h]]]][h] ELSE Absent]
  /\ found' = [h \in Products |->
       IF reading'[ServiceOf[h]] = "read" THEN batch'[locks'[ServiceVendor[ServiceOf[h]]]][h] ELSE Absent]
  /\ stored = {h \in Products : found[h] # Absent /\ h \notin pending[locks[ServiceVendor[ServiceOf[h]]]]}
  /\ stored' = {h \in Products : found'[h] # Absent /\ h \notin pending'[locks'[ServiceVendor[ServiceOf[h]]]]}
BY DEF reading, found, stored

\* Two readings are equal when they agree on every service and product.
LEMMA SameReading ==
  ASSUME \A s \in Services : reading'[s] = reading[s],
         \A h \in Products : found'[h] = found[h] /\ (h \in stored' <=> h \in stored)
  PROVE  UNCHANGED <<reading, found, stored>>
<1>1. reading' = [s \in Services |-> reading'[s]] /\ reading = [s \in Services |-> reading[s]]
  BY ReadingIs
<1>2. found' = [h \in Products |-> found'[h]] /\ found = [h \in Products |-> found[h]]
  BY ReadingIs
<1>3. stored' \subseteq Products /\ stored \subseteq Products
  BY ReadingIs
<1> QED BY <1>1, <1>2, <1>3

\* A step that leaves the holders of locks and what they scraped alone is no step of
\* the reading; handing a service over is none either.
LEMMA ReadingStays ==
  ASSUME UNCHANGED locks,
         \A v \in Vendors : locks[v] # NoProc =>
           /\ batch'[locks[v]] = batch[locks[v]] /\ pending'[locks[v]] = pending[locks[v]]
           /\ \A s \in Services :
                \/ svc'[locks[v]][s] = svc[locks[v]][s]
                \/ svc[locks[v]][s] = "fetched" /\ svc'[locks[v]][s] = "done"
  PROVE  UNCHANGED <<reading, found, stored>>
<1> USE StructureAssumption
<1>1. ASSUME NEW s \in Services PROVE reading'[s] = reading[s]
  BY ReadingIs DEF ReadingOf
<1>2. ASSUME NEW h \in Products PROVE found'[h] = found[h] /\ (h \in stored' <=> h \in stored)
  <2>1. ServiceOf[h] \in Services /\ ServiceVendor[ServiceOf[h]] \in Vendors OBVIOUS
  <2>2. reading'[ServiceOf[h]] = reading[ServiceOf[h]] BY <1>1, <2>1
  <2>3. reading[ServiceOf[h]] = "read" => locks[ServiceVendor[ServiceOf[h]]] # NoProc
    BY <2>1, ReadingIs DEF ReadingOf
  <2>4. found'[h] = found[h] BY <2>1, <2>2, <2>3, ReadingIs
  <2>5. found[h] # Absent => reading[ServiceOf[h]] = "read" BY ReadingIs
  <2> QED BY <2>1, <2>3, <2>4, <2>5, ReadingIs
<1> QED BY <1>1, <1>2, SameReading

\* Processes that end take the readings of their vendors with them.
LEMMA ReadingsEnd ==
  ASSUME TypeOK, NEW S \in SUBSET Procs, locks' = Freed(S), Discard(S), UNCHANGED <<upstream, products>>,
         Prices!Leave(stray' \ stray)
  PROVE  Prices!CatalogueNext
<1> USE StructureAssumption
<1> DEFINE V == {v \in Vendors : locks[v] \in S}
<1>t. locks \in [Vendors -> Procs \cup {NoProc}] BY DEF TypeOK
<1>1. ASSUME NEW v \in Vendors PROVE locks'[v] = IF v \in V THEN NoProc ELSE locks[v]
  BY DEF Freed
<1>2. ASSUME NEW v \in Vendors, v \notin V, locks[v] # NoProc
      PROVE  /\ svc'[locks[v]] = svc[locks[v]] /\ batch'[locks[v]] = batch[locks[v]]
             /\ pending'[locks[v]] = pending[locks[v]]
  BY <1>t, <1>2 DEF Discard, For
<1> HIDE DEF V
<1>3. ASSUME NEW s \in Services
      PROVE  reading'[s] = IF ServiceVendor[s] \in V THEN "unread" ELSE reading[s]
  <2>1. ServiceVendor[s] \in Vendors OBVIOUS
  <2> QED BY <1>1, <1>2, <2>1, ReadingIs DEF ReadingOf
<1>4. ASSUME NEW h \in Products
      PROVE  found'[h] = IF ServiceVendor[ServiceOf[h]] \in V THEN Absent ELSE found[h]
  <2>1. ServiceOf[h] \in Services /\ ServiceVendor[ServiceOf[h]] \in Vendors OBVIOUS
  <2>2. reading[ServiceOf[h]] = "read" => locks[ServiceVendor[ServiceOf[h]]] # NoProc
    BY <2>1, ReadingIs DEF ReadingOf
  <2>3. CASE ServiceVendor[ServiceOf[h]] \in V
    <3>1. reading'[ServiceOf[h]] = "unread" BY <1>3, <2>1, <2>3
    <3> QED BY <2>3, <3>1, ReadingIs
  <2>4. CASE ServiceVendor[ServiceOf[h]] \notin V
    <3>1. reading'[ServiceOf[h]] = reading[ServiceOf[h]] BY <1>3, <2>1, <2>4
    <3> QED BY <1>1, <1>2, <2>1, <2>2, <2>4, <3>1, ReadingIs
  <2> QED BY <2>3, <2>4
<1>s. ASSUME NEW h \in Products PROVE h \in stored' <=> h \in stored /\ ServiceVendor[ServiceOf[h]] \notin V
  <2>1. ServiceOf[h] \in Services /\ ServiceVendor[ServiceOf[h]] \in Vendors OBVIOUS
  <2>2. found[h] # Absent => locks[ServiceVendor[ServiceOf[h]]] # NoProc
    BY <2>1, ReadingIs DEF ReadingOf
  <2>3. h \in stored' <=> found'[h] # Absent /\ h \notin pending'[locks'[ServiceVendor[ServiceOf[h]]]] BY ReadingIs
  <2>4. h \in stored <=> found[h] # Absent /\ h \notin pending[locks[ServiceVendor[ServiceOf[h]]]] BY ReadingIs
  <2>5. CASE ServiceVendor[ServiceOf[h]] \in V BY <1>4, <2>3, <2>5
  <2>6. CASE ServiceVendor[ServiceOf[h]] \notin V
    <3>1. found'[h] = found[h] /\ locks'[ServiceVendor[ServiceOf[h]]] = locks[ServiceVendor[ServiceOf[h]]]
      BY <1>1, <1>4, <2>1, <2>6
    <3> QED BY <1>2, <2>1, <2>2, <2>3, <2>4, <2>6, <3>1
  <2> QED BY <2>5, <2>6
<1>5. /\ reading' = [s \in Services |-> IF ServiceVendor[s] \in V THEN "unread" ELSE reading[s]]
      /\ found' = [h \in Products |-> IF ServiceVendor[ServiceOf[h]] \in V THEN Absent ELSE found[h]]
      /\ stored' = {h \in stored : ServiceVendor[ServiceOf[h]] \notin V}
  <2>1. stored' \subseteq Products /\ stored \subseteq Products BY ReadingIs
  <2>2. stored' = {h \in stored : ServiceVendor[ServiceOf[h]] \notin V} BY <1>s, <2>1
  <2> QED BY <1>3, <1>4, <2>2, ReadingIs
<1>6. V \in SUBSET Vendors BY DEF V
<1>7. Prices!EndReadings(V, stray' \ stray) BY <1>5 DEF Prices!EndReadings
<1> QED BY <1>6, <1>7 DEF Prices!CatalogueNext

\* The reading as the holder of a lock sees it.
LEMMA HolderReads ==
  ASSUME TypeOK, NEW p \in Procs, locks[VendorOf[p]] = p,
         NEW s \in Services, ServiceVendor[s] = VendorOf[p]
  PROVE  /\ reading[s] = IF svc[p][s] = "todo" THEN "unread"
                         ELSE IF svc[p][s] \in {"fetched", "done"} THEN "read" ELSE "lost"
         /\ \A h \in Products : ServiceOf[h] = s =>
              /\ found[h] = IF svc[p][s] \in {"fetched", "done"} THEN batch[p][h] ELSE Absent
              /\ h \in stored <=> found[h] # Absent /\ h \notin pending[p]
<1> USE StructureAssumption
<1>1. reading[s] = IF svc[p][s] = "todo" THEN "unread"
                   ELSE IF svc[p][s] \in {"fetched", "done"} THEN "read" ELSE "lost"
  BY ReadingIs DEF ReadingOf
<1>2. ASSUME NEW h \in Products, ServiceOf[h] = s
      PROVE  /\ found[h] = IF svc[p][s] \in {"fetched", "done"} THEN batch[p][h] ELSE Absent
             /\ h \in stored <=> found[h] # Absent /\ h \notin pending[p]
  <2>1. found[h] = IF reading[s] = "read" THEN batch[p][h] ELSE Absent BY <1>2, ReadingIs
  <2>2. reading[s] = "read" <=> svc[p][s] \in {"fetched", "done"} BY <1>1
  <2>3. h \in stored <=> found[h] # Absent /\ h \notin pending[p] BY <1>2, ReadingIs
  <2> QED BY <2>1, <2>2, <2>3
<1> QED BY <1>1, <1>2

\* A step of the holder p on the services S of its vendor changes the reading of S only.
LEMMA ReadingOfOthersStays ==
  ASSUME TypeOK, HoldersHold, UNCHANGED locks, NEW p \in Procs, NEW S \in SUBSET Services,
         \A q \in Procs : q # p => svc'[q] = svc[q] /\ batch'[q] = batch[q] /\ pending'[q] = pending[q],
         \A s \in Services \ S : svc'[p][s] = svc[p][s],
         \A h \in Products : ServiceOf[h] \notin S => batch'[p][h] = batch[p][h]
  PROVE  /\ \A s \in Services \ S : reading'[s] = reading[s]
         /\ \A h \in Products : ServiceOf[h] \notin S => found'[h] = found[h]
         /\ \A h \in Products : ServiceOf[h] \notin S /\ (h \in pending'[p] <=> h \in pending[p])
              => (h \in stored' <=> h \in stored)
<1> USE StructureAssumption
<1>t. locks \in [Vendors -> Procs \cup {NoProc}] BY DEF TypeOK
<1>1. ASSUME NEW s \in Services \ S PROVE reading'[s] = reading[s]
  <2>1. ServiceVendor[s] \in Vendors OBVIOUS
  <2>2. locks[ServiceVendor[s]] # NoProc => svc'[locks[ServiceVendor[s]]][s] = svc[locks[ServiceVendor[s]]][s]
    BY <1>t, <2>1
  <2> QED BY <2>1, <2>2, ReadingIs DEF ReadingOf
<1>2. ASSUME NEW h \in Products, ServiceOf[h] \notin S PROVE found'[h] = found[h]
  <2>1. ServiceOf[h] \in Services \ S /\ ServiceVendor[ServiceOf[h]] \in Vendors BY <1>2
  <2>2. reading'[ServiceOf[h]] = reading[ServiceOf[h]] BY <1>1, <2>1
  <2>3. reading[ServiceOf[h]] = "read" => locks[ServiceVendor[ServiceOf[h]]] # NoProc
    BY <2>1, ReadingIs DEF ReadingOf
  <2>4. locks[ServiceVendor[ServiceOf[h]]] # NoProc =>
          batch'[locks[ServiceVendor[ServiceOf[h]]]][h] = batch[locks[ServiceVendor[ServiceOf[h]]]][h]
    BY <1>t, <1>2, <2>1
  <2> QED BY <2>2, <2>3, <2>4, ReadingIs
<1>3. ASSUME NEW h \in Products, ServiceOf[h] \notin S, h \in pending'[p] <=> h \in pending[p]
      PROVE  h \in stored' <=> h \in stored
  <2>1. ServiceOf[h] \in Services /\ ServiceVendor[ServiceOf[h]] \in Vendors OBVIOUS
  <2>2. found'[h] = found[h] BY <1>2, <1>3
  <2>3. found[h] # Absent => locks[ServiceVendor[ServiceOf[h]]] # NoProc
    BY <2>1, ReadingIs DEF ReadingOf
  <2>4. locks[ServiceVendor[ServiceOf[h]]] # NoProc =>
          (h \in pending'[locks[ServiceVendor[ServiceOf[h]]]] <=> h \in pending[locks[ServiceVendor[ServiceOf[h]]]])
    BY <1>t, <1>3, <2>1
  <2> QED BY <2>2, <2>3, <2>4, ReadingIs
<1> QED BY <1>1, <1>2, <1>3

LEMMA FetchReads ==
  ASSUME TypeOK, LockHeld, HoldersHold, NEW p \in Procs, NEW s \in Services, FetchService(p, s)
  PROVE  Prices!CatalogueNext
<1> USE StructureAssumption
<1>t. /\ svc \in [Procs -> [Services -> SvcStates]]
      /\ batch \in [Procs -> [Products -> Contents \cup {Absent}]]
      /\ pending \in [Procs -> SUBSET Products]
  BY DEF TypeOK
<1>1. /\ pc[p] = "scrape" /\ ServiceVendor[s] = VendorOf[p] /\ svc[p][s] = "todo"
      /\ UNCHANGED <<upstream, products, locks, stray>>
      /\ pending' = [pending EXCEPT ![p] = @ \cup {h \in Products : ServiceOf[h] = s /\ upstream[h] # Absent}]
      /\ batch' = [batch EXCEPT ![p] = [h \in Products |-> IF ServiceOf[h] = s THEN upstream[h] ELSE batch[p][h]]]
  BY DEF FetchService, MayStart, ServicesOf, db
<1>2. \E x \in {"done", "fetched"} : svc' = [svc EXCEPT ![p][s] = x]
  BY DEF FetchService
<1>3. locks[VendorOf[p]] = p BY <1>1 DEF LockHeld, Holding, Steps
<1>4. /\ \A t \in Services \ {s} : reading'[t] = reading[t]
      /\ \A h \in Products : ServiceOf[h] \notin {s} => found'[h] = found[h] /\ (h \in stored' <=> h \in stored)
  <2>1. \A q \in Procs : q # p => svc'[q] = svc[q] /\ batch'[q] = batch[q] /\ pending'[q] = pending[q]
    BY <1>t, <1>1, <1>2
  <2>2. \A t \in Services \ {s} : svc'[p][t] = svc[p][t] BY <1>t, <1>2
  <2>3. \A h \in Products : ServiceOf[h] \notin {s} => batch'[p][h] = batch[p][h] BY <1>t, <1>1
  <2> DEFINE S == {s}
  <2>4. S \in SUBSET Services OBVIOUS
  <2>5. \A t \in Services \ S : svc'[p][t] = svc[p][t] BY <2>2
  <2>6. \A h \in Products : ServiceOf[h] \notin S => batch'[p][h] = batch[p][h] BY <2>3
  <2>8. \A h \in Products : ServiceOf[h] \notin S => (h \in pending'[p] <=> h \in pending[p]) BY <1>t, <1>1
  <2> HIDE DEF S
  <2>9. /\ \A t \in Services \ S : reading'[t] = reading[t]
        /\ \A h \in Products : ServiceOf[h] \notin S => found'[h] = found[h]
        /\ \A h \in Products : ServiceOf[h] \notin S /\ (h \in pending'[p] <=> h \in pending[p])
             => (h \in stored' <=> h \in stored)
    BY <1>1, <2>1, <2>4, <2>5, <2>6, ReadingOfOthersStays
  <2>7. /\ \A t \in Services \ S : reading'[t] = reading[t]
        /\ \A h \in Products : ServiceOf[h] \notin S => found'[h] = found[h] /\ (h \in stored' <=> h \in stored)
    BY <2>8, <2>9
  <2> QED BY <2>7 DEF S
<1>5. reading[s] = "unread" BY <1>1, <1>3, HolderReads
<1>6. reading'[s] = "read"
  <2>1. svc'[p][s] \in {"done", "fetched"} BY <1>t, <1>2
  <2> QED BY <1>1, <1>3, <2>1, ReadingIs DEF ReadingOf
<1>7. ASSUME NEW h \in Products, ServiceOf[h] = s PROVE found'[h] = upstream[h] /\ h \notin stored' /\ h \notin stored
  <2>1. batch'[p][h] = upstream[h] /\ (upstream[h] # Absent => h \in pending'[p]) BY <1>t, <1>1, <1>7
  <2>2. locks'[ServiceVendor[ServiceOf[h]]] = p BY <1>1, <1>3, <1>7
  <2>3. found'[h] = upstream[h] BY <1>6, <1>7, <2>1, <2>2, ReadingIs
  <2>4. found[h] = Absent BY <1>5, <1>7, ReadingIs
  <2> QED BY <2>1, <2>2, <2>3, <2>4, ReadingIs
<1>8. /\ reading' = [reading EXCEPT ![s] = "read"]
      /\ found' = [h \in Products |-> IF ServiceOf[h] = s THEN upstream[h] ELSE found[h]]
  <2>1. reading' = [t \in Services |-> reading'[t]] /\ reading = [t \in Services |-> reading[t]] BY ReadingIs
  <2>2. found' = [h \in Products |-> found'[h]] BY ReadingIs
  <2>3. reading' = [reading EXCEPT ![s] = "read"] BY <1>4, <1>6, <2>1
  <2>4. \A h \in Products : found'[h] = IF ServiceOf[h] = s THEN upstream[h] ELSE found[h] BY <1>4, <1>7
  <2> QED BY <2>2, <2>3, <2>4
<1>s. stored' = stored
  <2>1. stored' \subseteq Products /\ stored \subseteq Products BY ReadingIs
  <2> QED BY <1>4, <1>7, <2>1
<1>9. Prices!Read(s) BY <1>1, <1>5, <1>8, <1>s DEF Prices!Read
<1> QED BY <1>9 DEF Prices!CatalogueNext

\* The holder p writes the rows C it fetched and gives the services S up.
GivesUp(p, S, C) ==
  /\ S \subseteq Services /\ C \subseteq Products
  /\ \A s \in S : ServiceVendor[s] = VendorOf[p]
  /\ \A h \in C : /\ ServiceVendor[ServiceOf[h]] = VendorOf[p]
                  /\ svc[p][ServiceOf[h]] = "fetched" /\ batch[p][h] # Absent
  /\ products' = [h \in Products |-> IF h \in C THEN batch[p][h] ELSE products[h]]
  /\ svc' = [svc EXCEPT ![p] = [t \in Services |-> IF t \in S THEN "failed" ELSE svc[p][t]]]
  /\ \A q \in Procs : q # p => pending'[q] = pending[q]
  /\ \A h \in Products : ServiceOf[h] \notin S => (h \in pending'[p] <=> h \in pending[p] \ C)
  /\ UNCHANGED <<upstream, locks, batch>>

\* Services given up are lost to the reading, and what was written stays as found.
LEMMA GivenUpIsLost ==
  ASSUME TypeOK, HoldersHold, NEW p \in Procs, locks[VendorOf[p]] = p, NEW S, NEW C, GivesUp(p, S, C),
         Prices!Leave(stray' \ stray)
  PROVE  Prices!CatalogueNext
<1> USE StructureAssumption
<1>t. svc \in [Procs -> [Services -> SvcStates]] BY DEF TypeOK
<1>0. S \subseteq Services /\ C \subseteq Products /\ UNCHANGED <<upstream, locks, batch>>
  BY DEF GivesUp
<1>1. /\ \A t \in Services \ S : reading'[t] = reading[t]
      /\ \A h \in Products : ServiceOf[h] \notin S => found'[h] = found[h]
      /\ \A h \in Products : ServiceOf[h] \notin S /\ h \notin C => (h \in stored' <=> h \in stored)
  <2>1. \A q \in Procs : q # p => svc'[q] = svc[q] /\ batch'[q] = batch[q] /\ pending'[q] = pending[q]
    BY <1>t DEF GivesUp
  <2>2. \A t \in Services \ S : svc'[p][t] = svc[p][t] BY <1>t DEF GivesUp
  <2>3. \A h \in Products : ServiceOf[h] \notin S /\ h \notin C => (h \in pending'[p] <=> h \in pending[p])
    BY DEF GivesUp
  <2> QED BY <1>0, <2>1, <2>2, <2>3, ReadingOfOthersStays
<1>2. ASSUME NEW s \in S PROVE reading'[s] = "lost"
  <2>1. svc'[p][s] = "failed" /\ locks'[ServiceVendor[s]] = p BY <1>t, <1>0 DEF GivesUp
  <2> QED BY <1>0, <2>1, ReadingIs DEF ReadingOf
<1>3. ASSUME NEW h \in Products, ServiceOf[h] \in S PROVE found'[h] = Absent
  BY <1>2, <1>3, ReadingIs
<1>4. ASSUME NEW h \in C PROVE reading[ServiceOf[h]] = "read" /\ found[h] = batch[p][h] /\ batch[p][h] # Absent
  <2>1. h \in Products /\ ServiceOf[h] \in Services BY <1>0
  <2>2. ServiceVendor[ServiceOf[h]] = VendorOf[p] /\ svc[p][ServiceOf[h]] = "fetched" /\ batch[p][h] # Absent
    BY DEF GivesUp
  <2> QED BY <2>1, <2>2, HolderReads
<1>5. /\ reading' = [s \in Services |-> IF s \in S THEN "lost" ELSE reading[s]]
      /\ found' = [h \in Products |-> IF ServiceOf[h] \in S THEN Absent ELSE found[h]]
  <2>1. reading' = [t \in Services |-> reading'[t]] /\ found' = [h \in Products |-> found'[h]] BY ReadingIs
  <2>2. \A t \in Services : reading'[t] = IF t \in S THEN "lost" ELSE reading[t] BY <1>1, <1>2
  <2>3. \A h \in Products : found'[h] = IF ServiceOf[h] \in S THEN Absent ELSE found[h] BY <1>1, <1>3
  <2> QED BY <2>1, <2>2, <2>3
<1>6. products' = [h \in Products |-> IF h \in C THEN found[h] ELSE products[h]]
  BY <1>4 DEF GivesUp
<1>s. stored' = {h \in stored \cup C : ServiceOf[h] \notin S}
  <2>1. stored' \subseteq Products /\ stored \subseteq Products BY ReadingIs
  <2>2. ASSUME NEW h \in Products, ServiceOf[h] \in S PROVE h \notin stored' BY <1>3, <2>2, ReadingIs
  <2>3. ASSUME NEW h \in C, ServiceOf[h] \notin S PROVE h \in stored'
    <3>1. h \in Products /\ found'[h] # Absent BY <1>0, <1>1, <1>4, <2>3
    <3>2. locks'[ServiceVendor[ServiceOf[h]]] = p /\ h \notin pending'[p] BY <1>0, <2>3, <3>1 DEF GivesUp
    <3> QED BY <3>1, <3>2, ReadingIs
  <2> QED BY <1>0, <1>1, <2>1, <2>2, <2>3
<1>7. Prices!Store(C, S, stray' \ stray) BY <1>0, <1>4, <1>5, <1>6, <1>s DEF Prices!Store, Prices!MayStore
<1> QED BY <1>0, <1>7 DEF Prices!CatalogueNext

\* Writing rows gives nothing up.
LEMMA UpsertStores ==
  ASSUME TypeOK, LockHeld, HoldersHold, NEW p \in Procs, NEW u \in UnitsOf(VendorOf[p]), UpsertBatch(p, u),
         Prices!Leave(stray' \ stray)
  PROVE  Prices!CatalogueNext
<1> USE StructureAssumption
<1>t. svc \in [Procs -> [Services -> SvcStates]] /\ pending \in [Procs -> SUBSET Products] BY DEF TypeOK
<1>1. pc[p] = "scrape" /\ UNCHANGED <<upstream, locks, svc, batch>> BY DEF UpsertBatch, Handling
<1>2. PICK C \in SUBSET ToUpsert(p, u) : Upsert(C, batch[p]) /\ pending' = [pending EXCEPT ![p] = @ \ C]
  BY DEF UpsertBatch
<1>3. products' = [h \in Products |-> IF h \in C THEN batch[p][h] ELSE products[h]] BY <1>2 DEF Upsert, UpsertAt
<1>4. C \subseteq Products BY DEF ToUpsert, Handed
<1>5. ASSUME NEW h \in C
      PROVE  ServiceVendor[ServiceOf[h]] = VendorOf[p] /\ svc[p][ServiceOf[h]] = "fetched" /\ batch[p][h] # Absent
  BY <1>4, UnitVendor
<1>6. locks[VendorOf[p]] = p BY <1>1 DEF LockHeld, Holding, Steps
<1>7. svc' = [svc EXCEPT ![p] = [t \in Services |-> IF t \in {} THEN "failed" ELSE svc[p][t]]]
  BY <1>t, <1>1
<1>9. /\ \A q \in Procs : q # p => pending'[q] = pending[q]
      /\ \A h \in Products : h \in pending'[p] <=> h \in pending[p] \ C
  BY <1>t, <1>2
<1>8. GivesUp(p, {}, C) BY <1>1, <1>3, <1>4, <1>5, <1>7, <1>9 DEF GivesUp
<1> QED BY <1>6, <1>8, GivenUpIsLost

LEMMA FailsLose ==
  ASSUME TypeOK, LockHeld, HoldersHold, NEW p \in Procs,
         \/ \E s \in Services : FetchFails(p, s)
         \/ \E u \in UnitsOf(VendorOf[p]) : HandlerFails(p, u),
         Prices!Leave(stray' \ stray)
  PROVE  Prices!CatalogueNext
<1> USE StructureAssumption
<1>t. products \in [Products -> Contents \cup {Absent}] BY DEF TypeOK
<1>0. "scrape" \in Holding BY DEF Holding, Steps
<1>1. ASSUME NEW s \in Services, FetchFails(p, s) PROVE Prices!CatalogueNext
  <2>1. /\ pc[p] = "scrape" /\ ServiceVendor[s] = VendorOf[p] /\ UNCHANGED <<upstream, products, locks, batch, pending>>
        /\ svc' = [svc EXCEPT ![p] = [t \in Services |-> IF t \in {s} THEN "failed" ELSE svc[p][t]]]
    BY <1>1 DEF FetchFails, MayStart, ServicesOf, GiveUp, db
  <2>2. locks[VendorOf[p]] = p BY <1>0, <2>1 DEF LockHeld
  <2>3. products' = [h \in Products |-> IF h \in {} THEN batch[p][h] ELSE products[h]] BY <1>t, <2>1
  <2>4. GivesUp(p, {s}, {}) BY <2>1, <2>3 DEF GivesUp
  <2> QED BY <2>2, <2>4, GivenUpIsLost
<1>2. ASSUME NEW u \in UnitsOf(VendorOf[p]), HandlerFails(p, u) PROVE Prices!CatalogueNext
  <2> DEFINE S == Fetched(p, u)
             Written(C) == products' = [h \in Products |-> IF h \in C THEN batch[p][h] ELSE products[h]]
  <2>1. /\ pc[p] = "scrape" /\ UNCHANGED <<upstream, locks, batch, pending>>
        /\ svc' = [svc EXCEPT ![p] = [t \in Services |-> IF t \in S THEN "failed" ELSE svc[p][t]]]
    BY <1>2 DEF HandlerFails, Handling, GiveUp
  <2>2. locks[VendorOf[p]] = p BY <1>0, <2>1 DEF LockHeld
  <2>3. S \subseteq Services /\ \A t \in S : ServiceVendor[t] = VendorOf[p]
    BY DEF Fetched, UnitsOf, Unit, ServicesOf
  <2>4. UNCHANGED products \/ \E C \in SUBSET ToUpsert(p, u) : Upsert(C, batch[p])
    BY <1>2 DEF HandlerFails, table
  <2>5. UNCHANGED products => Written({}) BY <1>t
  <2>6. ASSUME NEW C \in SUBSET ToUpsert(p, u), Upsert(C, batch[p]) PROVE Written(C)
    BY <2>6 DEF Upsert, UpsertAt
  <2>7. ASSUME NEW C \in SUBSET ToUpsert(p, u), Written(C) PROVE GivesUp(p, S, C)
    <3>1. C \subseteq Products /\ \A h \in C : ServiceOf[h] \in S BY DEF ToUpsert, Handed
    <3>2. ASSUME NEW h \in C
          PROVE  ServiceVendor[ServiceOf[h]] = VendorOf[p] /\ svc[p][ServiceOf[h]] = "fetched" /\ batch[p][h] # Absent
      BY <3>1, UnitVendor
    <3> HIDE DEF S
    <3> QED BY <2>1, <2>3, <2>7, <3>1, <3>2 DEF GivesUp
  <2> HIDE DEF S, Written
  <2>8. \E C : GivesUp(p, S, C)
    <3> DEFINE none == {}
    <3>1. none \in SUBSET ToUpsert(p, u) OBVIOUS
    <3>2. UNCHANGED products => Written(none) BY <2>5
    <3> HIDE DEF none
    <3> QED BY <2>4, <2>6, <2>7, <3>1, <3>2
  <2> QED BY <2>2, <2>8, GivenUpIsLost
<1> QED BY <1>1, <1>2

\* A cleanup is only reached with the vendor read and stored completely, and what it
\* takes for stale was not found.
LEMMA CleanupMaySweep ==
  ASSUME TypeOK, LockHeld, SeenSetKept, CleanupComplete, AllDiscovered, DoneIsUpserted,
         NEW p \in Procs, pc[p] = "delete", NEW C, C \subseteq StaleProducts(p)
  PROVE  Prices!MaySweep(VendorOf[p], C)
<1> USE StructureAssumption
<1> DEFINE v == VendorOf[p]
<1>3. locks[v] = p BY DEF LockHeld, Holding, Steps
<1>4. ASSUME NEW s \in Services, ServiceVendor[s] = v PROVE svc[p][s] = "done"
  BY <1>4 DEF CleanupComplete, AllDiscovered
<1>5. ASSUME NEW s \in Services, ServiceVendor[s] = v PROVE reading[s] = "read"
  BY <1>3, <1>4, <1>5, HolderReads
<1>6. ASSUME NEW h \in Products, ServiceVendor[ServiceOf[h]] = v
      PROVE  /\ svc[p][ServiceOf[h]] = "done" /\ found[h] = batch[p][h]
             /\ h \in stored <=> found[h] # Absent /\ h \notin pending[p]
  <2>1. ServiceOf[h] \in Services OBVIOUS
  <2> QED BY <1>3, <1>4, <1>6, <2>1, HolderReads
<1>7. ASSUME NEW h \in Products, ServiceVendor[ServiceOf[h]] = v, found[h] # Absent PROVE h \in stored
  BY <1>6, <1>7 DEF DoneIsUpserted
<1>8. ASSUME NEW h \in C PROVE ServiceVendor[ServiceOf[h]] = v /\ found[h] = Absent
  <2>1. Condemned(p, h) BY StaleIsCondemned
  <2>2. h \in Products BY DEF StaleProducts, ProductsOf
  <2> QED BY <1>6, <2>1, <2>2 DEF Condemned
<1> HIDE DEF v
<1>9. Prices!MaySweep(v, C) BY <1>5, <1>7, <1>8 DEF Prices!MaySweep
<1> QED BY <1>9 DEF v

\* What a process has under way is what its reading may leave behind.
LEMMA UnderWayMayLeave ==
  ASSUME TypeOK, LockHeld, SeenSetKept, CleanupComplete, AllDiscovered, DoneIsUpserted,
         NEW p \in Procs, NEW o \in UnderWay(p)
  PROVE  Prices!MayLeave(o)
<1> USE StructureAssumption
<1>1. ASSUME NEW u \in UnitsOf(VendorOf[p]), o \in HandlerStatements(p, u) PROVE Prices!MayLeave(o)
  <2>1. pc[p] = "scrape" BY <1>1 DEF HandlerStatements, Handling
  <2>2. locks[VendorOf[p]] = p BY <2>1 DEF LockHeld, Holding, Steps
  <2>3. CASE o = StatementOf(p, "mark", now, Handed(p, u), batch[p])
    BY <2>3 DEF StatementOf, Prices!MayLeave
  <2>4. ASSUME NEW C \in SUBSET ToUpsert(p, u), o = StatementOf(p, "upsert", now, C, batch[p])
        PROVE  Prices!MayLeave(o)
    <3>1. o.kind = "upsert" /\ \A h \in Products : o.rows[h] = IF h \in C THEN batch[p][h] ELSE Absent
      BY <2>4 DEF StatementOf
    <3>2. ASSUME NEW h \in Prices!Named(o)
          PROVE  reading[ServiceOf[h]] = "read" /\ found[h] # Absent /\ o.rows[h] = found[h]
      <4>1. h \in Products /\ h \in ToUpsert(p, u) /\ o.rows[h] = batch[p][h] BY <3>1 DEF Prices!Named
      <4>2. /\ ServiceOf[h] \in Services /\ ServiceVendor[ServiceOf[h]] = VendorOf[p]
            /\ svc[p][ServiceOf[h]] = "fetched" /\ batch[p][h] # Absent
        BY <4>1, UnitVendor
      <4> QED BY <2>2, <4>1, <4>2, HolderReads
    <3> QED BY <3>1, <3>2 DEF Prices!MayLeave, Prices!MayStore
  <2> QED BY <1>1, <2>3, <2>4 DEF HandlerStatements
<1>2. ASSUME pc[p] = "delete", o = CleanupStatement(p) PROVE Prices!MayLeave(o)
  <2>1. o.kind = "delete" /\ \A h \in Products : h \notin StaleProducts(p) => o.rows[h] = Absent
    BY <1>2 DEF CleanupStatement, StatementOf
  <2>2. Prices!Named(o) \subseteq StaleProducts(p) BY <2>1 DEF Prices!Named
  <2>3. Prices!MaySweep(VendorOf[p], Prices!Named(o)) BY <1>2, <2>2, CleanupMaySweep
  <2>4. VendorOf[p] \in Vendors OBVIOUS
  <2> QED BY <2>1, <2>3, <2>4 DEF Prices!MayLeave
<1> QED BY <1>1, <1>2 DEF UnderWay

\* Statements left behind stay under way, and those that join them are such.
LEMMA StraysLeave ==
  ASSUME TypeOK, LockHeld, SeenSetKept, CleanupComplete, AllDiscovered, DoneIsUpserted, [Next]_vars,
         ~StrayCommits, ~PgCrash
  PROVE  Prices!Leave(stray' \ stray)
<1>s. ASSUME NEW e, NEW S, Stranded(e, S) PROVE stray \subseteq stray'
  BY <1>s DEF Stranded
<1>1. ASSUME NEW p \in Procs, ScrapeStep(p) PROVE stray \subseteq stray'
  <2>1. CASE AcquireScrapeLock(p) \/ SelectNow(p) \/ StartScrapeRun(p)
    BY <2>1 DEF AcquireScrapeLock, SelectNow, StartScrapeRun, table
  <2>2. CASE \E s \in Services : FetchService(p, s) \/ FetchFails(p, s) \/ ServiceUndiscovered(p, s)
    BY <2>2 DEF FetchService, FetchFails, ServiceUndiscovered, db
  <2>3. CASE \E u \in UnitsOf(VendorOf[p]) : UpsertBatch(p, u) \/ MarkSeen(p, u) \/ HandlerFails(p, u)
    BY <1>s, <2>3 DEF UpsertBatch, MarkSeen, HandlerFails, table
  <2>4. CASE ScrapeReturnsNil(p) \/ ScrapeReturnsError(p) \/ ReadPrevCount(p) \/ CountSeen(p)
    BY <2>4 DEF ScrapeReturnsNil, ScrapeReturnsError, ReadPrevCount, CountSeen, db
  <2>5. CASE DeleteStaleProducts(p)
    BY <1>s, <2>5 DEF DeleteStaleProducts
  <2>6. CASE Finish(p) \/ PruneScrapeRuns(p) \/ ClearSeen(p) \/ Unlock(p)
    BY <2>6 DEF Finish, PruneScrapeRuns, ClearSeen, Unlock, table
  <2> QED BY <1>1, <2>1, <2>2, <2>3, <2>4, <2>5, <2>6 DEF ScrapeStep
<1>2. ASSUME NEW c \in Commands, Invoke(c) \/ Cancel(c) PROVE stray \subseteq stray'
  BY <1>2 DEF Invoke, Cancel, db
<1>3. ASSUME NEW c \in Commands, Kill(c) PROVE stray \subseteq stray'
  BY <1>s, <1>3 DEF Kill
<1>4. ASSUME ReapStaleScrapeRuns \/ UpstreamChange \/ Seed \/ UNCHANGED vars PROVE stray \subseteq stray'
  BY <1>4 DEF ReapStaleScrapeRuns, UpstreamChange, Seed, vars, db, table
<1>5. stray \subseteq stray' BY <1>1, <1>2, <1>3, <1>4 DEF Next
<1>6. ASSUME NEW o \in stray' \ stray PROVE Prices!MayLeave(o)
  BY NewStrays, UnderWayMayLeave
<1>7. stray' = stray \cup (stray' \ stray) BY <1>5
<1> DEFINE S == stray' \ stray
<1>8. (\A o \in S : Prices!MayLeave(o)) /\ stray' = stray \cup S BY <1>6, <1>7
<1> HIDE DEF S
<1>9. Prices!Leave(S) BY <1>8 DEF Prices!Leave
<1> QED BY <1>9 DEF S

\* A stale cleanup follows a complete reading; one that fails may leave its DELETE.
LEMMA CleanupSweeps ==
  ASSUME TypeOK, LockHeld, SeenSetKept, CleanupComplete, AllDiscovered, DoneIsUpserted,
         NEW p \in Procs, DeleteStaleProducts(p), Prices!Leave(stray' \ stray)
  PROVE  Prices!CatalogueNext
<1> USE StructureAssumption
<1>t. products \in [Products -> Contents \cup {Absent}] BY DEF TypeOK
<1> DEFINE C == StaleProducts(p)
           v == VendorOf[p]
           S == stray' \ stray
<1>1. pc[p] = "delete" /\ UNCHANGED <<upstream, locks, svc, batch, pending>>
      /\ (UNCHANGED products \/ (products' = [h \in Products |-> IF h \in C THEN Absent ELSE products[h]] /\ UNCHANGED stray))
  BY DEF DeleteStaleProducts, Delete, locals, scraping
<1>2. UNCHANGED <<reading, found, stored>> BY <1>1, ReadingStays
<1>3. C \in SUBSET Products BY DEF StaleProducts, ProductsOf
<1>4. CASE UNCHANGED products
  <2> DEFINE none == {}
             gone == {}
  <2>1. /\ products' = [h \in Products |-> IF h \in none THEN found[h] ELSE products[h]]
        /\ reading' = [s \in Services |-> IF s \in gone THEN "lost" ELSE reading[s]]
        /\ found' = [h \in Products |-> IF ServiceOf[h] \in gone THEN Absent ELSE found[h]]
        /\ stored' = {h \in stored \cup none : ServiceOf[h] \notin gone}
    BY <1>t, <1>2, <1>4, ReadingIs
  <2>2. Prices!MayStore(none) BY DEF Prices!MayStore
  <2>3. none \in SUBSET Products /\ gone \in SUBSET Services OBVIOUS
  <2> HIDE DEF none, gone, S
  <2>4. Prices!Leave(S) => Prices!Store(none, gone, S) BY <1>1, <2>1, <2>2 DEF Prices!Store
  <2> QED BY <2>3, <2>4 DEF Prices!CatalogueNext, S
<1>5. CASE products' = [h \in Products |-> IF h \in C THEN Absent ELSE products[h]] /\ UNCHANGED stray
  <2>1. Prices!MaySweep(v, C) BY <1>1, CleanupMaySweep
  <2> HIDE DEF C
  <2>2. Prices!Sweep(v, C) BY <1>1, <1>2, <1>5, <2>1 DEF Prices!Sweep
  <2>3. v \in Vendors OBVIOUS
  <2> HIDE DEF v
  <2> QED BY <1>3, <2>2, <2>3 DEF Prices!CatalogueNext
<1> QED BY <1>1, <1>4, <1>5

\* A handed-over service was upserted as a whole: its marks come after its last chunk.
LEMMA StepDoneIsUpserted ==
  ASSUME TypeOK, FreshLocals, DoneIsUpserted, [Next]_vars
  PROVE  DoneIsUpserted'
<1> USE StructureAssumption
<1> SUFFICES ASSUME NEW q \in Procs, NEW h \in Products, svc'[q][ServiceOf[h]] = "done", batch'[q][h] # Absent
             PROVE  h \notin pending'[q]
  BY DEF DoneIsUpserted
<1>t. /\ svc \in [Procs -> [Services -> SvcStates]] /\ pending \in [Procs -> SUBSET Products]
      /\ batch \in [Procs -> [Products -> Contents \cup {Absent}]] /\ ServiceOf[h] \in Services
  BY DEF TypeOK
<1>h. pc'[q] \in Holding
  <2>1. pc'[q] \in Steps BY StepTypeOK DEF TypeOK
  <2>2. pc'[q] \notin {"done", "lock"} BY <1>t, StepFreshLocals DEF FreshLocals
  <2> QED BY <2>1, <2>2 DEF Holding
<1>1. CASE svc'[q] = svc[q] /\ batch'[q] = batch[q] /\ pending'[q] = pending[q]
  BY <1>1 DEF DoneIsUpserted
<1>2. ASSUME NEW s \in Services, FetchService(q, s) PROVE h \notin pending'[q]
  <2>1. /\ svc' = [svc EXCEPT ![q][s] = IF {g \in Products : ServiceOf[g] = s /\ upstream[g] # Absent} = {} THEN "done" ELSE "fetched"]
        /\ batch' = [batch EXCEPT ![q] = [g \in Products |-> IF ServiceOf[g] = s THEN upstream[g] ELSE batch[q][g]]]
        /\ pending' = [pending EXCEPT ![q] = @ \cup {g \in Products : ServiceOf[g] = s /\ upstream[g] # Absent}]
    BY <1>2 DEF FetchService
  <2>2. CASE ServiceOf[h] = s
    <3>1. batch'[q][h] = upstream[h] BY <1>t, <2>1, <2>2
    <3>2. svc'[q][s] = "fetched" BY <1>t, <2>1, <2>2, <3>1
    <3> QED BY <2>2, <3>2
  <2>3. CASE ServiceOf[h] # s
    <3>1. svc'[q][ServiceOf[h]] = svc[q][ServiceOf[h]] /\ batch'[q][h] = batch[q][h] BY <1>t, <2>1, <2>3
    <3>2. h \in pending'[q] => h \in pending[q] BY <1>t, <2>1, <2>3
    <3> QED BY <3>1, <3>2 DEF DoneIsUpserted
  <2> QED BY <2>2, <2>3
<1>3. ASSUME \/ \E s \in Services : FetchFails(q, s) \/ ServiceUndiscovered(q, s)
             \/ \E u : HandlerFails(q, u)
      PROVE  h \notin pending'[q]
  <2>1. UNCHANGED <<batch, pending>> /\ svc'[q][ServiceOf[h]] \in {svc[q][ServiceOf[h]], "failed", "missed"}
    BY <1>t, <1>3 DEF FetchFails, ServiceUndiscovered, HandlerFails, GiveUp
  <2> QED BY <2>1 DEF DoneIsUpserted
<1>4. ASSUME NEW u, UpsertBatch(q, u) PROVE h \notin pending'[q]
  <2>1. UNCHANGED <<batch, svc>> /\ \E C : pending' = [pending EXCEPT ![q] = @ \ C] BY <1>4 DEF UpsertBatch
  <2>2. pending'[q] \subseteq pending[q] BY <1>t, <2>1
  <2> QED BY <2>1, <2>2 DEF DoneIsUpserted
<1>5. ASSUME NEW u, MarkSeen(q, u) PROVE h \notin pending'[q]
  <2>1. UNCHANGED <<batch, pending>> /\ ToUpsert(q, u) = {} BY <1>5 DEF MarkSeen
  <2>2. svc'[q][ServiceOf[h]] = IF ServiceOf[h] \in Fetched(q, u) THEN "done" ELSE svc[q][ServiceOf[h]]
    BY <1>t, <1>5 DEF MarkSeen
  <2>3. CASE ServiceOf[h] \in Fetched(q, u)
    <3>1. h \in Handed(q, u) BY <2>1, <2>3 DEF Handed
    <3> QED BY <2>1, <3>1 DEF ToUpsert
  <2> QED BY <2>1, <2>2, <2>3 DEF DoneIsUpserted
<1> QED BY <1>h, <1>1, <1>2, <1>3, <1>4, <1>5, ScrapedStays

\* Taking the lock starts with nothing read; failing to take it ends nobody's reading.
LEMMA LockingReadsNothing ==
  ASSUME TypeOK, FreshLocals, HoldersHold, NEW p \in Procs, AcquireScrapeLock(p)
  PROVE  UNCHANGED <<upstream, products, reading, found, stored, stray>>
<1> USE StructureAssumption
<1>t. /\ locks \in [Vendors -> Procs \cup {NoProc}] BY DEF TypeOK
<1>1. pc[p] = "lock" /\ UNCHANGED <<upstream, products, stray>> BY DEF AcquireScrapeLock, table
<1>2. ASSUME locks[VendorOf[p]] = NoProc, locks' = [locks EXCEPT ![VendorOf[p]] = p], UNCHANGED <<svc, batch, pending>>
      PROVE  UNCHANGED <<reading, found, stored>>
  <2>1. ASSUME NEW s \in Services PROVE reading'[s] = reading[s]
    <3>1. ServiceVendor[s] \in Vendors /\ VendorOf[p] \in Vendors OBVIOUS
    <3>2. CASE ServiceVendor[s] = VendorOf[p]
      <4>1. svc[p][s] = "todo" BY <1>1 DEF FreshLocals
      <4>2. reading[s] = "unread" BY <1>2, <3>2, ReadingIs DEF ReadingOf
      <4>3. locks'[ServiceVendor[s]] = p /\ svc'[p][s] = "todo" BY <1>t, <1>2, <3>2, <4>1
      <4> QED BY <4>2, <4>3, ReadingIs DEF ReadingOf
    <3>3. CASE ServiceVendor[s] # VendorOf[p]
      <4>1. locks'[ServiceVendor[s]] = locks[ServiceVendor[s]] BY <1>t, <1>2, <3>1, <3>3
      <4> QED BY <1>2, <4>1, ReadingIs DEF ReadingOf
    <3> QED BY <3>2, <3>3
  <2>2. ASSUME NEW h \in Products PROVE found'[h] = found[h] /\ (h \in stored' <=> h \in stored)
    <3>1. ServiceOf[h] \in Services /\ ServiceVendor[ServiceOf[h]] \in Vendors OBVIOUS
    <3>2. reading'[ServiceOf[h]] = reading[ServiceOf[h]] BY <2>1, <3>1
    <3>3. ASSUME reading[ServiceOf[h]] = "read"
          PROVE  locks'[ServiceVendor[ServiceOf[h]]] = locks[ServiceVendor[ServiceOf[h]]]
      <4>1. locks[ServiceVendor[ServiceOf[h]]] # NoProc BY <3>1, <3>3, ReadingIs DEF ReadingOf
      <4> QED BY <1>t, <1>2, <3>1, <4>1
    <3>4. found'[h] = found[h] BY <1>2, <3>2, <3>3, ReadingIs
    <3>5. found[h] # Absent => reading[ServiceOf[h]] = "read" BY ReadingIs
    <3> QED BY <1>2, <3>3, <3>4, <3>5, ReadingIs
  <2> QED BY <2>1, <2>2, SameReading
<1>3. ASSUME UNCHANGED locks, Discard({p}) PROVE UNCHANGED <<reading, found, stored>>
  <2>1. ASSUME NEW v \in Vendors, locks[v] # NoProc
        PROVE  /\ svc'[locks[v]] = svc[locks[v]] /\ batch'[locks[v]] = batch[locks[v]]
               /\ pending'[locks[v]] = pending[locks[v]]
    <3>1. locks[v] \in Procs /\ locks[v] # p BY <1>t, <1>1, <2>1 DEF HoldersHold, LockFree, Holding
    <3> QED BY <1>3, <3>1 DEF Discard, For
  <2> QED BY <1>3, <2>1, ReadingStays
<1>4. \/ locks[VendorOf[p]] = NoProc /\ locks' = [locks EXCEPT ![VendorOf[p]] = p] /\ UNCHANGED <<svc, batch, pending>>
      \/ UNCHANGED locks /\ Discard({p})
  BY DEF AcquireScrapeLock, LockFree, Return, locals, scraping
<1> QED BY <1>1, <1>2, <1>3, <1>4

LEMMA MarkingReadsNothing ==
  ASSUME TypeOK, NEW p \in Procs, NEW u, MarkSeen(p, u)
  PROVE  UNCHANGED <<upstream, products, reading, found, stored, stray>>
<1>t. svc \in [Procs -> [Services -> SvcStates]] /\ locks \in [Vendors -> Procs \cup {NoProc}] BY DEF TypeOK
<1>1. /\ UNCHANGED <<upstream, products, locks, batch, pending, stray>>
      /\ svc' = [svc EXCEPT ![p] = [s \in Services |-> IF s \in Fetched(p, u) THEN "done" ELSE svc[p][s]]]
  BY DEF MarkSeen, table
<1>2. ASSUME NEW q \in Procs, NEW s \in Services
      PROVE  svc'[q][s] = svc[q][s] \/ (svc[q][s] = "fetched" /\ svc'[q][s] = "done")
  BY <1>t, <1>1 DEF Fetched
<1>3. UNCHANGED <<reading, found, stored>> BY <1>t, <1>1, <1>2, ReadingStays
<1> QED BY <1>1, <1>3

\* A statement that commits without its client is one that was left behind.
LEMMA StraysAreLate ==
  ASSUME TypeOK, StrayCommits
  PROVE  Prices!CatalogueNext
<1>t. products \in [Products -> Contents \cup {Absent}] BY DEF TypeOK
<1>1. PICK o \in stray :
        /\ stray' = stray \ {o}
        /\ \/ o.kind = "upsert" /\ UpsertAt(RowsOf(o), o.rows, o.at)
           \/ o.kind = "mark" /\ UNCHANGED products
           \/ o.kind = "delete" /\ Delete({h \in RowsOf(o) : updatedAt[h] < o.at})
  BY DEF StrayCommits
<1>2. UNCHANGED <<upstream, locks, svc, batch, pending>> BY DEF StrayCommits, locals, scraping
<1>3. UNCHANGED <<reading, found, stored>> BY <1>2, ReadingStays
<1>4. RowsOf(o) = Prices!Named(o) BY DEF RowsOf, Prices!Named
<1>5. ASSUME o.kind = "upsert", UpsertAt(RowsOf(o), o.rows, o.at) PROVE Prices!Late(o)
  <2>1. products' = [h \in Products |-> IF h \in Prices!Named(o) THEN o.rows[h] ELSE products[h]]
    BY <1>4, <1>5 DEF UpsertAt
  <2> QED BY <1>1, <1>2, <1>3, <1>5, <2>1 DEF Prices!Late
<1>6. ASSUME o.kind = "delete", Delete({h \in RowsOf(o) : updatedAt[h] < o.at}) PROVE Prices!Late(o)
  <2> DEFINE C == {h \in RowsOf(o) : updatedAt[h] < o.at}
  <2>1. C \in SUBSET Prices!Named(o) BY <1>4
  <2>2. products' = [h \in Products |-> IF h \in C THEN Absent ELSE products[h]] BY <1>6 DEF Delete
  <2> HIDE DEF C
  <2> QED BY <1>1, <1>2, <1>3, <1>6, <2>1, <2>2 DEF Prices!Late
<1>7. Prices!Late(o) BY <1>1, <1>2, <1>3, <1>5, <1>6 DEF Prices!Late
<1> QED BY <1>1, <1>7 DEF Prices!CatalogueNext

LEMMA CatalogueSteps ==
  ASSUME Budget["pgcrash"] = 0, Budget["undiscovered"] = 0,
         TypeOK, BudgetKept, LockHeld, HoldersHold, FreshLocals, SeenSetKept, CleanupComplete, AllDiscovered,
         DoneIsUpserted, [Next]_vars
  PROVE  [Prices!CatalogueNext]_<<upstream, products, reading, found, stored, stray>>
<1> USE StructureAssumption
<1>t. products \in [Products -> Contents \cup {Absent}] BY DEF TypeOK
<1>0. ASSUME UNCHANGED <<upstream, products, locks, svc, batch, pending, stray>>
      PROVE  UNCHANGED <<upstream, products, reading, found, stored, stray>>
  BY <1>0, ReadingStays
<1>p. ~PgCrash BY DEF PgCrash, Spend, BudgetKept, EnvEvents
<1>8. CASE StrayCommits BY <1>8, StraysAreLate
<1>9. ASSUME ~StrayCommits PROVE Prices!Leave(stray' \ stray) BY <1>9, <1>p, StraysLeave
<1>1. ASSUME NEW p \in Procs, ScrapeStep(p), ~StrayCommits
      PROVE  [Prices!CatalogueNext]_<<upstream, products, reading, found, stored, stray>>
  <2>1. CASE AcquireScrapeLock(p) BY <2>1, LockingReadsNothing
  <2>2. CASE SelectNow(p) \/ StartScrapeRun(p)
    BY <1>0, <2>2 DEF SelectNow, StartScrapeRun, table, scraping
  <2>3. CASE \E s \in Services : FetchService(p, s) BY <2>3, FetchReads
  <2>4. CASE \E s \in Services : FetchFails(p, s) BY <1>1, <1>9, <2>4, FailsLose
  <2>5. \A s \in Services : ~ServiceUndiscovered(p, s)
    BY DEF ServiceUndiscovered, Spend, BudgetKept, EnvEvents
  <2>6. CASE \E u \in UnitsOf(VendorOf[p]) : UpsertBatch(p, u) BY <1>1, <1>9, <2>6, UpsertStores
  <2>7. CASE \E u \in UnitsOf(VendorOf[p]) : MarkSeen(p, u) BY <2>7, MarkingReadsNothing
  <2>8. CASE \E u \in UnitsOf(VendorOf[p]) : HandlerFails(p, u) BY <1>1, <1>9, <2>8, FailsLose
  <2>9. CASE ScrapeReturnsNil(p) \/ ScrapeReturnsError(p) \/ ReadPrevCount(p) \/ CountSeen(p)
    BY <1>0, <2>9 DEF ScrapeReturnsNil, ScrapeReturnsError, ReadPrevCount, CountSeen, db, locals, scraping
  <2>10. CASE DeleteStaleProducts(p) BY <1>1, <1>9, <2>10, CleanupSweeps
  <2>11. CASE Finish(p) \/ PruneScrapeRuns(p) \/ ClearSeen(p)
    BY <1>0, <2>11 DEF Finish, PruneScrapeRuns, ClearSeen, table, locals, scraping
  <2>12. CASE Unlock(p)
    <3>1. locks' = Freed({p}) /\ Discard({p}) /\ UNCHANGED <<upstream, products>>
      BY <2>12 DEF Unlock, Return, table
    <3> QED BY <1>1, <1>9, <3>1, ReadingsEnd
  <2> QED BY <1>1, <2>1, <2>2, <2>3, <2>4, <2>5, <2>6, <2>7, <2>8, <2>9, <2>10, <2>11, <2>12 DEF ScrapeStep
<1>2. ASSUME NEW c \in Commands, Invoke(c) \/ Cancel(c)
      PROVE  UNCHANGED <<upstream, products, reading, found, stored, stray>>
  BY <1>0, <1>2 DEF Invoke, Cancel, db, locals, scraping
<1>3. ASSUME NEW c \in Commands, Kill(c), ~StrayCommits PROVE Prices!CatalogueNext
  <2> DEFINE mine == {p \in Procs : CommandOf[p] = c /\ pc[p] # "done"}
  <2>1. locks' = Freed(mine) /\ Discard(mine) /\ UNCHANGED <<upstream, products>> BY <1>3 DEF Kill, table
  <2>2. mine \in SUBSET Procs OBVIOUS
  <2> HIDE DEF mine
  <2> QED BY <1>3, <1>9, <2>1, <2>2, ReadingsEnd
<1>5. CASE ReapStaleScrapeRuns \/ UNCHANGED vars
  BY <1>0, <1>5 DEF ReapStaleScrapeRuns, vars, db, table, locals, scraping
<1>6. CASE UpstreamChange
  <2>1. UNCHANGED <<products, locks, svc, batch, pending, stray>>
        /\ \E h \in Products, x \in Contents \cup {Absent} : upstream' = [upstream EXCEPT ![h] = x]
    BY <1>6 DEF UpstreamChange, db, locals, scraping
  <2>2. UNCHANGED <<reading, found, stored>> BY <2>1, ReadingStays
  <2>3. Prices!Change BY <2>1, <2>2 DEF Prices!Change
  <2> QED BY <2>3 DEF Prices!CatalogueNext
<1>7. CASE Seed
  <2>1. UNCHANGED <<upstream, locks, svc, batch, pending, stray>> BY <1>7 DEF Seed, locals, scraping
  <2>2. UNCHANGED <<reading, found, stored>> BY <2>1, ReadingStays
  <2>3. PICK C \in SUBSET Products, x \in Contents : Upsert(C, [h \in Products |-> x]) 
    <3>1. \E C \in SUBSET Products, x \in Contents : Upsert(C, [h \in Products |-> x]) BY <1>7 DEF Seed
    <3> QED BY <3>1
  <2>4. products' = [h \in Products |-> IF h \in C THEN x ELSE products[h]] BY <2>3 DEF Upsert, UpsertAt
  <2>5. Prices!Seeded(C, x) BY <2>1, <2>2, <2>4 DEF Prices!Seeded
  <2> QED BY <2>5 DEF Prices!CatalogueNext
<1> QED BY <1>1, <1>2, <1>3, <1>p, <1>5, <1>6, <1>7, <1>8 DEF Next

\* Scrapes implement Catalogue: while Postgres stays up, no live run outlasts the
\* reaper and service discovery works, the table takes rows only as the vendor's one
\* scrape of now found them, or from `seed', and loses a row only to a complete
\* reading, stored without it, whatever commands overlap, statements fail and
\* processes die; of an earlier scrape it takes at most the statements that were under
\* way when it was cut short, each once.
THEOREM CatalogueImplemented ==
  ASSUME Budget["pgcrash"] = 0, Budget["undiscovered"] = 0, LongRuns = FALSE
  PROVE  Spec => CatalogueKeepsPromise
<1> DEFINE Inv == /\ BudgetKept /\ LockHeld /\ HoldersHold /\ RunsOwned /\ FreshLocals /\ SeenSetKept
                  /\ FailuresCounted /\ CleanupComplete /\ AllDiscovered /\ DoneIsUpserted
<1>1. Init => Inv
  <2>1. Init => BudgetKept /\ LockHeld /\ HoldersHold /\ FreshLocals
    BY DEF Init, BudgetKept, LockHeld, HoldersHold, LockFree, Holding, FreshLocals
  <2>2. Init => FailuresCounted /\ AllDiscovered /\ CleanupComplete
    BY DEF Init, FailuresCounted, AllDiscovered, CleanupComplete
  <2>3. Init => SeenSetKept BY DEF Init, SeenSetKept, Unfinished
  <2>4. Init => DoneIsUpserted BY DEF Init, DoneIsUpserted
  <2> QED BY <2>1, <2>2, <2>3, <2>4, InitRunsOwned
<1>2. TypeOK /\ Inv /\ [Next]_vars => Inv'
  BY StepBudgetKept, StepLockHeld, StepHoldersHold, StepRunsOwned, StepFreshLocals, StepSeenSetKept,
     StepFailuresCounted, StepCleanupComplete, StepAllDiscovered, StepDoneIsUpserted
<1>3. TypeOK /\ Inv /\ [Next]_vars => [Prices!CatalogueNext]_<<upstream, products, reading, found, stored, stray>>
  BY CatalogueSteps
<1>4. Init => Prices!CatalogueInit
  <2> SUFFICES ASSUME Init PROVE Prices!CatalogueInit
    OBVIOUS
  <2>1. ASSUME NEW s \in Services PROVE ReadingOf(locks[ServiceVendor[s]], s) = "unread"
    BY StructureAssumption DEF Init, ReadingOf
  <2>2. reading = [s \in Services |-> "unread"] BY <2>1, ReadingIs
  <2>3. found = [h \in Products |-> Absent] BY <2>2, ReadingIs, StructureAssumption
  <2>4. stored = {} BY <2>3, ReadingIs
  <2> QED BY <2>2, <2>3, <2>4 DEF Init, Prices!CatalogueInit
<1> QED BY <1>1, <1>2, <1>3, <1>4, TypeCorrect, PTL
        DEF Spec, CatalogueKeepsPromise, Prices!CatalogueSpec, Prices!catalogue
=============================================================================
