------------------------------- MODULE Status -------------------------------
(***************************************************************************)
(* GET /status (handleStatus and vendorStatus of internal/server): two     *)
(* queries on scrape_runs, not in one transaction, while runs start and    *)
(* end.  The table behaves as RunHistory says.                             *)
(***************************************************************************)
EXTENDS RunHistory, FiniteSets

CONSTANTS
  Polls,        \* concurrent GET /status requests
  StaleAge,     \* 48 hours
  Counts,       \* product counts a run may record
  Retention,    \* is SCRAPE_RUNS_RETENTION_DAYS positive?
  QueryFaults,  \* may a query fail (its error is swallowed)?
  MaxTime       \* bound: value of the clock

ASSUME StatusAssumption ==
  /\ MaxRuns \in Nat /\ StaleAge \in Nat /\ MaxTime \in Nat
  /\ Counts \subseteq Nat
  /\ Retention \in BOOLEAN /\ QueryFaults \in BOOLEAN

VARIABLES
  ppc,       \* where each request is
  facts,     \* what it has gathered per vendor
  queryErr,  \* did one of its queries fail?
  reported,  \* vendors[v].Status of the answer
  lastRun,   \* history: the newest run of v there ever was, 0 for none
  truth      \* history: every status that held for v during the request

vars == <<history, ppc, facts, queryErr, reported, lastRun, truth>>

NoFacts == [sawSuccess |-> FALSE, successProducts |-> 0, latestStatus |-> "", finishedAt |-> 0]

-----------------------------------------------------------------------------

RunsOf(v, statuses) == {r \in RunIds : scrapeRuns[r].vendor = v /\ scrapeRuns[r].status \in statuses}

\* SELECT DISTINCT ON (vendor) ... ORDER BY vendor, id DESC.
LatestRow(v, statuses) ==
  LET R == RunsOf(v, statuses)
  IN IF R = {} THEN NoRun ELSE scrapeRuns[CHOOSE r \in R : \A q \in R : q <= r]

AnyStatus == {"running", "success", "failed"}

\* Mutants: readiness from the newest successful run alone; a vendor without a
\* success taken for one that failed.
MutantRosyStatus(f, clock) ==
  IF f.latestStatus = "" /\ ~f.sawSuccess THEN "never"
  ELSE IF f.latestStatus = "running" THEN "scraping"
  ELSE IF ~f.sawSuccess THEN f.latestStatus
  ELSE IF f.finishedAt # 0 /\ clock - f.finishedAt > StaleAge THEN "stale"
  ELSE "ready"
MutantAlarmStatus(f, clock) ==
  IF f.latestStatus = "" /\ ~f.sawSuccess THEN "never"
  ELSE IF f.latestStatus = "running" THEN "scraping"
  ELSE IF f.latestStatus = "failed" \/ ~f.sawSuccess THEN "failed"
  ELSE "ready"

\* Ordered by urgency; a nil finishedAt is 0.
vendorStatus(f, clock) ==
  IF f.latestStatus = "" /\ ~f.sawSuccess THEN "never"
  ELSE IF f.latestStatus = "running" THEN "scraping"
  ELSE IF f.latestStatus = "failed" THEN "failed"
  ELSE IF ~f.sawSuccess THEN "never"
  ELSE IF f.successProducts = 0 THEN "empty"
  ELSE IF f.finishedAt # 0 /\ clock - f.finishedAt > StaleAge THEN "stale"
  ELSE "ready"

WithSuccess(f, row) ==
  IF row = NoRun THEN f
  ELSE [sawSuccess |-> TRUE, successProducts |-> row.products,
        latestStatus |-> f.latestStatus, finishedAt |-> f.finishedAt]

WithLatest(f, row) ==
  IF row = NoRun THEN f
  ELSE [sawSuccess |-> f.sawSuccess, successProducts |-> f.successProducts,
        latestStatus |-> row.status, finishedAt |-> row.finishedAt]

\* The README's table, of the runs there have been: "most recent run" and "has
\* ever run" are not about the rows retention left.  When it took the row of
\* the newest run, the table has no word for the vendor: "forgotten".
TrueStatus(v) ==
  LET last == scrapeRuns[lastRun[v]]
  IN IF lastRun[v] = 0 THEN "never"
     ELSE IF last.status = "absent" THEN "forgotten"
     ELSE IF last.status = "running" THEN "scraping"
     ELSE IF last.status = "failed" THEN "failed"
     ELSE IF last.products = 0 THEN "empty"
     ELSE IF now - last.finishedAt > StaleAge THEN "stale" ELSE "ready"

-----------------------------------------------------------------------------

Init ==
  /\ HistoryInit
  /\ ppc = [p \in Polls |-> "idle"]
  /\ facts = [p \in Polls |-> [v \in Vendors |-> NoFacts]]
  /\ queryErr = [p \in Polls |-> FALSE]
  /\ reported = [p \in Polls |-> [v \in Vendors |-> "none"]]
  /\ lastRun = [v \in Vendors |-> 0]
  /\ truth = [p \in Polls |-> [v \in Vendors |-> {}]]

\* One step of the scrapes; a request under way lives through the new status.
HistoryStep ==
  /\ \/ \E v \in Vendors : Start(v) /\ lastRun' = [lastRun EXCEPT ![v] = nextRun]
     \/ /\ \/ \E r \in RunIds, n \in Counts, status \in {"success", "failed"} :
                  now < MaxTime /\ End(r, status, n)
           \/ \E cutoff \in 1 .. now + 1 : now < MaxTime /\ Reap(cutoff) /\ scrapeRuns' # scrapeRuns
           \/ \E cutoff \in 1 .. now : Retention /\ Prune(cutoff) /\ scrapeRuns' # scrapeRuns
           \/ now < MaxTime /\ Tick
        /\ UNCHANGED lastRun
  /\ truth' = [p \in Polls |-> [v \in Vendors |->
                 IF ppc[p] \in {"query1", "query2", "reply"}
                   THEN truth[p][v] \cup {TrueStatus(v)'} ELSE truth[p][v]]]
  /\ UNCHANGED <<ppc, facts, queryErr, reported>>

Request(p) ==
  /\ ppc[p] = "idle"
  /\ ppc' = [ppc EXCEPT ![p] = "query1"]
  /\ truth' = [truth EXCEPT ![p] = [v \in Vendors |-> {TrueStatus(v)}]]
  /\ UNCHANGED <<history, lastRun, facts, queryErr, reported>>

\* A query and the scan of its rows into the request's facts.  An error is not
\* reported and leaves nothing to scan.
Query(p, gathered) ==
  \/ facts' = [facts EXCEPT ![p] = gathered] /\ UNCHANGED queryErr
  \/ QueryFaults /\ queryErr' = [queryErr EXCEPT ![p] = TRUE] /\ UNCHANGED facts

QuerySuccesses(p) ==
  /\ ppc[p] = "query1"
  /\ Query(p, [v \in Vendors |-> WithSuccess(facts[p][v], LatestRow(v, {"success"}))])
  /\ ppc' = [ppc EXCEPT ![p] = "query2"]
  /\ UNCHANGED <<history, lastRun, reported, truth>>

QueryLatest(p) ==
  /\ ppc[p] = "query2"
  /\ Query(p, [v \in Vendors |-> WithLatest(facts[p][v], LatestRow(v, AnyStatus))])
  /\ ppc' = [ppc EXCEPT ![p] = "reply"]
  /\ UNCHANGED <<history, lastRun, reported, truth>>

Reply(p) ==
  /\ ppc[p] = "reply"
  /\ ppc' = [ppc EXCEPT ![p] = "done"]
  /\ reported' = [reported EXCEPT ![p] = [v \in Vendors |-> vendorStatus(facts[p][v], now)]]
  /\ UNCHANGED <<history, lastRun, facts, queryErr, truth>>

\* The caller has its answer and may poll again.
Consume(p) ==
  /\ ppc[p] = "done"
  /\ ppc' = [ppc EXCEPT ![p] = "idle"]
  /\ facts' = [facts EXCEPT ![p] = [v \in Vendors |-> NoFacts]]
  /\ queryErr' = [queryErr EXCEPT ![p] = FALSE]
  /\ reported' = [reported EXCEPT ![p] = [v \in Vendors |-> "none"]]
  /\ truth' = [truth EXCEPT ![p] = [v \in Vendors |-> {}]]
  /\ UNCHANGED <<history, lastRun>>

Next ==
  \/ HistoryStep
  \/ \E p \in Polls : Request(p) \/ QuerySuccesses(p) \/ QueryLatest(p) \/ Reply(p) \/ Consume(p)

Spec == Init /\ [][Next]_vars

-----------------------------------------------------------------------------

\* A vendor whose status did not change while the request was served, and whose
\* queries worked, is reported with exactly that status, the one the README's
\* table describes: a failed vendor is failed, a dead data feed is stale.
\* Retention must not have taken the row of its newest run: see NeverMeansNoRun.
SteadyIsReported ==
  \A p \in Polls, v \in Vendors :
    ppc[p] = "done" /\ ~queryErr[p] /\ Cardinality(truth[p][v]) = 1 /\ "forgotten" \notin truth[p][v]
      => reported[p][v] \in truth[p][v]

\* Whatever happens between the two queries, and whichever of them fails,
\* 'failed' and 'scraping' are no false alarms: each was the vendor's status at
\* some moment of the request, unless the row of its newest run was pruned.
AlarmWasTrue ==
  \A p \in Polls, v \in Vendors :
    ppc[p] = "done" /\ reported[p][v] \in {"failed", "scraping"} /\ "forgotten" \notin truth[p][v]
      => reported[p][v] \in truth[p][v]

\* README.md:67: `never`, "no scrape has ever run for this vendor".  The code
\* says so of every vendor whose rows PruneScrapeRuns has all deleted, even when
\* nothing happens to it during the request (StatusForgotten.cfg).
NeverMeansNoRun ==
  \A p \in Polls, v \in Vendors :
    ppc[p] = "done" /\ ~queryErr[p] /\ Cardinality(truth[p][v]) = 1 /\ reported[p][v] = "never"
      => truth[p][v] = {"never"}
=============================================================================
