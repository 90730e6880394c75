----------------------------- MODULE RunHistory -----------------------------
(***************************************************************************)
(* What the scrape_runs table promises the code that reads it (/status and *)
(* the guard on the previous run's count), whatever the scrapes behind it  *)
(* do: a row is inserted 'running' under the next id, gets one outcome, a  *)
(* success only with products and only while it is the vendor's newest,    *)
(* and is deleted only once it has one.                                    *)
(***************************************************************************)
EXTENDS Integers

CONSTANTS Vendors, MaxRuns, Absent

VARIABLES scrapeRuns, nextRun, now

history == <<scrapeRuns, nextRun, now>>

RunIds == 1 .. MaxRuns

NoRun == [vendor |-> Absent, status |-> "absent", startedAt |-> 0, finishedAt |-> 0, products |-> 0]

HistoryInit ==
  /\ scrapeRuns = [r \in RunIds |-> NoRun]
  /\ nextRun = 1
  /\ now = 0

\* The insert comes after the SELECT now() it is stamped with.
Start(v) ==
  /\ nextRun <= MaxRuns
  /\ \E t \in 0 .. now :
       scrapeRuns' = [scrapeRuns EXCEPT ![nextRun] =
         [vendor |-> v, status |-> "running", startedAt |-> t, finishedAt |-> 0, products |-> 0]]
  /\ nextRun' = nextRun + 1
  /\ UNCHANGED now

Ended(row, status, n) ==
  [vendor |-> row.vendor, status |-> status, startedAt |-> row.startedAt,
   finishedAt |-> now + 1, products |-> n]

\* The vendor's lock: only the newest run of a vendor still has someone to end it.
End(r, status, n) ==
  /\ scrapeRuns[r].status = "running"
  /\ \A q \in RunIds : scrapeRuns[q].vendor = scrapeRuns[r].vendor => q <= r
  /\ n \in Nat /\ (status = "success" => n > 0)
  /\ scrapeRuns' = [scrapeRuns EXCEPT ![r] = Ended(scrapeRuns[r], status, n)]
  /\ now' = now + 1
  /\ UNCHANGED nextRun

Reap(cutoff) ==
  /\ scrapeRuns' = [r \in RunIds |->
       IF scrapeRuns[r].status = "running" /\ scrapeRuns[r].startedAt < cutoff
         THEN Ended(scrapeRuns[r], "failed", scrapeRuns[r].products)
         ELSE scrapeRuns[r]]
  /\ now' = now + 1
  /\ UNCHANGED nextRun

Prune(cutoff) ==
  /\ scrapeRuns' = [r \in RunIds |->
       IF scrapeRuns[r].status \in {"success", "failed"} /\ scrapeRuns[r].finishedAt < cutoff
         THEN NoRun ELSE scrapeRuns[r]]
  /\ UNCHANGED <<nextRun, now>>

Tick == now' = now + 1 /\ UNCHANGED <<scrapeRuns, nextRun>>

HistoryNext ==
  \/ \E v \in Vendors : Start(v)
  \/ \E r \in RunIds, status \in {"success", "failed"} : End(r, status, scrapeRuns'[r].products)
  \/ \E cutoff \in 0 .. now + 1 : Reap(cutoff) \/ Prune(cutoff)
  \/ Tick

HistorySpec == HistoryInit /\ [][HistoryNext]_history
=============================================================================
