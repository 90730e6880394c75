---------------------------- MODULE Status_proofs ----------------------------
(* What /status answers, for any table, clock, vendors and requests.        *)
EXTENDS Status, FiniteSetTheorems, TLAPS

Statuses == {"never", "scraping", "failed", "empty", "stale", "ready", "forgotten"}

AtWork == {"query1", "query2", "reply"}

\* The rows of the table.
Rows == [vendor : Vendors \cup {Absent}, status : AnyStatus \cup {"absent"},
         startedAt : Nat, finishedAt : Nat, products : Nat]

\* What a request gathers of a vendor.
Facts == [sawSuccess : BOOLEAN, successProducts : Nat,
          latestStatus : AnyStatus \cup {""}, finishedAt : Nat]

TypeOK ==
  /\ scrapeRuns \in [RunIds -> Rows]
  /\ nextRun \in Nat \ {0} /\ now \in Nat
  /\ ppc \in [Polls -> AtWork \cup {"idle", "done"}]
  /\ facts \in [Polls -> [Vendors -> Facts]]
  /\ queryErr \in [Polls -> BOOLEAN]
  /\ reported \in [Polls -> [Vendors -> Statuses \cup {"none"}]]
  /\ lastRun \in [Vendors -> RunIds \cup {0}]
  /\ truth \in [Polls -> [Vendors -> SUBSET Statuses]]

\* A row has a finish time of the past once it has an outcome, and products if
\* that is a success; ids from nextRun on are unused.
RowsSound ==
  \A r \in RunIds :
    /\ scrapeRuns[r].status # "absent" => r < nextRun
    /\ scrapeRuns[r].finishedAt <= now
    /\ scrapeRuns[r].status = "success" => scrapeRuns[r].finishedAt > 0 /\ scrapeRuns[r].products > 0

\* A vendor's successes finished in the order of their ids: retention, which
\* takes the oldest, leaves no older one looking fresher.
SuccessesInOrder ==
  \A q, r \in RunIds :
    q < r /\ scrapeRuns[q].vendor = scrapeRuns[r].vendor
      /\ scrapeRuns[q].status = "success" /\ scrapeRuns[r].status = "success"
      => scrapeRuns[q].finishedAt <= scrapeRuns[r].finishedAt

\* The rows of a vendor are of its newest run and of older ones.
LastRunSound ==
  \A v \in Vendors :
    /\ \A r \in RunIds : scrapeRuns[r].vendor = v /\ scrapeRuns[r].status # "absent" => r <= lastRun[v]
    /\ lastRun[v] # 0 /\ scrapeRuns[lastRun[v]].status # "absent" => scrapeRuns[lastRun[v]].vendor = v
    /\ lastRun[v] < nextRun

\* A request under way has lived through the status that holds now.
TruthCurrent ==
  \A p \in Polls, v \in Vendors : ppc[p] \in AtWork => TrueStatus(v) \in truth[p][v]

\* What the first query left: a success it saw had products, and whether it saw
\* one tells what the status was then.
SuccessRead(f, lived, err) ==
  /\ f.sawSuccess => f.successProducts > 0 /\ \E s \in lived : s # "never"
  /\ ~f.sawSuccess /\ ~err => \E s \in lived : s \in {"never", "scraping", "failed"}

\* What the second query left: the status of then.  A success it saw has been
\* stale ever since, if nothing else was lived through; and if all of that was
\* ready, the newest run finished no later.
LatestRead(f, lived, err, v) ==
  /\ f.latestStatus = "" /\ ~err => "never" \in lived
  /\ f.latestStatus = "running" => "scraping" \in lived
  /\ f.latestStatus = "failed" => "failed" \in lived
  /\ f.latestStatus = "success" =>
       /\ f.finishedAt > 0
       /\ \E s \in lived : s \in {"stale", "ready"}
       /\ lived = {"stale"} => now - f.finishedAt > StaleAge
       /\ lived = {"ready"} => LatestRow(v, AnyStatus).finishedAt <= f.finishedAt

Unread(f) == f.latestStatus = ""

Remembered(lived) == "forgotten" \notin lived

RequestInv(p, v) ==
  /\ ppc[p] \in {"idle", "query1"} => facts[p][v] = NoFacts /\ ~queryErr[p]
  /\ ppc[p] = "query2" => Unread(facts[p][v])
  /\ ppc[p] \in {"query2", "reply"} /\ Remembered(truth[p][v]) =>
       SuccessRead(facts[p][v], truth[p][v], queryErr[p])
  /\ ppc[p] = "reply" /\ Remembered(truth[p][v]) => LatestRead(facts[p][v], truth[p][v], queryErr[p], v)
  /\ ppc[p] = "done" /\ Remembered(truth[p][v]) =>
       /\ reported[p][v] \in {"failed", "scraping"} => reported[p][v] \in truth[p][v]
       /\ \A s \in Statuses : ~queryErr[p] /\ truth[p][v] = {s} => reported[p][v] = s

RequestsSound == \A p \in Polls, v \in Vendors : RequestInv(p, v)

HistoryInv == RowsSound /\ SuccessesInOrder /\ LastRunSound

Inv == TypeOK /\ HistoryInv /\ TruthCurrent /\ RequestsSound

-----------------------------------------------------------------------------

\* A nonempty set of run ids has a greatest one: the ids below MaxRuns count
\* down to a least.
LEMMA NewestExists ==
  ASSUME NEW R \in SUBSET RunIds, R # {}
  PROVE  \E r \in R : \A q \in R : q <= r
<1> DEFINE D == {MaxRuns - r : r \in R}
           L == OpToRel(<, Nat)
<1>1. MaxRuns \in Nat
  BY StatusAssumption
<1>2. D \in SUBSET Nat /\ D # {}
  <2>1. \A r \in R : r \in 1 .. MaxRuns
    BY DEF RunIds
  <2>2. \A r \in R : MaxRuns - r \in Nat
    BY <2>1, <1>1
  <2> QED
    BY <2>2
<1>3. \A x, y \in Nat : x < y => <<x, y>> \in L
  BY Zenon DEF OpToRel
<1>4. IsWellFoundedOn(L, Nat)
  BY NatLessThanWellFounded
<1> HIDE DEF D, L
<1>5. PICK d \in D : \A e \in D : <<e, d>> \notin L
  BY <1>2, <1>4, WFMin
<1>6. \A e \in D : ~(e < d)
  BY <1>2, <1>3, <1>5
<1>7. PICK r \in R : d = MaxRuns - r
  BY DEF D
<1>8. \A q \in R : ~(MaxRuns - q < MaxRuns - r)
  BY <1>6, <1>7 DEF D
<1>9. \A q \in R : q <= r
  BY <1>8, <1>1 DEF RunIds
<1> QED
  BY <1>9

\* The status of a vendor going by the rows there are.
RowsStatus(v) ==
  LET mine == RunsOf(v, AnyStatus)
      last == scrapeRuns[CHOOSE r \in mine : \A q \in mine : q <= r]
  IN IF mine = {} THEN "never"
     ELSE IF last.status = "running" THEN "scraping"
     ELSE IF last.status = "failed" THEN "failed"
     ELSE IF last.products = 0 THEN "empty"
     ELSE IF now - last.finishedAt > StaleAge THEN "stale" ELSE "ready"

\* The newest of a vendor's rows, and what RowsStatus says of it.
Newest(v) == CHOOSE r \in RunsOf(v, AnyStatus) : \A q \in RunsOf(v, AnyStatus) : q <= r

RowStatus(row) ==
  IF row.status = "running" THEN "scraping"
  ELSE IF row.status = "failed" THEN "failed"
  ELSE IF row.products = 0 THEN "empty"
  ELSE IF now - row.finishedAt > StaleAge THEN "stale" ELSE "ready"

LEMMA NewestRow ==
  ASSUME NEW v, RunsOf(v, AnyStatus) # {}
  PROVE  /\ Newest(v) \in RunsOf(v, AnyStatus)
         /\ \A q \in RunsOf(v, AnyStatus) : q <= Newest(v)
         /\ LatestRow(v, AnyStatus) = scrapeRuns[Newest(v)]
         /\ RowsStatus(v) = RowStatus(scrapeRuns[Newest(v)])
<1>1. RunsOf(v, AnyStatus) \in SUBSET RunIds
  BY DEF RunsOf
<1>2. \E r \in RunsOf(v, AnyStatus) : \A q \in RunsOf(v, AnyStatus) : q <= r
  BY <1>1, NewestExists
<1>3. Newest(v) \in RunsOf(v, AnyStatus) /\ \A q \in RunsOf(v, AnyStatus) : q <= Newest(v)
  BY <1>2 DEF Newest
<1>4. LatestRow(v, AnyStatus) = scrapeRuns[Newest(v)]
  BY DEF LatestRow, Newest
<1>5. RowsStatus(v) = RowStatus(scrapeRuns[Newest(v)])
  BY DEF RowsStatus, Newest, RowStatus
<1> QED
  BY <1>3, <1>4, <1>5

LEMMA NoRows ==
  ASSUME NEW v, RunsOf(v, AnyStatus) = {}
  PROVE  RowsStatus(v) = "never" /\ LatestRow(v, AnyStatus) = NoRun
BY DEF RowsStatus, LatestRow

LEMMA RowsStatusType == ASSUME NEW v PROVE RowsStatus(v) \in Statuses
<1>1. CASE RunsOf(v, AnyStatus) = {}
  BY <1>1, NoRows DEF Statuses
<1>2. CASE RunsOf(v, AnyStatus) # {}
  BY <1>2, NewestRow DEF Statuses, RowStatus
<1> QED
  BY <1>1, <1>2

\* The facts about the newest row, of every vendor and so of every state.
NewestFacts(v) ==
  /\ RunsOf(v, AnyStatus) # {} =>
       /\ Newest(v) \in RunsOf(v, AnyStatus)
       /\ \A q \in RunsOf(v, AnyStatus) : q <= Newest(v)
       /\ LatestRow(v, AnyStatus) = scrapeRuns[Newest(v)]
       /\ RowsStatus(v) = RowStatus(scrapeRuns[Newest(v)])
  /\ RunsOf(v, AnyStatus) = {} => RowsStatus(v) = "never" /\ LatestRow(v, AnyStatus) = NoRun
  /\ RowsStatus(v) \in Statuses

LEMMA NewestNow == \A v : NewestFacts(v)
BY NewestRow, NoRows, RowsStatusType DEF NewestFacts

LEMMA NewestNext == \A v : NewestFacts(v)'
<1>1. \A v : NewestFacts(v)
  BY NewestNow
<1>2. (\A v : NewestFacts(v))'
  BY <1>1, PTL
<1> QED
  BY <1>2

LEMMA TrueStatusType == ASSUME NEW v PROVE TrueStatus(v) \in Statuses
BY DEF TrueStatus, Statuses

LEMMA TrueStatusNext == \A v : TrueStatus(v)' \in Statuses
<1>1. \A v : TrueStatus(v) \in Statuses
  BY TrueStatusType
<1>2. (\A v : TrueStatus(v) \in Statuses)'
  BY <1>1, PTL
<1> QED
  BY <1>2 DEF Statuses

\* Unless retention took the newest run's row, the rows tell the status.
RowsTell == \A v \in Vendors : TrueStatus(v) \in {"forgotten", RowsStatus(v)}

LEMMA RowsTellNow == TypeOK /\ LastRunSound => RowsTell
<1> SUFFICES ASSUME TypeOK, LastRunSound, NEW v \in Vendors, TrueStatus(v) # "forgotten"
             PROVE  TrueStatus(v) = RowsStatus(v)
  BY DEF RowsTell
<1>1. lastRun[v] \in RunIds \cup {0} /\ \A r \in RunIds : r > 0
  BY DEF TypeOK, RunIds
<1>2. \A r \in RunIds : scrapeRuns[r].vendor = v /\ scrapeRuns[r].status # "absent" => r <= lastRun[v]
  BY DEF LastRunSound
<1>3. CASE lastRun[v] = 0
  <2>1. RunsOf(v, AnyStatus) = {}
    BY <1>1, <1>2, <1>3 DEF RunsOf, AnyStatus, RunIds
  <2> QED
    BY <1>3, <2>1 DEF TrueStatus, RowsStatus
<1>4. CASE lastRun[v] # 0
  <2>1. scrapeRuns[lastRun[v]].status # "absent"
    BY <1>4 DEF TrueStatus
  <2>2. lastRun[v] \in RunIds /\ scrapeRuns[lastRun[v]].vendor = v
    BY <1>1, <1>4, <2>1 DEF LastRunSound
  <2>3. scrapeRuns[lastRun[v]].status \in AnyStatus
    BY <2>1, <2>2 DEF TypeOK, Rows
  <2>4. lastRun[v] \in RunsOf(v, AnyStatus) /\ \A q \in RunsOf(v, AnyStatus) : q <= lastRun[v]
    BY <1>2, <2>2, <2>3 DEF RunsOf, AnyStatus
  <2>5. Newest(v) \in RunsOf(v, AnyStatus) /\ \A q \in RunsOf(v, AnyStatus) : q <= Newest(v)
    BY <2>4, NewestNow DEF NewestFacts
  <2>6. Newest(v) = lastRun[v]
    <3>1. Newest(v) <= lastRun[v] /\ lastRun[v] <= Newest(v)
      BY <2>4, <2>5
    <3>2. Newest(v) \in RunIds
      BY <2>5 DEF RunsOf
    <3> QED
      BY <2>2, <3>1, <3>2 DEF RunIds
  <2>7. RowsStatus(v) = RowStatus(scrapeRuns[lastRun[v]])
    BY <2>4, <2>6, NewestNow DEF NewestFacts
  <2> QED
    BY <1>4, <2>1, <2>7 DEF TrueStatus, RowStatus
<1> QED
  BY <1>3, <1>4

LEMMA RowsTellNext == TypeOK' /\ LastRunSound' => RowsTell'
BY RowsTellNow, PTL

-----------------------------------------------------------------------------

LEMMA NoRunType == NoRun \in Rows
BY DEF NoRun, Rows

LEMMA NoFactsType == NoFacts \in Facts
BY DEF NoFacts, Facts

LEMMA InitInv == Init => Inv
<1> SUFFICES ASSUME Init PROVE Inv
  OBVIOUS
<1> USE DEF Init, HistoryInit
<1>1. TypeOK
  BY NoRunType, NoFactsType DEF TypeOK, AtWork
<1>2. RowsSound /\ SuccessesInOrder /\ LastRunSound
  BY DEF RowsSound, SuccessesInOrder, LastRunSound, NoRun
<1>3. TruthCurrent
  BY DEF TruthCurrent, AtWork
<1>4. RequestsSound
  BY DEF RequestsSound, RequestInv
<1> QED
  BY <1>1, <1>2, <1>3, <1>4 DEF Inv, HistoryInv


LEMMA EndedType ==
  ASSUME TypeOK, NEW row \in Rows, NEW status \in AnyStatus, NEW n \in Nat
  PROVE  Ended(row, status, n) \in Rows
<1>1. now + 1 \in Nat
  BY DEF TypeOK
<1> QED
  BY <1>1 DEF Ended, Rows

\* What one step of the scrapes does to a row: it starts, ends under the lock,
\* is reaped, is pruned, or stays.
RowMove(r) ==
  \/ scrapeRuns'[r] = scrapeRuns[r]
  \/ scrapeRuns'[r].status = "running" /\ scrapeRuns'[r].finishedAt = 0 /\ r = nextRun /\ r < nextRun'
  \/ /\ scrapeRuns[r].status = "running"
     /\ \A q \in RunIds : scrapeRuns[q].vendor = scrapeRuns[r].vendor => q <= r
     /\ scrapeRuns'[r].vendor = scrapeRuns[r].vendor
     /\ scrapeRuns'[r].status = "success" => scrapeRuns'[r].products > 0
     /\ scrapeRuns'[r].finishedAt = now + 1 /\ now' = now + 1
     /\ \A q \in RunIds : q # r => scrapeRuns'[q] = scrapeRuns[q]
  \/ scrapeRuns[r].status = "running" /\ scrapeRuns'[r].status = "failed" /\ scrapeRuns'[r].finishedAt = now + 1 /\ now' = now + 1
  \/ scrapeRuns'[r] = NoRun

LEMMA HistoryMoves ==
  ASSUME TypeOK, HistoryStep
  PROVE  /\ scrapeRuns' \in [RunIds -> Rows]
         /\ nextRun' \in Nat \ {0} /\ nextRun' >= nextRun
         /\ now' \in Nat /\ now' >= now
         /\ \A r \in RunIds : RowMove(r)
<1>1. scrapeRuns \in [RunIds -> Rows] /\ nextRun \in Nat \ {0} /\ now \in Nat
  BY DEF TypeOK
<1>2. ASSUME NEW v \in Vendors, Start(v)
      PROVE  /\ scrapeRuns' \in [RunIds -> Rows] /\ nextRun' = nextRun + 1 /\ now' = now
             /\ \A r \in RunIds : RowMove(r)
  <2>1. PICK t \in 0 .. now : scrapeRuns' = [scrapeRuns EXCEPT ![nextRun] =
          [vendor |-> v, status |-> "running", startedAt |-> t, finishedAt |-> 0, products |-> 0]]
    BY <1>2 DEF Start
  <2>2. [vendor |-> v, status |-> "running", startedAt |-> t, finishedAt |-> 0, products |-> 0] \in Rows
    BY <1>1 DEF Rows, AnyStatus
  <2>3. scrapeRuns' \in [RunIds -> Rows]
    BY <1>1, <2>1, <2>2
  <2>4. nextRun' = nextRun + 1 /\ now' = now
    BY <1>2 DEF Start
  <2>5. \A r \in RunIds : RowMove(r)
    BY <1>1, <2>1, <2>4 DEF RowMove
  <2> QED
    BY <2>3, <2>4, <2>5
<1>3. ASSUME NEW r \in RunIds, NEW n \in Counts, NEW status \in {"success", "failed"}, End(r, status, n)
      PROVE  /\ scrapeRuns' \in [RunIds -> Rows] /\ nextRun' = nextRun /\ now' = now + 1
             /\ \A q \in RunIds : RowMove(q)
  <2>1. scrapeRuns' = [scrapeRuns EXCEPT ![r] = Ended(scrapeRuns[r], status, n)]
    BY <1>3 DEF End
  <2>2. nextRun' = nextRun /\ now' = now + 1 /\ n \in Nat /\ (status = "success" => n > 0)
    BY <1>3 DEF End
  <2>3. scrapeRuns' \in [RunIds -> Rows]
    BY <1>1, <2>1, <2>2, EndedType DEF AnyStatus
  <2>4. ASSUME NEW q \in RunIds PROVE RowMove(q)
    <3>1. CASE q # r
      BY <3>1, <1>1, <2>1 DEF RowMove
    <3>2. CASE q = r
      <4>1. scrapeRuns'[r] = Ended(scrapeRuns[r], status, n)
        BY <1>1, <2>1
      <4>2. \A x \in RunIds : x # r => scrapeRuns'[x] = scrapeRuns[x]
        BY <1>1, <2>1
      <4>3. scrapeRuns[r].status = "running" /\ \A x \in RunIds : scrapeRuns[x].vendor = scrapeRuns[r].vendor => x <= r
        BY <1>3 DEF End
      <4> QED
        BY <3>2, <4>1, <4>2, <4>3, <2>2 DEF RowMove, Ended
    <3> QED
      BY <3>1, <3>2
  <2> QED
    BY <2>2, <2>3, <2>4
<1>4. ASSUME NEW cutoff, Reap(cutoff)
      PROVE  /\ scrapeRuns' \in [RunIds -> Rows] /\ nextRun' = nextRun /\ now' = now + 1
             /\ \A r \in RunIds : RowMove(r)
  <2>1. nextRun' = nextRun /\ now' = now + 1
    BY <1>4 DEF Reap
  <2>2. ASSUME NEW r \in RunIds
        PROVE  \/ scrapeRuns'[r] = scrapeRuns[r]
               \/ scrapeRuns[r].status = "running" /\ scrapeRuns'[r] = Ended(scrapeRuns[r], "failed", scrapeRuns[r].products)
    BY <1>4 DEF Reap
  <2>3. ASSUME NEW r \in RunIds PROVE scrapeRuns'[r] \in Rows
    <3>1. scrapeRuns[r] \in Rows /\ scrapeRuns[r].products \in Nat
      BY <1>1 DEF Rows
    <3>2. Ended(scrapeRuns[r], "failed", scrapeRuns[r].products) \in Rows
      BY <3>1, EndedType DEF AnyStatus
    <3> QED
      BY <2>2, <3>1, <3>2
  <2>4. scrapeRuns' = [r \in RunIds |-> scrapeRuns'[r]]
    BY <1>4 DEF Reap
  <2>5. ASSUME NEW r \in RunIds PROVE RowMove(r)
    <3>1. CASE scrapeRuns'[r] = scrapeRuns[r]
      BY <3>1 DEF RowMove
    <3>2. CASE scrapeRuns[r].status = "running" /\ scrapeRuns'[r] = Ended(scrapeRuns[r], "failed", scrapeRuns[r].products)
      BY <3>2, <2>1 DEF RowMove, Ended
    <3> QED
      BY <2>2, <3>1, <3>2
  <2> QED
    BY <2>1, <2>3, <2>4, <2>5
<1>5. ASSUME NEW cutoff, Prune(cutoff)
      PROVE  /\ scrapeRuns' \in [RunIds -> Rows] /\ nextRun' = nextRun /\ now' = now
             /\ \A r \in RunIds : RowMove(r)
  <2>1. nextRun' = nextRun /\ now' = now
    BY <1>5 DEF Prune
  <2>2. \A r \in RunIds : scrapeRuns'[r] = scrapeRuns[r] \/ scrapeRuns'[r] = NoRun
    BY <1>5 DEF Prune
  <2>3. \A r \in RunIds : scrapeRuns'[r] \in Rows
    BY <1>1, <2>2, NoRunType
  <2>4. scrapeRuns' = [r \in RunIds |-> scrapeRuns'[r]]
    BY <1>5 DEF Prune
  <2>5. \A r \in RunIds : RowMove(r)
    BY <2>2 DEF RowMove
  <2> QED
    BY <2>1, <2>3, <2>4, <2>5
<1>6. ASSUME Tick
      PROVE  /\ scrapeRuns' \in [RunIds -> Rows] /\ nextRun' = nextRun /\ now' = now + 1
             /\ \A r \in RunIds : RowMove(r)
  BY <1>1, <1>6 DEF Tick, RowMove
<1>7. \/ \E v \in Vendors : Start(v)
      \/ \E r \in RunIds, n \in Counts, status \in {"success", "failed"} : End(r, status, n)
      \/ \E cutoff : Reap(cutoff) \/ Prune(cutoff)
      \/ Tick
  BY DEF HistoryStep
<1>8. \E m \in {nextRun, nextRun + 1}, k \in {now, now + 1} :
        /\ scrapeRuns' \in [RunIds -> Rows] /\ nextRun' = m /\ now' = k
        /\ \A r \in RunIds : RowMove(r)
  BY <1>2, <1>3, <1>4, <1>5, <1>6, <1>7
<1> QED
  BY <1>1, <1>8

LEMMA LatestRowType ==
  ASSUME TypeOK, NEW v, NEW statuses \in SUBSET AnyStatus
  PROVE  /\ LatestRow(v, statuses) \in Rows
         /\ LatestRow(v, statuses) # NoRun =>
              \E r \in RunsOf(v, statuses) : LatestRow(v, statuses) = scrapeRuns[r]
         /\ LatestRow(v, statuses) = NoRun => RunsOf(v, statuses) = {}
<1>1. CASE RunsOf(v, statuses) = {}
  BY <1>1, NoRunType DEF LatestRow
<1>2. CASE RunsOf(v, statuses) # {}
  <2>1. RunsOf(v, statuses) \in SUBSET RunIds
    BY DEF RunsOf
  <2>2. PICK r \in RunsOf(v, statuses) : LatestRow(v, statuses) = scrapeRuns[r]
    BY <1>2, <2>1, NewestExists DEF LatestRow
  <2>3. scrapeRuns[r] \in Rows /\ scrapeRuns[r].status \in AnyStatus
    BY <2>1, <2>2 DEF RunsOf, TypeOK
  <2>4. scrapeRuns[r] # NoRun
    BY <2>3 DEF NoRun, AnyStatus
  <2> QED
    BY <2>2, <2>3, <2>4
<1> QED
  BY <1>1, <1>2

LEMMA ReadTypes ==
  ASSUME NEW f \in Facts, NEW row \in Rows
  PROVE  /\ WithSuccess(f, row) \in Facts
         /\ row = NoRun \/ row.status \in AnyStatus => WithLatest(f, row) \in Facts
<1>1. WithSuccess(f, row) \in Facts
  BY DEF WithSuccess, Facts, Rows
<1>2. CASE row = NoRun
  BY <1>1, <1>2 DEF WithLatest
<1>3. CASE row # NoRun
  BY <1>1, <1>3 DEF WithLatest, Facts, Rows
<1> QED
  BY <1>1, <1>2, <1>3

LEMMA QueryType ==
  ASSUME TypeOK, NEW p \in Polls, NEW gathered \in [Vendors -> Facts], Query(p, gathered)
  PROVE  facts' \in [Polls -> [Vendors -> Facts]] /\ queryErr' \in [Polls -> BOOLEAN]
BY DEF Query, TypeOK

LEMMA vendorStatusType == ASSUME NEW f, NEW clock PROVE vendorStatus(f, clock) \in Statuses
BY DEF vendorStatus, Statuses

LEMMA StepTypeOK == TypeOK /\ [Next]_vars => TypeOK'
<1> SUFFICES ASSUME TypeOK, [Next]_vars PROVE TypeOK'
  OBVIOUS
<1>1. CASE HistoryStep
  <2>1. scrapeRuns' \in [RunIds -> Rows] /\ nextRun' \in Nat \ {0} /\ now' \in Nat
    BY <1>1, HistoryMoves
  <2>2. \A v : TrueStatus(v)' \in Statuses
    BY TrueStatusNext
  <2>3. truth' \in [Polls -> [Vendors -> SUBSET Statuses]]
    BY <1>1, <2>2 DEF HistoryStep, TypeOK
  <2>4. lastRun' \in [Vendors -> RunIds \cup {0}]
    <3>1. ASSUME NEW v \in Vendors, Start(v), lastRun' = [lastRun EXCEPT ![v] = nextRun]
          PROVE  lastRun' \in [Vendors -> RunIds \cup {0}]
      <4>1. nextRun \in RunIds
        BY <3>1, StatusAssumption DEF Start, TypeOK, RunIds
      <4> QED
        BY <3>1, <4>1 DEF TypeOK
    <3>2. CASE UNCHANGED lastRun
      BY <3>2 DEF TypeOK
    <3> QED
      BY <1>1, <3>1, <3>2 DEF HistoryStep
  <2>5. RunIds' = RunIds
    BY DEF RunIds
  <2> QED
    BY <1>1, <2>1, <2>3, <2>4, <2>5 DEF HistoryStep, TypeOK
<1>2. ASSUME NEW p \in Polls, Request(p) PROVE TypeOK'
  <2>1. \A v : TrueStatus(v) \in Statuses
    BY TrueStatusType
  <2>2. truth' \in [Polls -> [Vendors -> SUBSET Statuses]]
    BY <1>2, <2>1 DEF Request, TypeOK
  <2> QED
    BY <1>2, <2>2 DEF Request, TypeOK, AtWork, history
<1>3. ASSUME NEW p \in Polls, QuerySuccesses(p) PROVE TypeOK'
  <2>1. \A v \in Vendors : WithSuccess(facts[p][v], LatestRow(v, {"success"})) \in Facts
    BY ReadTypes, LatestRowType DEF TypeOK, AnyStatus
  <2>2. facts' \in [Polls -> [Vendors -> Facts]] /\ queryErr' \in [Polls -> BOOLEAN]
    BY <1>3, <2>1, QueryType DEF QuerySuccesses
  <2> QED
    BY <1>3, <2>2 DEF QuerySuccesses, TypeOK, AtWork, history
<1>4. ASSUME NEW p \in Polls, QueryLatest(p) PROVE TypeOK'
  <2>1. ASSUME NEW v \in Vendors PROVE WithLatest(facts[p][v], LatestRow(v, AnyStatus)) \in Facts
    <3>1. facts[p][v] \in Facts /\ LatestRow(v, AnyStatus) \in Rows
      BY LatestRowType DEF TypeOK
    <3>2. LatestRow(v, AnyStatus) = NoRun \/ LatestRow(v, AnyStatus).status \in AnyStatus
      BY LatestRowType DEF RunsOf
    <3> QED
      BY <3>1, <3>2, ReadTypes
  <2>2. facts' \in [Polls -> [Vendors -> Facts]] /\ queryErr' \in [Polls -> BOOLEAN]
    BY <1>4, <2>1, QueryType DEF QueryLatest
  <2> QED
    BY <1>4, <2>2 DEF QueryLatest, TypeOK, AtWork, history
<1>5. ASSUME NEW p \in Polls, Reply(p) PROVE TypeOK'
  <2>1. reported' \in [Polls -> [Vendors -> Statuses \cup {"none"}]]
    BY <1>5, vendorStatusType DEF Reply, TypeOK
  <2> QED
    BY <1>5, <2>1 DEF Reply, TypeOK, history
<1>6. ASSUME NEW p \in Polls, Consume(p) PROVE TypeOK'
  <2>1. [v \in Vendors |-> NoFacts] \in [Vendors -> Facts]
    BY NoFactsType
  <2> QED
    BY <1>6, <2>1 DEF Consume, TypeOK, history
<1>7. CASE UNCHANGED vars
  BY <1>7 DEF vars, history, TypeOK
<1> QED
  BY <1>1, <1>2, <1>3, <1>4, <1>5, <1>6, <1>7 DEF Next

LEMMA StepLastRun == TypeOK /\ RowsSound /\ LastRunSound /\ HistoryStep => LastRunSound'
<1> SUFFICES ASSUME TypeOK, RowsSound, LastRunSound, HistoryStep, NEW v \in Vendors
             PROVE  /\ \A r \in RunIds : scrapeRuns'[r].vendor = v /\ scrapeRuns'[r].status # "absent" => r <= lastRun'[v]
                    /\ lastRun'[v] # 0 /\ scrapeRuns'[lastRun'[v]].status # "absent" => scrapeRuns'[lastRun'[v]].vendor = v
                    /\ lastRun'[v] < nextRun'
  BY DEF LastRunSound, RunIds
<1>0. /\ scrapeRuns \in [RunIds -> Rows] /\ nextRun \in Nat \ {0} /\ lastRun \in [Vendors -> RunIds \cup {0}]
      /\ \A r \in RunIds : r \in Nat /\ r # 0
      /\ \A r \in RunIds : scrapeRuns[r].vendor = v /\ scrapeRuns[r].status # "absent" => r <= lastRun[v]
      /\ lastRun[v] # 0 /\ scrapeRuns[lastRun[v]].status # "absent" => scrapeRuns[lastRun[v]].vendor = v
      /\ \A r \in RunIds : scrapeRuns[r].status # "absent" => r < nextRun
      /\ lastRun[v] < nextRun /\ nextRun' \in Nat /\ nextRun' >= nextRun
  BY HistoryMoves, StatusAssumption DEF TypeOK, LastRunSound, RunIds, RowsSound
<1>1. ASSUME NEW w \in Vendors, Start(w), lastRun' = [lastRun EXCEPT ![w] = nextRun]
      PROVE  /\ \A r \in RunIds : scrapeRuns'[r].vendor = v /\ scrapeRuns'[r].status # "absent" => r <= lastRun'[v]
             /\ lastRun'[v] # 0 /\ scrapeRuns'[lastRun'[v]].status # "absent" => scrapeRuns'[lastRun'[v]].vendor = v
             /\ lastRun'[v] < nextRun'
  <2>1. nextRun \in RunIds
    BY <1>0, <1>1, StatusAssumption DEF Start, RunIds
  <2>2. /\ scrapeRuns'[nextRun].vendor = w
        /\ \A r \in RunIds : r # nextRun => scrapeRuns'[r] = scrapeRuns[r]
    BY <1>0, <1>1, <2>1 DEF Start
  <2>3. CASE v = w
    <3>1. lastRun'[v] = nextRun
      BY <1>0, <1>1, <2>3
    <3>2. \A r \in RunIds : scrapeRuns'[r].vendor = v /\ scrapeRuns'[r].status # "absent" => r <= nextRun
      BY <1>0, <2>2
    <3>3. nextRun' = nextRun + 1
      BY <1>1 DEF Start
    <3> QED
      BY <1>0, <2>2, <2>3, <3>1, <3>2, <3>3
  <2>4. CASE v # w
    <3>1. lastRun'[v] = lastRun[v]
      BY <1>0, <1>1, <2>4
    <3>2. \A r \in RunIds : scrapeRuns'[r].vendor = v /\ scrapeRuns'[r].status # "absent" => r <= lastRun[v]
      BY <1>0, <2>2, <2>4
    <3>3. lastRun[v] # nextRun
      BY <1>0
    <3>4. lastRun[v] # 0 => scrapeRuns'[lastRun[v]] = scrapeRuns[lastRun[v]]
      BY <1>0, <2>2, <3>3
    <3> QED
      BY <1>0, <3>1, <3>2, <3>4
  <2> QED
    BY <2>3, <2>4
<1>2. ASSUME UNCHANGED lastRun,
             \A r \in RunIds : scrapeRuns'[r].status # "absent" =>
               scrapeRuns[r].status # "absent" /\ scrapeRuns'[r].vendor = scrapeRuns[r].vendor
      PROVE  /\ \A r \in RunIds : scrapeRuns'[r].vendor = v /\ scrapeRuns'[r].status # "absent" => r <= lastRun'[v]
             /\ lastRun'[v] # 0 /\ scrapeRuns'[lastRun'[v]].status # "absent" => scrapeRuns'[lastRun'[v]].vendor = v
             /\ lastRun'[v] < nextRun'
  BY <1>0, <1>2
<1>3. ASSUME (\E r \in RunIds, n \in Counts, status \in {"success", "failed"} : End(r, status, n))
             \/ (\E cutoff : Reap(cutoff) \/ Prune(cutoff)) \/ Tick
      PROVE  \A r \in RunIds : scrapeRuns'[r].status # "absent" =>
               scrapeRuns[r].status # "absent" /\ scrapeRuns'[r].vendor = scrapeRuns[r].vendor
  <2>1. CASE \E r \in RunIds, n \in Counts, status \in {"success", "failed"} : End(r, status, n)
    BY <1>0, <2>1 DEF End, Ended
  <2>2. CASE \E cutoff : Reap(cutoff)
    BY <1>0, <2>2 DEF Reap, Ended
  <2>3. CASE \E cutoff : Prune(cutoff)
    BY <1>0, <2>3 DEF Prune, NoRun
  <2>4. CASE Tick
    BY <2>4 DEF Tick
  <2> QED
    BY <1>3, <2>1, <2>2, <2>3, <2>4
<1> QED
  BY <1>1, <1>2, <1>3 DEF HistoryStep

LEMMA StepHistoryInv == TypeOK /\ HistoryInv /\ [Next]_vars => HistoryInv'
<1> SUFFICES ASSUME TypeOK, HistoryInv, [Next]_vars PROVE HistoryInv'
  OBVIOUS
<1>1. CASE UNCHANGED <<history, lastRun>>
  BY <1>1 DEF history, HistoryInv, RowsSound, SuccessesInOrder, LastRunSound, RunIds
<1>2. CASE HistoryStep
  <2>0. /\ scrapeRuns' \in [RunIds -> Rows] /\ nextRun' \in Nat /\ nextRun' >= nextRun
        /\ now' \in Nat /\ now' >= now
        /\ \A r \in RunIds : RowMove(r)
    BY <1>2, HistoryMoves
  <2>1. /\ scrapeRuns \in [RunIds -> Rows] /\ nextRun \in Nat /\ now \in Nat
        /\ \A r \in RunIds : r \in Nat
    BY StatusAssumption DEF TypeOK, RunIds
  <2>2. ASSUME NEW r \in RunIds
        PROVE  /\ scrapeRuns'[r].status # "absent" => r < nextRun'
               /\ scrapeRuns'[r].finishedAt <= now'
               /\ scrapeRuns'[r].status = "success" => scrapeRuns'[r].finishedAt > 0 /\ scrapeRuns'[r].products > 0
    <3>1. /\ scrapeRuns[r].status # "absent" => r < nextRun
          /\ scrapeRuns[r].finishedAt <= now
          /\ scrapeRuns[r].status = "success" => scrapeRuns[r].finishedAt > 0 /\ scrapeRuns[r].products > 0
      BY DEF HistoryInv, RowsSound
    <3>2. scrapeRuns[r].finishedAt \in Nat /\ scrapeRuns[r].products \in Nat /\ r \in Nat
      BY <2>1 DEF Rows
    <3>3. NoRun.status = "absent" /\ NoRun.finishedAt = 0
      BY DEF NoRun
    <3> QED
      BY <2>0, <2>1, <3>1, <3>2, <3>3 DEF RowMove
  <2>3. ASSUME NEW q \in RunIds, NEW r \in RunIds, q < r, scrapeRuns'[q].vendor = scrapeRuns'[r].vendor,
               scrapeRuns'[q].status = "success", scrapeRuns'[r].status = "success"
        PROVE  scrapeRuns'[q].finishedAt <= scrapeRuns'[r].finishedAt
    <3>1. NoRun.status = "absent"
      BY DEF NoRun
    <3>2. \A x \in RunIds : x \in Nat /\ scrapeRuns[x].finishedAt \in Nat /\ scrapeRuns[x].finishedAt <= now
      BY <2>1 DEF HistoryInv, RowsSound, Rows
    <3>3. CASE scrapeRuns'[r] = scrapeRuns[r] /\ scrapeRuns'[q] = scrapeRuns[q]
      BY <2>3, <3>3 DEF HistoryInv, SuccessesInOrder
    <3>4. CASE scrapeRuns'[r] # scrapeRuns[r]
      <4>1. scrapeRuns'[r].finishedAt = now + 1 /\ scrapeRuns'[q] = scrapeRuns[q]
        BY <2>0, <2>3, <3>1, <3>2, <3>4 DEF RowMove
      <4> QED
        BY <4>1, <3>2, <2>1
    <3>5. CASE scrapeRuns'[r] = scrapeRuns[r] /\ scrapeRuns'[q] # scrapeRuns[q]
      <4>1. scrapeRuns'[q].vendor = scrapeRuns[q].vendor /\ \A x \in RunIds : scrapeRuns[x].vendor = scrapeRuns[q].vendor => x <= q
        BY <2>0, <2>3, <3>1, <3>5 DEF RowMove
      <4>2. r <= q
        BY <2>3, <3>5, <4>1
      <4> QED
        BY <2>3, <3>2, <4>2
    <3> QED
      BY <3>3, <3>4, <3>5
  <2>4. LastRunSound'
    BY <1>2, StepLastRun DEF HistoryInv
  <2> QED
    BY <2>2, <2>3, <2>4 DEF HistoryInv, RowsSound, SuccessesInOrder, RunIds
<1> QED
  BY <1>1, <1>2 DEF Next, vars, Request, QuerySuccesses, QueryLatest, Reply, Consume

-----------------------------------------------------------------------------

\* A request's own steps leave the table and what holds of it alone.
LEMMA SameTable ==
  ASSUME UNCHANGED history, NEW v
  PROVE  /\ lastRun' = lastRun => TrueStatus(v)' = TrueStatus(v)
         /\ LatestRow(v, AnyStatus)' = LatestRow(v, AnyStatus)
<1>1. scrapeRuns' = scrapeRuns /\ now' = now
  BY DEF history
<1>2. RunsOf(v, AnyStatus)' = RunsOf(v, AnyStatus)
  BY <1>1 DEF RunsOf, AnyStatus, RunIds
<1>3. LatestRow(v, AnyStatus)' = LatestRow(v, AnyStatus)
  BY <1>1, <1>2 DEF LatestRow, NoRun
<1>4. lastRun' = lastRun => TrueStatus(v)' = TrueStatus(v)
  BY <1>1 DEF TrueStatus
<1> QED
  BY <1>3, <1>4

LEMMA StepTruthCurrent == TypeOK /\ TruthCurrent /\ [Next]_vars => TruthCurrent'
<1> SUFFICES ASSUME TypeOK, TruthCurrent, [Next]_vars, NEW p \in Polls, NEW v \in Vendors, ppc'[p] \in AtWork
             PROVE  TrueStatus(v)' \in truth'[p][v]
  BY DEF TruthCurrent, AtWork
<1>0. ppc \in [Polls -> AtWork \cup {"idle", "done"}] /\ truth \in [Polls -> [Vendors -> SUBSET Statuses]]
  BY DEF TypeOK
<1>1. CASE HistoryStep
  BY <1>1, <1>0 DEF HistoryStep, AtWork
<1>2. ASSUME NEW q \in Polls, Request(q) PROVE TrueStatus(v)' \in truth'[p][v]
  <2>1. TrueStatus(v)' = TrueStatus(v)
    BY <1>2, SameTable DEF Request
  <2>2. CASE p = q
    BY <1>2, <1>0, <2>1, <2>2 DEF Request
  <2>3. CASE p # q
    BY <1>2, <1>0, <2>1, <2>3 DEF Request, TruthCurrent
  <2> QED
    BY <2>2, <2>3
<1>3. ASSUME NEW q \in Polls, QuerySuccesses(q) \/ QueryLatest(q) \/ Reply(q) PROVE TrueStatus(v)' \in truth'[p][v]
  <2>1. TrueStatus(v)' = TrueStatus(v)
    BY <1>3, SameTable DEF QuerySuccesses, QueryLatest, Reply
  <2>2. ppc[p] \in AtWork /\ truth' = truth
    BY <1>3, <1>0 DEF QuerySuccesses, QueryLatest, Reply, AtWork
  <2> QED
    BY <2>1, <2>2 DEF TruthCurrent
<1>4. ASSUME NEW q \in Polls, Consume(q) PROVE TrueStatus(v)' \in truth'[p][v]
  <2>1. TrueStatus(v)' = TrueStatus(v)
    BY <1>4, SameTable DEF Consume
  <2>2. p # q /\ ppc[p] \in AtWork /\ truth'[p] = truth[p]
    BY <1>4, <1>0 DEF Consume, AtWork
  <2> QED
    BY <2>1, <2>2 DEF TruthCurrent
<1>5. CASE UNCHANGED vars
  BY <1>5, SameTable DEF vars, TruthCurrent
<1> QED
  BY <1>1, <1>2, <1>3, <1>4, <1>5 DEF Next

\* While a vendor stays ready its newest row is not overtaken: a step leaves it,
\* or prunes it and shows a success that finished earlier.
LEMMA ReadyKept ==
  ASSUME TypeOK, HistoryInv, HistoryStep, NEW v, RowsStatus(v) = "ready", RowsStatus(v)' = "ready"
  PROVE  LatestRow(v, AnyStatus)'.finishedAt <= LatestRow(v, AnyStatus).finishedAt
<1> DEFINE N == Newest(v)
           M == Newest(v)'
<1>1. RunsOf(v, AnyStatus) # {} /\ RunsOf(v, AnyStatus)' # {}
  BY NewestNow, NewestNext DEF NewestFacts
<1>2. /\ N \in RunIds /\ scrapeRuns[N].vendor = v /\ scrapeRuns[N].status = "success"
      /\ \A q \in RunIds : scrapeRuns[q].vendor = v /\ scrapeRuns[q].status \in AnyStatus => q <= N
      /\ LatestRow(v, AnyStatus) = scrapeRuns[N]
  BY <1>1, NewestNow DEF NewestFacts, RunsOf, RowStatus, AnyStatus
<1>3. /\ M \in RunIds /\ scrapeRuns'[M].vendor = v /\ scrapeRuns'[M].status = "success"
      /\ LatestRow(v, AnyStatus)' = scrapeRuns'[M]
  <2>1. NewestFacts(v)'
    BY NewestNext
  <2>2. M \in RunsOf(v, AnyStatus)' /\ LatestRow(v, AnyStatus)' = scrapeRuns'[M] /\ "ready" = RowStatus(scrapeRuns[Newest(v)])'
    BY <1>1, <2>1 DEF NewestFacts
  <2>3. M \in RunIds /\ scrapeRuns'[M].vendor = v /\ scrapeRuns'[M].status \in AnyStatus
    BY <2>2 DEF RunsOf, RunIds, AnyStatus
  <2>4. scrapeRuns'[M].status # "running" /\ scrapeRuns'[M].status # "failed"
    BY <2>2 DEF RowStatus
  <2> QED
    BY <2>2, <2>3, <2>4 DEF AnyStatus
<1> HIDE DEF N, M
<1>4. scrapeRuns'[M] = scrapeRuns[M]
  <2>1. RowMove(M)
    BY <1>3, HistoryMoves
  <2>2. NoRun.status = "absent"
    BY DEF NoRun
  <2>3. ASSUME scrapeRuns[M].status = "running", scrapeRuns'[M].vendor = scrapeRuns[M].vendor,
               \A q \in RunIds : scrapeRuns[q].vendor = scrapeRuns[M].vendor => q <= M
        PROVE  FALSE
    <3>1. N <= M /\ M <= N
      BY <1>2, <1>3, <2>3 DEF AnyStatus
    <3>2. N = M
      BY <3>1, <1>2, <1>3, StatusAssumption DEF RunIds
    <3> QED
      BY <3>2, <1>2, <2>3
  <2> QED
    BY <1>3, <2>1, <2>2, <2>3 DEF RowMove
<1>5. M <= N
  BY <1>2, <1>3, <1>4 DEF AnyStatus
<1>6. CASE M = N
  <2>1. scrapeRuns[N].finishedAt \in Nat
    BY <1>2 DEF TypeOK, Rows
  <2> QED
    BY <1>2, <1>3, <1>4, <1>6, <2>1
<1>7. CASE M # N
  <2>1. M < N
    BY <1>2, <1>3, <1>5, <1>7, StatusAssumption DEF RunIds
  <2> QED
    BY <1>2, <1>3, <1>4, <2>1 DEF HistoryInv, SuccessesInOrder
<1> QED
  BY <1>6, <1>7

\* What the reads found stays true of a request that lives through more.
LEMMA ReadsStay ==
  ASSUME TypeOK, HistoryInv, TruthCurrent, HistoryStep, NEW p \in Polls, NEW v \in Vendors, ppc[p] \in AtWork,
         LastRunSound', TypeOK', Remembered(truth'[p][v])
  PROVE  /\ SuccessRead(facts[p][v], truth[p][v], queryErr[p]) => SuccessRead(facts[p][v], truth'[p][v], queryErr[p])
         /\ LatestRead(facts[p][v], truth[p][v], queryErr[p], v) => LatestRead(facts[p][v], truth[p][v], queryErr[p], v)'
<1>1. truth'[p][v] = truth[p][v] \cup {TrueStatus(v)'}
  BY DEF HistoryStep, AtWork
<1>2. facts' = facts /\ queryErr' = queryErr
  BY DEF HistoryStep
<1>3. SuccessRead(facts[p][v], truth[p][v], queryErr[p]) => SuccessRead(facts[p][v], truth'[p][v], queryErr[p])
  BY <1>1 DEF SuccessRead
<1>4. ASSUME LatestRead(facts[p][v], truth[p][v], queryErr[p], v) PROVE LatestRead(facts[p][v], truth[p][v], queryErr[p], v)'
  <2>0. TrueStatus(v) \in truth[p][v]
    BY DEF TruthCurrent
  <2>1. facts[p][v].finishedAt \in Nat /\ now \in Nat /\ now' \in Nat /\ now' >= now /\ StaleAge \in Nat
    <3>1. facts[p][v] \in Facts /\ now \in Nat
      BY DEF TypeOK
    <3>2. facts[p][v].finishedAt \in Nat
      BY <3>1 DEF Facts
    <3>3. now' \in Nat /\ now' >= now
      BY HistoryMoves
    <3> QED
      BY <3>1, <3>2, <3>3, StatusAssumption
  <2>2. ASSUME facts[p][v].latestStatus = "success", truth'[p][v] = {"stale"} PROVE now' - facts[p][v].finishedAt > StaleAge
    <3>1. truth[p][v] = {"stale"}
      BY <1>1, <2>0, <2>2
    <3>2. now - facts[p][v].finishedAt > StaleAge
      BY <1>4, <2>2, <3>1 DEF LatestRead
    <3> QED
      BY <2>1, <3>2
  <2>3. ASSUME facts[p][v].latestStatus = "success", truth'[p][v] = {"ready"}
        PROVE  LatestRow(v, AnyStatus)'.finishedAt <= facts[p][v].finishedAt
    <3>0. RowsTell /\ RowsTell'
      BY RowsTellNow, RowsTellNext DEF HistoryInv
    <3>a. TrueStatus(v) = "ready" /\ TrueStatus(v)' = "ready" /\ truth[p][v] = {"ready"}
      BY <1>1, <2>0, <2>3
    <3>b. RowsStatus(v) = "ready"
      BY <3>0, <3>a DEF RowsTell
    <3>c. RowsStatus(v)' = "ready"
      BY <3>0, <3>a DEF RowsTell
    <3>1. truth[p][v] = {"ready"} /\ RowsStatus(v) = "ready" /\ RowsStatus(v)' = "ready"
      BY <3>a, <3>b, <3>c
    <3>2. LatestRow(v, AnyStatus).finishedAt <= facts[p][v].finishedAt
      BY <1>4, <2>3, <3>1 DEF LatestRead
    <3>3. LatestRow(v, AnyStatus)'.finishedAt <= LatestRow(v, AnyStatus).finishedAt
      BY <3>1, ReadyKept
    <3>4. LatestRow(v, AnyStatus).finishedAt \in Nat
      BY LatestRowType DEF Rows
    <3>5. LatestRow(v, AnyStatus)' \in Rows
      <4>1. NewestFacts(v)' /\ RunsOf(v, AnyStatus)' # {}
        BY <3>1, NewestNext DEF NewestFacts
      <4>2. Newest(v)' \in RunIds /\ LatestRow(v, AnyStatus)' = scrapeRuns'[Newest(v)']
        BY <4>1 DEF NewestFacts, RunsOf, RunIds
      <4> QED
        BY <4>2, HistoryMoves
    <3>6. LatestRow(v, AnyStatus)'.finishedAt \in Nat
      BY <3>5 DEF Rows
    <3> QED
      BY <2>1, <3>2, <3>3, <3>4, <3>6
  <2> QED
    BY <1>1, <1>2, <1>4, <2>2, <2>3 DEF LatestRead
<1> QED
  BY <1>3, <1>4

\* The answer put together from the two reads.
LEMMA ReplyRight ==
  ASSUME TypeOK, NEW v, NEW f \in Facts, NEW lived, NEW err \in BOOLEAN, RowsStatus(v) \in lived,
         SuccessRead(f, lived, err), LatestRead(f, lived, err, v)
  PROVE  /\ vendorStatus(f, now) \in {"failed", "scraping"} => vendorStatus(f, now) \in lived
         /\ \A s \in Statuses : ~err /\ lived = {s} => vendorStatus(f, now) = s
<1>1. vendorStatus(f, now) \in {"failed", "scraping"} => vendorStatus(f, now) \in lived
  <2>1. vendorStatus(f, now) = "failed" => f.latestStatus = "failed"
    BY DEF vendorStatus
  <2>2. vendorStatus(f, now) = "scraping" => f.latestStatus = "running"
    BY DEF vendorStatus
  <2> QED
    BY <2>1, <2>2 DEF LatestRead
<1>2. ASSUME NEW s \in Statuses, ~err, lived = {s} PROVE vendorStatus(f, now) = s
  <2>0. f.latestStatus \in {"", "running", "failed", "success"} /\ f.sawSuccess \in BOOLEAN
    BY DEF Facts, AnyStatus
  <2>1. CASE f.latestStatus = ""
    <3>1. s = "never" /\ ~f.sawSuccess
      BY <1>2, <2>1 DEF LatestRead, SuccessRead
    <3> QED
      BY <3>1, <2>1 DEF vendorStatus
  <2>2. CASE f.latestStatus = "running"
    BY <1>2, <2>2 DEF LatestRead, vendorStatus
  <2>3. CASE f.latestStatus = "failed"
    BY <1>2, <2>3 DEF LatestRead, vendorStatus
  <2>4. CASE f.latestStatus = "success"
    <3>1. s \in {"stale", "ready"} /\ f.finishedAt > 0
      BY <1>2, <2>4 DEF LatestRead
    <3>2. f.sawSuccess
      BY <1>2, <3>1 DEF SuccessRead
    <3>3. f.successProducts > 0 /\ f.successProducts \in Nat /\ f.finishedAt \in Nat
      BY <3>2 DEF SuccessRead, Facts
    <3>4. vendorStatus(f, now) = IF now - f.finishedAt > StaleAge THEN "stale" ELSE "ready"
      BY <2>4, <3>1, <3>2, <3>3 DEF vendorStatus
    <3>5. CASE s = "stale"
      BY <1>2, <2>4, <3>4, <3>5 DEF LatestRead
    <3>6. CASE s = "ready"
      <4>1. LatestRow(v, AnyStatus).finishedAt <= f.finishedAt /\ RowsStatus(v) = "ready"
        BY <1>2, <2>4, <3>6 DEF LatestRead
      <4>2. NewestFacts(v)
        BY NewestNow
      <4>3. ~(now - LatestRow(v, AnyStatus).finishedAt > StaleAge)
        BY <4>1, <4>2 DEF NewestFacts, RowStatus
      <4>4. LatestRow(v, AnyStatus).finishedAt \in Nat /\ now \in Nat /\ StaleAge \in Nat
        BY LatestRowType, StatusAssumption DEF Rows, TypeOK
      <4>5. ~(now - f.finishedAt > StaleAge)
        BY <3>3, <4>1, <4>3, <4>4
      <4> QED
        BY <3>4, <3>6, <4>5
    <3> QED
      BY <3>1, <3>5, <3>6
  <2> QED
    BY <2>0, <2>1, <2>2, <2>3, <2>4
<1> QED
  BY <1>1, <1>2

\* The first query: a success it finds has products, and a table without one
\* is not that of a vendor whose newest run succeeded.
LEMMA SuccessesRight ==
  ASSUME TypeOK, HistoryInv, NEW v, NEW lived, RowsStatus(v) \in lived
  PROVE  SuccessRead(WithSuccess(NoFacts, LatestRow(v, {"success"})), lived, FALSE)
<1> DEFINE row == LatestRow(v, {"success"})
<1>0. NewestFacts(v)
  BY NewestNow
<1>1. CASE row = NoRun
  <2>1. RunsOf(v, {"success"}) = {}
    BY <1>1, LatestRowType DEF AnyStatus
  <2>2. RowsStatus(v) \in {"never", "scraping", "failed"}
    <3>1. CASE RunsOf(v, AnyStatus) = {}
      BY <1>0, <3>1 DEF NewestFacts
    <3>2. CASE RunsOf(v, AnyStatus) # {}
      <4>1. Newest(v) \in RunsOf(v, AnyStatus) /\ RowsStatus(v) = RowStatus(scrapeRuns[Newest(v)])
        BY <1>0, <3>2 DEF NewestFacts
      <4>2. scrapeRuns[Newest(v)].status \in {"running", "failed"}
        BY <2>1, <4>1 DEF RunsOf, AnyStatus
      <4> QED
        BY <4>1, <4>2 DEF RowStatus
    <3> QED
      BY <3>1, <3>2
  <2>3. WithSuccess(NoFacts, row) = NoFacts /\ ~NoFacts.sawSuccess
    BY <1>1 DEF WithSuccess, NoFacts
  <2> QED
    BY <2>2, <2>3 DEF SuccessRead
<1>2. CASE row # NoRun
  <2>1. PICK r \in RunsOf(v, {"success"}) : row = scrapeRuns[r]
    BY <1>2, LatestRowType DEF AnyStatus
  <2>2. r \in RunsOf(v, AnyStatus) /\ row.products > 0
    BY <2>1 DEF RunsOf, AnyStatus, HistoryInv, RowsSound
  <2>3. RowsStatus(v) # "never"
    BY <1>0, <2>2 DEF NewestFacts, RowStatus
  <2>4. WithSuccess(NoFacts, row).sawSuccess /\ WithSuccess(NoFacts, row).successProducts = row.products
    BY <1>2 DEF WithSuccess
  <2> QED
    BY <2>2, <2>3, <2>4 DEF SuccessRead
<1> QED
  BY <1>1, <1>2

\* The newest row of a vendor that has one, and the status of now it stands for.
LEMMA NewestMeans ==
  ASSUME TypeOK, HistoryInv, NEW v, RunsOf(v, AnyStatus) # {}, NEW last, last = LatestRow(v, AnyStatus)
  PROVE  /\ last # NoRun /\ last.status \in AnyStatus /\ last.finishedAt \in Nat
         /\ last.status = "running" => RowsStatus(v) = "scraping"
         /\ last.status = "failed" => RowsStatus(v) = "failed"
         /\ last.status = "success" =>
              /\ last.finishedAt > 0
              /\ RowsStatus(v) = IF now - last.finishedAt > StaleAge THEN "stale" ELSE "ready"
<1>1. Newest(v) \in RunsOf(v, AnyStatus) /\ last = scrapeRuns[Newest(v)] /\ RowsStatus(v) = RowStatus(last)
  BY NewestRow
<1>2. Newest(v) \in RunIds /\ last.status \in AnyStatus
  BY <1>1 DEF RunsOf
<1>3. last \in Rows
  BY <1>1, <1>2 DEF TypeOK
<1>4. last.products \in Nat /\ last.finishedAt \in Nat
  BY <1>3 DEF Rows
<1>5. last # NoRun
  BY <1>2 DEF NoRun, AnyStatus
<1>6. last.status = "success" => last.finishedAt > 0 /\ last.products > 0
  BY <1>1, <1>2 DEF HistoryInv, RowsSound
<1>7. last.status = "running" => RowsStatus(v) = "scraping"
  BY <1>1 DEF RowStatus
<1>8. last.status = "failed" => RowsStatus(v) = "failed"
  BY <1>1 DEF RowStatus
<1>9. ASSUME last.status = "success"
      PROVE  RowsStatus(v) = IF now - last.finishedAt > StaleAge THEN "stale" ELSE "ready"
  BY <1>1, <1>4, <1>6, <1>9 DEF RowStatus
<1> QED
  BY <1>2, <1>4, <1>5, <1>6, <1>7, <1>8, <1>9

\* The second query: the newest row is the one the status of now is about.
LEMMA LatestRight ==
  ASSUME TypeOK, HistoryInv, NEW v, NEW f \in Facts, Unread(f), NEW lived, RowsStatus(v) \in lived
  PROVE  LatestRead(WithLatest(f, LatestRow(v, AnyStatus)), lived, FALSE, v)
<1>1. CASE RunsOf(v, AnyStatus) = {}
  BY <1>1, NoRows DEF WithLatest, LatestRead, Unread
<1>2. CASE RunsOf(v, AnyStatus) # {}
  <2> DEFINE last == LatestRow(v, AnyStatus)
             g == WithLatest(f, last)
  <2>1. /\ last # NoRun /\ last.status \in AnyStatus /\ last.finishedAt \in Nat
        /\ last.status = "running" => RowsStatus(v) = "scraping"
        /\ last.status = "failed" => RowsStatus(v) = "failed"
        /\ last.status = "success" =>
             /\ last.finishedAt > 0
             /\ RowsStatus(v) = IF now - last.finishedAt > StaleAge THEN "stale" ELSE "ready"
    BY <1>2, NewestMeans
  <2>2. g.latestStatus = last.status /\ g.finishedAt = last.finishedAt
    BY <2>1 DEF WithLatest
  <2>3. last.finishedAt = LatestRow(v, AnyStatus).finishedAt
    OBVIOUS
  <2> HIDE DEF last, g
  <2>4. g.latestStatus # ""
    BY <2>1, <2>2 DEF AnyStatus
  <2>5. g.latestStatus = "running" => "scraping" \in lived
    BY <2>1, <2>2
  <2>6. g.latestStatus = "failed" => "failed" \in lived
    BY <2>1, <2>2
  <2>7. ASSUME g.latestStatus = "success"
        PROVE  /\ g.finishedAt > 0
               /\ \E s \in lived : s \in {"stale", "ready"}
               /\ lived = {"stale"} => now - g.finishedAt > StaleAge
               /\ LatestRow(v, AnyStatus).finishedAt <= g.finishedAt
    <3>1. last.finishedAt > 0 /\ RowsStatus(v) = IF now - last.finishedAt > StaleAge THEN "stale" ELSE "ready"
      BY <2>1, <2>2, <2>7
    <3>2. RowsStatus(v) \in {"stale", "ready"} /\ (RowsStatus(v) = "stale" => now - last.finishedAt > StaleAge)
      BY <3>1
    <3>3. last.finishedAt <= last.finishedAt
      BY <2>1
    <3>4. \E s \in lived : s \in {"stale", "ready"}
      BY <3>2
    <3>5. lived = {"stale"} => now - g.finishedAt > StaleAge
      BY <2>2, <3>2
    <3>6. LatestRow(v, AnyStatus).finishedAt <= g.finishedAt
      BY <2>2, <2>3, <3>3
    <3> QED
      BY <2>2, <3>1, <3>4, <3>5, <3>6
  <2>8. LatestRead(g, lived, FALSE, v)
    BY <2>4, <2>5, <2>6, <2>7 DEF LatestRead
  <2> QED
    BY <2>8 DEF g, last
<1> QED
  BY <1>1, <1>2

-----------------------------------------------------------------------------

\* A step of one request is nothing to another.
LEMMA OthersStay ==
  ASSUME TypeOK, NEW p \in Polls, NEW v \in Vendors, RequestInv(p, v), UNCHANGED history,
         ppc'[p] = ppc[p], facts'[p] = facts[p], queryErr'[p] = queryErr[p],
         reported'[p] = reported[p], truth'[p] = truth[p]
  PROVE  RequestInv(p, v)'
<1>1. now' = now /\ LatestRow(v, AnyStatus)' = LatestRow(v, AnyStatus)
  BY SameTable DEF history
<1>2. LatestRead(facts[p][v], truth[p][v], queryErr[p], v)' <=> LatestRead(facts[p][v], truth[p][v], queryErr[p], v)
  BY <1>1 DEF LatestRead
<1>3. SuccessRead(facts[p][v], truth[p][v], queryErr[p])' <=> SuccessRead(facts[p][v], truth[p][v], queryErr[p])
  BY DEF SuccessRead
<1>4. Unread(facts[p][v])' <=> Unread(facts[p][v])
  BY DEF Unread
<1>5. NoFacts' = NoFacts /\ Statuses' = Statuses /\ (Remembered(truth[p][v])' <=> Remembered(truth[p][v]))
  BY DEF NoFacts, Statuses, Remembered
<1> QED
  BY <1>2, <1>3, <1>4, <1>5 DEF RequestInv

LEMMA StepRequestsSound == Inv /\ [Next]_vars => RequestsSound'
<1> SUFFICES ASSUME Inv, [Next]_vars, NEW p \in Polls, NEW v \in Vendors PROVE RequestInv(p, v)'
  BY DEF RequestsSound
<1>0. /\ TypeOK /\ HistoryInv /\ TruthCurrent /\ RequestInv(p, v)
      /\ ppc \in [Polls -> AtWork \cup {"idle", "done"}]
      /\ facts \in [Polls -> [Vendors -> Facts]] /\ facts[p][v] \in Facts
      /\ queryErr \in [Polls -> BOOLEAN] /\ queryErr[p] \in BOOLEAN
      /\ reported \in [Polls -> [Vendors -> Statuses \cup {"none"}]]
      /\ truth \in [Polls -> [Vendors -> SUBSET Statuses]]
  BY DEF Inv, RequestsSound, TypeOK
<1>a. ppc[p] \in AtWork => TrueStatus(v) \in truth[p][v]
  BY <1>0 DEF TruthCurrent
<1>b. ppc[p] \in AtWork /\ Remembered(truth[p][v]) => RowsStatus(v) \in truth[p][v]
  <2>1. TrueStatus(v) \in {"forgotten", RowsStatus(v)}
    BY <1>0, RowsTellNow DEF RowsTell, HistoryInv
  <2> QED
    BY <1>a, <2>1 DEF Remembered
<1>c. LastRunSound' /\ TypeOK'
  BY <1>0, StepHistoryInv, StepTypeOK DEF HistoryInv
<1>1. CASE HistoryStep
  <2>1. ppc' = ppc /\ facts' = facts /\ queryErr' = queryErr /\ reported' = reported
    BY <1>1 DEF HistoryStep
  <2>2. ppc[p] \notin AtWork => truth'[p][v] = truth[p][v]
    BY <1>1 DEF HistoryStep, AtWork
  <2>3. CASE ppc[p] = "query1"
    BY <1>0, <2>1, <2>3 DEF RequestInv, NoFacts
  <2>r. ppc[p] \in AtWork /\ Remembered(truth'[p][v]) => Remembered(truth[p][v])
    BY <1>0, <1>1 DEF HistoryStep, AtWork, Remembered
  <2>s. Remembered(truth[p][v])' <=> Remembered(truth'[p][v])
    BY DEF Remembered
  <2>4. CASE ppc[p] = "query2"
    <3>1. Unread(facts[p][v])'
      BY <1>0, <2>1, <2>4 DEF RequestInv, Unread
    <3>2. ASSUME Remembered(truth'[p][v]) PROVE SuccessRead(facts[p][v], truth[p][v], queryErr[p])'
      <4>1. SuccessRead(facts[p][v], truth'[p][v], queryErr[p])
        BY <1>0, <1>1, <1>c, <2>4, <2>r, <3>2, ReadsStay DEF RequestInv, AtWork
      <4> QED
        BY <2>1, <4>1 DEF SuccessRead
    <3> QED
      BY <2>1, <2>4, <2>s, <3>1, <3>2 DEF RequestInv
  <2>5. CASE ppc[p] = "reply"
    <3>1. ASSUME Remembered(truth'[p][v])
          PROVE  /\ SuccessRead(facts[p][v], truth[p][v], queryErr[p])'
                 /\ LatestRead(facts[p][v], truth[p][v], queryErr[p], v)'
      <4>1. SuccessRead(facts[p][v], truth'[p][v], queryErr[p]) /\ LatestRead(facts[p][v], truth[p][v], queryErr[p], v)'
        BY <1>0, <1>1, <1>c, <2>5, <2>r, <3>1, ReadsStay DEF RequestInv, AtWork
      <4> QED
        BY <2>1, <4>1 DEF SuccessRead
    <3> QED
      BY <2>1, <2>5, <2>s, <3>1 DEF RequestInv
  <2>6. CASE ppc[p] \in {"idle", "done"}
    BY <1>0, <2>1, <2>2, <2>6 DEF RequestInv, NoFacts, AtWork, Statuses, Remembered
  <2> QED
    BY <1>0, <2>3, <2>4, <2>5, <2>6 DEF AtWork
<1>2. ASSUME NEW q \in Polls, q # p,
             Request(q) \/ QuerySuccesses(q) \/ QueryLatest(q) \/ Reply(q) \/ Consume(q)
      PROVE  RequestInv(p, v)'
  <2>1. /\ UNCHANGED history
        /\ ppc'[p] = ppc[p] /\ facts'[p] = facts[p] /\ queryErr'[p] = queryErr[p]
        /\ reported'[p] = reported[p] /\ truth'[p] = truth[p]
    BY <1>0, <1>2 DEF Request, QuerySuccesses, QueryLatest, Query, Reply, Consume
  <2> QED
    BY <1>0, <2>1, OthersStay
<1>3. CASE Request(p)
  <2>1. ppc'[p] = "query1" /\ facts' = facts /\ queryErr' = queryErr /\ ppc[p] = "idle"
    BY <1>0, <1>3 DEF Request
  <2> QED
    BY <1>0, <2>1 DEF RequestInv, NoFacts
<1>4. CASE QuerySuccesses(p)
  <2>1. ppc[p] = "query1" /\ ppc'[p] = "query2" /\ truth' = truth /\ facts[p][v] = NoFacts /\ ~queryErr[p]
    BY <1>0, <1>4 DEF QuerySuccesses, RequestInv
  <2>2. Remembered(truth[p][v]) => RowsStatus(v) \in truth[p][v]
    BY <1>b, <2>1 DEF AtWork
  <2>3. CASE facts'[p][v] = WithSuccess(NoFacts, LatestRow(v, {"success"})) /\ queryErr'[p] = FALSE
    <3>1. Remembered(truth[p][v]) => SuccessRead(facts'[p][v], truth'[p][v], queryErr'[p])
      BY <1>0, <2>1, <2>2, <2>3, SuccessesRight
    <3>2. Unread(facts'[p][v])
      <4>1. facts'[p][v].latestStatus = NoFacts.latestStatus
        BY <2>3 DEF WithSuccess
      <4> QED
        BY <4>1 DEF Unread, NoFacts
    <3> QED
      BY <2>1, <3>1, <3>2 DEF RequestInv, SuccessRead, Unread, Remembered
  <2>4. CASE facts'[p][v] = NoFacts /\ queryErr'[p] = TRUE
    <3>1. ~NoFacts.sawSuccess /\ Unread(NoFacts)
      BY DEF NoFacts, Unread
    <3>2. SuccessRead(facts'[p][v], truth'[p][v], queryErr'[p]) /\ Unread(facts'[p][v])
      BY <2>4, <3>1 DEF SuccessRead
    <3> QED
      BY <2>1, <3>2 DEF RequestInv, SuccessRead, Unread, Remembered
  <2>5. \/ facts'[p][v] = WithSuccess(NoFacts, LatestRow(v, {"success"})) /\ queryErr'[p] = FALSE
        \/ facts'[p][v] = NoFacts /\ queryErr'[p] = TRUE
    BY <1>0, <1>4, <2>1 DEF QuerySuccesses, Query
  <2> QED
    BY <2>3, <2>4, <2>5
<1>5. CASE QueryLatest(p)
  <2>1. /\ ppc[p] = "query2" /\ ppc'[p] = "reply" /\ truth' = truth /\ UNCHANGED history
        /\ Unread(facts[p][v])
        /\ Remembered(truth[p][v]) => SuccessRead(facts[p][v], truth[p][v], queryErr[p])
    BY <1>0, <1>5 DEF QueryLatest, RequestInv
  <2>2. Remembered(truth[p][v]) => RowsStatus(v) \in truth[p][v]
    BY <1>b, <2>1 DEF AtWork
  <2>r. Remembered(truth[p][v])' <=> Remembered(truth[p][v])
    BY <2>1 DEF Remembered
  <2>3. now' = now /\ LatestRow(v, AnyStatus)' = LatestRow(v, AnyStatus)
    BY <2>1, SameTable DEF history
  <2> DEFINE g == WithLatest(facts[p][v], LatestRow(v, AnyStatus))
  <2>4. ASSUME facts'[p][v] = g, queryErr'[p] = queryErr[p] PROVE RequestInv(p, v)'
    <3>1. Remembered(truth[p][v]) => LatestRead(g, truth[p][v], FALSE, v)
      BY <1>0, <2>1, <2>2, LatestRight
    <3>2. Remembered(truth[p][v]) => LatestRead(g, truth[p][v], queryErr[p], v)
      BY <3>1 DEF LatestRead
    <3>3. g.sawSuccess = facts[p][v].sawSuccess /\ g.successProducts = facts[p][v].successProducts
      BY DEF WithLatest
    <3> HIDE DEF g
    <3>4. Remembered(truth[p][v]) => SuccessRead(g, truth[p][v], queryErr[p])
      BY <2>1, <3>3 DEF SuccessRead
    <3>5. Remembered(truth[p][v]) => LatestRead(facts[p][v], truth[p][v], queryErr[p], v)'
      BY <2>1, <2>3, <2>4, <3>2 DEF LatestRead
    <3>6. Remembered(truth[p][v]) => SuccessRead(facts[p][v], truth[p][v], queryErr[p])'
      BY <2>1, <2>4, <3>4 DEF SuccessRead
    <3> QED
      BY <2>1, <2>r, <3>5, <3>6 DEF RequestInv
  <2>5. ASSUME facts'[p][v] = facts[p][v], queryErr'[p] = TRUE PROVE RequestInv(p, v)'
    <3>1. LatestRead(facts[p][v], truth[p][v], queryErr[p], v)'
      BY <2>1, <2>5 DEF LatestRead, Unread
    <3>2. Remembered(truth[p][v]) => SuccessRead(facts[p][v], truth[p][v], queryErr[p])'
      BY <2>1, <2>5 DEF SuccessRead
    <3> QED
      BY <2>1, <2>r, <3>1, <3>2 DEF RequestInv
  <2>6. \/ facts'[p][v] = g /\ queryErr'[p] = queryErr[p]
        \/ facts'[p][v] = facts[p][v] /\ queryErr'[p] = TRUE
    BY <1>0, <1>5 DEF QueryLatest, Query
  <2> QED
    BY <2>4, <2>5, <2>6
<1>6. CASE Reply(p)
  <2>1. /\ ppc[p] = "reply" /\ ppc'[p] = "done" /\ truth' = truth /\ queryErr' = queryErr
        /\ reported'[p][v] = vendorStatus(facts[p][v], now)
    BY <1>0, <1>6 DEF Reply
  <2>2. Remembered(truth[p][v]) => RowsStatus(v) \in truth[p][v]
    BY <1>b, <2>1 DEF AtWork
  <2>3. Remembered(truth[p][v]) =>
          SuccessRead(facts[p][v], truth[p][v], queryErr[p]) /\ LatestRead(facts[p][v], truth[p][v], queryErr[p], v)
    BY <1>0, <2>1 DEF RequestInv
  <2>4. Remembered(truth[p][v]) =>
        /\ vendorStatus(facts[p][v], now) \in {"failed", "scraping"} => vendorStatus(facts[p][v], now) \in truth[p][v]
        /\ \A s \in Statuses : ~queryErr[p] /\ truth[p][v] = {s} => vendorStatus(facts[p][v], now) = s
    BY <1>0, <2>2, <2>3, ReplyRight
  <2> QED
    BY <2>1, <2>4 DEF RequestInv, Statuses, Remembered
<1>7. CASE Consume(p)
  <2>1. ppc'[p] = "idle" /\ facts'[p][v] = NoFacts /\ queryErr'[p] = FALSE
    BY <1>0, <1>7 DEF Consume
  <2> QED
    BY <2>1 DEF RequestInv, NoFacts
<1>8. CASE UNCHANGED vars
  BY <1>0, <1>8, OthersStay DEF vars
<1> QED
  BY <1>1, <1>2, <1>3, <1>4, <1>5, <1>6, <1>7, <1>8 DEF Next

LEMMA Invariant == Spec => []Inv
<1>1. Inv /\ [Next]_vars => Inv'
  BY StepTypeOK, StepHistoryInv, StepTruthCurrent, StepRequestsSound DEF Inv
<1> QED
  BY InitInv, <1>1, PTL DEF Spec

\* Whatever the scrapes do between the two queries, and whichever query fails,
\* handleStatus reports 'failed' or 'scraping' only of a vendor that was so at
\* some moment of the request, unless retention took the row of its newest run.
THEOREM AlarmsTrue == Spec => []AlarmWasTrue
<1>1. Inv => AlarmWasTrue
  BY DEF Inv, RequestsSound, RequestInv, Remembered, AlarmWasTrue
<1> QED
  BY Invariant, <1>1, PTL

\* A vendor whose status held throughout the request is reported with that
\* status when the queries worked: the two reads of handleStatus, without a
\* transaction, disagree only when something really changed, and neither the
\* clock nor retention of older rows turns a ready vendor stale or back.
THEOREM SteadyReported == Spec => []SteadyIsReported
<1>1. ASSUME Inv PROVE SteadyIsReported
  <2> SUFFICES ASSUME NEW p \in Polls, NEW v \in Vendors,
                      ppc[p] = "done", ~queryErr[p], Cardinality(truth[p][v]) = 1,
                      "forgotten" \notin truth[p][v]
               PROVE  reported[p][v] \in truth[p][v]
    BY DEF SteadyIsReported
  <2>1. truth[p][v] \in SUBSET Statuses
    BY <1>1 DEF Inv, TypeOK
  <2>a. Remembered(truth[p][v])
    BY DEF Remembered
  <2>2. IsFiniteSet(Statuses)
    <3>1. IsFiniteSet({"never"})
      BY FS_Singleton
    <3>2. IsFiniteSet({"never"} \cup {"scraping"})
      BY <3>1, FS_AddElement
    <3>3. IsFiniteSet({"never"} \cup {"scraping"} \cup {"failed"})
      BY <3>2, FS_AddElement
    <3>4. IsFiniteSet({"never"} \cup {"scraping"} \cup {"failed"} \cup {"empty"})
      BY <3>3, FS_AddElement
    <3>5. IsFiniteSet({"never"} \cup {"scraping"} \cup {"failed"} \cup {"empty"} \cup {"stale"})
      BY <3>4, FS_AddElement
    <3>6. IsFiniteSet({"never"} \cup {"scraping"} \cup {"failed"} \cup {"empty"} \cup {"stale"} \cup {"ready"})
      BY <3>5, FS_AddElement
    <3>7. IsFiniteSet({"never"} \cup {"scraping"} \cup {"failed"} \cup {"empty"} \cup {"stale"} \cup {"ready"} \cup {"forgotten"})
      BY <3>6, FS_AddElement
    <3>8. Statuses = {"never"} \cup {"scraping"} \cup {"failed"} \cup {"empty"} \cup {"stale"} \cup {"ready"} \cup {"forgotten"}
      BY DEF Statuses
    <3> QED
      BY <3>7, <3>8
  <2>3. IsFiniteSet(truth[p][v])
    BY <2>1, <2>2, FS_Subset
  <2>4. PICK s : truth[p][v] = {s}
    BY <2>3, FS_Singleton
  <2>5. s \in Statuses
    BY <2>1, <2>4
  <2>6. reported[p][v] = s
    BY <1>1, <2>a, <2>4, <2>5 DEF Inv, RequestsSound, RequestInv
  <2> QED
    BY <2>4, <2>6
<1> QED
  BY Invariant, <1>1, PTL
=============================================================================
