-------------------------- MODULE ScrapeRun_proofs --------------------------
(* Theorems about ScrapeRun, for every value of its constants.             *)
EXTENDS ScrapeRun, FiniteSetTheorems, TLAPS

LEMMA InitTypeOK == Init => TypeOK
BY StructureAssumption, NumberAssumption
   DEF Init, TypeOK, RunIds, RunRow, NoRun, Steps, SvcStates

\* The groups of variables that UNCHANGED names.
LEMMA StutterTypeOK == TypeOK /\ UNCHANGED vars => TypeOK'
BY DEF TypeOK, vars, db, table, scraping, locals, control

LEMMA SpendType == ASSUME TypeOK, NEW e \in EnvEvents, Spend(e) PROVE budget' \in [EnvEvents -> Nat]
BY DEF Spend, TypeOK

\* However a statement ends, the budget stays a function into Nat.
LEMMA BudgetType ==
  ASSUME TypeOK, NEW x, UNCHANGED budget \/ Refused(x) \/ Faulted
  PROVE  budget' \in [EnvEvents -> Nat]
BY SpendType DEF Refused, Faulted, TypeOK, EnvEvents

LEMMA StrandedType ==
  ASSUME TypeOK, NEW e \in EnvEvents, NEW S, Stranded(e, S)
  PROVE  /\ budget' \in [EnvEvents -> Nat] /\ budget["stray"] > 0
         /\ budget'["stray"] < budget["stray"]
         /\ \A d \in EnvEvents : budget'[d] <= budget[d]
<1>1. budget \in [EnvEvents -> Nat] /\ "stray" \in EnvEvents BY DEF TypeOK, EnvEvents
<1>2. budget[e] > 0 /\ budget["stray"] > 0 /\ budget' = [budget EXCEPT ![e] = @ - 1, !["stray"] = @ - 1]
  BY DEF Stranded
<1>3. CASE e = "stray" BY <1>1, <1>2, <1>3
<1>4. CASE e # "stray" BY <1>1, <1>2, <1>4
<1> QED BY <1>3, <1>4

\* What a process has under way are statements of its run.
LEMMA StatementType ==
  ASSUME TypeOK, NEW p \in Procs, NEW kind \in {"upsert", "mark", "delete"}, NEW at \in Nat,
         NEW C, NEW content \in [Products -> Contents \cup {Absent}]
  PROVE  /\ StatementOf(p, kind, at, C, content) \in Statement
         /\ StatementOf(p, kind, at, C, content).run = runID[p]
         /\ StatementOf(p, kind, at, C, content).kind = kind
BY DEF StatementOf, Statement, TypeOK

LEMMA HandlerStatementsType ==
  ASSUME TypeOK, NEW p \in Procs, NEW u, NEW o \in HandlerStatements(p, u)
  PROVE  o \in Statement /\ o.run = runID[p] /\ o.kind # "delete" /\ Handling(p, u)
<1>1. now \in Nat /\ batch[p] \in [Products -> Contents \cup {Absent}] BY DEF TypeOK
<1>2. Handling(p, u) BY DEF HandlerStatements
<1>3. \/ o = StatementOf(p, "mark", now, Handed(p, u), batch[p])
      \/ \E C : o = StatementOf(p, "upsert", now, C, batch[p])
  BY DEF HandlerStatements
<1> QED BY <1>1, <1>2, <1>3, StatementType

LEMMA CleanupStatementType ==
  ASSUME TypeOK, NEW p \in Procs
  PROVE  CleanupStatement(p) \in Statement /\ CleanupStatement(p).run = runID[p]
BY StatementType DEF CleanupStatement, TypeOK

LEMMA UnderWayType ==
  ASSUME TypeOK, NEW p \in Procs, NEW o \in UnderWay(p)
  PROVE  o \in Statement /\ o.run = runID[p] /\ pc[p] \in {"scrape", "delete"}
<1>1. CASE \E u : o \in HandlerStatements(p, u) BY <1>1, HandlerStatementsType DEF Handling
<1>2. CASE pc[p] = "delete" /\ o = CleanupStatement(p) BY <1>2, CleanupStatementType
<1> QED BY <1>1, <1>2 DEF UnderWay

LEMMA DiscardType ==
  ASSUME TypeOK, NEW S \in SUBSET Procs, Discard(S)
  PROVE  /\ scrapeStart' \in [Procs -> Nat]
         /\ svc' \in [Procs -> [Services -> SvcStates]]
         /\ batch' \in [Procs -> [Products -> Contents \cup {Absent}]]
         /\ pending' \in [Procs -> SUBSET Products]
         /\ total' \in [Procs -> Nat]
         /\ failed' \in [Procs -> Nat]
         /\ scrapeErr' \in [Procs -> BOOLEAN]
         /\ prevCount' \in [Procs -> Nat]
BY DEF Discard, For, TypeOK, SvcStates

\* A finite set of rows has one with the greatest value of a Nat column. The
\* sets of rows above a row are finite, so one of them is minimal, and what is
\* above a row of that set is smaller still.
LEMMA GreatestExists ==
  ASSUME NEW S, IsFiniteSet(S), S # {}, NEW f \in [S -> Nat]
  PROVE  \E r \in S : \A q \in S : f[q] <= f[r]
<1> DEFINE Above(r) == {q \in S : f[q] > f[r]}
           T == {Above(r) : r \in S}
           R == StrictSubsetOrdering(S)
<1>1. IsWellFoundedOn(R, FiniteSubsetsOf(S))
  BY FS_StrictSubsetOrderingWellFounded
<1>2. T \subseteq FiniteSubsetsOf(S) /\ T # {}
  <2>1. ASSUME NEW r \in S PROVE Above(r) \in FiniteSubsetsOf(S)
    <3>1. Above(r) \in SUBSET S OBVIOUS
    <3> HIDE DEF Above
    <3>2. IsFiniteSet(Above(r)) BY <3>1, FS_Subset
    <3> QED BY <3>1, <3>2 DEF FiniteSubsetsOf
  <2> HIDE DEF Above
  <2> QED BY <2>1
<1> HIDE DEF T
<1>3. PICK x \in T : \A y \in T : <<y, x>> \notin R
  BY <1>1, <1>2, WFMin
<1>4. PICK r \in S : x = Above(r)
  BY <1>3 DEF T
<1>5. ASSUME NEW q \in S, f[q] > f[r] PROVE FALSE
  <2>1. Above(q) \in T BY DEF T
  <2>2. Above(q) \subseteq x /\ Above(q) # x
    <3>1. q \in x /\ q \notin Above(q) BY <1>4, <1>5
    <3>2. \A z \in Above(q) : z \in x BY <1>4, <1>5
    <3> QED BY <3>1, <3>2
  <2>3. x \in SUBSET S BY <1>4
  <2>4. <<Above(q), x>> \in R
    BY <2>2, <2>3 DEF StrictSubsetOrdering
  <2> QED BY <1>3, <2>1, <2>4
<1> QED BY <1>5

LEMMA LastSuccessCountType == ASSUME TypeOK, NEW v PROVE LastSuccessCount(v) \in Nat
<1> DEFINE S == SuccessRuns(v)
           f == [r \in S |-> scrapeRuns[r].finishedAt]
           last == CHOOSE r \in S : \A q \in S : scrapeRuns[q].finishedAt <= scrapeRuns[r].finishedAt
<1>1. scrapeRuns \in [RunIds -> RunRow] /\ S \subseteq RunIds
  BY DEF TypeOK, SuccessRuns
<1>2. IsFiniteSet(S)
  <2>1. MaxRuns \in Int BY NumberAssumption
  <2>2. IsFiniteSet(RunIds) BY <2>1, FS_Interval DEF RunIds
  <2> QED BY <1>1, <2>2, FS_Subset
<1>3. CASE S = {} BY <1>3 DEF LastSuccessCount
<1>4. CASE S # {}
  <2>1. f \in [S -> Nat] BY <1>1 DEF RunRow
  <2>2. \E r \in S : \A q \in S : f[q] <= f[r]
    <3> HIDE DEF S, f
    <3> QED BY <1>2, <1>4, <2>1, GreatestExists
  <2>3. \E r \in S : \A q \in S : scrapeRuns[q].finishedAt <= scrapeRuns[r].finishedAt
    BY <2>2
  <2>4. last \in S BY <2>3
  <2>5. LastSuccessCount(v) = scrapeRuns[last].products
    BY <1>4 DEF LastSuccessCount
  <2> QED BY <1>1, <2>4, <2>5 DEF RunRow
<1> QED BY <1>3, <1>4

LEMMA StepTypeOK == TypeOK /\ [Next]_vars => TypeOK'
<1> SUFFICES ASSUME TypeOK, Next PROVE TypeOK'
  BY StutterTypeOK
<1> USE StructureAssumption, NumberAssumption DEF EnvEvents
<1>1. ASSUME NEW p \in Procs, AcquireScrapeLock(p) PROVE TypeOK'
  <2>1. budget' \in [EnvEvents -> Nat]
    BY <1>1, BudgetType DEF AcquireScrapeLock
  <2>2. CASE UNCHANGED locals /\ Goto(p, "begin") /\ UNCHANGED <<res, ctxDone>>
    <3>1. pc' \in [Procs -> Steps]
      BY <2>2 DEF Goto, TypeOK, Steps
    <3>2. locks' \in [Vendors -> Procs \cup {NoProc}]
      BY <1>1 DEF AcquireScrapeLock, TypeOK
    <3> QED BY <1>1, <2>1, <2>2, <3>1, <3>2 DEF AcquireScrapeLock, TypeOK, table, locals, scraping
  <2>3. ASSUME NEW r \in {"ok", "err"}, Return(p, r), UNCHANGED locks PROVE TypeOK'
    <3>1. Discard({p}) BY <2>3 DEF Return
    <3>2. pc' \in [Procs -> Steps] /\ res' \in [Procs -> {"ok", "empty", "err", "killed"}]
      BY <2>3 DEF Return, Goto, TypeOK, Steps
    <3>3. ctxDone' \in [Procs -> BOOLEAN]
      BY <2>3 DEF Return, TypeOK
    <3> QED BY <1>1, <2>1, <2>3, <3>1, <3>2, <3>3, DiscardType DEF AcquireScrapeLock, Return, TypeOK, table
  <2> QED BY <1>1, <2>2, <2>3 DEF AcquireScrapeLock
<1>2. ASSUME NEW p \in Procs, SelectNow(p) PROVE TypeOK'
  <2>1. budget' \in [EnvEvents -> Nat]
    BY <1>2, BudgetType DEF SelectNow
  <2>2. /\ now' \in Nat /\ scrapeStart' \in [Procs -> Nat]
        /\ pc' \in [Procs -> Steps] /\ res' \in [Procs -> {"ok", "empty", "err", "killed"}]
    <3>1. /\ now \in Nat /\ scrapeStart \in [Procs -> Nat] /\ pc \in [Procs -> Steps]
          /\ res \in [Procs -> {"ok", "empty", "err", "killed"}]
      BY DEF TypeOK
    <3> QED BY <1>2, <3>1 DEF SelectNow, FailEarly, Goto, Steps
  <2> QED BY <1>2, <2>1, <2>2 DEF SelectNow, FailEarly, TypeOK, table, scraping
<1>3. ASSUME NEW p \in Procs, StartScrapeRun(p) PROVE TypeOK'
  <2>1. budget' \in [EnvEvents -> Nat]
    BY <1>3, BudgetType DEF StartScrapeRun
  <2>2. ASSUME InsertRun(p) PROVE scrapeRuns' \in [RunIds -> RunRow] /\ nextRun' \in 1 .. MaxRuns + 1
    <3>1. scrapeRuns \in [RunIds -> RunRow] /\ nextRun \in 1 .. MaxRuns + 1 /\ scrapeStart[p] \in Nat
      BY DEF TypeOK
    <3> DEFINE row == [vendor |-> VendorOf[p], status |-> "running",
                       startedAt |-> scrapeStart[p], finishedAt |-> 0, products |-> 0]
    <3>2. row \in RunRow
      BY <3>1 DEF RunRow
    <3>3. nextRun \in RunIds /\ nextRun + 1 \in 1 .. MaxRuns + 1
      BY <2>2, <3>1 DEF InsertRun, RunIds
    <3>4. scrapeRuns' = [scrapeRuns EXCEPT ![nextRun] = row] /\ nextRun' = nextRun + 1
      BY <2>2 DEF InsertRun
    <3> HIDE DEF row
    <3> QED BY <3>1, <3>2, <3>3, <3>4
  <2>3. scrapeRuns' \in [RunIds -> RunRow] /\ nextRun' \in 1 .. MaxRuns + 1
    BY <1>3, <2>2 DEF StartScrapeRun, TypeOK
  <2>4. runID' \in [Procs -> RunIds \cup {0}]
    <3>1. runID \in [Procs -> RunIds \cup {0}] /\ nextRun \in 1 .. MaxRuns + 1
      BY DEF TypeOK
    <3>2. CASE UNCHANGED runID BY <3>1, <3>2
    <3>3. CASE nextRun <= MaxRuns /\ runID' = [runID EXCEPT ![p] = nextRun]
      BY <3>1, <3>3 DEF RunIds
    <3> QED BY <1>3, <3>2, <3>3 DEF StartScrapeRun, InsertRun
  <2>5. pc' \in [Procs -> Steps] /\ res' \in [Procs -> {"ok", "empty", "err", "killed"}]
    BY <1>3 DEF StartScrapeRun, FailEarly, Goto, TypeOK, Steps
  <2> QED BY <1>3, <2>1, <2>3, <2>4, <2>5 DEF StartScrapeRun, FailEarly, TypeOK, table, scraping
<1>4. ASSUME NEW p \in Procs, NEW s \in Services, FetchService(p, s) PROVE TypeOK'
  BY <1>4 DEF FetchService, TypeOK, db, table, control, SvcStates
<1>5. ASSUME NEW p \in Procs, NEW s \in Services, FetchFails(p, s) PROVE TypeOK'
  BY <1>5 DEF FetchFails, GiveUp, TypeOK, db, table, control, SvcStates
<1>6. ASSUME NEW p \in Procs, NEW s \in Services, ServiceUndiscovered(p, s) PROVE TypeOK'
  BY <1>6, SpendType DEF ServiceUndiscovered, TypeOK, db, table, control, SvcStates
<1>7. ASSUME NEW p \in Procs, NEW u, UpsertBatch(p, u) PROVE TypeOK'
  BY <1>7 DEF UpsertBatch, Upsert, UpsertAt, ToUpsert, Handed, TypeOK, control
<1>8. ASSUME NEW p \in Procs, NEW u, MarkSeen(p, u) PROVE TypeOK'
  <2>1. Handed(p, u) \in SUBSET Products
    BY DEF Handed
  <2>2. BatchLen[Handed(p, u)] \in Nat
    BY <2>1
  <2>3. total' \in [Procs -> Nat]
    BY <1>8, <2>2 DEF MarkSeen, TypeOK
  <2>4. scrapeSeen' \in [RunIds -> SUBSET Products]
    BY <1>8, <2>1 DEF MarkSeen, TypeOK
  <2>5. svc' \in [Procs -> [Services -> SvcStates]]
    BY <1>8 DEF MarkSeen, TypeOK, SvcStates
  <2> QED BY <1>8, <2>3, <2>4, <2>5 DEF MarkSeen, TypeOK, control, table
<1>9. ASSUME NEW p \in Procs, NEW u, HandlerFails(p, u) PROVE TypeOK'
  <2>1. budget' \in [EnvEvents -> Nat] /\ stray' \in SUBSET Statement
    <3>1. stray \in SUBSET Statement BY DEF TypeOK
    <3>2. CASE (Refused(HandlerCancelled(p)) \/ Faulted) /\ UNCHANGED stray
      BY <3>1, <3>2, BudgetType
    <3>3. ASSUME NEW o \in HandlerStatements(p, u), Stranded("fault", {o})
          PROVE  budget' \in [EnvEvents -> Nat] /\ stray' \in SUBSET Statement
      BY <3>1, <3>3, StrandedType, HandlerStatementsType DEF Stranded
    <3> QED BY <1>9, <3>2, <3>3 DEF HandlerFails, table
  <2>2. ToUpsert(p, u) \in SUBSET Products /\ Handed(p, u) \in SUBSET Products
    BY DEF ToUpsert, Handed
  <2>3. ASSUME NEW C \in SUBSET Products, Upsert(C, batch[p])
        PROVE  products' \in [Products -> Contents \cup {Absent}] /\ updatedAt' \in [Products -> Nat]
    BY <2>3 DEF Upsert, UpsertAt, TypeOK
  <2>4. products' \in [Products -> Contents \cup {Absent}] /\ updatedAt' \in [Products -> Nat]
    BY <1>9, <2>2, <2>3 DEF HandlerFails, TypeOK, table
  <2>5. scrapeSeen' \in [RunIds -> SUBSET Products]
    BY <1>9, <2>2 DEF HandlerFails, TypeOK
  <2>6. GiveUp(p, Fetched(p, u), u \cap EC2Regions = {})
    BY <1>9 DEF HandlerFails
  <2>7. /\ svc' \in [Procs -> [Services -> SvcStates]]
        /\ scrapeErr' \in [Procs -> BOOLEAN]
        /\ failed' \in [Procs -> Nat]
    BY <2>6 DEF GiveUp, TypeOK, SvcStates
  <2> QED BY <1>9, <2>1, <2>4, <2>5, <2>7 DEF HandlerFails, TypeOK, control
<1>10. ASSUME NEW p \in Procs, ScrapeReturnsNil(p) PROVE TypeOK'
  BY <1>10 DEF ScrapeReturnsNil, Goto, TypeOK, db, table, locals, scraping, Steps
<1>11. ASSUME NEW p \in Procs, ScrapeReturnsError(p) PROVE TypeOK'
  BY <1>11 DEF ScrapeReturnsError, Goto, TypeOK, db, table, locals, scraping, Steps
<1>12. ASSUME NEW p \in Procs, ReadPrevCount(p) PROVE TypeOK'
  <2>1. budget' \in [EnvEvents -> Nat]
    BY <1>12, BudgetType DEF ReadPrevCount
  <2>2. LastSuccessCount(VendorOf[p]) \in Nat
    BY LastSuccessCountType
  <2>3. pc' \in [Procs -> Steps] /\ prevCount' \in [Procs -> Nat]
    BY <1>12, <2>2 DEF ReadPrevCount, AfterPrev, Goto, TypeOK, Steps
  <2> QED BY <1>12, <2>1, <2>3 DEF ReadPrevCount, TypeOK, db, table, scraping
<1>13. ASSUME NEW p \in Procs, CountSeen(p) PROVE TypeOK'
  BY <1>13, SpendType DEF CountSeen, Goto, Refused, Faulted, TypeOK, db, table, locals, scraping, Steps
<1>14. ASSUME NEW p \in Procs, DeleteStaleProducts(p) PROVE TypeOK'
  <2>1. CASE Stranded("fault", {CleanupStatement(p)}) /\ UNCHANGED products
    <3>1. budget' \in [EnvEvents -> Nat] BY <2>1, StrandedType
    <3>2. stray' \in SUBSET Statement BY <2>1, CleanupStatementType DEF Stranded, TypeOK
    <3> QED BY <1>14, <2>1, <3>1, <3>2 DEF DeleteStaleProducts, Goto, TypeOK, locals, scraping, Steps
  <2>2. CASE (UNCHANGED budget \/ Faulted \/ Refused(ctxDone[p])) /\ UNCHANGED stray /\ (Delete(StaleProducts(p)) \/ UNCHANGED products)
    <3>1. budget' \in [EnvEvents -> Nat] BY <2>2, BudgetType
    <3>2. products' \in [Products -> Contents \cup {Absent}] BY <2>2 DEF Delete, TypeOK
    <3> QED BY <1>14, <2>2, <3>1, <3>2 DEF DeleteStaleProducts, Goto, TypeOK, locals, scraping, Steps
  <2> QED BY <1>14, <2>1, <2>2 DEF DeleteStaleProducts
<1>15. ASSUME NEW p \in Procs, Finish(p) PROVE TypeOK'
  <2>1. ASSUME NEW x, NEW st \in {"success", "failed"}, NEW n \in Nat, FinishScrapeRun(p, x, st, n)
        PROVE  budget' \in [EnvEvents -> Nat] /\ scrapeRuns' \in [RunIds -> RunRow] /\ now' \in Nat
    <3>1. budget' \in [EnvEvents -> Nat]
      BY <2>1, BudgetType DEF FinishScrapeRun
    <3>2. runID[p] \in RunIds => Outcome(scrapeRuns[runID[p]], st, n) \in RunRow
      BY DEF Outcome, TypeOK, RunRow
    <3>3. scrapeRuns' \in [RunIds -> RunRow] /\ now' \in Nat
      <4>1. scrapeRuns \in [RunIds -> RunRow] /\ now \in Nat /\ (runID[p] \in RunIds \/ runID[p] = 0)
        BY DEF TypeOK
      <4>2. 0 \notin RunIds BY DEF RunIds
      <4>3. [scrapeRuns EXCEPT ![runID[p]] = Outcome(scrapeRuns[runID[p]], st, n)] \in [RunIds -> RunRow]
        <5>1. CASE runID[p] \in RunIds BY <3>2, <4>1, <5>1
        <5>2. CASE runID[p] = 0 BY <4>1, <4>2, <5>2
        <5> QED BY <4>1, <5>1, <5>2
      <4> QED BY <2>1, <4>1, <4>3 DEF FinishScrapeRun, SetOutcome
    <3> QED BY <3>1, <3>3
  <2>2. budget' \in [EnvEvents -> Nat] /\ scrapeRuns' \in [RunIds -> RunRow] /\ now' \in Nat
    <3>1. total[p] \in Nat BY DEF TypeOK
    <3> QED BY <1>15, <2>1, <3>1 DEF Finish
  <2>3. pc' \in [Procs -> Steps] /\ res' \in [Procs -> {"ok", "empty", "err", "killed"}]
    BY <1>15 DEF Finish, Goto, TypeOK, Steps
  <2> QED BY <1>15, <2>2, <2>3 DEF Finish, TypeOK, table, locals, scraping
<1>16. ASSUME NEW p \in Procs, PruneScrapeRuns(p) PROVE TypeOK'
  BY <1>16, SpendType DEF PruneScrapeRuns, NoRun, Goto, Refused, Faulted, TypeOK, table, locals, scraping, Steps, RunRow
<1>17. ASSUME NEW p \in Procs, ClearSeen(p) PROVE TypeOK'
  <2>1. budget' \in [EnvEvents -> Nat]
    BY <1>17, BudgetType DEF ClearSeen
  <2>2. scrapeSeen' \in [RunIds -> SUBSET Products]
    <3>1. scrapeSeen \in [RunIds -> SUBSET Products]
      BY DEF TypeOK
    <3>2. \A q \in RunIds : {} \in SUBSET Products /\ scrapeSeen[q] \in SUBSET Products
      BY <3>1
    <3> QED BY <1>17, <3>1, <3>2 DEF ClearSeen
  <2> QED BY <1>17, <2>1, <2>2 DEF ClearSeen, Goto, TypeOK, table, locals, scraping, Steps
<1>18. ASSUME NEW p \in Procs, Unlock(p) PROVE TypeOK'
  BY <1>18 DEF Unlock, Freed, Return, Discard, For, Goto, TypeOK, table, Steps, SvcStates
<1>19. ASSUME NEW c \in Commands, Invoke(c) PROVE TypeOK'
  BY <1>19, SpendType DEF Invoke, For, TypeOK, db, table, scraping, Steps
<1>20. ASSUME NEW c \in Commands, Cancel(c) PROVE TypeOK'
  BY <1>20, SpendType DEF Cancel, TypeOK, db, table, locals, scraping
<1>21. ASSUME NEW c \in Commands, Kill(c) PROVE TypeOK'
  <2> DEFINE mine == {p \in Procs : CommandOf[p] = c /\ pc[p] # "done"}
  <2>1. budget' \in [EnvEvents -> Nat] /\ stray' \in SUBSET Statement
    <3>1. stray \in SUBSET Statement BY DEF TypeOK
    <3>2. CASE Spend("kill") /\ UNCHANGED stray BY <3>1, <3>2, SpendType
    <3>3. ASSUME NEW S \in SUBSET UNION {UnderWay(p) : p \in mine}, Stranded("kill", S)
          PROVE  budget' \in [EnvEvents -> Nat] /\ stray' \in SUBSET Statement
      <4>1. \A o \in S : o \in Statement BY <3>3, UnderWayType
      <4> QED BY <3>1, <3>3, <4>1, StrandedType DEF Stranded
    <3> QED BY <1>21, <3>2, <3>3 DEF Kill
  <2>2. Discard(mine) BY <1>21 DEF Kill
  <2>3. /\ pc' \in [Procs -> Steps] /\ res' \in [Procs -> {"ok", "empty", "err", "killed"}]
        /\ locks' \in [Vendors -> Procs \cup {NoProc}]
    BY <1>21 DEF Kill, Freed, For, TypeOK, Steps
  <2> QED BY <1>21, <2>1, <2>2, <2>3, DiscardType DEF Kill, TypeOK
<1>22. CASE PgCrash
  BY <1>22, SpendType DEF PgCrash, TypeOK, locals, scraping, control
<1>23. CASE ReapStaleScrapeRuns
  BY <1>23 DEF ReapStaleScrapeRuns, Reapable, Outcome, TypeOK, table, locals, scraping, control, RunRow
<1>24. CASE UpstreamChange
  BY <1>24, SpendType DEF UpstreamChange, TypeOK, db, table, locals, scraping, control
<1>25. CASE Seed
  BY <1>25, SpendType DEF Seed, Upsert, UpsertAt, TypeOK, locals, scraping, control
<1>26. ASSUME NEW o \in stray, StrayCommits, stray' = stray \ {o},
              \/ UpsertAt(RowsOf(o), o.rows, o.at) /\ UNCHANGED scrapeSeen
              \/ /\ scrapeSeen' = [scrapeSeen EXCEPT ![o.run] = @ \cup RowsOf(o)]
                 /\ UNCHANGED <<products, updatedAt>>
              \/ Delete({h \in RowsOf(o) : updatedAt[h] < o.at}) /\ UNCHANGED <<updatedAt, scrapeSeen>>
       PROVE  TypeOK'
  <2>1. o \in Statement /\ stray' \in SUBSET Statement /\ RowsOf(o) \in SUBSET Products
    BY <1>26 DEF TypeOK, RowsOf
  <2>2. o.rows \in [Products -> Contents \cup {Absent}] /\ o.at \in Nat BY <2>1 DEF Statement
  <2>3. products' \in [Products -> Contents \cup {Absent}] /\ updatedAt' \in [Products -> Nat]
    <3>1. products \in [Products -> Contents \cup {Absent}] /\ updatedAt \in [Products -> Nat] BY DEF TypeOK
    <3>2. CASE UpsertAt(RowsOf(o), o.rows, o.at) BY <2>1, <2>2, <3>1, <3>2 DEF UpsertAt
    <3>3. CASE Delete({h \in RowsOf(o) : updatedAt[h] < o.at}) /\ UNCHANGED updatedAt BY <3>1, <3>3 DEF Delete
    <3> QED BY <1>26, <3>1, <3>2, <3>3
  <2>4. scrapeSeen' \in [RunIds -> SUBSET Products] BY <1>26, <2>1 DEF TypeOK
  <2> QED BY <1>26, <2>1, <2>3, <2>4 DEF StrayCommits, TypeOK, control, locals, scraping
<1>27. StrayCommits => TypeOK'
  BY <1>26 DEF StrayCommits
<1> QED
  BY <1>1, <1>2, <1>3, <1>4, <1>5, <1>6, <1>7, <1>8, <1>9, <1>10, <1>11, <1>12, <1>13, <1>14, <1>15,
     <1>16, <1>17, <1>18, <1>19, <1>20, <1>21, <1>22, <1>23, <1>24, <1>25, <1>27
     DEF Next, ScrapeStep

\* Every variable keeps its type, whatever fails and in whatever order: no run
\* counter, row or session ever takes a value the tables and locals cannot hold.
THEOREM TypeCorrect == Spec => []TypeOK
BY InitTypeOK, StepTypeOK, PTL DEF Spec

-----------------------------------------------------------------------------
(* The lock *)

\* A step spends one event at most, or one that leaves statements behind.
LEMMA BudgetMoves ==
  ASSUME [Next]_vars
  PROVE  UNCHANGED budget \/ \E e \in EnvEvents : Spend(e) \/ \E S : Stranded(e, S)
<1>1. ASSUME NEW p \in Procs, ScrapeStep(p)
      PROVE  UNCHANGED budget \/ Spend("fault") \/ Spend("undiscovered") \/ \E S : Stranded("fault", S)
  <2>1. CASE \/ AcquireScrapeLock(p) \/ SelectNow(p) \/ StartScrapeRun(p)
    BY <2>1 DEF AcquireScrapeLock, SelectNow, StartScrapeRun, Refused, Faulted
  <2>2. CASE \E s \in Services : FetchService(p, s) \/ FetchFails(p, s) \/ ServiceUndiscovered(p, s)
    BY <2>2 DEF FetchService, FetchFails, ServiceUndiscovered
  <2>3. CASE \E u \in UnitsOf(VendorOf[p]) : UpsertBatch(p, u) \/ MarkSeen(p, u) \/ HandlerFails(p, u)
    BY <2>3 DEF UpsertBatch, MarkSeen, HandlerFails, Refused, Faulted
  <2>4. CASE ScrapeReturnsNil(p) \/ ScrapeReturnsError(p)
    BY <2>4 DEF ScrapeReturnsNil, ScrapeReturnsError
  <2>5. CASE ReadPrevCount(p) \/ CountSeen(p) \/ DeleteStaleProducts(p)
    BY <2>5 DEF ReadPrevCount, CountSeen, DeleteStaleProducts, Refused, Faulted
  <2>6. CASE Finish(p) \/ PruneScrapeRuns(p) \/ ClearSeen(p) \/ Unlock(p)
    BY <2>6 DEF Finish, FinishScrapeRun, PruneScrapeRuns, ClearSeen, Unlock, Refused, Faulted
  <2> QED BY <1>1, <2>1, <2>2, <2>3, <2>4, <2>5, <2>6 DEF ScrapeStep
<1>2. ASSUME NEW c \in Commands, Invoke(c) \/ Cancel(c) \/ Kill(c)
      PROVE  Spend("invoke") \/ Spend("cancel") \/ Spend("kill") \/ \E S : Stranded("kill", S)
  BY <1>2 DEF Invoke, Cancel, Kill
<1>3. CASE StrayCommits \/ PgCrash \/ ReapStaleScrapeRuns \/ UpstreamChange \/ Seed
  BY <1>3 DEF StrayCommits, PgCrash, ReapStaleScrapeRuns, UpstreamChange, Seed, EnvEvents
<1>4. CASE UNCHANGED vars
  BY <1>4 DEF vars
<1> QED BY <1>1, <1>2, <1>3, <1>4 DEF Next, EnvEvents

\* Nothing is ever given back.
LEMMA BudgetShrinks ==
  ASSUME TypeOK, [Next]_vars
  PROVE  /\ budget' \in [EnvEvents -> Nat]
         /\ \A e \in EnvEvents : budget'[e] <= budget[e]
<1>1. UNCHANGED budget \/ \E e \in EnvEvents : Spend(e) \/ \E S : Stranded(e, S)
  BY BudgetMoves
<1>2. budget \in [EnvEvents -> Nat] BY DEF TypeOK
<1>3. CASE UNCHANGED budget BY <1>2, <1>3
<1>4. ASSUME NEW e \in EnvEvents, Spend(e)
      PROVE  budget' \in [EnvEvents -> Nat] /\ \A d \in EnvEvents : budget'[d] <= budget[d]
  BY <1>2, <1>4 DEF Spend
<1> QED BY <1>1, <1>3, <1>4, StrandedType

LEMMA StepBudgetKept == TypeOK /\ BudgetKept /\ [Next]_vars => BudgetKept'
<1> SUFFICES ASSUME TypeOK, BudgetKept, [Next]_vars PROVE BudgetKept'
  OBVIOUS
<1>1. budget \in [EnvEvents -> Nat] BY DEF TypeOK
<1> QED BY <1>1, BudgetShrinks DEF BudgetKept

LEMMA StepBudgetBounded == TypeOK /\ BudgetBounded /\ [Next]_vars => BudgetBounded'
<1> SUFFICES ASSUME TypeOK, BudgetBounded, [Next]_vars PROVE BudgetBounded'
  OBVIOUS
<1>1. budget \in [EnvEvents -> Nat] /\ Budget \in [EnvEvents -> Nat] BY NumberAssumption DEF TypeOK
<1> QED BY <1>1, BudgetShrinks DEF BudgetBounded

LEMMA InitBudgetBounded == Init => BudgetBounded
BY NumberAssumption DEF Init, BudgetBounded

\* A step of one process leaves the place of every other.
LEMMA OthersStay ==
  ASSUME TypeOK, NEW p \in Procs, NEW q \in Procs, q # p, ScrapeStep(p)
  PROVE  pc'[q] = pc[q]
<1> pc \in [Procs -> Steps] BY DEF TypeOK
<1>1. CASE \/ AcquireScrapeLock(p) \/ SelectNow(p) \/ StartScrapeRun(p)
  BY <1>1 DEF AcquireScrapeLock, SelectNow, StartScrapeRun, FailEarly, Return, Goto
<1>2. CASE \E s \in Services : FetchService(p, s) \/ FetchFails(p, s) \/ ServiceUndiscovered(p, s)
  BY <1>2 DEF FetchService, FetchFails, ServiceUndiscovered, control
<1>3. CASE \E u \in UnitsOf(VendorOf[p]) : UpsertBatch(p, u) \/ MarkSeen(p, u) \/ HandlerFails(p, u)
  BY <1>3 DEF UpsertBatch, MarkSeen, HandlerFails, control
<1>4. CASE ScrapeReturnsNil(p) \/ ScrapeReturnsError(p)
  BY <1>4 DEF ScrapeReturnsNil, ScrapeReturnsError, Goto
<1>5. CASE ReadPrevCount(p) \/ CountSeen(p) \/ DeleteStaleProducts(p)
  BY <1>5 DEF ReadPrevCount, CountSeen, DeleteStaleProducts, Goto
<1>6. CASE Finish(p) \/ PruneScrapeRuns(p) \/ ClearSeen(p) \/ Unlock(p)
  BY <1>6 DEF Finish, PruneScrapeRuns, ClearSeen, Unlock, Return, Goto
<1> QED BY <1>1, <1>2, <1>3, <1>4, <1>5, <1>6 DEF ScrapeStep

LEMMA StepLockHeld ==
  ASSUME Budget["pgcrash"] = 0, TypeOK, BudgetKept, LockHeld, [Next]_vars
  PROVE  LockHeld'
<1> USE StructureAssumption
<1>t. pc \in [Procs -> Steps] /\ locks \in [Vendors -> Procs \cup {NoProc}]
  BY DEF TypeOK
<1>1. ASSUME NEW p \in Procs, ScrapeStep(p) PROVE LockHeld'
  <2>1. CASE UNCHANGED locks /\ (pc'[p] \in Holding => pc[p] \in Holding)
    BY <1>1, <2>1, OthersStay DEF LockHeld
  <2>2. CASE AcquireScrapeLock(p) /\ ~UNCHANGED locks
    <3>1. locks[VendorOf[p]] = NoProc /\ locks' = [locks EXCEPT ![VendorOf[p]] = p]
      BY <2>2 DEF AcquireScrapeLock, LockFree
    <3>2. \A q \in Procs : q # p /\ pc'[q] \in Holding => locks[VendorOf[q]] = q
      BY <1>1, OthersStay DEF LockHeld
    <3> QED BY <1>t, <3>1, <3>2 DEF LockHeld
  <2>3. CASE Unlock(p)
    <3>1. pc'[p] = "done" /\ locks' = Freed({p})
      BY <1>t, <2>3 DEF Unlock, Return, Goto
    <3>2. \A q \in Procs : q # p /\ pc'[q] \in Holding => locks[VendorOf[q]] = q
      BY <1>1, OthersStay DEF LockHeld
    <3> QED BY <1>t, <3>1, <3>2 DEF LockHeld, Freed, Holding
  <2>4. CASE AcquireScrapeLock(p) /\ UNCHANGED locks
    <3>1. pc'[p] \in Holding => pc[p] \in Holding
      BY <1>t, <2>4 DEF AcquireScrapeLock, Return, Goto, Holding, LockFree
    <3> QED BY <2>1, <2>4, <3>1
  <2>5. CASE SelectNow(p) \/ StartScrapeRun(p)
    BY <1>t, <2>1, <2>5 DEF SelectNow, StartScrapeRun, FailEarly, Goto, Holding, Steps
  <2>6. CASE \E s \in Services : FetchService(p, s) \/ FetchFails(p, s) \/ ServiceUndiscovered(p, s)
    BY <2>1, <2>6 DEF FetchService, FetchFails, ServiceUndiscovered, control, db
  <2>7. CASE \E u \in UnitsOf(VendorOf[p]) : UpsertBatch(p, u) \/ MarkSeen(p, u) \/ HandlerFails(p, u)
    BY <2>1, <2>7 DEF UpsertBatch, MarkSeen, HandlerFails, control
  <2>8. CASE ScrapeReturnsNil(p) \/ ScrapeReturnsError(p)
    BY <1>t, <2>1, <2>8 DEF ScrapeReturnsNil, ScrapeReturnsError, Goto, db, Holding, Steps
  <2>9. CASE ReadPrevCount(p) \/ CountSeen(p) \/ DeleteStaleProducts(p)
    BY <1>t, <2>1, <2>9 DEF ReadPrevCount, CountSeen, DeleteStaleProducts, Goto, db, Holding, Steps
  <2>10. CASE Finish(p) \/ PruneScrapeRuns(p) \/ ClearSeen(p)
    BY <1>t, <2>1, <2>10 DEF Finish, PruneScrapeRuns, ClearSeen, Goto, Holding, Steps
  <2> QED BY <1>1, <2>2, <2>3, <2>4, <2>5, <2>6, <2>7, <2>8, <2>9, <2>10 DEF ScrapeStep
<1>2. ASSUME NEW c \in Commands, Invoke(c) \/ Cancel(c) PROVE LockHeld'
  BY <1>2 DEF LockHeld, Invoke, Cancel, For, db, Holding
<1>3. ASSUME NEW c \in Commands, Kill(c) PROVE LockHeld'
  BY <1>t, <1>3 DEF LockHeld, Kill, For, Freed, Holding
<1>4. ~PgCrash
  BY DEF PgCrash, Spend, BudgetKept, EnvEvents
<1>5. CASE ReapStaleScrapeRuns \/ UpstreamChange \/ Seed \/ StrayCommits \/ UNCHANGED vars
  BY <1>5 DEF LockHeld, ReapStaleScrapeRuns, UpstreamChange, Seed, StrayCommits, vars, db, control
<1> QED BY <1>1, <1>2, <1>3, <1>4, <1>5 DEF Next

\* The advisory lock works: while Postgres stays up, no two overlapping scrape
\* commands are ever both between AcquireScrapeLock and its release for one
\* vendor, however processes are killed, cancelled or fail in between.
THEOREM MutualExclusion ==
  ASSUME Budget["pgcrash"] = 0
  PROVE  Spec => []OneScrapePerVendor
<1>1. Init => BudgetKept /\ LockHeld
  BY DEF Init, BudgetKept, LockHeld, Holding
<1>2. TypeOK /\ BudgetKept /\ LockHeld /\ [Next]_vars => LockHeld'
  BY StepLockHeld
<1>3. LockHeld => OneScrapePerVendor
  BY DEF LockHeld, OneScrapePerVendor
<1> QED BY <1>1, <1>2, <1>3, TypeCorrect, StepBudgetKept, PTL DEF Spec

-----------------------------------------------------------------------------
(* Run records *)

\* Only StartScrapeRun enters a run and draws an id; the other steps of a
\* process only move it forward within its run.
LEMMA RunMoves ==
  ASSUME TypeOK, NEW p \in Procs, ScrapeStep(p), ~StartScrapeRun(p)
  PROVE  /\ runID' = runID /\ nextRun' = nextRun
         /\ pc'[p] \in InRun => pc[p] \in InRun
         /\ pc'[p] \in Unfinished => pc[p] \in Unfinished
<1> pc \in [Procs -> Steps] BY DEF TypeOK
<1> USE DEF InRun, Unfinished
<1>1. CASE AcquireScrapeLock(p) \/ SelectNow(p)
  BY <1>1 DEF AcquireScrapeLock, SelectNow, FailEarly, Return, Goto, locals
<1>2. CASE \E s \in Services : FetchService(p, s) \/ FetchFails(p, s) \/ ServiceUndiscovered(p, s)
  BY <1>2 DEF FetchService, FetchFails, ServiceUndiscovered, control, db
<1>3. CASE \E u \in UnitsOf(VendorOf[p]) : UpsertBatch(p, u) \/ MarkSeen(p, u) \/ HandlerFails(p, u)
  BY <1>3 DEF UpsertBatch, MarkSeen, HandlerFails, control
<1>4. CASE ScrapeReturnsNil(p) \/ ScrapeReturnsError(p)
  BY <1>4 DEF ScrapeReturnsNil, ScrapeReturnsError, Goto, db, locals
<1>5. CASE ReadPrevCount(p) \/ CountSeen(p) \/ DeleteStaleProducts(p)
  BY <1>5 DEF ReadPrevCount, CountSeen, DeleteStaleProducts, Goto, db, locals
<1>6. CASE Finish(p) \/ PruneScrapeRuns(p) \/ ClearSeen(p) \/ Unlock(p)
  BY <1>6 DEF Finish, PruneScrapeRuns, ClearSeen, Unlock, Return, Goto, locals
<1> QED BY <1>1, <1>2, <1>3, <1>4, <1>5, <1>6 DEF ScrapeStep

\* Steps of a process that leave scrape_runs alone.
LEMMA RowsStay ==
  ASSUME TypeOK, NEW p \in Procs, ScrapeStep(p), ~StartScrapeRun(p), ~Finish(p), ~PruneScrapeRuns(p)
  PROVE  scrapeRuns' = scrapeRuns
<1>1. CASE AcquireScrapeLock(p) \/ SelectNow(p)
  BY <1>1 DEF AcquireScrapeLock, SelectNow
<1>2. CASE \E s \in Services : FetchService(p, s) \/ FetchFails(p, s) \/ ServiceUndiscovered(p, s)
  BY <1>2 DEF FetchService, FetchFails, ServiceUndiscovered, db
<1>3. CASE \E u \in UnitsOf(VendorOf[p]) : UpsertBatch(p, u) \/ MarkSeen(p, u) \/ HandlerFails(p, u)
  BY <1>3 DEF UpsertBatch, MarkSeen, HandlerFails
<1>4. CASE ScrapeReturnsNil(p) \/ ScrapeReturnsError(p)
  BY <1>4 DEF ScrapeReturnsNil, ScrapeReturnsError, db
<1>5. CASE ReadPrevCount(p) \/ CountSeen(p) \/ DeleteStaleProducts(p)
  BY <1>5 DEF ReadPrevCount, CountSeen, DeleteStaleProducts, db
<1>6. CASE ClearSeen(p) \/ Unlock(p)
  BY <1>6 DEF ClearSeen, Unlock
<1> QED BY <1>1, <1>2, <1>3, <1>4, <1>5, <1>6 DEF ScrapeStep

LEMMA StepRunsOwned ==
  ASSUME LongRuns = FALSE, TypeOK, RunsOwned, [Next]_vars
  PROVE  RunsOwned'
<1> USE NumberAssumption
<1>t. /\ pc \in [Procs -> Steps]
      /\ scrapeRuns \in [RunIds -> RunRow]
      /\ runID \in [Procs -> RunIds \cup {0}]
      /\ nextRun \in 1 .. MaxRuns + 1
      /\ now \in Nat
  BY DEF TypeOK
\* The rows stay and no process enters a run.
<1>0. ASSUME UNCHANGED <<scrapeRuns, nextRun, runID>>,
             \A q \in Procs : pc'[q] \in InRun => pc[q] \in InRun,
             \A q \in Procs : pc'[q] \in Unfinished => pc[q] \in Unfinished
      PROVE  RunsOwned'
  BY <1>0 DEF RunsOwned
<1>1. ASSUME NEW p \in Procs, StartScrapeRun(p) PROVE RunsOwned'
  <2>1. CASE UNCHANGED <<scrapeRuns, nextRun>> /\ FailEarly(p) /\ UNCHANGED runID
    BY <1>t, <2>1, <1>0 DEF FailEarly, Goto, InRun, Unfinished
  <2>2. CASE InsertRun(p) /\ FailEarly(p) /\ UNCHANGED runID
    <3>1. \A q \in Procs : /\ pc'[q] \in InRun => pc[q] \in InRun
                           /\ pc'[q] \in Unfinished => pc[q] \in Unfinished
      BY <1>t, <2>2 DEF FailEarly, Goto, InRun, Unfinished
    <3>2. \A q \in Procs : pc[q] \in Unfinished => pc[q] \in InRun
      BY DEF InRun
    <3> QED BY <1>t, <2>2, <3>1, <3>2 DEF RunsOwned, InsertRun, RunIds
  <2>3. CASE InsertRun(p) /\ Goto(p, "scrape") /\ runID' = [runID EXCEPT ![p] = nextRun]
    <3>1. \A q \in Procs : q # p => pc'[q] = pc[q] /\ runID'[q] = runID[q]
      BY <1>t, <2>3 DEF Goto
    <3>2. runID'[p] = nextRun /\ nextRun \in RunIds /\ nextRun' = nextRun + 1
      BY <1>t, <2>3 DEF InsertRun, RunIds
    <3>3. \A q \in Procs : pc[q] \in Unfinished => pc[q] \in InRun
      BY DEF InRun
    <3>4. /\ scrapeRuns'[nextRun].status = "running" /\ scrapeRuns'[nextRun].finishedAt = 0
          /\ \A r \in RunIds : r # nextRun => scrapeRuns'[r] = scrapeRuns[r]
      BY <1>t, <2>3, <3>2 DEF InsertRun
    <3>5. \A q \in Procs : pc'[q] \in InRun => runID'[q] \in RunIds /\ runID'[q] < nextRun'
      BY <1>t, <3>1, <3>2 DEF RunsOwned, RunIds
    <3>6. \A q1, q2 \in Procs : pc'[q1] \in InRun /\ pc'[q2] \in InRun /\ runID'[q1] = runID'[q2] => q1 = q2
      BY <1>t, <3>1, <3>2 DEF RunsOwned, RunIds
    <3>7. \A q \in Procs : pc'[q] \in Unfinished => scrapeRuns'[runID'[q]].status = "running"
      BY <1>t, <3>1, <3>2, <3>3, <3>4 DEF RunsOwned, RunIds
    <3>8. /\ \A r \in RunIds : r >= nextRun' => scrapeRuns'[r].status = "absent"
          /\ \A r \in RunIds : scrapeRuns'[r].status = "running" => scrapeRuns'[r].finishedAt = 0
      BY <1>t, <3>2, <3>4 DEF RunsOwned, RunIds
    <3> QED BY <3>5, <3>6, <3>7, <3>8 DEF RunsOwned
  <2> QED BY <1>1, <2>1, <2>2, <2>3 DEF StartScrapeRun
<1>2. ASSUME NEW p \in Procs, Finish(p) PROVE RunsOwned'
  <2>1. /\ pc[p] \in Unfinished /\ pc'[p] \notin Unfinished
        /\ \A q \in Procs : q # p => pc'[q] = pc[q]
        /\ UNCHANGED <<nextRun, runID>>
    BY <1>t, <1>2 DEF Finish, Goto, Unfinished, locals
  <2>2. pc[p] \in InRun /\ \A q \in Procs : pc[q] \in Unfinished => pc[q] \in InRun
    BY <2>1 DEF InRun
  <2>3. PICK st \in {"success", "failed"} : \E n :
       \/ scrapeRuns' = [scrapeRuns EXCEPT ![runID[p]] = Outcome(scrapeRuns[runID[p]], st, n)]
       \/ scrapeRuns' = scrapeRuns
    BY <1>2 DEF Finish, FinishScrapeRun, SetOutcome
  <2>4. \A r \in RunIds : r # runID[p] => scrapeRuns'[r] = scrapeRuns[r]
    BY <1>t, <2>3
  <2>5. runID[p] \in RunIds /\ runID[p] < nextRun
    BY <2>2 DEF RunsOwned
  <2>6. scrapeRuns'[runID[p]] = scrapeRuns[runID[p]] \/ scrapeRuns'[runID[p]].status # "running"
    BY <1>t, <2>3, <2>5 DEF Outcome
  <2>7. /\ \A q \in Procs : pc'[q] \in InRun => runID[q] \in RunIds /\ runID[q] < nextRun
        /\ \A q1, q2 \in Procs : pc'[q1] \in InRun /\ pc'[q2] \in InRun /\ runID[q1] = runID[q2] => q1 = q2
    BY <2>1, <2>2 DEF RunsOwned
  <2>8. \A q \in Procs : pc'[q] \in Unfinished => scrapeRuns'[runID[q]].status = "running"
    BY <2>1, <2>2, <2>4 DEF RunsOwned
  <2>9. /\ \A r \in RunIds : r >= nextRun => scrapeRuns'[r].status = "absent"
        /\ \A r \in RunIds : scrapeRuns'[r].status = "running" => scrapeRuns'[r].finishedAt = 0
    <3>1. nextRun \in Nat /\ \A r \in RunIds : r \in Nat
      BY <1>t DEF RunIds
    <3>2. ASSUME NEW r \in RunIds, r >= nextRun PROVE scrapeRuns'[r].status = "absent"
      <4>1. r # runID[p]
        BY <2>5, <3>1, <3>2
      <4> QED
        BY <2>4, <3>2, <4>1 DEF RunsOwned
    <3>3. ASSUME NEW r \in RunIds, scrapeRuns'[r].status = "running" PROVE scrapeRuns'[r].finishedAt = 0
      <4>1. scrapeRuns'[r] = scrapeRuns[r]
        BY <2>4, <2>6, <3>3
      <4> QED
        BY <3>3, <4>1 DEF RunsOwned
    <3> QED
      BY <3>2, <3>3
  <2> QED BY <2>1, <2>7, <2>8, <2>9 DEF RunsOwned
<1>3. ASSUME NEW p \in Procs, PruneScrapeRuns(p) PROVE RunsOwned'
  <2>1. /\ pc[p] \in InRun /\ pc[p] \notin Unfinished /\ pc'[p] \in InRun /\ pc'[p] \notin Unfinished
        /\ \A q \in Procs : q # p => pc'[q] = pc[q]
        /\ UNCHANGED <<nextRun, runID>>
    BY <1>t, <1>3 DEF PruneScrapeRuns, Goto, InRun, Unfinished, locals
  <2>2. \A r \in RunIds : \/ scrapeRuns'[r] = scrapeRuns[r]
                          \/ scrapeRuns'[r] = NoRun /\ scrapeRuns[r].finishedAt # 0
    BY <1>3 DEF PruneScrapeRuns
  <2>3. NoRun.status = "absent"
    BY DEF NoRun
  <2>4. \A q \in Procs : pc[q] \in Unfinished => pc[q] \in InRun
    BY DEF InRun
  <2> QED BY <2>1, <2>2, <2>3, <2>4 DEF RunsOwned
<1>4. ASSUME NEW p \in Procs, ScrapeStep(p), ~StartScrapeRun(p), ~Finish(p), ~PruneScrapeRuns(p)
      PROVE  RunsOwned'
  BY <1>4, <1>0, RunMoves, RowsStay, OthersStay
<1>5. ASSUME NEW c \in Commands, Invoke(c) PROVE RunsOwned'
  <2>1. \A q \in Procs : pc'[q] \in InRun => pc[q] \in InRun /\ pc'[q] = pc[q] /\ runID'[q] = runID[q]
    BY <1>5 DEF Invoke, For, InRun, Unfinished
  <2>2. UNCHANGED <<scrapeRuns, nextRun>>
    BY <1>5 DEF Invoke, db
  <2>3. \A q \in Procs : pc'[q] \in Unfinished => pc'[q] \in InRun
    BY DEF InRun
  <2> QED BY <2>1, <2>2, <2>3 DEF RunsOwned
<1>6. ASSUME NEW c \in Commands, Cancel(c) \/ Kill(c) PROVE RunsOwned'
  BY <1>6, <1>0 DEF Cancel, Kill, For, db, locals, InRun, Unfinished
<1>7. CASE ReapStaleScrapeRuns
  <2>1. UNCHANGED <<pc, runID, nextRun>>
    BY <1>7 DEF ReapStaleScrapeRuns, control, locals
  <2>2. PICK cutoff \in 1 .. now + 1 :
          /\ \A p \in Procs : pc[p] \in Unfinished => runID[p] \notin Reapable(cutoff)
          /\ scrapeRuns' = [r \in RunIds |->
               IF r \in Reapable(cutoff)
                 THEN Outcome(scrapeRuns[r], "failed", scrapeRuns[r].products) ELSE scrapeRuns[r]]
    BY <1>7 DEF ReapStaleScrapeRuns
  <2>3. \A r \in RunIds : /\ r \notin Reapable(cutoff) => scrapeRuns'[r] = scrapeRuns[r]
                          /\ r \in Reapable(cutoff) => /\ scrapeRuns[r].status = "running"
                                                       /\ scrapeRuns'[r].status = "failed"
    BY <2>2 DEF Reapable, Outcome
  <2>4. \A q \in Procs : pc[q] \in Unfinished => pc[q] \in InRun
    BY DEF InRun
  <2> QED BY <2>1, <2>2, <2>3, <2>4 DEF RunsOwned
<1>8. CASE PgCrash \/ UpstreamChange \/ Seed \/ StrayCommits \/ UNCHANGED vars
  BY <1>8, <1>0 DEF PgCrash, UpstreamChange, Seed, StrayCommits, vars, db, control, locals
<1> QED BY <1>1, <1>2, <1>3, <1>4, <1>5, <1>6, <1>7, <1>8 DEF Next

LEMMA InitRunsOwned == Init => RunsOwned
BY DEF Init, RunsOwned, InRun, Unfinished, NoRun

-----------------------------------------------------------------------------
(* Stale cleanup *)

\* A step of one process leaves what every other one has scraped.
LEMMA OthersKeep ==
  ASSUME TypeOK, NEW p \in Procs, NEW q \in Procs, q # p, ScrapeStep(p)
  PROVE  /\ svc'[q] = svc[q] /\ batch'[q] = batch[q]
         /\ failed'[q] = failed[q] /\ scrapeErr'[q] = scrapeErr[q]
<1> /\ svc \in [Procs -> [Services -> SvcStates]]
    /\ batch \in [Procs -> [Products -> Contents \cup {Absent}]]
    /\ failed \in [Procs -> Nat] /\ scrapeErr \in [Procs -> BOOLEAN]
  BY DEF TypeOK
<1>1. CASE AcquireScrapeLock(p) \/ Unlock(p)
  BY <1>1 DEF AcquireScrapeLock, Unlock, Return, Discard, For, locals, scraping
<1>2. CASE SelectNow(p) \/ StartScrapeRun(p)
  BY <1>2 DEF SelectNow, StartScrapeRun, scraping
<1>3. CASE \E s \in Services : FetchService(p, s) \/ FetchFails(p, s) \/ ServiceUndiscovered(p, s)
  BY <1>3 DEF FetchService, FetchFails, ServiceUndiscovered, GiveUp
<1>4. CASE \E u \in UnitsOf(VendorOf[p]) : UpsertBatch(p, u) \/ MarkSeen(p, u) \/ HandlerFails(p, u)
  BY <1>4 DEF UpsertBatch, MarkSeen, HandlerFails, GiveUp
<1>5. CASE ScrapeReturnsNil(p) \/ ScrapeReturnsError(p)
  BY <1>5 DEF ScrapeReturnsNil, ScrapeReturnsError, locals, scraping
<1>6. CASE ReadPrevCount(p) \/ CountSeen(p) \/ DeleteStaleProducts(p)
  BY <1>6 DEF ReadPrevCount, CountSeen, DeleteStaleProducts, locals, scraping
<1>7. CASE Finish(p) \/ PruneScrapeRuns(p) \/ ClearSeen(p)
  BY <1>7 DEF Finish, PruneScrapeRuns, ClearSeen, locals, scraping
<1> QED BY <1>1, <1>2, <1>3, <1>4, <1>5, <1>6, <1>7 DEF ScrapeStep

\* What a process does to its own service states, by the step it takes.
LEMMA OwnServices ==
  ASSUME TypeOK, NEW p \in Procs, ScrapeStep(p)
  PROVE  \/ UNCHANGED <<svc, batch, failed, scrapeErr>>
         \/ /\ pc'[p] = "done" /\ \A s \in Services : svc'[p][s] = "todo"
         \/ \E s \in Services : FetchService(p, s) \/ FetchFails(p, s) \/ ServiceUndiscovered(p, s)
         \/ \E u \in UnitsOf(VendorOf[p]) : MarkSeen(p, u) \/ HandlerFails(p, u)
<1> pc \in [Procs -> Steps] BY DEF TypeOK
<1>1. CASE AcquireScrapeLock(p) \/ Unlock(p)
  <2>1. ASSUME NEW r, Return(p, r) PROVE pc'[p] = "done" /\ \A s \in Services : svc'[p][s] = "todo"
    BY <2>1 DEF Return, Goto, Discard, For
  <2>2. CASE UNCHANGED locals
    BY <2>2 DEF locals, scraping
  <2> QED BY <1>1, <2>1, <2>2 DEF AcquireScrapeLock, Unlock
<1>2. CASE SelectNow(p) \/ StartScrapeRun(p)
  BY <1>2 DEF SelectNow, StartScrapeRun, scraping
<1>3. CASE \E u \in UnitsOf(VendorOf[p]) : UpsertBatch(p, u)
  BY <1>3 DEF UpsertBatch
<1>4. CASE ScrapeReturnsNil(p) \/ ScrapeReturnsError(p)
  BY <1>4 DEF ScrapeReturnsNil, ScrapeReturnsError, locals, scraping
<1>5. CASE ReadPrevCount(p) \/ CountSeen(p) \/ DeleteStaleProducts(p)
  BY <1>5 DEF ReadPrevCount, CountSeen, DeleteStaleProducts, locals, scraping
<1>6. CASE Finish(p) \/ PruneScrapeRuns(p) \/ ClearSeen(p)
  BY <1>6 DEF Finish, PruneScrapeRuns, ClearSeen, locals, scraping
<1> QED BY <1>1, <1>2, <1>3, <1>4, <1>5, <1>6 DEF ScrapeStep

\* The steps of ScrapeWithHandler leave the process inside it.
LEMMA StillScraping ==
  ASSUME TypeOK, NEW p \in Procs,
         \/ \E s \in Services : FetchService(p, s) \/ FetchFails(p, s) \/ ServiceUndiscovered(p, s)
         \/ \E u : MarkSeen(p, u) \/ HandlerFails(p, u)
  PROVE  pc[p] = "scrape" /\ pc' = pc
BY DEF FetchService, FetchFails, ServiceUndiscovered, MarkSeen, HandlerFails, MayStart, Handling, control

\* Steps outside the processes: a killed one forgets what it scraped.
LEMMA EnvServices ==
  ASSUME TypeOK, [Next]_vars, \A p \in Procs : ~ScrapeStep(p), NEW q \in Procs
  PROVE  \/ /\ svc'[q] = svc[q] /\ batch'[q] = batch[q]
            /\ failed'[q] = failed[q] /\ scrapeErr'[q] = scrapeErr[q]
            /\ pc'[q] = pc[q] \/ (pc[q] = "done" /\ pc'[q] = "lock")
         \/ /\ pc'[q] = "done" /\ \A s \in Services : svc'[q][s] = "todo"
<1>1. ASSUME NEW c \in Commands, Kill(c) 
      PROVE  \/ /\ svc'[q] = svc[q] /\ batch'[q] = batch[q]
                /\ failed'[q] = failed[q] /\ scrapeErr'[q] = scrapeErr[q] /\ pc'[q] = pc[q]
             \/ /\ pc'[q] = "done" /\ \A s \in Services : svc'[q][s] = "todo"
  BY <1>1 DEF Kill, Discard, For
<1>2. ASSUME NEW c \in Commands, Invoke(c) \/ Cancel(c)
      PROVE  /\ UNCHANGED <<svc, batch, failed, scrapeErr>>
             /\ pc'[q] = pc[q] \/ (pc[q] = "done" /\ pc'[q] = "lock")
  BY <1>2 DEF Invoke, Cancel, For, locals, scraping
<1>3. CASE PgCrash \/ ReapStaleScrapeRuns \/ UpstreamChange \/ Seed \/ StrayCommits \/ UNCHANGED vars
  BY <1>3 DEF PgCrash, ReapStaleScrapeRuns, UpstreamChange, Seed, StrayCommits, vars, locals, scraping, control
<1> QED BY <1>1, <1>2, <1>3 DEF Next

LEMMA StepFreshLocals == TypeOK /\ FreshLocals /\ [Next]_vars => FreshLocals'
<1> SUFFICES ASSUME TypeOK, FreshLocals, [Next]_vars PROVE FreshLocals'
  OBVIOUS
<1>t. pc \in [Procs -> Steps] BY DEF TypeOK
<1>1. ASSUME NEW p \in Procs, ScrapeStep(p), NEW q \in Procs, NEW s \in Services,
             pc'[q] \in {"done", "lock", "begin", "insert"}
      PROVE  svc'[q][s] = "todo"
  <2>1. CASE q # p BY <1>1, <2>1, OthersStay, OthersKeep DEF FreshLocals
  <2>2. CASE q = p
    <3>1. CASE pc'[p] = "done" /\ \A t \in Services : svc'[p][t] = "todo"
      BY <2>2, <3>1
    <3>2. CASE pc[p] = "scrape" /\ pc' = pc
      BY <1>1, <2>2, <3>2
    <3>0. CASE Unlock(p)
      BY <2>2, <3>0 DEF Unlock, Return, Discard, For
    <3>3. CASE UNCHANGED <<svc, batch, failed, scrapeErr>> /\ ~Unlock(p)
      <4>1. pc[p] \in {"done", "lock", "begin", "insert"}
        <5>1. CASE AcquireScrapeLock(p) BY <5>1 DEF AcquireScrapeLock
        <5>2. CASE SelectNow(p) \/ StartScrapeRun(p)
          BY <5>2 DEF SelectNow, StartScrapeRun
        <5>3. CASE \E u \in UnitsOf(VendorOf[p]) : UpsertBatch(p, u) \/ MarkSeen(p, u) \/ HandlerFails(p, u)
          BY <1>1, <2>2, <5>3 DEF UpsertBatch, MarkSeen, HandlerFails, control
        <5>4. CASE \E x \in Services : FetchService(p, x) \/ FetchFails(p, x) \/ ServiceUndiscovered(p, x)
          BY <1>1, <2>2, <5>4 DEF FetchService, FetchFails, ServiceUndiscovered, control
        <5>5. CASE ScrapeReturnsNil(p) \/ ScrapeReturnsError(p)
          BY <1>1, <1>t, <2>2, <5>5 DEF ScrapeReturnsNil, ScrapeReturnsError, Goto
        <5>6. CASE ReadPrevCount(p) \/ CountSeen(p) \/ DeleteStaleProducts(p)
          BY <1>1, <1>t, <2>2, <5>6 DEF ReadPrevCount, AfterPrev, CountSeen, DeleteStaleProducts, Goto
        <5>7. CASE Finish(p) \/ PruneScrapeRuns(p) \/ ClearSeen(p)
          BY <1>1, <1>t, <2>2, <5>7 DEF Finish, PruneScrapeRuns, ClearSeen, Goto
        <5> QED BY <1>1, <3>3, <5>1, <5>2, <5>3, <5>4, <5>5, <5>6, <5>7 DEF ScrapeStep
      <4> QED BY <2>2, <3>3, <4>1 DEF FreshLocals
    <3> QED BY <1>1, <3>0, <3>1, <3>2, <3>3, OwnServices, StillScraping
  <2> QED BY <2>1, <2>2
<1>2. ASSUME \A p \in Procs : ~ScrapeStep(p), NEW q \in Procs, NEW s \in Services,
             pc'[q] \in {"done", "lock", "begin", "insert"}
      PROVE  svc'[q][s] = "todo"
  BY <1>2, EnvServices DEF FreshLocals
<1> QED BY <1>1, <1>2 DEF FreshLocals

LEMMA StepFailuresCounted == TypeOK /\ FailuresCounted /\ [Next]_vars => FailuresCounted'
<1> SUFFICES ASSUME TypeOK, FailuresCounted, [Next]_vars,
                    NEW q \in Procs, NEW s \in Services, svc'[q][s] = "failed"
             PROVE  failed'[q] > 0 \/ scrapeErr'[q]
  BY DEF FailuresCounted
<1>t. /\ svc \in [Procs -> [Services -> SvcStates]]
      /\ failed \in [Procs -> Nat] /\ scrapeErr \in [Procs -> BOOLEAN]
  BY DEF TypeOK
<1>0. CASE svc'[q] = svc[q] /\ failed'[q] = failed[q] /\ scrapeErr'[q] = scrapeErr[q]
  BY <1>0 DEF FailuresCounted
<1>1. ASSUME NEW p \in Procs, ScrapeStep(p) PROVE failed'[q] > 0 \/ scrapeErr'[q]
  <2>1. CASE q # p BY <1>0, <1>1, <2>1, OthersKeep
  <2>2. CASE q = p
    <3>1. ASSUME NEW S, NEW b \in BOOLEAN, GiveUp(p, S, b) PROVE failed'[q] > 0 \/ scrapeErr'[q]
      <4>1. CASE b BY <1>t, <2>2, <3>1, <4>1 DEF GiveUp
      <4>2. CASE ~b
        <5>1. failed'[p] = failed[p] + 1 BY <1>t, <3>1, <4>2 DEF GiveUp
        <5> QED BY <1>t, <2>2, <5>1
      <4> QED BY <4>1, <4>2
    <3>2. ASSUME NEW x \in Services, FetchFails(p, x) PROVE failed'[q] > 0 \/ scrapeErr'[q]
      BY <3>1, <3>2 DEF FetchFails
    <3>3. ASSUME NEW u, HandlerFails(p, u) PROVE failed'[q] > 0 \/ scrapeErr'[q]
      BY <3>1, <3>3 DEF HandlerFails
    <3>4. CASE \E x \in Services : FetchService(p, x) \/ ServiceUndiscovered(p, x)
      <4>1. svc[q][s] = "failed" /\ UNCHANGED <<failed, scrapeErr>>
        BY <1>t, <2>2, <3>4 DEF FetchService, ServiceUndiscovered
      <4> QED BY <4>1 DEF FailuresCounted
    <3>5. CASE \E u : MarkSeen(p, u)
      <4>1. svc[q][s] = "failed" /\ UNCHANGED <<failed, scrapeErr>>
        BY <1>t, <2>2, <3>5 DEF MarkSeen
      <4> QED BY <4>1 DEF FailuresCounted
    <3> QED BY <1>0, <1>1, <2>2, <3>2, <3>3, <3>4, <3>5, OwnServices
  <2> QED BY <2>1, <2>2
<1>2. CASE \A p \in Procs : ~ScrapeStep(p)
  BY <1>0, <1>2, EnvServices
<1> QED BY <1>1, <1>2

LEMMA StepCleanupComplete ==
  TypeOK /\ FailuresCounted /\ CleanupComplete /\ [Next]_vars => CleanupComplete'
<1> SUFFICES ASSUME TypeOK, FailuresCounted, CleanupComplete, [Next]_vars,
                    NEW q \in Procs, NEW s \in Services, ServiceVendor[s] = VendorOf[q]
             PROVE  /\ pc'[q] = "prev" => svc'[q][s] \in {"done", "failed", "missed"} /\ ~scrapeErr'[q]
                    /\ pc'[q] \in {"count", "delete"} => svc'[q][s] \in {"done", "missed"}
  BY DEF CleanupComplete
<1> DEFINE Goal == /\ pc'[q] = "prev" => svc'[q][s] \in {"done", "failed", "missed"} /\ ~scrapeErr'[q]
                   /\ pc'[q] \in {"count", "delete"} => svc'[q][s] \in {"done", "missed"}
<1>t. pc \in [Procs -> Steps] /\ failed \in [Procs -> Nat] BY DEF TypeOK
<1>0. CASE svc'[q] = svc[q] /\ scrapeErr'[q] = scrapeErr[q] /\ pc'[q] = pc[q]
  BY <1>0 DEF CleanupComplete
<1>1. CASE pc'[q] \notin {"prev", "count", "delete"}
  BY <1>1
<1>2. ASSUME NEW p \in Procs, ScrapeStep(p) PROVE Goal
  <2>1. CASE q # p BY <1>0, <1>2, <2>1, OthersStay, OthersKeep
  <2>2. CASE q = p
    <3>1. CASE UNCHANGED <<svc, batch, failed, scrapeErr>>
      <4>1. CASE ScrapeReturnsNil(p)
        BY <1>t, <2>2, <3>1, <4>1 DEF ScrapeReturnsNil, Goto, Settled, ServicesOf
      <4>2. CASE ReadPrevCount(p)
        <5>1. pc[p] = "prev" /\ (pc'[p] = "count" => ~(failed[p] > 0)) /\ pc'[p] \notin {"prev", "delete"}
          BY <1>t, <4>2 DEF ReadPrevCount, AfterPrev, Goto
        <5>2. pc'[p] = "count" => svc[p][s] # "failed"
          BY <2>2, <5>1 DEF FailuresCounted, CleanupComplete
        <5> QED BY <2>2, <3>1, <5>1, <5>2 DEF CleanupComplete
      <4>3. CASE CountSeen(p)
        <5>1. pc[p] = "count" /\ pc'[p] # "prev"
          BY <1>t, <4>3 DEF CountSeen, Goto
        <5> QED BY <2>2, <3>1, <5>1 DEF CleanupComplete
      <4>4. CASE \/ AcquireScrapeLock(p) \/ SelectNow(p) \/ StartScrapeRun(p)
        BY <1>1, <1>t, <2>2, <4>4 DEF AcquireScrapeLock, SelectNow, StartScrapeRun, FailEarly, Return, Goto
      <4>5. CASE \E u \in UnitsOf(VendorOf[p]) : UpsertBatch(p, u) \/ MarkSeen(p, u) \/ HandlerFails(p, u)
        BY <1>0, <2>2, <3>1, <4>5 DEF UpsertBatch, MarkSeen, HandlerFails, control
      <4>6. CASE \E x \in Services : FetchService(p, x) \/ FetchFails(p, x) \/ ServiceUndiscovered(p, x)
        BY <1>0, <2>2, <3>1, <4>6 DEF FetchService, FetchFails, ServiceUndiscovered, control
      <4>7. CASE ScrapeReturnsError(p) \/ DeleteStaleProducts(p)
        BY <1>1, <1>t, <2>2, <4>7 DEF ScrapeReturnsError, DeleteStaleProducts, Goto
      <4>8. CASE Finish(p) \/ PruneScrapeRuns(p) \/ ClearSeen(p) \/ Unlock(p)
        BY <1>1, <1>t, <2>2, <4>8 DEF Finish, PruneScrapeRuns, ClearSeen, Unlock, Return, Goto
      <4> QED BY <1>2, <4>1, <4>2, <4>3, <4>4, <4>5, <4>6, <4>7, <4>8 DEF ScrapeStep
    <3>2. CASE pc'[p] = "done" \/ (pc[p] = "scrape" /\ pc' = pc)
      BY <1>1, <2>2, <3>2
    <3> QED BY <1>2, <3>1, <3>2, OwnServices, StillScraping
  <2> QED BY <2>1, <2>2
<1>3. CASE \A p \in Procs : ~ScrapeStep(p)
  BY <1>0, <1>1, <1>3, EnvServices
<1> QED BY <1>2, <1>3

LEMMA StepAllDiscovered ==
  ASSUME Budget["undiscovered"] = 0, TypeOK, BudgetKept, AllDiscovered, [Next]_vars
  PROVE  AllDiscovered'
<1> SUFFICES ASSUME NEW q \in Procs, NEW s \in Services PROVE svc'[q][s] # "missed"
  BY DEF AllDiscovered
<1>t. svc \in [Procs -> [Services -> SvcStates]] BY DEF TypeOK
<1>0. CASE svc'[q] = svc[q] BY <1>0 DEF AllDiscovered
<1>1. ASSUME NEW p \in Procs, ScrapeStep(p) PROVE svc'[q][s] # "missed"
  <2>1. CASE q # p BY <1>0, <1>1, <2>1, OthersKeep
  <2>2. CASE q = p
    <3>1. ASSUME NEW x \in Services PROVE ~ServiceUndiscovered(p, x)
      BY DEF ServiceUndiscovered, Spend, BudgetKept, EnvEvents
    <3>2. ASSUME NEW x \in Services, FetchService(p, x) \/ FetchFails(p, x) PROVE svc'[q][s] # "missed"
      BY <1>t, <2>2, <3>2 DEF AllDiscovered, FetchService, FetchFails, GiveUp
    <3>3. ASSUME NEW u, MarkSeen(p, u) \/ HandlerFails(p, u) PROVE svc'[q][s] # "missed"
      BY <1>t, <2>2, <3>3 DEF AllDiscovered, MarkSeen, HandlerFails, GiveUp
    <3> QED BY <1>0, <1>1, <2>2, <3>1, <3>2, <3>3, OwnServices
  <2> QED BY <2>1, <2>2
<1>2. CASE \A p \in Procs : ~ScrapeStep(p)
  BY <1>0, <1>2, EnvServices
<1> QED BY <1>1, <1>2

\* Only MarkSeen and the handler's failures add to scrape_seen, only ClearSeen
\* takes from it.
LEMMA SeenGrows ==
  ASSUME TypeOK, NEW p \in Procs, ScrapeStep(p), ~ClearSeen(p), NEW r \in RunIds
  PROVE  scrapeSeen[r] \subseteq scrapeSeen'[r]
<1> scrapeSeen \in [RunIds -> SUBSET Products] BY DEF TypeOK
<1>1. CASE AcquireScrapeLock(p) \/ SelectNow(p) \/ StartScrapeRun(p)
  BY <1>1 DEF AcquireScrapeLock, SelectNow, StartScrapeRun
<1>2. CASE \E s \in Services : FetchService(p, s) \/ FetchFails(p, s) \/ ServiceUndiscovered(p, s)
  BY <1>2 DEF FetchService, FetchFails, ServiceUndiscovered, db
<1>3. CASE \E u \in UnitsOf(VendorOf[p]) : UpsertBatch(p, u) \/ MarkSeen(p, u) \/ HandlerFails(p, u)
  BY <1>3 DEF UpsertBatch, MarkSeen, HandlerFails
<1>4. CASE ScrapeReturnsNil(p) \/ ScrapeReturnsError(p)
  BY <1>4 DEF ScrapeReturnsNil, ScrapeReturnsError, db
<1>5. CASE ReadPrevCount(p) \/ CountSeen(p) \/ DeleteStaleProducts(p)
  BY <1>5 DEF ReadPrevCount, CountSeen, DeleteStaleProducts, db
<1>6. CASE Finish(p) \/ PruneScrapeRuns(p) \/ Unlock(p)
  BY <1>6 DEF Finish, PruneScrapeRuns, Unlock
<1> QED BY <1>1, <1>2, <1>3, <1>4, <1>5, <1>6 DEF ScrapeStep

\* No process sweeps the seen-set of a run in progress: its row is running.
LEMMA SeenOutlives ==
  ASSUME TypeOK, RunsOwned, NEW p \in Procs, ScrapeStep(p), NEW q \in Procs, pc[q] \in Unfinished
  PROVE  scrapeSeen[runID[q]] \subseteq scrapeSeen'[runID[q]]
<1>1. runID[q] \in RunIds /\ pc[q] \in InRun /\ scrapeRuns[runID[q]].status = "running"
  BY DEF RunsOwned, InRun
<1>2. CASE ClearSeen(p)
  <2>1. pc[p] \in InRun /\ p # q
    BY <1>2 DEF ClearSeen, InRun, Unfinished
  <2>2. runID[q] # runID[p]
    BY <1>1, <2>1 DEF RunsOwned
  <2>3. runID[q] \notin SweptRuns(runID[p])
    BY <1>1, <2>2 DEF SweptRuns
  <2> QED BY <1>1, <1>2, <2>3 DEF ClearSeen
<1>3. CASE ~ClearSeen(p)
  BY <1>1, <1>3, SeenGrows
<1> QED BY <1>2, <1>3

\* Nor does a statement without a client.
LEMMA StrayMarks ==
  ASSUME TypeOK, StrayCommits, NEW r \in RunIds
  PROVE  scrapeSeen[r] \subseteq scrapeSeen'[r]
<1>1. scrapeSeen \in [RunIds -> SUBSET Products] BY DEF TypeOK
<1> QED BY <1>1 DEF StrayCommits

LEMMA StepSeenSetKept ==
  ASSUME LongRuns = FALSE, Budget["pgcrash"] = 0,
         TypeOK, BudgetKept, RunsOwned, FreshLocals, SeenSetKept, [Next]_vars
  PROVE  SeenSetKept'
<1> USE StructureAssumption
<1> SUFFICES ASSUME NEW q \in Procs, NEW h \in Products,
                    pc'[q] \in Unfinished, svc'[q][ServiceOf[h]] = "done", batch'[q][h] # Absent
             PROVE  h \in scrapeSeen'[runID'[q]]
  BY DEF SeenSetKept
<1>t. /\ pc \in [Procs -> Steps]
      /\ scrapeSeen \in [RunIds -> SUBSET Products]
      /\ runID \in [Procs -> RunIds \cup {0}]
      /\ svc \in [Procs -> [Services -> SvcStates]]
      /\ batch \in [Procs -> [Products -> Contents \cup {Absent}]]
  BY DEF TypeOK
\* The run goes on and its seen-set does not shrink.
<1>0. ASSUME pc[q] \in Unfinished, runID'[q] = runID[q], svc[q][ServiceOf[h]] = "done", batch[q][h] # Absent,
             scrapeSeen[runID[q]] \subseteq scrapeSeen'[runID[q]]
      PROVE  h \in scrapeSeen'[runID'[q]]
  BY <1>0 DEF SeenSetKept
<1>r. pc[q] \in Unfinished => runID[q] \in RunIds
  BY DEF RunsOwned, InRun
<1>1. ASSUME NEW p \in Procs, ScrapeStep(p) PROVE h \in scrapeSeen'[runID'[q]]
  <2>1. CASE q # p
    <3>1. pc[q] \in Unfinished /\ svc[q][ServiceOf[h]] = "done" /\ batch[q][h] # Absent
      BY <1>1, <2>1, OthersStay, OthersKeep
    <3>2. runID'[q] = runID[q]
      <4>1. CASE StartScrapeRun(p) BY <1>t, <2>1, <4>1 DEF StartScrapeRun
      <4>2. CASE ~StartScrapeRun(p) BY <1>1, <4>2, RunMoves
      <4> QED BY <4>1, <4>2
    <3>3. scrapeSeen[runID[q]] \subseteq scrapeSeen'[runID[q]]
      BY <1>1, <3>1, SeenOutlives
    <3> QED BY <1>0, <3>1, <3>2, <3>3
  <2>2. CASE q = p
    <3>1. CASE StartScrapeRun(p)
      <4>1. svc[p][ServiceOf[h]] = "todo" /\ UNCHANGED svc
        BY <3>1 DEF StartScrapeRun, FreshLocals, scraping
      <4> QED BY <2>2, <4>1
    <3>2. CASE ~StartScrapeRun(p)
      <4>1. runID' = runID /\ pc[p] \in Unfinished
        BY <1>1, <2>2, <3>2, RunMoves
      <4>2. scrapeSeen[runID[q]] \subseteq scrapeSeen'[runID[q]]
        BY <1>1, <2>2, <4>1, SeenOutlives
      <4>4. CASE UNCHANGED <<svc, batch, failed, scrapeErr>>
        BY <1>0, <2>2, <4>1, <4>2, <4>4
      <4>5. CASE pc'[p] = "done"
        BY <2>2, <4>5 DEF Unfinished
      <4>6. ASSUME NEW s \in Services, FetchService(p, s) PROVE h \in scrapeSeen'[runID'[q]]
        <5>1. CASE ServiceOf[h] # s
          <6>1. svc[q][ServiceOf[h]] = "done" /\ batch[q][h] # Absent
            BY <1>t, <2>2, <4>6, <5>1 DEF FetchService
          <6> QED BY <1>0, <2>2, <4>1, <4>2, <6>1
        <5>2. CASE ServiceOf[h] = s
          <6>1. batch'[p][h] = upstream[h]
            BY <1>t, <4>6, <5>2 DEF FetchService
          <6>2. svc'[p][s] = "fetched"
            BY <1>t, <2>2, <4>6, <5>2, <6>1 DEF FetchService
          <6> QED BY <2>2, <5>2, <6>2
        <5> QED BY <5>1, <5>2
      <4>7. ASSUME NEW s \in Services, FetchFails(p, s) \/ ServiceUndiscovered(p, s)
            PROVE  h \in scrapeSeen'[runID'[q]]
        <5>1. svc[q][ServiceOf[h]] = "done" /\ UNCHANGED batch
          BY <1>t, <2>2, <4>7 DEF FetchFails, ServiceUndiscovered, GiveUp
        <5> QED BY <1>0, <2>2, <4>1, <4>2, <5>1
      <4>8. ASSUME NEW u, HandlerFails(p, u) PROVE h \in scrapeSeen'[runID'[q]]
        <5>1. svc[q][ServiceOf[h]] = "done" /\ UNCHANGED batch
          BY <1>t, <2>2, <4>8 DEF HandlerFails, GiveUp
        <5> QED BY <1>0, <2>2, <4>1, <4>2, <5>1
      <4>9. ASSUME NEW u, MarkSeen(p, u) PROVE h \in scrapeSeen'[runID'[q]]
        <5>1. UNCHANGED batch BY <4>9 DEF MarkSeen
        <5>2. CASE svc[q][ServiceOf[h]] = "done"
          BY <1>0, <2>2, <4>1, <4>2, <5>1, <5>2
        <5>3. CASE svc[q][ServiceOf[h]] # "done"
          <6>1. ServiceOf[h] \in Fetched(p, u)
            BY <1>t, <2>2, <4>9, <5>3 DEF MarkSeen
          <6>2. h \in Handed(p, u)
            BY <2>2, <5>1, <6>1 DEF Handed
          <6> QED BY <1>t, <1>r, <2>2, <4>1, <4>9, <6>2 DEF MarkSeen
        <5> QED BY <5>2, <5>3
      <4> QED BY <1>1, <4>4, <4>5, <4>6, <4>7, <4>8, <4>9, OwnServices
    <3> QED BY <3>1, <3>2
  <2> QED BY <2>1, <2>2
<1>2. CASE \A p \in Procs : ~ScrapeStep(p)
  <2>1. pc[q] \in Unfinished /\ svc[q][ServiceOf[h]] = "done" /\ batch[q][h] # Absent
    BY <1>2, EnvServices DEF Unfinished
  <2>2. scrapeSeen[runID[q]] \subseteq scrapeSeen'[runID[q]]
    <3>1. ~PgCrash
      <4>1. budget["pgcrash"] = 0 BY DEF BudgetKept, EnvEvents
      <4> QED BY <4>1 DEF PgCrash, Spend
    <3>2. ASSUME NEW c \in Commands, Invoke(c) \/ Cancel(c) \/ Kill(c) PROVE UNCHANGED scrapeSeen
      BY <3>2 DEF Invoke, Cancel, Kill, db
    <3>3. CASE ReapStaleScrapeRuns \/ UpstreamChange \/ Seed \/ UNCHANGED vars
      BY <3>3 DEF ReapStaleScrapeRuns, UpstreamChange, Seed, vars, db
    <3>4. CASE StrayCommits
      BY <1>r, <2>1, <3>4, StrayMarks
    <3> QED BY <1>2, <3>1, <3>2, <3>3, <3>4 DEF Next
  <2>3. runID'[q] = runID[q]
    <3>1. ASSUME NEW c \in Commands, Invoke(c) PROVE runID'[q] = runID[q]
      BY <2>1, <3>1 DEF Invoke, For, Unfinished
    <3> QED BY <1>2, <3>1 DEF Next, PgCrash, Cancel, Kill, ReapStaleScrapeRuns, UpstreamChange, Seed, StrayCommits,
                              vars, locals
  <2> QED BY <1>0, <2>1, <2>2, <2>3
<1> QED BY <1>1, <1>2

\* A statement is left behind by the process that had it under way.
LEMMA NewStrays ==
  ASSUME TypeOK, [Next]_vars, NEW o \in stray' \ stray
  PROVE  /\ \E p \in Procs : o \in UnderWay(p)
         /\ \E e \in EnvEvents : \E S : Stranded(e, S)
<1>1. ASSUME NEW p \in Procs, ScrapeStep(p)
      PROVE  o \in UnderWay(p) /\ \E S : Stranded("fault", S)
  <2>1. ASSUME NEW u \in UnitsOf(VendorOf[p]), HandlerFails(p, u)
        PROVE  o \in UnderWay(p) /\ \E S : Stranded("fault", S)
    <3>1. PICK w \in HandlerStatements(p, u) : Stranded("fault", {w})
      BY <2>1 DEF HandlerFails, table
    <3>2. o = w BY <3>1 DEF Stranded
    <3> QED BY <2>1, <3>1, <3>2 DEF UnderWay
  <2>2. CASE DeleteStaleProducts(p)
    <3>1. pc[p] = "delete" /\ ~ctxDone[p] /\ Stranded("fault", {CleanupStatement(p)})
      BY <2>2 DEF DeleteStaleProducts
    <3>2. o = CleanupStatement(p) BY <3>1 DEF Stranded
    <3> QED BY <3>1, <3>2 DEF UnderWay
  <2>3. CASE \E u : UpsertBatch(p, u) \/ MarkSeen(p, u)
    BY <2>3 DEF UpsertBatch, MarkSeen, table
  <2>4. CASE \E s \in Services : FetchService(p, s) \/ FetchFails(p, s) \/ ServiceUndiscovered(p, s)
    BY <2>4 DEF FetchService, FetchFails, ServiceUndiscovered, db
  <2>5. CASE AcquireScrapeLock(p) \/ SelectNow(p) \/ StartScrapeRun(p) \/ ScrapeReturnsNil(p) \/ ScrapeReturnsError(p)
    BY <2>5 DEF AcquireScrapeLock, SelectNow, StartScrapeRun, ScrapeReturnsNil, ScrapeReturnsError, table, db
  <2>6. CASE ReadPrevCount(p) \/ CountSeen(p) \/ Finish(p) \/ PruneScrapeRuns(p) \/ ClearSeen(p) \/ Unlock(p)
    BY <2>6 DEF ReadPrevCount, CountSeen, Finish, PruneScrapeRuns, ClearSeen, Unlock, table, db
  <2> QED BY <1>1, <2>1, <2>2, <2>3, <2>4, <2>5, <2>6 DEF ScrapeStep
<1>2. ASSUME NEW c \in Commands, Kill(c)
      PROVE  (\E p \in Procs : o \in UnderWay(p)) /\ \E S : Stranded("kill", S)
  <2>1. PICK S \in SUBSET UNION {UnderWay(p) : p \in {q \in Procs : CommandOf[q] = c /\ pc[q] # "done"}} :
          Stranded("kill", S)
    BY <1>2 DEF Kill
  <2>2. o \in S BY <2>1 DEF Stranded
  <2> QED BY <2>1, <2>2
<1>3. ASSUME NEW c \in Commands PROVE ~Invoke(c) /\ ~Cancel(c)
  BY DEF Invoke, Cancel, db
<1>4. ~StrayCommits /\ ~PgCrash /\ ~ReapStaleScrapeRuns /\ ~UpstreamChange /\ ~Seed /\ ~UNCHANGED vars
  BY DEF StrayCommits, PgCrash, ReapStaleScrapeRuns, UpstreamChange, Seed, vars, db, table
<1> QED BY <1>1, <1>2, <1>3, <1>4 DEF Next, EnvEvents

LEMMA StepStraysCounted ==
  ASSUME TypeOK, BudgetBounded, StraysCounted, [Next]_vars
  PROVE  StraysCounted' /\ (NoStrayYet' => NoStrayYet /\ ~StrayCommits)
<1>1. /\ budget["stray"] \in Nat /\ Budget["stray"] \in Nat /\ budget'["stray"] \in Nat
      /\ budget'["stray"] <= budget["stray"] /\ budget["stray"] <= Budget["stray"]
  BY BudgetShrinks, NumberAssumption DEF BudgetBounded, TypeOK, EnvEvents
<1>2. NoStrayYet' => NoStrayYet BY <1>1 DEF NoStrayYet
<1>3. ASSUME NoStrayYet' PROVE stray' = {} /\ ~StrayCommits
  <2>1. stray = {} BY <1>2, <1>3 DEF StraysCounted
  <2>2. ASSUME NEW o \in stray' PROVE FALSE
    <3>1. o \in stray' \ stray BY <2>1
    <3>2. PICK e \in EnvEvents : \E S : Stranded(e, S) BY <3>1, NewStrays
    <3>3. budget'["stray"] < budget["stray"] BY <3>2, StrandedType
    <3> QED BY <1>1, <1>3, <3>3 DEF NoStrayYet
  <2> QED BY <2>1, <2>2 DEF StrayCommits
<1> QED BY <1>2, <1>3 DEF StraysCounted

\* What a cleanup names, given that it is only reached with every service scraped
\* and everything scraped still in the seen-set.
LEMMA StaleIsCondemned ==
  ASSUME TypeOK, SeenSetKept, CleanupComplete, AllDiscovered,
         NEW p \in Procs, pc[p] = "delete", NEW h \in StaleProducts(p)
  PROVE  Condemned(p, h)
<1> USE StructureAssumption
<1>1. h \in Products /\ VendorOf[p] = ServiceVendor[ServiceOf[h]] /\ h \notin scrapeSeen[runID[p]]
  BY DEF StaleProducts, ProductsOf
<1>2. svc[p][ServiceOf[h]] = "done"
  BY <1>1 DEF CleanupComplete, AllDiscovered
<1>3. batch[p][h] = Absent
  BY <1>1, <1>2 DEF SeenSetKept, Unfinished
<1> QED BY <1>1, <1>2, <1>3 DEF Condemned

\* The rows a step deletes.
LEMMA RowsLeaveStep ==
  ASSUME TypeOK, SeenSetKept, CleanupComplete, AllDiscovered, [Next]_vars,
         NEW h \in Products, products[h] # Absent, products'[h] = Absent
  PROVE  \/ \E p \in Procs : Condemned(p, h)
         \/ \E o \in stray : o.kind = "delete" /\ h \in RowsOf(o)
<1> USE StructureAssumption
<1>t. /\ products \in [Products -> Contents \cup {Absent}]
      /\ batch \in [Procs -> [Products -> Contents \cup {Absent}]]
  BY DEF TypeOK
\* An upsert never writes an absent product.
<1>0. ASSUME NEW B, NEW content, NEW at, UpsertAt(B, content, at), \A x \in B : content[x] # Absent PROVE FALSE
  BY <1>0 DEF UpsertAt
<1>1. ASSUME NEW p \in Procs, ScrapeStep(p) PROVE DeleteStaleProducts(p)
  <2>1. ASSUME NEW u PROVE \A x \in ToUpsert(p, u) : batch[p][x] # Absent
    BY DEF ToUpsert, Handed
  <2>2. ASSUME NEW u PROVE ~UpsertBatch(p, u)
    BY <1>0, <2>1 DEF UpsertBatch, Upsert
  <2>3. ASSUME NEW u PROVE ~HandlerFails(p, u)
    BY <1>0, <2>1 DEF HandlerFails, Upsert, table
  <2>4. CASE \E u : MarkSeen(p, u)
    BY <2>4 DEF MarkSeen, table
  <2>5. CASE \E s \in Services : FetchService(p, s) \/ FetchFails(p, s) \/ ServiceUndiscovered(p, s)
    BY <2>5 DEF FetchService, FetchFails, ServiceUndiscovered, db
  <2>6. CASE AcquireScrapeLock(p) \/ SelectNow(p) \/ StartScrapeRun(p) \/ ScrapeReturnsNil(p) \/ ScrapeReturnsError(p)
    BY <2>6 DEF AcquireScrapeLock, SelectNow, StartScrapeRun, ScrapeReturnsNil, ScrapeReturnsError, table, db
  <2>7. CASE ReadPrevCount(p) \/ CountSeen(p) \/ Finish(p) \/ PruneScrapeRuns(p) \/ ClearSeen(p) \/ Unlock(p)
    BY <2>7 DEF ReadPrevCount, CountSeen, Finish, PruneScrapeRuns, ClearSeen, Unlock, table, db
  <2> QED BY <1>1, <2>2, <2>3, <2>4, <2>5, <2>6, <2>7 DEF ScrapeStep
<1>2. ~Seed
  <2>1. ASSUME NEW C \in SUBSET Products, NEW x \in Contents, Upsert(C, [y \in Products |-> x]) PROVE FALSE
    BY <1>0, <2>1 DEF Upsert
  <2> QED BY <2>1 DEF Seed
<1>3. CASE StrayCommits
  <2>1. ASSUME NEW o \in stray PROVE ~UpsertAt(RowsOf(o), o.rows, o.at)
    BY <1>0 DEF RowsOf
  <2> QED BY <1>3, <2>1 DEF StrayCommits, Delete
<1>4. CASE ~StrayCommits
  <2>1. PICK p \in Procs : DeleteStaleProducts(p)
    BY <1>1, <1>2, <1>4 DEF Next, Invoke, Cancel, Kill, PgCrash, ReapStaleScrapeRuns, UpstreamChange, vars, db, table
  <2>2. pc[p] = "delete" /\ h \in StaleProducts(p)
    BY <2>1 DEF DeleteStaleProducts, Delete
  <2> QED BY <2>2, StaleIsCondemned
<1> QED BY <1>3, <1>4

\* The rows a DELETE is left behind for.
LEMMA DeletesLeftStep ==
  ASSUME TypeOK, SeenSetKept, CleanupComplete, AllDiscovered, [Next]_vars,
         NEW o \in stray' \ stray, o.kind = "delete", NEW h \in RowsOf(o)
  PROVE  \E p \in Procs : Condemned(p, h)
<1>1. PICK p \in Procs : o \in UnderWay(p)
  BY NewStrays
<1>2. pc[p] = "delete" /\ o = CleanupStatement(p)
  BY <1>1, HandlerStatementsType DEF UnderWay
<1>3. h \in StaleProducts(p)
  BY <1>2 DEF RowsOf, CleanupStatement, StatementOf
<1> QED BY <1>2, <1>3, StaleIsCondemned

\* Stale cleanup never removes a live product: while Postgres stays up, no live
\* run outlasts the reaper and service discovery works, a products row only
\* disappears by the DELETE of a cleanup whose own run scraped the row's service and
\* did not find it listed, whatever statements fail, processes die and statements
\* outlive them on the way.
THEOREM CleanupSafe ==
  ASSUME Budget["pgcrash"] = 0, Budget["undiscovered"] = 0, LongRuns = FALSE
  PROVE  Spec => RowsLeaveOnlyWhenUnlisted
<1> DEFINE Inv == BudgetKept /\ RunsOwned /\ FreshLocals /\ SeenSetKept
                  /\ FailuresCounted /\ CleanupComplete /\ AllDiscovered
<1>1. Init => Inv
  <2>1. Init => BudgetKept /\ FreshLocals BY DEF Init, BudgetKept, FreshLocals
  <2>2. Init => FailuresCounted /\ AllDiscovered /\ CleanupComplete
    BY DEF Init, FailuresCounted, AllDiscovered, CleanupComplete
  <2>3. Init => SeenSetKept BY DEF Init, SeenSetKept, Unfinished
  <2> QED BY <2>1, <2>2, <2>3, InitRunsOwned
<1>2. TypeOK /\ Inv /\ [Next]_vars => Inv'
  BY StepBudgetKept, StepRunsOwned, StepFreshLocals, StepSeenSetKept, StepFailuresCounted,
     StepCleanupComplete, StepAllDiscovered
<1>3. TypeOK /\ Inv /\ [Next]_vars =>
        [/\ \A h \in Products :
              products[h] # Absent /\ products'[h] = Absent =>
                \/ \E p \in Procs : Condemned(p, h)
                \/ \E o \in stray : o.kind = "delete" /\ h \in RowsOf(o)
         /\ \A o \in stray' \ stray : \A h \in RowsOf(o) :
              o.kind = "delete" => \E p \in Procs : Condemned(p, h)]_vars
  BY RowsLeaveStep, DeletesLeftStep
<1> QED BY <1>1, <1>2, <1>3, TypeCorrect, PTL DEF Spec, RowsLeaveOnlyWhenUnlisted

\* Under the same conditions on Postgres and on the length of runs, a run in
\* progress never loses a product from its seen-set, whoever sweeps the table.
THEOREM SeenSetSafe ==
  ASSUME Budget["pgcrash"] = 0, LongRuns = FALSE
  PROVE  Spec => []SeenSetKept
<1> DEFINE Inv == BudgetKept /\ RunsOwned /\ FreshLocals /\ SeenSetKept
<1>1. Init => Inv
  BY InitRunsOwned DEF Init, BudgetKept, FreshLocals, SeenSetKept, Unfinished
<1>2. TypeOK /\ Inv /\ [Next]_vars => Inv'
  BY StepBudgetKept, StepRunsOwned, StepFreshLocals, StepSeenSetKept
<1> QED BY <1>1, <1>2, TypeCorrect, PTL DEF Spec
=============================================================================
