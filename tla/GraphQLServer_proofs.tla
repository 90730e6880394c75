------------------------ MODULE GraphQLServer_proofs ------------------------
(* Theorems about GraphQLServer, for any number of requests, any bodies and *)
(* every configuration of the limits.                                       *)
EXTENDS GraphQLServer, FiniteSetTheorems, SequenceTheorems, TLAPS

-----------------------------------------------------------------------------
(* The inductive invariant, one request at a time *)

Underway == {"loop", "exec", "replied"}

\* An executor without its handler is one whose context is done, so that the loop
\* starts no other; and the connections are those of the queries that run.
ExecutorInv(r) ==
  /\ epc[r] # "idle" => rpc[r] \in Underway /\ field[r] > 0
  /\ epc[r] # "idle" /\ rpc[r] # "exec" => ctxDone[r] /\ epc[r] # "finished"
  /\ r \in conns <=> epc[r] = "query"

\* The item a handler or an executor works on is one of the body's.
ItemInv(r) ==
  rpc[r] \in Underway =>
    /\ cur[r] \in 1 .. Len(body[r]) + 1
    /\ DOMAIN results[r] = 1 .. Len(body[r])
    /\ rpc[r] = "exec" => cur[r] <= Len(body[r])
    /\ epc[r] # "idle" /\ rpc[r] # "exec" => cur[r] > 1

\* The three parts of a budget always make up the whole, and a query that will be
\* sent has been taken from it.
BudgetInv(r) ==
  /\ epc[r] \notin {"acquire", "query"} => reserved[r] = 0
  /\ rpc[r] \notin Underway => productsUsed[r] = 0 /\ queriesSent[r] = 0
  /\ rpc[r] \in Underway =>
       /\ IF MaxProductsPerRequest > 0
            THEN productsLeft[r] >= 0 /\ productsLeft[r] + reserved[r] + productsUsed[r] = MaxProductsPerRequest
            ELSE productsLeft[r] = -1
       /\ IF MaxProductQueriesPerRequest > 0
            THEN /\ queriesLeft[r] >= 0
                 /\ queriesLeft[r] + queriesSent[r] + (IF epc[r] = "acquire" THEN 1 ELSE 0)
                      <= MaxProductQueriesPerRequest
            ELSE queriesLeft[r] = -1

\* Each query sent may read as many rows as the whole budget, and no more.
RowCap(r) == queriesSent[r] * MaxProductsPerRequest
RowsInv(r) ==
  /\ rpc[r] \notin Underway => rowsRead[r] = 0 /\ queriesSent[r] = 0
  /\ MaxProductsPerRequest > 0 => rowsRead[r] + (IF epc[r] = "query" THEN reserved[r] ELSE 0) <= RowCap(r)

\* Items before the current one are answered, none of them by a timeout, and only the
\* last of them by a cancellation, which the loop cannot go on from.
ResultsInv(r) ==
  /\ rpc[r] \in {"loop", "exec"} =>
       \A i \in 1 .. Len(body[r]) : i < cur[r] =>
         /\ results[r][i] \notin {"none", "timeout"}
         /\ results[r][i] = "cancelled" => rpc[r] = "loop" /\ ctxDone[r] /\ i + 1 = cur[r]
  /\ rpc[r] = "replied" =>
       /\ \A i \in 1 .. Len(body[r]) : results[r][i] # "none"
       /\ \A i, j \in 1 .. Len(body[r]) :
            i < j /\ results[r][i] \in {"cancelled", "timeout"} => results[r][j] = "timeout"

RequestInv(r) == ExecutorInv(r) /\ ItemInv(r) /\ BudgetInv(r) /\ RowsInv(r) /\ ResultsInv(r)

\* The tokens in the semaphore are those of the requests it let in.
InService == {r \in Requests : rpc[r] \in Serving}
SlotInv ==
  /\ IsFiniteSet(InService)
  /\ inflightLimit > 0 => inflight = Cardinality(InService) /\ inflight <= inflightLimit

Inv == TypeOK /\ (\A r \in Requests : RequestInv(r)) /\ SlotInv

-----------------------------------------------------------------------------
(* What the steps have in common *)

\* A limit of zero is no limit.
LEMMA LimitType == inflightLimit \in Nat
BY ServerAssumption DEF inflightLimit

\* A request and what it sent.
LEMMA BodyType == ASSUME TypeOK, NEW r \in Requests
                  PROVE body[r] \in Seq(Document) /\ Len(body[r]) \in Nat
BY BodyAssumption DEF TypeOK

\* The executor's document is one of the body's, so its fields are fields.
LEMMA FieldsType ==
  ASSUME TypeOK, NEW r \in Requests, RequestInv(r), epc[r] # "idle"
  PROVE  Fields(r) \in Seq(Field)
<1> DEFINE i == IF rpc[r] = "exec" THEN cur[r] ELSE cur[r] - 1
<1>1. i \in 1 .. Len(body[r])
  <2>1. cur[r] \in Nat /\ Len(body[r]) \in Nat BY BodyType DEF TypeOK
  <2> QED BY <2>1 DEF RequestInv, ExecutorInv, ItemInv, Underway
<1>2. body[r][i] \in Document
  BY <1>1, BodyType, ElementOfSeq
<1> QED BY <1>2 DEF Fields, Document

\* A reservation is at least one row and no more than is left.
LEMMA GrantedType ==
  ASSUME TypeOK, NEW r \in Requests, NEW f \in Field
  PROVE  /\ Granted(r, f.limit) \in Nat \ {0}
         /\ productsLeft[r] > 0 => Granted(r, f.limit) <= productsLeft[r]
<1>1. f.limit \in Int BY ServerAssumption DEF Field
<1>2. productsLeft[r] \in Int BY DEF TypeOK
<1> QED BY <1>1, <1>2, ServerAssumption DEF Granted, EffectiveLimit

\* What the resolver reserves for the field it is at.
LEMMA ReserveType ==
  ASSUME TypeOK, NEW r \in Requests, RequestInv(r), Resolve(r)
  PROVE  LET n == Granted(r, Fields(r)[field[r]].limit)
         IN n \in Nat \ {0} /\ (productsLeft[r] > 0 => n <= productsLeft[r])
<1>1. epc[r] = "resolve" /\ field[r] <= Len(Fields(r)) BY DEF Resolve
<1>2. Fields(r) \in Seq(Field) BY <1>1, FieldsType
<1>3. field[r] \in 1 .. Len(Fields(r))
  BY <1>1, <1>2, LenProperties DEF TypeOK, RequestInv, ExecutorInv
<1>4. Fields(r)[field[r]] \in Field BY <1>2, <1>3, ElementOfSeq
<1> QED BY <1>4, GrantedType

\* One request's steps leave the others as they are.
LEMMA OthersStay ==
  ASSUME TypeOK, NEW q \in Requests, NEW r \in Requests, r # q, RequestInv(r),
         HandlerStep(q) \/ ExecutorStep(q) \/ Timeout(q) \/ Disconnect(q)
  PROVE  RequestInv(r)'
<1> DEFINE Same ==
      /\ rpc'[r] = rpc[r] /\ body'[r] = body[r] /\ cur'[r] = cur[r]
      /\ results'[r] = results[r] /\ ctxDone'[r] = ctxDone[r]
      /\ epc'[r] = epc[r] /\ field'[r] = field[r] /\ reserved'[r] = reserved[r]
      /\ productsLeft'[r] = productsLeft[r] /\ queriesLeft'[r] = queriesLeft[r]
      /\ rowsRead'[r] = rowsRead[r] /\ productsUsed'[r] = productsUsed[r] /\ queriesSent'[r] = queriesSent[r]
      /\ r \in conns' <=> r \in conns
<1>1. Same
  <2> USE DEF TypeOK, server, handler, executor, budget, spent, Goto
  <2>1. CASE HandlerStep(q)
    BY <2>1 DEF HandlerStep, Admit, Wait, WaitTimesOut, WaitAbandoned, Begin, Reply, Refuse, Execute,
                Executed, Return, Answer
  <2>2. CASE Resolve(q)
    BY <2>2 DEF Resolve, NextField, FailField
  <2>3. CASE FinishDocument(q) \/ AcquireConn(q) \/ NoQuery(q)
    BY <2>3 DEF FinishDocument, AcquireConn, NoQuery, NextField, FailField, Settle, refund
  <2>4. ASSUME NEW n \in 0 .. MaxProductLimit, QueryReturns(q, n) \/ QueryFails(q, n) 
        PROVE  Same
    BY <2>4 DEF QueryReturns, QueryFails, NextField, FailField, Settle, refund
  <2>5. CASE Timeout(q) \/ Disconnect(q)
    BY <2>5 DEF Timeout, Disconnect
  <2> HIDE DEF Same
  <2> QED BY <2>1, <2>2, <2>3, <2>4, <2>5 DEF ExecutorStep
<1> QED BY <1>1 DEF RequestInv, ExecutorInv, ItemInv, BudgetInv, RowsInv, RowCap, ResultsInv

-----------------------------------------------------------------------------
(* Types *)

\* A request in a slot has a token in the semaphore to give back.
LEMMA ReleaseType ==
  ASSUME TypeOK, SlotInv, NEW r \in Requests, rpc[r] \in Serving, ReleaseSlot
  PROVE  inflight' \in Nat
<1>1. CASE inflightLimit = 0
  BY <1>1 DEF ReleaseSlot, TypeOK
<1>2. CASE inflightLimit > 0
  <2>1. r \in InService BY DEF InService
  <2>2. Cardinality(InService) # 0 /\ Cardinality(InService) \in Nat
    BY <2>1, FS_EmptySet, FS_CardinalityType DEF SlotInv
  <2> QED BY <1>2, <2>2 DEF SlotInv, ReleaseSlot
<1> QED BY <1>1, <1>2, LimitType

\* A query ends with some of its rows handed on, and the resolver goes to the next field.
LEMMA QueryEnds ==
  ASSUME NEW r \in Requests, NEW n \in Nat, QueryReturns(r, n) \/ QueryFails(r, n)
  PROVE  \E used \in Nat : used <= n /\ Settle(r, n, used) /\ NextField(r)
BY DEF QueryReturns, QueryFails, Kept, FailField

\* Settling a reservation keeps the counters' types.
LEMMA SettleType ==
  ASSUME TypeOK, NEW r \in Requests, NEW n \in Nat, NEW used \in Nat, Settle(r, n, used)
  PROVE  /\ productsLeft' \in [Requests -> Int] /\ reserved' \in [Requests -> Nat]
         /\ rowsRead' \in [Requests -> Nat] /\ productsUsed' \in [Requests -> Nat]
         /\ queriesLeft' \in [Requests -> Int]
<1>1. /\ productsLeft \in [Requests -> Int] /\ reserved \in [Requests -> Nat]
      /\ rowsRead \in [Requests -> Nat] /\ productsUsed \in [Requests -> Nat]
      /\ queriesLeft \in [Requests -> Int]
  BY DEF TypeOK
<1>2. productsLeft' \in [Requests -> Int]
  BY <1>1 DEF Settle, refund
<1> QED BY <1>1, <1>2 DEF Settle

\* Every step keeps the types.
LEMMA StepTypeOK ==
  ASSUME Inv, NEW r \in Requests, HandlerStep(r) \/ ExecutorStep(r) \/ Timeout(r) \/ Disconnect(r)
  PROVE  TypeOK'
<1>1. TypeOK /\ RequestInv(r) /\ SlotInv BY DEF Inv
<1> USE DEF server, handler, executor, budget, spent, Goto
<1>2. CASE Admit(r) \/ Wait(r) \/ WaitTimesOut(r) \/ WaitAbandoned(r)
  <2>1. CASE Admit(r)
    BY <1>1, <2>1, LimitType DEF Admit, TakeSlot, TypeOK, Serving
  <2>2. CASE Wait(r)
    BY <1>1, <2>2 DEF Wait, TypeOK, Waiting
  <2>3. CASE WaitTimesOut(r)
    BY <1>1, <2>3 DEF WaitTimesOut, TypeOK, Over
  <2>4. CASE WaitAbandoned(r)
    BY <1>1, <2>4 DEF WaitAbandoned, TypeOK, Over
  <2> QED BY <1>2, <2>1, <2>2, <2>3, <2>4
<1>3. CASE Begin(r)
  <2>1. CASE Return(r, "badRequest") /\ UNCHANGED <<cur, results, budget>>
    <3>1. inflight' \in Nat
      BY <1>1, <1>3, <2>1, ReleaseType DEF Begin, Return, Serving
    <3> QED BY <1>1, <1>3, <2>1, <3>1 DEF Begin, Return, TypeOK, Over
  <2>2. CASE ~(Return(r, "badRequest") /\ UNCHANGED <<cur, results, budget>>)
    <3>1. [i \in 1 .. Len(body[r]) |-> "none"] \in Seq(Outcomes)
      BY <1>1, BodyType DEF Outcomes
    <3>2. Allowance(MaxProductsPerRequest) \in Int /\ Allowance(MaxProductQueriesPerRequest) \in Int
      BY ServerAssumption DEF Allowance
    <3>3. /\ UNCHANGED <<inflight, conns, body, ctxDone, epc, field, fieldErr, reserved, rowsRead, productsUsed, queriesSent>>
          /\ rpc' = [rpc EXCEPT ![r] = "loop"] /\ cur' = [cur EXCEPT ![r] = 1]
          /\ results' = [results EXCEPT ![r] = [i \in 1 .. Len(body[r]) |-> "none"]]
          /\ productsLeft' = [productsLeft EXCEPT ![r] = Allowance(MaxProductsPerRequest)]
          /\ queriesLeft' = [queriesLeft EXCEPT ![r] = Allowance(MaxProductQueriesPerRequest)]
      BY <1>3, <2>2 DEF Begin
    <3> QED BY <1>1, <3>1, <3>2, <3>3 DEF TypeOK, Serving
  <2> QED BY <2>1, <2>2
<1>4. CASE Reply(r)
  <2>1. inflight' \in Nat
    BY <1>1, <1>4, ReleaseType DEF Reply, Return, Serving
  <2>2. rpc[r] = "loop" BY <1>4 DEF Reply
  <2>3. Fill(r) \in Seq(Outcomes)
    <3>1. \A j \in 1 .. Len(body[r]) : results[r][j] \in Outcomes
      BY <1>1, <2>2 DEF TypeOK, RequestInv, ItemInv, Underway
    <3> QED BY <1>1, <3>1, BodyType DEF Fill, Outcomes
  <2>4. results' \in [Requests -> Seq(Outcomes)]
    BY <1>1, <1>4, <2>3 DEF Reply, TypeOK
  <2> QED BY <1>1, <1>4, <2>1, <2>4 DEF Reply, Return, TypeOK, Over
<1>5. ASSUME NEW res \in Outcomes, Answer(r, res), rpc[r] \in {"loop", "exec"}, cur[r] <= Len(body[r])
      PROVE  /\ cur' \in [Requests -> Nat]
             /\ results' \in [Requests -> Seq(Outcomes)]
  <2>1. results[r] \in Seq(Outcomes) /\ cur[r] \in 1 .. Len(results[r])
    BY <1>1, <1>5, BodyType DEF TypeOK, RequestInv, ItemInv, Underway
  <2>2. [results[r] EXCEPT ![cur[r]] = res] \in Seq(Outcomes)
    BY <2>1, <1>5, ExceptSeq
  <2> QED BY <1>1, <1>5, <2>2 DEF Answer, TypeOK
<1>6. CASE Refuse(r)
  BY <1>1, <1>5, <1>6 DEF Refuse, TypeOK, Outcomes
<1>7. CASE Execute(r)
  BY <1>1, <1>7 DEF Execute, TypeOK, Serving
<1>8. CASE Executed(r)
  <2>1. cur[r] <= Len(body[r]) /\ rpc[r] = "exec"
    BY <1>1, <1>8 DEF Executed, RequestInv, ItemInv, Underway
  <2>2. \E res \in Outcomes : Answer(r, res)
    BY <1>8 DEF Executed, Outcomes
  <2> QED BY <1>1, <1>5, <1>8, <2>1, <2>2 DEF Executed, TypeOK, Serving
<1>9. CASE Resolve(r)
  <2>1. CASE FailField(r) /\ UNCHANGED <<reserved, budget>>
    BY <1>1, <1>9, <2>1 DEF Resolve, FailField, NextField, TypeOK
  <2>2. CASE ~(FailField(r) /\ UNCHANGED <<reserved, budget>>)
    <3> DEFINE n == Granted(r, Fields(r)[field[r]].limit)
    <3>1. n \in Nat BY <1>1, <1>9, ReserveType
    <3>2. /\ UNCHANGED <<inflight, conns, rpc, body, cur, results, ctxDone, field, fieldErr, rowsRead, productsUsed, queriesSent>>
          /\ epc' = [epc EXCEPT ![r] = "acquire"]
          /\ reserved' = [reserved EXCEPT ![r] = n]
          /\ queriesLeft' = [queriesLeft EXCEPT ![r] = IF @ > 0 THEN @ - 1 ELSE @]
          /\ productsLeft' = [productsLeft EXCEPT ![r] = IF @ > 0 THEN @ - n ELSE @]
      BY <1>9, <2>2 DEF Resolve
    <3> HIDE DEF n
    <3> QED BY <1>1, <3>1, <3>2 DEF TypeOK
  <2> QED BY <2>1, <2>2
<1>10. CASE FinishDocument(r)
  BY <1>1, <1>10 DEF FinishDocument, TypeOK
<1>11. CASE AcquireConn(r)
  BY <1>1, <1>11 DEF AcquireConn, TypeOK
<1>12. ASSUME NEW n \in Nat, NEW used \in Nat, Settle(r, n, used), NextField(r), conns' \subseteq conns,
              fieldErr' \in [Requests -> BOOLEAN], UNCHANGED <<inflight, handler, queriesSent>>
       PROVE  TypeOK'
  <2>1. /\ productsLeft' \in [Requests -> Int] /\ reserved' \in [Requests -> Nat]
        /\ rowsRead' \in [Requests -> Nat] /\ productsUsed' \in [Requests -> Nat]
        /\ queriesLeft' \in [Requests -> Int]
    BY <1>1, <1>12, SettleType
  <2>2. epc' \in [Requests -> {"idle", "resolve", "acquire", "query", "finished"}] /\ field' \in [Requests -> Nat]
    BY <1>1, <1>12 DEF NextField, TypeOK
  <2> QED BY <1>1, <1>12, <2>1, <2>2 DEF TypeOK
<1>13. CASE NoQuery(r)
  BY <1>1, <1>12, <1>13 DEF NoQuery, FailField, TypeOK
<1>14. ASSUME NEW n \in 0 .. MaxProductLimit, QueryReturns(r, n) \/ QueryFails(r, n) PROVE TypeOK'
  <2>1. n \in Nat BY ServerAssumption
  <2>2. fieldErr' \in [Requests -> BOOLEAN]
    BY <1>1, <1>14 DEF QueryReturns, QueryFails, FailField, TypeOK
  <2>3. PICK used \in Nat : Settle(r, n, used) /\ NextField(r)
    BY <1>14, <2>1, QueryEnds
  <2> QED BY <1>12, <1>14, <2>1, <2>2, <2>3 DEF QueryReturns, QueryFails
<1>15. CASE Timeout(r) \/ Disconnect(r)
  BY <1>1, <1>15 DEF Timeout, Disconnect, TypeOK
<1> QED
  BY <1>2, <1>3, <1>4, <1>6, <1>7, <1>8, <1>9, <1>10, <1>11, <1>13, <1>14, <1>15 DEF HandlerStep, ExecutorStep

-----------------------------------------------------------------------------
(* One lemma per part of the invariant: what a request's own steps do to it *)

\* What a step does to its request, apart from the results.
LEMMA StepExecutorInv ==
  ASSUME Inv, NEW r \in Requests, HandlerStep(r) \/ ExecutorStep(r) \/ Timeout(r) \/ Disconnect(r)
  PROVE  ExecutorInv(r)'
<1>1. TypeOK /\ ExecutorInv(r) BY DEF Inv, RequestInv
<1> USE DEF ExecutorInv, TypeOK, Underway, server, handler, executor, budget, spent, Goto
<1>2. CASE Admit(r) \/ Wait(r) \/ WaitTimesOut(r) \/ WaitAbandoned(r)
  BY <1>1, <1>2 DEF Admit, Wait, WaitTimesOut, WaitAbandoned, Waiting
<1>3. CASE Begin(r)
  BY <1>1, <1>3 DEF Begin, Return
<1>4. CASE Reply(r)
  BY <1>1, <1>4 DEF Reply, Return
<1>5. CASE Refuse(r)
  BY <1>1, <1>5 DEF Refuse, Answer
<1>6. CASE Execute(r)
  BY <1>1, <1>6 DEF Execute, MayExecute
<1>7. CASE Executed(r)
  BY <1>1, <1>7 DEF Executed, Answer
<1>8. CASE Resolve(r)
  BY <1>1, <1>8 DEF Resolve, FailField, NextField
<1>9. CASE FinishDocument(r)
  BY <1>1, <1>9 DEF FinishDocument
<1>10. CASE AcquireConn(r)
  BY <1>1, <1>10 DEF AcquireConn
<1>11. CASE NoQuery(r)
  BY <1>1, <1>11 DEF NoQuery, FailField, NextField
<1>12. ASSUME NEW n \in 0 .. MaxProductLimit, QueryReturns(r, n) \/ QueryFails(r, n)
       PROVE  ExecutorInv(r)'
  BY <1>1, <1>12 DEF QueryReturns, QueryFails, FailField, NextField
<1>13. CASE Timeout(r) \/ Disconnect(r)
  BY <1>1, <1>13 DEF Timeout, Disconnect
<1> QED
  BY <1>2, <1>3, <1>4, <1>5, <1>6, <1>7, <1>8, <1>9, <1>10, <1>11, <1>12, <1>13 DEF HandlerStep, ExecutorStep

\* An item stays an item of the body.
LEMMA StepItemInv ==
  ASSUME Inv, NEW r \in Requests, HandlerStep(r) \/ ExecutorStep(r) \/ Timeout(r) \/ Disconnect(r)
  PROVE  ItemInv(r)'
<1>1. TypeOK /\ ItemInv(r) /\ ExecutorInv(r) BY DEF Inv, RequestInv
<1>2. Len(body[r]) \in Nat BY <1>1, BodyType
<1> USE DEF ItemInv, TypeOK, Underway, server, handler, executor, budget, spent, Goto
<1>3. CASE Admit(r) \/ Wait(r) \/ WaitTimesOut(r) \/ WaitAbandoned(r)
  BY <1>1, <1>3 DEF Admit, Wait, WaitTimesOut, WaitAbandoned, Waiting
<1>4. CASE Begin(r)
  BY <1>1, <1>2, <1>4 DEF Begin, Return, ExecutorInv
<1>5. CASE Reply(r)
  BY <1>1, <1>2, <1>5 DEF Reply, Return, Fill
<1>6. ASSUME NEW res, Answer(r, res), rpc[r] \in {"loop", "exec"}, cur[r] <= Len(body[r]), UNCHANGED body
      PROVE  /\ cur'[r] \in 2 .. Len(body'[r]) + 1
             /\ DOMAIN results'[r] = 1 .. Len(body'[r])
  BY <1>1, <1>2, <1>6 DEF Answer
<1>7. CASE Refuse(r)
  BY <1>1, <1>2, <1>6, <1>7 DEF Refuse
<1>8. CASE Execute(r)
  BY <1>1, <1>2, <1>8 DEF Execute, MayExecute
<1>9. CASE Executed(r)
  BY <1>1, <1>2, <1>6, <1>9 DEF Executed
<1>10. CASE ExecutorStep(r)
  <2>1. /\ UNCHANGED <<rpc, body, cur, results>> /\ epc[r] # "idle"
    BY <1>10 DEF ExecutorStep, Resolve, FinishDocument, AcquireConn, NoQuery, QueryReturns, QueryFails
  <2> QED BY <1>1, <2>1
<1>11. CASE Timeout(r) \/ Disconnect(r)
  BY <1>1, <1>11 DEF Timeout, Disconnect
<1> QED
  BY <1>3, <1>4, <1>5, <1>7, <1>8, <1>9, <1>10, <1>11 DEF HandlerStep

\* What is reserved, read and left keeps making up the budget.
LEMMA StepBudgetInv ==
  ASSUME Inv, NEW r \in Requests, HandlerStep(r) \/ ExecutorStep(r) \/ Timeout(r) \/ Disconnect(r)
  PROVE  BudgetInv(r)'
<1>1. TypeOK /\ BudgetInv(r) /\ ExecutorInv(r) BY DEF Inv, RequestInv
<1>2. /\ MaxProductsPerRequest \in Int /\ MaxProductQueriesPerRequest \in Int /\ MaxProductLimit \in Nat
      /\ productsLeft[r] \in Int /\ queriesLeft[r] \in Int /\ reserved[r] \in Nat
      /\ productsUsed[r] \in Nat /\ queriesSent[r] \in Nat
  BY <1>1, ServerAssumption DEF TypeOK
<1> USE DEF BudgetInv, Underway, server, handler, executor, budget, spent, Goto
<1>3. CASE Admit(r) \/ Wait(r) \/ WaitTimesOut(r) \/ WaitAbandoned(r)
  BY <1>1, <1>3 DEF Admit, Wait, WaitTimesOut, WaitAbandoned, Waiting, TypeOK
<1>4. CASE Begin(r)
  BY <1>1, <1>2, <1>4 DEF Begin, Return, ExecutorInv, Allowance, TypeOK
<1>5. CASE Reply(r)
  BY <1>1, <1>5 DEF Reply, Return, TypeOK
<1>6. CASE Refuse(r)
  BY <1>1, <1>6 DEF Refuse, TypeOK
<1>7. CASE Execute(r)
  BY <1>1, <1>7 DEF Execute, MayExecute, ExecutorInv, TypeOK
<1>8. CASE Executed(r)
  BY <1>1, <1>8 DEF Executed, TypeOK
<1>9. CASE Resolve(r)
  <2>1. CASE FailField(r) /\ UNCHANGED <<reserved, budget>>
    BY <1>1, <1>9, <2>1 DEF Resolve, FailField, NextField, TypeOK
  <2>2. CASE ~(FailField(r) /\ UNCHANGED <<reserved, budget>>)
    <3> DEFINE n == Granted(r, Fields(r)[field[r]].limit)
    <3>1. n \in Nat \ {0} /\ (productsLeft[r] > 0 => n <= productsLeft[r])
      BY <1>1, <1>9, ReserveType DEF Inv
    <3>2. /\ UNCHANGED <<rpc, productsUsed, queriesSent>> /\ epc[r] = "resolve" /\ epc'[r] = "acquire"
          /\ reserved'[r] = n
          /\ queriesLeft[r] # 0 /\ productsLeft[r] # 0
          /\ queriesLeft'[r] = IF queriesLeft[r] > 0 THEN queriesLeft[r] - 1 ELSE queriesLeft[r]
          /\ productsLeft'[r] = IF productsLeft[r] > 0 THEN productsLeft[r] - n ELSE productsLeft[r]
      BY <1>1, <1>9, <2>2 DEF Resolve, Spent, TypeOK
    <3> HIDE DEF n
    <3>3. rpc[r] \in Underway BY <1>1, <3>2 DEF ExecutorInv
    <3> QED BY <1>1, <1>2, <3>1, <3>2, <3>3
  <2> QED BY <2>1, <2>2
<1>10. CASE FinishDocument(r)
  BY <1>1, <1>10 DEF FinishDocument, TypeOK
<1>11. CASE AcquireConn(r)
  <2>1. /\ UNCHANGED <<rpc, reserved, productsLeft, queriesLeft, productsUsed>>
        /\ epc[r] = "acquire" /\ epc'[r] = "query" /\ queriesSent'[r] = queriesSent[r] + 1
    BY <1>1, <1>11 DEF AcquireConn, TypeOK
  <2> QED BY <1>1, <1>2, <2>1 DEF ExecutorInv
<1>12. ASSUME NEW n \in Nat, NEW used \in Nat, Settle(r, n, used), epc[r] \in {"acquire", "query"},
              NextField(r), used <= reserved[r], UNCHANGED <<rpc, queriesSent>>
       PROVE  BudgetInv(r)'
  <2>1. /\ epc'[r] = "resolve" /\ reserved'[r] = 0 /\ productsUsed'[r] = productsUsed[r] + used
        /\ UNCHANGED queriesLeft
        /\ productsLeft'[r] = IF used < reserved[r] /\ productsLeft[r] >= 0
                                THEN productsLeft[r] + reserved[r] - used ELSE productsLeft[r]
    BY <1>1, <1>12 DEF Settle, refund, NextField, TypeOK
  <2>2. rpc[r] \in Underway BY <1>1, <1>12 DEF ExecutorInv
  <2> QED BY <1>1, <1>2, <1>12, <2>1, <2>2
<1>13. CASE NoQuery(r)
  BY <1>2, <1>12, <1>13 DEF NoQuery, FailField
<1>14. ASSUME NEW n \in 0 .. MaxProductLimit, QueryReturns(r, n) \/ QueryFails(r, n) PROVE BudgetInv(r)'
  <2>1. n \in Nat /\ n <= reserved[r] /\ epc[r] = "query" /\ UNCHANGED <<rpc, queriesSent>>
    BY <1>14, ServerAssumption DEF QueryReturns, QueryFails
  <2>2. PICK used \in Nat : used <= n /\ Settle(r, n, used) /\ NextField(r)
    BY <1>14, <2>1, QueryEnds
  <2> QED BY <1>2, <1>12, <2>1, <2>2
<1>15. CASE Timeout(r) \/ Disconnect(r)
  BY <1>1, <1>15 DEF Timeout, Disconnect
<1> QED
  BY <1>3, <1>4, <1>5, <1>6, <1>7, <1>8, <1>9, <1>10, <1>11, <1>13, <1>14, <1>15 DEF HandlerStep, ExecutorStep

\* A query that is sent may read a budget more, and reads no more than was reserved.
LEMMA StepRowsInv ==
  ASSUME Inv, NEW r \in Requests, HandlerStep(r) \/ ExecutorStep(r) \/ Timeout(r) \/ Disconnect(r)
  PROVE  RowsInv(r)'
<1>1. TypeOK /\ BudgetInv(r) /\ ExecutorInv(r) /\ RowsInv(r) BY DEF Inv, RequestInv
<1>2. /\ MaxProductsPerRequest \in Int
      /\ productsLeft[r] \in Int /\ reserved[r] \in Nat /\ productsUsed[r] \in Nat
      /\ rowsRead[r] \in Nat /\ queriesSent[r] \in Nat /\ RowCap(r) \in Int
  BY <1>1, ServerAssumption DEF TypeOK, RowCap
<1> USE DEF Underway, server, handler, executor, budget, spent, Goto
<1>3. ASSUME UNCHANGED <<rowsRead, queriesSent>>, epc'[r] # "query" \/ UNCHANGED <<epc, reserved>>,
             rpc'[r] \in Underway \/ rpc[r] \notin Underway
      PROVE  RowsInv(r)'
  <2>1. RowCap(r)' = RowCap(r) BY <1>3 DEF RowCap
  <2> QED BY <1>1, <1>2, <1>3, <2>1 DEF RowsInv
<1>4. CASE HandlerStep(r)
  BY <1>1, <1>3, <1>4 DEF HandlerStep, Admit, Wait, WaitTimesOut, WaitAbandoned, Begin, Reply, Refuse, Execute,
                          Executed, Return, Waiting, TypeOK
<1>5. CASE Resolve(r) \/ FinishDocument(r)
  BY <1>1, <1>3, <1>5 DEF Resolve, FailField, NextField, FinishDocument, TypeOK
<1>6. CASE AcquireConn(r)
  <2>1. /\ UNCHANGED <<rpc, reserved, rowsRead>> /\ rpc[r] \in Underway
        /\ epc[r] = "acquire" /\ epc'[r] = "query" /\ queriesSent'[r] = queriesSent[r] + 1
    BY <1>1, <1>6 DEF AcquireConn, ExecutorInv, TypeOK
  <2>2. RowCap(r)' = RowCap(r) + MaxProductsPerRequest
    BY <1>2, <2>1 DEF RowCap
  <2>3. MaxProductsPerRequest > 0 => reserved[r] <= MaxProductsPerRequest
    BY <1>1, <1>2, <2>1 DEF BudgetInv
  <2>4. MaxProductsPerRequest > 0 => rowsRead[r] <= RowCap(r)
    BY <1>1, <1>2, <2>1 DEF RowsInv
  <2>5. MaxProductsPerRequest > 0 => rowsRead[r] + reserved[r] <= RowCap(r)'
    BY <1>2, <2>1, <2>2, <2>3, <2>4
  <2> QED BY <2>1, <2>5 DEF RowsInv
<1>7. ASSUME NEW n \in Nat, NEW used \in Nat, Settle(r, n, used), NextField(r), n <= reserved[r],
             epc[r] = "query" \/ (epc[r] = "acquire" /\ n = 0), UNCHANGED <<rpc, queriesSent>>
      PROVE  RowsInv(r)'
  <2>1. rowsRead'[r] = rowsRead[r] + n /\ epc'[r] = "resolve" /\ rpc[r] \in Underway
    BY <1>1, <1>7 DEF Settle, NextField, ExecutorInv, TypeOK
  <2>2. RowCap(r)' = RowCap(r) BY <1>7 DEF RowCap
  <2> QED BY <1>1, <1>2, <1>7, <2>1, <2>2 DEF RowsInv
<1>8. CASE NoQuery(r)
  BY <1>2, <1>7, <1>8 DEF NoQuery, FailField
<1>9. ASSUME NEW n \in 0 .. MaxProductLimit, QueryReturns(r, n) \/ QueryFails(r, n) PROVE RowsInv(r)'
  <2>1. n \in Nat /\ n <= reserved[r] /\ epc[r] = "query" /\ UNCHANGED <<rpc, queriesSent>>
    BY <1>9, ServerAssumption DEF QueryReturns, QueryFails
  <2>2. PICK used \in Nat : Settle(r, n, used) /\ NextField(r)
    BY <1>9, <2>1, QueryEnds
  <2> QED BY <1>7, <2>1, <2>2
<1>10. CASE Timeout(r) \/ Disconnect(r)
  BY <1>1, <1>3, <1>10 DEF Timeout, Disconnect, TypeOK
<1> QED
  BY <1>4, <1>5, <1>6, <1>8, <1>9, <1>10 DEF ExecutorStep

\* Answers come in order, and the reply fills in the rest.
LEMMA StepResultsInv ==
  ASSUME Inv, NEW r \in Requests, HandlerStep(r) \/ ExecutorStep(r) \/ Timeout(r) \/ Disconnect(r)
  PROVE  ResultsInv(r)'
<1>1. TypeOK /\ ResultsInv(r) /\ ItemInv(r) /\ ExecutorInv(r) BY DEF Inv, RequestInv
<1>2. Len(body[r]) \in Nat /\ cur[r] \in Nat BY <1>1, BodyType DEF TypeOK
<1> USE DEF ResultsInv, server, handler, executor, budget, spent, Goto
<1>3. CASE Admit(r) \/ Wait(r) \/ WaitTimesOut(r) \/ WaitAbandoned(r)
  BY <1>1, <1>3 DEF Admit, Wait, WaitTimesOut, WaitAbandoned, Waiting, TypeOK
<1>4. CASE Begin(r)
  <2>1. /\ UNCHANGED body
        /\ rpc'[r] = "badRequest" \/ (rpc'[r] = "loop" /\ cur'[r] = 1)
    BY <1>1, <1>4 DEF Begin, Return, TypeOK
  <2> QED BY <1>2, <2>1
<1>5. CASE Reply(r)
  <2>1. rpc[r] = "loop" /\ rpc'[r] = "replied" /\ UNCHANGED <<body, cur>>
    BY <1>1, <1>5 DEF Reply, Return, TypeOK
  <2>2. CASE cur[r] > Len(body[r]) /\ UNCHANGED results
    BY <1>1, <1>2, <2>1, <2>2
  <2>3. CASE cur[r] <= Len(body[r]) /\ results' = [results EXCEPT ![r] = Fill(r)]
    <3>1. \A j \in 1 .. Len(body[r]) : results'[r][j] = IF j >= cur[r] THEN "timeout" ELSE results[r][j]
      BY <1>1, <2>3 DEF Fill, TypeOK
    <3> QED BY <1>1, <1>2, <2>1, <3>1
  <2> QED BY <1>5, <2>2, <2>3 DEF Reply
<1>6. ASSUME NEW res, Answer(r, res), res \in {"ok", "error", "refused"} \/ (res = "cancelled" /\ ctxDone[r]),
             rpc[r] \in {"loop", "exec"}, rpc[r] = "loop" => ~ctxDone[r],
             rpc'[r] = "loop", cur[r] <= Len(body[r]), UNCHANGED <<body, ctxDone>>
      PROVE  ResultsInv(r)'
  <2>1. /\ cur'[r] = cur[r] + 1
        /\ \A i \in 1 .. Len(body[r]) : results'[r][i] = IF i = cur[r] THEN res ELSE results[r][i]
    BY <1>1, <1>2, <1>6 DEF Answer, TypeOK, ItemInv, Underway
  <2> QED BY <1>1, <1>2, <1>6, <2>1
<1>7. CASE Refuse(r)
  BY <1>1, <1>6, <1>7 DEF Refuse
<1>8. CASE Execute(r)
  BY <1>1, <1>2, <1>8 DEF Execute, MayExecute, TypeOK
<1>9. CASE Executed(r)
  <2>1. rpc[r] = "exec" /\ rpc'[r] = "loop" /\ cur[r] <= Len(body[r]) /\ UNCHANGED <<body, ctxDone>>
    BY <1>1, <1>9 DEF Executed, ItemInv, Underway, TypeOK
  <2> QED BY <1>6, <1>9, <2>1 DEF Executed
<1>10. CASE ExecutorStep(r)
  <2>1. UNCHANGED <<rpc, body, cur, results, ctxDone>>
    BY <1>10 DEF ExecutorStep, Resolve, FinishDocument, AcquireConn, NoQuery, QueryReturns, QueryFails
  <2> QED BY <1>1, <2>1
<1>11. CASE Timeout(r) \/ Disconnect(r)
  BY <1>1, <1>11 DEF Timeout, Disconnect, TypeOK
<1> QED
  BY <1>3, <1>4, <1>5, <1>7, <1>8, <1>9, <1>10, <1>11 DEF HandlerStep

-----------------------------------------------------------------------------
(* The semaphore *)

\* A request that enters the service takes a token, one that leaves gives it back.
LEMMA StepSlotInv ==
  ASSUME Inv, NEW r \in Requests, HandlerStep(r) \/ ExecutorStep(r) \/ Timeout(r) \/ Disconnect(r)
  PROVE  SlotInv'
<1>1. TypeOK /\ SlotInv BY DEF Inv
<1>2. /\ inflightLimit \in Nat /\ UNCHANGED inflightLimit /\ inflight \in Nat
      /\ Cardinality(InService) \in Nat
  BY <1>1, LimitType, FS_CardinalityType DEF SlotInv, TypeOK, inflightLimit
<1> USE DEF server, handler, executor, budget, spent, Goto
<1>3. CASE Admit(r)
  <2>1. r \notin InService /\ InService' = InService \cup {r}
    BY <1>1, <1>3 DEF Admit, InService, Waiting, Serving, TypeOK
  <2>2. IsFiniteSet(InService') /\ Cardinality(InService') = Cardinality(InService) + 1
    BY <1>1, <2>1, FS_AddElement DEF SlotInv
  <2> QED BY <1>1, <1>2, <1>3, <2>2 DEF Admit, SlotFree, TakeSlot, SlotInv
<1>4. CASE ReleaseSlot /\ (Begin(r) \/ Reply(r)) /\ rpc'[r] \in Over
  <2>1. r \in InService /\ InService' = InService \ {r}
    BY <1>1, <1>4 DEF Begin, Reply, Return, InService, Serving, Over, TypeOK
  <2>2. IsFiniteSet(InService') /\ Cardinality(InService') = Cardinality(InService) - 1
    BY <1>1, <2>1, FS_RemoveElement DEF SlotInv
  <2> QED BY <1>1, <1>2, <1>4, <2>2 DEF ReleaseSlot, SlotInv
<1>5. CASE UNCHANGED inflight /\ (rpc'[r] \in Serving <=> rpc[r] \in Serving) /\ \A q \in Requests \ {r} : rpc'[q] = rpc[q]
  <2>1. InService' = InService BY <1>5 DEF InService
  <2> QED BY <1>1, <1>2, <1>5, <2>1 DEF SlotInv
<1>6. CASE Wait(r) \/ WaitTimesOut(r) \/ WaitAbandoned(r)
  BY <1>1, <1>5, <1>6 DEF Wait, WaitTimesOut, WaitAbandoned, Waiting, Serving, TypeOK
<1>7. CASE Begin(r) \/ Reply(r)
  BY <1>1, <1>4, <1>5, <1>7 DEF Begin, Reply, Return, Serving, Over, TypeOK
<1>8. CASE Refuse(r) \/ Execute(r) \/ Executed(r)
  BY <1>1, <1>5, <1>8 DEF Refuse, Execute, MayExecute, Executed, Serving, TypeOK
<1>9. CASE ExecutorStep(r) \/ Timeout(r) \/ Disconnect(r)
  <2>1. UNCHANGED <<inflight, rpc>>
    BY <1>9 DEF ExecutorStep, Resolve, FinishDocument, AcquireConn, NoQuery, QueryReturns, QueryFails,
                Timeout, Disconnect
  <2> QED BY <1>5, <2>1
<1> QED BY <1>3, <1>6, <1>7, <1>8, <1>9 DEF HandlerStep

-----------------------------------------------------------------------------
(* The theorems *)

\* No request has begun.
LEMMA InitInv == Init => Inv
<1> SUFFICES ASSUME Init PROVE Inv
  OBVIOUS
<1>1. TypeOK
  <2>1. << >> \in Seq(Outcomes) BY EmptySeq
  <2> QED BY <2>1 DEF Init, TypeOK, Waiting
<1>2. ASSUME NEW r \in Requests PROVE RequestInv(r)
  <2>1. RowCap(r) = 0 BY ServerAssumption DEF Init, RowCap
  <2> QED BY <2>1 DEF Init, RequestInv, ExecutorInv, ItemInv, BudgetInv, RowsInv, ResultsInv, Underway
<1>3. SlotInv
  <2>1. InService = {} BY DEF Init, InService, Serving
  <2> QED BY <2>1, FS_EmptySet, LimitType DEF Init, SlotInv
<1> QED BY <1>1, <1>2, <1>3 DEF Inv

\* Every step keeps the invariant.
LEMMA StepInv == Inv /\ [Next]_vars => Inv'
<1> SUFFICES ASSUME Inv, [Next]_vars PROVE Inv'
  OBVIOUS
<1>1. ASSUME NEW q \in Requests, HandlerStep(q) \/ ExecutorStep(q) \/ Timeout(q) \/ Disconnect(q)
      PROVE  Inv'
  <2>1. TypeOK' /\ SlotInv' BY <1>1, StepTypeOK, StepSlotInv
  <2>2. RequestInv(q)'
    BY <1>1, StepExecutorInv, StepItemInv, StepBudgetInv, StepRowsInv, StepResultsInv DEF RequestInv
  <2>3. ASSUME NEW r \in Requests, r # q PROVE RequestInv(r)'
    BY <1>1, <2>3, OthersStay DEF Inv
  <2> QED BY <2>1, <2>2, <2>3 DEF Inv
<1>2. CASE UNCHANGED vars
  BY <1>2 DEF vars, server, handler, executor, budget, spent, Inv, TypeOK, RequestInv, ExecutorInv, ItemInv,
              BudgetInv, RowsInv, RowCap, ResultsInv, SlotInv, InService, inflightLimit
<1> QED BY <1>1, <1>2 DEF Next

\* The inductive invariant holds throughout.
LEMMA Invariant == Spec => []Inv
BY InitInv, StepInv, PTL DEF Spec

\* RequestBudget and the resolver: the aliases and batch items of one request together
\* return no more products and send no more queries than the configuration allows,
\* whatever limits they ask for and whichever of their queries fail or are cut off.  The
\* rows read for them are bounded by both caps only, since a failed scan refunds its rows.
THEOREM BudgetHolds == Spec => []BudgetRespected
<1>1. Inv => BudgetRespected
  <2> SUFFICES ASSUME Inv, NEW r \in Requests
               PROVE  /\ MaxProductsPerRequest > 0 =>
                           /\ productsUsed[r] + reserved[r] <= MaxProductsPerRequest
                           /\ rowsRead[r] <= queriesSent[r] * MaxProductsPerRequest
                      /\ MaxProductQueriesPerRequest > 0 => queriesSent[r] <= MaxProductQueriesPerRequest
    BY DEF BudgetRespected
  <2>1. TypeOK /\ BudgetInv(r) /\ RowsInv(r) /\ ExecutorInv(r) BY DEF Inv, RequestInv
  <2>2. /\ MaxProductsPerRequest \in Int /\ MaxProductQueriesPerRequest \in Int
        /\ productsLeft[r] \in Int /\ queriesLeft[r] \in Int /\ reserved[r] \in Nat
        /\ productsUsed[r] \in Nat /\ queriesSent[r] \in Nat
    BY <2>1, ServerAssumption DEF TypeOK
  <2>3. rowsRead[r] \in Nat /\ RowCap(r) \in Int
    BY <2>1, <2>2 DEF TypeOK, RowCap
  <2>4. MaxProductsPerRequest > 0 => rowsRead[r] <= RowCap(r)
    BY <2>1, <2>2, <2>3 DEF RowsInv
  <2>5. /\ MaxProductsPerRequest > 0 => productsUsed[r] + reserved[r] <= MaxProductsPerRequest
        /\ MaxProductQueriesPerRequest > 0 => queriesSent[r] <= MaxProductQueriesPerRequest
    BY <2>1, <2>2 DEF BudgetInv, ExecutorInv
  <2> QED BY <2>4, <2>5 DEF RowCap
<1> QED BY <1>1, Invariant, PTL

\* refund: what a query did not return is there for the next one, on every path out of
\* the resolver.
THEOREM BudgetExact == Spec => []NothingLost
<1>1. Inv => NothingLost
  BY DEF Inv, RequestInv, BudgetInv, Underway, NothingLost
<1> QED BY <1>1, Invariant, PTL

\* handleGraphQL: a reply has an answer for each item, and after the item that the
\* deadline met there are only timeouts.
THEOREM RepliesComplete == Spec => []RepliesAreComplete
<1>1. Inv => RepliesAreComplete
  BY DEF Inv, RequestInv, ResultsInv, RepliesAreComplete
<1> QED BY <1>1, Invariant, PTL

\* inflightMiddleware: tokens and requests in service agree, so the connections of
\* requests that are not over stay within the in-flight limit.
THEOREM SlotsBoundConns == Spec => []ConnsWithinSlots
<1>1. Inv => ConnsWithinSlots
  <2> SUFFICES ASSUME Inv, inflightLimit > 0
               PROVE  /\ inflight = Cardinality(InService)
                      /\ inflight <= inflightLimit
                      /\ Cardinality({r \in conns : rpc[r] \notin Over}) <= inflightLimit
    BY DEF ConnsWithinSlots, InService
  <2> DEFINE C == {r \in conns : rpc[r] \notin Over}
  <2>1. C \subseteq InService
    BY DEF Inv, TypeOK, RequestInv, ExecutorInv, InService, Underway, Over, Serving
  <2>2. IsFiniteSet(C) /\ Cardinality(C) <= Cardinality(InService)
    BY <2>1, FS_Subset DEF Inv, SlotInv
  <2>3. Cardinality(C) \in Nat /\ Cardinality(InService) \in Nat
    BY <2>2, FS_CardinalityType DEF Inv, SlotInv
  <2> QED BY <2>2, <2>3, LimitType DEF Inv, SlotInv
<1> QED BY <1>1, Invariant, PTL

\* gql.Do may leave an executor behind when the context ends, but the loop starts none
\* after that: a request never has two.
THEOREM ExecutorsExclude == Spec => OneExecutorPerRequest
<1>1. Inv /\ [Next]_vars => [\A r \in Requests : rpc[r] = "loop" /\ rpc'[r] = "exec" => epc[r] = "idle"]_vars
  <2> SUFFICES ASSUME Inv, Next, NEW r \in Requests, rpc[r] = "loop", rpc'[r] = "exec"
               PROVE  epc[r] = "idle"
    OBVIOUS
  <2>1. PICK q \in Requests : HandlerStep(q) \/ ExecutorStep(q) \/ Timeout(q) \/ Disconnect(q)
    BY DEF Next
  <2>2. TypeOK /\ ExecutorInv(r) BY DEF Inv, RequestInv
  <2>3. ~ctxDone[r]
    <3> USE DEF TypeOK, server, handler, Goto
    <3>1. HandlerStep(q)
      BY <2>1, <2>2 DEF ExecutorStep, Resolve, FinishDocument, AcquireConn, NoQuery, QueryReturns, QueryFails,
                        Timeout, Disconnect
    <3>2. Execute(q)
      BY <3>1, <2>2 DEF HandlerStep, Admit, Wait, WaitTimesOut, WaitAbandoned, Begin, Reply, Refuse, Executed, Return
    <3> QED BY <2>2, <3>2 DEF Execute, MayExecute
  <2> QED BY <2>2, <2>3 DEF ExecutorInv
<1> QED BY <1>1, Invariant, PTL DEF Spec, OneExecutorPerRequest
=============================================================================
