--------------------------- MODULE GraphQLServer ---------------------------
(***************************************************************************)
(* POST /graphql in internal/server and internal/graphql: admission by the *)
(* in-flight semaphore, the batch loop of handleGraphQL under one timeout, *)
(* the products resolver with the request's budget, and the connection     *)
(* pool they share.  A document is what the loop and the resolver ask of   *)
(* it: is it refused before execution, and which limit and filter does     *)
(* each of its `products' fields carry.                                    *)
(*                                                                         *)
(* gql.Do runs a document on a goroutine of its own and returns early when *)
(* the context ends (graphql-go's Execute); the goroutine then goes on     *)
(* alone.  Fields of one document are resolved one after the other.        *)
(***************************************************************************)
EXTENDS Integers, Sequences, FiniteSets

CONSTANTS
  Requests,
  Bodies,                       \* what a request may send: sequences of documents
  Queries, Refused(_),          \* query texts, and those refused before execution
  Limits,                       \* `limit' arguments, 0 for none
  MaxInflightRequests, PoolMax, \* configuration
  MaxBatchSize, MaxProductsPerRequest, MaxProductQueriesPerRequest,
  MaxProductLimit               \* server cap on one query (5000)

Field == [limit : Limits, broad : BOOLEAN]
Document == [query : Queries, fields : Seq(Field)]

ASSUME BodyAssumption ==
  Bodies \subseteq Seq(Document) /\ \A q \in Queries : Refused(q) \in BOOLEAN

ASSUME ServerAssumption ==
  /\ Limits \subseteq Int
  /\ MaxInflightRequests \in Int /\ PoolMax \in Nat \ {0}
  /\ MaxBatchSize \in Nat
  /\ MaxProductsPerRequest \in Int /\ MaxProductQueriesPerRequest \in Int
  /\ MaxProductLimit \in Nat \ {0}

VARIABLES
  \* the server
  inflight,      \* tokens in the semaphore
  conns,         \* requests whose executor holds a pooled connection
  \* each request: its handler
  rpc, body, cur, results, ctxDone,
  \* each request: the goroutine executing one of its documents
  epc, field, fieldErr, reserved,
  \* each request: its RequestBudget
  productsLeft, queriesLeft,
  \* history: rows read, products QueryProducts returned of them, queries sent
  rowsRead, productsUsed, queriesSent

server == <<inflight, conns>>
handler == <<rpc, body, cur, results, ctxDone>>
executor == <<epc, field, fieldErr, reserved>>
budget == <<productsLeft, queriesLeft>>
spent == <<rowsRead, productsUsed, queriesSent>>
vars == <<server, handler, executor, budget, spent>>

-----------------------------------------------------------------------------

\* Capacity of the semaphore, 0 for no semaphore at all.
inflightLimit ==
  IF MaxInflightRequests # 0 THEN (IF MaxInflightRequests < 0 THEN 0 ELSE MaxInflightRequests)
  ELSE IF PoolMax - 2 >= 1 THEN PoolMax - 2 ELSE 1

EffectiveLimit(limit) ==
  IF limit <= 0 \/ limit > MaxProductLimit THEN MaxProductLimit ELSE limit

\* NewRequestBudget: -1 is unlimited, 0 is spent.
Allowance(max) == IF max <= 0 THEN -1 ELSE max

Doc(r) == body[r][cur[r]]
Waiting == {"new", "waiting"}
Serving == {"admitted", "loop", "exec"}
Over == {"replied", "badRequest", "busy", "gone"}
Outcomes == {"none", "ok", "error", "refused", "cancelled", "timeout"}

TypeOK ==
  /\ inflight \in Nat /\ conns \subseteq Requests
  /\ rpc \in [Requests -> Waiting \cup Serving \cup Over]
  /\ body \in [Requests -> Bodies]
  /\ cur \in [Requests -> Nat]
  /\ results \in [Requests -> Seq(Outcomes)]
  /\ ctxDone \in [Requests -> BOOLEAN]
  /\ epc \in [Requests -> {"idle", "resolve", "acquire", "query", "finished"}]
  /\ field \in [Requests -> Nat]
  /\ fieldErr \in [Requests -> BOOLEAN]
  /\ reserved \in [Requests -> Nat]
  /\ productsLeft \in [Requests -> Int] /\ queriesLeft \in [Requests -> Int]
  /\ rowsRead \in [Requests -> Nat] /\ productsUsed \in [Requests -> Nat]
  /\ queriesSent \in [Requests -> Nat]

Init ==
  /\ inflight = 0 /\ conns = {}
  /\ rpc = [r \in Requests |-> "new"]
  /\ body \in [Requests -> Bodies]
  /\ cur = [r \in Requests |-> 0]
  /\ results = [r \in Requests |-> << >>]
  /\ ctxDone = [r \in Requests |-> FALSE]
  /\ epc = [r \in Requests |-> "idle"]
  /\ field = [r \in Requests |-> 0]
  /\ fieldErr = [r \in Requests |-> FALSE]
  /\ reserved = [r \in Requests |-> 0]
  /\ productsLeft = [r \in Requests |-> 0] /\ queriesLeft = [r \in Requests |-> 0]
  /\ rowsRead = [r \in Requests |-> 0] /\ productsUsed = [r \in Requests |-> 0]
  /\ queriesSent = [r \in Requests |-> 0]

Goto(r, step) == rpc' = [rpc EXCEPT ![r] = step]

-----------------------------------------------------------------------------
(* inflightMiddleware *)

SlotFree == inflightLimit = 0 \/ inflight < inflightLimit

TakeSlot == inflight' = IF inflightLimit = 0 THEN inflight ELSE inflight + 1

\* Mutant: the slot is not given back.
MutantReleaseSlot == UNCHANGED inflight

ReleaseSlot == inflight' = IF inflightLimit = 0 THEN inflight ELSE inflight - 1

\* A free slot is taken at once or while waiting for one.
Admit(r) ==
  /\ rpc[r] \in Waiting /\ SlotFree
  /\ TakeSlot
  /\ Goto(r, "admitted")
  /\ UNCHANGED <<conns, body, cur, results, ctxDone, executor, budget, spent>>

Wait(r) ==
  /\ rpc[r] = "new" /\ ~SlotFree
  /\ Goto(r, "waiting")
  /\ UNCHANGED <<server, body, cur, results, ctxDone, executor, budget, spent>>

\* The wait's timer: 503 and Retry-After.
WaitTimesOut(r) ==
  /\ rpc[r] = "waiting"
  /\ Goto(r, "busy")
  /\ UNCHANGED <<server, body, cur, results, ctxDone, executor, budget, spent>>

WaitAbandoned(r) ==
  /\ rpc[r] = "waiting" /\ ctxDone[r]
  /\ Goto(r, "gone")
  /\ UNCHANGED <<server, body, cur, results, ctxDone, executor, budget, spent>>

-----------------------------------------------------------------------------
(* handleGraphQL *)

\* The handler returns: the context is cancelled, then the slot given back.
Return(r, step) ==
  /\ Goto(r, step)
  /\ ctxDone' = [ctxDone EXCEPT ![r] = TRUE]
  /\ ReleaseSlot

\* The body is read and decoded, the batch size checked, the budget created.
Begin(r) ==
  /\ rpc[r] = "admitted"
  /\ \/ /\ Return(r, "badRequest")
        /\ UNCHANGED <<cur, results, budget>>
     \/ /\ Len(body[r]) <= MaxBatchSize
        /\ Goto(r, "loop")
        /\ cur' = [cur EXCEPT ![r] = 1]
        /\ results' = [results EXCEPT ![r] = [i \in 1 .. Len(body[r]) |-> "none"]]
        /\ productsLeft' = [productsLeft EXCEPT ![r] = Allowance(MaxProductsPerRequest)]
        /\ queriesLeft' = [queriesLeft EXCEPT ![r] = Allowance(MaxProductQueriesPerRequest)]
        /\ UNCHANGED <<inflight, ctxDone>>
  /\ UNCHANGED <<conns, body, executor, spent>>

\* Mutant: the fill starts after the current item.
MutantFill(r) == [j \in 1 .. Len(body[r]) |-> IF j > cur[r] THEN "timeout" ELSE results[r][j]]

\* Everything from the current item on gets a timeout error.
Fill(r) == [j \in 1 .. Len(body[r]) |-> IF j >= cur[r] THEN "timeout" ELSE results[r][j]]

\* The loop is over, or the context is done before an item starts.
Reply(r) ==
  /\ rpc[r] = "loop"
  /\ \/ cur[r] > Len(body[r]) /\ UNCHANGED results
     \/ /\ cur[r] <= Len(body[r]) /\ ctxDone[r]
        /\ results' = [results EXCEPT ![r] = Fill(r)]
  /\ Return(r, "replied")
  /\ UNCHANGED <<conns, body, cur, executor, budget, spent>>

Answer(r, result) ==
  /\ results' = [results EXCEPT ![r][cur[r]] = result]
  /\ cur' = [cur EXCEPT ![r] = @ + 1]

\* Too large, too deep, introspection while it is disabled, or a document that
\* does not parse, which gql.Do answers without executing anything.
Refuse(r) ==
  /\ rpc[r] = "loop" /\ cur[r] <= Len(body[r]) /\ ~ctxDone[r]
  /\ Refused(Doc(r).query)
  /\ Answer(r, "refused")
  /\ UNCHANGED <<server, rpc, body, ctxDone, executor, budget, spent>>

\* Mutant: the loop does not look at the context before an item.
MutantMayExecute(r) == rpc[r] = "loop" /\ cur[r] <= Len(body[r])

MayExecute(r) == rpc[r] = "loop" /\ cur[r] <= Len(body[r]) /\ ~ctxDone[r]

Execute(r) ==
  /\ MayExecute(r) /\ ~Refused(Doc(r).query)
  /\ Goto(r, "exec")
  /\ epc' = [epc EXCEPT ![r] = "resolve"]
  /\ field' = [field EXCEPT ![r] = 1]
  /\ fieldErr' = [fieldErr EXCEPT ![r] = FALSE]
  /\ UNCHANGED <<server, body, cur, results, ctxDone, reserved, budget, spent>>

\* gql.Do returns the executor's result, or the context's error without it.
Executed(r) ==
  /\ rpc[r] = "exec"
  /\ \/ /\ epc[r] = "finished"
        /\ Answer(r, IF fieldErr[r] THEN "error" ELSE "ok")
        /\ epc' = [epc EXCEPT ![r] = "idle"]
     \/ /\ ctxDone[r]
        /\ Answer(r, "cancelled")
        /\ epc' = [epc EXCEPT ![r] = IF @ = "finished" THEN "idle" ELSE @]
  /\ Goto(r, "loop")
  /\ UNCHANGED <<server, body, ctxDone, field, fieldErr, reserved, budget, spent>>

-----------------------------------------------------------------------------
(* The executor: one products field after the other *)

\* The document that the executor works on; it may outlive its item by one.
Fields(r) ==
  LET i == IF rpc[r] = "exec" THEN cur[r] ELSE cur[r] - 1 IN body[r][i].fields

Spent(r) == queriesLeft[r] = 0 \/ productsLeft[r] = 0

\* reserve: the limit, clamped to what is left.
Granted(r, limit) ==
  LET n == EffectiveLimit(limit)
  IN IF productsLeft[r] > 0 /\ n > productsLeft[r] THEN productsLeft[r] ELSE n

NextField(r) ==
  /\ field' = [field EXCEPT ![r] = @ + 1]
  /\ epc' = [epc EXCEPT ![r] = "resolve"]

FailField(r) ==
  /\ NextField(r)
  /\ fieldErr' = [fieldErr EXCEPT ![r] = TRUE]

\* validateProductFilter and reserve.
Resolve(r) ==
  LET f == Fields(r)[field[r]]
      n == Granted(r, f.limit)
  IN /\ epc[r] = "resolve" /\ field[r] <= Len(Fields(r))
     /\ \/ /\ f.broad \/ Spent(r)
           /\ FailField(r)
           /\ UNCHANGED <<reserved, budget>>
        \/ /\ ~f.broad /\ ~Spent(r)
           /\ epc' = [epc EXCEPT ![r] = "acquire"]
           /\ reserved' = [reserved EXCEPT ![r] = n]
           /\ queriesLeft' = [queriesLeft EXCEPT ![r] = IF @ > 0 THEN @ - 1 ELSE @]
           /\ productsLeft' = [productsLeft EXCEPT ![r] = IF @ > 0 THEN @ - n ELSE @]
           /\ UNCHANGED <<field, fieldErr>>
     /\ UNCHANGED <<server, handler, spent>>

\* The result goes to gql.Do, or to nobody once that has returned.
FinishDocument(r) ==
  /\ epc[r] = "resolve" /\ field[r] > Len(Fields(r))
  /\ epc' = [epc EXCEPT ![r] = IF rpc[r] = "exec" THEN "finished" ELSE "idle"]
  /\ UNCHANGED <<server, handler, field, fieldErr, reserved, budget, spent>>

\* Mutants: an error keeps the reservation; the whole reservation comes back.
MutantNoRefund(r, used) == UNCHANGED productsLeft
MutantFullRefund(r, used) ==
  productsLeft' = [productsLeft EXCEPT ![r] = IF @ >= 0 THEN @ + reserved[r] ELSE @]

refund(r, used) ==
  productsLeft' = [productsLeft EXCEPT ![r] =
    IF used < reserved[r] /\ @ >= 0 THEN @ + reserved[r] - used ELSE @]

\* The query is over: `read' rows came, of which the caller got `used' products.
Settle(r, read, used) ==
  /\ refund(r, used)
  /\ reserved' = [reserved EXCEPT ![r] = 0]
  /\ rowsRead' = [rowsRead EXCEPT ![r] = @ + read]
  /\ productsUsed' = [productsUsed EXCEPT ![r] = @ + used]
  /\ UNCHANGED queriesLeft

\* Pool.Query waits for a connection; the context ends the wait.
AcquireConn(r) ==
  /\ epc[r] = "acquire" /\ ~ctxDone[r]
  /\ Cardinality(conns) < PoolMax
  /\ conns' = conns \cup {r}
  /\ epc' = [epc EXCEPT ![r] = "query"]
  /\ queriesSent' = [queriesSent EXCEPT ![r] = @ + 1]
  /\ UNCHANGED <<inflight, handler, field, fieldErr, reserved, budget, rowsRead, productsUsed>>

\* A filter that cannot be rendered, or a context that ends the wait.
NoQuery(r) ==
  /\ epc[r] = "acquire"
  /\ Settle(r, 0, 0) /\ FailField(r)
  /\ UNCHANGED <<server, handler, queriesSent>>

\* The rows are read, at most the limit of the query.
QueryReturns(r, n) ==
  /\ epc[r] = "query" /\ n <= reserved[r]
  /\ Settle(r, n, n) /\ NextField(r)
  /\ conns' = conns \ {r}
  /\ UNCHANGED <<inflight, handler, fieldErr, queriesSent>>

\* scanProducts keeps what it has when the rows end with an error, as they do when
\* the context ends, and throws it away when a row cannot be scanned.
Kept(n) == {n, 0}

\* Mutant: the rows are not closed on an error.
MutantQueryFails(r, n) ==
  /\ epc[r] = "query" /\ n <= reserved[r]
  /\ \E used \in Kept(n) : Settle(r, n, used)
  /\ FailField(r)
  /\ UNCHANGED <<server, handler, queriesSent>>

\* The query fails, or is cancelled with the context, after n rows.
QueryFails(r, n) ==
  /\ epc[r] = "query" /\ n <= reserved[r]
  /\ \E used \in Kept(n) : Settle(r, n, used)
  /\ FailField(r)
  /\ conns' = conns \ {r}
  /\ UNCHANGED <<inflight, handler, queriesSent>>

-----------------------------------------------------------------------------
(* Time and the client *)

\* Mutant: the context has no deadline.
MutantExpires(r) == FALSE

Expires(r) == rpc[r] \in {"loop", "exec"} /\ ~ctxDone[r]

\* QueryTimeoutSecs have passed.
Timeout(r) ==
  /\ Expires(r)
  /\ ctxDone' = [ctxDone EXCEPT ![r] = TRUE]
  /\ UNCHANGED <<server, rpc, body, cur, results, executor, budget, spent>>

\* The client hangs up.
Disconnect(r) ==
  /\ rpc[r] \in {"new", "waiting", "admitted", "loop", "exec"} /\ ~ctxDone[r]
  /\ ctxDone' = [ctxDone EXCEPT ![r] = TRUE]
  /\ UNCHANGED <<server, rpc, body, cur, results, executor, budget, spent>>

HandlerStep(r) ==
  \/ Admit(r) \/ Wait(r) \/ WaitTimesOut(r) \/ WaitAbandoned(r)
  \/ Begin(r) \/ Reply(r) \/ Refuse(r) \/ Execute(r) \/ Executed(r)

ExecutorStep(r) ==
  \/ Resolve(r) \/ FinishDocument(r) \/ AcquireConn(r) \/ NoQuery(r)
  \/ \E n \in 0 .. MaxProductLimit : QueryReturns(r, n) \/ QueryFails(r, n)

Next == \E r \in Requests : HandlerStep(r) \/ ExecutorStep(r) \/ Timeout(r) \/ Disconnect(r)

Spec == Init /\ [][Next]_vars

\* The handlers run, timers fire, and a cancelled query or wait ends.  Postgres
\* need not answer: nothing makes a query return before its context is done.
Fairness ==
  \A r \in Requests :
    /\ WF_vars(HandlerStep(r))
    /\ WF_vars(Timeout(r))
    /\ WF_vars(ctxDone[r] /\ ExecutorStep(r))

FairSpec == Spec /\ Fairness

-----------------------------------------------------------------------------
(* Properties *)

\* One request's aliases and batch items together never return more products or send
\* more queries than the request's budget, whatever fails and is refunded.  The rows
\* Postgres reads for it are bounded by both caps together, not by the first alone:
\* the rows of a query whose scan fails are all refunded.
BudgetRespected ==
  \A r \in Requests :
    /\ MaxProductsPerRequest > 0 =>
         /\ productsUsed[r] + reserved[r] <= MaxProductsPerRequest
         /\ rowsRead[r] <= queriesSent[r] * MaxProductsPerRequest
    /\ MaxProductQueriesPerRequest > 0 => queriesSent[r] <= MaxProductQueriesPerRequest

\* Nothing of the budget gets lost: when the resolver has no reservation open, the
\* products left are exactly those not returned, so a field is turned away for its
\* products only once all of them were.
NothingLost ==
  \A r \in Requests :
    MaxProductsPerRequest > 0 /\ rpc[r] \in {"loop", "exec"} =>
      productsLeft[r] + reserved[r] + productsUsed[r] = MaxProductsPerRequest

\* A new document is never executed beside one that timed out: one request never
\* runs two executors, so it never holds two connections.
OneExecutorPerRequest ==
  [][\A r \in Requests : rpc[r] = "loop" /\ rpc'[r] = "exec" => epc[r] = "idle"]_vars

\* A reply answers every item, and once the context ended no later item was run.
RepliesAreComplete ==
  \A r \in Requests :
    rpc[r] = "replied" =>
      /\ \A i \in 1 .. Len(body[r]) : results[r][i] # "none"
      /\ \A i, j \in 1 .. Len(body[r]) :
           i < j /\ results[r][i] \in {"cancelled", "timeout"} => results[r][j] = "timeout"

\* The connections in use by /graphql are those of the requests in a slot and of
\* executors whose request is over: the in-flight limit bounds the former.
ConnsWithinSlots ==
  inflightLimit > 0 =>
    /\ inflight = Cardinality({r \in Requests : rpc[r] \in Serving})
    /\ inflight <= inflightLimit
    /\ Cardinality({r \in conns : rpc[r] \notin Over}) <= inflightLimit

\* Every request is answered, turned away or given up by its client, even when
\* Postgres never answers.
EveryRequestEnds == \A r \in Requests : <>(rpc[r] \in Over)

\* Every connection comes back to the pool.
ConnsComeBack == \A r \in Requests : r \in conns ~> r \notin conns
=============================================================================
