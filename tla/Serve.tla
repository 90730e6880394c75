------------------------------- MODULE Serve -------------------------------
(***************************************************************************)
(* The `serve' process from start to exit, several replicas of it on one   *)
(* database: db.New, RunMigrations under advisory lock 42, Server.Start,   *)
(* the requests it answers through the chain of Response, SIGTERM and what *)
(* follows from it, and processes that are killed.                         *)
(*                                                                         *)
(* A session is a Postgres connection of some replica's pool.  RunMigrations*)
(* sends its three statements through the pool, each on whatever session   *)
(* the pool hands out.  A statement of a process that is gone goes on in   *)
(* Postgres until it ends.                                                 *)
(***************************************************************************)
EXTENDS Response, FiniteSets

CONSTANTS
  Replicas, Requests, Sessions,
  Lost,                 \* owner of a session whose process is gone
  Nobody,               \* owner of no session, holder of a free lock
  PoolMax,              \* DB_MAX_CONNS
  Routes,               \* routes that requests use
  MaxBoots              \* bound: starts of one replica

ASSUME ServeAssumption ==
  /\ PoolMax \in Nat \ {0} /\ MaxBoots \in Nat
  /\ Routes \subseteq {"graphql", "other"}
  /\ Lost \notin Replicas /\ Nobody \notin Replicas \cup Sessions /\ Lost # Nobody
  /\ \A q \in Requests : q \notin {"idle", "main", "reaper"}

VARIABLES
  pc, boots,            \* each replica's main goroutine
  owner, user,          \* each session: whose pool it is in, who is using it
  lock42, migrating,    \* Postgres: the lock's holder, sessions running the schema
  qpc, at, route,       \* each request
  reply, chain          \* ... its handler's reply and its response

replicaVars == <<pc, boots>>
sessionVars == <<owner, user>>
postgresVars == <<lock42, migrating>>
requestVars == <<qpc, at, route, reply, chain>>
vars == <<replicaVars, sessionVars, postgresVars, requestVars>>

Starting == {"lock", "locking", "schema", "applying", "unlock", "unlockFailed", "listen"}
Listening == {"serving", "stopping"}
Leaving == {"returning", "closing", "telemetry"}

NoReply == [code |-> 0, size |-> 0, written |-> 0]

TypeOK ==
  /\ pc \in [Replicas -> {"down"} \cup Starting \cup Listening \cup Leaving]
  /\ boots \in [Replicas -> Nat]
  /\ owner \in [Sessions -> Replicas \cup {Lost, Nobody}]
  /\ user \in [Sessions -> Requests \cup {"idle", "main", "reaper"}]
  /\ lock42 \in Sessions \cup {Nobody} /\ migrating \subseteq Sessions
  /\ qpc \in [Requests -> {"none", "handler", "query", "writing", "sent", "truncated",
                          "aborted", "reset", "killed"}]
  /\ at \in [Requests -> Replicas \cup {Nobody}]
  /\ route \in [Requests -> Routes]
  /\ reply \in [Requests -> Reply]
  /\ chain \in [Requests -> Chain]

Init ==
  /\ pc = [r \in Replicas |-> "down"] /\ boots = [r \in Replicas |-> 0]
  /\ owner = [s \in Sessions |-> Nobody] /\ user = [s \in Sessions |-> "idle"]
  /\ lock42 = Nobody /\ migrating = {}
  /\ qpc = [q \in Requests |-> "none"] /\ at = [q \in Requests |-> Nobody]
  /\ route \in [Requests -> Routes]
  /\ reply = [q \in Requests |-> NoReply]
  /\ \E head, accepts \in [Requests -> BOOLEAN] :
       chain = [q \in Requests |-> NewChain(head[q], accepts[q])]

Goto(r, step) == pc' = [pc EXCEPT ![r] = step]

-----------------------------------------------------------------------------
(* pgxpool *)

SessionsOf(r) == {s \in Sessions : owner[s] = r}
Idle(r) == {s \in SessionsOf(r) : user[s] = "idle"}

PoolOpen(r) == pc[r] \in Starting \cup Listening \cup {"returning"}

\* Which of the closed sessions stands for a new one makes no difference.
Fresh(s) == owner[s] = Nobody /\ s = CHOOSE t \in Sessions : owner[t] = Nobody

\* An idle session, any of them, or a new one when none is idle.
Obtainable(r, s) ==
  /\ PoolOpen(r)
  /\ \/ s \in Idle(r)
     \/ Idle(r) = {} /\ Fresh(s) /\ Cardinality(SessionsOf(r)) < PoolMax

Obtain(r, s, u) ==
  /\ Obtainable(r, s)
  /\ owner' = [owner EXCEPT ![s] = r]
  /\ user' = [user EXCEPT ![s] = u]

\* The end of sessions, and of what Postgres keeps for them.
Close(S) ==
  /\ owner' = [s \in Sessions |-> IF s \in S THEN Nobody ELSE owner[s]]
  /\ user' = [s \in Sessions |-> IF s \in S THEN "idle" ELSE user[s]]
  /\ lock42' = IF lock42 \in S THEN Nobody ELSE lock42
  /\ migrating' = migrating \ S

\* Mutant: a closed pool keeps what is released to it.
MutantRelease(s) == user' = [user EXCEPT ![s] = "idle"] /\ UNCHANGED <<owner, postgresVars>>

\* Back to the pool; a pool that is closed ends the session.
Release(s) ==
  IF PoolOpen(owner[s]) THEN user' = [user EXCEPT ![s] = "idle"] /\ UNCHANGED <<owner, postgresVars>>
  ELSE Close({s})

\* The pool's background goroutine closes a session past its idle time or its age, never
\* as early as the start.  DB_MIN_CONNS is 0, its default: it opens none.
Expire(r, s) ==
  /\ pc[r] \in Listening /\ s \in Idle(r)
  /\ Close({s})
  /\ UNCHANGED <<replicaVars, requestVars>>

-----------------------------------------------------------------------------
(* serveCmd up to the listener *)

\* db.New opens a session to ping; without one the command ends.
Boot(r) ==
  /\ pc[r] = "down" /\ boots[r] < MaxBoots
  /\ boots' = [boots EXCEPT ![r] = @ + 1]
  /\ \/ /\ Goto(r, "lock")
        /\ \E s \in Sessions : Fresh(s) /\ owner' = [owner EXCEPT ![s] = r]
     \/ Goto(r, "telemetry") /\ UNCHANGED owner
  /\ UNCHANGED <<user, postgresVars, requestVars>>

\* SELECT pg_advisory_lock(42), which waits.
TakeLock(r, s) ==
  /\ pc[r] = "lock"
  /\ Obtain(r, s, "main")
  /\ Goto(r, "locking")
  /\ UNCHANGED <<boots, postgresVars, requestVars>>

InUse(r, s) == owner[s] = r /\ user[s] = "main"

\* Mutant: pg_try_advisory_lock, its answer ignored.
MutantGranted(s) == lock42' = IF lock42 = Nobody THEN s ELSE lock42

Granted(s) == lock42 = Nobody /\ lock42' = s

LockGranted(r, s) ==
  /\ pc[r] = "locking" /\ InUse(r, s)
  /\ Granted(s)
  /\ user' = [user EXCEPT ![s] = "idle"]
  /\ Goto(r, "schema")
  /\ UNCHANGED <<boots, owner, migrating, requestVars>>

\* statement_timeout, five minutes.
LockTimesOut(r, s) ==
  /\ pc[r] = "locking" /\ InUse(r, s) /\ lock42 # Nobody
  /\ user' = [user EXCEPT ![s] = "idle"]
  /\ Goto(r, "returning")
  /\ UNCHANGED <<boots, owner, postgresVars, requestVars>>

BeginSchema(r, s) ==
  /\ pc[r] = "schema"
  /\ Obtain(r, s, "main")
  /\ migrating' = migrating \cup {s}
  /\ Goto(r, "applying")
  /\ UNCHANGED <<boots, lock42, requestVars>>

EndSchema(r, s) ==
  /\ pc[r] = "applying" /\ InUse(r, s)
  /\ user' = [user EXCEPT ![s] = "idle"]
  /\ migrating' = migrating \ {s}
  /\ Goto(r, "unlock") \/ Goto(r, "unlockFailed")
  /\ UNCHANGED <<boots, owner, lock42, requestVars>>

\* Mutant: a schema that fails is tried again.
MutantAfterUnlock(r) == IF pc[r] = "unlock" THEN "listen" ELSE "lock"

AfterUnlock(r) == IF pc[r] = "unlock" THEN "listen" ELSE "returning"

\* Mutant: the deferred unlock is missing.
MutantUnlocked(s) == UNCHANGED lock42

\* A session that does not hold the lock only gets a warning.
Unlocked(s) == lock42' = IF lock42 = s THEN Nobody ELSE lock42

\* SELECT pg_advisory_unlock(42), its error ignored; a statement that runs into its
\* timeout takes its session with it.
Unlock(r, s) ==
  /\ pc[r] \in {"unlock", "unlockFailed"}
  /\ Obtainable(r, s)
  /\ \/ owner' = [owner EXCEPT ![s] = r] /\ Unlocked(s) /\ UNCHANGED <<user, migrating>>
     \/ Close({s})
  /\ Goto(r, AfterUnlock(r))
  /\ UNCHANGED <<boots, requestVars>>

\* server.New and Start, up to ListenAndServe; the port may be taken.
Listen(r) ==
  /\ pc[r] = "listen"
  /\ Goto(r, "serving") \/ Goto(r, "returning")
  /\ UNCHANGED <<boots, sessionVars, postgresVars, requestVars>>

-----------------------------------------------------------------------------
(* SIGTERM, and the deferred calls of serveCmd *)

\* The goroutine behind signal.Notify wakes up and stops the background goroutines.
Signal(r) ==
  /\ pc[r] = "serving"
  /\ Goto(r, "stopping")
  /\ UNCHANGED <<boots, sessionVars, postgresVars, requestVars>>

\* Shutdown closes the listener, and with that ListenAndServe and Start return:
\* nobody waits for Shutdown itself.
CloseListener(r) ==
  /\ pc[r] = "stopping"
  /\ Goto(r, "returning")
  /\ UNCHANGED <<boots, sessionVars, postgresVars, requestVars>>

\* database.Close: idle sessions end at once, the others when they are released.
BeginClose(r) ==
  /\ pc[r] = "returning"
  /\ Close(Idle(r))
  /\ Goto(r, "closing")
  /\ UNCHANGED <<boots, requestVars>>

PoolClosed(r) ==
  /\ pc[r] = "closing" /\ SessionsOf(r) = {}
  /\ Goto(r, "telemetry")
  /\ UNCHANGED <<boots, sessionVars, postgresVars, requestVars>>

Pending(r) == {q \in Requests : at[q] = r /\ qpc[q] \in {"handler", "query", "writing"}}

Anew(q) == NewChain(chain[q].head, chain[q].accepts)

\* Requests end without an answer, and what was to be their answer is gone.
EndRequests(r, how) ==
  /\ qpc' = [q \in Requests |-> IF q \in Pending(r) THEN how ELSE qpc[q]]
  /\ reply' = [q \in Requests |-> IF q \in Pending(r) THEN NoReply ELSE reply[q]]
  /\ chain' = [q \in Requests |-> IF q \in Pending(r) THEN Anew(q) ELSE chain[q]]

\* The telemetry is flushed and main returns, which ends every goroutine.
Exit(r) ==
  /\ pc[r] = "telemetry"
  /\ Goto(r, "down")
  /\ EndRequests(r, "aborted")
  /\ UNCHANGED <<boots, sessionVars, postgresVars, at, route>>

\* SIGKILL, or a SIGTERM before Start has asked for it.
Kill(r) ==
  /\ pc[r] # "down"
  /\ Goto(r, "down")
  /\ EndRequests(r, "killed")
  /\ owner' = [s \in Sessions |-> IF s \in Idle(r) THEN Nobody
                                  ELSE IF s \in SessionsOf(r) THEN Lost ELSE owner[s]]
  /\ user' = [s \in Sessions |-> IF s \in SessionsOf(r) THEN "idle" ELSE user[s]]
  /\ lock42' = IF lock42 \in Idle(r) THEN Nobody ELSE lock42
  /\ UNCHANGED <<boots, migrating, at, route>>

\* The last statement of a lost session ends.
LostEnds(s) ==
  /\ owner[s] = Lost
  /\ Close({s})
  /\ UNCHANGED <<replicaVars, requestVars>>

-----------------------------------------------------------------------------
(* The reaper goroutine *)

Reap(r, s) ==
  /\ pc[r] \in Listening
  /\ \A t \in SessionsOf(r) : user[t] # "reaper"
  /\ Obtain(r, s, "reaper")
  /\ UNCHANGED <<replicaVars, postgresVars, requestVars>>

ReapEnds(s) ==
  /\ user[s] = "reaper"
  /\ Release(s)
  /\ UNCHANGED <<replicaVars, requestVars>>

-----------------------------------------------------------------------------
(* Requests *)

Step(q, from, to) == qpc[q] = from /\ qpc' = [qpc EXCEPT ![q] = to]

Replies(codes, sizes) == [code : codes, size : sizes, written : {0}]

\* What the handlers write, as far as the writers tell replies apart: what they get
\* from the database or know themselves, and what they answer without it.  /graphql
\* answers 200 without a WriteHeader; of the others /catalog does too or answers 304 or,
\* to HEAD, 200 and no body, the probes answer 200, /readyz 503, and every one 405.
Answers(kind) ==
  IF kind = "graphql" THEN Replies({0}, {MinSize - 1, MinSize})
  ELSE Replies({0}, {MinSize}) \cup Replies({200}, {0, MinSize - 1}) \cup Replies({304}, {0})

Refusals(kind) ==
  IF kind = "graphql" THEN Replies({403}, {ErrorSize})
  ELSE Replies({503}, {ErrorSize}) \cup Replies({405}, {0})

Arrive(q, r) ==
  /\ pc[r] \in Listening
  /\ Step(q, "none", "handler")
  /\ at' = [at EXCEPT ![q] = r]
  /\ UNCHANGED <<replicaVars, sessionVars, postgresVars, route, reply, chain>>

\* A resolver's query, a ping, or a query of /status.
Query(q, s) ==
  /\ Step(q, "handler", "query")
  /\ Obtain(at[q], s, q)
  /\ UNCHANGED <<replicaVars, postgresVars, at, route, reply, chain>>

\* The handler begins one of its replies.
Respond(q, replies) ==
  \E a \in replies :
    /\ reply' = [reply EXCEPT ![q] = a]
    /\ chain' = [chain EXCEPT ![q] = Headed(@, a.code)]

QueryEnds(q, s) ==
  /\ Step(q, "query", "writing") /\ user[s] = q
  /\ Release(s)
  /\ Respond(q, Answers(route[q]) \cup Refusals(route[q]))
  /\ UNCHANGED <<replicaVars, at, route>>

\* Nothing is asked of the database, or its pool is closed or has nothing free.
NoQuery(q) ==
  /\ Step(q, "handler", "writing")
  /\ Respond(q, Answers(route[q]) \cup Refusals(route[q]))
  /\ UNCHANGED <<replicaVars, sessionVars, postgresVars, at, route>>

\* More of the body.
Write(q, n) ==
  /\ qpc[q] = "writing" /\ reply[q].written + n <= reply[q].size
  /\ reply' = [reply EXCEPT ![q].written = @ + n]
  /\ chain' = [chain EXCEPT ![q] = TrackerWrite(@, n)]
  /\ UNCHANGED <<replicaVars, sessionVars, postgresVars, qpc, at, route>>

\* The middlewares return and net/http sends what they wrote.
Return(q) ==
  /\ reply[q].written = reply[q].size
  /\ Step(q, "writing", "sent")
  /\ UNCHANGED <<replicaVars, sessionVars, postgresVars, at, route, reply, chain>>

\* Nothing of the reply is written yet, not even its header.
Untouched(q) == qpc[q] = "handler" \/ (reply[q].code = 0 /\ reply[q].written = 0)

\* A panic of a handler, wherever it is with its reply: /graphql recovers, net/http
\* resets the connection of any other route.
Panic(q) ==
  /\ qpc[q] \in {"handler", "writing"}
  /\ \/ /\ route[q] = "graphql"
        /\ chain' = [chain EXCEPT ![q] = Recovered(@)]
        /\ \/ /\ Untouched(q) /\ Step(q, qpc[q], "sent")
              /\ reply' = [reply EXCEPT ![q] = [code |-> 500, size |-> ErrorSize, written |-> ErrorSize]]
           \/ /\ ~Untouched(q) /\ Step(q, qpc[q], "truncated")
              /\ UNCHANGED reply
     \/ /\ route[q] # "graphql"
        /\ Step(q, qpc[q], "reset")
        /\ reply' = [reply EXCEPT ![q] = NoReply]
        /\ chain' = [chain EXCEPT ![q] = Anew(q)]
  /\ UNCHANGED <<replicaVars, sessionVars, postgresVars, at, route>>

-----------------------------------------------------------------------------

MainStep(r) ==
  \/ \E s \in Sessions :
       TakeLock(r, s) \/ LockGranted(r, s) \/ LockTimesOut(r, s)
       \/ BeginSchema(r, s) \/ EndSchema(r, s) \/ Unlock(r, s)
  \/ Listen(r) \/ CloseListener(r) \/ BeginClose(r) \/ PoolClosed(r) \/ Exit(r)

PoolStep(r) == \E s \in Sessions : Expire(r, s) \/ Reap(r, s)

StatementEnds(s) == ReapEnds(s) \/ LostEnds(s) \/ \E q \in Requests : QueryEnds(q, s)

RequestStep(q) ==
  \/ \E s \in Sessions : Query(q, s)
  \/ \E n \in 1 .. reply[q].size : Write(q, n)
  \/ NoQuery(q) \/ Return(q)

Next ==
  \/ \E r \in Replicas : Boot(r) \/ MainStep(r) \/ PoolStep(r) \/ Signal(r) \/ Kill(r)
  \/ \E s \in Sessions : StatementEnds(s)
  \/ \E q \in Requests : RequestStep(q) \/ Panic(q) \/ \E r \in Replicas : Arrive(q, r)

Spec == Init /\ [][Next]_vars

\* Goroutines run and statements end: every session has a statement_timeout.
Fairness ==
  /\ \A r \in Replicas : WF_vars(MainStep(r))
  /\ \A s \in Sessions : WF_vars(StatementEnds(s))

FairSpec == Spec /\ Fairness

-----------------------------------------------------------------------------
(* Properties *)

\* Replicas that start together apply the schema one at a time, the statement of a
\* replica that was killed in the middle of it included.
MigrationsExclude == Cardinality(migrating) <= 1

\* A replica that is through with its migrations has left lock 42: no session in its
\* pool keeps the next replica from starting.
LockReturned ==
  lock42 # Nobody /\ owner[lock42] # Lost =>
    pc[owner[lock42]] \in {"schema", "applying", "unlock", "unlockFailed"}

\* A client that gets an answer gets the one its handler gave: the status, the whole
\* body (none to HEAD), compressed exactly when it is long enough and the client accepts
\* that.  After a panic of /graphql that is the 500 of recoverMiddleware when nothing was
\* written; once the header was, the status stands, what was written of the body follows
\* it, and no second answer does.  The status on the wire is the one the metrics record.
AnswerIsWhole ==
  \A q \in Requests : qpc[q] \in {"sent", "truncated"} =>
    LET bytes == IF qpc[q] = "sent" THEN reply[q].size ELSE reply[q].written
    IN /\ Sent(chain[q]) =
            [status |-> IF reply[q].code = 0 THEN 200 ELSE reply[q].code,
             gzip |-> chain[q].accepts /\ bytes >= MinSize,
             body |-> IF chain[q].head THEN 0 ELSE bytes]
       /\ chain[q].recorded = Sent(chain[q]).status

\* A replica that is asked to stop exits, whatever its pool is busy with.
SignalledServerExits == \A r \in Replicas : pc[r] = "stopping" ~> pc[r] = "down"

\* A start ends, in a replica that listens or in one that is down again.
StartsEnd == \A r \in Replicas : pc[r] = "lock" ~> pc[r] \in {"serving", "down"}

\* Graceful shutdown: a request that was accepted is answered unless the process was
\* killed or its handler panicked.
InFlightAnswered == \A q \in Requests : qpc[q] # "aborted"
=============================================================================
