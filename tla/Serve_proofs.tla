---------------------------- MODULE Serve_proofs ----------------------------
(* Theorems about Serve, for every number of replicas, sessions and        *)
(* requests, every pool size and every number of starts.                   *)
EXTENDS Serve, FiniteSetTheorems, TLAPS

\* The part of TypeOK that the argument needs.
StartTypes ==
  /\ pc \in [Replicas -> {"down"} \cup Starting \cup Listening \cup Leaving]
  /\ owner \in [Sessions -> Replicas \cup {Lost, Nobody}]
  /\ user \in [Sessions -> Requests \cup {"idle", "main", "reaper"}]
  /\ lock42 \in Sessions \cup {Nobody} /\ migrating \subseteq Sessions
  /\ qpc \in [Requests -> {"none", "handler", "query", "writing", "sent", "truncated",
                          "aborted", "reset", "killed"}]
  /\ at \in [Requests -> Replicas \cup {Nobody}]

UnderLock == {"schema", "applying", "unlock", "unlockFailed"}

\* Until it listens a replica has one session, so that what it locks, it unlocks; it
\* has none when it is down.
PoolInv ==
  \A r \in Replicas :
    /\ pc[r] \in {"down", "telemetry"} => \A s \in Sessions : owner[s] # r
    /\ pc[r] \in {"lock", "locking"} \cup UnderLock =>
         \A s, t \in Sessions : owner[s] = r /\ owner[t] = r => s = t
    /\ pc[r] \in {"lock", "schema", "unlock", "unlockFailed"} =>
         \E s \in Sessions : owner[s] = r /\ user[s] = "idle"
    /\ pc[r] \in UnderLock => lock42 # Nobody /\ owner[lock42] = r

\* What Postgres keeps, it keeps for a session that is there; and the schema is applied
\* in the session that holds the lock.
SessionInv ==
  \A s \in Sessions :
    /\ owner[s] \in {Lost, Nobody} => user[s] = "idle"
    /\ owner[s] = Nobody => s # lock42
    /\ s \in migrating =>
         /\ s = lock42
         /\ owner[s] = Lost \/ \E r \in Replicas : owner[s] = r /\ pc[r] = "applying" /\ user[s] = "main"
    /\ s = lock42 =>
         owner[s] = Lost \/ \E r \in Replicas : owner[s] = r /\ pc[r] \in UnderLock

\* Requests are where a server listens or leaves.
RequestInv ==
  \A q \in Requests :
    qpc[q] \in {"handler", "query", "writing"} =>
      at[q] \in Replicas /\ pc[at[q]] \in Listening \cup Leaving

Inv == StartTypes /\ PoolInv /\ SessionInv /\ RequestInv

\* With every replica down and every session closed the invariant holds.
LEMMA InitInv == Init => Inv
BY ServeAssumption
   DEF Init, Inv, StartTypes, PoolInv, SessionInv, RequestInv, Starting, Listening, Leaving, UnderLock

\* An obtainable session is idle in a pool that is open, or new to one with none idle.
LEMMA ObtainableCases ==
  ASSUME NEW r \in Replicas, NEW s \in Sessions, Obtainable(r, s)
  PROVE  /\ pc[r] \in Starting \cup Listening \cup {"returning"}
         /\ \/ owner[s] = r /\ user[s] = "idle"
            \/ owner[s] = Nobody /\ \A t \in Sessions : ~(owner[t] = r /\ user[t] = "idle")
BY DEF Obtainable, PoolOpen, Idle, SessionsOf, Fresh

\* One step of a replica's main goroutine.
LEMMA MainKeepsInv == ASSUME Inv, NEW r \in Replicas, Boot(r) \/ MainStep(r) \/ Signal(r) PROVE Inv'
<1> USE ServeAssumption DEF Inv, StartTypes, PoolInv, SessionInv, RequestInv,
    Starting, Listening, Leaving, UnderLock, Goto, sessionVars, postgresVars, requestVars
<1>1. ASSUME Boot(r) PROVE Inv'
  BY <1>1 DEF Boot, Fresh
<1>2. ASSUME NEW s \in Sessions, TakeLock(r, s) PROVE Inv'
  BY <1>2, ObtainableCases DEF TakeLock, Obtain
<1>3. ASSUME NEW s \in Sessions, LockGranted(r, s) PROVE Inv'
  BY <1>3 DEF LockGranted, Granted, InUse
<1>4. ASSUME NEW s \in Sessions, LockTimesOut(r, s) PROVE Inv'
  BY <1>4 DEF LockTimesOut, InUse
<1>5. ASSUME NEW s \in Sessions, BeginSchema(r, s) PROVE Inv'
  BY <1>5, ObtainableCases DEF BeginSchema, Obtain
<1>6. ASSUME NEW s \in Sessions, EndSchema(r, s) PROVE Inv'
  BY <1>6 DEF EndSchema, InUse
<1>7. ASSUME NEW s \in Sessions, Unlock(r, s) PROVE Inv'
  <2>1. owner[s] = r /\ s = lock42 /\ migrating = {}
    BY <1>7, ObtainableCases DEF Unlock
  <2>2. pc' = [pc EXCEPT ![r] = AfterUnlock(r)] /\ AfterUnlock(r) \in {"listen", "returning"}
    BY <1>7 DEF Unlock, AfterUnlock
  <2> QED BY <1>7, <2>1, <2>2 DEF Unlock, Unlocked, Close
<1>8. ASSUME Listen(r) \/ Signal(r) \/ CloseListener(r) PROVE Inv'
  BY <1>8 DEF Listen, Signal, CloseListener
<1>9. ASSUME BeginClose(r) PROVE Inv'
  BY <1>9 DEF BeginClose, Close, Idle, SessionsOf
<1>10. ASSUME PoolClosed(r) PROVE Inv'
  BY <1>10 DEF PoolClosed, SessionsOf
<1>11. ASSUME Exit(r) PROVE Inv'
  BY <1>11 DEF Exit, EndRequests, Pending
<1> QED BY <1>1, <1>2, <1>3, <1>4, <1>5, <1>6, <1>7, <1>8, <1>9, <1>10, <1>11 DEF MainStep

\* The pool, the reaper and the end of a process.
LEMMA PoolKeepsInv == ASSUME Inv, NEW r \in Replicas, PoolStep(r) \/ Kill(r) PROVE Inv'
<1> USE ServeAssumption DEF Inv, StartTypes, PoolInv, SessionInv, RequestInv,
    Starting, Listening, Leaving, UnderLock, Goto, replicaVars, sessionVars, postgresVars, requestVars
<1>1. ASSUME NEW s \in Sessions, Expire(r, s) PROVE Inv'
  BY <1>1 DEF Expire, Close, Idle, SessionsOf
<1>2. ASSUME NEW s \in Sessions, Reap(r, s) PROVE Inv'
  BY <1>2, ObtainableCases DEF Reap, Obtain
<1>3. ASSUME Kill(r) PROVE Inv'
  BY <1>3 DEF Kill, EndRequests, Pending, Idle, SessionsOf
<1> QED BY <1>1, <1>2, <1>3 DEF PoolStep

\* A session that a request or the reaper gives back holds no lock.
LEMMA ReleaseKeepsInv ==
  ASSUME Inv, NEW s \in Sessions, user[s] \notin {"idle", "main"}, Release(s),
         UNCHANGED <<pc, at>>, \A q \in Requests : qpc'[q] = qpc[q] \/ qpc[q] = "query",
         qpc' \in [Requests -> {"none", "handler", "query", "writing", "sent", "truncated",
                              "aborted", "reset", "killed"}]
  PROVE  Inv'
<1> USE ServeAssumption DEF Inv, StartTypes, PoolInv, SessionInv, RequestInv,
    Starting, Listening, Leaving, UnderLock, postgresVars
<1>1. PICK r \in Replicas : owner[s] = r
  OBVIOUS
<1>2. CASE PoolOpen(r)
  BY <1>1, <1>2 DEF Release
<1>3. CASE ~PoolOpen(r)
  BY <1>1, <1>3 DEF Release, PoolOpen, Close
<1> QED BY <1>2, <1>3

\* The end of a statement of the reaper, of a request or of a lost session.
LEMMA StatementKeepsInv == ASSUME Inv, NEW s \in Sessions, StatementEnds(s) PROVE Inv'
<1> USE ServeAssumption DEF replicaVars, requestVars
<1>1. ASSUME ReapEnds(s) PROVE Inv'
  BY <1>1, ReleaseKeepsInv DEF ReapEnds, Inv, StartTypes
<1>2. ASSUME LostEnds(s) PROVE Inv'
  BY <1>2 DEF LostEnds, Close, Inv, StartTypes, PoolInv, SessionInv, RequestInv, UnderLock
<1>3. ASSUME NEW q \in Requests, QueryEnds(q, s) PROVE Inv'
  BY <1>3, ReleaseKeepsInv DEF QueryEnds, Step, Inv, StartTypes
<1> QED BY <1>1, <1>2, <1>3 DEF StatementEnds

\* Requests never touch what a start relies on.
LEMMA RequestKeepsInv ==
  ASSUME Inv, NEW q \in Requests, RequestStep(q) \/ Panic(q) \/ \E r \in Replicas : Arrive(q, r)
  PROVE  Inv'
<1> USE ServeAssumption DEF Inv, StartTypes, PoolInv, SessionInv, RequestInv,
    Starting, Listening, Leaving, UnderLock, replicaVars, sessionVars, postgresVars, Step
<1>1. ASSUME NEW s \in Sessions, Query(q, s) PROVE Inv'
  BY <1>1, ObtainableCases DEF Query, Obtain
<1>2. ASSUME NoQuery(q) \/ Return(q) \/ (\E n \in 1 .. reply[q].size : Write(q, n)) PROVE Inv'
  BY <1>2 DEF NoQuery, Return, Write
<1>3. ASSUME Panic(q) PROVE Inv'
  BY <1>3 DEF Panic
<1>4. ASSUME NEW r \in Replicas, Arrive(q, r) PROVE Inv'
  BY <1>4 DEF Arrive
<1> QED BY <1>1, <1>2, <1>3, <1>4 DEF RequestStep

\* Every step keeps the invariant.
LEMMA StepInv == Inv /\ [Next]_vars => Inv'
<1> SUFFICES ASSUME Inv, [Next]_vars PROVE Inv'
  OBVIOUS
<1>1. CASE UNCHANGED vars
  BY <1>1 DEF vars, replicaVars, sessionVars, postgresVars, requestVars,
              Inv, StartTypes, PoolInv, SessionInv, RequestInv
<1> QED BY <1>1, MainKeepsInv, PoolKeepsInv, StatementKeepsInv, RequestKeepsInv DEF Next

\* The inductive invariant holds throughout.
LEMMA Invariant == Spec => []Inv
BY InitInv, StepInv, PTL DEF Spec

-----------------------------------------------------------------------------
(* Responses *)

\* The status on the wire, and the part of a body.
Status(code) == IF code = 0 THEN 200 ELSE code
Body(head, n) == IF head THEN 0 ELSE n

\* What a client is to get for a code and a body, and what the metrics record.
Whole(w, code, size) ==
  /\ Sent(w) = [status |-> Status(code), gzip |-> w.accepts /\ size >= MinSize, body |-> Body(w.head, size)]
  /\ w.recorded = Sent(w).status

\* A chain through which a code went, or none, and then n bytes.
Holds(w, head, accepts, code, n) ==
  /\ w \in Chain /\ w.head = head /\ w.accepts = accepts /\ w.recorded = Status(code)
  /\ ~accepts =>
       /\ ~w.wroteHeader /\ w.buf = 0 /\ ~w.gz /\ w.held = 0 /\ w.status = 0
       /\ w.sent = [status |-> IF n = 0 THEN code ELSE Status(code), gzip |-> FALSE, body |-> Body(head, n)]
  /\ accepts /\ n < MinSize =>
       /\ ~w.wroteHeader /\ w.buf = n /\ ~w.gz /\ w.held = 0 /\ w.status = code
       /\ w.sent = [status |-> 0, gzip |-> FALSE, body |-> 0]
  /\ accepts /\ ~(n < MinSize) =>
       /\ w.buf = 0 /\ w.gz /\ w.held = n
       /\ w.sent = [status |-> Status(code), gzip |-> TRUE, body |-> 0]

\* Chains that differ in what net/http has, at most.
SameWriters(v, w) ==
  /\ v \in Chain /\ v.head = w.head
  /\ v.headerWritten = w.headerWritten /\ v.recorded = w.recorded /\ v.accepts = w.accepts
  /\ v.status = w.status /\ v.wroteHeader = w.wroteHeader
  /\ v.buf = w.buf /\ v.gz = w.gz /\ v.held = w.held

LEMMA NetHeaderSends ==
  ASSUME NEW w \in Chain, NEW code \in Nat
  PROVE  /\ SameWriters(NetHeader(w, code), w)
         /\ NetHeader(w, code).sent =
              [status |-> IF w.sent.status = 0 THEN code ELSE w.sent.status,
               gzip |-> w.sent.gzip, body |-> w.sent.body]
<1>1. w.sent \in [status : Nat, gzip : BOOLEAN, body : Nat]
  BY DEF Chain
<1>2. CASE w.sent.status = 0
  <2>1. NetHeader(w, code) = [w EXCEPT !.sent = [w.sent EXCEPT !.status = code]]
    BY <1>2 DEF NetHeader
  <2>2. [w.sent EXCEPT !.status = code] = [status |-> code, gzip |-> w.sent.gzip, body |-> w.sent.body]
    BY <1>1
  <2> QED
    BY <1>1, <1>2, <2>1, <2>2 DEF SameWriters, Chain
<1>3. CASE w.sent.status # 0
  <2>1. NetHeader(w, code) = w
    BY <1>3 DEF NetHeader
  <2>2. w.sent = [status |-> w.sent.status, gzip |-> w.sent.gzip, body |-> w.sent.body]
    BY <1>1
  <2> QED
    BY <1>3, <2>1, <2>2 DEF SameWriters
<1> QED
  BY <1>2, <1>3

LEMMA NetWriteSends ==
  ASSUME NEW w \in Chain, NEW n \in Nat
  PROVE  /\ SameWriters(NetWrite(w, n), w)
         /\ NetWrite(w, n).sent =
              [status |-> IF w.sent.status = 0 THEN 200 ELSE w.sent.status,
               gzip |-> w.sent.gzip, body |-> w.sent.body + Body(w.head, n)]
<1> DEFINE h == NetHeader(w, 200)
           b == IF w.head THEN h.sent.body ELSE h.sent.body + n
<1>1. /\ SameWriters(h, w)
      /\ h.sent = [status |-> IF w.sent.status = 0 THEN 200 ELSE w.sent.status,
                   gzip |-> w.sent.gzip, body |-> w.sent.body]
  BY NetHeaderSends
<1>2. NetWrite(w, n) = [h EXCEPT !.sent = [h.sent EXCEPT !.body = b]]
  BY DEF NetWrite
<1>3. w.sent.status \in Nat /\ w.sent.gzip \in BOOLEAN /\ w.sent.body \in Nat
  BY DEF Chain
<1>8. b = w.sent.body + Body(w.head, n) /\ b \in Nat
  BY <1>1, <1>3 DEF Body
<1> HIDE DEF h, b
<1>4. [h.sent EXCEPT !.body = b] =
        [status |-> IF w.sent.status = 0 THEN 200 ELSE w.sent.status,
         gzip |-> w.sent.gzip, body |-> w.sent.body + Body(w.head, n)]
  BY <1>1, <1>8
<1>5. [h.sent EXCEPT !.body = b] \in [status : Nat, gzip : BOOLEAN, body : Nat]
  BY <1>3, <1>4, <1>8
<1>6. h \in Chain
  BY <1>1 DEF SameWriters
<1>7. /\ SameWriters([h EXCEPT !.sent = [h.sent EXCEPT !.body = b]], h)
      /\ [h EXCEPT !.sent = [h.sent EXCEPT !.body = b]].sent = [h.sent EXCEPT !.body = b]
  BY <1>5, <1>6 DEF SameWriters, Chain
<1> QED
  BY <1>1, <1>2, <1>4, <1>7 DEF SameWriters

LEMMA NewHolds ==
  ASSUME NEW head \in BOOLEAN, NEW accepts \in BOOLEAN
  PROVE  /\ Holds(NewChain(head, accepts), head, accepts, 0, 0)
         /\ ~NewChain(head, accepts).headerWritten
BY SizeAssumption DEF Holds, NewChain, Chain, Status, Body

\* WriteHeader reaches the gzip writer's status, or net/http.
LEMMA HeaderHolds ==
  ASSUME NEW head \in BOOLEAN, NEW accepts \in BOOLEAN, NEW w, Holds(w, head, accepts, 0, 0), NEW code \in Nat \ {0}
  PROVE  /\ Holds(StatusWriteHeader(w, code), head, accepts, code, 0)
         /\ StatusWriteHeader(w, code).headerWritten = w.headerWritten
<1>0. 0 < MinSize /\ Status(code) = code /\ Body(head, 0) = 0
  BY SizeAssumption DEF Status, Body
<1>1. CASE accepts
  BY <1>0, <1>1 DEF Holds, Chain, StatusWriteHeader, GzipWriteHeader
<1>2. CASE ~accepts
  <2> DEFINE v == [w EXCEPT !.recorded = code]
  <2>1. /\ v \in Chain /\ v.sent = w.sent /\ v.recorded = code /\ v.head = head
        /\ v.headerWritten = w.headerWritten /\ v.accepts = accepts /\ ~v.wroteHeader
        /\ v.buf = 0 /\ ~v.gz /\ v.held = 0 /\ v.status = 0
    BY <1>2 DEF Holds, Chain
  <2>2. StatusWriteHeader(w, code) = NetHeader(v, code)
    BY <1>2, <2>1 DEF StatusWriteHeader, GzipWriteHeader
  <2>3. v.sent.status = 0 /\ v.sent.gzip = FALSE /\ v.sent.body = 0
    BY <1>0, <1>2, <2>1 DEF Holds
  <2> HIDE DEF v
  <2>4. SameWriters(NetHeader(v, code), v) /\ NetHeader(v, code).sent = [status |-> code, gzip |-> FALSE, body |-> 0]
    BY <2>1, <2>3, NetHeaderSends
  <2> QED
    BY <1>0, <1>2, <2>1, <2>2, <2>4 DEF Holds, SameWriters
<1> QED
  BY <1>1, <1>2

\* The tracker only looks on.
LEMMA TrackedHolds ==
  ASSUME NEW head, NEW accepts, NEW code, NEW n, NEW w, Holds(w, head, accepts, code, n)
  PROVE  /\ Holds([w EXCEPT !.headerWritten = TRUE], head, accepts, code, n)
         /\ [w EXCEPT !.headerWritten = TRUE].headerWritten = TRUE
BY DEF Holds, Chain

\* The status the gzip writer has, 200 if none, goes out once.
LEMMA HeaderNow ==
  ASSUME NEW w \in Chain, ~w.wroteHeader, w.sent.status = 0
  PROVE  /\ writeHeaderNow(w) \in Chain
         /\ writeHeaderNow(w).head = w.head /\ writeHeaderNow(w).recorded = w.recorded /\ writeHeaderNow(w).accepts = w.accepts
         /\ writeHeaderNow(w).headerWritten = w.headerWritten
         /\ writeHeaderNow(w).buf = w.buf /\ writeHeaderNow(w).gz = w.gz /\ writeHeaderNow(w).held = w.held
         /\ writeHeaderNow(w).sent =
              [status |-> IF w.status = 0 THEN 200 ELSE w.status, gzip |-> w.sent.gzip, body |-> w.sent.body]
<1> DEFINE c == IF w.status = 0 THEN 200 ELSE w.status
           h == NetHeader(w, c)
<1>1. c \in Nat
  BY DEF Chain
<1>2. writeHeaderNow(w) = [h EXCEPT !.wroteHeader = TRUE]
  BY DEF writeHeaderNow
<1>3. SameWriters(h, w) /\ h.sent = [status |-> c, gzip |-> w.sent.gzip, body |-> w.sent.body]
  <2> HIDE DEF c
  <2> QED
    BY <1>1, NetHeaderSends
<1> HIDE DEF h, c
<1>4. h \in Chain
  BY <1>3 DEF SameWriters
<1>5. /\ SameWriters([h EXCEPT !.wroteHeader = TRUE], [h EXCEPT !.wroteHeader = TRUE])
      /\ [h EXCEPT !.wroteHeader = TRUE].head = h.head
      /\ [h EXCEPT !.wroteHeader = TRUE].recorded = h.recorded /\ [h EXCEPT !.wroteHeader = TRUE].accepts = h.accepts
      /\ [h EXCEPT !.wroteHeader = TRUE].headerWritten = h.headerWritten
      /\ [h EXCEPT !.wroteHeader = TRUE].buf = h.buf /\ [h EXCEPT !.wroteHeader = TRUE].gz = h.gz
      /\ [h EXCEPT !.wroteHeader = TRUE].held = h.held /\ [h EXCEPT !.wroteHeader = TRUE].sent = h.sent
  BY <1>4 DEF SameWriters, Chain
<1> QED
  BY <1>2, <1>3, <1>5 DEF SameWriters, c

\* What Close leaves to net/http is what the client gets.
LEMMA WholeFromParts ==
  ASSUME NEW w, NEW code \in Nat, NEW size \in Nat, NEW c \in {code, Status(code)}, NEW zipped \in BOOLEAN,
         w.recorded = Status(code), zipped <=> w.accepts /\ size >= MinSize,
         NEW bytes \in Nat, bytes = Body(w.head, size),
         GzipClose(w) \in Chain, GzipClose(w).sent = [status |-> c, gzip |-> zipped, body |-> bytes]
  PROVE  Whole(w, code, size)
<1>1. Status(code) \in Nat \ {0} /\ c \in Nat /\ (IF c = 0 THEN 200 ELSE c) = Status(code)
  BY DEF Status
<1>2. Sent(w) = [status |-> IF c = 0 THEN 200 ELSE c, gzip |-> zipped, body |-> bytes]
  BY <1>1, NetHeaderSends DEF Sent
<1>3. zipped = (w.accepts /\ size >= MinSize)
  OBVIOUS
<1>4. Sent(w) = [status |-> Status(code), gzip |-> zipped, body |-> bytes]
  BY <1>1, <1>2
<1>5. w.recorded = Sent(w).status
  BY <1>4
<1> QED
  BY <1>3, <1>4, <1>5, Zenon DEF Whole

\* However far a body has come, what Close makes of it is whole: as it is, out of the
\* buffer, or out of the compressor.
LEMMA HoldsWhole ==
  ASSUME NEW head \in BOOLEAN, NEW accepts \in BOOLEAN, NEW code \in Nat, NEW n \in Nat, NEW w,
         Holds(w, head, accepts, code, n)
  PROVE  Whole(w, code, n)
<1> DEFINE c == Status(code)
           bytes == Body(head, n)
<1>0. /\ w \in Chain /\ w.head = head /\ w.accepts = accepts /\ w.recorded = c
      /\ MinSize \in Nat \ {0} /\ c \in Nat \ {0} /\ bytes \in Nat /\ bytes = Body(w.head, n)
  BY SizeAssumption DEF Holds, Status, Body
<1>1. CASE ~accepts
  <2>1. GzipClose(w) = w BY <1>0, <1>1 DEF GzipClose
  <2>2. w.sent = [status |-> IF n = 0 THEN code ELSE c, gzip |-> FALSE, body |-> bytes]
    BY <1>1 DEF Holds
  <2>3. FALSE <=> w.accepts /\ n >= MinSize BY <1>0, <1>1
  <2>4. (IF n = 0 THEN code ELSE c) \in {code, Status(code)} OBVIOUS
  <2> HIDE DEF c, bytes
  <2> QED BY <1>0, <2>1, <2>2, <2>3, <2>4, WholeFromParts DEF c
<1>2. CASE accepts /\ n < MinSize
  <2> DEFINE h == writeHeaderNow(w)
             u == NetWrite(h, n)
  <2>1. /\ ~w.wroteHeader /\ w.buf = n /\ ~w.gz /\ w.status = code
        /\ w.sent.status = 0 /\ w.sent.gzip = FALSE /\ w.sent.body = 0
    BY <1>2 DEF Holds
  <2>2. /\ h \in Chain /\ h.head = head
        /\ h.sent = [status |-> IF w.status = 0 THEN 200 ELSE w.status, gzip |-> w.sent.gzip, body |-> w.sent.body]
    BY <1>0, <2>1, HeaderNow
  <2>3. h.sent = [status |-> c, gzip |-> FALSE, body |-> 0]
    BY <2>1, <2>2 DEF Status
  <2>4. GzipClose(w) = IF n > 0 THEN [u EXCEPT !.buf = 0] ELSE h
    BY <1>0, <1>2, <2>1 DEF GzipClose
  <2> HIDE DEF h, c
  <2>5. /\ SameWriters(u, h)
        /\ u.sent = [status |-> IF h.sent.status = 0 THEN 200 ELSE h.sent.status,
                     gzip |-> h.sent.gzip, body |-> h.sent.body + Body(h.head, n)]
    BY <2>2, NetWriteSends
  <2> HIDE DEF u
  <2>6. h.sent.status = c /\ h.sent.gzip = FALSE /\ h.sent.body = 0
    BY <2>3
  <2>7. 0 + Body(h.head, n) = bytes
    BY <1>0, <2>2
  <2>8. u \in Chain /\ u.sent = [status |-> c, gzip |-> FALSE, body |-> bytes]
    <3> HIDE DEF bytes
    <3>1. (IF h.sent.status = 0 THEN 200 ELSE h.sent.status) = c
      BY <1>0, <2>6
    <3>2. h.sent.body + Body(h.head, n) = bytes
      BY <2>6, <2>7
    <3> QED
      BY <2>5, <2>6, <3>1, <3>2 DEF SameWriters
  <2>9. GzipClose(w) \in Chain /\ GzipClose(w).sent = [status |-> c, gzip |-> FALSE, body |-> bytes]
    <3>1. CASE n > 0 BY <2>4, <2>8, <3>1 DEF Chain
    <3>2. CASE n = 0
      <4>1. bytes = 0 BY <3>2 DEF Body
      <4>2. GzipClose(w) = h BY <2>4, <3>2
      <4> HIDE DEF bytes
      <4> QED BY <2>2, <2>3, <4>1, <4>2
    <3> QED BY <3>1, <3>2
  <2>10. FALSE <=> w.accepts /\ n >= MinSize BY <1>0, <1>2
  <2> HIDE DEF bytes
  <2> QED BY <1>0, <2>9, <2>10, WholeFromParts DEF c
<1>3. CASE accepts /\ ~(n < MinSize)
  <2> DEFINE u == NetWrite(w, n)
  <2>1. w.gz /\ w.held = n /\ w.sent.status = c /\ w.sent.gzip = TRUE /\ w.sent.body = 0
    BY <1>3 DEF Holds
  <2>2. GzipClose(w) = [u EXCEPT !.held = 0, !.gz = FALSE]
    BY <1>0, <1>3, <2>1 DEF GzipClose
  <2> HIDE DEF c
  <2>3. /\ SameWriters(u, w)
        /\ u.sent = [status |-> IF w.sent.status = 0 THEN 200 ELSE w.sent.status,
                     gzip |-> w.sent.gzip, body |-> w.sent.body + Body(w.head, n)]
    BY <1>0, NetWriteSends
  <2> HIDE DEF u
  <2>4. u \in Chain /\ u.sent = [status |-> c, gzip |-> TRUE, body |-> bytes]
    <3>1. (IF w.sent.status = 0 THEN 200 ELSE w.sent.status) = c
      BY <1>0, <2>1
    <3>2. w.sent.body + Body(w.head, n) = bytes
      BY <1>0, <2>1
    <3> HIDE DEF bytes
    <3> QED
      BY <2>1, <2>3, <3>1, <3>2 DEF SameWriters
  <2>5. GzipClose(w) \in Chain /\ GzipClose(w).sent = [status |-> c, gzip |-> TRUE, body |-> bytes]
    <3> DEFINE y == [u EXCEPT !.held = 0]
    <3>1. y \in Chain /\ y.sent = u.sent
      BY <2>4 DEF Chain
    <3>2. GzipClose(w) = [y EXCEPT !.gz = FALSE]
      BY <2>2, <2>4 DEF Chain
    <3> HIDE DEF y
    <3> QED
      BY <2>4, <3>1, <3>2 DEF Chain
  <2>6. TRUE <=> w.accepts /\ n >= MinSize BY <1>0, <1>3
  <2> HIDE DEF bytes
  <2> QED BY <1>0, <2>5, <2>6, WholeFromParts DEF c
<1> QED
  BY <1>1, <1>2, <1>3

\* More of a body passes as it is, waits in the buffer, or goes through the compressor,
\* which starts once there is enough of it.
LEMMA WriteHolds ==
  ASSUME NEW head \in BOOLEAN, NEW accepts \in BOOLEAN, NEW code \in Nat, NEW n \in Nat, NEW w,
         Holds(w, head, accepts, code, n), NEW k \in Nat \ {0}
  PROVE  /\ Holds(GzipWrite(w, k), head, accepts, code, n + k)
         /\ GzipWrite(w, k).headerWritten = w.headerWritten
<1> DEFINE v == GzipWrite(w, k)
           c == Status(code)
<1>0. /\ w \in Chain /\ w.head = head /\ w.accepts = accepts /\ w.recorded = c
      /\ MinSize \in Nat \ {0} /\ c \in Nat \ {0} /\ (IF code = 0 THEN 200 ELSE code) = c
      /\ n + k # 0 /\ n + k \in Nat
  BY SizeAssumption DEF Holds, Status
<1>1. CASE ~accepts
  <2>1. /\ v = NetWrite(w, k)
        /\ ~w.wroteHeader /\ w.buf = 0 /\ ~w.gz /\ w.held = 0 /\ w.status = 0
        /\ w.sent.status = (IF n = 0 THEN code ELSE c) /\ w.sent.gzip = FALSE /\ w.sent.body = Body(head, n)
    BY <1>0, <1>1 DEF GzipWrite, Holds
  <2> HIDE DEF c
  <2>2. /\ SameWriters(v, w)
        /\ v.sent = [status |-> IF w.sent.status = 0 THEN 200 ELSE w.sent.status,
                     gzip |-> w.sent.gzip, body |-> w.sent.body + Body(w.head, k)]
    BY <1>0, <2>1, NetWriteSends
  <2> HIDE DEF v
  <2>3. Body(head, n) + Body(w.head, k) = Body(head, n + k)
    BY <1>0 DEF Body
  <2>4. v.sent = [status |-> c, gzip |-> FALSE, body |-> Body(head, n + k)]
    BY <1>0, <2>1, <2>2, <2>3
  <2>5. Holds(v, head, accepts, code, n + k)
    BY <1>0, <1>1, <2>1, <2>2, <2>4 DEF Holds, SameWriters, c
  <2> QED
    BY <2>2, <2>5 DEF SameWriters, v
<1>2. CASE accepts /\ n + k < MinSize
  <2>1. ~w.wroteHeader /\ w.buf = n /\ ~w.gz /\ w.held = 0 /\ w.status = code
        /\ w.sent = [status |-> 0, gzip |-> FALSE, body |-> 0]
    BY <1>0, <1>2 DEF Holds
  <2>2. v = [w EXCEPT !.buf = n + k]
    BY <1>0, <1>2, <2>1 DEF GzipWrite
  <2> HIDE DEF v, c
  <2>3. /\ v \in Chain /\ v.head = head /\ v.accepts = accepts /\ v.recorded = c /\ v.headerWritten = w.headerWritten
        /\ ~v.wroteHeader /\ v.buf = n + k /\ ~v.gz /\ v.held = 0 /\ v.status = code /\ v.sent = w.sent
    BY <1>0, <2>1, <2>2 DEF Chain
  <2> QED
    BY <1>2, <2>1, <2>3 DEF Holds, v, c
<1>3. CASE accepts /\ n < MinSize /\ ~(n + k < MinSize)
  <2> DEFINE x == [w EXCEPT !.sent = [w.sent EXCEPT !.gzip = TRUE]]
             h == writeHeaderNow(x)
             g == [h EXCEPT !.gz = TRUE]
  <2>1. ~w.wroteHeader /\ w.buf = n /\ ~w.gz /\ w.held = 0 /\ w.status = code
        /\ w.sent = [status |-> 0, gzip |-> FALSE, body |-> 0]
    BY <1>0, <1>3 DEF Holds
  <2>2. v = [g EXCEPT !.held = n + k, !.buf = 0]
    <3>1. v = [startGzip(w) EXCEPT !.held = w.buf + k, !.buf = 0]
      BY <1>0, <1>3, <2>1 DEF GzipWrite
    <3>2. startGzip(w) = g
      BY DEF startGzip
    <3> QED
      BY <2>1, <3>1, <3>2
  <2>3. [w.sent EXCEPT !.gzip = TRUE] = [status |-> 0, gzip |-> TRUE, body |-> 0]
    <3>1. \A z : [[status |-> 0, gzip |-> FALSE, body |-> 0] EXCEPT !.gzip = z] = [status |-> 0, gzip |-> z, body |-> 0]
      OBVIOUS
    <3> QED
      BY <2>1, <3>1, Zenon
  <2>4. /\ x \in Chain /\ x.head = head /\ x.recorded = w.recorded /\ x.accepts = accepts
        /\ x.headerWritten = w.headerWritten
        /\ ~x.wroteHeader /\ x.status = code /\ x.sent = [status |-> 0, gzip |-> TRUE, body |-> 0]
    BY <1>0, <2>1, <2>3 DEF Chain
  <2> HIDE DEF x, c
  <2>5. /\ h \in Chain /\ h.head = head /\ h.recorded = c /\ h.accepts = accepts /\ h.headerWritten = w.headerWritten
        /\ h.sent = [status |-> c, gzip |-> TRUE, body |-> 0]
    <3>1. x.sent.status = 0 /\ x.sent.gzip = TRUE /\ x.sent.body = 0
      BY <2>4
    <3>2. /\ h \in Chain /\ h.head = x.head /\ h.recorded = x.recorded /\ h.accepts = x.accepts
          /\ h.headerWritten = x.headerWritten
          /\ h.sent = [status |-> IF x.status = 0 THEN 200 ELSE x.status, gzip |-> x.sent.gzip, body |-> x.sent.body]
      BY <2>4, <3>1, HeaderNow
    <3> QED
      BY <1>0, <2>4, <3>1, <3>2
  <2> HIDE DEF h
  <2>6. /\ v \in Chain /\ v.head = head /\ v.recorded = c /\ v.accepts = accepts /\ v.headerWritten = w.headerWritten
        /\ v.buf = 0 /\ v.gz /\ v.held = n + k /\ v.sent = [status |-> c, gzip |-> TRUE, body |-> 0]
    <3>1. /\ g \in Chain /\ g.head = head /\ g.recorded = c /\ g.accepts = accepts /\ g.headerWritten = w.headerWritten
          /\ g.gz /\ g.sent = h.sent
      BY <2>5 DEF Chain
    <3> HIDE DEF g
    <3> DEFINE y == [g EXCEPT !.held = n + k]
    <3>2. /\ y \in Chain /\ y.head = head /\ y.recorded = c /\ y.accepts = accepts
          /\ y.headerWritten = w.headerWritten /\ y.gz /\ y.held = n + k /\ y.sent = h.sent
      BY <1>0, <3>1 DEF Chain
    <3>3. v = [y EXCEPT !.buf = 0]
      BY <2>2, <3>1 DEF Chain
    <3> HIDE DEF y, v
    <3> QED
      BY <2>5, <3>2, <3>3 DEF Chain
  <2> HIDE DEF v
  <2> QED
    BY <1>3, <2>6 DEF Holds, v, c
<1>4. CASE accepts /\ ~(n < MinSize)
  <2>1. w.buf = 0 /\ w.gz /\ w.held = n /\ w.sent = [status |-> c, gzip |-> TRUE, body |-> 0]
    BY <1>4 DEF Holds
  <2>2. v = [w EXCEPT !.held = n + k]
    BY <1>0, <1>4, <2>1 DEF GzipWrite
  <2> HIDE DEF v, c
  <2>3. /\ v \in Chain /\ v.head = head /\ v.accepts = accepts /\ v.recorded = c /\ v.headerWritten = w.headerWritten
        /\ v.buf = 0 /\ v.gz /\ v.held = n + k /\ v.sent = w.sent
    BY <1>0, <2>1, <2>2 DEF Chain
  <2>4. ~(n + k < MinSize) BY <1>0, <1>4
  <2> QED
    BY <1>4, <2>1, <2>3, <2>4 DEF Holds, v, c
<1>5. (accepts /\ n + k < MinSize) \/ (accepts /\ n < MinSize /\ ~(n + k < MinSize)) \/ (accepts /\ ~(n < MinSize)) \/ ~accepts
  OBVIOUS
<1> QED
  BY <1>1, <1>2, <1>3, <1>4, <1>5

\* A handler's WriteHeader, if it calls it, and the tracker's view of it.
LEMMA HeadedHolds ==
  ASSUME NEW head \in BOOLEAN, NEW accepts \in BOOLEAN, NEW code \in Nat
  PROVE  /\ Holds(Headed(NewChain(head, accepts), code), head, accepts, code, 0)
         /\ Headed(NewChain(head, accepts), code).headerWritten <=> code # 0
<1> DEFINE n == NewChain(head, accepts)
           t == [n EXCEPT !.headerWritten = TRUE]
<1>1. Holds(n, head, accepts, 0, 0) /\ ~n.headerWritten
  BY NewHolds
<1> HIDE DEF n
<1>2. Holds(t, head, accepts, 0, 0) /\ t.headerWritten = TRUE
  BY <1>1, TrackedHolds
<1>3. Headed(n, code) = IF code = 0 THEN n ELSE StatusWriteHeader(t, code)
  BY DEF Headed, TrackerWriteHeader
<1> HIDE DEF t
<1>4. CASE code = 0
  BY <1>1, <1>3, <1>4 DEF n
<1>5. CASE code # 0
  BY <1>2, <1>3, <1>5, HeaderHolds DEF n
<1> QED
  BY <1>4, <1>5

\* A Write of the handler, seen by the tracker.
LEMMA TrackedWriteHolds ==
  ASSUME NEW head \in BOOLEAN, NEW accepts \in BOOLEAN, NEW code \in Nat, NEW n \in Nat, NEW w,
         Holds(w, head, accepts, code, n), NEW k \in Nat \ {0}
  PROVE  Holds(TrackerWrite(w, k), head, accepts, code, n + k) /\ TrackerWrite(w, k).headerWritten
<1> DEFINE t == [w EXCEPT !.headerWritten = TRUE]
<1>1. Holds(t, head, accepts, code, n) /\ t.headerWritten = TRUE
  BY TrackedHolds
<1>2. TrackerWrite(w, k) = GzipWrite(t, k)
  BY DEF TrackerWrite
<1> HIDE DEF t
<1> QED
  BY <1>1, <1>2, WriteHolds

\* The error of recoverMiddleware is whole, when nothing was written before it.
LEMMA RecoveredWhole ==
  ASSUME NEW head \in BOOLEAN, NEW accepts \in BOOLEAN, NEW w, Holds(w, head, accepts, 0, 0), ~w.headerWritten
  PROVE  Whole(Recovered(w), 500, ErrorSize)
<1> DEFINE h == StatusWriteHeader(w, 500)
<1>1. Holds(h, head, accepts, 500, 0)
  BY HeaderHolds
<1>2. Recovered(w) = GzipWrite(h, ErrorSize)
  BY DEF Recovered
<1> HIDE DEF h
<1>3. Holds(GzipWrite(h, ErrorSize), head, accepts, 500, 0 + ErrorSize) /\ 0 + ErrorSize = ErrorSize /\ ErrorSize \in Nat
  BY <1>1, SizeAssumption, WriteHolds
<1> QED
  BY <1>2, <1>3, HoldsWhole

\* A request that has no reply yet has an untouched chain; one whose reply is on its way
\* has in it what was written, and the tracker knows whether that is anything; what is
\* sent is whole, or as much of it as there was.
Unanswered == {"none", "handler", "query"}
OnItsWay(w, a) ==
  /\ a \in Reply
  /\ \E head, accepts \in BOOLEAN : Holds(w, head, accepts, a.code, a.written)
  /\ w.headerWritten <=> ~(a.code = 0 /\ a.written = 0)
Sound(step, a, w) ==
  /\ step \in Unanswered => \E head, accepts \in BOOLEAN : w = NewChain(head, accepts)
  /\ step = "writing" => OnItsWay(w, a)
  /\ step = "sent" => Whole(w, a.code, a.size)
  /\ step = "truncated" => Whole(w, a.code, a.written)
ResponseOf(q) == Sound(qpc[q], reply[q], chain[q])

ResponseInv ==
  /\ DOMAIN qpc = Requests /\ DOMAIN reply = Requests /\ DOMAIN chain = Requests
  /\ route \in [Requests -> Routes]
  /\ \A q \in Requests : ResponseOf(q)

LEMMA InitResponse == Init => ResponseInv
BY DEF Init, ResponseInv, ResponseOf, Sound, Unanswered

\* One request's response moves and the others' stay.
LEMMA OneMoves ==
  ASSUME ResponseInv, NEW q \in Requests, UNCHANGED route,
         DOMAIN qpc' = Requests, DOMAIN reply' = Requests, DOMAIN chain' = Requests,
         \A p \in Requests : p # q => qpc'[p] = qpc[p] /\ reply'[p] = reply[p] /\ chain'[p] = chain[p],
         Sound(qpc'[q], reply'[q], chain'[q])
  PROVE  ResponseInv'
<1>1. ASSUME NEW p \in Requests PROVE ResponseOf(p)'
  BY <1>1 DEF ResponseInv, ResponseOf
<1> QED
  BY <1>1 DEF ResponseInv

\* Steps of other parts leave responses alone, or end their requests.
LEMMA OthersKeepResponses ==
  ASSUME ResponseInv, DOMAIN qpc' = Requests, DOMAIN reply' = Requests, DOMAIN chain' = Requests, UNCHANGED route,
         \A q \in Requests :
           \/ qpc'[q] \notin Unanswered \cup {"writing", "sent", "truncated"}
           \/ qpc'[q] = qpc[q] /\ reply'[q] = reply[q] /\ chain'[q] = chain[q]
  PROVE  ResponseInv'
<1>1. ASSUME NEW q \in Requests PROVE ResponseOf(q)'
  BY <1>1 DEF ResponseInv, ResponseOf, Sound
<1> QED
  BY <1>1 DEF ResponseInv

\* A handler that begins one of its replies.
LEMMA RespondKeeps ==
  ASSUME ResponseInv, NEW q \in Requests, Step(q, "handler", "writing") \/ Step(q, "query", "writing"),
         Respond(q, Answers(route[q]) \cup Refusals(route[q])), UNCHANGED route
  PROVE  ResponseInv'
<1>1. /\ DOMAIN qpc = Requests /\ DOMAIN reply = Requests /\ DOMAIN chain = Requests
      /\ qpc[q] \in Unanswered /\ qpc' = [qpc EXCEPT ![q] = "writing"]
  BY DEF ResponseInv, Step, Unanswered
<1>2. PICK head \in BOOLEAN, accepts \in BOOLEAN : chain[q] = NewChain(head, accepts)
  BY <1>1 DEF ResponseInv, ResponseOf, Sound
<1>3. PICK a \in Answers(route[q]) \cup Refusals(route[q]) :
        /\ reply' = [reply EXCEPT ![q] = a]
        /\ chain' = [chain EXCEPT ![q] = Headed(@, a.code)]
  BY DEF Respond
<1>4. a \in Reply /\ a.code \in Nat /\ a.written = 0
  BY SizeAssumption DEF Answers, Refusals, Replies, Reply
<1>5. reply'[q] = a /\ chain'[q] = Headed(NewChain(head, accepts), a.code) /\ qpc'[q] = "writing"
  BY <1>1, <1>2, <1>3
<1>6. OnItsWay(chain'[q], reply'[q])
  BY <1>4, <1>5, HeadedHolds DEF OnItsWay
<1> QED
  BY <1>1, <1>3, <1>5, <1>6, OneMoves DEF Sound, Unanswered

\* More of the body.
LEMMA WriteKeeps ==
  ASSUME ResponseInv, NEW q \in Requests, NEW n \in 1 .. reply[q].size, Write(q, n)
  PROVE  ResponseInv'
<1>1. /\ DOMAIN qpc = Requests /\ DOMAIN reply = Requests /\ DOMAIN chain = Requests
      /\ qpc[q] = "writing" /\ UNCHANGED <<qpc, route>>
      /\ reply' = [reply EXCEPT ![q] = [reply[q] EXCEPT !.written = reply[q].written + n]]
      /\ chain' = [chain EXCEPT ![q] = TrackerWrite(@, n)]
  BY DEF ResponseInv, Write
<1> DEFINE a == reply[q]
           b == [a EXCEPT !.written = a.written + n]
<1>2. OnItsWay(chain[q], a)
  BY <1>1 DEF ResponseInv, ResponseOf, Sound
<1>3. a \in Reply /\ a.code \in Nat /\ a.size \in Nat /\ a.written \in Nat
  BY <1>2 DEF OnItsWay, Reply
<1>4. n \in Nat \ {0} BY <1>3
<1>5. reply'[q] = b /\ chain'[q] = TrackerWrite(chain[q], n)
  BY <1>1
<1> HIDE DEF a
<1>6. b \in Reply /\ b.code = a.code /\ b.written = a.written + n /\ b.written # 0
  BY <1>3, <1>4 DEF Reply
<1> HIDE DEF b
<1>7. PICK head \in BOOLEAN, accepts \in BOOLEAN : Holds(chain[q], head, accepts, a.code, a.written)
  BY <1>2 DEF OnItsWay
<1>8. /\ Holds(TrackerWrite(chain[q], n), head, accepts, a.code, a.written + n)
      /\ TrackerWrite(chain[q], n).headerWritten
  BY <1>3, <1>4, <1>7, TrackedWriteHolds
<1>9. OnItsWay(chain'[q], reply'[q])
  BY <1>5, <1>6, <1>8 DEF OnItsWay
<1> QED
  BY <1>1, <1>9, OneMoves DEF Sound, Unanswered

\* A step that leaves chain and reply and moves one request.
LEMMA MoveKeeps ==
  ASSUME ResponseInv, NEW q \in Requests, UNCHANGED <<route, reply, chain>>,
         Step(q, "none", "handler") \/ Step(q, "handler", "query")
  PROVE  ResponseInv'
<1>1. /\ DOMAIN qpc = Requests /\ qpc[q] \in Unanswered
      /\ DOMAIN qpc' = Requests /\ \A p \in Requests : p # q => qpc'[p] = qpc[p]
      /\ qpc'[q] \in {"handler", "query"}
  BY DEF ResponseInv, Step, Unanswered
<1>2. Sound(qpc'[q], reply[q], chain[q])
  BY <1>1 DEF ResponseInv, ResponseOf, Sound, Unanswered
<1> QED
  BY <1>1, <1>2, OneMoves DEF ResponseInv

\* A reply that is written is whole when it is sent.
LEMMA ReturnKeeps ==
  ASSUME ResponseInv, NEW q \in Requests, Return(q)
  PROVE  ResponseInv'
<1>1. /\ DOMAIN qpc = Requests /\ qpc[q] = "writing" /\ UNCHANGED <<route, reply, chain>>
      /\ DOMAIN qpc' = Requests /\ \A p \in Requests : p # q => qpc'[p] = qpc[p]
      /\ qpc'[q] = "sent" /\ reply[q].written = reply[q].size
  BY DEF ResponseInv, Return, Step
<1>2. OnItsWay(chain[q], reply[q])
  BY <1>1 DEF ResponseInv, ResponseOf, Sound
<1>3. reply[q].code \in Nat /\ reply[q].written \in Nat
  BY <1>2 DEF OnItsWay, Reply
<1>4. Whole(chain[q], reply[q].code, reply[q].written)
  BY <1>2, <1>3, HoldsWhole DEF OnItsWay
<1>5. Sound(qpc'[q], reply[q], chain[q])
  BY <1>1, <1>4 DEF Sound, Unanswered
<1> QED
  BY <1>1, <1>5, OneMoves DEF ResponseInv

\* A panic: the 500, or the end of what was begun.
LEMMA PanicKeeps ==
  ASSUME ResponseInv, NEW q \in Requests, Panic(q)
  PROVE  ResponseInv'
<1>0. /\ DOMAIN qpc = Requests /\ DOMAIN reply = Requests /\ DOMAIN chain = Requests
      /\ qpc[q] \in {"handler", "writing"} /\ UNCHANGED route
  BY DEF ResponseInv, Panic
<1>1. CASE route[q] # "graphql"
  <2>1. /\ Step(q, qpc[q], "reset") /\ reply' = [reply EXCEPT ![q] = NoReply] /\ chain' = [chain EXCEPT ![q] = Anew(q)]
    BY <1>1 DEF Panic
  <2> QED
    BY <1>0, <2>1, OthersKeepResponses DEF Step, Unanswered
<1>2. CASE route[q] = "graphql"
  <2>1. /\ chain' = [chain EXCEPT ![q] = Recovered(@)]
        /\ \/ /\ Untouched(q) /\ Step(q, qpc[q], "sent")
              /\ reply' = [reply EXCEPT ![q] = [code |-> 500, size |-> ErrorSize, written |-> ErrorSize]]
           \/ ~Untouched(q) /\ Step(q, qpc[q], "truncated") /\ UNCHANGED reply
    BY <1>2 DEF Panic
  <2>2. \A p \in Requests : p # q => qpc'[p] = qpc[p] /\ reply'[p] = reply[p] /\ chain'[p] = chain[p]
    BY <1>0, <2>1 DEF Step
  <2>3. DOMAIN qpc' = Requests /\ DOMAIN reply' = Requests /\ DOMAIN chain' = Requests /\ chain'[q] = Recovered(chain[q])
    BY <1>0, <2>1 DEF Step
  <2>4. PICK head \in BOOLEAN, accepts \in BOOLEAN :
          IF qpc[q] = "handler" THEN chain[q] = NewChain(head, accepts)
          ELSE Holds(chain[q], head, accepts, reply[q].code, reply[q].written)
    BY <1>0 DEF ResponseInv, ResponseOf, Sound, OnItsWay, Unanswered
  <2>5. qpc[q] = "writing" => OnItsWay(chain[q], reply[q])
    BY DEF ResponseInv, ResponseOf, Sound
  <2>6. CASE Untouched(q)
    <3>1. Holds(chain[q], head, accepts, 0, 0) /\ ~chain[q].headerWritten
      <4>1. CASE qpc[q] = "handler"
        BY <2>4, <4>1, NewHolds
      <4>2. CASE qpc[q] = "writing"
        <5>1. reply[q].code = 0 /\ reply[q].written = 0
          BY <2>6, <4>2 DEF Untouched
        <5> QED
          BY <2>4, <2>5, <4>2, <5>1 DEF OnItsWay
      <4> QED
        BY <1>0, <4>1, <4>2
    <3>2. Whole(Recovered(chain[q]), 500, ErrorSize)
      BY <3>1, RecoveredWhole
    <3>3. qpc'[q] = "sent" /\ reply'[q].code = 500 /\ reply'[q].size = ErrorSize
      BY <1>0, <2>1, <2>6 DEF Step
    <3>4. Sound(qpc'[q], reply'[q], chain'[q])
      BY <2>3, <3>2, <3>3 DEF Sound, Unanswered
    <3> QED
      BY <1>0, <2>2, <2>3, <3>4, OneMoves
  <2>7. CASE ~Untouched(q)
    <3>1. qpc[q] = "writing" /\ qpc'[q] = "truncated" /\ reply' = reply
      BY <1>0, <2>1, <2>7 DEF Step, Untouched
    <3>2. chain[q].headerWritten
      BY <2>5, <2>7, <3>1 DEF OnItsWay, Untouched
    <3>3. Recovered(chain[q]) = chain[q]
      BY <3>2 DEF Recovered
    <3>4. reply[q].code \in Nat /\ reply[q].written \in Nat
      BY <2>5, <3>1 DEF OnItsWay, Reply
    <3>5. Whole(chain[q], reply[q].code, reply[q].written)
      BY <2>4, <3>1, <3>4, HoldsWhole
    <3>6. Sound(qpc'[q], reply'[q], chain'[q])
      BY <2>3, <3>1, <3>3, <3>5 DEF Sound, Unanswered
    <3> QED
      BY <1>0, <2>2, <2>3, <3>6, OneMoves
  <2> QED
    BY <2>6, <2>7
<1> QED
  BY <1>1, <1>2

LEMMA StepResponse == ResponseInv /\ [Next]_vars => ResponseInv'
<1> SUFFICES ASSUME ResponseInv, [Next]_vars PROVE ResponseInv'
  OBVIOUS
<1>0. DOMAIN qpc = Requests /\ DOMAIN reply = Requests /\ DOMAIN chain = Requests /\ route \in [Requests -> Routes]
  BY DEF ResponseInv
<1>1. CASE UNCHANGED requestVars
  BY <1>0, <1>1, OthersKeepResponses DEF requestVars
<1>2. ASSUME NEW r \in Replicas, NEW how \in {"aborted", "killed"}, EndRequests(r, how), UNCHANGED route PROVE ResponseInv'
  BY <1>0, <1>2, OthersKeepResponses DEF EndRequests, Unanswered
<1>3. ASSUME NEW r \in Replicas, Boot(r) \/ PoolStep(r) \/ Signal(r) PROVE UNCHANGED requestVars
  BY <1>3 DEF Boot, PoolStep, Expire, Reap, Signal
<1>4. ASSUME NEW r \in Replicas, MainStep(r) PROVE UNCHANGED requestVars \/ (EndRequests(r, "aborted") /\ UNCHANGED route)
  BY <1>4 DEF MainStep, TakeLock, LockGranted, LockTimesOut, BeginSchema, EndSchema, Unlock,
              Listen, CloseListener, BeginClose, PoolClosed, Exit
<1>5. ASSUME NEW r \in Replicas, Kill(r) PROVE EndRequests(r, "killed") /\ UNCHANGED route
  BY <1>5 DEF Kill
<1>6. ASSUME NEW s \in Sessions, StatementEnds(s) PROVE ResponseInv'
  <2>1. CASE ReapEnds(s) \/ LostEnds(s)
    BY <1>1, <2>1 DEF ReapEnds, LostEnds
  <2>2. ASSUME NEW q \in Requests, QueryEnds(q, s) PROVE ResponseInv'
    BY <2>2, RespondKeeps DEF QueryEnds
  <2> QED
    BY <1>6, <2>1, <2>2 DEF StatementEnds
<1>7. ASSUME NEW q \in Requests, RequestStep(q) \/ \E r \in Replicas : Arrive(q, r) PROVE ResponseInv'
  <2>1. CASE NoQuery(q)
    BY <2>1, RespondKeeps DEF NoQuery
  <2>2. ASSUME NEW s \in Sessions, Query(q, s) PROVE ResponseInv'
    BY <2>2, MoveKeeps DEF Query
  <2>3. CASE Return(q)
    BY <2>3, ReturnKeeps
  <2>4. ASSUME NEW r \in Replicas, Arrive(q, r) PROVE ResponseInv'
    BY <2>4, MoveKeeps DEF Arrive
  <2>5. ASSUME NEW n \in 1 .. reply[q].size, Write(q, n) PROVE ResponseInv'
    BY <2>5, WriteKeeps
  <2> QED
    BY <1>7, <2>1, <2>2, <2>3, <2>4, <2>5 DEF RequestStep
<1>8. CASE UNCHANGED vars
  BY <1>1, <1>8 DEF vars
<1> QED
  BY <1>1, <1>2, PanicKeeps, <1>3, <1>4, <1>5, <1>6, <1>7, <1>8 DEF Next

-----------------------------------------------------------------------------
(* Theorems *)

\* RunMigrations applies the schema under lock 42 however many replicas start, are
\* killed and start again, although it locks, migrates and unlocks through a pool.
THEOREM SchemaExclusive == Spec => []MigrationsExclude
<1>1. Inv => MigrationsExclude
  <2> SUFFICES ASSUME Inv PROVE Cardinality(migrating) <= 1
    BY DEF MigrationsExclude
  <2>1. CASE migrating = {}
    BY <2>1, FS_EmptySet
  <2>2. CASE migrating # {}
    <3>1. migrating = {lock42}
      BY <2>2 DEF Inv, StartTypes, SessionInv
    <3> QED BY <3>1, FS_Singleton
  <2> QED BY <2>1, <2>2
<1> QED BY <1>1, Invariant, PTL

\* The deferred unlock of RunMigrations finds the session that holds the lock: no
\* replica that listens, stops or is down keeps the next one from starting.
THEOREM LockLeft == Spec => []LockReturned
<1>1. Inv => LockReturned
  BY DEF Inv, StartTypes, SessionInv, LockReturned, UnderLock
<1> QED BY <1>1, Invariant, PTL

\* Through responseTracker, statusWriter, gzipResponseWriter and net/http every answer
\* goes out once, with the status the metrics record, whatever the handler writes, in how
\* many pieces, and wherever it panics: whole, or, after a panic of /graphql that came
\* behind the header, as far as it was written.
THEOREM AnswersWhole == Spec => []AnswerIsWhole
<1>1. ResponseInv => AnswerIsWhole
  BY DEF ResponseInv, ResponseOf, Sound, Whole, Status, Body, AnswerIsWhole
<1> QED
  BY <1>1, InitResponse, StepResponse, PTL DEF Spec
=============================================================================
