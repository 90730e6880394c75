---------------------------- MODULE RateLimiter ----------------------------
(***************************************************************************)
(* The per-client rate limit of internal/server: getLimiter's bounded LRU  *)
(* of token buckets under rateMu, the idle sweep, and Allow on a bucket    *)
(* that may have left the LRU since it was handed out.  Time advances in   *)
(* steps of one second.                                                    *)
(***************************************************************************)
EXTENDS Integers, Sequences, FiniteSets, SequencesExt

CONSTANTS
  IPs, Procs,
  RateLimitPerSec,
  MaxRateLimiters,  \* entries of the LRU (10000 in the code)
  MaxAge,           \* idle seconds before a sweep drops an entry (600)
  MaxBuckets,       \* bound: buckets ever created
  MaxTime,          \* bound: seconds
  NoIP

ASSUME LimiterAssumption ==
  /\ RateLimitPerSec \in Nat \ {0} /\ MaxRateLimiters \in Nat \ {0}
  /\ MaxAge \in Nat /\ MaxBuckets \in Nat /\ MaxTime \in Nat
  /\ NoIP \notin IPs
  /\ IsFiniteSet(Procs)

\* Ten idle minutes refill a bucket, with room for the requests that have it in
\* hand and have not yet taken their token.
ASSUME IdleAssumption == RateLimitPerSec * MaxAge >= RateLimitPerSec * 2 + Cardinality(Procs)

VARIABLES
  rateLRU,       \* front first: the client, its bucket, its last use
  rateLimiters,  \* client -> bucket of its list element, 0 for no entry
  tokens,        \* what is in each bucket
  created,       \* buckets created so far
  now,
  pc, holds,     \* each request's client and the bucket it got
  allowed,       \* history: requests let through, per client
  late,          \* history: those of them on a bucket no longer in the LRU
  evicted        \* history: entries lost to the cap, per client

lru == <<rateLRU, rateLimiters>>
request == <<pc, holds>>
counts == <<allowed, late, evicted>>
vars == <<lru, tokens, created, now, request, counts>>

Burst == RateLimitPerSec * 2

Buckets == 1 .. MaxBuckets

Init ==
  /\ rateLRU = << >>
  /\ rateLimiters = [ip \in IPs |-> 0]
  /\ tokens = [b \in Buckets |-> 0]
  /\ created = 0
  /\ now = 0
  /\ pc = [p \in Procs |-> NoIP]
  /\ holds = [p \in Procs |-> 0]
  /\ allowed = [ip \in IPs |-> 0]
  /\ late = [ip \in IPs |-> 0]
  /\ evicted = [ip \in IPs |-> 0]

-----------------------------------------------------------------------------

Entry(ip, b) == [ip |-> ip, bucket |-> b, lastUse |-> now]

\* Mutant: the element stays where it is in the list.
MutantPromoted(ip) ==
  [i \in 1 .. Len(rateLRU) |->
     IF rateLRU[i].bucket = rateLimiters[ip] THEN Entry(ip, rateLimiters[ip]) ELSE rateLRU[i]]

\* Where the list element stands that the map has for ip.
Position(ip) == CHOOSE i \in 1 .. Len(rateLRU) : rateLRU[i].bucket = rateLimiters[ip]

\* MoveToFront, with its last use.
Promoted(ip) == <<Entry(ip, rateLimiters[ip])>> \o RemoveAt(rateLRU, Position(ip))

GetExisting(p, ip) ==
  /\ pc[p] = NoIP /\ rateLimiters[ip] # 0
  /\ rateLRU' = Promoted(ip)
  /\ pc' = [pc EXCEPT ![p] = ip]
  /\ holds' = [holds EXCEPT ![p] = rateLimiters[ip]]
  /\ UNCHANGED <<rateLimiters, tokens, created, now, counts>>

Full == Len(rateLRU) >= MaxRateLimiters

\* Mutant: the map keeps the evicted element.
MutantWithout(ip) == rateLimiters

Without(ip) == [rateLimiters EXCEPT ![ip] = 0]

\* A new bucket is full; at the cap the entry at the back makes room.
GetNew(p, ip) ==
  LET back == Last(rateLRU)
  IN /\ pc[p] = NoIP /\ rateLimiters[ip] = 0
     /\ created < MaxBuckets
     /\ created' = created + 1
     /\ tokens' = [tokens EXCEPT ![created + 1] = Burst]
     /\ \/ /\ Full
           /\ rateLRU' = <<Entry(ip, created + 1)>> \o Front(rateLRU)
           /\ rateLimiters' = [Without(back.ip) EXCEPT ![ip] = created + 1]
           /\ evicted' = [evicted EXCEPT ![back.ip] = @ + 1]
        \/ /\ ~Full
           /\ rateLRU' = <<Entry(ip, created + 1)>> \o rateLRU
           /\ rateLimiters' = [rateLimiters EXCEPT ![ip] = created + 1]
           /\ UNCHANGED evicted
     /\ pc' = [pc EXCEPT ![p] = ip]
     /\ holds' = [holds EXCEPT ![p] = created + 1]
     /\ UNCHANGED <<now, allowed, late>>

\* limiter.Allow(), outside rateMu: a token, or 429.
Allow(p) ==
  /\ pc[p] # NoIP
  /\ IF tokens[holds[p]] > 0
       THEN /\ tokens' = [tokens EXCEPT ![holds[p]] = @ - 1]
            /\ allowed' = [allowed EXCEPT ![pc[p]] = @ + 1]
            /\ late' = IF rateLimiters[pc[p]] = holds[p] THEN late ELSE [late EXCEPT ![pc[p]] = @ + 1]
       ELSE UNCHANGED <<tokens, allowed, late>>
  /\ pc' = [pc EXCEPT ![p] = NoIP]
  /\ holds' = [holds EXCEPT ![p] = 0]
  /\ UNCHANGED <<lru, created, now, evicted>>

\* Mutant: every sweep takes everything.
MutantCutoff == now

Cutoff == now - MaxAge

\* evictIdleLimiters: from the back, until an entry used after the cutoff.
evictIdleLimiters ==
  LET recent == {i \in 1 .. Len(rateLRU) : rateLRU[i].lastUse > Cutoff}
      kept == CHOOSE k \in recent \cup {0} : \A i \in recent : i <= k
      gone == {rateLRU[i].ip : i \in kept + 1 .. Len(rateLRU)}
  IN /\ kept < Len(rateLRU)
     /\ rateLRU' = SubSeq(rateLRU, 1, kept)
     /\ rateLimiters' = [ip \in IPs |-> IF ip \in gone THEN 0 ELSE rateLimiters[ip]]
     /\ UNCHANGED <<tokens, created, now, request, counts>>

\* A second passes: every bucket created refills up to the burst.
Tick ==
  /\ now < MaxTime
  /\ now' = now + 1
  /\ tokens' = [b \in Buckets |->
       IF b > created THEN 0
       ELSE IF tokens[b] + RateLimitPerSec > Burst THEN Burst ELSE tokens[b] + RateLimitPerSec]
  /\ UNCHANGED <<lru, created, request, counts>>

Next ==
  \/ \E p \in Procs, ip \in IPs : GetExisting(p, ip) \/ GetNew(p, ip)
  \/ \E p \in Procs : Allow(p)
  \/ evictIdleLimiters \/ Tick

Spec == Init /\ [][Next]_vars

-----------------------------------------------------------------------------

\* The map and the list agree: every client in the map has exactly the list
\* element the map names, nobody else is in the list, and the cap holds.
MapMatchesList ==
  /\ Len(rateLRU) <= MaxRateLimiters
  /\ \A i, j \in 1 .. Len(rateLRU) : i # j => rateLRU[i].ip # rateLRU[j].ip
  /\ \A i \in 1 .. Len(rateLRU) : rateLimiters[rateLRU[i].ip] = rateLRU[i].bucket
  /\ Cardinality({ip \in IPs : rateLimiters[ip] # 0}) = Len(rateLRU)

\* The sweep may stop at the first recent entry it meets from the back: no
\* entry that is idle at any cutoff stands in front of one that is not.
IdleAtTheBack ==
  \A i, j \in 1 .. Len(rateLRU) : i < j => rateLRU[i].lastUse >= rateLRU[j].lastUse

\* No client gets more through than one bucket would have let it since the
\* start, but for one burst whenever the cap pushed its entry out and for the
\* requests that had the old bucket in hand then: being swept while idle gains
\* it nothing.
RateKept ==
  \A ip \in IPs :
    allowed[ip] - late[ip] <= Burst * (1 + evicted[ip]) + RateLimitPerSec * now
=============================================================================
