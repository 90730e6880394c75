------------------------ MODULE RateLimiter_proofs ------------------------
(* The LRU of token buckets, for any clients, requests, caps and rates.    *)
EXTENDS RateLimiter, FiniteSetTheorems, SequenceTheorems, TLAPS

Entries == [ip : IPs, bucket : Buckets, lastUse : Nat]

TypeOK ==
  /\ rateLRU \in Seq(Entries)
  /\ rateLimiters \in [IPs -> 0 .. MaxBuckets]
  /\ tokens \in [Buckets -> 0 .. Burst]
  /\ created \in 0 .. MaxBuckets
  /\ now \in Nat
  /\ pc \in [Procs -> IPs \cup {NoIP}]
  /\ holds \in [Procs -> 0 .. MaxBuckets]
  /\ allowed \in [IPs -> Nat] /\ late \in [IPs -> Nat] /\ evicted \in [IPs -> Nat]

\* Each list element is its client's own, with a bucket of its own.
ElementsDistinct ==
  \A i, j \in 1 .. Len(rateLRU) :
    i # j => rateLRU[i].ip # rateLRU[j].ip /\ rateLRU[i].bucket # rateLRU[j].bucket

\* Elements hold buckets already created and were used in the past.
ElementsOfThePast ==
  \A i \in 1 .. Len(rateLRU) : rateLRU[i].bucket <= created /\ rateLRU[i].lastUse <= now

\* The map points at the element of its client, and at nothing that is gone.
MapPointsIntoList ==
  /\ \A i \in 1 .. Len(rateLRU) : rateLimiters[rateLRU[i].ip] = rateLRU[i].bucket
  /\ \A ip \in IPs : rateLimiters[ip] # 0 => \E i \in 1 .. Len(rateLRU) : rateLRU[i].ip = ip

CapKept == Len(rateLRU) <= MaxRateLimiters

\* What one bucket lets through until t, with a burst for every eviction.
Quota(evictions, t) == Burst * (1 + evictions) + RateLimitPerSec * t

Share(ip, t) == Quota(evicted[ip], t)

Taken(ip) == allowed[ip] - late[ip]

\* A request has its client's bucket in hand until it has asked it.
RequestsHold == \A p \in Procs : pc[p] # NoIP => holds[p] # 0

\* A client's requests that have bucket b in hand.
InHand(ip, b) == {p \in Procs : pc[p] = ip /\ holds[p] = b}

\* The tokens left in a client's bucket are part of its share; a client without
\* an entry can be given a full one.
TokensInShare ==
  \A ip \in IPs :
    /\ rateLimiters[ip] # 0 => Taken(ip) + tokens[rateLimiters[ip]] <= Share(ip, now)
    /\ rateLimiters[ip] = 0 => Taken(ip) + Burst <= Share(ip, now)

\* Since an entry's last use only the requests with its bucket in hand can have
\* taken from it.
Quiet(ip, b, use) == Taken(ip) + Cardinality(InHand(ip, b)) <= Share(ip, use) + Cardinality(Procs)

QuietSinceLastUse ==
  \A i \in 1 .. Len(rateLRU) : Quiet(rateLRU[i].ip, rateLRU[i].bucket, rateLRU[i].lastUse)

ListInv == ElementsDistinct /\ ElementsOfThePast /\ IdleAtTheBack

LRUInv == TypeOK /\ ListInv /\ MapPointsIntoList /\ CapKept

Inv == LRUInv /\ RequestsHold /\ TokensInShare /\ QuietSinceLastUse

-----------------------------------------------------------------------------
\* Lists.

\* PushFront on a list.
LEMMA Pushed ==
  ASSUME NEW S, NEW s \in Seq(S), NEW e \in S
  PROVE  /\ <<e>> \o s \in Seq(S)
         /\ Len(<<e>> \o s) = Len(s) + 1
         /\ (<<e>> \o s)[1] = e
         /\ \A i \in 2 .. Len(s) + 1 : (<<e>> \o s)[i] = s[i - 1]
BY ConcatProperties

\* The first n elements of a list.
LEMMA Prefix ==
  ASSUME NEW S, NEW s \in Seq(S), NEW n \in 0 .. Len(s)
  PROVE  /\ SubSeq(s, 1, n) \in Seq(S)
         /\ Len(SubSeq(s, 1, n)) = n
         /\ \A i \in 1 .. n : SubSeq(s, 1, n)[i] = s[i]
<1>1. n \in Int /\ \A i \in 1 .. n : s[i] \in S
  OBVIOUS
<1> QED
  BY <1>1, SubSeqProperties

\* Remove of the element at k.
LEMMA Removed ==
  ASSUME NEW S, NEW s \in Seq(S), NEW k \in 1 .. Len(s)
  PROVE  /\ RemoveAt(s, k) \in Seq(S)
         /\ Len(RemoveAt(s, k)) = Len(s) - 1
         /\ \A i \in 1 .. Len(s) - 1 : RemoveAt(s, k)[i] = IF i < k THEN s[i] ELSE s[i + 1]
<1> DEFINE a == SubSeq(s, 1, k - 1)
           b == SubSeq(s, k + 1, Len(s))
<1>0. Len(s) \in Nat /\ k \in Nat /\ \A i \in 1 .. Len(s) : s[i] \in S
  BY LenProperties
<1>1. k - 1 \in 0 .. Len(s)
  BY <1>0
<1>2. a \in Seq(S) /\ Len(a) = k - 1 /\ \A i \in 1 .. k - 1 : a[i] = s[i]
  BY <1>1, Prefix
<1>3. /\ b \in Seq(S)
      /\ Len(b) = IF k + 1 <= Len(s) THEN Len(s) - (k + 1) + 1 ELSE 0
      /\ \A i \in 1 .. Len(s) - (k + 1) + 1 : b[i] = s[k + 1 + i - 1]
  <2>1. k + 1 \in Int /\ Len(s) \in Int /\ \A i \in k + 1 .. Len(s) : s[i] \in S
    BY <1>0
  <2> QED
    BY <2>1, SubSeqProperties
<1>4. RemoveAt(s, k) = a \o b
  BY DEF RemoveAt
<1> HIDE DEF a, b
<1>5. Len(b) = Len(s) - k /\ \A i \in 1 .. Len(s) - k : b[i] = s[k + i]
  BY <1>0, <1>3
<1>6. /\ a \o b \in Seq(S)
      /\ Len(a \o b) = Len(a) + Len(b)
      /\ \A i \in 1 .. Len(a) + Len(b) : (a \o b)[i] = IF i <= Len(a) THEN a[i] ELSE b[i - Len(a)]
  BY <1>2, <1>3, ConcatProperties
<1>7. Len(a) + Len(b) = Len(s) - 1
  BY <1>0, <1>2, <1>5
<1>8. ASSUME NEW i \in 1 .. Len(s) - 1 PROVE (a \o b)[i] = IF i < k THEN s[i] ELSE s[i + 1]
  <2>1. CASE i < k
    BY <1>0, <1>2, <1>6, <1>7, <2>1
  <2>2. CASE ~(i < k)
    <3>1. i - Len(a) \in 1 .. Len(s) - k /\ k + (i - Len(a)) = i + 1
      BY <1>0, <1>2, <2>2
    <3>2. (a \o b)[i] = b[i - Len(a)]
      BY <1>0, <1>2, <1>6, <1>7, <2>2
    <3> QED
      BY <1>5, <2>2, <3>1, <3>2
  <2> QED
    BY <2>1, <2>2
<1> QED
  BY <1>4, <1>6, <1>7, <1>8

\* s is rateLRU without the elements that are gone: m says where each one was.
Rest(s, m, gone) ==
  /\ s \in Seq(Entries)
  /\ m \in [1 .. Len(s) -> 1 .. Len(rateLRU)]
  /\ \A i, j \in 1 .. Len(s) : i < j => m[i] < m[j]
  /\ \A i \in 1 .. Len(s) : s[i] = rateLRU[m[i]] /\ m[i] \notin gone
  /\ \A k \in 1 .. Len(rateLRU) : k \in gone \/ \E i \in 1 .. Len(s) : m[i] = k

LEMMA RestOfPrefix ==
  ASSUME TypeOK, NEW n \in 0 .. Len(rateLRU)
  PROVE  Rest(SubSeq(rateLRU, 1, n), [i \in 1 .. n |-> i], n + 1 .. Len(rateLRU))
<1> DEFINE s == SubSeq(rateLRU, 1, n)
<1>1. rateLRU \in Seq(Entries) /\ Len(rateLRU) \in Nat
  BY LenProperties DEF TypeOK
<1>2. s \in Seq(Entries) /\ Len(s) = n /\ \A i \in 1 .. n : s[i] = rateLRU[i]
  BY <1>1, Prefix
<1> HIDE DEF s
<1>3. Rest(s, [i \in 1 .. n |-> i], n + 1 .. Len(rateLRU))
  BY <1>1, <1>2 DEF Rest
<1> QED
  BY <1>3 DEF s

LEMMA RestOfRemove ==
  ASSUME TypeOK, NEW k \in 1 .. Len(rateLRU)
  PROVE  Rest(RemoveAt(rateLRU, k), [i \in 1 .. Len(rateLRU) - 1 |-> IF i < k THEN i ELSE i + 1], {k})
<1> DEFINE s == RemoveAt(rateLRU, k)
           m == [i \in 1 .. Len(rateLRU) - 1 |-> IF i < k THEN i ELSE i + 1]
<1>1. rateLRU \in Seq(Entries) /\ Len(rateLRU) \in Nat /\ k \in Nat
  BY LenProperties DEF TypeOK
<1>2. /\ s \in Seq(Entries) /\ Len(s) = Len(rateLRU) - 1
      /\ \A i \in 1 .. Len(rateLRU) - 1 : s[i] = IF i < k THEN rateLRU[i] ELSE rateLRU[i + 1]
  BY <1>1, Removed
<1> HIDE DEF s
<1>3. m \in [1 .. Len(s) -> 1 .. Len(rateLRU)]
  BY <1>1, <1>2
<1>4. \A i, j \in 1 .. Len(s) : i < j => m[i] < m[j]
  BY <1>1, <1>2
<1>5. \A i \in 1 .. Len(s) : s[i] = rateLRU[m[i]] /\ m[i] # k
  BY <1>1, <1>2
<1>6. ASSUME NEW x \in 1 .. Len(rateLRU), x # k PROVE \E i \in 1 .. Len(s) : m[i] = x
  <2>1. CASE x < k
    BY <1>1, <1>2, <2>1
  <2>2. CASE x > k
    <3>1. x - 1 \in 1 .. Len(s) /\ m[x - 1] = x
      BY <1>1, <1>2, <2>2
    <3> QED
      BY <3>1
  <2>3. x < k \/ x > k
    BY <1>1, <1>6
  <2> QED
    BY <2>1, <2>2, <2>3
<1> HIDE DEF m
<1>7. Rest(s, m, {k})
  BY <1>2, <1>3, <1>4, <1>5, <1>6 DEF Rest
<1> QED
  BY <1>7 DEF s, m

\* The rest of the list stays in order, and without duplicates.
LEMMA RestInv ==
  ASSUME TypeOK, ListInv, NEW s, NEW m, NEW gone, Rest(s, m, gone)
  PROVE  /\ Len(s) \in Nat
         /\ \A i \in 1 .. Len(s) : s[i] \in Entries /\ s[i].bucket <= created /\ s[i].lastUse <= now
         /\ \A i, j \in 1 .. Len(s) : i # j => s[i].ip # s[j].ip /\ s[i].bucket # s[j].bucket
         /\ \A i, j \in 1 .. Len(s) : i < j => s[i].lastUse >= s[j].lastUse
<1>1. Len(s) \in Nat /\ Len(rateLRU) \in Nat /\ \A i \in 1 .. Len(s) : s[i] \in Entries
  BY LenProperties DEF Rest, TypeOK
<1>2. \A i \in 1 .. Len(s) : m[i] \in 1 .. Len(rateLRU) /\ s[i] = rateLRU[m[i]]
  BY DEF Rest
<1>3. \A i \in 1 .. Len(s) : s[i].bucket <= created /\ s[i].lastUse <= now
  BY <1>2 DEF ListInv, ElementsOfThePast
<1>4. \A i, j \in 1 .. Len(s) : i < j => m[i] < m[j]
  BY DEF Rest
<1>5. \A i, j \in 1 .. Len(s) : i < j => s[i].lastUse >= s[j].lastUse
  BY <1>2, <1>4 DEF ListInv, IdleAtTheBack
<1>6. ASSUME NEW i \in 1 .. Len(s), NEW j \in 1 .. Len(s), i # j PROVE m[i] # m[j]
  <2>1. i < j \/ j < i
    BY <1>1, <1>6
  <2>2. m[i] < m[j] \/ m[j] < m[i]
    BY <1>4, <2>1
  <2> QED
    BY <1>1, <1>2, <2>2
<1>7. \A i, j \in 1 .. Len(s) : i # j => s[i].ip # s[j].ip /\ s[i].bucket # s[j].bucket
  BY <1>2, <1>6 DEF ListInv, ElementsDistinct
<1> QED
  BY <1>1, <1>3, <1>5, <1>7

\* PushFront of an entry used now onto the rest of the list.
LEMMA PushInv ==
  ASSUME TypeOK, ListInv, NEW s, NEW m, NEW gone, Rest(s, m, gone), NEW e \in Entries,
         e.lastUse = now, \A i \in 1 .. Len(s) : s[i].ip # e.ip /\ s[i].bucket # e.bucket,
         rateLRU' = <<e>> \o s, now' = now, created' \in Nat, created <= created', e.bucket <= created'
  PROVE  /\ rateLRU' \in Seq(Entries) /\ Len(rateLRU') = Len(s) + 1
         /\ rateLRU'[1] = e /\ \A i \in 2 .. Len(rateLRU') : i - 1 \in 1 .. Len(s) /\ rateLRU'[i] = s[i - 1]
         /\ ListInv'
<1>1. s \in Seq(Entries)
  BY DEF Rest
<1>2. /\ Len(s) \in Nat
      /\ \A i \in 1 .. Len(s) : s[i] \in Entries /\ s[i].bucket <= created /\ s[i].lastUse <= now
      /\ \A i, j \in 1 .. Len(s) : i # j => s[i].ip # s[j].ip /\ s[i].bucket # s[j].bucket
      /\ \A i, j \in 1 .. Len(s) : i < j => s[i].lastUse >= s[j].lastUse
  BY RestInv
<1>3. /\ rateLRU' \in Seq(Entries) /\ Len(rateLRU') = Len(s) + 1
      /\ rateLRU'[1] = e
      /\ \A i \in 2 .. Len(s) + 1 : rateLRU'[i] = s[i - 1]
  BY <1>1, Pushed
<1>4. ASSUME NEW i \in 1 .. Len(rateLRU')
      PROVE  i = 1 \/ (i - 1 \in 1 .. Len(s) /\ rateLRU'[i] = s[i - 1])
  BY <1>2, <1>3
<1>5. created \in Nat /\ now \in Nat /\ Buckets \subseteq Nat
  BY LimiterAssumption DEF TypeOK, Buckets
<1>6. ASSUME NEW i \in 1 .. Len(rateLRU') PROVE rateLRU'[i].bucket <= created' /\ rateLRU'[i].lastUse <= now'
  <2>1. CASE i = 1
    BY <1>3, <1>5, <2>1
  <2>2. CASE i # 1
    <3>1. i - 1 \in 1 .. Len(s) /\ rateLRU'[i] = s[i - 1]
      BY <1>4, <2>2
    <3>2. s[i - 1].bucket \in Nat /\ s[i - 1].bucket <= created /\ s[i - 1].lastUse <= now
      BY <1>2, <1>5, <3>1 DEF Entries
    <3> QED
      BY <1>5, <3>1, <3>2
  <2> QED
    BY <2>1, <2>2
<1>7. ASSUME NEW i \in 1 .. Len(rateLRU'), NEW j \in 1 .. Len(rateLRU'), i < j
      PROVE  /\ rateLRU'[i].ip # rateLRU'[j].ip /\ rateLRU'[i].bucket # rateLRU'[j].bucket
             /\ rateLRU'[i].lastUse >= rateLRU'[j].lastUse
  <2>1. j - 1 \in 1 .. Len(s) /\ rateLRU'[j] = s[j - 1]
    BY <1>2, <1>3, <1>4, <1>7
  <2>2. CASE i = 1
    <3>1. s[j - 1].lastUse \in Nat /\ s[j - 1].lastUse <= now
      BY <1>2, <2>1 DEF Entries
    <3> QED
      BY <1>3, <1>5, <2>1, <2>2, <3>1
  <2>3. CASE i # 1
    <3>1. i - 1 \in 1 .. Len(s) /\ rateLRU'[i] = s[i - 1] /\ i - 1 < j - 1
      BY <1>2, <1>3, <1>4, <1>7, <2>3
    <3>2. i - 1 # j - 1
      BY <1>7
    <3> QED
      BY <1>2, <2>1, <3>1, <3>2
  <2> QED
    BY <2>2, <2>3
<1>8. ElementsDistinct'
  <2>1. ASSUME NEW i \in 1 .. Len(rateLRU'), NEW j \in 1 .. Len(rateLRU'), i # j
        PROVE  rateLRU'[i].ip # rateLRU'[j].ip /\ rateLRU'[i].bucket # rateLRU'[j].bucket
    <3>1. i < j \/ j < i
      BY <1>2, <1>3, <2>1
    <3> QED
      BY <1>7, <3>1
  <2> QED
    BY <2>1 DEF ElementsDistinct
<1>9. ElementsOfThePast' /\ IdleAtTheBack'
  BY <1>6, <1>7 DEF ElementsOfThePast, IdleAtTheBack
<1>10. \A i \in 2 .. Len(rateLRU') : i - 1 \in 1 .. Len(s) /\ rateLRU'[i] = s[i - 1]
  BY <1>2, <1>3
<1> QED
  BY <1>3, <1>8, <1>9, <1>10 DEF ListInv

-----------------------------------------------------------------------------
\* The steps on the list.

LEMMA Constants ==
  /\ Burst \in Nat /\ RateLimitPerSec \in Nat /\ MaxRateLimiters \in Nat \ {0} /\ MaxBuckets \in Nat
  /\ 0 .. MaxBuckets \subseteq Nat /\ Buckets \subseteq 0 .. MaxBuckets
  /\ \A b \in 0 .. MaxBuckets : b # 0 => b \in Buckets
<1>1. RateLimitPerSec \in Nat /\ MaxRateLimiters \in Nat \ {0} /\ MaxBuckets \in Nat
  BY LimiterAssumption
<1>2. Burst \in Nat
  BY <1>1 DEF Burst
<1> QED
  BY <1>1, <1>2 DEF Buckets

\* The map's element for a client that has one.
LEMMA PositionRight ==
  ASSUME TypeOK, ElementsDistinct, MapPointsIntoList, NEW ip \in IPs, rateLimiters[ip] # 0
  PROVE  /\ Position(ip) \in 1 .. Len(rateLRU)
         /\ rateLRU[Position(ip)].ip = ip
         /\ rateLRU[Position(ip)].bucket = rateLimiters[ip]
<1>1. PICK i \in 1 .. Len(rateLRU) : rateLRU[i].ip = ip
  BY DEF MapPointsIntoList
<1>2. rateLRU[i].bucket = rateLimiters[ip]
  BY <1>1 DEF MapPointsIntoList
<1>3. Position(ip) \in 1 .. Len(rateLRU) /\ rateLRU[Position(ip)].bucket = rateLimiters[ip]
  BY <1>2 DEF Position
<1>4. Position(ip) = i
  BY <1>2, <1>3 DEF ElementsDistinct
<1> QED
  BY <1>1, <1>3, <1>4

\* What a request that finds its entry does to the list.
LEMMA ExistingList ==
  ASSUME TypeOK, ListInv, MapPointsIntoList, NEW p \in Procs, NEW ip \in IPs, GetExisting(p, ip)
  PROVE  /\ rateLRU' \in Seq(Entries) /\ Len(rateLRU') = Len(rateLRU)
         /\ ListInv' /\ MapPointsIntoList'
         /\ \A i \in 1 .. Len(rateLRU') :
              \/ rateLRU'[i] = Entry(ip, rateLimiters[ip])
              \/ rateLRU'[i].ip # ip /\ \E j \in 1 .. Len(rateLRU) : rateLRU'[i] = rateLRU[j]
<1> DEFINE k == Position(ip)
           s == RemoveAt(rateLRU, k)
           m == [i \in 1 .. Len(rateLRU) - 1 |-> IF i < k THEN i ELSE i + 1]
           e == Entry(ip, rateLimiters[ip])
<1>1. rateLimiters[ip] # 0 /\ rateLRU' = <<e>> \o s /\ rateLimiters' = rateLimiters /\ now' = now /\ created' = created
  BY DEF GetExisting, Promoted
<1>2. k \in 1 .. Len(rateLRU) /\ rateLRU[k].ip = ip /\ rateLRU[k].bucket = rateLimiters[ip]
  BY <1>1, PositionRight DEF ListInv
<1>3. Rest(s, m, {k})
  BY <1>2, RestOfRemove
<1>4. e \in Entries /\ e.ip = ip /\ e.bucket = rateLimiters[ip] /\ e.lastUse = now
  <2>1. rateLimiters[ip] \in Buckets /\ now \in Nat
    BY <1>1, Constants DEF TypeOK
  <2> QED
    BY <2>1 DEF Entry, Entries
<1> HIDE DEF k, s, m, e
<1>5. ASSUME NEW i \in 1 .. Len(s)
      PROVE  s[i].ip # e.ip /\ s[i].bucket # e.bucket /\ \E j \in 1 .. Len(rateLRU) : s[i] = rateLRU[j]
  <2>1. m[i] \in 1 .. Len(rateLRU) /\ m[i] # k /\ s[i] = rateLRU[m[i]]
    BY <1>3 DEF Rest
  <2> QED
    BY <1>2, <1>4, <2>1 DEF ListInv, ElementsDistinct
<1>6. created' \in Nat /\ created <= created' /\ e.bucket <= created'
  BY <1>1, <1>2, <1>4, Constants DEF TypeOK, ListInv, ElementsOfThePast
<1>7. /\ rateLRU' \in Seq(Entries) /\ Len(rateLRU') = Len(s) + 1
      /\ rateLRU'[1] = e /\ \A i \in 2 .. Len(rateLRU') : i - 1 \in 1 .. Len(s) /\ rateLRU'[i] = s[i - 1]
      /\ ListInv'
  BY <1>1, <1>3, <1>4, <1>5, <1>6, PushInv
<1>8. Len(s) = Len(rateLRU) - 1 /\ Len(rateLRU) \in Nat
  BY <1>2, Removed, LenProperties DEF s, TypeOK
<1>9. Len(rateLRU') = Len(rateLRU) /\ Len(s) \in Nat
  BY <1>2, <1>7, <1>8
<1>10. \A i \in 1 .. Len(rateLRU') : i # 1 => i \in 2 .. Len(rateLRU')
  BY <1>9, <1>8
<1>11. ASSUME NEW i \in 1 .. Len(rateLRU')
       PROVE  \/ rateLRU'[i] = e
              \/ rateLRU'[i].ip # ip /\ \E j \in 1 .. Len(rateLRU) : rateLRU'[i] = rateLRU[j]
  BY <1>4, <1>5, <1>7, <1>10
<1>12. \A i \in 1 .. Len(rateLRU') : rateLimiters'[rateLRU'[i].ip] = rateLRU'[i].bucket
  BY <1>1, <1>4, <1>11 DEF MapPointsIntoList
<1>13. ASSUME NEW x \in IPs, rateLimiters'[x] # 0 PROVE \E i \in 1 .. Len(rateLRU') : rateLRU'[i].ip = x
  <2>1. CASE x = ip
    <3>1. 1 \in 1 .. Len(rateLRU')
      BY <1>7, <1>9
    <3> QED
      BY <1>4, <1>7, <2>1, <3>1
  <2>2. CASE x # ip
    <3>1. PICK j \in 1 .. Len(rateLRU) : rateLRU[j].ip = x
      BY <1>1, <1>13 DEF MapPointsIntoList
    <3>2. PICK i \in 1 .. Len(s) : m[i] = j
      BY <1>2, <1>3, <2>2, <3>1 DEF Rest
    <3>3. s[i].ip = x
      BY <1>3, <3>1, <3>2 DEF Rest
    <3>4. i + 1 \in 2 .. Len(rateLRU') /\ (i + 1) - 1 = i /\ i + 1 \in 1 .. Len(rateLRU')
      BY <1>7, <1>9
    <3>5. rateLRU'[i + 1] = s[i]
      BY <1>7, <3>4
    <3> QED
      BY <3>3, <3>4, <3>5
  <2> QED
    BY <2>1, <2>2
<1>14. MapPointsIntoList'
  BY <1>12, <1>13 DEF MapPointsIntoList
<1> QED
  BY <1>7, <1>9, <1>11, <1>14 DEF e

\* What a request without an entry does: at the cap the element at the back goes.
LEMMA NewList ==
  ASSUME TypeOK, ListInv, MapPointsIntoList, CapKept, NEW p \in Procs, NEW ip \in IPs, GetNew(p, ip)
  PROVE  /\ rateLRU' \in Seq(Entries) /\ Len(rateLRU') <= MaxRateLimiters
         /\ ListInv' /\ MapPointsIntoList'
         /\ rateLimiters' \in [IPs -> 0 .. MaxBuckets] /\ rateLimiters'[ip] = created + 1
         /\ \A x \in IPs : x # ip =>
              \/ rateLimiters'[x] = rateLimiters[x] /\ evicted'[x] = evicted[x]
              \/ rateLimiters[x] # 0 /\ rateLimiters'[x] = 0 /\ evicted'[x] = evicted[x] + 1
         /\ evicted' \in [IPs -> Nat] /\ evicted'[ip] = evicted[ip]
         /\ \A i \in 1 .. Len(rateLRU') :
              \/ rateLRU'[i] = Entry(ip, created + 1)
              \/ /\ rateLRU'[i].ip # ip /\ evicted'[rateLRU'[i].ip] = evicted[rateLRU'[i].ip]
                 /\ \E j \in 1 .. Len(rateLRU) : rateLRU'[i] = rateLRU[j]
<1> DEFINE N == Len(rateLRU)
           n == IF Full THEN N - 1 ELSE N
           s == SubSeq(rateLRU, 1, n)
           m == [i \in 1 .. n |-> i]
           e == Entry(ip, created + 1)
           back == rateLRU[N].ip
<1>0. N \in Nat /\ rateLRU \in Seq(Entries) /\ (\A i \in 1 .. N : rateLRU[i] \in Entries)
  BY LenProperties DEF TypeOK
<1>1. /\ rateLimiters[ip] = 0 /\ created < MaxBuckets /\ created' = created + 1 /\ now' = now
      /\ created \in Nat /\ created + 1 \in Buckets
  BY Constants DEF GetNew, TypeOK, Buckets
<1>2. Full => N \in 1 .. N /\ N >= 1
  BY <1>0, Constants DEF Full
<1>3. n \in 0 .. N /\ n + 1 <= MaxRateLimiters
  BY <1>0, <1>2, Constants DEF Full, CapKept
<1>4. rateLRU' = <<e>> \o s
  <2>1. CASE Full
    BY <2>1 DEF GetNew, Front
  <2>2. CASE ~Full
    <3>1. s = rateLRU
      BY <1>0, <2>2, SubSeqFull
    <3> QED
      BY <2>2, <3>1 DEF GetNew
  <2> QED
    BY <2>1, <2>2
<1>5. Rest(s, m, n + 1 .. N)
  BY <1>3, RestOfPrefix
<1>6. Len(s) = n /\ \A i \in 1 .. n : s[i] = rateLRU[i]
  BY <1>0, <1>3, Prefix
<1>7. e \in Entries /\ e.ip = ip /\ e.bucket = created + 1 /\ e.lastUse = now
  BY <1>1 DEF Entry, Entries, TypeOK
<1>8. \A i \in 1 .. N : rateLRU[i].ip # ip /\ rateLRU[i].bucket <= created /\ rateLRU[i].bucket \in Nat
                        /\ rateLRU[i].bucket # 0 /\ rateLRU[i].ip \in IPs
  <2>1. ASSUME NEW i \in 1 .. N
        PROVE  rateLRU[i].bucket \in Nat /\ rateLRU[i].bucket # 0 /\ rateLRU[i].ip \in IPs
    <3>1. rateLRU[i].bucket \in Buckets /\ rateLRU[i].ip \in IPs
      BY <1>0 DEF Entries
    <3> QED
      BY <3>1, Constants DEF Buckets
  <2> QED
    BY <1>1, <2>1 DEF MapPointsIntoList, ListInv, ElementsOfThePast
<1>9. Full => \A i \in 1 .. N - 1 : rateLRU[i].ip # back
  BY <1>0, <1>2 DEF ListInv, ElementsDistinct
<1>10. /\ rateLimiters' \in [IPs -> 0 .. MaxBuckets] /\ rateLimiters'[ip] = created + 1
       /\ evicted' \in [IPs -> Nat] /\ evicted'[ip] = evicted[ip]
       /\ \A x \in IPs : x # ip =>
            /\ rateLimiters'[x] = IF Full /\ x = back THEN 0 ELSE rateLimiters[x]
            /\ evicted'[x] = IF Full /\ x = back THEN evicted[x] + 1 ELSE evicted[x]
  <2>1. CASE Full
    <3>1. rateLimiters' = [[rateLimiters EXCEPT ![back] = 0] EXCEPT ![ip] = created + 1]
      BY <2>1 DEF GetNew, Without, Last
    <3>2. evicted' = [evicted EXCEPT ![back] = @ + 1]
      BY <2>1 DEF GetNew, Last
    <3>3. back \in IPs /\ back # ip
      BY <1>2, <1>8, <2>1
    <3>4. rateLimiters \in [IPs -> 0 .. MaxBuckets] /\ evicted \in [IPs -> Nat] /\ created + 1 \in 0 .. MaxBuckets /\ 0 \in 0 .. MaxBuckets
      BY <1>1, Constants DEF TypeOK
    <3> HIDE DEF back
    <3> QED
      BY <2>1, <3>1, <3>2, <3>3, <3>4
  <2>2. CASE ~Full
    <3>1. rateLimiters' = [rateLimiters EXCEPT ![ip] = created + 1] /\ evicted' = evicted
      BY <2>2 DEF GetNew
    <3>2. rateLimiters \in [IPs -> 0 .. MaxBuckets] /\ evicted \in [IPs -> Nat] /\ created + 1 \in 0 .. MaxBuckets
      BY <1>1, Constants DEF TypeOK
    <3> QED
      BY <2>2, <3>1, <3>2
  <2> QED
    BY <2>1, <2>2
<1>11. Full => rateLimiters[back] # 0 /\ rateLimiters[back] = rateLRU[N].bucket
  BY <1>2, <1>8 DEF MapPointsIntoList
<1>12. n = (IF Full THEN N - 1 ELSE N)
  OBVIOUS
<1> HIDE DEF N, n, s, m, e, back
<1>13. \A i \in 1 .. n : i \in 1 .. N /\ (Full => i \in 1 .. N - 1)
  BY <1>0, <1>12
<1>14. \A i \in 1 .. Len(s) : s[i].ip # e.ip /\ s[i].bucket # e.bucket
  BY <1>1, <1>6, <1>7, <1>8, <1>13
<1>15. created' \in Nat /\ created <= created' /\ e.bucket <= created'
  BY <1>1, <1>7
<1>16. /\ rateLRU' \in Seq(Entries) /\ Len(rateLRU') = Len(s) + 1
       /\ rateLRU'[1] = e /\ \A i \in 2 .. Len(rateLRU') : i - 1 \in 1 .. Len(s) /\ rateLRU'[i] = s[i - 1]
       /\ ListInv'
  BY <1>1, <1>4, <1>5, <1>7, <1>14, <1>15, PushInv
<1>17. Len(rateLRU') = n + 1 /\ n \in Nat /\ Len(rateLRU') <= MaxRateLimiters
  BY <1>0, <1>3, <1>6, <1>16
<1>18. ASSUME NEW i \in 1 .. Len(rateLRU'), i # 1
       PROVE  i - 1 \in 1 .. n /\ i - 1 \in 1 .. N /\ rateLRU'[i] = rateLRU[i - 1]
  <2>1. i \in 2 .. Len(rateLRU')
    BY <1>17, <1>18
  <2> QED
    BY <1>6, <1>13, <1>16, <2>1
<1>19. ASSUME NEW i \in 1 .. Len(rateLRU')
       PROVE  /\ \/ rateLRU'[i] = e
                 \/ /\ rateLRU'[i].ip # ip /\ evicted'[rateLRU'[i].ip] = evicted[rateLRU'[i].ip]
                    /\ \E j \in 1 .. N : rateLRU'[i] = rateLRU[j]
              /\ rateLimiters'[rateLRU'[i].ip] = rateLRU'[i].bucket
  <2>1. CASE i = 1
    BY <1>7, <1>10, <1>16, <2>1
  <2>2. CASE i # 1
    <3>1. i - 1 \in 1 .. n /\ i - 1 \in 1 .. N /\ rateLRU'[i] = rateLRU[i - 1]
      BY <1>18, <2>2
    <3>2. rateLRU'[i].ip # ip /\ rateLRU'[i].ip \in IPs /\ (Full => rateLRU'[i].ip # back)
      BY <1>8, <1>9, <1>13, <3>1
    <3>3. rateLimiters[rateLRU[i - 1].ip] = rateLRU[i - 1].bucket
      BY <3>1 DEF MapPointsIntoList, N
    <3> QED
      BY <1>10, <3>1, <3>2, <3>3
  <2> QED
    BY <2>1, <2>2
<1>20. ASSUME NEW x \in IPs, rateLimiters'[x] # 0 PROVE \E i \in 1 .. Len(rateLRU') : rateLRU'[i].ip = x
  <2>1. CASE x = ip
    <3>1. 1 \in 1 .. Len(rateLRU')
      BY <1>17
    <3> QED
      BY <1>7, <1>16, <2>1, <3>1
  <2>2. CASE x # ip
    <3>1. rateLimiters[x] # 0 /\ ~(Full /\ x = back)
      BY <1>10, <1>20, <2>2
    <3>2. PICK j \in 1 .. N : rateLRU[j].ip = x
      BY <3>1 DEF MapPointsIntoList, N
    <3>3. j \in 1 .. n
      BY <1>0, <1>12, <3>1, <3>2 DEF back
    <3>4. j + 1 \in 2 .. Len(rateLRU') /\ (j + 1) - 1 = j /\ j + 1 \in 1 .. Len(rateLRU')
      BY <1>17, <3>3
    <3>5. rateLRU'[j + 1] = rateLRU[j]
      BY <1>6, <1>16, <3>3, <3>4
    <3> QED
      BY <3>2, <3>4, <3>5
  <2> QED
    BY <2>1, <2>2
<1>21. MapPointsIntoList'
  BY <1>19, <1>20 DEF MapPointsIntoList
<1>22. ASSUME NEW x \in IPs, x # ip
       PROVE  \/ rateLimiters'[x] = rateLimiters[x] /\ evicted'[x] = evicted[x]
              \/ rateLimiters[x] # 0 /\ rateLimiters'[x] = 0 /\ evicted'[x] = evicted[x] + 1
  BY <1>10, <1>11, <1>22
<1> QED
  BY <1>10, <1>16, <1>17, <1>19, <1>21, <1>22 DEF e, N

\* A bounded set of numbers has a greatest one.
LEMMA GreatestExists ==
  ASSUME NEW n \in Nat, NEW S \in SUBSET (0 .. n), S # {}
  PROVE  \E k \in S : \A i \in S : i <= k
<1> DEFINE D == {n - i : i \in S}
           L == OpToRel(<, Nat)
<1>1. D \in SUBSET Nat /\ D # {}
  <2>1. \A i \in S : i \in 0 .. n
    OBVIOUS
  <2>2. \A i \in S : n - i \in Nat
    BY <2>1
  <2> QED
    BY <2>2
<1>2. \A x, y \in Nat : x < y => <<x, y>> \in L
  BY Zenon DEF OpToRel
<1>3. IsWellFoundedOn(L, Nat)
  BY NatLessThanWellFounded
<1> HIDE DEF D, L
<1>4. PICK d \in D : \A x \in D : <<x, d>> \notin L
  BY <1>1, <1>3, WFMin
<1>5. \A x \in D : ~(x < d)
  BY <1>1, <1>2, <1>4
<1>6. PICK k \in S : d = n - k
  BY DEF D
<1>7. \A i \in S : ~(n - i < n - k)
  BY <1>5, <1>6 DEF D
<1>8. \A i \in S : i <= k
  BY <1>7
<1> QED
  BY <1>8

\* What the sweep leaves: a prefix of the list, and behind it only idle entries.
LEMMA SweptList ==
  ASSUME TypeOK, ListInv, MapPointsIntoList, evictIdleLimiters
  PROVE  /\ rateLRU' \in Seq(Entries) /\ Len(rateLRU') <= Len(rateLRU)
         /\ ListInv' /\ MapPointsIntoList'
         /\ rateLimiters' \in [IPs -> 0 .. MaxBuckets]
         /\ \A i \in 1 .. Len(rateLRU') : \E j \in 1 .. Len(rateLRU) : rateLRU'[i] = rateLRU[j]
         /\ \A x \in IPs :
              \/ rateLimiters'[x] = rateLimiters[x]
              \/ /\ rateLimiters'[x] = 0
                 /\ \E j \in 1 .. Len(rateLRU) : rateLRU[j].ip = x /\ rateLRU[j].lastUse <= Cutoff
<1> DEFINE N == Len(rateLRU)
           recent == {i \in 1 .. N : rateLRU[i].lastUse > Cutoff}
           kept == CHOOSE k \in recent \cup {0} : \A i \in recent : i <= k
           gone == {rateLRU[i].ip : i \in kept + 1 .. N}
<1>0. N \in Nat /\ rateLRU \in Seq(Entries) /\ (\A i \in 1 .. N : rateLRU[i] \in Entries)
  BY LenProperties DEF TypeOK
<1>1. /\ kept < N /\ rateLRU' = SubSeq(rateLRU, 1, kept)
      /\ rateLimiters' = [ip \in IPs |-> IF ip \in gone THEN 0 ELSE rateLimiters[ip]]
      /\ now' = now /\ created' = created
  BY DEF evictIdleLimiters
<1>2. recent \in SUBSET (1 .. N) /\ \A i \in 1 .. N : i \notin recent => ~(rateLRU[i].lastUse > Cutoff)
  OBVIOUS
<1> HIDE DEF recent
<1>3. kept \in recent \cup {0} /\ \A i \in recent : i <= kept
  <2>1. recent \cup {0} \in SUBSET (0 .. N) /\ recent \cup {0} # {}
    BY <1>0, <1>2
  <2>2. \E k \in recent \cup {0} : \A i \in recent \cup {0} : i <= k
    BY <1>0, <2>1, GreatestExists
  <2>3. \E k \in recent \cup {0} : \A i \in recent : i <= k
    BY <2>2
  <2> QED
    BY <2>3
<1> HIDE DEF kept, N
<1>4. kept \in 0 .. N
  BY <1>0, <1>2, <1>3
<1>5. now \in Nat /\ MaxAge \in Nat /\ created \in Nat /\ Cutoff \in Int
  BY LimiterAssumption, Constants DEF TypeOK, Cutoff
<1>6. \A j \in kept + 1 .. N : j \in 1 .. N /\ rateLRU[j].lastUse <= Cutoff
  <2>1. ASSUME NEW j \in kept + 1 .. N PROVE j \in 1 .. N /\ rateLRU[j].lastUse <= Cutoff
    <3>1. j \in 1 .. N /\ j \notin recent
      BY <1>0, <1>2, <1>3, <1>4
    <3>2. ~(rateLRU[j].lastUse > Cutoff) /\ rateLRU[j].lastUse \in Nat
      BY <1>0, <1>2, <3>1 DEF Entries
    <3> QED
      BY <1>5, <3>1, <3>2
  <2> QED
    BY <2>1
<1>7. rateLRU' \in Seq(Entries) /\ Len(rateLRU') = kept /\ \A i \in 1 .. kept : rateLRU'[i] = rateLRU[i]
  BY <1>0, <1>1, <1>4, Prefix DEF N
<1>8. \A i \in 1 .. kept : i \in 1 .. N
  BY <1>0, <1>4
<1>9. ListInv'
  <2>1. ElementsDistinct'
    BY <1>7, <1>8 DEF ListInv, ElementsDistinct, N
  <2>2. ElementsOfThePast'
    BY <1>1, <1>7, <1>8 DEF ListInv, ElementsOfThePast, N
  <2>3. IdleAtTheBack'
    BY <1>7, <1>8 DEF ListInv, IdleAtTheBack, N
  <2> QED
    BY <2>1, <2>2, <2>3 DEF ListInv
<1>10. \A x \in gone : \E j \in kept + 1 .. N : rateLRU[j].ip = x
  OBVIOUS
<1>11. \A j \in kept + 1 .. N : rateLRU[j].ip \in gone
  OBVIOUS
<1> HIDE DEF gone
<1>12. ASSUME NEW i \in 1 .. kept PROVE rateLRU[i].ip \notin gone /\ rateLRU[i].ip \in IPs
  <2>1. \A j \in kept + 1 .. N : j \in 1 .. N /\ i # j
    BY <1>0, <1>4, <1>6
  <2>2. \A j \in kept + 1 .. N : rateLRU[j].ip # rateLRU[i].ip
    BY <1>8, <2>1 DEF ListInv, ElementsDistinct, N
  <2>3. rateLRU[i].ip \in IPs
    BY <1>0, <1>8 DEF Entries
  <2> QED
    BY <1>10, <2>2, <2>3
<1>13. \A i \in 1 .. Len(rateLRU') : rateLimiters'[rateLRU'[i].ip] = rateLRU'[i].bucket
  BY <1>1, <1>7, <1>8, <1>12 DEF MapPointsIntoList, N
<1>14. ASSUME NEW x \in IPs, rateLimiters'[x] # 0 PROVE \E i \in 1 .. Len(rateLRU') : rateLRU'[i].ip = x
  <2>1. x \notin gone /\ rateLimiters[x] # 0
    BY <1>1, <1>14
  <2>2. PICK j \in 1 .. N : rateLRU[j].ip = x
    BY <2>1 DEF MapPointsIntoList, N
  <2>3. j \notin kept + 1 .. N
    BY <1>11, <2>1, <2>2
  <2>4. j \in 1 .. kept
    BY <1>0, <1>4, <2>3
  <2> QED
    BY <1>7, <2>2, <2>4
<1>15. MapPointsIntoList'
  BY <1>13, <1>14 DEF MapPointsIntoList
<1>16. \A x \in IPs :
         \/ rateLimiters'[x] = rateLimiters[x]
         \/ rateLimiters'[x] = 0 /\ \E j \in 1 .. N : rateLRU[j].ip = x /\ rateLRU[j].lastUse <= Cutoff
  <2>1. ASSUME NEW x \in IPs, x \in gone
        PROVE  rateLimiters'[x] = 0 /\ \E j \in 1 .. N : rateLRU[j].ip = x /\ rateLRU[j].lastUse <= Cutoff
    <3>1. PICK j \in kept + 1 .. N : rateLRU[j].ip = x
      BY <1>10, <2>1
    <3>2. j \in 1 .. N /\ rateLRU[j].lastUse <= Cutoff
      BY <1>6
    <3>3. rateLimiters'[x] = 0
      BY <1>1, <2>1
    <3> QED
      BY <3>1, <3>2, <3>3
  <2>2. ASSUME NEW x \in IPs, x \notin gone PROVE rateLimiters'[x] = rateLimiters[x]
    BY <1>1, <2>2
  <2> QED
    BY <2>1, <2>2
<1>17. rateLimiters' \in [IPs -> 0 .. MaxBuckets]
  <2>1. 0 \in 0 .. MaxBuckets
    BY Constants
  <2> QED
    BY <1>1, <2>1 DEF TypeOK
<1>18. Len(rateLRU') <= N
  BY <1>0, <1>4, <1>7
<1> QED
  BY <1>7, <1>8, <1>9, <1>15, <1>16, <1>17, <1>18 DEF N

-----------------------------------------------------------------------------
\* The list and the map under every step.

LEMMA InitInv == Init => Inv
<1> SUFFICES ASSUME Init PROVE Inv
  OBVIOUS
<1> USE DEF Init
<1>0. Len(rateLRU) = 0 /\ rateLRU \in Seq(Entries) /\ 1 .. Len(rateLRU) = {}
  BY EmptySeq
<1>1. TypeOK
  BY <1>0, Constants DEF TypeOK
<1>2. ListInv /\ MapPointsIntoList /\ CapKept
  BY <1>0, Constants DEF ListInv, ElementsDistinct, ElementsOfThePast, IdleAtTheBack, MapPointsIntoList, CapKept
<1>3. RequestsHold /\ QuietSinceLastUse
  BY <1>0 DEF RequestsHold, QuietSinceLastUse
<1>4. TokensInShare
  <2>1. ASSUME NEW ip \in IPs PROVE Taken(ip) + Burst <= Share(ip, now)
    <3>1. Taken(ip) = 0
      BY DEF Taken
    <3>2. Share(ip, now) = Burst
      BY Constants DEF Share, Quota
    <3> QED
      BY <3>1, <3>2, Constants
  <2> QED
    BY <2>1 DEF TokensInShare
<1> QED
  BY <1>1, <1>2, <1>3, <1>4 DEF Inv, LRUInv

LEMMA StepLRUInv == LRUInv /\ [Next]_vars => LRUInv'
<1> SUFFICES ASSUME LRUInv, [Next]_vars PROVE LRUInv'
  OBVIOUS
<1>0. /\ TypeOK /\ ListInv /\ MapPointsIntoList /\ CapKept
      /\ Len(rateLRU) \in Nat /\ created \in Nat /\ now \in Nat
      /\ \A b \in Buckets : tokens[b] \in 0 .. Burst
  BY LenProperties, Constants DEF LRUInv, TypeOK
<1>1. ASSUME NEW p \in Procs, NEW ip \in IPs, GetExisting(p, ip) PROVE LRUInv'
  <2>1. rateLRU' \in Seq(Entries) /\ Len(rateLRU') = Len(rateLRU) /\ ListInv' /\ MapPointsIntoList'
    BY <1>0, <1>1, ExistingList
  <2>2. TypeOK'
    BY <1>0, <1>1, <2>1 DEF GetExisting, TypeOK, counts
  <2>3. CapKept'
    BY <1>0, <2>1 DEF CapKept
  <2> QED
    BY <2>1, <2>2, <2>3 DEF LRUInv
<1>2. ASSUME NEW p \in Procs, NEW ip \in IPs, GetNew(p, ip) PROVE LRUInv'
  <2>1. /\ rateLRU' \in Seq(Entries) /\ Len(rateLRU') <= MaxRateLimiters /\ ListInv' /\ MapPointsIntoList'
        /\ rateLimiters' \in [IPs -> 0 .. MaxBuckets] /\ evicted' \in [IPs -> Nat]
    BY <1>0, <1>2, NewList
  <2>2. created + 1 \in 0 .. MaxBuckets /\ Burst \in 0 .. Burst
    BY <1>0, <1>2, Constants DEF GetNew
  <2>3. tokens' \in [Buckets -> 0 .. Burst] /\ created' \in 0 .. MaxBuckets
    BY <1>0, <1>2, <2>2 DEF GetNew, TypeOK
  <2>4. /\ pc' \in [Procs -> IPs \cup {NoIP}] /\ holds' \in [Procs -> 0 .. MaxBuckets]
        /\ now' = now /\ allowed' = allowed /\ late' = late
    BY <1>0, <1>2, <2>2 DEF GetNew, TypeOK
  <2>5. TypeOK'
    BY <1>0, <2>1, <2>3, <2>4 DEF TypeOK
  <2> QED
    BY <2>1, <2>5 DEF LRUInv, CapKept
<1>3. ASSUME NEW p \in Procs, Allow(p) PROVE LRUInv'
  <2>1. rateLRU' = rateLRU /\ rateLimiters' = rateLimiters /\ created' = created /\ now' = now /\ evicted' = evicted
    BY <1>3 DEF Allow, lru
  <2>2. pc' \in [Procs -> IPs \cup {NoIP}] /\ holds' \in [Procs -> 0 .. MaxBuckets]
    BY <1>0, <1>3, Constants DEF Allow, TypeOK
  <2>3. pc[p] \in IPs /\ holds[p] \in 0 .. MaxBuckets
    BY <1>0, <1>3 DEF Allow, TypeOK
  <2>4. tokens' \in [Buckets -> 0 .. Burst] /\ allowed' \in [IPs -> Nat] /\ late' \in [IPs -> Nat]
    <3>1. CASE tokens[holds[p]] > 0
      <4>1. tokens' = [tokens EXCEPT ![holds[p]] = @ - 1] /\ allowed' = [allowed EXCEPT ![pc[p]] = @ + 1]
        BY <1>3, <3>1 DEF Allow
      <4>2. late' = late \/ late' = [late EXCEPT ![pc[p]] = @ + 1]
        BY <1>3, <3>1 DEF Allow
      <4>3. ASSUME holds[p] \in Buckets PROVE tokens[holds[p]] - 1 \in 0 .. Burst
        <5>1. tokens[holds[p]] \in 0 .. Burst /\ Burst \in Nat
          BY <1>0, <4>3, Constants
        <5> QED
          BY <3>1, <5>1
      <4>4. tokens' \in [Buckets -> 0 .. Burst]
        BY <1>0, <4>1, <4>3 DEF TypeOK
      <4>5. allowed' \in [IPs -> Nat] /\ late' \in [IPs -> Nat]
        <5>1. allowed \in [IPs -> Nat] /\ late \in [IPs -> Nat]
          BY <1>0 DEF TypeOK
        <5>2. allowed' \in [IPs -> Nat]
          BY <2>3, <4>1, <5>1
        <5>3. late' \in [IPs -> Nat]
          BY <2>3, <4>2, <5>1
        <5> QED
          BY <5>2, <5>3
      <4> QED
        BY <4>4, <4>5
    <3>2. CASE ~(tokens[holds[p]] > 0)
      BY <1>0, <1>3, <3>2 DEF Allow, TypeOK
    <3> QED
      BY <3>1, <3>2
  <2>5. TypeOK'
    BY <1>0, <2>1, <2>2, <2>4 DEF TypeOK
  <2>6. ListInv' /\ MapPointsIntoList' /\ CapKept'
    BY <1>0, <2>1 DEF ListInv, ElementsDistinct, ElementsOfThePast, IdleAtTheBack, MapPointsIntoList, CapKept
  <2> QED
    BY <2>5, <2>6 DEF LRUInv
<1>4. CASE evictIdleLimiters
  <2>1. /\ rateLRU' \in Seq(Entries) /\ Len(rateLRU') <= Len(rateLRU) /\ ListInv' /\ MapPointsIntoList'
        /\ rateLimiters' \in [IPs -> 0 .. MaxBuckets]
    BY <1>0, <1>4, SweptList
  <2>2. TypeOK'
    BY <1>0, <1>4, <2>1 DEF evictIdleLimiters, TypeOK, request, counts
  <2>3. Len(rateLRU') \in Nat
    BY <2>1, LenProperties
  <2>4. CapKept'
    BY <1>0, <2>1, <2>3, Constants DEF CapKept
  <2> QED
    BY <2>1, <2>2, <2>4 DEF LRUInv
<1>5. CASE Tick
  <2>1. rateLRU' = rateLRU /\ rateLimiters' = rateLimiters /\ created' = created /\ now' = now + 1
    BY <1>5 DEF Tick, lru
  <2>2. \A b \in Buckets : tokens'[b] \in 0 .. Burst
    BY <1>0, <1>5, Constants DEF Tick
  <2>3. tokens' = [b \in Buckets |-> tokens'[b]]
    BY <1>5 DEF Tick
  <2>4. tokens' \in [Buckets -> 0 .. Burst]
    BY <2>2, <2>3
  <2>5. TypeOK'
    BY <1>0, <1>5, <2>1, <2>4 DEF Tick, TypeOK, request, counts
  <2>6. ElementsOfThePast'
    <3>1. ASSUME NEW i \in 1 .. Len(rateLRU) PROVE rateLRU[i].bucket <= created /\ rateLRU[i].lastUse <= now + 1
      <4>0. rateLRU[i] \in Entries
        BY <1>0, LenProperties DEF TypeOK
      <4>1. rateLRU[i].lastUse \in Nat /\ now \in Nat
        BY <1>0, <4>0 DEF Entries
      <4>2. rateLRU[i].bucket <= created /\ rateLRU[i].lastUse <= now
        BY <1>0 DEF ListInv, ElementsOfThePast
      <4> QED
        BY <4>1, <4>2
    <3> QED
      BY <2>1, <3>1 DEF ElementsOfThePast
  <2>7. ListInv' /\ MapPointsIntoList' /\ CapKept'
    BY <1>0, <2>1, <2>6 DEF ListInv, ElementsDistinct, IdleAtTheBack, MapPointsIntoList, CapKept
  <2> QED
    BY <2>5, <2>7 DEF LRUInv
<1>6. CASE UNCHANGED vars
  <2>1. TypeOK'
    BY <1>0, <1>6 DEF TypeOK, vars, lru, request, counts
  <2>2. ListInv' /\ MapPointsIntoList' /\ CapKept'
    BY <1>0, <1>6 DEF vars, lru, ListInv, ElementsDistinct, ElementsOfThePast, IdleAtTheBack, MapPointsIntoList, CapKept
  <2> QED
    BY <2>1, <2>2 DEF LRUInv
<1> QED
  BY <1>1, <1>2, <1>3, <1>4, <1>5, <1>6 DEF Next

-----------------------------------------------------------------------------
\* The quota.

LEMMA QuotaType ==
  ASSUME NEW evictions \in Nat, NEW t \in Nat
  PROVE  Quota(evictions, t) \in Nat
BY Constants DEF Quota

\* A second more, an eviction more.
LEMMA QuotaGrows ==
  ASSUME NEW evictions \in Nat, NEW t \in Nat
  PROVE  /\ Quota(evictions, t + 1) = Quota(evictions, t) + RateLimitPerSec
         /\ Quota(evictions + 1, t) = Quota(evictions, t) + Burst
BY Constants DEF Quota

LEMMA ProductMonotone ==
  ASSUME NEW r \in Nat, NEW a \in Nat, NEW b \in Nat, a <= b
  PROVE  r * a <= r * b
<1>1. b - a \in Nat /\ b = a + (b - a)
  OBVIOUS
<1>2. r * b = r * a + r * (b - a)
  BY <1>1
<1>3. r * (b - a) \in Nat /\ r * a \in Nat
  BY <1>1
<1> QED
  BY <1>2, <1>3

\* Ten idle minutes are worth a burst and the requests in hand.
LEMMA QuotaOfIdling ==
  ASSUME NEW evictions \in Nat, NEW t \in Nat, NEW use \in Nat, use <= t - MaxAge
  PROVE  Quota(evictions, use) + Cardinality(Procs) + Burst <= Quota(evictions, t)
<1>1. MaxAge \in Nat /\ RateLimitPerSec \in Nat /\ IsFiniteSet(Procs)
  BY LimiterAssumption
<1>2. Cardinality(Procs) \in Nat
  BY <1>1, FS_CardinalityType
<1>3. use + MaxAge \in Nat /\ use + MaxAge <= t
  BY <1>1
<1>4. RateLimitPerSec * (use + MaxAge) <= RateLimitPerSec * t
  BY <1>1, <1>3, ProductMonotone
<1>5. RateLimitPerSec * (use + MaxAge) = RateLimitPerSec * use + RateLimitPerSec * MaxAge
  BY <1>1
<1>6. RateLimitPerSec * MaxAge >= Burst + Cardinality(Procs)
  BY IdleAssumption DEF Burst
<1>7. /\ RateLimitPerSec * use \in Nat /\ RateLimitPerSec * MaxAge \in Nat /\ RateLimitPerSec * t \in Nat
      /\ Burst * (1 + evictions) \in Nat
  BY <1>1, Constants
<1>8. RateLimitPerSec * use + Cardinality(Procs) + Burst <= RateLimitPerSec * t
  BY <1>2, <1>4, <1>5, <1>6, <1>7, Constants
<1> QED
  BY <1>2, <1>7, <1>8, Constants DEF Quota

\* The numbers an invariant about a client is made of.
LEMMA ClientNumbers ==
  ASSUME TypeOK, NEW ip \in IPs
  PROVE  /\ Taken(ip) \in Int /\ evicted[ip] \in Nat /\ rateLimiters[ip] \in 0 .. MaxBuckets
         /\ rateLimiters[ip] # 0 => rateLimiters[ip] \in Buckets /\ tokens[rateLimiters[ip]] \in 0 .. Burst
         /\ Share(ip, now) \in Nat
<1>1. allowed[ip] \in Nat /\ late[ip] \in Nat /\ evicted[ip] \in Nat /\ now \in Nat /\ rateLimiters[ip] \in 0 .. MaxBuckets
  BY DEF TypeOK
<1>2. rateLimiters[ip] # 0 => rateLimiters[ip] \in Buckets /\ tokens[rateLimiters[ip]] \in 0 .. Burst
  BY <1>1, Constants DEF TypeOK
<1>3. Taken(ip) \in Int
  BY <1>1 DEF Taken
<1>4. Share(ip, now) \in Nat
  BY <1>1, QuotaType DEF Share
<1> QED
  BY <1>1, <1>2, <1>3, <1>4

LEMMA TokenNumbers == ASSUME NEW x \in 0 .. Burst PROVE x \in Nat /\ x <= Burst
BY Constants

LEMMA StepRequestsHold == LRUInv /\ RequestsHold /\ [Next]_vars => RequestsHold'
<1> SUFFICES ASSUME LRUInv, RequestsHold, [Next]_vars, NEW p \in Procs, pc'[p] # NoIP PROVE holds'[p] # 0
  BY DEF RequestsHold
<1>0. pc \in [Procs -> IPs \cup {NoIP}] /\ holds \in [Procs -> 0 .. MaxBuckets] /\ created \in Nat /\ NoIP \notin IPs
  BY Constants, LimiterAssumption DEF LRUInv, TypeOK
<1>1. ASSUME NEW q \in Procs, NEW ip \in IPs, GetExisting(q, ip) \/ GetNew(q, ip) PROVE holds'[p] # 0
  <2>1. PICK b : b # 0 /\ pc' = [pc EXCEPT ![q] = ip] /\ holds' = [holds EXCEPT ![q] = b]
    BY <1>0, <1>1 DEF GetExisting, GetNew
  <2> QED
    BY <1>0, <2>1 DEF RequestsHold
<1>2. ASSUME NEW q \in Procs, Allow(q) PROVE holds'[p] # 0
  BY <1>0, <1>2 DEF Allow, RequestsHold
<1>3. CASE evictIdleLimiters \/ Tick \/ UNCHANGED vars
  BY <1>3 DEF evictIdleLimiters, Tick, vars, request, RequestsHold
<1> QED
  BY <1>1, <1>2, <1>3 DEF Next

\* Allow on the bucket in hand: a token for a request let through, late unless
\* the bucket is still the client's.
LEMMA AllowTakes ==
  ASSUME TypeOK, RequestsHold, NEW p \in Procs, Allow(p)
  PROVE  /\ pc[p] \in IPs /\ holds[p] \in Buckets
         /\ \A b \in Buckets : tokens'[b] <= tokens[b]
         /\ \A ip \in IPs :
              \/ Taken(ip)' = Taken(ip)
              \/ /\ ip = pc[p] /\ rateLimiters[ip] = holds[p]
                 /\ Taken(ip)' = Taken(ip) + 1 /\ tokens'[holds[p]] = tokens[holds[p]] - 1
<1>0. /\ pc[p] \in IPs /\ holds[p] \in Buckets /\ tokens \in [Buckets -> 0 .. Burst]
      /\ allowed \in [IPs -> Nat] /\ late \in [IPs -> Nat]
  BY Constants DEF Allow, TypeOK, RequestsHold
<1>1. \A b \in Buckets : tokens[b] \in Nat
  BY <1>0, Constants
<1>2. CASE tokens[holds[p]] > 0
  <2>1. /\ tokens' = [tokens EXCEPT ![holds[p]] = @ - 1] /\ allowed' = [allowed EXCEPT ![pc[p]] = @ + 1]
        /\ late' = IF rateLimiters[pc[p]] = holds[p] THEN late ELSE [late EXCEPT ![pc[p]] = @ + 1]
    BY <1>2 DEF Allow
  <2>2. tokens'[holds[p]] = tokens[holds[p]] - 1 /\ \A b \in Buckets : tokens'[b] <= tokens[b]
    BY <1>0, <1>1, <2>1
  <2>3. \A ip \in IPs : ip # pc[p] => allowed'[ip] = allowed[ip] /\ late'[ip] = late[ip]
    BY <1>0, <2>1
  <2>4. allowed'[pc[p]] = allowed[pc[p]] + 1
    BY <1>0, <2>1
  <2>5. rateLimiters[pc[p]] # holds[p] => late'[pc[p]] = late[pc[p]] + 1
    BY <1>0, <2>1
  <2>6. rateLimiters[pc[p]] = holds[p] => late' = late
    BY <2>1
  <2>7. allowed[pc[p]] \in Nat /\ late[pc[p]] \in Nat
    BY <1>0
  <2>8. ASSUME NEW ip \in IPs, ip = pc[p], rateLimiters[ip] # holds[p] PROVE Taken(ip)' = Taken(ip)
    BY <2>4, <2>5, <2>7, <2>8 DEF Taken
  <2>9. ASSUME NEW ip \in IPs, ip = pc[p], rateLimiters[ip] = holds[p] PROVE Taken(ip)' = Taken(ip) + 1
    BY <2>4, <2>6, <2>7, <2>9 DEF Taken
  <2>10. ASSUME NEW ip \in IPs, ip # pc[p] PROVE Taken(ip)' = Taken(ip)
    BY <2>3, <2>10 DEF Taken
  <2> QED
    BY <1>0, <2>2, <2>8, <2>9, <2>10
<1>3. CASE ~(tokens[holds[p]] > 0)
  <2>1. tokens' = tokens /\ allowed' = allowed /\ late' = late
    BY <1>3 DEF Allow
  <2>2. \A ip \in IPs : Taken(ip)' = Taken(ip)
    BY <2>1 DEF Taken
  <2> QED
    BY <1>0, <1>1, <2>1, <2>2
<1> QED
  BY <1>2, <1>3

LEMMA StepTokensInShare == Inv /\ [Next]_vars => TokensInShare'
<1> SUFFICES ASSUME Inv, [Next]_vars, NEW ip \in IPs
             PROVE  /\ rateLimiters'[ip] # 0 => Taken(ip)' + tokens'[rateLimiters'[ip]] <= Share(ip, now)'
                    /\ rateLimiters'[ip] = 0 => Taken(ip)' + Burst <= Share(ip, now)'
  BY DEF TokensInShare, Burst
<1>0. TypeOK /\ ListInv /\ MapPointsIntoList /\ CapKept /\ RequestsHold /\ TokensInShare /\ QuietSinceLastUse
  BY DEF Inv, LRUInv
<1>1. /\ Taken(ip) \in Int /\ evicted[ip] \in Nat /\ rateLimiters[ip] \in 0 .. MaxBuckets
      /\ rateLimiters[ip] # 0 => rateLimiters[ip] \in Buckets /\ tokens[rateLimiters[ip]] \in 0 .. Burst
      /\ Share(ip, now) \in Nat
  BY <1>0, ClientNumbers
<1>2. /\ rateLimiters[ip] # 0 => Taken(ip) + tokens[rateLimiters[ip]] <= Share(ip, now)
      /\ rateLimiters[ip] = 0 => Taken(ip) + Burst <= Share(ip, now)
  BY <1>0 DEF TokensInShare
<1>3. Burst \in Nat /\ now \in Nat /\ (rateLimiters[ip] # 0 => tokens[rateLimiters[ip]] \in Nat /\ tokens[rateLimiters[ip]] <= Burst)
  BY <1>0, <1>1, Constants, TokenNumbers DEF TypeOK
<1>4. ASSUME NEW p \in Procs, NEW x \in IPs, GetExisting(p, x)
      PROVE  /\ rateLimiters'[ip] # 0 => Taken(ip)' + tokens'[rateLimiters'[ip]] <= Share(ip, now)'
             /\ rateLimiters'[ip] = 0 => Taken(ip)' + Burst <= Share(ip, now)'
  <2>1. rateLimiters' = rateLimiters /\ tokens' = tokens /\ now' = now /\ allowed' = allowed /\ late' = late /\ evicted' = evicted
    BY <1>4 DEF GetExisting, counts
  <2>2. Taken(ip)' = Taken(ip) /\ Share(ip, now)' = Share(ip, now)
    BY <2>1 DEF Taken, Share, Quota, Burst
  <2> QED
    BY <1>2, <2>1, <2>2
<1>5. ASSUME NEW p \in Procs, NEW x \in IPs, GetNew(p, x)
      PROVE  /\ rateLimiters'[ip] # 0 => Taken(ip)' + tokens'[rateLimiters'[ip]] <= Share(ip, now)'
             /\ rateLimiters'[ip] = 0 => Taken(ip)' + Burst <= Share(ip, now)'
  <2>1. /\ rateLimiters[x] = 0 /\ tokens' = [tokens EXCEPT ![created + 1] = Burst] /\ now' = now
        /\ allowed' = allowed /\ late' = late /\ created \in Nat /\ created + 1 \in Buckets
    BY <1>0, <1>5, Constants DEF GetNew, TypeOK, Buckets
  <2>2. /\ rateLimiters'[x] = created + 1 /\ evicted'[x] = evicted[x]
        /\ ip # x => \/ rateLimiters'[ip] = rateLimiters[ip] /\ evicted'[ip] = evicted[ip]
                     \/ rateLimiters[ip] # 0 /\ rateLimiters'[ip] = 0 /\ evicted'[ip] = evicted[ip] + 1
    BY <1>0, <1>5, NewList
  <2>3. Taken(ip)' = Taken(ip)
    BY <2>1 DEF Taken
  <2>4. Share(ip, now)' = Quota(evicted'[ip], now)
    BY <2>1 DEF Share, Quota, Burst
  <2>5. CASE ip = x
    <3>1. Share(ip, now)' = Share(ip, now)
      BY <2>2, <2>4, <2>5 DEF Share
    <3>2. tokens'[created + 1] = Burst
      BY <1>0, <2>1 DEF TypeOK
    <3> QED
      BY <1>2, <2>1, <2>2, <2>3, <2>5, <3>1, <3>2
  <2>6. CASE ip # x /\ rateLimiters'[ip] = rateLimiters[ip] /\ evicted'[ip] = evicted[ip]
    <3>1. Share(ip, now)' = Share(ip, now)
      BY <2>4, <2>6 DEF Share
    <3>2. ASSUME rateLimiters[ip] # 0 PROVE tokens'[rateLimiters[ip]] = tokens[rateLimiters[ip]]
      <4>1. PICK i \in 1 .. Len(rateLRU) : rateLRU[i].ip = ip
        BY <1>0, <3>2 DEF MapPointsIntoList
      <4>2. rateLRU[i].bucket = rateLimiters[ip] /\ rateLRU[i].bucket <= created
        BY <1>0, <4>1 DEF MapPointsIntoList, ListInv, ElementsOfThePast
      <4>3. rateLimiters[ip] # created + 1
        BY <1>1, <2>1, <4>2, Constants
      <4> QED
        BY <1>0, <1>1, <2>1, <3>2, <4>3 DEF TypeOK
    <3> QED
      BY <1>2, <2>3, <2>6, <3>1, <3>2
  <2>7. CASE ip # x /\ rateLimiters[ip] # 0 /\ rateLimiters'[ip] = 0 /\ evicted'[ip] = evicted[ip] + 1
    <3>1. Share(ip, now)' = Share(ip, now) + Burst
      BY <1>1, <1>3, <2>4, <2>7, QuotaGrows DEF Share
    <3>2. Taken(ip) <= Share(ip, now)
      BY <1>1, <1>2, <1>3, <2>7
    <3> QED
      BY <1>1, <1>3, <2>3, <2>7, <3>1, <3>2
  <2> QED
    BY <2>2, <2>5, <2>6, <2>7
<1>6. ASSUME NEW p \in Procs, Allow(p)
      PROVE  /\ rateLimiters'[ip] # 0 => Taken(ip)' + tokens'[rateLimiters'[ip]] <= Share(ip, now)'
             /\ rateLimiters'[ip] = 0 => Taken(ip)' + Burst <= Share(ip, now)'
  <2>1. rateLimiters' = rateLimiters /\ now' = now /\ evicted' = evicted
    BY <1>6 DEF Allow, lru
  <2>2. Share(ip, now)' = Share(ip, now)
    BY <2>1 DEF Share, Quota, Burst
  <2>3. /\ pc[p] \in IPs /\ holds[p] \in Buckets
        /\ \A b \in Buckets : tokens'[b] <= tokens[b]
        /\ \/ Taken(ip)' = Taken(ip)
           \/ /\ ip = pc[p] /\ rateLimiters[ip] = holds[p]
              /\ Taken(ip)' = Taken(ip) + 1 /\ tokens'[holds[p]] = tokens[holds[p]] - 1
    BY <1>0, <1>6, AllowTakes
  <2>4. holds[p] # 0
    BY <2>3 DEF Buckets
  <2>5. ASSUME rateLimiters[ip] # 0, Taken(ip)' = Taken(ip)
        PROVE  Taken(ip) + tokens'[rateLimiters[ip]] <= Share(ip, now)
    <3>1. tokens'[rateLimiters[ip]] <= tokens[rateLimiters[ip]] /\ tokens[rateLimiters[ip]] \in Nat
      BY <1>1, <1>3, <2>3, <2>5
    <3>2. tokens'[rateLimiters[ip]] \in Int
      <4>1. TypeOK'
        BY StepLRUInv DEF Inv, LRUInv
      <4>2. tokens'[rateLimiters[ip]] \in 0 .. Burst
        BY <1>1, <2>5, <4>1 DEF TypeOK, Burst, Buckets
      <4> QED
        BY <4>2, TokenNumbers
    <3> QED
      BY <1>1, <1>2, <2>5, <3>1, <3>2
  <2>6. CASE Taken(ip)' = Taken(ip)
    BY <1>2, <2>1, <2>2, <2>5, <2>6
  <2>7. CASE Taken(ip)' # Taken(ip)
    <3>1. ip = pc[p] /\ rateLimiters[ip] = holds[p] /\ Taken(ip)' = Taken(ip) + 1 /\ tokens'[holds[p]] = tokens[holds[p]] - 1
      BY <2>3, <2>7
    <3> QED
      BY <1>1, <1>2, <1>3, <2>1, <2>2, <2>4, <3>1
  <2> QED
    BY <2>6, <2>7
<1>7. ASSUME evictIdleLimiters
      PROVE  /\ rateLimiters'[ip] # 0 => Taken(ip)' + tokens'[rateLimiters'[ip]] <= Share(ip, now)'
             /\ rateLimiters'[ip] = 0 => Taken(ip)' + Burst <= Share(ip, now)'
  <2>1. tokens' = tokens /\ now' = now /\ allowed' = allowed /\ late' = late /\ evicted' = evicted
    BY <1>7 DEF evictIdleLimiters, counts
  <2>2. Taken(ip)' = Taken(ip) /\ Share(ip, now)' = Share(ip, now)
    BY <2>1 DEF Taken, Share, Quota, Burst
  <2>3. \/ rateLimiters'[ip] = rateLimiters[ip]
        \/ /\ rateLimiters'[ip] = 0
           /\ \E j \in 1 .. Len(rateLRU) : rateLRU[j].ip = ip /\ rateLRU[j].lastUse <= Cutoff
    BY <1>0, <1>7, SweptList
  <2>4. CASE rateLimiters'[ip] = rateLimiters[ip]
    BY <1>2, <2>1, <2>2, <2>4
  <2>5. ASSUME rateLimiters'[ip] = 0, NEW j \in 1 .. Len(rateLRU), rateLRU[j].ip = ip, rateLRU[j].lastUse <= Cutoff
        PROVE  Taken(ip) + Burst <= Share(ip, now)
    <3>1. rateLRU[j] \in Entries
      BY <1>0, LenProperties DEF TypeOK
    <3>2. rateLRU[j].lastUse \in Nat
      BY <3>1 DEF Entries
    <3> DEFINE use == rateLRU[j].lastUse
               C == Cardinality(InHand(ip, rateLRU[j].bucket))
    <3>3. Taken(ip) + C <= Share(ip, use) + Cardinality(Procs)
      BY <1>0, <2>5 DEF QuietSinceLastUse, Quiet
    <3>4. IsFiniteSet(Procs) /\ InHand(ip, rateLRU[j].bucket) \in SUBSET Procs
      BY LimiterAssumption DEF InHand
    <3>5. C \in Nat /\ Cardinality(Procs) \in Nat
      BY <3>4, FS_Subset, FS_CardinalityType
    <3>6. Share(ip, use) + Cardinality(Procs) + Burst <= Share(ip, now)
      BY <1>1, <1>3, <2>5, <3>2, QuotaOfIdling DEF Share, Cutoff
    <3>7. Share(ip, use) \in Nat
      BY <1>1, <3>2, QuotaType DEF Share
    <3> HIDE DEF use, C
    <3> QED
      BY <1>1, <1>3, <3>3, <3>5, <3>6, <3>7
  <2> QED
    BY <2>2, <2>3, <2>4, <2>5
<1>8. ASSUME Tick
      PROVE  /\ rateLimiters'[ip] # 0 => Taken(ip)' + tokens'[rateLimiters'[ip]] <= Share(ip, now)'
             /\ rateLimiters'[ip] = 0 => Taken(ip)' + Burst <= Share(ip, now)'
  <2>1. rateLimiters' = rateLimiters /\ now' = now + 1 /\ allowed' = allowed /\ late' = late /\ evicted' = evicted
    BY <1>8 DEF Tick, lru, counts
  <2>2. Taken(ip)' = Taken(ip)
    BY <2>1 DEF Taken
  <2>3. Share(ip, now)' = Share(ip, now) + RateLimitPerSec
    <3>1. Share(ip, now)' = Quota(evicted[ip], now + 1)
      BY <2>1 DEF Share, Quota, Burst
    <3> QED
      BY <1>1, <1>3, <3>1, QuotaGrows DEF Share
  <2>4. ASSUME rateLimiters[ip] # 0 PROVE tokens'[rateLimiters[ip]] <= tokens[rateLimiters[ip]] + RateLimitPerSec /\ tokens'[rateLimiters[ip]] \in Nat
    BY <1>1, <1>3, <1>8, <2>4, Constants DEF Tick
  <2> QED
    BY <1>1, <1>2, <1>3, <2>1, <2>2, <2>3, <2>4, Constants
<1>9. ASSUME UNCHANGED vars
      PROVE  /\ rateLimiters'[ip] # 0 => Taken(ip)' + tokens'[rateLimiters'[ip]] <= Share(ip, now)'
             /\ rateLimiters'[ip] = 0 => Taken(ip)' + Burst <= Share(ip, now)'
  <2>1. rateLimiters' = rateLimiters /\ tokens' = tokens /\ now' = now /\ allowed' = allowed /\ late' = late /\ evicted' = evicted
    BY <1>9 DEF vars, lru, counts
  <2>2. Taken(ip)' = Taken(ip) /\ Share(ip, now)' = Share(ip, now)
    BY <2>1 DEF Taken, Share, Quota, Burst
  <2> QED
    BY <1>2, <2>1, <2>2
<1> QED
  BY <1>4, <1>5, <1>6, <1>7, <1>8, <1>9 DEF Next

\* A client whose requests in hand, count and evictions stay is as quiet as before.
LEMMA QuietStays ==
  ASSUME NEW ip, NEW b, NEW use, Quiet(ip, b, use), InHand(ip, b)' = InHand(ip, b), Taken(ip)' = Taken(ip),
         evicted'[ip] = evicted[ip]
  PROVE  Quiet(ip, b, use)'
BY DEF Quiet, Share, Quota, Burst

\* At its use an entry is quiet: its client is within its share, and no more
\* requests than there are have its bucket in hand.
LEMMA QuietAtUse ==
  ASSUME TypeOK', NEW ip \in IPs, NEW b, Taken(ip)' <= Share(ip, now)'
  PROVE  Taken(ip)' + Cardinality(InHand(ip, b)') <= Share(ip, now)' + Cardinality(Procs)
<1>1. IsFiniteSet(Procs) /\ InHand(ip, b)' \in SUBSET Procs
  BY LimiterAssumption DEF InHand
<1>2. /\ Cardinality(InHand(ip, b)') \in Nat /\ Cardinality(Procs) \in Nat
      /\ Cardinality(InHand(ip, b)') <= Cardinality(Procs)
  BY <1>1, FS_Subset, FS_CardinalityType
<1>3. allowed'[ip] \in Nat /\ late'[ip] \in Nat /\ evicted'[ip] \in Nat /\ now' \in Nat
  BY DEF TypeOK
<1>4. Taken(ip)' \in Int
  BY <1>3 DEF Taken
<1>5. Share(ip, now)' \in Nat
  BY <1>3, QuotaType DEF Share, Quota, Burst
<1> QED
  BY <1>2, <1>4, <1>5

LEMMA RemovedCount ==
  ASSUME NEW S, NEW T, NEW x, IsFiniteSet(S), T = S \ {x}
  PROVE  Cardinality(T) = IF x \in S THEN Cardinality(S) - 1 ELSE Cardinality(S)
BY FS_RemoveElement

LEMMA EntryAt ==
  ASSUME NEW s \in Seq(Entries), NEW i \in 1 .. Len(s)
  PROVE  s[i] \in Entries /\ s[i].ip \in IPs /\ s[i].lastUse \in Nat
<1>1. s[i] \in Entries
  BY LenProperties
<1> QED
  BY <1>1 DEF Entries

LEMMA StepQuiet == Inv /\ TypeOK' /\ TokensInShare' /\ [Next]_vars => QuietSinceLastUse'
<1> SUFFICES ASSUME Inv, TypeOK', TokensInShare', [Next]_vars, NEW i \in 1 .. Len(rateLRU'),
                    NEW ip, NEW b, NEW use,
                    ip = rateLRU'[i].ip, b = rateLRU'[i].bucket, use = rateLRU'[i].lastUse
             PROVE  Quiet(ip, b, use)'
  BY DEF QuietSinceLastUse, Quiet, Taken, InHand, Share
<1>0. /\ TypeOK /\ ListInv /\ MapPointsIntoList /\ CapKept /\ RequestsHold /\ QuietSinceLastUse
      /\ pc \in [Procs -> IPs \cup {NoIP}] /\ holds \in [Procs -> 0 .. MaxBuckets] /\ NoIP \notin IPs
  BY LimiterAssumption DEF Inv, LRUInv, TypeOK
<1>1. ip \in IPs /\ use \in Nat
  <2>1. rateLRU' \in Seq(Entries)
    BY DEF TypeOK, Entries, Buckets
  <2> QED
    BY <2>1, EntryAt
\* An entry just used.
<1>2. ASSUME use = now', now' = now PROVE Quiet(ip, b, use)'
  <2>1. Taken(ip)' <= Share(ip, now)'
    <3>1. /\ rateLimiters'[ip] # 0 => Taken(ip)' + tokens'[rateLimiters'[ip]] <= Share(ip, now)'
          /\ rateLimiters'[ip] = 0 => Taken(ip)' + Burst <= Share(ip, now)'
      BY <1>1 DEF TokensInShare, Burst
    <3>2. /\ allowed'[ip] \in Nat /\ late'[ip] \in Nat /\ evicted'[ip] \in Nat /\ now' \in Nat
          /\ rateLimiters'[ip] \in 0 .. MaxBuckets /\ tokens' \in [Buckets -> 0 .. Burst]
      BY <1>1 DEF TypeOK, Buckets, Burst
    <3>3. Taken(ip)' \in Int
      BY <3>2 DEF Taken
    <3>4. Share(ip, now)' \in Nat
      BY <3>2, QuotaType DEF Share, Quota, Burst
    <3>5. rateLimiters'[ip] # 0 => tokens'[rateLimiters'[ip]] \in Nat
      BY <3>2, Constants
    <3> QED
      BY <3>1, <3>3, <3>4, <3>5, Constants
  <2>2. Taken(ip)' + Cardinality(InHand(ip, b)') <= Share(ip, now)' + Cardinality(Procs)
    BY <1>1, <2>1, QuietAtUse
  <2>3. Share(ip, now)' = Share(ip, use)'
    BY <1>2 DEF Share
  <2> QED
    BY <2>2, <2>3 DEF Quiet
\* An entry that was there.
<1>3. ASSUME NEW j \in 1 .. Len(rateLRU), rateLRU'[i] = rateLRU[j] PROVE Quiet(ip, b, use) /\ rateLimiters[ip] = b
  BY <1>0, <1>3 DEF QuietSinceLastUse, MapPointsIntoList
<1>4. ASSUME NEW p \in Procs, NEW x \in IPs, GetExisting(p, x) PROVE Quiet(ip, b, use)'
  <2>1. now' = now /\ allowed' = allowed /\ late' = late /\ evicted' = evicted /\ pc[p] = NoIP
    BY <1>4 DEF GetExisting, counts
  <2>2. \/ rateLRU'[i] = Entry(x, rateLimiters[x])
        \/ rateLRU'[i].ip # x /\ \E j \in 1 .. Len(rateLRU) : rateLRU'[i] = rateLRU[j]
    BY <1>0, <1>4, ExistingList
  <2>3. CASE rateLRU'[i] = Entry(x, rateLimiters[x])
    BY <1>2, <2>1, <2>3 DEF Entry
  <2>4. CASE rateLRU'[i].ip # x /\ \E j \in 1 .. Len(rateLRU) : rateLRU'[i] = rateLRU[j]
    <3>1. Quiet(ip, b, use) /\ ip # x
      BY <1>3, <2>4
    <3>2. pc' = [pc EXCEPT ![p] = x] /\ \A q \in Procs : q # p => holds'[q] = holds[q]
      BY <1>0, <1>4 DEF GetExisting
    <3>3. InHand(ip, b)' = InHand(ip, b)
      BY <1>0, <1>1, <2>1, <3>1, <3>2 DEF InHand
    <3>4. Taken(ip)' = Taken(ip)
      BY <2>1 DEF Taken
    <3> QED
      BY <2>1, <3>1, <3>3, <3>4, QuietStays
  <2> QED
    BY <2>2, <2>3, <2>4
<1>5. ASSUME NEW p \in Procs, NEW x \in IPs, GetNew(p, x) PROVE Quiet(ip, b, use)'
  <2>1. now' = now /\ allowed' = allowed /\ late' = late /\ pc[p] = NoIP
    BY <1>5 DEF GetNew
  <2>2. \/ rateLRU'[i] = Entry(x, created + 1)
        \/ /\ rateLRU'[i].ip # x /\ evicted'[rateLRU'[i].ip] = evicted[rateLRU'[i].ip]
           /\ \E j \in 1 .. Len(rateLRU) : rateLRU'[i] = rateLRU[j]
    BY <1>0, <1>5, NewList
  <2>3. CASE rateLRU'[i] = Entry(x, created + 1)
    BY <1>2, <2>1, <2>3 DEF Entry
  <2>4. CASE /\ rateLRU'[i].ip # x /\ evicted'[rateLRU'[i].ip] = evicted[rateLRU'[i].ip]
             /\ \E j \in 1 .. Len(rateLRU) : rateLRU'[i] = rateLRU[j]
    <3>1. Quiet(ip, b, use) /\ ip # x /\ evicted'[ip] = evicted[ip]
      BY <1>3, <2>4
    <3>2. pc' = [pc EXCEPT ![p] = x] /\ \A q \in Procs : q # p => holds'[q] = holds[q]
      BY <1>0, <1>5 DEF GetNew
    <3>3. InHand(ip, b)' = InHand(ip, b)
      BY <1>0, <1>1, <2>1, <3>1, <3>2 DEF InHand
    <3>4. Taken(ip)' = Taken(ip)
      BY <2>1 DEF Taken
    <3> QED
      BY <3>1, <3>3, <3>4, QuietStays
  <2> QED
    BY <2>2, <2>3, <2>4
<1>6. ASSUME NEW p \in Procs, Allow(p) PROVE Quiet(ip, b, use)'
  <2>1. rateLRU' = rateLRU /\ evicted' = evicted /\ pc' = [pc EXCEPT ![p] = NoIP] /\ holds' = [holds EXCEPT ![p] = 0]
    BY <1>6 DEF Allow, lru
  <2>2. Quiet(ip, b, use) /\ rateLimiters[ip] = b
    BY <1>3, <2>1
  <2>3. \/ Taken(ip)' = Taken(ip)
        \/ ip = pc[p] /\ rateLimiters[ip] = holds[p] /\ Taken(ip)' = Taken(ip) + 1
    BY <1>0, <1>1, <1>6, AllowTakes
  <2>4. InHand(ip, b)' = InHand(ip, b) \ {p}
    BY <1>0, <1>1, <2>1 DEF InHand
  <2>5. IsFiniteSet(Procs) /\ InHand(ip, b) \in SUBSET Procs
    BY LimiterAssumption DEF InHand
  <2>6. IsFiniteSet(InHand(ip, b)) /\ Cardinality(InHand(ip, b)) \in Nat /\ Cardinality(Procs) \in Nat
    BY <2>5, FS_Subset, FS_CardinalityType
  <2>7. Cardinality(InHand(ip, b)') = IF p \in InHand(ip, b) THEN Cardinality(InHand(ip, b)) - 1 ELSE Cardinality(InHand(ip, b))
    BY <2>4, <2>6, RemovedCount
  <2>8. Taken(ip)' # Taken(ip) => p \in InHand(ip, b) /\ Taken(ip)' = Taken(ip) + 1
    BY <2>2, <2>3 DEF InHand
  <2>9. Share(ip, use)' = Share(ip, use)
    BY <2>1 DEF Share, Quota, Burst
  <2>10. Taken(ip) \in Int /\ Share(ip, use) \in Int
    <3>1. evicted[ip] \in Nat /\ Taken(ip) \in Int
      BY <1>0, <1>1, ClientNumbers
    <3>2. Quota(evicted[ip], use) \in Nat
      BY <1>1, <3>1, QuotaType
    <3> QED
      BY <3>1, <3>2 DEF Share
  <2>11. Taken(ip) + Cardinality(InHand(ip, b)) <= Share(ip, use) + Cardinality(Procs)
    BY <2>2 DEF Quiet
  <2>12. Taken(ip)' + Cardinality(InHand(ip, b)') <= Share(ip, use)' + Cardinality(Procs)
    <3>1. CASE p \in InHand(ip, b)
      BY <2>6, <2>7, <2>8, <2>9, <2>10, <2>11, <3>1
    <3>2. CASE p \notin InHand(ip, b)
      BY <2>6, <2>7, <2>8, <2>9, <2>10, <2>11, <3>2
    <3> QED
      BY <3>1, <3>2
  <2> QED
    BY <2>12 DEF Quiet
<1>7. CASE evictIdleLimiters
  <2>1. allowed' = allowed /\ late' = late /\ evicted' = evicted /\ pc' = pc /\ holds' = holds
    BY <1>7 DEF evictIdleLimiters, counts, request
  <2>2. Quiet(ip, b, use)
    BY <1>0, <1>3, <1>7, SweptList
  <2>3. InHand(ip, b)' = InHand(ip, b) /\ Taken(ip)' = Taken(ip)
    BY <2>1 DEF InHand, Taken
  <2> QED
    BY <2>1, <2>2, <2>3, QuietStays
<1>8. CASE Tick \/ UNCHANGED vars
  <2>1. rateLRU' = rateLRU /\ allowed' = allowed /\ late' = late /\ evicted' = evicted /\ pc' = pc /\ holds' = holds
    BY <1>8 DEF Tick, vars, lru, counts, request
  <2>2. Quiet(ip, b, use)
    BY <1>3, <2>1
  <2>3. InHand(ip, b)' = InHand(ip, b) /\ Taken(ip)' = Taken(ip)
    BY <2>1 DEF InHand, Taken
  <2> QED
    BY <2>1, <2>2, <2>3, QuietStays
<1> QED
  BY <1>4, <1>5, <1>6, <1>7, <1>8 DEF Next

LEMMA Invariant == Spec => []Inv
<1>1. Inv /\ [Next]_vars => Inv'
  <2> SUFFICES ASSUME Inv, [Next]_vars PROVE Inv'
    OBVIOUS
  <2>1. LRUInv' /\ RequestsHold'
    BY StepLRUInv, StepRequestsHold DEF Inv
  <2>2. TokensInShare'
    BY StepTokensInShare
  <2>3. QuietSinceLastUse'
    BY <2>1, <2>2, StepQuiet DEF LRUInv
  <2> QED
    BY <2>1, <2>2, <2>3 DEF Inv
<1> QED
  BY InitInv, <1>1, PTL DEF Spec

-----------------------------------------------------------------------------

\* getLimiter and the sweep keep the list in the order of last use, so that the
\* sweep may stop at the first entry that is not idle.
THEOREM IdleEntriesLast == Spec => []IdleAtTheBack
<1>1. Inv => IdleAtTheBack
  BY DEF Inv, LRUInv, ListInv
<1> QED
  BY Invariant, <1>1, PTL

\* The map and the list of getLimiter, its eviction and the sweep hold the same
\* clients, each with the bucket its element has, and never more than the cap.
THEOREM MapAndListAgree == Spec => []MapMatchesList
<1>1. ASSUME Inv PROVE MapMatchesList
  <2> DEFINE N == Len(rateLRU)
             Mapped == {ip \in IPs : rateLimiters[ip] # 0}
             f == [i \in 1 .. N |-> rateLRU[i].ip]
  <2>0. /\ N \in Nat /\ \A i \in 1 .. N : rateLRU[i] \in Entries
        /\ ElementsDistinct /\ MapPointsIntoList /\ CapKept
    BY <1>1, LenProperties DEF Inv, LRUInv, TypeOK, ListInv
  <2>1. \A i \in 1 .. N : rateLRU[i].ip \in IPs /\ rateLRU[i].bucket # 0
    BY <2>0 DEF Entries, Buckets
  <2>2. \A i \in 1 .. N : rateLRU[i].ip \in Mapped
    BY <2>0, <2>1 DEF MapPointsIntoList
  <2>3. \A ip \in Mapped : \E i \in 1 .. N : rateLRU[i].ip = ip
    BY <2>0 DEF MapPointsIntoList
  <2>4. \A i, j \in 1 .. N : i # j => rateLRU[i].ip # rateLRU[j].ip
    BY <2>0 DEF ElementsDistinct
  <2> HIDE DEF N, Mapped
  <2>5. f \in Bijection(1 .. N, Mapped)
    BY <2>2, <2>3, <2>4 DEF Bijection, Injection, Surjection, IsInjective
  <2>6. IsFiniteSet(1 .. N) /\ Cardinality(1 .. N) = N
    BY <2>0, FS_Interval
  <2>7. ExistsBijection(1 .. N, Mapped)
    BY <2>5 DEF ExistsBijection
  <2>8. Cardinality(Mapped) = N
    BY <2>6, <2>7, FS_Bijection
  <2> QED
    BY <2>0, <2>4, <2>8 DEF MapMatchesList, MapPointsIntoList, CapKept, N, Mapped
<1> QED
  BY Invariant, <1>1, PTL

\* No client gets more through Allow than one bucket would give it since the
\* start and a burst for each time the cap pushed it out: the sweep forgets a
\* bucket only when it would have been full again, with every request that
\* still has it in hand counted.
THEOREM RateHolds == Spec => []RateKept
<1>1. ASSUME Inv PROVE RateKept
  <2> SUFFICES ASSUME NEW ip \in IPs PROVE Taken(ip) <= Share(ip, now)
    BY DEF RateKept, Taken, Share, Quota
  <2>1. TypeOK /\ TokensInShare
    BY <1>1 DEF Inv, LRUInv
  <2>2. /\ Taken(ip) \in Int /\ Share(ip, now) \in Nat
        /\ rateLimiters[ip] # 0 => tokens[rateLimiters[ip]] \in 0 .. Burst
    BY <2>1, ClientNumbers
  <2>3. rateLimiters[ip] # 0 => tokens[rateLimiters[ip]] \in Nat
    BY <2>2, TokenNumbers
  <2> QED
    BY <2>1, <2>2, <2>3, Constants DEF TokensInShare
<1> QED
  BY Invariant, <1>1, PTL
=============================================================================
