------------------------- MODULE ProductQuery_proofs -------------------------
(* Theorems about ProductQuery, for every value of its constants.          *)
EXTENDS ProductQuery, FiniteSetTheorems, TLAPS

-----------------------------------------------------------------------------
(* Pages *)

\* Whatever the client asks for and the budget leaves, a page has room for a row.
LEMMA RoomForOne ==
  ASSUME NEW f \in Filters, NEW left \in Allowances
  PROVE  reserve(EffectiveLimit(f.limit), left) \in Nat \ {0}
<1>1. f.limit \in Int /\ left \in Int /\ MaxProductLimit \in Nat \ {0}
  BY QueryAssumption
<1>2. EffectiveLimit(f.limit) \in Nat \ {0}
  BY <1>1 DEF EffectiveLimit
<1> QED BY <1>1, <1>2 DEF reserve

\* A set of hashes that is not empty has a least one.
LEMMA LeastExists ==
  ASSUME NEW S \in SUBSET Nat, S # {}
  PROVE  \E p \in S : \A q \in S : p <= q
<1> DEFINE R == OpToRel(<, Nat)
<1>1. \A x, y \in Nat : x < y => <<x, y>> \in R
  BY Zenon DEF OpToRel
<1>2. IsWellFoundedOn(R, Nat)
  BY NatLessThanWellFounded
<1> HIDE DEF R
<1>3. PICK p \in S : \A q \in S : <<q, p>> \notin R
  BY <1>2, WFMin
<1>4. ASSUME NEW q \in S PROVE p <= q
  <2>1. ~(q < p) BY <1>1, <1>3
  <2>2. p \in Nat /\ q \in Nat OBVIOUS
  <2> QED BY <2>1, <2>2
<1> QED BY <1>4

\* A row that comes earlier has no higher rank.
LEMMA RankMonotone ==
  ASSUME NEW S \in SUBSET Products, NEW p \in S, NEW q \in S, q < p
  PROVE  Rank(S, q) \in Nat /\ Rank(S, p) \in Nat /\ Rank(S, q) <= Rank(S, p)
<1> DEFINE A == {x \in S : x < q}
           B == {x \in S : x < p}
<1>1. IsFiniteSet(B)
  <2>1. B \in SUBSET Products OBVIOUS
  <2> HIDE DEF B
  <2> QED BY <2>1, QueryAssumption, FS_Subset
<1>2. A \in SUBSET B
  <2>1. \A x \in S : x \in Nat BY QueryAssumption
  <2> QED BY <2>1
<1> HIDE DEF A, B
<1>3. IsFiniteSet(A) /\ Cardinality(A) <= Cardinality(B)
  BY <1>1, <1>2, FS_Subset
<1>4. Cardinality(A) \in Nat /\ Cardinality(B) \in Nat
  BY <1>1, <1>3, FS_CardinalityType
<1> QED BY <1>3, <1>4 DEF Rank, A, B

\* A page from the front is a prefix, and empty only if there is nothing.
LEMMA FrontPage ==
  ASSUME NEW S \in SUBSET Products, NEW n \in Nat \ {0}
  PROVE  /\ Limit(S, 0, n) \subseteq S
         /\ \A p \in Limit(S, 0, n), q \in S : q < p => q \in Limit(S, 0, n)
         /\ Limit(S, 0, n) = {} => S = {}
<1>1. Limit(S, 0, n) \subseteq S
  BY DEF Limit
<1>2. ASSUME NEW p \in Limit(S, 0, n), NEW q \in S, q < p PROVE q \in Limit(S, 0, n)
  <2>1. p \in S /\ Rank(S, p) < n BY DEF Limit
  <2>2. Rank(S, q) \in Nat /\ Rank(S, p) \in Nat /\ Rank(S, q) <= Rank(S, p)
    BY <1>2, <2>1, RankMonotone
  <2> QED BY <2>1, <2>2 DEF Limit
<1>3. ASSUME S # {} PROVE Limit(S, 0, n) # {}
  <2>1. S \in SUBSET Nat BY QueryAssumption
  <2>2. PICK p \in S : \A q \in S : p <= q BY <1>3, <2>1, LeastExists
  <2>3. {q \in S : q < p} = {}
    <3>1. ASSUME NEW q \in S, q < p PROVE FALSE
      <4>1. p <= q /\ p \in Nat /\ q \in Nat BY <2>1, <2>2
      <4> QED BY <3>1, <4>1
    <3> QED BY <3>1
  <2>4. Rank(S, p) = 0 BY <2>3, FS_EmptySet DEF Rank
  <2> QED BY <2>4 DEF Limit
<1> QED BY <1>1, <1>2, <1>3

\* The first k rows of S.
FirstRows(S, k) == {p \in S : Rank(S, p) < k}

\* Rows that precede every other row of S are those of the lowest ranks.
LEMMA PrefixByRank ==
  ASSUME NEW S \in SUBSET Products, NEW P \in SUBSET S,
         \A p \in P, q \in S : q < p => q \in P
  PROVE  P = FirstRows(S, Cardinality(P))
<1>1. IsFiniteSet(P) /\ Cardinality(P) \in Nat
  BY QueryAssumption, FS_Subset, FS_CardinalityType
<1>2. \A p \in S : p \in Nat
  BY QueryAssumption
<1>3. ASSUME NEW p \in P PROVE Rank(S, p) < Cardinality(P)
  <2> DEFINE B == {q \in S : q < p}
  <2>1. B \in SUBSET P /\ p \notin B
    BY <1>2
  <2> HIDE DEF B
  <2>2. B # P
    BY <2>1
  <2>3. Cardinality(B) \in Nat /\ Cardinality(B) < Cardinality(P)
    BY <1>1, <2>1, <2>2, FS_Subset, FS_CardinalityType
  <2> QED
    BY <2>3 DEF Rank, B
<1>4. ASSUME NEW p \in S, p \notin P PROVE ~(Rank(S, p) < Cardinality(P))
  <2> DEFINE B == {q \in S : q < p}
  <2>1. P \in SUBSET B
    <3>1. ASSUME NEW q \in P PROVE q < p
      <4>1. ~(p < q) /\ p # q
        BY <1>4
      <4> QED
        BY <1>2, <4>1
    <3> QED
      BY <3>1
  <2>2. B \in SUBSET Products
    OBVIOUS
  <2> HIDE DEF B
  <2>3. IsFiniteSet(B) /\ Cardinality(B) \in Nat
    BY <2>2, QueryAssumption, FS_Subset, FS_CardinalityType
  <2>4. Cardinality(P) <= Cardinality(B)
    BY <2>1, <2>3, FS_Subset
  <2> QED
    BY <1>1, <2>3, <2>4 DEF Rank, B
<1> QED
  BY <1>3, <1>4 DEF FirstRows

\* A page that skips the rows of the lowest ranks continues where they end, and is
\* empty only if there is nothing more.
LEMMA NextPage ==
  ASSUME NEW S \in SUBSET Products, NEW k \in Nat, NEW n \in Nat \ {0},
         k = Cardinality(FirstRows(S, k))
  PROVE  /\ FirstRows(S, k) \cup Limit(S, k, n) = FirstRows(S, k + Cardinality(Limit(S, k, n)))
         /\ k + Cardinality(Limit(S, k, n)) = Cardinality(FirstRows(S, k) \cup Limit(S, k, n))
         /\ Limit(S, k, n) = {} => FirstRows(S, k) = S
<1> DEFINE P == FirstRows(S, k)
           page == Limit(S, k, n)
           Q == P \cup page
<1>1. \A p \in S : p \in Nat /\ Rank(S, p) \in Nat
  <2>1. ASSUME NEW p \in S PROVE Rank(S, p) \in Nat
    <3>1. {q \in S : q < p} \in SUBSET Products
      OBVIOUS
    <3>2. IsFiniteSet({q \in S : q < p})
      BY <3>1, QueryAssumption, FS_Subset
    <3> QED
      BY <3>2, FS_CardinalityType DEF Rank
  <2> QED
    BY <2>1, QueryAssumption
<1>2. /\ \A p \in S : p \in P <=> Rank(S, p) < k
      /\ \A p \in S : p \in page <=> k <= Rank(S, p) /\ Rank(S, p) < k + n
  BY DEF Limit, FirstRows
<1>3. page \in SUBSET S /\ P \in SUBSET S
  BY DEF Limit, FirstRows
<1>0. k = Cardinality(P)
  OBVIOUS
<1> HIDE DEF page, P
<1>4. P \cap page = {} /\ \A p \in S : p \in Q <=> Rank(S, p) < k + n
  <2>1. ASSUME NEW p \in P, p \in page PROVE FALSE
    BY <1>1, <1>2, <1>3, <2>1
  <2>2. ASSUME NEW p \in S PROVE p \in Q <=> Rank(S, p) < k + n
    BY <1>1, <1>2, <2>2
  <2> QED
    BY <2>1, <2>2
<1>5. IsFiniteSet(P) /\ IsFiniteSet(page) /\ IsFiniteSet(Q)
  <2>1. P \in SUBSET Products /\ page \in SUBSET Products /\ Q \in SUBSET Products
    BY <1>3
  <2> HIDE DEF Q
  <2> QED
    BY <2>1, QueryAssumption, FS_Subset
<1>6. Cardinality(page) \in Nat /\ Cardinality(Q) = k + Cardinality(page)
  <2>1. Cardinality(P \cup page) = Cardinality(P) + Cardinality(page) - Cardinality(P \cap page)
    BY <1>5, FS_Union
  <2>2. Cardinality(P \cap page) = 0
    BY <1>4, FS_EmptySet
  <2>3. Cardinality(page) \in Nat
    BY <1>5, FS_CardinalityType
  <2> QED
    BY <1>0, <2>1, <2>2, <2>3
<1>7. Q \in SUBSET S
  BY <1>3
<1> HIDE DEF Q
<1>8. ASSUME NEW p \in Q, NEW q \in S, q < p PROVE q \in Q
  <2>1. Rank(S, q) <= Rank(S, p) /\ Rank(S, p) < k + n /\ p \in S
    BY <1>7, <1>4, <1>8, RankMonotone
  <2> QED
    BY <1>1, <1>4, <2>1
<1>9. Q = FirstRows(S, Cardinality(Q))
  BY <1>8, <1>7, PrefixByRank
<1>10. ASSUME page = {}, P # S PROVE FALSE
  <2>1. S \ P \in SUBSET Nat /\ S \ P # {}
    BY <1>1, <1>3, <1>10
  <2>2. PICK p \in S \ P : \A q \in S \ P : p <= q
    BY <2>1, LeastExists
  <2>3. {q \in S : q < p} = P
    <3>1. ASSUME NEW q \in S, q < p PROVE q \in P
      <4>1. q \in S \ P => p <= q
        BY <2>2
      <4> QED
        BY <1>1, <3>1, <4>1
    <3>2. ASSUME NEW q \in P PROVE q < p
      <4>1. p # q /\ q \in S
        BY <1>3
      <4>2. ASSUME p < q PROVE FALSE
        <5>1. Rank(S, p) <= Rank(S, q)
          BY <4>1, <4>2, RankMonotone
        <5>2. Rank(S, q) < k /\ ~(Rank(S, p) < k)
          BY <1>2, <4>1
        <5> QED
          BY <1>1, <4>1, <5>1, <5>2
      <4> QED
        BY <1>1, <4>1, <4>2
    <3> QED
      BY <1>3, <3>1, <3>2
  <2>4. Rank(S, p) = k
    BY <1>0, <2>3 DEF Rank
  <2>5. p \in page
    BY <1>2, <2>4
  <2> QED
    BY <1>10, <2>5
<1> QED
  BY <1>6, <1>9, <1>10 DEF Q, page, P

-----------------------------------------------------------------------------
(* The emulated regexes *)

\* normalizeRegexForPrefix takes the hyphen from the body and leaves the rest.
LEMMA Normalized ==
  ASSUME NEW p \in Regexes, NEW q, q = normalizeRegexForPrefix(p)
  PROVE  /\ q \in Regexes
         /\ q.form = p.form /\ q.long = p.long /\ q.i = p.i /\ q.start = p.start
         /\ q.ahead = p.ahead /\ q.behind = p.behind
         /\ q.body.all = p.body.all /\ q.body.star = p.body.star /\ q.body.word = p.body.word
         /\ q.body.end = p.body.end /\ q.body.dash = FALSE
<1>1. p.body \in Bodies
  BY DEF Regexes
<1>2. q = [p EXCEPT !.body = [p.body EXCEPT !.dash = FALSE]]
  BY DEF normalizeRegexForPrefix
<1>3. [p.body EXCEPT !.dash = FALSE] \in Bodies
  BY <1>1 DEF Bodies
<1> QED
  BY <1>1, <1>2, <1>3 DEF Regexes, Bodies

\* Without its hyphen a body matches wherever it did with it.
LEMMA NormalizedMatches ==
  ASSUME NEW p \in Regexes, NEW q, q = normalizeRegexForPrefix(p), NEW text
  PROVE  Matching(p, text) \subseteq Matching(q, text)
<1>1. /\ q.i = p.i /\ q.start = p.start /\ q.body.dash = FALSE
      /\ q.body.all = p.body.all /\ q.body.star = p.body.star /\ q.body.word = p.body.word
      /\ q.body.end = p.body.end
  BY Normalized
<1>2. ASSUME NEW s, BodyAt(p, text, s) PROVE BodyAt(q, text, s)
  BY <1>1, <1>2 DEF BodyAt, WordAt, Same
<1> QED
  BY <1>1, <1>2 DEF Matching

\* The lookaheads have no part in what a pattern matches.
LEMMA CleanedMatches ==
  ASSUME NEW q \in Regexes, NEW text
  PROVE  /\ Matching([q EXCEPT !.ahead = {}], text) = Matching(q, text)
         /\ [q EXCEPT !.ahead = {}].ahead = {} /\ [q EXCEPT !.ahead = {}].behind = q.behind
<1> DEFINE c == [q EXCEPT !.ahead = {}]
<1>1. c.i = q.i /\ c.start = q.start /\ c.body = q.body /\ c.ahead = {} /\ c.behind = q.behind
  BY DEF Regexes
<1> HIDE DEF c
<1>2. \A s : BodyAt(c, text, s) <=> BodyAt(q, text, s)
  BY <1>1 DEF BodyAt, WordAt, Same
<1>3. Matching(c, text) = Matching(q, text)
  BY <1>1, <1>2 DEF Matching
<1> QED
  BY <1>1, <1>3 DEF c

\* A match of a pattern without lookarounds is all it asks for.
LEMMA PlainDenotes ==
  ASSUME NEW q, NEW text, q.ahead = {}, q.behind = {}, Matching(q, text) # {}
  PROVE  Denotes(q, text)
BY DEF Denotes

\* In the shapes that are emulated, MatchRegexPattern accepts no description that the
\* regex with its lookarounds rejects.
LEMMA EmulationSound ==
  ASSUME NEW p \in Regexes, NEW text \in Texts, NEW q, q = normalizeRegexForPrefix(p),
         Emulated(q), MatchRegexPattern(p, text)
  PROVE  Denotes(q, text)
<1>1. q \in Regexes /\ q.ahead = p.ahead /\ q.behind = p.behind
  BY Normalized
<1>2. CASE MatchString(p, text) \/ MatchString(q, text)
  <2>1. q.ahead = {} /\ q.behind = {} /\ Matching(q, text) # {}
    BY <1>1, <1>2, NormalizedMatches DEF MatchString, Compiles
  <2> QED
    BY <2>1, PlainDenotes
<1>3. CASE q.ahead # {} /\ matchWithNegativeLookahead(q, text)
  <2>1. q.behind = {}
    BY <1>3 DEF Emulated
  <2>2. \A x \in q.ahead : \A t \in x.terms, k \in DOMAIN text : ~Same(q, text[k], t.word)
    BY <1>3 DEF matchWithNegativeLookahead, Excluded, Emulated
  <2>3. Matching(q, text) # {}
    <3>1. CASE \E x \in q.ahead : x.group
      <4>1. q.body.all
        BY <3>1 DEF Emulated
      <4>2. Len(text) \in Nat
        BY DEF Texts
      <4>3. 1 \in Positions(text)
        BY <4>2 DEF Positions
      <4>4. 1 \in Matching(q, text)
        BY <4>1, <4>3 DEF Matching, BodyAt
      <4> QED
        BY <4>4
    <3>2. CASE ~\E x \in q.ahead : x.group
      <4>1. \/ ~Compiles([q EXCEPT !.ahead = {}])
            \/ MatchString([q EXCEPT !.ahead = {}], text)
        BY <1>3, <3>2 DEF matchWithNegativeLookahead
      <4>2. Compiles([q EXCEPT !.ahead = {}])
        BY <1>1, <2>1, CleanedMatches DEF Compiles
      <4> QED
        BY <1>1, <4>1, <4>2, CleanedMatches DEF MatchString
    <3> QED
      BY <3>1, <3>2
  <2> QED
    BY <2>1, <2>2, <2>3 DEF Denotes, WordAt
<1>4. CASE q.ahead = {} /\ matchWithNegativeLookbehind(q, text)
  <2>1. PICK s \in Matching(q, text) : \A t \in q.behind : t.escaped \/ s = 1 \/ ~Same(q, text[s - 1], t.word)
    BY <1>4 DEF matchWithNegativeLookbehind
  <2>2. \A t \in q.behind : ~t.escaped
    BY DEF Emulated
  <2>3. \A t \in q.behind : s > 1 => ~Same(q, text[s - 1], t.word)
    BY <2>1, <2>2
  <2> QED
    BY <1>4, <2>3 DEF Denotes
<1> QED
  BY <1>2, <1>3, <1>4 DEF MatchRegexPattern

\* The pattern a pattern is taken for, feature by feature.
LEMMA TakenForMeans ==
  ASSUME NEW q \in Regexes, NEW text
  PROVE  LET r == TakenFor(q)
         IN /\ r.i = q.i /\ r.start = q.start /\ r.body = q.body
            /\ \A x \in q.ahead : \E y \in r.ahead :
                 y.star /\ ~y.end /\ \A t \in x.terms : ~t.escaped => t \in y.terms
            /\ \A t \in q.behind : ~t.escaped => t \in r.behind
            /\ Matching(r, text) = Matching(q, text)
<1> DEFINE r == TakenFor(q)
           Read(x) == [x EXCEPT !.star = TRUE, !.end = FALSE, !.terms = {t \in @ : ~t.escaped}]
<1>1. /\ r.i = q.i /\ r.start = q.start /\ r.body = q.body
      /\ r.ahead = {Read(x) : x \in q.ahead} /\ r.behind = {t \in q.behind : ~t.escaped}
  BY DEF TakenFor, Regexes
<1> HIDE DEF r
<1>2. ASSUME NEW x \in q.ahead
      PROVE  \E y \in r.ahead : y.star /\ ~y.end /\ \A t \in x.terms : ~t.escaped => t \in y.terms
  <2>1. x \in Lookaheads
    BY DEF Regexes
  <2>2. Read(x).star = TRUE /\ Read(x).end = FALSE /\ Read(x).terms = {t \in x.terms : ~t.escaped}
    BY <2>1 DEF Lookaheads
  <2> QED
    BY <1>1, <2>2
<1>3. \A s : BodyAt(r, text, s) <=> BodyAt(q, text, s)
  BY <1>1 DEF BodyAt, WordAt, Same
<1>4. Matching(r, text) = Matching(q, text)
  BY <1>1, <1>3 DEF Matching
<1> QED
  BY <1>1, <1>2, <1>4 DEF r

\* Where MatchRegexPattern reads a pattern as it is meant it rejects nothing else either.
LEMMA EmulationExact ==
  ASSUME NEW p \in Regexes, NEW text \in Texts, NEW q, q = normalizeRegexForPrefix(p),
         EmulatedExactly(q), Denotes(TakenFor(q), text)
  PROVE  MatchRegexPattern(p, text)
<1> DEFINE r == TakenFor(q)
<1>1. q \in Regexes /\ ~p.long /\ p.form = "slashed"
  BY Normalized DEF EmulatedExactly
<1>0. /\ r.i = q.i /\ Matching(r, text) = Matching(q, text)
      /\ \A x \in q.ahead : \E y \in r.ahead :
           y.star /\ ~y.end /\ \A t \in x.terms : ~t.escaped => t \in y.terms
      /\ \A t \in q.behind : ~t.escaped => t \in r.behind
  BY <1>1, TakenForMeans
<1>a. PICK s \in Matching(r, text) :
        /\ \A x \in r.ahead : ~\E k \in s .. Len(text), t \in x.terms :
             (x.star \/ k = s) /\ WordAt(r, text, k, t.word, x.end)
        /\ \A t \in r.behind : s > 1 => ~Same(r, text[s - 1], t.word)
  BY DEF Denotes
<1> HIDE DEF r
<1>b. \A a, b : Same(r, a, b) <=> Same(q, a, b)
  BY <1>0 DEF Same
<1>2. /\ s \in Matching(q, text)
      /\ \A x \in q.ahead : \A k \in s .. Len(text), t \in x.terms :
           ~t.escaped /\ k \in DOMAIN text => ~Same(q, text[k], t.word)
      /\ \A t \in q.behind : ~t.escaped /\ s > 1 => ~Same(q, text[s - 1], t.word)
  <2>1. s \in Matching(q, text)
    BY <1>0, <1>a
  <2>2. \A t \in q.behind : ~t.escaped /\ s > 1 => ~Same(q, text[s - 1], t.word)
    BY <1>0, <1>a, <1>b
  <2>3. ASSUME NEW x \in q.ahead, NEW k \in s .. Len(text), NEW t \in x.terms, ~t.escaped, k \in DOMAIN text
        PROVE  ~Same(q, text[k], t.word)
    <3>1. PICK y \in r.ahead : y.star /\ ~y.end /\ t \in y.terms
      BY <1>0, <2>3
    <3>2. ~WordAt(r, text, k, t.word, y.end)
      BY <1>a, <3>1
    <3> QED
      BY <1>b, <2>3, <3>1, <3>2 DEF WordAt
  <2> QED
    BY <2>1, <2>2, <2>3
<1>3. Len(text) \in Nat /\ DOMAIN text = 1 .. Len(text)
  BY DEF Texts
<1>4. s \in 1 .. Len(text) + 1
  BY <1>2 DEF Matching, Positions
<1>5. CASE q.ahead # {}
  <2>1. s = 1
    BY <1>2, <1>5 DEF EmulatedExactly, Matching
  <2>2. ASSUME NEW x \in q.ahead PROVE ~Excluded(q, x, text)
    <3>1. \A k \in DOMAIN text, t \in x.terms : ~t.escaped => ~Same(q, text[k], t.word)
      BY <1>2, <1>3, <2>1
    <3> QED
      BY <3>1 DEF Excluded
  <2>3. Compiles([q EXCEPT !.ahead = {}]) => MatchString([q EXCEPT !.ahead = {}], text)
    BY <1>1, <1>2, CleanedMatches DEF MatchString
  <2>4. matchWithNegativeLookahead(q, text)
    BY <2>2, <2>3 DEF matchWithNegativeLookahead
  <2> QED
    BY <1>1, <1>5, <2>4 DEF MatchRegexPattern
<1>6. CASE q.ahead = {} /\ q.behind # {}
  <2>1. \E m \in Matching(q, text) :
          /\ \A v \in Matching(q, text) : m <= v
          /\ \A t \in q.behind : t.escaped \/ m = 1 \/ ~Same(q, text[m - 1], t.word)
    <3>1. q.body.end /\ ~q.body.star
      BY <1>6 DEF EmulatedExactly
    <3>2. CASE q.body.all
      <4>1. 1 \in Matching(q, text)
        BY <1>3, <3>2 DEF Matching, BodyAt, Positions
      <4>2. \A v \in Matching(q, text) : 1 <= v
        BY <1>3 DEF Matching, Positions
      <4> QED
        BY <4>1, <4>2
    <3>3. CASE ~q.body.all
      <4>1. ASSUME NEW v \in Matching(q, text) PROVE v = Len(text)
        BY <1>3, <3>1, <3>3, <4>1 DEF Matching, BodyAt, WordAt
      <4>2. \A v \in Matching(q, text) : s <= v
        BY <1>2, <1>3, <4>1
      <4>3. \A t \in q.behind : t.escaped \/ s = 1 \/ ~Same(q, text[s - 1], t.word)
        BY <1>2, <1>4, <1>3
      <4> QED
        BY <1>2, <4>2, <4>3
    <3> QED
      BY <3>2, <3>3
  <2>2. matchWithNegativeLookbehind(q, text)
    BY <2>1 DEF matchWithNegativeLookbehind
  <2> QED
    BY <1>1, <1>6, <2>2 DEF MatchRegexPattern
<1>7. CASE q.ahead = {} /\ q.behind = {}
  <2>1. MatchString(q, text)
    BY <1>2, <1>7 DEF MatchString, Compiles
  <2> QED
    BY <1>1, <1>7, <2>1 DEF MatchRegexPattern
<1> QED
  BY <1>5, <1>6, <1>7

-----------------------------------------------------------------------------
(* The invariant of a keyset walk *)

\* What was returned lies up to the cursor, and up to the cursor nothing is owed.
CursorInv ==
  \A w \in KeysetWalks :
    /\ \A p \in got[w] : p <= cursor[w]
    /\ \A p \in steady[w] : p <= cursor[w] => p \in got[w]
    /\ steady[w] \subseteq Selected(table, filter[w])

\* What a filter selects are products.
LEMMA SelectedType == ASSUME NEW t, NEW f PROVE Selected(t, f) \in SUBSET Products
BY DEF Selected

\* A page holds products.
LEMMA PageType == ASSUME NEW w, NEW n PROVE Page(w, n) \in SUBSET Products
BY DEF Page, Limit, After, Selected

\* A cursor is a number: 0 before the first page, then a hash.
LEMMA CursorType == ASSUME TypeOK, NEW w \in Walks PROVE cursor[w] \in Nat
<1>1. cursor[w] \in {0} \cup Products BY DEF TypeOK
<1>2. \A p \in Products : p \in Nat \ {0} BY QueryAssumption
<1> QED BY <1>1, <1>2

\* A walk that has not begun owes all that its filter selects.
LEMMA InitInv == Init => TypeOK /\ CursorInv
<1> SUFFICES ASSUME Init PROVE TypeOK /\ CursorInv
  OBVIOUS
<1>1. TypeOK
  BY SelectedType DEF Init, TypeOK
<1>2. CursorInv
  <2> SUFFICES ASSUME NEW w \in KeysetWalks
               PROVE  /\ got[w] = {} /\ cursor[w] = 0
                      /\ steady[w] = Selected(table, filter[w])
    <3>1. \A p \in Products : p \in Nat \ {0} BY QueryAssumption
    <3> QED BY <3>1, SelectedType DEF CursorInv
  <2> QED BY QueryAssumption DEF Init
<1> QED BY <1>1, <1>2

\* A page of a keyset walk lies beyond the cursor, takes what matches there from the
\* front, and is empty only if nothing matches there.
LEMMA KeysetPage ==
  ASSUME TypeOK, NEW w \in KeysetWalks, NEW n \in Nat \ {0}
  PROVE  LET S == Selected(table, filter[w]) IN
         /\ \A p \in Page(w, n) : p \in S /\ p > cursor[w]
         /\ \A p \in Page(w, n), q \in S : q > cursor[w] /\ q < p => q \in Page(w, n)
         /\ Page(w, n) = {} => \A q \in S : q <= cursor[w]
<1> DEFINE S == Selected(table, filter[w])
           T == After(S, cursor[w])
<1>1. S \in SUBSET Products /\ cursor[w] \in Nat /\ \A p \in Products : p \in Nat \ {0}
  <2>1. w \in Walks /\ \A p \in Products : p \in Nat \ {0} BY QueryAssumption
  <2> QED BY <2>1, SelectedType, CursorType
<1>2. T = {p \in S : p > cursor[w]}
  BY <1>1 DEF After
<1> HIDE DEF S
<1>3. T \in SUBSET Products
  BY <1>1, <1>2
<1>4. Page(w, n) = Limit(T, 0, n)
  BY DEF Page, S
<1> HIDE DEF T
<1>5. /\ Limit(T, 0, n) \subseteq T
      /\ \A p \in Limit(T, 0, n), q \in T : q < p => q \in Limit(T, 0, n)
      /\ Limit(T, 0, n) = {} => T = {}
  BY <1>3, FrontPage
<1>6. ASSUME Page(w, n) = {}, NEW q \in S PROVE q <= cursor[w]
  <2>1. q \notin T BY <1>4, <1>5, <1>6
  <2>2. q \in Nat BY <1>1
  <2> QED BY <1>1, <1>2, <2>1, <2>2
<1> QED BY <1>2, <1>4, <1>5, <1>6 DEF S

\* A query either ends the walk or moves it to the last row of its page.
LEMMA FetchCases ==
  ASSUME TypeOK, NEW w \in Walks, NEW left \in Allowances, FetchPage(w, left)
  PROVE  \E n \in Nat \ {0} :
           \/ /\ Page(w, n) = {}
              /\ wpc' = [wpc EXCEPT ![w] = "done"]
              /\ UNCHANGED <<cursor, offset, got>>
           \/ /\ got' = [got EXCEPT ![w] = @ \cup Page(w, n)]
              /\ offset' = [offset EXCEPT ![w] = @ + Cardinality(Page(w, n))]
              /\ \E last \in Page(w, n) : /\ \A p \in Page(w, n) : p <= last
                                          /\ cursor' = [cursor EXCEPT ![w] = last]
              /\ UNCHANGED wpc
<1> DEFINE n == reserve(EffectiveLimit(filter[w].limit), left)
<1>1. n \in Nat \ {0}
  BY RoomForOne DEF TypeOK
<1> HIDE DEF n
<1>2. \/ /\ Page(w, n) = {}
         /\ wpc' = [wpc EXCEPT ![w] = "done"]
         /\ UNCHANGED <<cursor, offset, got>>
      \/ /\ got' = [got EXCEPT ![w] = @ \cup Page(w, n)]
         /\ offset' = [offset EXCEPT ![w] = @ + Cardinality(Page(w, n))]
         /\ \E last \in Page(w, n) : /\ \A p \in Page(w, n) : p <= last
                                     /\ cursor' = [cursor EXCEPT ![w] = last]
         /\ UNCHANGED wpc
  BY DEF FetchPage, n
<1> QED BY <1>1, <1>2

\* A page is finite, so the rows delivered can be counted.
LEMMA PageFinite == ASSUME NEW w, NEW n PROVE IsFiniteSet(Page(w, n)) /\ Cardinality(Page(w, n)) \in Nat
<1>1. IsFiniteSet(Page(w, n))
  BY PageType, QueryAssumption, FS_Subset
<1> QED BY <1>1, FS_CardinalityType

\* Every step keeps the types.
LEMMA StepTypeOK == TypeOK /\ [Next]_vars => TypeOK'
<1> SUFFICES ASSUME TypeOK, [Next]_vars PROVE TypeOK'
  OBVIOUS
<1>1. ASSUME NEW w \in Walks, Refuse(w) PROVE TypeOK'
  BY <1>1 DEF Refuse, TypeOK
<1>2. ASSUME NEW w \in Walks, NEW left \in Allowances, FetchPage(w, left) PROVE TypeOK'
  <2>1. UNCHANGED <<table, changes, filter, steady, quiet>>
    BY <1>2 DEF FetchPage
  <2>2. PICK n \in Nat \ {0} :
           \/ /\ Page(w, n) = {}
              /\ wpc' = [wpc EXCEPT ![w] = "done"]
              /\ UNCHANGED <<cursor, offset, got>>
           \/ /\ got' = [got EXCEPT ![w] = @ \cup Page(w, n)]
              /\ offset' = [offset EXCEPT ![w] = @ + Cardinality(Page(w, n))]
              /\ \E last \in Page(w, n) : /\ \A p \in Page(w, n) : p <= last
                                          /\ cursor' = [cursor EXCEPT ![w] = last]
              /\ UNCHANGED wpc
    BY <1>2, FetchCases
  <2>3. Page(w, n) \in SUBSET Products /\ Cardinality(Page(w, n)) \in Nat
    BY PageType, PageFinite
  <2> QED BY <2>1, <2>2, <2>3 DEF TypeOK
<1>3. ASSUME NEW p \in Products, NEW row \in Rows \cup {NoRow}, ChangeRow(p, row) PROVE TypeOK'
  BY <1>3 DEF ChangeRow, TypeOK, walkVars
<1>4. CASE UNCHANGED vars
  BY <1>4 DEF vars, walkVars, TypeOK
<1> QED BY <1>1, <1>2, <1>3, <1>4 DEF Next

\* Every step leaves behind the cursor only what was returned or was not steady.
LEMMA StepCursorInv == TypeOK /\ CursorInv /\ [Next]_vars => CursorInv'
<1> SUFFICES ASSUME TypeOK, CursorInv, [Next]_vars, NEW v \in KeysetWalks
             PROVE  /\ \A p \in got'[v] : p <= cursor'[v]
                    /\ \A p \in steady'[v] : p <= cursor'[v] => p \in got'[v]
                    /\ steady'[v] \subseteq Selected(table', filter'[v])
  BY DEF CursorInv
<1> USE QueryAssumption
<1>1. ASSUME NEW w \in Walks, Refuse(w) PROVE UNCHANGED <<table, filter, cursor, got, steady>>
  BY <1>1 DEF Refuse
<1>2. ASSUME NEW w \in Walks, NEW left \in Allowances, FetchPage(w, left)
      PROVE  /\ \A p \in got'[v] : p <= cursor'[v]
             /\ \A p \in steady'[v] : p <= cursor'[v] => p \in got'[v]
             /\ steady'[v] \subseteq Selected(table', filter'[v])
  <2>1. UNCHANGED <<table, filter, steady>>
    BY <1>2 DEF FetchPage
  <2>2. PICK n \in Nat \ {0} :
           \/ UNCHANGED <<cursor, got>>
           \/ /\ got' = [got EXCEPT ![w] = @ \cup Page(w, n)]
              /\ \E last \in Page(w, n) : /\ \A p \in Page(w, n) : p <= last
                                          /\ cursor' = [cursor EXCEPT ![w] = last]
    BY <1>2, FetchCases
  <2>3. CASE UNCHANGED <<cursor, got>> \/ v # w
    <3>1. got'[v] = got[v] /\ cursor'[v] = cursor[v]
      BY <2>2, <2>3 DEF TypeOK
    <3> QED BY <2>1, <3>1 DEF CursorInv
  <2>4. ASSUME v = w, got' = [got EXCEPT ![w] = @ \cup Page(w, n)],
               NEW last \in Page(w, n), \A p \in Page(w, n) : p <= last,
               cursor' = [cursor EXCEPT ![w] = last]
        PROVE  /\ \A p \in got'[v] : p <= cursor'[v]
               /\ \A p \in steady'[v] : p <= cursor'[v] => p \in got'[v]
    <3>1. got'[v] = got[v] \cup Page(v, n) /\ cursor'[v] = last
      BY <2>4 DEF TypeOK
    <3>2. /\ got[v] \subseteq Products /\ Page(v, n) \subseteq Products /\ steady[v] \subseteq Products
          /\ cursor[v] \in Nat /\ \A p \in Products : p \in Nat
      <4>1. v \in Walks /\ \A p \in Products : p \in Nat \ {0} OBVIOUS
      <4>2. got[v] \subseteq Products /\ steady[v] \subseteq Products
        BY <4>1 DEF TypeOK
      <4>3. Page(v, n) \in SUBSET Products BY PageType
      <4>4. cursor[v] \in Nat BY <4>1, CursorType
      <4> QED BY <4>1, <4>2, <4>3, <4>4
    <3>3. /\ \A p \in Page(v, n) : p > cursor[v]
          /\ \A p \in Page(v, n), q \in Selected(table, filter[v]) : q > cursor[v] /\ q < p => q \in Page(v, n)
      BY KeysetPage
    <3>4. ASSUME NEW p \in got'[v] PROVE p <= cursor'[v]
      <4>1. CASE p \in Page(v, n) BY <2>4, <3>1, <4>1
      <4>2. CASE p \in got[v]
        <5>1. p <= cursor[v] BY <4>2 DEF CursorInv
        <5>2. cursor[v] < last /\ last \in Nat /\ p \in Nat BY <2>4, <3>2, <3>3, <4>2
        <5> QED BY <3>1, <3>2, <5>1, <5>2
      <4> QED BY <3>1, <4>1, <4>2
    <3>5. ASSUME NEW p \in steady'[v], p <= cursor'[v] PROVE p \in got'[v]
      <4>1. p \in steady[v] /\ p \in Selected(table, filter[v]) /\ p \in Nat /\ last \in Nat
        BY <2>1, <2>4, <3>2, <3>5 DEF CursorInv
      <4>2. CASE p <= cursor[v] BY <3>1, <4>1, <4>2 DEF CursorInv
      <4>3. CASE p > cursor[v] /\ p < last
        BY <2>4, <3>1, <3>3, <4>1, <4>3
      <4>4. CASE p = last BY <2>4, <3>1, <4>4
      <4> QED BY <3>1, <3>2, <3>5, <4>1, <4>2, <4>3, <4>4
    <3> QED BY <3>4, <3>5
  <2>5. steady'[v] \subseteq Selected(table', filter'[v])
    BY <2>1 DEF CursorInv
  <2> QED BY <2>2, <2>3, <2>4, <2>5
<1>3. ASSUME NEW p \in Products, NEW row \in Rows \cup {NoRow}, ChangeRow(p, row)
      PROVE  /\ steady'[v] = steady[v] \cap Selected(table', filter'[v])
             /\ UNCHANGED <<got, cursor>>
  BY <1>3 DEF ChangeRow, walkVars
<1>4. CASE UNCHANGED vars
  BY <1>4 DEF vars, walkVars, CursorInv
<1> QED BY <1>1, <1>2, <1>3, <1>4 DEF Next, CursorInv
-----------------------------------------------------------------------------
(* What a walk got from a quiet table *)

\* What changed never counts as quiet again, so nothing has left what is steady.
QuietInv == \A w \in Walks : quiet[w] => steady[w] = Selected(table, filter[w])

\* An OFFSET walk over a quiet table has the rows it counts, from the front.
OffsetInv ==
  \A w \in Walks \ KeysetWalks : quiet[w] =>
    got[w] = FirstRows(Selected(table, filter[w]), offset[w]) /\ offset[w] = Cardinality(got[w])

\* A walk that is over got all there is in a quiet table.
DoneInv ==
  \A w \in Walks : wpc[w] = "done" /\ quiet[w] => Selected(table, filter[w]) \subseteq got[w]

\* A price that is shown was let through by its field's filter; in a quiet table every
\* one that the filter lets through is shown with its product.
ShownBy(f, s) ==
  \E pf \in f.prices, row \in Rows : \E price \in row.prices :
    s = <<pf, price>> /\ PriceMatches(price, pf)

ShownInv ==
  /\ DOMAIN shown = Walks
  /\ \A w \in Walks :
       /\ \A s \in shown[w] : ShownBy(filter[w], s)
       /\ quiet[w] => \A p \in got[w] : PricesOf(p, filter[w]) \subseteq shown[w]

WalkInv == QuietInv /\ OffsetInv /\ DoneInv /\ ShownInv

\* A query shows the prices of its page, and nothing else.
LEMMA FetchShows ==
  ASSUME TypeOK, NEW w \in Walks, NEW left \in Allowances, FetchPage(w, left)
  PROVE  \E n \in Nat \ {0} :
           \/ /\ Page(w, n) = {}
              /\ wpc' = [wpc EXCEPT ![w] = "done"]
              /\ UNCHANGED <<offset, got, shown>>
           \/ /\ got' = [got EXCEPT ![w] = @ \cup Page(w, n)]
              /\ offset' = [offset EXCEPT ![w] = @ + Cardinality(Page(w, n))]
              /\ shown' = [shown EXCEPT ![w] = @ \cup UNION {PricesOf(p, filter[w]) : p \in Page(w, n)}]
              /\ UNCHANGED wpc
<1> DEFINE n == reserve(EffectiveLimit(filter[w].limit), left)
<1>1. n \in Nat \ {0}
  BY RoomForOne DEF TypeOK
<1> HIDE DEF n
<1>2. \/ /\ Page(w, n) = {}
         /\ wpc' = [wpc EXCEPT ![w] = "done"]
         /\ UNCHANGED <<cursor, offset, got, shown>>
      \/ /\ got' = [got EXCEPT ![w] = @ \cup Page(w, n)]
         /\ offset' = [offset EXCEPT ![w] = @ + Cardinality(Page(w, n))]
         /\ shown' = [shown EXCEPT ![w] = @ \cup
              UNION {PricesOf(p, filter[w]) : p \in Page(w, n)}]
         /\ UNCHANGED wpc
  BY DEF FetchPage, n
<1> QED
  BY <1>1, <1>2

\* Every price of a selected product that is shown was let through.
LEMMA ShownMatches ==
  ASSUME TypeOK, NEW w \in Walks, NEW p \in Selected(table, filter[w]), NEW s \in PricesOf(p, filter[w])
  PROVE  ShownBy(filter[w], s)
<1>1. table[p] \in Rows
  BY DEF TypeOK, Selected
<1>2. PICK pf \in filter[w].prices : s \in {pf} \X FilterPrices(table[p].prices, pf)
  BY DEF PricesOf
<1>3. PICK price \in FilterPrices(table[p].prices, pf) : s = <<pf, price>>
  BY <1>2
<1>4. price \in table[p].prices /\ PriceMatches(price, pf)
  BY <1>3 DEF FilterPrices
<1> QED
  BY <1>1, <1>3, <1>4 DEF ShownBy

LEMMA InitWalkInv == Init => WalkInv
<1> SUFFICES ASSUME Init PROVE WalkInv
  OBVIOUS
<1>1. QuietInv
  BY DEF Init, QuietInv
<1>2. OffsetInv
  <2> SUFFICES ASSUME NEW w \in Walks \ KeysetWalks
               PROVE  got[w] = FirstRows(Selected(table, filter[w]), offset[w]) /\ offset[w] = Cardinality(got[w])
    BY DEF OffsetInv
  <2> DEFINE S == Selected(table, filter[w])
  <2>1. got[w] = {} /\ offset[w] = 0
    BY DEF Init
  <2>2. S \in SUBSET Products
    BY SelectedType
  <2> HIDE DEF S
  <2>3. {} = FirstRows(S, Cardinality({}))
    BY <2>2, PrefixByRank
  <2>4. Cardinality({}) = 0
    BY FS_EmptySet
  <2> QED
    BY <2>1, <2>3, <2>4 DEF S
<1>3. DoneInv
  BY DEF Init, DoneInv
<1>4. ShownInv
  BY DEF Init, ShownInv
<1> QED
  BY <1>1, <1>2, <1>3, <1>4 DEF WalkInv

\* A page leaves an OFFSET walk with the rows it counts, and an empty one means that
\* there are no more.
LEMMA OffsetPage ==
  ASSUME TypeOK, OffsetInv, NEW w \in Walks \ KeysetWalks, quiet[w], NEW n \in Nat \ {0}
  PROVE  LET S == Selected(table, filter[w])
             rows == got[w] \cup Page(w, n)
             count == offset[w] + Cardinality(Page(w, n))
         IN /\ rows = FirstRows(S, count) /\ count = Cardinality(rows)
            /\ Page(w, n) = {} => S \subseteq got[w]
<1> DEFINE S == Selected(table, filter[w])
           k == offset[w]
<1>1. S \in SUBSET Products /\ k \in Nat
  BY SelectedType DEF TypeOK
<1>2. got[w] = FirstRows(S, k) /\ k = Cardinality(FirstRows(S, k))
  BY DEF OffsetInv
<1>3. Page(w, n) = Limit(S, k, n)
  BY DEF Page
<1> HIDE DEF S, k
<1>4. /\ FirstRows(S, k) \cup Limit(S, k, n) = FirstRows(S, k + Cardinality(Limit(S, k, n)))
      /\ k + Cardinality(Limit(S, k, n)) = Cardinality(FirstRows(S, k) \cup Limit(S, k, n))
      /\ Limit(S, k, n) = {} => FirstRows(S, k) = S
  BY <1>1, <1>2, NextPage
<1> QED
  BY <1>2, <1>3, <1>4 DEF S, k

LEMMA StepWalkInv == TypeOK /\ CursorInv /\ WalkInv /\ [Next]_vars => WalkInv'
<1> SUFFICES ASSUME TypeOK, CursorInv, WalkInv, [Next]_vars PROVE WalkInv'
  OBVIOUS
<1>0. QuietInv /\ OffsetInv /\ DoneInv /\ ShownInv /\ KeysetWalks \subseteq Walks
  BY QueryAssumption DEF WalkInv
<1>1. ASSUME NEW w \in Walks, Refuse(w) PROVE WalkInv'
  <2>1. UNCHANGED <<table, filter, offset, got, shown, steady, quiet>> /\ wpc' = [wpc EXCEPT ![w] = "refused"]
    BY <1>1 DEF Refuse
  <2>2. \A v \in Walks : wpc'[v] = "done" => wpc[v] = "done"
    BY <2>1 DEF TypeOK
  <2>3. QuietInv' /\ OffsetInv'
    BY <1>0, <2>1 DEF QuietInv, OffsetInv
  <2>4. DoneInv'
    BY <1>0, <2>1, <2>2 DEF DoneInv
  <2>5. ShownInv'
    BY <1>0, <2>1 DEF ShownInv, PricesOf
  <2> QED
    BY <2>3, <2>4, <2>5 DEF WalkInv
<1>2. ASSUME NEW w \in Walks, NEW left \in Allowances, FetchPage(w, left) PROVE WalkInv'
  <2>1. UNCHANGED <<table, filter, steady, quiet>> /\ wpc[w] = "walking"
    BY <1>2 DEF FetchPage
  <2>2. PICK n \in Nat \ {0} :
          \/ /\ Page(w, n) = {}
             /\ wpc' = [wpc EXCEPT ![w] = "done"]
             /\ UNCHANGED <<offset, got, shown>>
          \/ /\ got' = [got EXCEPT ![w] = @ \cup Page(w, n)]
             /\ offset' = [offset EXCEPT ![w] = @ + Cardinality(Page(w, n))]
             /\ shown' = [shown EXCEPT ![w] = @ \cup UNION {PricesOf(p, filter[w]) : p \in Page(w, n)}]
             /\ UNCHANGED wpc
    BY <1>2, FetchShows
  <2>3. QuietInv'
    BY <1>0, <2>1 DEF QuietInv
  <2>4. CASE /\ Page(w, n) = {}
             /\ wpc' = [wpc EXCEPT ![w] = "done"]
             /\ UNCHANGED <<offset, got, shown>>
    <3>1. OffsetInv'
      BY <1>0, <2>1, <2>4 DEF OffsetInv
    <3>2. ShownInv'
      BY <1>0, <2>1, <2>4 DEF ShownInv, PricesOf
    <3>3. ASSUME quiet[w] PROVE Selected(table, filter[w]) \subseteq got[w]
      <4>1. CASE w \in KeysetWalks
        <5>1. \A q \in Selected(table, filter[w]) : q <= cursor[w]
          BY <2>4, <4>1, KeysetPage
        <5>2. steady[w] = Selected(table, filter[w])
          BY <1>0, <3>3 DEF QuietInv
        <5> QED
          BY <4>1, <5>1, <5>2 DEF CursorInv
      <4>2. CASE w \notin KeysetWalks
        BY <1>0, <2>4, <3>3, <4>2, OffsetPage
      <4> QED
        BY <4>1, <4>2
    <3>4. ASSUME NEW v \in Walks, wpc'[v] = "done", quiet'[v]
          PROVE  Selected(table', filter'[v]) \subseteq got'[v]
      <4>1. CASE v = w
        BY <2>1, <2>4, <3>3, <3>4, <4>1
      <4>2. CASE v # w
        <5>1. wpc[v] = "done"
          BY <2>4, <3>4, <4>2 DEF TypeOK
        <5> QED
          BY <1>0, <2>1, <2>4, <3>4, <5>1 DEF DoneInv
      <4> QED
        BY <4>1, <4>2
    <3>5. DoneInv'
      BY <3>4 DEF DoneInv
    <3> QED
      BY <2>3, <3>1, <3>2, <3>5 DEF WalkInv
  <2>5. CASE /\ got' = [got EXCEPT ![w] = @ \cup Page(w, n)]
             /\ offset' = [offset EXCEPT ![w] = @ + Cardinality(Page(w, n))]
             /\ shown' = [shown EXCEPT ![w] = @ \cup UNION {PricesOf(p, filter[w]) : p \in Page(w, n)}]
             /\ UNCHANGED wpc
    <3>1. /\ got'[w] = got[w] \cup Page(w, n) /\ offset'[w] = offset[w] + Cardinality(Page(w, n))
          /\ \A v \in Walks : v # w => got'[v] = got[v] /\ offset'[v] = offset[v]
      BY <2>5 DEF TypeOK
    <3>2. OffsetInv'
      <4> SUFFICES ASSUME NEW v \in Walks \ KeysetWalks, quiet'[v]
                   PROVE  /\ got'[v] = FirstRows(Selected(table', filter'[v]), offset'[v])
                          /\ offset'[v] = Cardinality(got'[v])
        BY DEF OffsetInv
      <4>1. CASE v = w
        BY <1>0, <2>1, <3>1, <4>1, OffsetPage
      <4>2. CASE v # w
        BY <1>0, <2>1, <3>1, <4>2 DEF OffsetInv
      <4> QED
        BY <4>1, <4>2
    <3>3. DoneInv'
      <4> SUFFICES ASSUME NEW v \in Walks, wpc'[v] = "done", quiet'[v]
                   PROVE  Selected(table', filter'[v]) \subseteq got'[v]
        BY DEF DoneInv
      <4>1. v # w /\ wpc[v] = "done"
        BY <2>1, <2>5
      <4> QED
        BY <1>0, <2>1, <3>1, <4>1 DEF DoneInv
    <3>4. ShownInv'
      <4> SUFFICES ASSUME NEW v \in Walks
                   PROVE  /\ \A s \in shown'[v] : ShownBy(filter[v], s)
                          /\ quiet[v] => \A p \in got'[v] : PricesOf(p, filter[v]) \subseteq shown'[v]
        <5>1. DOMAIN shown' = Walks
          BY <1>0, <2>5 DEF ShownInv
        <5> QED
          BY <2>1, <5>1 DEF ShownInv, PricesOf
      <4>1. CASE v # w
        BY <1>0, <2>5, <3>1, <4>1 DEF ShownInv
      <4>2. CASE v = w
        <5>1. Page(w, n) \subseteq Selected(table, filter[w])
          BY DEF Page, Limit, After
        <5>2. shown'[w] = shown[w] \cup UNION {PricesOf(p, filter[w]) : p \in Page(w, n)}
          BY <1>0, <2>5 DEF ShownInv
        <5>3. ASSUME NEW s \in shown'[w] PROVE ShownBy(filter[w], s)
          BY <1>0, <5>1, <5>2, <5>3, ShownMatches DEF ShownInv
        <5>4. ASSUME quiet[w], NEW p \in got'[w] PROVE PricesOf(p, filter[w]) \subseteq shown'[w]
          <6>1. CASE p \in got[w]
            BY <1>0, <5>2, <5>4, <6>1 DEF ShownInv
          <6>2. CASE p \in Page(w, n)
            BY <5>2, <6>2
          <6> QED
            BY <3>1, <6>1, <6>2
        <5> QED
          BY <4>2, <5>3, <5>4
      <4> QED
        BY <4>1, <4>2
    <3> QED
      BY <2>3, <3>2, <3>3, <3>4 DEF WalkInv
  <2> QED
    BY <2>2, <2>4, <2>5
<1>3. ASSUME NEW p \in Products, NEW row \in Rows \cup {NoRow}, ChangeRow(p, row) PROVE WalkInv'
  <2>1. UNCHANGED <<filter, shown>> /\ \A v \in Walks : ~quiet'[v]
    BY <1>3 DEF ChangeRow, walkVars
  <2>2. ShownInv'
    BY <1>0, <2>1 DEF ShownInv
  <2> QED
    BY <2>1, <2>2 DEF WalkInv, QuietInv, OffsetInv, DoneInv
<1>4. CASE UNCHANGED vars
  BY <1>0, <1>4 DEF vars, walkVars, WalkInv, QuietInv, OffsetInv, DoneInv, ShownInv, PricesOf
<1> QED
  BY <1>1, <1>2, <1>3, <1>4 DEF Next

-----------------------------------------------------------------------------
(* Theorems *)

\* A client's walk has its type at every moment: the cursor is a hash that was
\* returned or none, and what was returned are products.
THEOREM TypeCorrect == Spec => []TypeOK
<1>1. Init => TypeOK BY InitInv
<1> QED BY <1>1, StepTypeOK, PTL DEF Spec

\* The inductive invariant holds throughout.
LEMMA Invariant == Spec => [](TypeOK /\ CursorInv)
<1>1. TypeOK /\ CursorInv /\ [Next]_vars => (TypeOK /\ CursorInv)'
  BY StepTypeOK, StepCursorInv
<1> QED BY <1>1, InitInv, PTL DEF Spec

\* A walk begins as Enumeration does.
LEMMA InitPromise == Init => Promise!Init
<1> SUFFICES ASSUME Init PROVE Promise!Init
  OBVIOUS
<1>1. \A w \in KeysetWalks : /\ got[w] = {} /\ offset[w] = 0 /\ wpc[w] = "walking"
                             /\ steady[w] = Selected(table, filter[w])
  BY QueryAssumption DEF Init
<1>2. [w \in KeysetWalks |-> Selected(table, filter[w])] \in [KeysetWalks -> SUBSET Products]
  BY SelectedType
<1> QED BY <1>1, <1>2 DEF Promise!Init

\* Enumeration counts as this module does.
LEMMA SameCardinality == ASSUME NEW S PROVE Promise!Cardinality(S) = Cardinality(S)
BY DEF Promise!Cardinality, Cardinality

\* Steps that leave every keyset walk alone.
LEMMA StutterPromise ==
  ASSUME UNCHANGED <<table, filter, steady>>,
         \A w \in KeysetWalks :
           /\ got'[w] = got[w] /\ offset'[w] = offset[w]
           /\ wpc'[w] = "done" <=> wpc[w] = "done"
  PROVE  UNCHANGED Promise!enumeration
BY DEF Promise!enumeration

\* Every step is a step of Enumeration or leaves it unchanged.
LEMMA StepPromise == TypeOK /\ CursorInv /\ [Next]_vars => [Promise!Next]_Promise!enumeration
<1> SUFFICES ASSUME TypeOK, CursorInv, [Next]_vars
             PROVE  Promise!Next \/ UNCHANGED Promise!enumeration
  OBVIOUS
<1>1. ASSUME NEW w \in Walks, Refuse(w) PROVE UNCHANGED Promise!enumeration
  BY <1>1, StutterPromise, QueryAssumption DEF Refuse, TypeOK
<1>2. ASSUME NEW w \in Walks, NEW left \in Allowances, FetchPage(w, left)
      PROVE  Promise!Next \/ UNCHANGED Promise!enumeration
  <2>1. UNCHANGED <<table, filter, steady>> /\ wpc[w] = "walking"
    BY <1>2 DEF FetchPage
  <2>2. PICK n \in Nat \ {0} :
           \/ /\ Page(w, n) = {}
              /\ wpc' = [wpc EXCEPT ![w] = "done"]
              /\ UNCHANGED <<cursor, offset, got>>
           \/ /\ got' = [got EXCEPT ![w] = @ \cup Page(w, n)]
              /\ offset' = [offset EXCEPT ![w] = @ + Cardinality(Page(w, n))]
              /\ UNCHANGED wpc
    BY <1>2, FetchCases
  <2>3. CASE w \notin KeysetWalks
    BY <2>1, <2>2, <2>3, StutterPromise, QueryAssumption DEF TypeOK
  <2>4. ASSUME w \in KeysetWalks, Page(w, n) = {}, wpc' = [wpc EXCEPT ![w] = "done"],
               UNCHANGED <<cursor, offset, got>>
        PROVE  Promise!Finish(w)
    <3>1. steady[w] \ got[w] = {}
      <4>1. \A p \in Selected(table, filter[w]) : p <= cursor[w] BY <2>4, KeysetPage
      <4> QED BY <2>4, <4>1 DEF CursorInv
    <3>2. {v \in KeysetWalks : wpc'[v] = "done"} = {v \in KeysetWalks : wpc[v] = "done"} \cup {w}
      BY <2>4, QueryAssumption DEF TypeOK
    <3> QED BY <2>1, <2>4, <3>1, <3>2 DEF Promise!Finish
  <2>5. ASSUME w \in KeysetWalks, got' = [got EXCEPT ![w] = @ \cup Page(w, n)],
               offset' = [offset EXCEPT ![w] = @ + Cardinality(Page(w, n))], UNCHANGED wpc
        PROVE  Promise!Yield(w)
    <3> DEFINE page == Page(w, n)
    <3>1. page \in SUBSET (Selected(table, filter[w]) \ got[w])
      <4>1. \A p \in page : p \in Selected(table, filter[w]) /\ p > cursor[w]
        BY <2>5, KeysetPage
      <4>2. \A p \in got[w] : p <= cursor[w] BY <2>5 DEF CursorInv
      <4>3. cursor[w] \in Nat /\ \A p \in Products : p \in Nat
        <5>1. \A p \in Products : p \in Nat BY QueryAssumption
        <5> QED BY <5>1, CursorType
      <4>4. ASSUME NEW p \in page, p \in got[w] PROVE FALSE
        <5>1. p \in Nat BY <4>3, PageType
        <5> QED BY <4>1, <4>2, <4>3, <4>4, <5>1
      <4> QED BY <4>1, <4>4
    <3> HIDE DEF page
    <3>2. /\ got \in [Walks -> SUBSET Products] /\ steady \in [Walks -> SUBSET Products]
          /\ offset \in [Walks -> Nat] /\ KeysetWalks \subseteq Walks
      BY QueryAssumption DEF TypeOK
    <3>3. got' = [got EXCEPT ![w] = @ \cup page] /\ offset' = [offset EXCEPT ![w] = @ + Cardinality(page)]
      BY <2>5 DEF page
    <3>4. [v \in KeysetWalks |-> got'[v]] =
            [[v \in KeysetWalks |-> got[v]] EXCEPT ![w] = @ \cup page]
      BY <2>5, <3>2, <3>3
    <3>5. [v \in KeysetWalks |-> offset'[v]] =
            [[v \in KeysetWalks |-> offset[v]] EXCEPT ![w] = @ + Promise!Cardinality(page)]
      BY <2>5, <3>2, <3>3, SameCardinality
    <3>6. [v \in KeysetWalks |-> steady'[v] \ got'[v]] =
            [[v \in KeysetWalks |-> steady[v] \ got[v]] EXCEPT ![w] = @ \ page]
      BY <2>1, <2>5, <3>2, <3>3
    <3>7. w \notin {v \in KeysetWalks : wpc[v] = "done"}
      BY <2>1
    <3>8. page \in SUBSET ([v \in KeysetWalks |-> Selected(table, filter[v])][w] \ [v \in KeysetWalks |-> got[v]][w])
      BY <2>5, <3>1
    <3> QED BY <2>1, <2>5, <3>4, <3>5, <3>6, <3>7, <3>8 DEF Promise!Yield
  <2> QED BY <2>2, <2>3, <2>4, <2>5 DEF Promise!Next
<1>3. ASSUME NEW p \in Products, NEW row \in Rows \cup {NoRow}, ChangeRow(p, row)
      PROVE  Promise!Change
  <2>1. UNCHANGED <<filter, got, offset, wpc>>
    BY <1>3 DEF ChangeRow, walkVars
  <2>2. \A w \in KeysetWalks : steady'[w] = steady[w] \cap Selected(table', filter'[w])
    BY <1>3, QueryAssumption DEF ChangeRow, walkVars
  <2>3. [w \in KeysetWalks |-> Selected(table', filter'[w])] \in [KeysetWalks -> SUBSET Products]
    BY SelectedType
  <2>4. [w \in KeysetWalks |-> steady'[w] \ got'[w]] =
          [w \in KeysetWalks |-> [v \in KeysetWalks |-> steady[v] \ got[v]][w]
                                   \cap [v \in KeysetWalks |-> Selected(table', filter'[v])][w]]
    BY <2>1, <2>2
  <2> QED BY <2>1, <2>3, <2>4 DEF Promise!Change
<1>4. CASE UNCHANGED vars
  BY <1>4, StutterPromise DEF vars, walkVars
<1> QED BY <1>1, <1>2, <1>3, <1>4 DEF Next, Promise!Next

\* Keyset paging (AfterHash in buildProductQuery) implements Enumeration for any table,
\* filters, limits, budgets and number of changes: scrapes that insert, rewrite and
\* delete rows between two pages make no product come twice, and none that matches all
\* along be missed.
THEOREM KeysetRefines == Spec => KeysetKeepsPromise
<1>1. TypeOK /\ CursorInv /\ [Next]_vars => [Promise!Next]_Promise!enumeration
  BY StepPromise
<1> QED BY <1>1, Invariant, InitPromise, PTL DEF Spec, KeysetKeepsPromise, Promise!Spec

\* The invariants of the walks hold throughout.
LEMMA WalkInvariant == Spec => [](TypeOK /\ CursorInv /\ WalkInv)
<1>1. TypeOK /\ CursorInv /\ WalkInv /\ [Next]_vars => (TypeOK /\ CursorInv /\ WalkInv)'
  BY StepTypeOK, StepCursorInv, StepWalkInv
<1> QED
  BY <1>1, InitInv, InitWalkInv, PTL DEF Spec

\* Paging by OFFSET (GraphQL's products) is exact over a table that does not change
\* during the walk, for any filters, limits, caps and budgets: the pages are disjoint
\* and together all that QueryProducts selects, however short the cap and the budget
\* made each of them.
THEOREM OffsetExact == Spec => []OffsetExactWhenQuiet
<1>1. ASSUME TypeOK, WalkInv PROVE OffsetExactWhenQuiet
  <2> SUFFICES ASSUME NEW w \in Walks \ KeysetWalks, wpc[w] = "done", quiet[w]
               PROVE  got[w] = Selected(table, filter[w]) /\ offset[w] = Cardinality(got[w])
    BY DEF OffsetExactWhenQuiet
  <2>1. got[w] = FirstRows(Selected(table, filter[w]), offset[w]) /\ offset[w] = Cardinality(got[w])
    BY <1>1 DEF WalkInv, OffsetInv
  <2>2. Selected(table, filter[w]) \subseteq got[w]
    BY <1>1 DEF WalkInv, DoneInv
  <2> QED
    BY <2>1, <2>2 DEF FirstRows
<1> QED
  BY <1>1, WalkInvariant, PTL

\* FilterPrices shows a price only if its description satisfies the regex read with its
\* lookarounds, in the shapes that are emulated, and over a quiet table every price that
\* does, lookaheads read as MatchRegexPattern reads them, with `$' and escapes thrown away:
\* for any texts, patterns, tables and walks.
THEOREM EmulationHolds == Spec => []EmulationIsFaithful
<1>1. ASSUME TypeOK, WalkInv, NEW w \in Walks, NEW s \in shown[w], NEW q,
             q = normalizeRegexForPrefix(s[1].descriptionRegex),
             "descriptionRegex" \in DOMAIN s[1], Emulated(q)
      PROVE  Denotes(q, s[2].description)
  <2>1. ShownBy(filter[w], s)
    BY <1>1 DEF WalkInv, ShownInv
  <2>2. PICK pf \in filter[w].prices, row \in Rows : \E price \in row.prices :
               s = <<pf, price>> /\ PriceMatches(price, pf)
    BY <2>1 DEF ShownBy
  <2>3. PICK price \in row.prices : s = <<pf, price>> /\ PriceMatches(price, pf)
    BY <2>2
  <2>4. s[1] = pf /\ s[2] = price
    BY <2>3
  <2>5. MatchRegexPattern(pf.descriptionRegex, price.description)
    BY <1>1, <2>3, <2>4 DEF PriceMatches
  <2>6. filter[w] \in Filters
    BY <1>1 DEF TypeOK
  <2>7. pf.descriptionRegex \in Regexes /\ price.description \in Texts
    BY <1>1, <2>4, <2>6, TextAssumption
  <2> QED
    BY <1>1, <2>4, <2>5, <2>7, EmulationSound
<1>2. ASSUME TypeOK, WalkInv, NEW w \in Walks, wpc[w] = "done", quiet[w],
             NEW pf \in filter[w].prices, NEW price \in Listed(w), NEW q,
             q = normalizeRegexForPrefix(pf.descriptionRegex),
             DOMAIN pf = {"descriptionRegex"}, EmulatedExactly(q), Denotes(TakenFor(q), price.description)
      PROVE  <<pf, price>> \in shown[w]
  <2>1. PICK p \in Selected(table, filter[w]) : price \in table[p].prices
    BY DEF Listed
  <2>2. table[p] \in Rows /\ filter[w] \in Filters
    BY <1>2 DEF TypeOK, Selected
  <2>3. pf.descriptionRegex \in Regexes /\ price.description \in Texts
    BY <1>2, <2>1, <2>2, TextAssumption
  <2>4. MatchRegexPattern(pf.descriptionRegex, price.description)
    BY <1>2, <2>3, EmulationExact
  <2>5. PriceMatches(price, pf)
    BY <1>2, <2>4 DEF PriceMatches
  <2>6. <<pf, price>> \in PricesOf(p, filter[w])
    BY <2>1, <2>5 DEF PricesOf, FilterPrices
  <2>7. p \in got[w]
    BY <1>2 DEF WalkInv, DoneInv
  <2> QED
    BY <1>2, <2>6, <2>7 DEF WalkInv, ShownInv
<1>3. TypeOK /\ WalkInv => EmulationIsFaithful
  BY <1>1, <1>2 DEF EmulationIsFaithful
<1> QED
  BY <1>3, WalkInvariant, PTL
=============================================================================
