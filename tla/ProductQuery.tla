---------------------------- MODULE ProductQuery ----------------------------
(***************************************************************************)
(* QueryProducts as a client pages through it while scrapes change the     *)
(* table: the WHERE clause that buildProductQuery renders from a filter,   *)
(* the limit after EffectiveLimit and the request's budget, the two ways   *)
(* to continue, keyset (AfterHash) and OFFSET, and the prices of each      *)
(* product that FilterPrices lets through.  GraphQL's `products' continues *)
(* by OFFSET, Go callers of internal/db may do either.  Rows are ordered   *)
(* by product hash; a product stands for its hash.  A query that fails     *)
(* returns no rows and the client sends it again.                          *)
(***************************************************************************)
EXTENDS Integers, Sequences, FiniteSets, PatternMatch

CONSTANTS
  Products,          \* product hashes
  Rows, NoRow,       \* contents of a row: [columns, attributes, prices]
  Filters,           \* ProductFilter with the filters of its prices fields
  Walks,             \* clients, each walking once
  KeysetWalks,       \* those that continue from a cursor
  Allowances,        \* products left in a request's budget, -1 for no cap
  Canonical,         \* a purchase option in lower case without separators
  MaxProductLimit,   \* 5000
  MaxChanges         \* bound: changes of the table

ASSUME QueryAssumption ==
  /\ Products \subseteq Nat \ {0} /\ IsFiniteSet(Products)
  /\ NoRow \notin Rows /\ KeysetWalks \subseteq Walks
  /\ \A f \in Filters : f.limit \in Int
  /\ Allowances \subseteq Int \ {0}
  /\ MaxProductLimit \in Nat \ {0}
  /\ MaxChanges \in Nat

\* Descriptions are texts, and the regexes of prices fields are patterns.
ASSUME TextAssumption ==
  /\ \A row \in Rows : \A price \in row.prices : price.description \in Texts
  /\ \A f \in Filters : \A pf \in f.prices :
       "descriptionRegex" \in DOMAIN pf => pf.descriptionRegex \in Regexes

VARIABLES
  table, changes,           \* products; changes so far
  wpc, filter,              \* each client
  cursor, offset,           \* ... where its walk is: the last hash, the rows so far
  got, shown,               \* ... the products and, by prices field, the prices it got
  steady, quiet             \* history: what matched ever since; did nothing change?

walkVars == <<wpc, filter, cursor, offset, got, shown>>
vars == <<table, changes, walkVars, steady, quiet>>

-----------------------------------------------------------------------------
(* The WHERE clause *)

\* One attribute filter: containment, a regex, or nothing.
AttributeClause(af, attributes) ==
  CASE af.kind = "value" -> af.key \in DOMAIN attributes /\ attributes[af.key] = af.value
    [] af.kind = "regex" -> \/ af.pattern.form = "open"
                            \/ af.key \in DOMAIN attributes /\ PostgresClause(af.pattern, attributes[af.key])
    [] OTHER -> TRUE

\* Products whose usage type is global overlap with regional ones.
NotGlobal(attributes) == "usagetype" \in DOMAIN attributes => attributes["usagetype"][1] # "Global"

Matches(row, f) ==
  /\ \A c \in DOMAIN f.columns : row.columns[c] = f.columns[c]
  /\ "region" \in DOMAIN f.columns => NotGlobal(row.attributes)
  /\ \A i \in DOMAIN f.attributes : AttributeClause(f.attributes[i], row.attributes)

Selected(t, f) == {p \in Products : t[p] # NoRow /\ Matches(t[p], f)}

\* validateProductFilter, and the length buildProductQuery checks.
Accepted(f) ==
  /\ \A c \in {"vendorName", "service"} : c \in DOMAIN f.columns /\ f.columns[c] # ""
  /\ \A i \in DOMAIN f.attributes : f.attributes[i].kind = "regex" => ~f.attributes[i].pattern.long

-----------------------------------------------------------------------------
(* The prices *)

normalizePurchaseOption(option) == Canonical[option]

\* A filter of a prices field is a record of the arguments that are given; `unit' stands
\* for all that have to be equal as they are.
PriceMatches(price, pf) ==
  /\ "purchaseOption" \in DOMAIN pf =>
       normalizePurchaseOption(price.purchaseOption) = normalizePurchaseOption(pf.purchaseOption)
  /\ "unit" \in DOMAIN pf => price.unit = pf.unit
  /\ "startUsageAmount" \in DOMAIN pf =>
       pf.startUsageAmount = IF price.startUsageAmount = "" THEN "0" ELSE price.startUsageAmount
  /\ "descriptionRegex" \in DOMAIN pf => MatchRegexPattern(pf.descriptionRegex, price.description)

FilterPrices(prices, pf) == {price \in prices : PriceMatches(price, pf)}

\* The prices fields of one product.
PricesOf(p, f) == UNION {{pf} \X FilterPrices(table[p].prices, pf) : pf \in f.prices}

-----------------------------------------------------------------------------
(* ORDER BY product_hash LIMIT ... *)

EffectiveLimit(requested) ==
  IF requested <= 0 \/ requested > MaxProductLimit THEN MaxProductLimit ELSE requested

\* What the request's budget leaves of a limit.
reserve(limit, left) == IF left > 0 /\ limit > left THEN left ELSE limit

\* Mutant: the cursor's own row comes again.
MutantAfter(S, after) == {p \in S : p >= after}

\* AND product_hash > cursor; before the first page there is none.
After(S, after) == IF after = 0 THEN S ELSE {p \in S : p > after}

Rank(S, p) == Cardinality({q \in S : q < p})

\* Mutant: OFFSET skips one row too many.
MutantLimit(S, skip, n) == {p \in S : skip < Rank(S, p) /\ Rank(S, p) <= skip + n}

Limit(S, skip, n) == {p \in S : skip <= Rank(S, p) /\ Rank(S, p) < skip + n}

\* A cursor makes the offset count for nothing.
Page(w, n) ==
  LET S == Selected(table, filter[w])
  IN IF w \in KeysetWalks THEN Limit(After(S, cursor[w]), 0, n) ELSE Limit(S, offset[w], n)

-----------------------------------------------------------------------------

TypeOK ==
  /\ table \in [Products -> Rows \cup {NoRow}] /\ changes \in Nat
  /\ wpc \in [Walks -> {"walking", "refused", "done"}]
  /\ filter \in [Walks -> Filters]
  /\ cursor \in [Walks -> {0} \cup Products] /\ offset \in [Walks -> Nat]
  /\ got \in [Walks -> SUBSET Products] /\ steady \in [Walks -> SUBSET Products]
  /\ quiet \in [Walks -> BOOLEAN]

Init ==
  /\ table \in [Products -> Rows \cup {NoRow}] /\ changes = 0
  /\ wpc = [w \in Walks |-> "walking"]
  /\ filter \in [Walks -> Filters]
  /\ cursor = [w \in Walks |-> 0] /\ offset = [w \in Walks |-> 0]
  /\ got = [w \in Walks |-> {}]
  /\ shown = [w \in Walks |-> {}]
  /\ steady = [w \in Walks |-> Selected(table, filter[w])]
  /\ quiet = [w \in Walks |-> TRUE]

\* A filter that is too broad, or a regex that is too long.
Refuse(w) ==
  /\ wpc[w] = "walking" /\ ~Accepted(filter[w])
  /\ wpc' = [wpc EXCEPT ![w] = "refused"]
  /\ UNCHANGED <<table, changes, filter, cursor, offset, got, shown, steady, quiet>>

\* One query and what the client makes of it.  A page may be shorter than asked for,
\* because of the server's cap or the budget, so only an empty one ends the walk.
FetchPage(w, left) ==
  LET page == Page(w, reserve(EffectiveLimit(filter[w].limit), left))
  IN /\ wpc[w] = "walking" /\ Accepted(filter[w])
     /\ \/ /\ page = {}
           /\ wpc' = [wpc EXCEPT ![w] = "done"]
           /\ UNCHANGED <<cursor, offset, got, shown>>
        \/ /\ got' = [got EXCEPT ![w] = @ \cup page]
           /\ offset' = [offset EXCEPT ![w] = @ + Cardinality(page)]
           /\ \E last \in page :
                /\ \A p \in page : p <= last
                /\ cursor' = [cursor EXCEPT ![w] = last]
           /\ shown' = [shown EXCEPT ![w] = @ \cup UNION {PricesOf(p, filter[w]) : p \in page}]
           /\ UNCHANGED wpc
     /\ UNCHANGED <<table, changes, filter, steady, quiet>>

\* A scrape's upsert or stale cleanup.
ChangeRow(p, row) ==
  /\ changes < MaxChanges /\ row # table[p]
  /\ table' = [table EXCEPT ![p] = row]
  /\ changes' = changes + 1
  /\ steady' = [w \in Walks |-> steady[w] \cap Selected(table', filter[w])]
  /\ quiet' = [w \in Walks |-> FALSE]
  /\ UNCHANGED walkVars

Next ==
  \/ \E w \in Walks : Refuse(w) \/ \E left \in Allowances : FetchPage(w, left)
  \/ \E p \in Products, row \in Rows \cup {NoRow} : ChangeRow(p, row)

Spec == Init /\ [][Next]_vars

-----------------------------------------------------------------------------
(* Properties *)

Promise == INSTANCE Enumeration WITH
  Readers <- KeysetWalks,
  matching <- [w \in KeysetWalks |-> Selected(table, filter[w])],
  owed <- [w \in KeysetWalks |-> steady[w] \ got[w]],
  returned <- [w \in KeysetWalks |-> got[w]],
  delivered <- [w \in KeysetWalks |-> offset[w]],
  finished <- {w \in KeysetWalks : wpc[w] = "done"}

\* A keyset walk implements Enumeration while rows come and go: no product is
\* returned twice, and one that matches from the beginning to the end is returned.
KeysetKeepsPromise == Promise!Spec

\* With OFFSET that holds of a table that is quiet: then the pages are a partition of
\* what the filter selects, whatever limit the cap and the budget leave each page.
OffsetExactWhenQuiet ==
  \A w \in Walks \ KeysetWalks :
    wpc[w] = "done" /\ quiet[w] =>
      got[w] = Selected(table, filter[w]) /\ offset[w] = Cardinality(got[w])

Listed(w) == UNION {table[p].prices : p \in Selected(table, filter[w])}

\* A price is shown only where its description satisfies the regex, read as a regex
\* with lookarounds, in the shapes that are emulated; and on a quiet table it is shown
\* where it satisfies the regex as the emulation takes it (TakenFor), which is not
\* always what the regex says: see LookaheadsHandled.
EmulationIsFaithful ==
  \A w \in Walks :
    /\ \A s \in shown[w] :
         LET q == normalizeRegexForPrefix(s[1].descriptionRegex)
         IN "descriptionRegex" \in DOMAIN s[1] /\ Emulated(q) => Denotes(q, s[2].description)
    /\ wpc[w] = "done" /\ quiet[w] =>
         \A pf \in filter[w].prices, price \in Listed(w) :
           LET q == normalizeRegexForPrefix(pf.descriptionRegex)
           IN DOMAIN pf = {"descriptionRegex"} /\ EmulatedExactly(q) /\ Denotes(TakenFor(q), price.description)
                => <<pf, price>> \in shown[w]

\* queries.go:306-307: matchWithNegativeLookahead "handles patterns like
\* ^(?!.*(Excluded1|Excluded2)$).*$".  The `$' is thrown away: a price whose description
\* has a word of the group anywhere is not shown, although the regex only rejects those
\* that end in one (ProductLookahead.cfg).
LookaheadsHandled ==
  \A w \in Walks :
    wpc[w] = "done" /\ quiet[w] =>
      \A pf \in filter[w].prices, price \in Listed(w) :
        DOMAIN pf = {"descriptionRegex"} /\ Documented(pf.descriptionRegex)
          /\ Denotes(pf.descriptionRegex, price.description) => <<pf, price>> \in shown[w]
=============================================================================
