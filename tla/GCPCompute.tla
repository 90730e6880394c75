----------------------------- MODULE GCPCompute -----------------------------
(***************************************************************************)
(* The Compute Engine part of GCPScraper: pages of SKUs fetched with       *)
(* retries, each SKU turned into a product per region, and machine types   *)
(* synthesized from the CPU and RAM prices among them, scrape after scrape *)
(* of the same catalogue.  A SKU keeps its regions, what its description   *)
(* matches (a family's core or RAM, and whether it is a SUD or commitment  *)
(* SKU), its purchase option and the prices of its tiers.  A page is one   *)
(* SKU: pages come in whatever order the API lists them.                   *)
(***************************************************************************)
EXTENDS Integers, Sequences, FiniteSets, SequencesExt

CONSTANTS
  SKUs,          \* SKUs the API may list: [regions, part, family, excluded, option, rates]
  MaxSKUs,       \* bound: SKUs of one catalogue
  MachineTypes,  \* gcpMachineTypes: [family, cpus, ramGB]
  MaxRetries,    \* attempts at one page (3)
  MaxRepeated,   \* bound: products fetched, up to which a page may come again
  MaxScrapes     \* bound: scrapes

VARIABLES
  feed,             \* everything the API lists
  rest, attempt,    \* pages not yet fetched, tries of the next one
  computeProducts,  \* products in order of arrival
  step,             \* "fetching", then "fetched" or "error", and "done"
  index, indexed,   \* cpuPrices and ramPrices, and how many products they cover
  stored,           \* prices of each machine type's row, << >> for no row
  scrapes           \* scrapes begun

vars == <<feed, rest, attempt, computeProducts, step, index, indexed, stored, scrapes>>

Regions == UNION {sku.regions : sku \in SKUs}
Options == {sku.option : sku \in SKUs}
Families == {sku.family : sku \in SKUs} \cup {m.family : m \in MachineTypes}
Keys == {"cpu", "ram"} \X Families \X Regions \X Options
NoPrices == [k \in Keys |-> 0]
Rows == MachineTypes \X Regions

-----------------------------------------------------------------------------
(* SKUs *)

\* A product per region, none for a SKU without tiers.
transformSKU(sku) ==
  IF sku.rates = << >> THEN {}
  ELSE {[sku |-> sku, region |-> region, prices |-> sku.rates] : region \in sku.regions}

Init ==
  /\ feed \in UNION {kSubset(n, SKUs) : n \in 0 .. MaxSKUs}
  /\ rest = feed
  /\ attempt = 0
  /\ computeProducts = << >>
  /\ step = "fetching"
  /\ index = NoPrices /\ indexed = 0
  /\ stored = [row \in Rows |-> << >>]
  /\ scrapes = 1

\* The next page, or one that was fetched already when the token has expired.
FetchPage(sku) ==
  /\ step = "fetching"
  /\ sku \in rest \/ (sku \in feed /\ Len(computeProducts) < MaxRepeated)
  /\ \E products \in SetToSeqs(transformSKU(sku)) : computeProducts' = computeProducts \o products
  /\ rest' = rest \ {sku}
  /\ attempt' = 0
  /\ UNCHANGED <<feed, step, index, indexed, stored, scrapes>>

\* Mutant: a page that keeps failing ends the loop like a last page.
MutantAfterFailure(retryable) == IF retryable /\ attempt < MaxRetries - 1 THEN "fetching" ELSE "fetched"

AfterFailure(retryable) == IF retryable /\ attempt < MaxRetries - 1 THEN "fetching" ELSE "error"

\* Network errors, 429 and 5xx are retried; other statuses and bodies that do not
\* decode are not, nor is anything once the context is done.
FetchFails(retryable) ==
  /\ step = "fetching"
  /\ step' = AfterFailure(retryable)
  /\ attempt' = attempt + 1
  /\ UNCHANGED <<feed, rest, computeProducts, index, indexed, stored, scrapes>>

\* A page without a next token.
LastPage ==
  /\ step = "fetching" /\ rest = {}
  /\ step' = "fetched"
  /\ UNCHANGED <<feed, rest, attempt, computeProducts, index, indexed, stored, scrapes>>

-----------------------------------------------------------------------------
(* Machine types *)

Lowest(S) == CHOOSE v \in S : \A w \in S : v <= w

\* Mutant: the last SKU wins.
MutantLower(old, v) == v

Lower(old, v) == IF old = 0 \/ v < old THEN v ELSE old

\* A product's prices entered in the index; zero prices are skipped, so 0 is no entry.
Indexed(product) ==
  LET sku == product.sku
      paid == {product.prices[i] : i \in DOMAIN product.prices} \ {0}
  IN IF sku.excluded \/ paid = {} THEN index
     ELSE [index EXCEPT ![<<sku.part, sku.family, product.region, sku.option>>] = Lower(@, Lowest(paid))]

indexCPURAMPrices ==
  /\ step = "fetched" /\ indexed < Len(computeProducts)
  /\ index' = Indexed(computeProducts[indexed + 1])
  /\ indexed' = indexed + 1
  /\ UNCHANGED <<feed, rest, attempt, computeProducts, step, stored, scrapes>>

cpuPrice(row, o) == index[<<"cpu", row[1].family, row[2], o>>]
ramPrice(row, o) == index[<<"ram", row[1].family, row[2], o>>]

\* Where a machine type is sold: under the options that have a core and a RAM price.
Sold(row) == {o \in Options : cpuPrice(row, o) # 0 /\ ramPrice(row, o) # 0}

\* Its prices, in the order Go's map iteration brings the options.
MachinePrices(row, order) ==
  [i \in DOMAIN order |->
     [option |-> order[i], usd |-> cpuPrice(row, order[i]) * row[1].cpus + ramPrice(row, order[i]) * row[1].ramGB]]

\* synthesizeMachineTypes, handed over and upserted: a machine type without prices
\* is not, and a row is rewritten when its prices, an ordered JSONB array, differ.
\* The index is gone when it returns.
synthesizeMachineTypes ==
  LET Orders == [row \in Rows |-> SetToSeqs(Sold(row))]
  IN /\ step = "fetched" /\ indexed = Len(computeProducts)
     /\ \E order \in [Rows -> UNION {Orders[row] : row \in Rows}] :
          /\ \A row \in Rows : order[row] \in Orders[row]
          /\ stored' = [row \in Rows |->
               IF order[row] = << >> THEN stored[row] ELSE MachinePrices(row, order[row])]
     /\ step' = "done"
     /\ index' = NoPrices /\ indexed' = 0
     /\ UNCHANGED <<feed, rest, attempt, computeProducts, scrapes>>

\* The next scrape of an unchanged catalogue; a failed service synthesizes nothing.
Rescrape ==
  /\ step \in {"done", "error"} /\ scrapes < MaxScrapes
  /\ rest' = feed
  /\ attempt' = 0
  /\ computeProducts' = << >>
  /\ step' = "fetching"
  /\ scrapes' = scrapes + 1
  /\ UNCHANGED <<feed, index, indexed, stored>>

Next ==
  \/ \E sku \in SKUs : FetchPage(sku)
  \/ \E retryable \in BOOLEAN : FetchFails(retryable)
  \/ LastPage \/ indexCPURAMPrices \/ synthesizeMachineTypes \/ Rescrape

Spec == Init /\ [][Next]_vars

-----------------------------------------------------------------------------

\* Complete or nothing: a Compute Engine scrape that goes on to machine types has a
\* product for every priced SKU the API listed, in each of its regions.
EverySKUPriced ==
  step \in {"fetched", "done"} =>
    \A sku \in feed : sku.rates # << >> =>
      \A region \in sku.regions :
        \E i \in DOMAIN computeProducts :
          computeProducts[i].sku = sku /\ computeProducts[i].region = region

\* What the catalogue charges, read in no order, for a part of a family.
ListPrices(part, family, region, o) ==
  {v \in UNION {ToSet(sku.rates) : sku \in {s \in feed :
      s.part = part /\ s.family = family /\ region \in s.regions /\ s.option = o /\ ~s.excluded}} : v > 0}

\* A machine type is offered in a region under exactly the purchase options that
\* have both core and RAM prices there, once each, at the lowest of either times
\* its size, whatever the order of the pages and however often one comes.  (The
\* code says otherwise of itself: see LastMatchWins.)
MachineTypesAreSums ==
  step = "done" =>
    \A row \in Rows :
      LET cpu(o) == ListPrices("cpu", row[1].family, row[2], o)
          ram(o) == ListPrices("ram", row[1].family, row[2], o)
          offered == {o \in Options : cpu(o) # {} /\ ram(o) # {}}
      IN /\ Len(stored[row]) = Cardinality(offered)
         /\ ToSet(stored[row]) =
              {[option |-> o, usd |-> Lowest(cpu(o)) * row[1].cpus + Lowest(ram(o)) * row[1].ramGB] : o \in offered}

\* gcp.go:455-457, above the patterns: "if multiple SKUs match (e.g. with and
\* without SUD), the map-overwrite behavior means last match wins".  Nothing is
\* overwritten by a higher price (VendorMatchOrder.cfg).
LastMatchWins ==
  LET Paid(i) == {computeProducts[i].prices[j] : j \in DOMAIN computeProducts[i].prices} \ {0}
      Key(i) == LET p == computeProducts[i] IN <<p.sku.part, p.sku.family, p.region, p.sku.option>>
      Matches(k) == {i \in DOMAIN computeProducts : Key(i) = k /\ ~computeProducts[i].sku.excluded /\ Paid(i) # {}}
  IN step = "fetched" /\ indexed = Len(computeProducts) =>
       \A k \in Keys : \A i \in Matches(k) : (\A j \in Matches(k) : j <= i) => index[k] \in Paid(i)
=============================================================================
