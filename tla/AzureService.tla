---------------------------- MODULE AzureService ----------------------------
(***************************************************************************)
(* AzureScraper.scrapeService: the pages of one service's price rows, each *)
(* fetched with retries, folded by azureProductBuilder into products.  A   *)
(* row keeps its product, the region it is listed under, whether that is   *)
(* the meter's primary region, what it prices (tier: purchase option, tier *)
(* start and term; unit) and its price.  A page is one row: rows come in   *)
(* whatever order the API lists them.                                      *)
(***************************************************************************)
EXTENDS Integers, Sequences, FiniteSets, SequencesExt

CONSTANTS
  Rows,        \* rows the API may list: [name, region, primary, tier, unit, usd]
  MaxRows,     \* bound: rows of one feed
  Kinds,       \* service names, as far as they choose regions
  VersionOf,   \* normalizeAzureProductName
  SkipNames,   \* products skipPrimaryMeterFilter exempts
  MaxRetries   \* attempts at one page (5)

VARIABLES
  kind, feed,   \* the service and everything the API lists for it
  rest,         \* rows not yet fetched
  attempt,      \* of the page being fetched
  prices,       \* the builder: per product key the prices in order of arrival
  result        \* "fetching", then "ok" or "error"

vars == <<kind, feed, rest, attempt, prices, result>>

-----------------------------------------------------------------------------
(* Regions *)

Gov == {"usgovvirginia"}
China == {"chinaeast"}
Germany == {"germanynorth"}

azureConvertRegion(region) ==
  IF region \in Gov THEN "US Gov" ELSE IF region \in China THEN "China" ELSE "Global"

azureDNSZoneRegion(region) ==
  IF region \in Gov THEN "US Gov Zone 1"
  ELSE IF region \in Germany THEN "DE Zone 1"
  ELSE IF region \in China THEN "Zone 1 (China)" ELSE "Zone 1"

VirtualRegions == {"Global", "US Gov", "China", "Zone 1", "US Gov Zone 1", "DE Zone 1", "Zone 1 (China)"}

isVirtualRegion(region) == region \in VirtualRegions

usesVirtualRegions == kind \in {"Azure DNS", "VPN Gateway", "Load Balancer"}

azureProductRegions(row) ==
  LET own == IF row.region = "" THEN {} ELSE {row.region}
      converted == IF kind \in {"Load Balancer", "VPN Gateway"} THEN {azureConvertRegion(row.region)} ELSE {}
      zone == IF kind \in {"Azure DNS", "VPN Gateway"} THEN {azureDNSZoneRegion(row.region)} ELSE {}
      all == own \cup converted \cup zone
  IN IF all = {} THEN {"Global"} ELSE all

-----------------------------------------------------------------------------
(* The builder *)

productKey(row, region) == <<VersionOf[row.name], region>>

Regions == VirtualRegions \cup {row.region : row \in Rows}
Keys == {productKey(row, region) : row \in Rows, region \in Regions}

Authoritative(row) == row.primary \/ usesVirtualRegions \/ row.name \in SkipNames

Price(row) == [tier |-> row.tier, unit |-> row.unit, usd |-> row.usd, primary |-> Authoritative(row)]

add(row) ==
  prices' = [k \in Keys |->
    IF \E region \in azureProductRegions(row) : k = productKey(row, region)
      THEN Append(prices[k], Price(row)) ELSE prices[k]]

azurePriceSlot(p) == <<p.tier, p.unit>>

\* Mutant: non-primary rows are kept beside primary ones.
MutantKept(ps) == DOMAIN ps

\* The places of what stays: a slot with a primary price keeps only its primary prices.
Kept(ps) ==
  {i \in DOMAIN ps :
     ps[i].primary \/ ~\E j \in DOMAIN ps : ps[j].primary /\ azurePriceSlot(ps[j]) = azurePriceSlot(ps[i])}

Fact(p) == [tier |-> p.tier, unit |-> p.unit, usd |-> p.usd]

\* Exact duplicates go; what is left is a set.
deduplicatePrices(ps, kept) == {Fact(ps[i]) : i \in kept}

\* Mutant: the first price of a tier stays.
MutantByTier(ps, kept) ==
  {Fact(ps[i]) : i \in {j \in kept : \A k \in kept : ps[k].tier = ps[j].tier => k >= j}}

\* One price per tier: the lowest, the first to come of equal ones.
deduplicatePricesByTier(ps, kept) ==
  {Fact(ps[i]) : i \in {j \in kept :
     \A k \in kept : ps[k].tier = ps[j].tier =>
       ps[k].usd > ps[j].usd \/ (ps[k].usd = ps[j].usd /\ k >= j)}}

\* The finished products: those with no price are not handed over.
products ==
  [k \in {x \in Keys : prices[x] # << >>} |->
     IF isVirtualRegion(k[2]) THEN deduplicatePricesByTier(prices[k], Kept(prices[k]))
     ELSE deduplicatePrices(prices[k], Kept(prices[k]))]

-----------------------------------------------------------------------------
(* Pages *)

Init ==
  /\ kind \in Kinds
  /\ feed \in UNION {kSubset(n, Rows) : n \in 0 .. MaxRows}
  /\ rest = feed
  /\ attempt = 0
  /\ prices = [k \in Keys |-> << >>]
  /\ result = "fetching"

\* The next page, after which the loop ends when it carries no next link.
FetchPage(row) ==
  /\ result = "fetching" /\ row \in rest
  /\ add(row)
  /\ rest' = rest \ {row}
  /\ attempt' = 0
  /\ UNCHANGED <<kind, feed, result>>

\* Mutant: a page that keeps failing ends the loop like a last page.
MutantAfterFailure(retryable) == IF retryable /\ attempt < MaxRetries - 1 THEN "fetching" ELSE "ok"

AfterFailure(retryable) == IF retryable /\ attempt < MaxRetries - 1 THEN "fetching" ELSE "error"

\* Transport errors, bad statuses and undecodable bodies are retried after a
\* backoff; a broken body or a context that is done is not.
FetchFails(retryable) ==
  /\ result = "fetching"
  /\ result' = AfterFailure(retryable)
  /\ attempt' = attempt + 1
  /\ UNCHANGED <<kind, feed, rest, prices>>

\* No next link, or a last page without rows.
Return ==
  /\ result = "fetching" /\ rest = {}
  /\ result' = "ok"
  /\ UNCHANGED <<kind, feed, rest, attempt, prices>>

Next ==
  \/ \E row \in Rows : FetchPage(row)
  \/ \E retryable \in BOOLEAN : FetchFails(retryable)
  \/ Return

Spec == Init /\ [][Next]_vars

-----------------------------------------------------------------------------

RowsFor(k) == {row \in feed : \E region \in azureProductRegions(row) : k = productKey(row, region)}

\* Complete or nothing: a service that returns products has priced every row the
\* API listed, under each of its regions (its slot, or its tier where the region
\* is a virtual one); a page that could not be fetched fails the whole service.
EveryRowPriced ==
  result = "ok" =>
    \A row \in feed : \A region \in azureProductRegions(row) :
      LET k == productKey(row, region)
      IN /\ k \in DOMAIN products
         /\ \E p \in products[k] :
              p.tier = row.tier /\ (isVirtualRegion(region) \/ p.unit = row.unit)

\* A non-primary row only fills a gap: in a region of its own a slot that has a
\* primary row is priced by exactly its primary rows, as if no other was listed.
PrimaryRowsWin ==
  result = "ok" =>
    \A k \in DOMAIN products :
      ~isVirtualRegion(k[2]) =>
        \A row \in RowsFor(k) :
          Authoritative(row) =>
            {p.usd : p \in {q \in products[k] : azurePriceSlot(q) = azurePriceSlot(row)}} =
            {r.usd : r \in {q \in RowsFor(k) : Authoritative(q) /\ azurePriceSlot(q) = azurePriceSlot(row)}}

\* Each tier has one price in a virtual region, the lowest amount any source
\* region lists, in whatever order the API lists them.  (Of equal amounts in
\* different units the first to come stays; the provider notes say otherwise of
\* the amount: see LastPriceWins.)
OneLowestPricePerTier ==
  result = "ok" /\ usesVirtualRegions =>
    \A k \in DOMAIN products :
      isVirtualRegion(k[2]) =>
        \A row \in RowsFor(k) :
          \E p \in products[k] :
            /\ p.tier = row.tier
            /\ \A q \in products[k] : q.tier = p.tier => q = p
            /\ \A r \in RowsFor(k) : r.tier = p.tier => p.usd <= r.usd

\* docs/provider-quirks.md:59-61: prices are de-duplicated "by (purchaseOption,
\* startUsageAmount, termLength) for virtual regions (last-price-wins)".  The lowest
\* does (VendorTierOrder.cfg).
LastPriceWins ==
  result = "ok" =>
    \A k \in DOMAIN products :
      isVirtualRegion(k[2]) =>
        \A i \in Kept(prices[k]) :
          (\A j \in Kept(prices[k]) : prices[k][j].tier = prices[k][i].tier => j <= i)
            => Fact(prices[k][i]) \in products[k]
=============================================================================
