---------------------------- MODULE AWSPriceFile ----------------------------
(***************************************************************************)
(* AWSScraper.scrapeService: one price file, decoded as it streams in and  *)
(* then turned into products.  A file is a sequence of top-level sections: *)
(* `products' with one entry per SKU, `terms' with one entry per term      *)
(* type, and others that are skipped.  The stream may break at any moment. *)
(* A term type lists price dimensions: SKU, unit and an amount in dollars  *)
(* or yuan; a product is where it is.  Attributes nothing is decided by    *)
(* are left out, and so is the order of a product's prices.                *)
(***************************************************************************)
EXTENDS Integers, Sequences, FiniteSets

CONSTANTS
  Files,               \* price files: sequences of [key, entries]
  awsLocationToRegion, \* location names and region codes
  UnitsPerYuan,        \* precision of the conversion, in units of a dollar ...
  cnyUSDRate           \* ... and its rate

VARIABLES
  file,             \* what AWS serves
  section, entry,   \* the decoder: section (0 before the first), entry in it
  inside,           \* ... and whether that section is open
  raw,              \* awsRawPricing
  parsed,           \* "fetching", "decoding", "decoded", then "ok" or "error"
  list,             \* the product list
  endedEarly        \* history: the stream broke between two sections

awsVars == <<file, section, entry, inside, raw, parsed, list, endedEarly>>

-----------------------------------------------------------------------------
(* Decoding *)

NoPricing == [products |-> {}, OnDemand |-> {}, Reserved |-> {}]

Init ==
  /\ file \in Files
  /\ section = 0 /\ entry = 0 /\ inside = FALSE
  /\ raw = NoPricing
  /\ parsed = "fetching"
  /\ list = {}
  /\ endedEarly = FALSE

\* The response headers, the gzip header and the opening brace.
fetchGzip(ok) ==
  /\ parsed = "fetching"
  /\ parsed' = IF ok THEN "decoding" ELSE "error"
  /\ UNCHANGED <<file, section, entry, inside, raw, list, endedEarly>>

NextSection ==
  /\ parsed = "decoding" /\ ~inside /\ section < Len(file)
  /\ section' = section + 1 /\ entry' = 0 /\ inside' = TRUE
  /\ UNCHANGED <<file, raw, parsed, list, endedEarly>>

\* One SKU, one term type, or something to skip.
Taken(e) ==
  CASE file[section].key = "products" -> [raw EXCEPT !.products = @ \cup {e}]
    [] file[section].key = "terms" /\ e.type = "OnDemand" -> [raw EXCEPT !.OnDemand = @ \cup e.dimensions]
    [] file[section].key = "terms" /\ e.type = "Reserved" -> [raw EXCEPT !.Reserved = @ \cup e.dimensions]
    [] OTHER -> raw

DecodeEntry ==
  /\ inside /\ parsed = "decoding" /\ entry < Len(file[section].entries)
  /\ entry' = entry + 1
  /\ raw' = Taken(file[section].entries[entry + 1])
  /\ UNCHANGED <<file, section, inside, parsed, list, endedEarly>>

CloseSection ==
  /\ inside /\ parsed = "decoding" /\ entry = Len(file[section].entries)
  /\ inside' = FALSE
  /\ UNCHANGED <<file, section, entry, raw, parsed, list, endedEarly>>

EndOfFile ==
  /\ parsed = "decoding" /\ ~inside /\ section = Len(file)
  /\ parsed' = "decoded"
  /\ UNCHANGED <<file, section, entry, inside, raw, list, endedEarly>>

\* Mutant: the closing brace of a section is not waited for.
MutantAfterBreak == "decoded"

\* decoder.More is false for an error too: inside a section the closing brace or the
\* value is missed, between two sections the loop ends like at the end of the file.
AfterBreak == IF inside THEN "error" ELSE "decoded"

StreamBreaks ==
  /\ parsed = "decoding"
  /\ parsed' = AfterBreak
  /\ endedEarly' = (~inside /\ section < Len(file))
  /\ UNCHANGED <<file, section, entry, inside, raw, list>>

-----------------------------------------------------------------------------
(* Products *)

\* A region proper has a code of its own, or a name that has one; a zone keeps its
\* name although it carries the code of its parent.
awsProductRegion(p) ==
  IF p.regionCode # "" /\ p.locationType = "AWS Region" THEN p.regionCode
  ELSE IF p.location \in DOMAIN awsLocationToRegion THEN awsLocationToRegion[p.location]
  ELSE IF p.location \in {"Any", "Global"} THEN "" ELSE p.location

\* At most one: what does not parse is no amount.
cnyToUSD(cny) == IF cny.number THEN {(cny.value * UnitsPerYuan) \div cnyUSDRate} ELSE {}

Dollars(d) == IF d.usd.given THEN {d.usd.value} ELSE IF d.cny.given THEN cnyToUSD(d.cny) ELSE {}

OnDemandPrices(dims, sku) ==
  UNION {{[option |-> "on_demand", unit |-> d.unit, usd |-> usd] : usd \in Dollars(d)} :
           d \in {e \in dims : e.sku = sku}}

\* A quantity is the upfront fee.
ReservedPrices(dims, sku) ==
  UNION {{[option |-> "reserved", unit |-> d.unit, usd |-> usd] : usd \in Dollars(d)} :
           d \in {e \in dims : e.sku = sku /\ e.unit # "Quantity"}}

Prices(pricing, sku) == OnDemandPrices(pricing.OnDemand, sku) \cup ReservedPrices(pricing.Reserved, sku)

\* Products without a price are not handed over.
buildProductList ==
  /\ parsed = "decoded"
  /\ parsed' = "ok"
  /\ list' = {[sku |-> p.sku, region |-> awsProductRegion(p), prices |-> Prices(raw, p.sku)] :
                p \in {q \in raw.products : Prices(raw, q.sku) # {}}}
  /\ UNCHANGED <<file, section, entry, inside, raw, endedEarly>>

Next ==
  \/ \E ok \in BOOLEAN : fetchGzip(ok)
  \/ NextSection \/ DecodeEntry \/ CloseSection \/ EndOfFile \/ StreamBreaks
  \/ buildProductList

Spec == Init /\ [][Next]_awsVars

-----------------------------------------------------------------------------
(* Properties *)

Entries(key) == UNION {{file[i].entries[j] : j \in DOMAIN file[i].entries} :
                         i \in {k \in DOMAIN file : file[k].key = key}}

Dimensions(type) == UNION {e.dimensions : e \in {x \in Entries("terms") : x.type = type}}

\* Complete or nothing: a price file that parses gives every SKU that has an amount in
\* some term its product, with a price for each such term, wherever in the file its
\* product and its terms are; a stream that breaks inside a section fails the service.
\* (One that breaks between two sections is taken for a whole file.)
EveryTermPriced ==
  parsed = "ok" /\ ~endedEarly =>
    \A p \in Entries("products"), type \in {"OnDemand", "Reserved"} :
      \A d \in Dimensions(type) :
        d.sku = p.sku /\ Dollars(d) # {} /\ ~(type = "Reserved" /\ d.unit = "Quantity") =>
          \E x \in list : /\ x.sku = p.sku
                          /\ \E price \in x.prices : price.unit = d.unit /\ price.usd \in Dollars(d)
=============================================================================
