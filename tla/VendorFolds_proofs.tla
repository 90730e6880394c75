------------------------- MODULE VendorFolds_proofs -------------------------
(***************************************************************************)
(* Theorems about VendorFolds, the work each scraper does on what it       *)
(* fetches, for every value of the constants.                              *)
(***************************************************************************)
EXTENDS VendorFolds, SequencesExt, FiniteSetTheorems, WellFoundedInduction, TLAPS

-----------------------------------------------------------------------------
(* AWS: the price file *)

\* What the decoder has behind it: the sections before the current one and, of that
\* one, the entries up to the last it took.
Behind(i, j) == i < section \/ (i = section /\ j <= entry)

\* Where the decoder is. Between two sections the last one is behind it as a whole.
DecoderInv ==
  /\ file \in Files /\ section \in 0 .. Len(file) /\ entry \in Nat /\ inside \in BOOLEAN
  /\ section = 0 => ~inside
  /\ section > 0 => entry <= Len(file[section].entries)
  /\ section > 0 /\ ~inside => entry = Len(file[section].entries)
  /\ parsed \in {"decoded", "ok"} => ~inside
  /\ parsed \in {"decoded", "ok"} /\ ~endedEarly => section = Len(file)

TermsTaken(type) == IF type = "OnDemand" THEN raw.OnDemand ELSE raw.Reserved

\* Everything behind the decoder is in awsRawPricing.
RawInv ==
  /\ raw = [products |-> raw.products, OnDemand |-> raw.OnDemand, Reserved |-> raw.Reserved]
  /\ \A i \in DOMAIN file : \A j \in DOMAIN file[i].entries :
       Behind(i, j) =>
         /\ file[i].key = "products" => file[i].entries[j] \in raw.products
         /\ file[i].key = "terms" =>
              \A type \in {"OnDemand", "Reserved"} :
                file[i].entries[j].type = type => file[i].entries[j].dimensions \subseteq TermsTaken(type)

\* The list is made of it.
ListInv ==
  parsed = "ok" =>
    list = {[sku |-> p.sku, region |-> AWS!awsProductRegion(p), prices |-> AWS!Prices(raw, p.sku)] :
              p \in {q \in raw.products : AWS!Prices(raw, q.sku) # {}}}

FileInv == DecoderInv /\ RawInv /\ ListInv

LEMMA InitFileInv == AWS!Init => FileInv
<1> SUFFICES ASSUME AWS!Init PROVE FileInv
  OBVIOUS
<1>1. DecoderInv
  <2>1. file \in Files /\ section = 0 /\ entry = 0 /\ ~inside /\ inside \in BOOLEAN /\ parsed = "fetching"
    BY DEF AWS!Init
  <2>2. Len(file) \in Nat
    BY <2>1, AWSAssumption DEF IsSequence
  <2> QED BY <2>1, <2>2 DEF DecoderInv
<1>2. RawInv
  <2>1. raw = [products |-> raw.products, OnDemand |-> raw.OnDemand, Reserved |-> raw.Reserved]
    BY DEF AWS!Init, AWS!NoPricing
  <2>2. ASSUME NEW i \in DOMAIN file, NEW j \in DOMAIN file[i].entries PROVE ~Behind(i, j)
    BY AWSAssumption DEF AWS!Init, Behind, IsSequence
  <2> QED BY <2>1, <2>2 DEF RawInv
<1>3. ListInv
  BY DEF AWS!Init, ListInv
<1> QED BY <1>1, <1>2, <1>3 DEF FileInv

LEMMA StepDecoderInv == DecoderInv /\ [AWS!Next]_AWS!awsVars => DecoderInv'
<1> SUFFICES ASSUME DecoderInv, [AWS!Next]_AWS!awsVars PROVE DecoderInv'
  OBVIOUS
<1>1. IsSequence(file) /\ \A i \in DOMAIN file : IsSequence(file[i].entries)
  BY AWSAssumption DEF DecoderInv
<1>2. CASE \E ok \in BOOLEAN : AWS!fetchGzip(ok)
  BY <1>2 DEF AWS!fetchGzip, DecoderInv
<1>3. CASE AWS!NextSection
  BY <1>1, <1>3 DEF AWS!NextSection, DecoderInv, IsSequence
<1>4. CASE AWS!DecodeEntry
  BY <1>1, <1>4 DEF AWS!DecodeEntry, DecoderInv, IsSequence
<1>5. CASE AWS!CloseSection
  BY <1>1, <1>5 DEF AWS!CloseSection, DecoderInv, IsSequence
<1>6. CASE AWS!EndOfFile
  BY <1>1, <1>6 DEF AWS!EndOfFile, DecoderInv, IsSequence
<1>7. CASE AWS!StreamBreaks
  <2>1. UNCHANGED <<file, section, entry, inside, raw, list>>
    BY <1>7 DEF AWS!StreamBreaks
  <2>2. CASE inside
    <3>1. parsed' = "error" BY <1>7, <2>2 DEF AWS!StreamBreaks, AWS!AfterBreak
    <3> QED BY <2>1, <3>1 DEF DecoderInv
  <2>3. CASE ~inside
    <3>1. parsed' = "decoded" /\ (~endedEarly' => ~(section < Len(file)))
      BY <1>7, <2>3 DEF AWS!StreamBreaks, AWS!AfterBreak
    <3>2. section \in 0 .. Len(file) /\ Len(file) \in Nat
      BY <1>1 DEF DecoderInv, IsSequence
    <3>3. ~endedEarly' => section = Len(file) BY <3>1, <3>2
    <3> QED BY <2>1, <2>3, <3>1, <3>3 DEF DecoderInv
  <2> QED BY <2>2, <2>3
<1>8. CASE AWS!buildProductList
  BY <1>8 DEF AWS!buildProductList, DecoderInv
<1>9. CASE UNCHANGED AWS!awsVars
  BY <1>9 DEF AWS!awsVars, DecoderInv
<1> QED BY <1>2, <1>3, <1>4, <1>5, <1>6, <1>7, <1>8, <1>9 DEF AWS!Next

\* Taking an entry adds it, and forgets nothing.
LEMMA TakenAdds ==
  ASSUME RawInv, NEW e
  PROVE  LET new == AWS!Taken(e)
         IN /\ new = [products |-> new.products, OnDemand |-> new.OnDemand, Reserved |-> new.Reserved]
            /\ raw.products \subseteq new.products
            /\ raw.OnDemand \subseteq new.OnDemand
            /\ raw.Reserved \subseteq new.Reserved
            /\ file[section].key = "products" => e \in new.products
            /\ file[section].key = "terms" /\ e.type = "OnDemand" => e.dimensions \subseteq new.OnDemand
            /\ file[section].key = "terms" /\ e.type = "Reserved" => e.dimensions \subseteq new.Reserved
<1> DEFINE P == raw.products
           O == raw.OnDemand
           R == raw.Reserved
           key == file[section].key
<1>1. raw = [products |-> P, OnDemand |-> O, Reserved |-> R]
  BY DEF RawInv
<1> HIDE DEF P, O, R
<1>2. CASE key = "products"
  <2>1. AWS!Taken(e) = [products |-> P \cup {e}, OnDemand |-> O, Reserved |-> R]
    BY <1>1, <1>2 DEF AWS!Taken
  <2> QED BY <1>1, <1>2, <2>1
<1>3. CASE key = "terms" /\ e.type = "OnDemand"
  <2>1. AWS!Taken(e) = [products |-> P, OnDemand |-> O \cup e.dimensions, Reserved |-> R]
    BY <1>1, <1>3 DEF AWS!Taken
  <2> QED BY <1>1, <1>3, <2>1
<1>4. CASE key = "terms" /\ e.type = "Reserved"
  <2>1. AWS!Taken(e) = [products |-> P, OnDemand |-> O, Reserved |-> R \cup e.dimensions]
    BY <1>1, <1>4 DEF AWS!Taken
  <2> QED BY <1>1, <1>4, <2>1
<1>5. CASE ~(key = "products" \/ (key = "terms" /\ e.type \in {"OnDemand", "Reserved"}))
  <2>1. AWS!Taken(e) = raw
    BY <1>5 DEF AWS!Taken
  <2> QED BY <1>1, <1>5, <2>1
<1> QED BY <1>2, <1>3, <1>4, <1>5

LEMMA StepRawInv ==
  DecoderInv /\ RawInv /\ [AWS!Next]_AWS!awsVars => RawInv'
<1> SUFFICES ASSUME DecoderInv, RawInv, [AWS!Next]_AWS!awsVars PROVE RawInv'
  OBVIOUS
<1>1. IsSequence(file) /\ \A i \in DOMAIN file : IsSequence(file[i].entries)
  BY AWSAssumption DEF DecoderInv
<1>2. ASSUME UNCHANGED <<file, raw>>,
             \A i \in DOMAIN file : \A j \in DOMAIN file[i].entries : Behind(i, j)' => Behind(i, j)
      PROVE  RawInv'
  BY <1>2 DEF RawInv, TermsTaken
<1>3. CASE UNCHANGED <<file, raw, section, entry>>
  <2>1. \A i, j : Behind(i, j)' <=> Behind(i, j) BY <1>3 DEF Behind
  <2> QED BY <1>2, <1>3, <2>1
<1>4. CASE AWS!NextSection
  <2>1. ASSUME NEW i \in DOMAIN file, NEW j \in DOMAIN file[i].entries, Behind(i, j)' PROVE Behind(i, j)
    BY <1>1, <1>4, <2>1 DEF AWS!NextSection, DecoderInv, IsSequence, Behind
  <2> QED BY <1>2, <1>4, <2>1 DEF AWS!NextSection
<1>5. CASE AWS!DecodeEntry
  <2> DEFINE e == file[section].entries[entry + 1]
  <2>1. raw' = AWS!Taken(e) /\ UNCHANGED <<file, section>> /\ entry' = entry + 1
    BY <1>5 DEF AWS!DecodeEntry
  <2> HIDE DEF e
  <2>2. /\ raw' = [products |-> raw'.products, OnDemand |-> raw'.OnDemand, Reserved |-> raw'.Reserved]
        /\ raw.products \subseteq raw'.products
        /\ raw.OnDemand \subseteq raw'.OnDemand
        /\ raw.Reserved \subseteq raw'.Reserved
        /\ file[section].key = "products" => e \in raw'.products
        /\ file[section].key = "terms" /\ e.type = "OnDemand" => e.dimensions \subseteq raw'.OnDemand
        /\ file[section].key = "terms" /\ e.type = "Reserved" => e.dimensions \subseteq raw'.Reserved
    BY <2>1, TakenAdds
  <2>3. ASSUME NEW i \in DOMAIN file, NEW j \in DOMAIN file[i].entries, Behind(i, j)'
        PROVE  /\ file[i].key = "products" => file[i].entries[j] \in raw'.products
               /\ file[i].key = "terms" =>
                    \A type \in {"OnDemand", "Reserved"} :
                      file[i].entries[j].type = type => file[i].entries[j].dimensions \subseteq TermsTaken(type)'
    <3>1. CASE Behind(i, j)
      BY <2>2, <3>1 DEF RawInv, TermsTaken
    <3>2. CASE ~Behind(i, j)
      <4>1. i = section /\ j = entry + 1
        <5>1. i \in Int /\ j \in Int BY <1>1 DEF IsSequence
        <5>2. section \in Int /\ entry \in Int BY DEF DecoderInv
        <5> QED BY <2>1, <2>3, <3>2, <5>1, <5>2 DEF Behind
      <4>2. file[i].entries[j] = e BY <4>1 DEF e
      <4> QED BY <2>2, <4>1, <4>2 DEF TermsTaken
    <3> QED BY <3>1, <3>2
  <2> QED BY <2>1, <2>2, <2>3 DEF RawInv
<1>6. CASE (\E ok \in BOOLEAN : AWS!fetchGzip(ok)) \/ AWS!CloseSection \/ AWS!EndOfFile
           \/ AWS!StreamBreaks \/ AWS!buildProductList \/ UNCHANGED AWS!awsVars
  BY <1>3, <1>6 DEF AWS!fetchGzip, AWS!CloseSection, AWS!EndOfFile, AWS!StreamBreaks, AWS!buildProductList, AWS!awsVars
<1> QED BY <1>4, <1>5, <1>6 DEF AWS!Next

LEMMA StepListInv == ListInv /\ [AWS!Next]_AWS!awsVars => ListInv'
<1> SUFFICES ASSUME ListInv, [AWS!Next]_AWS!awsVars, parsed' = "ok"
             PROVE  list' = {[sku |-> p.sku, region |-> AWS!awsProductRegion(p), prices |-> AWS!Prices(raw', p.sku)] :
                               p \in {q \in raw'.products : AWS!Prices(raw', q.sku) # {}}}
  BY DEF ListInv
<1>1. CASE AWS!buildProductList
  BY <1>1 DEF AWS!buildProductList
<1>2. CASE UNCHANGED AWS!awsVars
  BY <1>2 DEF AWS!awsVars, ListInv
<1>3. CASE (\E ok \in BOOLEAN : AWS!fetchGzip(ok)) \/ AWS!NextSection \/ AWS!DecodeEntry
           \/ AWS!CloseSection \/ AWS!EndOfFile \/ AWS!StreamBreaks
  BY <1>3 DEF AWS!fetchGzip, AWS!NextSection, AWS!DecodeEntry, AWS!CloseSection, AWS!EndOfFile, AWS!StreamBreaks, AWS!AfterBreak
<1> QED BY <1>1, <1>2, <1>3 DEF AWS!Next

\* A dimension with an amount that is in awsRawPricing is a price of its SKU.
LEMMA TakenIsPriced ==
  ASSUME NEW type \in {"OnDemand", "Reserved"}, NEW d \in TermsTaken(type), AWS!Dollars(d) # {},
         ~(type = "Reserved" /\ d.unit = "Quantity")
  PROVE  \E price \in AWS!Prices(raw, d.sku) : price.unit = d.unit /\ price.usd \in AWS!Dollars(d)
<1>1. PICK usd \in AWS!Dollars(d) : TRUE
  OBVIOUS
<1>2. CASE type = "OnDemand"
  <2> DEFINE price == [option |-> "on_demand", unit |-> d.unit, usd |-> usd]
  <2>1. price \in AWS!OnDemandPrices(raw.OnDemand, d.sku)
    BY <1>2 DEF AWS!OnDemandPrices, TermsTaken
  <2> QED BY <2>1 DEF AWS!Prices
<1>3. CASE type = "Reserved"
  <2> DEFINE price == [option |-> "reserved", unit |-> d.unit, usd |-> usd]
  <2>1. price \in AWS!ReservedPrices(raw.Reserved, d.sku)
    BY <1>3 DEF AWS!ReservedPrices, TermsTaken
  <2> QED BY <2>1 DEF AWS!Prices
<1> QED BY <1>2, <1>3

\* AWSScraper.scrapeService: a price file that parses, other than by a break between
\* two sections, gives every SKU with an amount its product and every amount a price,
\* for files of any shape and size.
THEOREM TermsPriced == Spec => []EveryTermPriced
<1> DEFINE Inv == vendor = "aws" => FileInv
<1>1. Init => Inv
  BY InitFileInv DEF Init
<1>2. Inv /\ [Next]_vars => Inv'
  <2>1. FileInv /\ [AWS!Next]_AWS!awsVars => FileInv'
    BY StepDecoderInv, StepRawInv, StepListInv DEF FileInv
  <2>2. [Next]_vars /\ vendor' = "aws" => vendor = "aws" /\ [AWS!Next]_AWS!awsVars
    BY DEF Next, vars, aws, AWS!awsVars
  <2> QED BY <2>1, <2>2
<1>3. Inv => EveryTermPriced
  <2> SUFFICES ASSUME FileInv, parsed = "ok", ~endedEarly,
                      NEW p \in AWS!Entries("products"), NEW type \in {"OnDemand", "Reserved"},
                      NEW d \in AWS!Dimensions(type),
                      d.sku = p.sku, AWS!Dollars(d) # {}, ~(type = "Reserved" /\ d.unit = "Quantity")
               PROVE  \E x \in list : /\ x.sku = p.sku
                                      /\ \E price \in x.prices : price.unit = d.unit /\ price.usd \in AWS!Dollars(d)
    BY DEF EveryTermPriced, AWS!EveryTermPriced
  <2>1. IsSequence(file) /\ section = Len(file) /\ \A i \in DOMAIN file : IsSequence(file[i].entries)
    BY AWSAssumption DEF FileInv, DecoderInv
  <2>2. ASSUME NEW i \in DOMAIN file, NEW j \in DOMAIN file[i].entries PROVE Behind(i, j)
    BY <2>1 DEF FileInv, DecoderInv, IsSequence, Behind
  <2>3. p \in raw.products
    <3>1. PICK i \in DOMAIN file : file[i].key = "products" /\ \E j \in DOMAIN file[i].entries : p = file[i].entries[j]
      BY DEF AWS!Entries
    <3> QED BY <2>2, <3>1 DEF FileInv, RawInv
  <2>4. d \in TermsTaken(type)
    <3>1. PICK e \in AWS!Entries("terms") : e.type = type /\ d \in e.dimensions
      BY DEF AWS!Dimensions
    <3>2. PICK i \in DOMAIN file : file[i].key = "terms" /\ \E j \in DOMAIN file[i].entries : e = file[i].entries[j]
      BY DEF AWS!Entries
    <3> QED BY <2>2, <3>1, <3>2 DEF FileInv, RawInv
  <2>5. PICK price \in AWS!Prices(raw, p.sku) : price.unit = d.unit /\ price.usd \in AWS!Dollars(d)
    BY <2>4, TakenIsPriced
  <2> DEFINE x == [sku |-> p.sku, region |-> AWS!awsProductRegion(p), prices |-> AWS!Prices(raw, p.sku)]
  <2>6. x \in list
    BY <2>3, <2>5 DEF FileInv, ListInv
  <2>7. x.sku = p.sku /\ price \in x.prices
    BY <2>5
  <2> QED BY <2>5, <2>6, <2>7
<1> QED BY <1>1, <1>2, <1>3, PTL DEF Spec

-----------------------------------------------------------------------------
(* Azure: the rows of a service *)

PriceRecords ==
  [tier : {row.tier : row \in AzureRows}, unit : {row.unit : row \in AzureRows},
   usd : {row.usd : row \in AzureRows}, primary : BOOLEAN]

\* The rows of a product that were fetched so far.
Fetched(k) == Azure!RowsFor(k) \ rest

\* The pages: a service that returns has fetched everything.
PagesInv ==
  /\ feed \subseteq AzureRows /\ rest \subseteq feed
  /\ prices \in [Azure!Keys -> Seq(PriceRecords)]
  /\ result = "ok" => rest = {}

\* The builder holds, under each key, the prices of the rows fetched for it.
FoldedInv ==
  \A k \in Azure!Keys :
    /\ \A row \in Fetched(k) : \E i \in DOMAIN prices[k] : prices[k][i] = Azure!Price(row)
    /\ \A i \in DOMAIN prices[k] : \E row \in Fetched(k) : prices[k][i] = Azure!Price(row)

LEMMA AppendPlaces ==
  ASSUME NEW S, NEW s \in Seq(S), NEW e \in S
  PROVE  /\ DOMAIN s = 1 .. Len(s) /\ Len(s) \in Nat
         /\ DOMAIN Append(s, e) = 1 .. Len(s) + 1
         /\ Append(s, e)[Len(s) + 1] = e
         /\ \A i \in DOMAIN s : Append(s, e)[i] = s[i]
  OBVIOUS

LEMMA PriceType == ASSUME NEW row \in AzureRows PROVE Azure!Price(row) \in PriceRecords
  BY DEF Azure!Price, Azure!Authoritative, PriceRecords

LEMMA InitPages == Azure!Init => PagesInv /\ FoldedInv
<1> SUFFICES ASSUME Azure!Init PROVE PagesInv /\ FoldedInv
  OBVIOUS
<1>1. feed \subseteq AzureRows
  BY DEF Azure!Init, Azure!kSubset
<1>2. rest = feed /\ result = "fetching" /\ prices = [k \in Azure!Keys |-> << >>]
  BY DEF Azure!Init
<1>3. PagesInv
  BY <1>1, <1>2 DEF PagesInv
<1>4. ASSUME NEW k PROVE Fetched(k) = {}
  BY <1>2 DEF Fetched, Azure!RowsFor
<1> QED BY <1>2, <1>3, <1>4 DEF FoldedInv

LEMMA StepPages == PagesInv /\ FoldedInv /\ [Azure!Next]_Azure!vars => PagesInv' /\ FoldedInv'
<1> SUFFICES ASSUME PagesInv, FoldedInv, [Azure!Next]_Azure!vars PROVE PagesInv' /\ FoldedInv'
  OBVIOUS
<1>1. ASSUME UNCHANGED <<kind, feed, rest, prices>>, result' = "ok" => rest = {} PROVE PagesInv' /\ FoldedInv'
  <2>1. PagesInv' BY <1>1 DEF PagesInv
  <2>2. ASSUME NEW k \in Azure!Keys PROVE Fetched(k)' = Fetched(k)
    BY <1>1 DEF Fetched, Azure!RowsFor, Azure!azureProductRegions
  <2>3. ASSUME NEW row PROVE Azure!Price(row)' = Azure!Price(row)
    BY <1>1 DEF Azure!Price, Azure!Authoritative, Azure!usesVirtualRegions
  <2>4. FoldedInv' BY <1>1, <2>2, <2>3 DEF FoldedInv
  <2> QED BY <2>1, <2>4
<1>2. ASSUME NEW row \in AzureRows, Azure!FetchPage(row) PROVE PagesInv' /\ FoldedInv'
  <2>1. /\ result = "fetching" /\ row \in rest /\ rest' = rest \ {row}
        /\ UNCHANGED <<kind, feed, result>>
    BY <1>2 DEF Azure!FetchPage
  <2> DEFINE Of(k) == \E region \in Azure!azureProductRegions(row) : k = Azure!productKey(row, region)
             new == Azure!Price(row)
  <2>2. prices' = [k \in Azure!Keys |-> IF Of(k) THEN Append(prices[k], new) ELSE prices[k]]
    BY <1>2 DEF Azure!FetchPage, Azure!add
  <2>3. new \in PriceRecords BY PriceType
  <2>4. ASSUME NEW k \in Azure!Keys
        PROVE  Fetched(k)' = IF Of(k) THEN Fetched(k) \cup {row} ELSE Fetched(k)
    <3>1. Azure!RowsFor(k)' = Azure!RowsFor(k)
      BY <2>1 DEF Azure!RowsFor, Azure!azureProductRegions
    <3>2. row \in Azure!RowsFor(k) <=> Of(k)
      BY <2>1 DEF Azure!RowsFor, PagesInv
    <3> QED BY <2>1, <3>1, <3>2 DEF Fetched
  <2>5. ASSUME NEW r PROVE Azure!Price(r)' = Azure!Price(r)
    BY <2>1 DEF Azure!Price, Azure!Authoritative, Azure!usesVirtualRegions
  <2> HIDE DEF Of, new
  <2>6. PagesInv'
    <3>1. ASSUME NEW k \in Azure!Keys PROVE (IF Of(k) THEN Append(prices[k], new) ELSE prices[k]) \in Seq(PriceRecords)
      BY <2>3 DEF PagesInv
    <3>2. prices' \in [Azure!Keys -> Seq(PriceRecords)] BY <2>2, <3>1
    <3> QED BY <2>1, <3>2 DEF PagesInv
  <2>7. ASSUME NEW k \in Azure!Keys
        PROVE  /\ \A r \in Fetched(k)' : \E i \in DOMAIN prices'[k] : prices'[k][i] = Azure!Price(r)
               /\ \A i \in DOMAIN prices'[k] : \E r \in Fetched(k)' : prices'[k][i] = Azure!Price(r)
    <3>0. prices[k] \in Seq(PriceRecords) BY DEF PagesInv
    <3>1. /\ \A r \in Fetched(k) : \E i \in DOMAIN prices[k] : prices[k][i] = Azure!Price(r)
          /\ \A i \in DOMAIN prices[k] : \E r \in Fetched(k) : prices[k][i] = Azure!Price(r)
      BY DEF FoldedInv
    <3>2. CASE ~Of(k)
      BY <2>2, <2>4, <3>1, <3>2
    <3>3. CASE Of(k)
      <4> DEFINE n == Len(prices[k])
      <4>1. prices'[k] = Append(prices[k], new) /\ Fetched(k)' = Fetched(k) \cup {row}
        BY <2>2, <2>4, <3>3
      <4>2. /\ n \in Nat /\ DOMAIN prices[k] = 1 .. n /\ DOMAIN prices'[k] = 1 .. n + 1
            /\ prices'[k][n + 1] = new
            /\ \A i \in 1 .. n : prices'[k][i] = prices[k][i]
        BY <2>3, <3>0, <4>1, AppendPlaces
      <4> HIDE DEF n
      <4>3. new = Azure!Price(row) BY DEF new
      <4>4. 1 .. n \subseteq 1 .. n + 1 /\ n + 1 \in 1 .. n + 1 /\ \A i \in 1 .. n + 1 : i \in 1 .. n \/ i = n + 1
        BY <4>2
      <4> QED BY <3>1, <4>1, <4>2, <4>3, <4>4
    <3> QED BY <3>2, <3>3
  <2>8. FoldedInv' BY <2>5, <2>7 DEF FoldedInv
  <2> QED BY <2>6, <2>8
<1>3. ASSUME NEW retryable \in BOOLEAN, Azure!FetchFails(retryable) PROVE PagesInv' /\ FoldedInv'
  BY <1>1, <1>3 DEF Azure!FetchFails, Azure!AfterFailure
<1>4. ASSUME Azure!Return PROVE PagesInv' /\ FoldedInv'
  BY <1>1, <1>4 DEF Azure!Return
<1>5. ASSUME UNCHANGED Azure!vars PROVE PagesInv' /\ FoldedInv'
  BY <1>1, <1>5 DEF Azure!vars, PagesInv
<1> QED BY <1>2, <1>3, <1>4, <1>5 DEF Azure!Next

AzureInv == vendor = "azure" => PagesInv /\ FoldedInv

LEMMA PagesInvariant == Spec => []AzureInv
<1>1. Init => AzureInv
  BY InitPages DEF Init, AzureInv
<1>2. AzureInv /\ [Next]_vars => AzureInv'
  <2>1. [Next]_vars /\ vendor' = "azure" => vendor = "azure" /\ [Azure!Next]_Azure!vars
    BY DEF Next, vars, azure, paging, Azure!vars
  <2> QED BY <2>1, StepPages DEF AzureInv
<1> QED BY <1>1, <1>2, PTL DEF Spec

\* A finite set has a minimal element for any strict order.
LEMMA MinimalExists ==
  ASSUME NEW S, IsFiniteSet(S), S # {}, NEW R,
         \A x, y, z \in S : <<x, y>> \in R /\ <<y, z>> \in R => <<x, z>> \in R,
         \A x \in S : <<x, x>> \notin R
  PROVE  \E x \in S : \A y \in S : <<y, x>> \notin R
<1> DEFINE Below(x) == {y \in S : <<y, x>> \in R}
           T == {Below(x) : x \in S}
           O == StrictSubsetOrdering(S)
<1>1. IsWellFoundedOn(O, FiniteSubsetsOf(S))
  BY FS_StrictSubsetOrderingWellFounded
<1>2. ASSUME NEW x \in S PROVE Below(x) \in FiniteSubsetsOf(S)
  <2>1. Below(x) \in SUBSET S OBVIOUS
  <2> HIDE DEF Below
  <2>2. IsFiniteSet(Below(x)) BY <2>1, FS_Subset
  <2> QED BY <2>1, <2>2 DEF FiniteSubsetsOf
<1>3. T \subseteq FiniteSubsetsOf(S) /\ T # {}
  <2> HIDE DEF Below
  <2> QED BY <1>2
<1> HIDE DEF T
<1>4. PICK t \in T : \A u \in T : <<u, t>> \notin O
  BY <1>1, <1>3, WFMin
<1>5. PICK x \in S : t = Below(x)
  BY <1>4 DEF T
<1>6. ASSUME NEW y \in S, <<y, x>> \in R PROVE FALSE
  <2>1. Below(y) \in T BY DEF T
  <2>2. y \in t /\ y \notin Below(y) BY <1>5, <1>6
  <2>3. \A z \in Below(y) : z \in t BY <1>5, <1>6
  <2>4. t \in SUBSET S BY <1>5
  <2>5. <<Below(y), t>> \in O BY <2>2, <2>3, <2>4 DEF StrictSubsetOrdering
  <2> QED BY <1>4, <2>1, <2>5
<1> QED BY <1>6

\* The place of a tier's lowest price, the first of equal ones.
LowestAt(ps, I, j) ==
  \A k \in I : ps[k].tier = ps[j].tier => ps[k].usd > ps[j].usd \/ (ps[k].usd = ps[j].usd /\ k >= j)

\* deduplicatePricesByTier leaves a price of every tier that had one.
LEMMA TierIsLeft ==
  ASSUME NEW ps \in Seq(PriceRecords), NEW I \in SUBSET DOMAIN ps, NEW i \in I
  PROVE  \E j \in I : ps[j].tier = ps[i].tier /\ LowestAt(ps, I, j)
<1> DEFINE S == {k \in I : ps[k].tier = ps[i].tier}
           R == {z \in S \X S : \/ ps[z[1]].usd < ps[z[2]].usd
                                \/ ps[z[1]].usd = ps[z[2]].usd /\ z[1] < z[2]}
<1>1. S \subseteq DOMAIN ps /\ DOMAIN ps = 1 .. Len(ps) /\ Len(ps) \in Nat
  OBVIOUS
<1>2. IsFiniteSet(S)
  <2>1. IsFiniteSet(1 .. Len(ps)) BY <1>1, FS_Interval
  <2>2. S \in SUBSET (1 .. Len(ps)) BY <1>1
  <2> HIDE DEF S
  <2> QED BY <2>1, <2>2, FS_Subset
<1>3. i \in S OBVIOUS
<1>4. ASSUME NEW k \in S PROVE k \in Int /\ ps[k].usd \in Int
  <2>1. ps[k] \in PriceRecords BY <1>1
  <2> QED BY <1>1, <2>1, AzureAssumption DEF PriceRecords
<1>5. \A k \in S : k \in I /\ ps[k].tier = ps[i].tier OBVIOUS
<1>6. \A k \in I : ps[k].tier = ps[i].tier => k \in S OBVIOUS
<1> HIDE DEF S
<1>7. \A x, y \in S : <<x, y>> \in R <=> (ps[x].usd < ps[y].usd \/ (ps[x].usd = ps[y].usd /\ x < y))
  OBVIOUS
<1> HIDE DEF R
<1>8. ASSUME NEW x \in S, NEW y \in S, NEW z \in S, <<x, y>> \in R, <<y, z>> \in R PROVE <<x, z>> \in R
  <2>1. ps[x].usd < ps[y].usd \/ (ps[x].usd = ps[y].usd /\ x < y) BY <1>7, <1>8
  <2>2. ps[y].usd < ps[z].usd \/ (ps[y].usd = ps[z].usd /\ y < z) BY <1>7, <1>8
  <2>3. /\ x \in Int /\ y \in Int /\ z \in Int
        /\ ps[x].usd \in Int /\ ps[y].usd \in Int /\ ps[z].usd \in Int
    BY <1>4
  <2>4. ps[x].usd < ps[z].usd \/ (ps[x].usd = ps[z].usd /\ x < z) BY <2>1, <2>2, <2>3
  <2> QED BY <1>7, <2>4
<1>9. ASSUME NEW x \in S PROVE <<x, x>> \notin R
  BY <1>4, <1>7
<1>10. PICK j \in S : \A k \in S : <<k, j>> \notin R
  BY <1>2, <1>3, <1>8, <1>9, MinimalExists
<1>11. ASSUME NEW k \in I, ps[k].tier = ps[j].tier
       PROVE  ps[k].usd > ps[j].usd \/ (ps[k].usd = ps[j].usd /\ k >= j)
  <2>1. k \in S BY <1>5, <1>6, <1>11
  <2>2. ~(ps[k].usd < ps[j].usd \/ (ps[k].usd = ps[j].usd /\ k < j)) BY <1>7, <1>10, <2>1
  <2>3. k \in Int /\ j \in Int /\ ps[k].usd \in Int /\ ps[j].usd \in Int BY <1>4, <2>1
  <2> QED BY <2>2, <2>3
<1> QED BY <1>5, <1>11 DEF LowestAt

\* What is kept of a slot that had a price: its own, or a primary one.
LEMMA SlotIsKept ==
  ASSUME NEW ps, NEW i \in DOMAIN ps
  PROVE  \E j \in Azure!Kept(ps) : ps[j].tier = ps[i].tier /\ ps[j].unit = ps[i].unit
<1>1. CASE i \in Azure!Kept(ps)
  BY <1>1
<1>2. CASE i \notin Azure!Kept(ps)
  <2>1. PICK j \in DOMAIN ps : ps[j].primary /\ Azure!azurePriceSlot(ps[j]) = Azure!azurePriceSlot(ps[i])
    BY <1>2 DEF Azure!Kept
  <2>2. j \in Azure!Kept(ps) BY <2>1 DEF Azure!Kept
  <2>3. ps[j].tier = ps[i].tier /\ ps[j].unit = ps[i].unit BY <2>1 DEF Azure!azurePriceSlot
  <2> QED BY <2>2, <2>3
<1> QED BY <1>1, <1>2

\* The key of each region of a row is a key of the builder.
LEMMA KeyOfRow ==
  ASSUME NEW row \in AzureRows, NEW region \in Azure!azureProductRegions(row)
  PROVE  Azure!productKey(row, region) \in Azure!Keys
<1>1. Azure!azureConvertRegion(row.region) \in Azure!VirtualRegions
  BY DEF Azure!azureConvertRegion, Azure!VirtualRegions
<1>2. Azure!azureDNSZoneRegion(row.region) \in Azure!VirtualRegions
  BY DEF Azure!azureDNSZoneRegion, Azure!VirtualRegions
<1>3. region \in Azure!Regions
  BY <1>1, <1>2 DEF Azure!azureProductRegions, Azure!Regions, Azure!VirtualRegions
<1> QED BY <1>3 DEF Azure!Keys

\* What the products of a service that returned are made of.
LEMMA ProductOfKey ==
  ASSUME PagesInv, FoldedInv, result = "ok", NEW k \in Azure!Keys
  PROVE  /\ prices[k] \in Seq(PriceRecords)
         /\ \A row \in Azure!RowsFor(k) : \E i \in DOMAIN prices[k] : prices[k][i] = Azure!Price(row)
         /\ \A i \in DOMAIN prices[k] : \E row \in Azure!RowsFor(k) : prices[k][i] = Azure!Price(row)
         /\ k \in DOMAIN Azure!products <=> prices[k] # << >>
         /\ k \in DOMAIN Azure!products =>
              Azure!products[k] = IF Azure!isVirtualRegion(k[2])
                                  THEN Azure!deduplicatePricesByTier(prices[k], Azure!Kept(prices[k]))
                                  ELSE Azure!deduplicatePrices(prices[k], Azure!Kept(prices[k]))
<1>1. Fetched(k) = Azure!RowsFor(k)
  BY DEF Fetched, PagesInv
<1>2. prices[k] \in Seq(PriceRecords)
  BY DEF PagesInv
<1>3. /\ k \in DOMAIN Azure!products <=> prices[k] # << >>
      /\ k \in DOMAIN Azure!products =>
              Azure!products[k] = IF Azure!isVirtualRegion(k[2])
                                  THEN Azure!deduplicatePricesByTier(prices[k], Azure!Kept(prices[k]))
                                  ELSE Azure!deduplicatePrices(prices[k], Azure!Kept(prices[k]))
  BY DEF Azure!products
<1> QED BY <1>1, <1>2, <1>3 DEF FoldedInv

\* AzureScraper.scrapeService: a service that returns has priced every row of its feed
\* under each of its regions, whatever the rows, their order and the failing pages.
THEOREM RowsPriced == Spec => []EveryRowPriced
<1>1. AzureInv => EveryRowPriced
  <2> SUFFICES ASSUME PagesInv, FoldedInv, result = "ok",
                      NEW row \in feed, NEW region \in Azure!azureProductRegions(row),
                      NEW k, k = Azure!productKey(row, region)
               PROVE  /\ k \in DOMAIN Azure!products
                      /\ \E p \in Azure!products[k] :
                           p.tier = row.tier /\ (Azure!isVirtualRegion(region) \/ p.unit = row.unit)
    BY DEF AzureInv, EveryRowPriced, Azure!EveryRowPriced
  <2> DEFINE ps == prices[k]
             kept == Azure!Kept(ps)
  <2>1. row \in AzureRows /\ k \in Azure!Keys BY KeyOfRow DEF PagesInv
  <2>2. row \in Azure!RowsFor(k) BY DEF Azure!RowsFor
  <2>3. PICK i \in DOMAIN ps : ps[i] = Azure!Price(row) BY <2>1, <2>2, ProductOfKey
  <2>4. ps \in Seq(PriceRecords) /\ ps # << >> BY <2>1, <2>3, ProductOfKey
  <2>5. /\ k \in DOMAIN Azure!products
        /\ Azure!products[k] = IF Azure!isVirtualRegion(k[2])
                               THEN Azure!deduplicatePricesByTier(ps, kept)
                               ELSE Azure!deduplicatePrices(ps, kept)
    BY <2>1, <2>4, ProductOfKey
  <2>6. k[2] = region BY DEF Azure!productKey
  <2>7. ps[i].tier = row.tier /\ ps[i].unit = row.unit BY <2>3 DEF Azure!Price
  <2> HIDE DEF ps
  <2>8. PICK j \in kept : ps[j].tier = row.tier /\ ps[j].unit = row.unit
    BY <2>3, <2>7, SlotIsKept
  <2>9. kept \in SUBSET DOMAIN ps BY DEF Azure!Kept
  <2> HIDE DEF kept
  <2>10. CASE Azure!isVirtualRegion(region)
    <3>1. PICK m \in kept : ps[m].tier = ps[j].tier /\ LowestAt(ps, kept, m)
      BY <2>4, <2>9, TierIsLeft
    <3>2. Azure!Fact(ps[m]) \in Azure!products[k]
      BY <2>5, <2>6, <2>10, <3>1 DEF Azure!deduplicatePricesByTier, LowestAt
    <3>3. Azure!Fact(ps[m]).tier = row.tier BY <2>8, <3>1 DEF Azure!Fact
    <3> QED BY <2>5, <2>10, <3>2, <3>3
  <2>11. CASE ~Azure!isVirtualRegion(region)
    <3>1. Azure!Fact(ps[j]) \in Azure!products[k]
      BY <2>5, <2>6, <2>11 DEF Azure!deduplicatePrices
    <3>2. Azure!Fact(ps[j]).tier = row.tier /\ Azure!Fact(ps[j]).unit = row.unit BY <2>8 DEF Azure!Fact
    <3> QED BY <2>5, <3>1, <3>2
  <2> QED BY <2>10, <2>11
<1> QED BY <1>1, PagesInvariant, PTL

\* azureProductBuilder.products: in a region of its own a slot with a primary row is
\* priced by its primary rows and by nothing else.
THEOREM PrimaryWins == Spec => []PrimaryRowsWin
<1>1. AzureInv => PrimaryRowsWin
  <2> DEFINE Slot(x) == Azure!azurePriceSlot(x)
  <2> SUFFICES ASSUME PagesInv, FoldedInv, result = "ok", NEW k \in DOMAIN Azure!products,
                      ~Azure!isVirtualRegion(k[2]), NEW row \in Azure!RowsFor(k), Azure!Authoritative(row)
               PROVE  {p.usd : p \in {q \in Azure!products[k] : Slot(q) = Slot(row)}} =
                      {r.usd : r \in {q \in Azure!RowsFor(k) : Azure!Authoritative(q) /\ Slot(q) = Slot(row)}}
    BY DEF AzureInv, PrimaryRowsWin, Azure!PrimaryRowsWin
  <2> DEFINE ps == prices[k]
             kept == Azure!Kept(ps)
  <2>1. k \in Azure!Keys BY DEF Azure!products
  <2>2. /\ \A r \in Azure!RowsFor(k) : \E i \in DOMAIN ps : ps[i] = Azure!Price(r)
        /\ \A i \in DOMAIN ps : \E r \in Azure!RowsFor(k) : ps[i] = Azure!Price(r)
        /\ Azure!products[k] = {Azure!Fact(ps[i]) : i \in kept}
    BY <2>1, ProductOfKey DEF Azure!deduplicatePrices
  <2>3. ASSUME NEW r
        PROVE  /\ Slot(Azure!Price(r)) = Slot(r) /\ Azure!Price(r).usd = r.usd
               /\ Azure!Price(r).primary <=> Azure!Authoritative(r)
    BY DEF Azure!Price, Azure!azurePriceSlot
  <2>4. ASSUME NEW p PROVE Slot(Azure!Fact(p)) = Slot(p) /\ Azure!Fact(p).usd = p.usd
    BY DEF Azure!Fact, Azure!azurePriceSlot
  <2> HIDE DEF ps
  <2>5. ASSUME NEW i \in DOMAIN ps, Slot(ps[i]) = Slot(row) PROVE i \in kept <=> ps[i].primary
    <3>1. PICK j \in DOMAIN ps : ps[j] = Azure!Price(row) BY <2>2
    <3>2. ps[j].primary /\ Slot(ps[j]) = Slot(row) BY <2>3, <3>1
    <3> QED BY <2>5, <3>2 DEF Azure!Kept
  <2>6. kept \subseteq DOMAIN ps BY DEF Azure!Kept
  <2> HIDE DEF Slot, kept
  <2>7. ASSUME NEW p \in Azure!products[k], Slot(p) = Slot(row)
        PROVE  \E r \in Azure!RowsFor(k) : Azure!Authoritative(r) /\ Slot(r) = Slot(row) /\ p.usd = r.usd
    <3>1. PICK i \in kept : p = Azure!Fact(ps[i]) BY <2>2
    <3>2. i \in DOMAIN ps /\ Slot(ps[i]) = Slot(row) BY <2>4, <2>6, <2>7, <3>1
    <3>3. ps[i].primary BY <2>5, <3>2
    <3>4. PICK r \in Azure!RowsFor(k) : ps[i] = Azure!Price(r) BY <2>2, <3>2
    <3>5. Slot(r) = Slot(row) /\ Azure!Authoritative(r) /\ p.usd = r.usd BY <2>3, <2>4, <3>1, <3>2, <3>3, <3>4
    <3> QED BY <3>5
  <2>8. ASSUME NEW r \in Azure!RowsFor(k), Azure!Authoritative(r), Slot(r) = Slot(row)
        PROVE  \E p \in Azure!products[k] : Slot(p) = Slot(row) /\ p.usd = r.usd
    <3>1. PICK i \in DOMAIN ps : ps[i] = Azure!Price(r) BY <2>2
    <3>2. ps[i].primary /\ Slot(ps[i]) = Slot(row) /\ ps[i].usd = r.usd BY <2>3, <2>8, <3>1
    <3>3. i \in kept BY <2>5, <3>2
    <3>4. Azure!Fact(ps[i]) \in Azure!products[k] BY <2>2, <3>3
    <3> QED BY <2>4, <3>2, <3>4
  <2> QED BY <2>7, <2>8
<1> QED BY <1>1, PagesInvariant, PTL

\* deduplicatePricesByTier: in a virtual region each tier has one price, of
\* the lowest amount of any source region, in whatever order the rows came.
THEOREM LowestPerTier == Spec => []OneLowestPricePerTier
<1>1. AzureInv => OneLowestPricePerTier
  <2> SUFFICES ASSUME PagesInv, FoldedInv, result = "ok", Azure!usesVirtualRegions, NEW k \in DOMAIN Azure!products,
                      Azure!isVirtualRegion(k[2]), NEW row \in Azure!RowsFor(k)
               PROVE  \E p \in Azure!products[k] :
                        /\ p.tier = row.tier
                        /\ \A q \in Azure!products[k] : q.tier = p.tier => q = p
                        /\ \A r \in Azure!RowsFor(k) : r.tier = p.tier => p.usd <= r.usd
    BY DEF AzureInv, OneLowestPricePerTier, Azure!OneLowestPricePerTier
  <2> DEFINE ps == prices[k]
             kept == Azure!Kept(ps)
  <2>1. k \in Azure!Keys BY DEF Azure!products
  <2>2. /\ ps \in Seq(PriceRecords)
        /\ \A r \in Azure!RowsFor(k) : \E i \in DOMAIN ps : ps[i] = Azure!Price(r)
        /\ \A i \in DOMAIN ps : \E r \in Azure!RowsFor(k) : ps[i] = Azure!Price(r)
        /\ Azure!products[k] = {Azure!Fact(ps[i]) : i \in {j \in kept : LowestAt(ps, kept, j)}}
    BY <2>1, ProductOfKey DEF Azure!deduplicatePricesByTier, LowestAt
  <2>3. ASSUME NEW r
        PROVE  /\ Azure!Price(r).tier = r.tier /\ Azure!Price(r).usd = r.usd
               /\ Azure!Price(r).primary
    BY DEF Azure!Price, Azure!Authoritative
  <2>4. ASSUME NEW p PROVE Azure!Fact(p).tier = p.tier /\ Azure!Fact(p).usd = p.usd
    BY DEF Azure!Fact
  <2> HIDE DEF ps
  <2>5. kept = DOMAIN ps BY <2>2, <2>3 DEF Azure!Kept
  <2> HIDE DEF kept
  <2>6. ASSUME NEW i \in kept PROVE i \in Int /\ ps[i].usd \in Int
    <3>1. ps[i] \in PriceRecords /\ i \in Int BY <2>2, <2>5
    <3> QED BY <3>1, AzureAssumption DEF PriceRecords
  <2>7. PICK i \in kept : ps[i] = Azure!Price(row) BY <2>2, <2>5
  <2>8. PICK j \in kept : ps[j].tier = ps[i].tier /\ LowestAt(ps, kept, j)
    BY <2>2, <2>5, TierIsLeft
  <2>9. ASSUME NEW m \in kept, LowestAt(ps, kept, m), ps[m].tier = ps[j].tier PROVE m = j
    <3>1. ps[j].usd > ps[m].usd \/ (ps[j].usd = ps[m].usd /\ j >= m) BY <2>9 DEF LowestAt
    <3>2. ps[m].usd > ps[j].usd \/ (ps[m].usd = ps[j].usd /\ m >= j) BY <2>8, <2>9 DEF LowestAt
    <3> QED BY <2>6, <3>1, <3>2
  <2>10. ASSUME NEW r \in Azure!RowsFor(k), r.tier = row.tier PROVE ps[j].usd <= r.usd
    <3>1. PICK m \in kept : ps[m] = Azure!Price(r) BY <2>2, <2>5
    <3>2. ps[m].tier = ps[j].tier /\ ps[m].usd = r.usd BY <2>3, <2>7, <2>8, <2>10, <3>1
    <3>3. ps[m].usd > ps[j].usd \/ (ps[m].usd = ps[j].usd /\ m >= j) BY <2>8, <3>2 DEF LowestAt
    <3> QED BY <2>6, <3>2, <3>3
  <2> DEFINE p == Azure!Fact(ps[j])
  <2>11. p \in Azure!products[k] BY <2>2, <2>8
  <2>12. p.tier = row.tier /\ p.usd = ps[j].usd BY <2>3, <2>4, <2>7, <2>8
  <2>13. ASSUME NEW q \in Azure!products[k], q.tier = p.tier PROVE q = p
    <3>1. PICK m \in kept : LowestAt(ps, kept, m) /\ q = Azure!Fact(ps[m]) BY <2>2
    <3>2. ps[m].tier = ps[j].tier BY <2>4, <2>13, <3>1
    <3> QED BY <2>9, <3>1, <3>2
  <2> HIDE DEF p
  <2>14. \A r \in Azure!RowsFor(k) : r.tier = p.tier => p.usd <= r.usd
    BY <2>10, <2>12
  <2> QED BY <2>11, <2>12, <2>13, <2>14
<1> QED BY <1>1, PagesInvariant, PTL

-----------------------------------------------------------------------------
(* GCP: the SKUs of Compute Engine *)

ComputeProducts == UNION {GCP!transformSKU(sku) : sku \in SKUs}

\* Every SKU fetched so far is a product in each of its regions; a scrape that went on
\* to machine types has fetched all.
CatalogueInv ==
  /\ feed \subseteq SKUs /\ rest \subseteq feed
  /\ computeProducts \in Seq(ComputeProducts)
  /\ \A sku \in feed \ rest : \A x \in GCP!transformSKU(sku) :
       \E i \in DOMAIN computeProducts : computeProducts[i] = x
  /\ step \in {"fetched", "done"} => rest = {}

\* A list of a finite set in some order has every member.
LEMMA SeqOfSet ==
  ASSUME NEW S, IsFiniteSet(S), NEW s \in SetToSeqs(S)
  PROVE  s \in Seq(S) /\ \A x \in S : \E i \in DOMAIN s : s[i] = x
<1> DEFINE D == 1 .. Cardinality(S)
<1>1. Cardinality(S) \in Nat BY FS_CardinalityType
<1>2. s \in [D -> S] /\ \A i, j \in D : i # j => s[i] # s[j]
  BY DEF SetToSeqs
<1>3. s \in Injection(D, S)
  BY <1>2 DEF Injection, IsInjective
<1>4. Cardinality(D) = Cardinality(S)
  BY <1>1, FS_Interval
<1>5. s \in Surjection(D, S)
  BY <1>3, <1>4, FS_Injection
<1>6. s \in Seq(S)
  BY <1>1, <1>2
<1> QED BY <1>2, <1>5, <1>6 DEF Surjection

LEMMA TransformedIsFinite ==
  ASSUME NEW sku \in SKUs
  PROVE  IsFiniteSet(GCP!transformSKU(sku))
<1> DEFINE f == [region \in sku.regions |-> [sku |-> sku, region |-> region, prices |-> sku.rates]]
           T == {[sku |-> sku, region |-> region, prices |-> sku.rates] : region \in sku.regions}
<1>1. IsFiniteSet(sku.regions) BY GCPAssumption
<1>2. f \in Surjection(sku.regions, T)
  BY DEF Surjection
<1>3. IsFiniteSet(T)
  <2> HIDE DEF f, T
  <2> QED BY <1>1, <1>2, FS_Surjection
<1>4. GCP!transformSKU(sku) \in {{}, T} BY DEF GCP!transformSKU
<1> QED BY <1>3, <1>4, FS_EmptySet

LEMMA InitCatalogueInv == GCP!Init => CatalogueInv
<1> SUFFICES ASSUME GCP!Init PROVE CatalogueInv
  OBVIOUS
<1>1. feed \subseteq SKUs
  BY DEF GCP!Init, GCP!kSubset
<1> QED BY <1>1 DEF GCP!Init, CatalogueInv

\* A page is added behind what is there.
LEMMA Concatenated ==
  ASSUME NEW S, NEW s \in Seq(S), NEW t \in Seq(S)
  PROVE  /\ s \o t \in Seq(S)
         /\ \A i \in DOMAIN s : i \in DOMAIN (s \o t) /\ (s \o t)[i] = s[i]
         /\ \A i \in DOMAIN t : Len(s) + i \in DOMAIN (s \o t) /\ (s \o t)[Len(s) + i] = t[i]
  OBVIOUS

LEMMA StepCatalogueInv == CatalogueInv /\ [GCP!Next]_GCP!vars => CatalogueInv'
<1> SUFFICES ASSUME CatalogueInv, [GCP!Next]_GCP!vars PROVE CatalogueInv'
  OBVIOUS
<1>1. ASSUME NEW sku \in SKUs, GCP!FetchPage(sku) PROVE CatalogueInv'
  <2>1. /\ rest' = rest \ {sku} /\ UNCHANGED <<feed, step>> /\ step = "fetching"
    BY <1>1 DEF GCP!FetchPage
  <2>2. PICK page \in SetToSeqs(GCP!transformSKU(sku)) : computeProducts' = computeProducts \o page
    <3>1. GCP!Cardinality(GCP!transformSKU(sku)) = Cardinality(GCP!transformSKU(sku))
      BY DEF GCP!Cardinality, Cardinality
    <3>2. GCP!SetToSeqs(GCP!transformSKU(sku)) = SetToSeqs(GCP!transformSKU(sku))
      BY <3>1 DEF GCP!SetToSeqs, SetToSeqs
    <3> QED BY <1>1, <3>2 DEF GCP!FetchPage
  <2>3. page \in Seq(GCP!transformSKU(sku)) /\ \A x \in GCP!transformSKU(sku) : \E i \in DOMAIN page : page[i] = x
    BY SeqOfSet, TransformedIsFinite
  <2>4. page \in Seq(ComputeProducts) BY <2>3 DEF ComputeProducts
  <2>5. computeProducts \in Seq(ComputeProducts) BY DEF CatalogueInv
  <2>6. /\ computeProducts' \in Seq(ComputeProducts)
        /\ \A i \in DOMAIN computeProducts : i \in DOMAIN computeProducts' /\ computeProducts'[i] = computeProducts[i]
        /\ \A i \in DOMAIN page : Len(computeProducts) + i \in DOMAIN computeProducts'
                                  /\ computeProducts'[Len(computeProducts) + i] = page[i]
    BY <2>2, <2>4, <2>5, Concatenated
  <2>7. ASSUME NEW s \in feed' \ rest', NEW x \in GCP!transformSKU(s)
        PROVE  \E i \in DOMAIN computeProducts' : computeProducts'[i] = x
    <3>1. CASE s = sku BY <2>3, <2>6, <3>1
    <3>2. CASE s # sku
      <4>1. PICK i \in DOMAIN computeProducts : computeProducts[i] = x
        BY <2>1, <3>2 DEF CatalogueInv
      <4> QED BY <2>6, <4>1
    <3> QED BY <3>1, <3>2
  <2> QED BY <2>1, <2>6, <2>7 DEF CatalogueInv
<1>2. ASSUME NEW retryable \in BOOLEAN, GCP!FetchFails(retryable) PROVE CatalogueInv'
  BY <1>2 DEF GCP!FetchFails, GCP!AfterFailure, CatalogueInv
<1>3. ASSUME GCP!LastPage PROVE CatalogueInv'
  BY <1>3 DEF GCP!LastPage, CatalogueInv
<1>7. ASSUME GCP!indexCPURAMPrices PROVE CatalogueInv'
  BY <1>7 DEF GCP!indexCPURAMPrices, CatalogueInv
<1>4. ASSUME GCP!synthesizeMachineTypes PROVE CatalogueInv'
  <2>1. step = "fetched" /\ UNCHANGED <<feed, rest, computeProducts>>
    BY <1>4 DEF GCP!synthesizeMachineTypes
  <2> QED BY <2>1 DEF CatalogueInv
<1>5. ASSUME GCP!Rescrape PROVE CatalogueInv'
  BY <1>5 DEF GCP!Rescrape, CatalogueInv
<1>6. ASSUME UNCHANGED GCP!vars PROVE CatalogueInv'
  BY <1>6 DEF GCP!vars, CatalogueInv
<1> QED BY <1>1, <1>2, <1>3, <1>4, <1>5, <1>6, <1>7 DEF GCP!Next

\* GCPScraper.scrapeService: a Compute Engine scrape that goes on to machine types has
\* a product for every priced SKU in each of its regions, scrape after scrape, in any
\* order of the pages.
THEOREM SKUsPriced == Spec => []EverySKUPriced
<1> DEFINE Inv == vendor = "gcp" => CatalogueInv
<1>1. Init => Inv
  BY InitCatalogueInv DEF Init
<1>2. Inv /\ [Next]_vars => Inv'
  <2>1. [Next]_vars /\ vendor' = "gcp" => vendor = "gcp" /\ [GCP!Next]_GCP!vars
    BY DEF Next, vars, gcp, paging, GCP!vars
  <2> QED BY <2>1, StepCatalogueInv
<1>3. Inv => EverySKUPriced
  <2> SUFFICES ASSUME CatalogueInv, step \in {"fetched", "done"}, NEW sku \in feed, sku.rates # << >>,
                      NEW region \in sku.regions
               PROVE  \E i \in DOMAIN computeProducts :
                        computeProducts[i].sku = sku /\ computeProducts[i].region = region
    BY DEF EverySKUPriced, GCP!EverySKUPriced
  <2> DEFINE x == [sku |-> sku, region |-> region, prices |-> sku.rates]
  <2>1. x \in GCP!transformSKU(sku) BY DEF GCP!transformSKU
  <2>2. x.sku = sku /\ x.region = region OBVIOUS
  <2> HIDE DEF x
  <2>3. PICK i \in DOMAIN computeProducts : computeProducts[i] = x
    BY <2>1 DEF CatalogueInv
  <2> QED BY <2>2, <2>3
<1> QED BY <1>1, <1>2, <1>3, PTL DEF Spec

-----------------------------------------------------------------------------
(* GCP: machine types *)

\* A product that counts towards the price under a key of the index.
CountsFor(x, k) ==
  /\ ~x.sku.excluded
  /\ k = <<x.sku.part, x.sku.family, x.region, x.sku.option>>

\* The prices under a key among the products indexed so far.
PaidSoFar(k) ==
  {v \in Nat \ {0} : \E i \in 1 .. indexed :
     CountsFor(computeProducts[i], k) /\ v \in ToSet(computeProducts[i].prices)}

IsLowest(v, S) == IF S = {} THEN v = 0 ELSE v \in S /\ \A w \in S : v <= w

\* Nothing but the catalogue's SKUs are products, and the index holds the lowest
\* price of the products it covers.
IndexInv ==
  /\ \A i \in DOMAIN computeProducts : \E sku \in feed : computeProducts[i] \in GCP!transformSKU(sku)
  /\ indexed \in 0 .. Len(computeProducts)
  /\ step # "fetched" => indexed = 0
  /\ index \in [GCP!Keys -> Nat]
  /\ \A k \in GCP!Keys : IsLowest(index[k], PaidSoFar(k))

\* The options a row is offered under, and the price of one of them.
Offered(row) ==
  {o \in GCP!Options : /\ GCP!ListPrices("cpu", row[1].family, row[2], o) # {}
                       /\ GCP!ListPrices("ram", row[1].family, row[2], o) # {}}
Offer(row, o) ==
  [option |-> o,
   usd |-> GCP!Lowest(GCP!ListPrices("cpu", row[1].family, row[2], o)) * row[1].cpus
           + GCP!Lowest(GCP!ListPrices("ram", row[1].family, row[2], o)) * row[1].ramGB]

IsSum(row) ==
  /\ Len(stored[row]) = Cardinality(Offered(row))
  /\ ToSet(stored[row]) = {Offer(row, o) : o \in Offered(row)}

\* A row that exists is right from the scrape that wrote it on, and after a scrape
\* that was completed so is the absence of one.
OffersInv ==
  /\ DOMAIN stored = GCP!Rows
  /\ \A row \in GCP!Rows : stored[row] = << >> \/ IsSum(row)
  /\ step = "done" => \A row \in GCP!Rows : IsSum(row)

MachinesInv == CatalogueInv /\ IndexInv /\ OffersInv

LEMMA InitMachinesInv == GCP!Init => MachinesInv
<1> SUFFICES ASSUME GCP!Init PROVE MachinesInv
  OBVIOUS
<1>1. computeProducts = << >> /\ indexed = 0 /\ index = GCP!NoPrices /\ step = "fetching"
      /\ stored = [row \in GCP!Rows |-> << >>]
  BY DEF GCP!Init
<1>2. ASSUME NEW k PROVE PaidSoFar(k) = {}
  BY <1>1 DEF PaidSoFar
<1>3. IndexInv
  BY <1>1, <1>2 DEF IndexInv, IsLowest, GCP!NoPrices
<1>4. OffersInv
  BY <1>1 DEF OffersInv
<1> QED BY <1>3, <1>4, InitCatalogueInv DEF MachinesInv

\* A product is a SKU in one of its regions.
LEMMA ProductOfSKU ==
  ASSUME NEW sku \in SKUs, NEW x \in GCP!transformSKU(sku)
  PROVE  x.sku = sku /\ x.region \in sku.regions /\ x.prices = sku.rates
  BY DEF GCP!transformSKU

\* The least of a finite set of numbers.
LEMMA LeastExists ==
  ASSUME NEW S \in SUBSET Nat, IsFiniteSet(S), S # {}
  PROVE  GCP!Lowest(S) \in S /\ \A w \in S : GCP!Lowest(S) <= w
<1> DEFINE R == {p \in Nat \X Nat : p[1] < p[2]}
<1>1. ASSUME NEW x \in Nat, NEW y \in Nat PROVE <<x, y>> \in R <=> x < y
  OBVIOUS
<1> HIDE DEF R
<1>2. \A x, y, z \in S : <<x, y>> \in R /\ <<y, z>> \in R => <<x, z>> \in R
  BY <1>1
<1>3. \A x \in S : <<x, x>> \notin R
  BY <1>1
<1>4. PICK x \in S : \A y \in S : <<y, x>> \notin R
  BY <1>2, <1>3, MinimalExists
<1>5. ASSUME NEW y \in S PROVE x <= y
  <2>1. x \in Nat /\ y \in Nat OBVIOUS
  <2>2. ~(y < x) BY <1>1, <1>4, <2>1
  <2> QED BY <2>1, <2>2
<1> QED BY <1>5 DEF GCP!Lowest

LEMMA LeastIsLowest ==
  ASSUME NEW S \in SUBSET Nat, NEW v \in S, \A w \in S : v <= w
  PROVE  GCP!Lowest(S) = v
<1>1. GCP!Lowest(S) \in S /\ \A w \in S : GCP!Lowest(S) <= w
  BY DEF GCP!Lowest
<1>2. GCP!Lowest(S) \in Nat /\ v \in Nat BY <1>1
<1>3. GCP!Lowest(S) <= v /\ v <= GCP!Lowest(S) BY <1>1
<1> QED BY <1>2, <1>3

LEMMA PricesAreFinite ==
  ASSUME NEW s \in Seq(Nat)
  PROVE  IsFiniteSet({s[i] : i \in DOMAIN s} \ {0})
<1> DEFINE T == {s[i] : i \in DOMAIN s}
<1>1. IsFiniteSet(1 .. Len(s))
  <2>1. Len(s) \in Nat OBVIOUS
  <2> QED BY <2>1, FS_Interval
<1>2. s \in Surjection(1 .. Len(s), T)
  BY DEF Surjection
<1>3. IsFiniteSet(T)
  <2> HIDE DEF T
  <2> QED BY <1>1, <1>2, FS_Surjection
<1> HIDE DEF T
<1>4. T \ {0} \in SUBSET T OBVIOUS
<1> QED BY <1>3, <1>4, FS_Subset DEF T

\* Lower keeps the lowest of what was indexed and what a product adds.
LEMMA LowerIsLowest ==
  ASSUME NEW old \in Nat, NEW S \in SUBSET (Nat \ {0}), IsLowest(old, S),
         NEW v \in Nat, NEW T \in SUBSET (Nat \ {0}), v \in T, \A w \in T : v <= w
  PROVE  IsLowest(GCP!Lower(old, v), S \cup T)
<1>1. CASE S = {}
  BY <1>1 DEF IsLowest, GCP!Lower
<1>2. CASE S # {}
  <2>1. old \in S /\ old # 0 /\ \A w \in S : old <= w
    BY <1>2 DEF IsLowest
  <2>2. CASE v < old
    <3>1. GCP!Lower(old, v) = v BY <2>2 DEF GCP!Lower
    <3>2. \A w \in S : v <= w BY <2>1, <2>2
    <3> QED BY <3>1, <3>2 DEF IsLowest
  <2>3. CASE ~(v < old)
    <3>1. GCP!Lower(old, v) = old BY <2>1, <2>3 DEF GCP!Lower
    <3>2. \A w \in T : old <= w BY <2>1, <2>3
    <3> QED BY <2>1, <3>1, <3>2 DEF IsLowest
  <2> QED BY <2>2, <2>3
<1> QED BY <1>1, <1>2

\* Taking a product into the index.
LEMMA IndexStep == MachinesInv /\ GCP!indexCPURAMPrices => IndexInv'
<1> SUFFICES ASSUME MachinesInv, GCP!indexCPURAMPrices PROVE IndexInv'
  OBVIOUS
<1> DEFINE x == computeProducts[indexed + 1]
           paid == {x.prices[i] : i \in DOMAIN x.prices} \ {0}
           key == <<x.sku.part, x.sku.family, x.region, x.sku.option>>
<1>1. /\ step = "fetched" /\ indexed < Len(computeProducts) /\ indexed' = indexed + 1
      /\ UNCHANGED <<feed, rest, computeProducts, step>>
      /\ index' = IF x.sku.excluded \/ paid = {} THEN index
                  ELSE [index EXCEPT ![key] = GCP!Lower(@, GCP!Lowest(paid))]
  BY DEF GCP!indexCPURAMPrices, GCP!Indexed
<1>2. /\ indexed \in 0 .. Len(computeProducts) /\ index \in [GCP!Keys -> Nat]
      /\ computeProducts \in Seq(ComputeProducts) /\ feed \subseteq SKUs
      /\ \A i \in DOMAIN computeProducts : \E sku \in feed : computeProducts[i] \in GCP!transformSKU(sku)
      /\ \A k \in GCP!Keys : IsLowest(index[k], PaidSoFar(k))
  BY DEF MachinesInv, IndexInv, CatalogueInv
<1>3. indexed \in Nat /\ Len(computeProducts) \in Nat /\ indexed + 1 \in DOMAIN computeProducts
  BY <1>1, <1>2
<1>4. PICK sku \in feed : x \in GCP!transformSKU(sku)
  BY <1>2, <1>3
<1>5. x.prices \in Seq(Nat)
  BY <1>2, <1>4, ProductOfSKU, GCPAssumption
<1> HIDE DEF x
<1>6. IsFiniteSet(paid) BY <1>5, PricesAreFinite
<1>7. paid \in SUBSET (Nat \ {0})
  BY <1>5
<1>8. ASSUME NEW k \in GCP!Keys
      PROVE  PaidSoFar(k)' = PaidSoFar(k) \cup (IF CountsFor(x, k) THEN paid ELSE {})
  <2>1. ASSUME NEW v PROVE v \in ToSet(x.prices) /\ v # 0 <=> v \in paid
    BY DEF ToSet
  <2>2. 1 .. indexed' = (1 .. indexed) \cup {indexed + 1}
    BY <1>1, <1>3
  <2>3. PaidSoFar(k)' = {v \in Nat \ {0} : \E i \in (1 .. indexed) \cup {indexed + 1} :
                           CountsFor(computeProducts[i], k) /\ v \in ToSet(computeProducts[i].prices)}
    BY <1>1, <2>2 DEF PaidSoFar, CountsFor, ToSet
  <2> HIDE DEF paid
  <2> QED BY <1>7, <2>1, <2>3 DEF PaidSoFar, x
<1>9. ASSUME NEW k \in GCP!Keys PROVE CountsFor(x, k) <=> ~x.sku.excluded /\ k = key
  BY DEF CountsFor
<1>10. index' \in [GCP!Keys -> Nat] /\ \A k \in GCP!Keys : IsLowest(index'[k], PaidSoFar(k)')
  <2>1. CASE x.sku.excluded \/ paid = {}
    <3>1. ASSUME NEW k \in GCP!Keys PROVE PaidSoFar(k)' = PaidSoFar(k)
      BY <1>8, <1>9, <2>1
    <3> QED BY <1>1, <1>2, <2>1, <3>1
  <2>2. CASE ~(x.sku.excluded \/ paid = {})
    <3> DEFINE v == GCP!Lowest(paid)
    <3>1. v \in paid /\ \A w \in paid : v <= w
      BY <1>6, <1>7, <2>2, LeastExists
    <3>2. v \in Nat BY <1>7, <3>1
    <3> HIDE DEF v, paid, key
    <3>3. index' = [index EXCEPT ![key] = GCP!Lower(@, v)]
      BY <1>1, <2>2 DEF v
    <3>4. ASSUME NEW k \in GCP!Keys
          PROVE  index'[k] = IF k = key THEN GCP!Lower(index[k], v) ELSE index[k]
      BY <1>2, <3>3
    <3>5. index' \in [GCP!Keys -> Nat]
      BY <1>2, <3>2, <3>3 DEF GCP!Lower
    <3>6. ASSUME NEW k \in GCP!Keys PROVE IsLowest(index'[k], PaidSoFar(k)')
      <4>1. PaidSoFar(k) \in SUBSET (Nat \ {0}) BY DEF PaidSoFar
      <4>2. index[k] \in Nat /\ IsLowest(index[k], PaidSoFar(k)) BY <1>2
      <4>3. CASE k = key
        <5>1. PaidSoFar(k)' = PaidSoFar(k) \cup paid BY <1>8, <1>9, <2>2, <4>3
        <5>2. IsLowest(GCP!Lower(index[k], v), PaidSoFar(k) \cup paid)
          BY <1>7, <3>1, <3>2, <4>1, <4>2, LowerIsLowest
        <5> QED BY <3>4, <4>3, <5>1, <5>2
      <4>4. CASE k # key
        <5>1. PaidSoFar(k)' = PaidSoFar(k) BY <1>8, <1>9, <4>4
        <5> QED BY <3>4, <4>2, <4>4, <5>1
      <4> QED BY <4>3, <4>4
    <3> QED BY <3>5, <3>6
  <2> QED BY <2>1, <2>2
<1>11. \A i \in DOMAIN computeProducts' : \E s \in feed' : computeProducts'[i] \in GCP!transformSKU(s)
  BY <1>1, <1>2
<1>12. indexed' \in 0 .. Len(computeProducts')
  BY <1>1, <1>3
<1> QED BY <1>1, <1>10, <1>11, <1>12 DEF IndexInv

\* The other steps leave the index alone.
LEMMA StepIndexInv == MachinesInv /\ [GCP!Next]_GCP!vars => IndexInv'
<1> SUFFICES ASSUME MachinesInv, [GCP!Next]_GCP!vars PROVE IndexInv'
  OBVIOUS
<1>1. /\ computeProducts \in Seq(ComputeProducts) /\ rest \subseteq feed /\ feed \subseteq SKUs
      /\ \A i \in DOMAIN computeProducts : \E sku \in feed : computeProducts[i] \in GCP!transformSKU(sku)
      /\ indexed \in 0 .. Len(computeProducts) /\ (step # "fetched" => indexed = 0)
      /\ index \in [GCP!Keys -> Nat]
      /\ \A k \in GCP!Keys : IsLowest(index[k], PaidSoFar(k))
  BY DEF MachinesInv, CatalogueInv, IndexInv
<1>2. ASSUME UNCHANGED <<feed, computeProducts, index, indexed>>, step' # "fetched" => indexed = 0
      PROVE  IndexInv'
  <2>1. ASSUME NEW k PROVE PaidSoFar(k)' = PaidSoFar(k)
    BY <1>2 DEF PaidSoFar, CountsFor, ToSet
  <2> QED BY <1>1, <1>2, <2>1 DEF IndexInv
<1>3. ASSUME indexed' = 0, index' = GCP!NoPrices, computeProducts' \in Seq(ComputeProducts),
             \A i \in DOMAIN computeProducts' : \E sku \in feed' : computeProducts'[i] \in GCP!transformSKU(sku)
      PROVE  IndexInv'
  <2>1. ASSUME NEW k PROVE PaidSoFar(k)' = {}
    BY <1>3 DEF PaidSoFar
  <2>2. index' \in [GCP!Keys -> Nat] /\ \A k \in GCP!Keys : index'[k] = 0
    BY <1>3 DEF GCP!NoPrices
  <2>3. indexed' \in 0 .. Len(computeProducts') BY <1>3
  <2> QED BY <1>3, <2>1, <2>2, <2>3 DEF IndexInv, IsLowest
<1>4. ASSUME indexed = 0 PROVE index = GCP!NoPrices
  <2>1. ASSUME NEW k \in GCP!Keys PROVE index[k] = 0
    <3>1. PaidSoFar(k) = {} BY <1>4 DEF PaidSoFar
    <3> QED BY <1>1, <3>1 DEF IsLowest
  <2> QED BY <1>1, <2>1 DEF GCP!NoPrices
<1>5. ASSUME NEW sku \in SKUs, GCP!FetchPage(sku) PROVE IndexInv'
  <2>1. step = "fetching" /\ sku \in feed /\ UNCHANGED <<feed, step, index, indexed>>
    BY <1>1, <1>5 DEF GCP!FetchPage
  <2>2. PICK page \in SetToSeqs(GCP!transformSKU(sku)) : computeProducts' = computeProducts \o page
    <3>1. GCP!Cardinality(GCP!transformSKU(sku)) = Cardinality(GCP!transformSKU(sku))
      BY DEF GCP!Cardinality, Cardinality
    <3>2. GCP!SetToSeqs(GCP!transformSKU(sku)) = SetToSeqs(GCP!transformSKU(sku))
      BY <3>1 DEF GCP!SetToSeqs, SetToSeqs
    <3> QED BY <1>5, <3>2 DEF GCP!FetchPage
  <2>3. page \in Seq(GCP!transformSKU(sku)) BY SeqOfSet, TransformedIsFinite
  <2>4. page \in Seq(ComputeProducts) BY <2>3 DEF ComputeProducts
  <2>5. /\ computeProducts' \in Seq(ComputeProducts)
        /\ \A i \in DOMAIN computeProducts' :
             computeProducts'[i] = IF i <= Len(computeProducts) THEN computeProducts[i]
                                   ELSE page[i - Len(computeProducts)]
        /\ DOMAIN computeProducts' = 1 .. Len(computeProducts) + Len(page)
    BY <1>1, <2>2, <2>4
  <2>6. ASSUME NEW i \in DOMAIN computeProducts'
        PROVE  \E s \in feed' : computeProducts'[i] \in GCP!transformSKU(s)
    <3>0. /\ Len(computeProducts) \in Nat /\ Len(page) \in Nat /\ i \in Nat \ {0}
          /\ i <= Len(computeProducts) + Len(page)
          /\ DOMAIN computeProducts = 1 .. Len(computeProducts)
      BY <1>1, <2>3, <2>5
    <3>1. CASE i <= Len(computeProducts)
      <4>1. i \in DOMAIN computeProducts /\ computeProducts'[i] = computeProducts[i]
        BY <2>5, <3>0, <3>1
      <4> QED BY <1>1, <2>1, <4>1
    <3>2. CASE ~(i <= Len(computeProducts))
      <4>1. i - Len(computeProducts) \in 1 .. Len(page) BY <3>0, <3>2
      <4>2. page[i - Len(computeProducts)] \in GCP!transformSKU(sku) BY <2>3, <4>1
      <4> QED BY <1>1, <2>1, <2>5, <3>2, <4>2
    <3> QED BY <3>1, <3>2
  <2> QED BY <1>1, <1>3, <1>4, <2>1, <2>5, <2>6
<1>6. ASSUME NEW retryable \in BOOLEAN, GCP!FetchFails(retryable) PROVE IndexInv'
  BY <1>1, <1>2, <1>6 DEF GCP!FetchFails
<1>7. ASSUME GCP!LastPage PROVE IndexInv'
  BY <1>1, <1>2, <1>7 DEF GCP!LastPage
<1>8. ASSUME GCP!synthesizeMachineTypes PROVE IndexInv'
  BY <1>1, <1>3, <1>8 DEF GCP!synthesizeMachineTypes
<1>9. ASSUME GCP!Rescrape PROVE IndexInv'
  <2>1. computeProducts' = << >> /\ UNCHANGED <<feed, index, indexed>> /\ step \in {"done", "error"}
    BY <1>9 DEF GCP!Rescrape
  <2> QED BY <1>1, <1>3, <1>4, <2>1
<1>10. ASSUME UNCHANGED GCP!vars PROVE IndexInv'
  BY <1>1, <1>2, <1>10 DEF GCP!vars
<1> QED BY <1>5, <1>6, <1>7, <1>8, <1>9, <1>10, IndexStep DEF GCP!Next

\* An index of the whole catalogue holds the list prices.
LEMMA IndexIsListPrice ==
  ASSUME MachinesInv, step = "fetched", indexed = Len(computeProducts),
         NEW part \in {"cpu", "ram"}, NEW family \in GCP!Families, NEW region \in GCP!Regions, NEW o \in GCP!Options
  PROVE  LET v == index[<<part, family, region, o>>]
             S == GCP!ListPrices(part, family, region, o)
         IN /\ v # 0 <=> S # {}
            /\ v # 0 => v = GCP!Lowest(S)
<1> DEFINE k == <<part, family, region, o>>
           S == GCP!ListPrices(part, family, region, o)
<1>1. k \in GCP!Keys BY DEF GCP!Keys
<1>2. /\ rest = {} /\ feed \subseteq SKUs /\ computeProducts \in Seq(ComputeProducts)
      /\ \A sku \in feed : \A x \in GCP!transformSKU(sku) : \E i \in DOMAIN computeProducts : computeProducts[i] = x
      /\ \A i \in DOMAIN computeProducts : \E sku \in feed : computeProducts[i] \in GCP!transformSKU(sku)
      /\ IsLowest(index[k], PaidSoFar(k))
  BY <1>1 DEF MachinesInv, CatalogueInv, IndexInv
<1>3. DOMAIN computeProducts = 1 .. indexed BY <1>2
<1>4. ASSUME NEW sku \in feed
      PROVE  sku.rates \in Seq(Nat) /\ GCP!ToSet(sku.rates) = ToSet(sku.rates)
  BY <1>2, GCPAssumption DEF GCP!ToSet, ToSet
<1>5. ASSUME NEW v \in PaidSoFar(k) PROVE v \in S
  <2>1. PICK i \in DOMAIN computeProducts : CountsFor(computeProducts[i], k) /\ v \in ToSet(computeProducts[i].prices)
    BY <1>3 DEF PaidSoFar
  <2>2. PICK sku \in feed : computeProducts[i] \in GCP!transformSKU(sku) BY <1>2
  <2>3. /\ computeProducts[i].sku = sku /\ computeProducts[i].region \in sku.regions
        /\ computeProducts[i].prices = sku.rates
    BY <1>2, <2>2, ProductOfSKU
  <2>4. /\ ~sku.excluded /\ sku.part = part /\ sku.family = family /\ region \in sku.regions /\ sku.option = o
    BY <2>1, <2>3 DEF CountsFor
  <2>5. v \in GCP!ToSet(sku.rates) BY <1>4, <2>1, <2>3
  <2>6. v > 0 BY DEF PaidSoFar
  <2> QED BY <2>4, <2>5, <2>6 DEF GCP!ListPrices
<1>6. ASSUME NEW v \in S PROVE v \in PaidSoFar(k)
  <2>1. PICK sku \in feed : /\ sku.part = part /\ sku.family = family /\ region \in sku.regions
                            /\ sku.option = o /\ ~sku.excluded /\ v \in GCP!ToSet(sku.rates)
    BY DEF GCP!ListPrices
  <2>2. v > 0 BY DEF GCP!ListPrices
  <2>3. v \in ToSet(sku.rates) /\ v \in Nat
    <3>1. v \in ToSet(sku.rates) BY <1>4, <2>1
    <3>2. PICK i \in DOMAIN sku.rates : v = sku.rates[i] BY <3>1 DEF ToSet
    <3>3. sku.rates[i] \in Nat BY <1>4
    <3> QED BY <3>1, <3>2, <3>3
  <2>4. sku.rates # << >> BY <2>3 DEF ToSet
  <2> DEFINE x == [sku |-> sku, region |-> region, prices |-> sku.rates]
  <2>5. x \in GCP!transformSKU(sku) BY <2>1, <2>4 DEF GCP!transformSKU
  <2>6. CountsFor(x, k) /\ x.prices = sku.rates BY <2>1 DEF CountsFor
  <2> HIDE DEF x
  <2>7. PICK i \in DOMAIN computeProducts : computeProducts[i] = x BY <1>2, <2>5
  <2> QED BY <1>3, <2>2, <2>3, <2>6, <2>7 DEF PaidSoFar
<1>7. PaidSoFar(k) = S BY <1>5, <1>6
<1>8. PaidSoFar(k) \in SUBSET Nat /\ 0 \notin PaidSoFar(k) BY DEF PaidSoFar
<1> HIDE DEF S, k
<1>9. index[k] # 0 <=> S # {} BY <1>2, <1>7, <1>8 DEF IsLowest
<1>10. ASSUME index[k] # 0 PROVE index[k] = GCP!Lowest(S)
  <2>1. index[k] \in S /\ \A w \in S : index[k] <= w
    BY <1>2, <1>7, <1>8, <1>10 DEF IsLowest
  <2> QED BY <1>7, <1>8, <2>1, LeastIsLowest
<1> QED BY <1>9, <1>10 DEF S, k

\* The prices of a machine type, made of the index in any order of its options.
LEMMA SoldIsOffered ==
  ASSUME MachinesInv, step = "fetched", indexed = Len(computeProducts),
         NEW row \in GCP!Rows, NEW order \in GCP!SetToSeqs(GCP!Sold(row))
  PROVE  /\ order = << >> => Offered(row) = {}
         /\ Len(GCP!MachinePrices(row, order)) = Cardinality(Offered(row))
         /\ ToSet(GCP!MachinePrices(row, order)) = {Offer(row, o) : o \in Offered(row)}
<1> DEFINE P == GCP!Sold(row)
           s == GCP!MachinePrices(row, order)
<1>1. row[1].family \in GCP!Families /\ row[2] \in GCP!Regions
  BY DEF GCP!Rows, GCP!Families
<1>2. ASSUME NEW o \in GCP!Options
      PROVE  /\ o \in P <=> o \in Offered(row)
             /\ o \in P => /\ GCP!cpuPrice(row, o) = GCP!Lowest(GCP!ListPrices("cpu", row[1].family, row[2], o))
                           /\ GCP!ramPrice(row, o) = GCP!Lowest(GCP!ListPrices("ram", row[1].family, row[2], o))
  <2>1. /\ GCP!cpuPrice(row, o) # 0 <=> GCP!ListPrices("cpu", row[1].family, row[2], o) # {}
        /\ GCP!cpuPrice(row, o) # 0 => GCP!cpuPrice(row, o) = GCP!Lowest(GCP!ListPrices("cpu", row[1].family, row[2], o))
    BY <1>1, IndexIsListPrice DEF GCP!cpuPrice
  <2>2. /\ GCP!ramPrice(row, o) # 0 <=> GCP!ListPrices("ram", row[1].family, row[2], o) # {}
        /\ GCP!ramPrice(row, o) # 0 => GCP!ramPrice(row, o) = GCP!Lowest(GCP!ListPrices("ram", row[1].family, row[2], o))
    BY <1>1, IndexIsListPrice DEF GCP!ramPrice
  <2> QED BY <2>1, <2>2 DEF GCP!Sold, Offered
<1>3. P \subseteq GCP!Options /\ Offered(row) \subseteq GCP!Options
  BY DEF GCP!Sold, Offered
<1> HIDE DEF P
<1>4. P = Offered(row) BY <1>2, <1>3
<1>5. IsFiniteSet(P)
  <2>1. IsFiniteSet(GCP!Options) BY GCPAssumption DEF GCP!Options
  <2> QED BY <1>3, <2>1, FS_Subset
<1>6. order \in SetToSeqs(P)
  <2>1. GCP!Cardinality(P) = Cardinality(P) BY DEF GCP!Cardinality, Cardinality
  <2> QED BY <2>1 DEF GCP!SetToSeqs, SetToSeqs, P
<1>7. order \in Seq(P) /\ \A o \in P : \E i \in DOMAIN order : order[i] = o
  BY <1>5, <1>6, SeqOfSet
<1>8. Cardinality(P) \in Nat /\ DOMAIN order = 1 .. Cardinality(P)
  <2>1. Cardinality(P) \in Nat BY <1>5, FS_CardinalityType
  <2> QED BY <1>6, <2>1 DEF SetToSeqs
<1>9. ASSUME NEW i \in DOMAIN order PROVE order[i] \in P /\ s[i] = Offer(row, order[i])
  <2>1. order[i] \in P BY <1>7
  <2> QED BY <1>2, <1>3, <2>1 DEF GCP!MachinePrices, Offer
<1>10. DOMAIN s = 1 .. Cardinality(P) /\ Len(s) = Cardinality(P)
  BY <1>8 DEF GCP!MachinePrices
<1>11. order = << >> => P = {}
  BY <1>7
<1>12. ToSet(s) = {Offer(row, o) : o \in P}
  <2> HIDE DEF s
  <2>1. ASSUME NEW y \in ToSet(s) PROVE y \in {Offer(row, o) : o \in P}
    BY <1>8, <1>9, <1>10 DEF ToSet
  <2>2. ASSUME NEW o \in P PROVE Offer(row, o) \in ToSet(s)
    BY <1>7, <1>8, <1>9, <1>10 DEF ToSet
  <2> QED BY <2>1, <2>2
<1> QED BY <1>4, <1>10, <1>11, <1>12

LEMMA StepOffersInv == MachinesInv /\ [GCP!Next]_GCP!vars => OffersInv'
<1> SUFFICES ASSUME MachinesInv, [GCP!Next]_GCP!vars PROVE OffersInv'
  OBVIOUS
<1>1. UNCHANGED feed
  BY DEF GCP!Next, GCP!FetchPage, GCP!FetchFails, GCP!LastPage, GCP!indexCPURAMPrices,
         GCP!synthesizeMachineTypes, GCP!Rescrape, GCP!vars
<1>2. ASSUME NEW part, NEW family, NEW region, NEW o
      PROVE  GCP!ListPrices(part, family, region, o)' = GCP!ListPrices(part, family, region, o)
  BY <1>1 DEF GCP!ListPrices
<1>3. ASSUME NEW row
      PROVE  Offered(row)' = Offered(row) /\ \A o : Offer(row, o)' = Offer(row, o)
  BY <1>2 DEF Offered, Offer
<1>4. ASSUME UNCHANGED stored, step' = "done" => step = "done" PROVE OffersInv'
  <2>1. ASSUME NEW row PROVE IsSum(row)' <=> IsSum(row)
    <3>1. {Offer(row, o)' : o \in Offered(row)'} = {Offer(row, o) : o \in Offered(row)}
      BY <1>3
    <3>2. Len(stored[row])' = Len(stored[row]) /\ ToSet(stored[row])' = ToSet(stored[row])
      BY <1>4 DEF ToSet
    <3>3. Cardinality(Offered(row))' = Cardinality(Offered(row)) BY <1>3
    <3> QED BY <3>1, <3>2, <3>3 DEF IsSum
  <2> QED BY <1>4, <2>1 DEF MachinesInv, OffersInv
<1>5. ASSUME GCP!synthesizeMachineTypes PROVE OffersInv'
  <2>1. step = "fetched" /\ indexed = Len(computeProducts) BY <1>5 DEF GCP!synthesizeMachineTypes
  <2>2. PICK order :
          /\ \A row \in GCP!Rows : order[row] \in GCP!SetToSeqs(GCP!Sold(row))
          /\ stored' = [row \in GCP!Rows |->
               IF order[row] = << >> THEN stored[row] ELSE GCP!MachinePrices(row, order[row])]
    BY <1>5 DEF GCP!synthesizeMachineTypes
  <2>3. ASSUME NEW row \in GCP!Rows PROVE IsSum(row)'
    <3>1. /\ order[row] = << >> => Offered(row) = {}
          /\ Len(GCP!MachinePrices(row, order[row])) = Cardinality(Offered(row))
          /\ ToSet(GCP!MachinePrices(row, order[row])) = {Offer(row, o) : o \in Offered(row)}
      BY <2>1, <2>2, SoldIsOffered
    <3>2. CASE order[row] = << >>
      <4>1. stored'[row] = stored[row] BY <2>2, <3>2
      <4>2. Offered(row) = {} BY <3>1, <3>2
      <4>3. stored[row] = << >> \/ IsSum(row) BY DEF MachinesInv, OffersInv
      <4>4. CASE IsSum(row) BY <1>3, <4>1, <4>4 DEF IsSum, ToSet
      <4>5. CASE stored[row] = << >>
        <5>1. Cardinality(Offered(row)) = 0 BY <4>2, FS_EmptySet
        <5>2. Len(stored[row]) = 0 /\ ToSet(stored[row]) = {} BY <4>5 DEF ToSet
        <5> QED BY <1>3, <4>1, <4>2, <5>1, <5>2 DEF IsSum, ToSet
      <4> QED BY <4>3, <4>4, <4>5
    <3>3. CASE order[row] # << >>
      <4>1. stored'[row] = GCP!MachinePrices(row, order[row]) BY <2>2, <3>3
      <4> QED BY <1>3, <3>1, <4>1 DEF IsSum, ToSet
    <3> QED BY <3>2, <3>3
  <2>4. DOMAIN stored' = GCP!Rows BY <2>2
  <2> QED BY <2>3, <2>4 DEF OffersInv
<1>6. ASSUME NEW sku \in SKUs, GCP!FetchPage(sku) PROVE OffersInv'
  BY <1>4, <1>6 DEF GCP!FetchPage
<1>7. ASSUME NEW retryable \in BOOLEAN, GCP!FetchFails(retryable) PROVE OffersInv'
  BY <1>4, <1>7 DEF GCP!FetchFails, GCP!AfterFailure
<1>8. ASSUME GCP!LastPage \/ GCP!indexCPURAMPrices \/ GCP!Rescrape \/ UNCHANGED GCP!vars PROVE OffersInv'
  BY <1>4, <1>8 DEF GCP!LastPage, GCP!indexCPURAMPrices, GCP!Rescrape, GCP!vars
<1> QED BY <1>5, <1>6, <1>7, <1>8 DEF GCP!Next

\* indexCPURAMPrices and synthesizeMachineTypes: after a scrape every machine type is
\* sold in every region under exactly the purchase options that have a core and a RAM
\* price there, once each, at the lowest of either times its size, whatever the
\* catalogue, the order of its pages and repeats among them, Go's maps, and the scrapes before.
THEOREM MachinesAreSums == Spec => []MachineTypesAreSums
<1> DEFINE Inv == vendor = "gcp" => MachinesInv
<1>1. Init => Inv
  BY InitMachinesInv DEF Init
<1>2. Inv /\ [Next]_vars => Inv'
  <2>1. [Next]_vars /\ vendor' = "gcp" => vendor = "gcp" /\ [GCP!Next]_GCP!vars
    BY DEF Next, vars, gcp, paging, GCP!vars
  <2>2. MachinesInv /\ [GCP!Next]_GCP!vars => CatalogueInv'
    BY StepCatalogueInv DEF MachinesInv
  <2> QED BY <2>1, <2>2, StepIndexInv, StepOffersInv DEF MachinesInv
<1>3. Inv => MachineTypesAreSums
  <2> SUFFICES ASSUME MachinesInv, step = "done", NEW row \in GCP!Rows
               PROVE  /\ Len(stored[row]) = GCP!Cardinality(Offered(row))
                      /\ GCP!ToSet(stored[row]) = {Offer(row, o) : o \in Offered(row)}
    BY DEF MachineTypesAreSums, GCP!MachineTypesAreSums, Offered, Offer
  <2>1. IsSum(row) BY DEF MachinesInv, OffersInv
  <2>2. GCP!Cardinality(Offered(row)) = Cardinality(Offered(row)) BY DEF GCP!Cardinality, Cardinality
  <2>3. GCP!ToSet(stored[row]) = ToSet(stored[row]) BY DEF GCP!ToSet, ToSet
  <2> QED BY <2>1, <2>2, <2>3 DEF IsSum
<1> QED BY <1>1, <1>2, <1>3, PTL DEF Spec
=============================================================================
