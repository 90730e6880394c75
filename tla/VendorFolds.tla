----------------------------- MODULE VendorFolds -----------------------------
(***************************************************************************)
(* The vendors' own work on what they fetch: a command scrapes one vendor  *)
(* (--vendor) and runs AzureService, GCPCompute or AWSPriceFile.  The two  *)
(* that page share the variables of their paging.                          *)
(***************************************************************************)
EXTENDS Integers, Sequences, FiniteSets

CONSTANTS AzureRows, MaxRows, Kinds, VersionOf, SkipNames, AzureRetries \* AzureService
CONSTANTS SKUs, MaxSKUs, MachineTypes, GCPRetries, MaxRepeated, MaxScrapes  \* GCPCompute
CONSTANTS Files, awsLocationToRegion, UnitsPerYuan, cnyUSDRate          \* AWSPriceFile

IsSequence(s) == Len(s) \in Nat /\ DOMAIN s = 1 .. Len(s)

\* Prices are numbers, none of them negative at GCP, where a SKU is sold in finitely
\* many regions under finitely many purchase options, and a price file is a sequence
\* of sections with sequences of entries, a JSON object that repeats no key: of
\* sections, SKUs and term types listed twice the decoder's maps keep the last.
ASSUME AzureAssumption == \A row \in AzureRows : row.usd \in Int
ASSUME GCPAssumption ==
  /\ \A sku \in SKUs : IsFiniteSet(sku.regions) /\ sku.rates \in Seq(Nat)
  /\ IsFiniteSet({sku.option : sku \in SKUs})
ASSUME AWSAssumption == \A f \in Files :
  /\ IsSequence(f) /\ \A i \in DOMAIN f : IsSequence(f[i].entries)
  /\ \A i, j \in DOMAIN f : f[i].key = f[j].key => i = j
  /\ \A i \in DOMAIN f : \A j, k \in DOMAIN f[i].entries :
       /\ f[i].key = "products" /\ f[i].entries[j].sku = f[i].entries[k].sku => j = k
       /\ f[i].key = "terms" /\ f[i].entries[j].type = f[i].entries[k].type => j = k

VARIABLES vendor, feed, rest, attempt

VARIABLES kind, prices, result                    \* AzureService
VARIABLES computeProducts, step, index, indexed, stored, scrapes  \* GCPCompute
VARIABLES file, section, entry, inside, raw, parsed, list, endedEarly  \* AWSPriceFile

paging == <<feed, rest, attempt>>
azure == <<kind, prices, result>>
gcp == <<computeProducts, step, index, indexed, stored, scrapes>>
aws == <<file, section, entry, inside, raw, parsed, list, endedEarly>>
vars == <<vendor, paging, azure, gcp, aws>>

Azure == INSTANCE AzureService WITH Rows <- AzureRows, MaxRetries <- AzureRetries
GCP == INSTANCE GCPCompute WITH MaxRetries <- GCPRetries
AWS == INSTANCE AWSPriceFile

-----------------------------------------------------------------------------

NoPages == feed = {} /\ rest = {} /\ attempt = 0
AzureIdle == kind = "other" /\ prices = << >> /\ result = "idle"
GCPIdle ==
  /\ computeProducts = << >> /\ step = "idle" /\ index = << >> /\ indexed = 0
  /\ stored = << >> /\ scrapes = 0
AWSIdle ==
  /\ file = << >> /\ section = 0 /\ entry = 0 /\ inside = FALSE /\ raw = << >>
  /\ parsed = "idle" /\ list = {} /\ endedEarly = FALSE

Init ==
  \/ vendor = "azure" /\ Azure!Init /\ GCPIdle /\ AWSIdle
  \/ vendor = "gcp" /\ GCP!Init /\ AzureIdle /\ AWSIdle
  \/ vendor = "aws" /\ AWS!Init /\ AzureIdle /\ GCPIdle /\ NoPages

Next ==
  \/ vendor = "azure" /\ Azure!Next /\ UNCHANGED <<vendor, gcp, aws>>
  \/ vendor = "gcp" /\ GCP!Next /\ UNCHANGED <<vendor, azure, aws>>
  \/ vendor = "aws" /\ AWS!Next /\ UNCHANGED <<vendor, paging, azure, gcp>>

Spec == Init /\ [][Next]_vars

\* AzureService: all rows of the feed are priced, or the service fails.
EveryRowPriced == vendor = "azure" => Azure!EveryRowPriced

\* AzureService: a non-primary row only fills a gap.
PrimaryRowsWin == vendor = "azure" => Azure!PrimaryRowsWin

\* AzureService: a tier costs the lowest amount listed for a virtual region.
OneLowestPricePerTier == vendor = "azure" => Azure!OneLowestPricePerTier

\* GCPCompute: all priced SKUs become products, or the service fails.
EverySKUPriced == vendor = "gcp" => GCP!EverySKUPriced

\* GCPCompute: machine types cost the lowest core and RAM prices, whatever the order.
MachineTypesAreSums == vendor = "gcp" => GCP!MachineTypesAreSums

\* AzureService: what the provider notes say of virtual regions.
LastPriceWins == vendor = "azure" => Azure!LastPriceWins

\* GCPCompute: what the comment on the SKU patterns says.
LastMatchWins == vendor = "gcp" => GCP!LastMatchWins

\* AWSPriceFile: all terms of the file are priced, or the service fails.
EveryTermPriced == vendor = "aws" => AWS!EveryTermPriced
=============================================================================
