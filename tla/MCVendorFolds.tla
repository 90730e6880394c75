---------------------------- MODULE MCVendorFolds ----------------------------
(***************************************************************************)
(* Small instances of VendorFolds: feeds, catalogues and price files.      *)
(***************************************************************************)
EXTENDS VendorFolds

-----------------------------------------------------------------------------
(* Azure: a meter listed under its region, under special regions or under   *)
(* none, and a virtual machine in two spellings.                            *)

Row(name, region, primary, tier, unit, usd) ==
  [name |-> name, region |-> region, primary |-> primary, tier |-> tier, unit |-> unit, usd |-> usd]

ListedRows ==
  {Row("Firewall", region, primary, "t1", "1 Hour", usd) :
     region \in {"eastus", ""}, primary \in BOOLEAN, usd \in {1, 2}}
  \cup {Row("Firewall", "usgovvirginia", TRUE, tier, "100 Hours", 3) : tier \in {"t1", "t2"}}
  \cup {Row("Firewall", region, TRUE, "t1", "1 Hour", 1) : region \in {"chinaeast", "germanynorth"}}
  \cup {Row("Firewall", "eastus", FALSE, "t1", "100 Hours", 3)}
  \cup {Row(name, "eastus", name = "VM v8", "t1", "1 Hour", 2) : name \in {"VM", "VM v8"}}

AzureKinds == {"Load Balancer", "Azure DNS", "VPN Gateway", "other"}
Versions == [name \in {"Firewall", "VM", "VM v8"} |-> IF name = "VM v8" THEN "VM" ELSE name]

-----------------------------------------------------------------------------
(* GCP: core and RAM SKUs of one family in one or two regions under two      *)
(* purchase options, beside SKUs that must not count.                        *)

SKU(part, regions, option, excluded, rates) ==
  [part |-> part, regions |-> regions, family |-> "n1", option |-> option,
   excluded |-> excluded, rates |-> rates]

ComputeSKUs ==
  {SKU("cpu", {"us", "eu"}, "OnDemand", FALSE, <<3>>),
   SKU("cpu", {"us"}, "OnDemand", FALSE, <<0, 2>>),
   SKU("cpu", {"us"}, "OnDemand", TRUE, <<1>>),
   SKU("cpu", {"us"}, "Preemptible", FALSE, <<1>>),
   SKU("ram", {"us", "eu"}, "OnDemand", FALSE, <<2, 1>>),
   SKU("ram", {"us"}, "Preemptible", FALSE, <<1>>),
   SKU("other", {"us"}, "OnDemand", FALSE, << >>)}

Machines == {[family |-> "n1", cpus |-> 2, ramGB |-> 8], [family |-> "c2", cpus |-> 4, ramGB |-> 16]}

-----------------------------------------------------------------------------
(* AWS: products in a region, in a zone and nowhere; terms in dollars, in    *)
(* yuan or in neither, before and after the products.                        *)

Product(sku, code, type, location) ==
  [sku |-> sku, regionCode |-> code, locationType |-> type, location |-> location]

Listed == {Product("s1", "us-east-1", "AWS Region", "US East (N. Virginia)"),
           Product("s2", "us-east-1", "AWS Local Zone", "US East (Boston)"),
           Product("s3", "", "", "China (Beijing)"), Product("s4", "", "", "Any")}

Absent == [given |-> FALSE, number |-> FALSE, value |-> 0]
Amount(v) == [given |-> TRUE, number |-> TRUE, value |-> v]
Dimension(sku, unit, usd, cny) == [sku |-> sku, unit |-> unit, usd |-> usd, cny |-> cny]

OnDemandTerms == {Dimension("s1", "Hrs", Amount(5), Absent), Dimension("s2", "Hrs", Amount(6), Amount(1)),
                  Dimension("s3", "Hrs", Absent, Amount(14)),
                  Dimension("s4", "Hrs", Absent, [given |-> TRUE, number |-> FALSE, value |-> 0])}
ReservedTerms == {Dimension("s1", "Quantity", Amount(9), Absent), Dimension("s3", "Hrs", Absent, Amount(0)),
                  Dimension("s4", "Quantity", Amount(9), Absent)}

Term(type, dims) == [type |-> type, dimensions |-> dims]
ProductSections == {<<a, b>> : a \in Listed, b \in Listed} \ {<<a, a>> : a \in Listed}
TermSections == {<<Term("OnDemand", OnDemandTerms), Term("Savings", {}), Term("Reserved", ReservedTerms)>>,
                 <<Term("Reserved", ReservedTerms), Term("OnDemand", OnDemandTerms)>>}

PriceFiles ==
  UNION {{<<[key |-> "version", entries |-> << >>], [key |-> "products", entries |-> ps], [key |-> "terms", entries |-> ts]>>,
          <<[key |-> "terms", entries |-> ts], [key |-> "products", entries |-> ps]>>} :
            ps \in ProductSections, ts \in TermSections}

Names == [n \in {"US East (N. Virginia)", "China (Beijing)"} |->
            IF n = "China (Beijing)" THEN "cn-north-1" ELSE "us-east-1"]
=============================================================================
