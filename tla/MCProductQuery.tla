--------------------------- MODULE MCProductQuery ---------------------------
(* Small instance of ProductQuery: three hashes, rows that filters tell apart *)
(* by region and usage type, filters good and bad, and the shapes of regexes. *)
EXTENDS ProductQuery, TLC

CONSTANTS w1, w2

Words == {"GP3", "IA", "ia", "Bytes", "USE1", "Global"}
MCLower == [w \in Words |-> IF w = "IA" THEN "ia" ELSE w]
MCCanonical == [o \in {"on_demand", "OnDemand", "spot"} |-> IF o = "spot" THEN o ELSE "ondemand"]

Columns(region) == [vendorName |-> "aws", service |-> "AmazonRDS", region |-> region]
TwoColumns == [vendorName |-> "aws", service |-> "AmazonRDS"]

Price(option, start, description) ==
  [purchaseOption |-> option, unit |-> "GB-Mo", startUsageAmount |-> start, description |-> description]

Row(usage, prices) ==
  [columns |-> Columns("us-east-1"), attributes |-> [usagetype |-> usage], prices |-> prices]

MCRows == {
  Row(<<"GP3">>, {Price("OnDemand", "", <<"Bytes">>), Price("spot", "0", <<"IA", "Bytes">>),
                  Price("OnDemand", "0", <<"Bytes", "ia">>), Price("OnDemand", "100", <<"GP3", "Bytes", "IA", "Bytes">>)}),
  Row(<<"Global", "GP3">>, {Price("OnDemand", "", <<"GP3">>), Price("OnDemand", "", <<"ia", "Bytes", "GP3">>)})}

Body(all, dash, star, word, end) == [all |-> all, dash |-> dash, star |-> star, word |-> word, end |-> end]
Anything == Body(TRUE, FALSE, FALSE, "GP3", FALSE)
Word(w) == Body(FALSE, FALSE, FALSE, w, FALSE)

Regex(form, i, start, ahead, behind, body) ==
  [form |-> form, long |-> FALSE, i |-> i, start |-> start, ahead |-> ahead, behind |-> behind, body |-> body]

Term(w) == [word |-> w, escaped |-> FALSE]
Not(star, words, group, end) == [star |-> star, terms |-> {Term(w) : w \in words}, group |-> group, end |-> end]

Patterns ==
  {Regex("slashed", i, TRUE, {Not(star, {"ia"}, FALSE, end)}, {}, body) :
     i \in BOOLEAN, star \in BOOLEAN, end \in BOOLEAN, body \in {Anything, Body(FALSE, FALSE, TRUE, "Bytes", TRUE)}}
  \cup {Regex("slashed", TRUE, TRUE, {Not(TRUE, {"ia", "GP3"}, TRUE, end)}, {}, Anything) : end \in BOOLEAN}
  \cup {Regex("slashed", TRUE, TRUE, {[star |-> TRUE, terms |-> {[word |-> "ia", escaped |-> TRUE]}, group |-> FALSE, end |-> FALSE]}, {}, Anything)}
  \cup {Regex("slashed", i, FALSE, {}, {Term("ia")}, Body(FALSE, FALSE, FALSE, "Bytes", end)) : i \in BOOLEAN, end \in BOOLEAN}
  \cup {Regex(form, FALSE, FALSE, {}, {}, Body(FALSE, TRUE, FALSE, "Bytes", TRUE)) : form \in {"bare", "slashed", "open"}}

MCPrices == {[descriptionRegex |-> p] : p \in Patterns}
  \cup {[purchaseOption |-> "on_demand", unit |-> "GB-Mo", startUsageAmount |-> "0"]}

Usage(form, dash) == [kind |-> "regex", key |-> "usagetype",
                      pattern |-> Regex(form, FALSE, FALSE, {}, {}, Body(FALSE, dash, FALSE, "GP3", TRUE))]

MCFilters == {
  [columns |-> Columns("us-east-1"), attributes |-> <<Usage("slashed", TRUE)>>, limit |-> 1, prices |-> {}],
  [columns |-> TwoColumns, attributes |-> <<Usage("open", FALSE)>>, limit |-> 0, prices |-> MCPrices],
  [columns |-> [vendorName |-> "aws"], attributes |-> << >>, limit |-> 0, prices |-> {}]}

MCAllowances == {-1, 1}
=============================================================================
