---------------------------- MODULE MCScrapeRun ----------------------------
(* Small instances of ScrapeRun: a cfg picks the constants of one of them. *)
EXTENDS ScrapeRun, TLC

CONSTANTS a, b, c, v1, v2, p1, p2

None == [e \in EnvEvents |-> 0]

\* A batch with b is a list that repeats b twice more.
MCBatchLen == [B \in SUBSET Products |-> Cardinality(B) + (IF b \in B THEN 2 ELSE 0)]

-----------------------------------------------------------------------------
(* One vendor with two services, scraped by two overlapping commands.      *)

OneServiceVendor == [s \in Services |-> "azure"]
OneServiceOf == a :> "svc1" @@ b :> "svc2"
OneVendorOf == [p \in Procs |-> "azure"]
EachItsCommand == [p \in Procs |-> p]

OneUpstream == [Products -> Contents \cup {Absent}]
OneStored == [Products -> {v1, Absent}]

\* b was stored before, a may be new.
OverlapStored == {a :> x @@ b :> v1 : x \in {v1, Absent}}

\* a is listed as stored or repriced, b as stored or not at all.
OverlapUpstream == {a :> x @@ b :> y : x \in {v1, v2}, y \in {v1, Absent}}

OneSymmetry == Permutations(Procs)

OverlapBudget == [None EXCEPT !["invoke"] = 2, !["kill"] = 1, !["stray"] = 1, !["change"] = 1]

\* Everything stored and listed, or b gone upstream.
CrashUpstream == {a :> v1 @@ b :> x : x \in {v1, Absent}}

CrashBudget == [None EXCEPT !["invoke"] = 2, !["kill"] = 1, !["pgcrash"] = 1,
                            !["undiscovered"] = 1, !["seed"] = 1]

-----------------------------------------------------------------------------
(* One command scraping two vendors: aws (rds collected, one EC2 region    *)
(* streamed) and azure.                                                    *)

TwoServiceVendor == [s \in Services |-> IF s = "vms" THEN "azure" ELSE "aws"]
TwoServiceOf == a :> "rds" @@ b :> "ec2" @@ c :> "vms"
TwoVendorOf == p1 :> "aws" @@ p2 :> "azure"
SameCommand == [p \in Procs |-> "cmd"]

\* a is listed unchanged, b repriced or no longer listed, c new.
TwoUpstream == {a :> v1 @@ b :> x @@ c :> v1 : x \in {v1, Absent}}
TwoStored == {a :> v1 @@ b :> v2 @@ c :> Absent}

HalfDropBudget == [None EXCEPT !["invoke"] = 2, !["change"] = 2]
SigtermBudget == [None EXCEPT !["invoke"] = 1, !["cancel"] = 1]
PgCrashBudget == [None EXCEPT !["invoke"] = 1, !["pgcrash"] = 1]
UndiscoveredBudget == [None EXCEPT !["invoke"] = 1, !["undiscovered"] = 1]
PlainBudget == [None EXCEPT !["invoke"] = 1]
FaultBudget == [None EXCEPT !["invoke"] = 1, !["fault"] = 1, !["stray"] = 1, !["cancel"] = 1]
=============================================================================
