----------------------------- MODULE Catalogue -----------------------------
(***************************************************************************)
(* What the products table promises the API that serves it, whatever the   *)
(* scrapes, commands and crashes behind it do.  A vendor has one reading   *)
(* at a time, made service by service.  A row is written only with what    *)
(* that reading found, or by `seed', and rows are removed only when every  *)
(* service of the vendor was read since the reading began, all it found    *)
(* was stored, and it did not find the rows removed.  A reading cut short  *)
(* may leave statements behind, of which the same is true when it ends;    *)
(* each takes effect at most once, at any later time.                      *)
(***************************************************************************)
CONSTANTS Vendors, Services, Products, Contents, Absent, ServiceVendor, ServiceOf, InitUpstream, InitStored

VARIABLES
  upstream,  \* what the vendors list
  products,  \* the table
  reading,   \* of a service, in the vendor's scrape of now: "unread", "read" or "lost"
  found,     \* what it found, Absent for what it did not
  stored,    \* what of it was written to the table
  late       \* statements left behind by readings cut short

catalogue == <<upstream, products, reading, found, stored, late>>

CatalogueInit ==
  /\ upstream \in InitUpstream
  /\ products \in InitStored
  /\ reading = [s \in Services |-> "unread"]
  /\ found = [h \in Products |-> Absent]
  /\ stored = {}
  /\ late = {}

Change ==
  /\ \E h \in Products, x \in Contents \cup {Absent} : upstream' = [upstream EXCEPT ![h] = x]
  /\ UNCHANGED <<products, reading, found, stored, late>>

\* A service is read once, as it is listed at that moment.
Read(s) ==
  /\ reading[s] = "unread"
  /\ reading' = [reading EXCEPT ![s] = "read"]
  /\ found' = [h \in Products |-> IF ServiceOf[h] = s THEN upstream[h] ELSE found[h]]
  /\ UNCHANGED <<upstream, products, stored, late>>

Named(o) == {h \in Products : o.rows[h] # Absent}

MayStore(C) == \A h \in C : reading[ServiceOf[h]] = "read" /\ found[h] # Absent

\* The vendor was read completely, and stored, without finding any of C.
MaySweep(v, C) ==
  /\ \A s \in Services : ServiceVendor[s] = v => reading[s] = "read"
  /\ \A h \in Products : ServiceVendor[ServiceOf[h]] = v /\ found[h] # Absent => h \in stored
  /\ \A h \in C : ServiceVendor[ServiceOf[h]] = v /\ found[h] = Absent

\* A statement the readings of now may leave behind.
MayLeave(o) ==
  \/ o.kind = "mark"
  \/ /\ o.kind = "upsert" /\ MayStore(Named(o))
     /\ \A h \in Named(o) : o.rows[h] = found[h]
  \/ o.kind = "delete" /\ \E v \in Vendors : MaySweep(v, Named(o))

Leave(S) == (\A o \in S : MayLeave(o)) /\ late' = late \cup S

\* Rows are written as found; with a failing statement services are lost to the
\* reading, and the statement may be left behind.
Store(C, lost, S) ==
  /\ MayStore(C)
  /\ products' = [h \in Products |-> IF h \in C THEN found[h] ELSE products[h]]
  /\ reading' = [s \in Services |-> IF s \in lost THEN "lost" ELSE reading[s]]
  /\ found' = [h \in Products |-> IF ServiceOf[h] \in lost THEN Absent ELSE found[h]]
  /\ stored' = {h \in stored \cup C : ServiceOf[h] \notin lost}
  /\ Leave(S)
  /\ UNCHANGED upstream

\* Rows of a vendor are removed after a complete reading.
Sweep(v, C) ==
  /\ MaySweep(v, C)
  /\ products' = [h \in Products |-> IF h \in C THEN Absent ELSE products[h]]
  /\ UNCHANGED <<upstream, reading, found, stored, late>>

\* Readings end, as many at once as a dying command had.
EndReadings(V, S) ==
  /\ reading' = [s \in Services |-> IF ServiceVendor[s] \in V THEN "unread" ELSE reading[s]]
  /\ found' = [h \in Products |-> IF ServiceVendor[ServiceOf[h]] \in V THEN Absent ELSE found[h]]
  /\ stored' = {h \in stored : ServiceVendor[ServiceOf[h]] \notin V}
  /\ Leave(S)
  /\ UNCHANGED <<upstream, products>>

\* A statement left behind takes effect, a removal on some of its rows only.
Late(o) ==
  /\ o \in late /\ late' = late \ {o}
  /\ \/ o.kind = "mark" /\ UNCHANGED products
     \/ /\ o.kind = "upsert"
        /\ products' = [h \in Products |-> IF h \in Named(o) THEN o.rows[h] ELSE products[h]]
     \/ /\ o.kind = "delete"
        /\ \E C \in SUBSET Named(o) :
             products' = [h \in Products |-> IF h \in C THEN Absent ELSE products[h]]
  /\ UNCHANGED <<upstream, reading, found, stored>>

Seeded(C, x) ==
  /\ products' = [h \in Products |-> IF h \in C THEN x ELSE products[h]]
  /\ UNCHANGED <<upstream, reading, found, stored, late>>

CatalogueNext ==
  \/ Change
  \/ \E s \in Services : Read(s)
  \/ \E C \in SUBSET Products, lost \in SUBSET Services : Store(C, lost, late' \ late)
  \/ \E v \in Vendors, C \in SUBSET Products : Sweep(v, C)
  \/ \E V \in SUBSET Vendors : EndReadings(V, late' \ late)
  \/ \E o \in late : Late(o)
  \/ \E C \in SUBSET Products, x \in Contents : Seeded(C, x)

CatalogueSpec == CatalogueInit /\ [][CatalogueNext]_catalogue
=============================================================================
