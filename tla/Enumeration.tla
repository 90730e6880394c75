---------------------------- MODULE Enumeration ----------------------------
(***************************************************************************)
(* What paging through a result promises its readers while the table       *)
(* changes under them: nothing is returned twice, and a reader is done     *)
(* only when everything that matched from its beginning on was returned.   *)
(***************************************************************************)
EXTENDS Naturals, FiniteSets

CONSTANTS Readers, Products

VARIABLES
  matching,   \* what matches each reader's filter now
  owed,       \* what has matched since the beginning and was not yet returned
  returned, finished,
  delivered   \* how many rows each was sent

enumeration == <<matching, owed, returned, delivered, finished>>

Init ==
  /\ matching \in [Readers -> SUBSET Products]
  /\ owed = matching
  /\ returned = [r \in Readers |-> {}]
  /\ delivered = [r \in Readers |-> 0]
  /\ finished = {}

Change ==
  /\ UNCHANGED <<returned, delivered, finished>>
  /\ matching' \in [Readers -> SUBSET Products]
  /\ owed' = [r \in Readers |-> owed[r] \cap matching'[r]]

Yield(r) ==
  /\ r \notin finished
  /\ UNCHANGED <<matching, finished>>
  /\ \E page \in SUBSET (matching[r] \ returned[r]) :
       /\ returned' = [returned EXCEPT ![r] = @ \cup page]
       /\ delivered' = [delivered EXCEPT ![r] = @ + Cardinality(page)]
       /\ owed' = [owed EXCEPT ![r] = @ \ page]

Finish(r) ==
  /\ owed[r] = {}
  /\ finished' = finished \cup {r}
  /\ UNCHANGED <<matching, owed, returned, delivered>>

Next ==
  \/ Change
  \/ \E r \in Readers : Yield(r) \/ Finish(r)

Spec == Init /\ [][Next]_enumeration
=============================================================================
