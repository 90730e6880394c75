------------------------------ MODULE QueryAST ------------------------------
(***************************************************************************)
(* What handleGraphQL asks of a parsed document before executing it: how   *)
(* deep it is and whether it introspects.  A selection set is a sequence   *)
(* of fields, inline fragments and fragment spreads; a document is one     *)
(* operation beside named fragments.  Both walks thread the map `visited'  *)
(* through siblings as the code does, so a name that is not taken out      *)
(* again hides the fragment from whatever comes after it.                  *)
(***************************************************************************)
EXTENDS Integers, Sequences, FiniteSets, SequencesExt

Field(name, selections) == [type |-> "field", name |-> name, selections |-> selections]
Inline(selections) == [type |-> "inline", name |-> "", selections |-> selections]
Spread(name) == [type |-> "spread", name |-> name, selections |-> << >>]

\* Mutant: a fragment once visited stays visited.
MutantLeave(visited, name) == visited

\* The fragment may be visited again on another path.
Leave(visited, name) == visited \ {name}

Known(selection, fragments, visited) == selection.name \in DOMAIN fragments \ visited

RECURSIVE selectionSetDepth(_, _, _)

\* The depth below one selection, and the fragments visited afterwards.
ChildDepth(selection, fragments, visited) ==
  CASE selection.type = "field" ->
         LET below == selectionSetDepth(selection.selections, fragments, visited)
         IN [below EXCEPT !.depth = @ + 1]
    [] selection.type = "inline" -> selectionSetDepth(selection.selections, fragments, visited)
    [] selection.type = "spread" /\ Known(selection, fragments, visited) ->
         LET below == selectionSetDepth(fragments[selection.name], fragments, visited \cup {selection.name})
         IN [below EXCEPT !.visited = Leave(@, selection.name)]
    [] OTHER -> [depth |-> 0, visited |-> visited]

selectionSetDepth(selections, fragments, visited) ==
  FoldLeft(LAMBDA acc, selection :
             LET child == ChildDepth(selection, fragments, acc.visited)
             IN [depth |-> IF child.depth > acc.depth THEN child.depth ELSE acc.depth,
                 visited |-> child.visited],
           [depth |-> 0, visited |-> visited], selections)

computeQueryDepthFromAST(doc) == selectionSetDepth(doc.operation, doc.fragments, {}).depth

\* __typename is no introspection.
Introspective == {"__schema", "__type"}

RECURSIVE selectionSetHasIntrospection(_, _, _)

\* Whether it was met, and the fragments visited afterwards; the walk stops when it is.
Introspects(selection, fragments, visited) ==
  CASE selection.type = "field" /\ selection.name \in Introspective -> [met |-> TRUE, visited |-> visited]
    [] selection.type \in {"field", "inline"} ->
         selectionSetHasIntrospection(selection.selections, fragments, visited)
    [] selection.type = "spread" /\ Known(selection, fragments, visited) ->
         LET below == selectionSetHasIntrospection(fragments[selection.name], fragments, visited \cup {selection.name})
         IN [below EXCEPT !.visited = Leave(@, selection.name)]
    [] OTHER -> [met |-> FALSE, visited |-> visited]

selectionSetHasIntrospection(selections, fragments, visited) ==
  FoldLeft(LAMBDA acc, selection :
             IF acc.met THEN acc ELSE Introspects(selection, fragments, acc.visited),
           [met |-> FALSE, visited |-> visited], selections)

astContainsIntrospection(doc) == selectionSetHasIntrospection(doc.operation, doc.fragments, {}).met

-----------------------------------------------------------------------------
(* The reference: the document with every spread written out. *)

RECURSIVE Paths(_, _, _)

\* The field names from the root down, of a document whose fragments nest at most
\* `fuel' deep.
Paths(selections, fragments, fuel) ==
  {<< >>} \cup
  UNION {LET s == selections[i]
         IN CASE s.type = "field" -> {<<s.name>> \o p : p \in Paths(s.selections, fragments, fuel)}
              [] s.type = "inline" -> Paths(s.selections, fragments, fuel)
              [] s.type = "spread" /\ fuel > 0 /\ s.name \in DOMAIN fragments ->
                   Paths(fragments[s.name], fragments, fuel - 1)
              [] OTHER -> {<< >>} : i \in DOMAIN selections}

WrittenOut(doc) == Paths(doc.operation, doc.fragments, Cardinality(DOMAIN doc.fragments))

\* The longest path, and the names on the way.
TrueDepth(doc) == CHOOSE n \in {Len(p) : p \in WrittenOut(doc)} : \A p \in WrittenOut(doc) : Len(p) <= n
Names(doc) == UNION {ToSet(p) : p \in WrittenOut(doc)}

RECURSIVE Spreads(_)

Spreads(selections) ==
  UNION {IF selections[i].type = "spread" THEN {selections[i].name} ELSE Spreads(selections[i].selections) :
           i \in DOMAIN selections}

\* graphql-go refuses fragments that contain themselves: some set of fragments each of
\* which spreads one of the set.
Acyclic(doc) ==
  ~\E S \in SUBSET DOMAIN doc.fragments :
     S # {} /\ \A a \in S : Spreads(doc.fragments[a]) \cap S # {}
=============================================================================
