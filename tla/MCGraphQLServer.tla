-------------------------- MODULE MCGraphQLServer --------------------------
(* Small instance of GraphQLServer, with the documents' selections for the  *)
(* checks that refuse one before it is executed.                            *)
EXTENDS GraphQLServer, TLC

AST == INSTANCE QueryAST

CONSTANTS r1, r2, MaxQueryDepth

Leaf(name) == AST!Field(name, << >>)
Shared == [a |-> <<AST!Field("prices", <<Leaf("USD")>>)>>]

\* Not deep; deep only where a fragment is used for the second time; introspecting
\* there; a fragment that contains itself, for graphql-go to refuse.
Syntax == [
  plain |-> [operation |-> <<AST!Field("products", <<AST!Spread("a")>>), AST!Spread("a")>>, fragments |-> Shared],
  deep |-> [operation |-> <<AST!Spread("a"), AST!Field("products", <<AST!Inline(<<AST!Field("x", <<AST!Spread("a")>>)>>)>>)>>,
            fragments |-> Shared],
  schema |-> [operation |-> <<AST!Spread("b"), AST!Field("x", <<AST!Spread("b")>>), Leaf("__schema")>>,
              fragments |-> [b |-> <<Leaf("__typename"), AST!Spread("b")>>]]]

MCQueries == DOMAIN Syntax
RefusedQueries ==
  {q \in MCQueries : \/ AST!computeQueryDepthFromAST(Syntax[q]) > MaxQueryDepth
                     \/ AST!astContainsIntrospection(Syntax[q])}
MCRefused(q) == q \in RefusedQueries

\* Those that are too deep, or introspect, with their fragments written out.
UnfitQueries ==
  {q \in MCQueries : \/ AST!TrueDepth(Syntax[q]) > MaxQueryDepth
                     \/ AST!Names(Syntax[q]) \cap {"__schema", "__type"} # {}}

f(n) == [limit |-> n, broad |-> FALSE]
doc(fs) == [query |-> "plain", fields |-> fs]
unfit(q) == [query |-> q, fields |-> << >>]

\* Two aliases, then another item; a filter too broad, then a refused item; an
\* empty batch; a batch that is too large.
MCBodies == { << doc(<<f(2), f(0)>>), doc(<<f(1)>>) >>,
              << doc(<<[limit |-> 1, broad |-> TRUE], f(2)>>), unfit("deep") >>,
              << >>,
              << unfit("schema"), unfit("schema"), unfit("schema") >> }

-----------------------------------------------------------------------------
(* The two walks against the documents written out, for every operation and  *)
(* two fragments of up to two selections each.                               *)

Choices == {Leaf("x"), Leaf("__type"), AST!Field("x", <<AST!Spread("a")>>), AST!Spread("a"), AST!Spread("b")}
UpToTwo == {<< >>} \cup {<<s>> : s \in Choices} \cup {<<s, t>> : s \in Choices, t \in Choices}

WalksAreExact ==
  \A o \in UpToTwo, a \in UpToTwo, b \in UpToTwo :
    LET d == [operation |-> o, fragments |-> [a |-> a, b |-> b]]
    IN AST!Acyclic(d) =>
         /\ AST!computeQueryDepthFromAST(d) = AST!TrueDepth(d)
         /\ AST!astContainsIntrospection(d) <=> AST!Names(d) \cap {"__schema", "__type"} # {}

-----------------------------------------------------------------------------

\* An item is refused exactly when its query, with all fragments written out, is too
\* deep or introspects: a fragment used twice counts wherever it is used.  Of
\* small documents all are compared.
RefusalIsExact ==
  /\ \A r \in Requests : \A i \in DOMAIN results[r] :
       results[r][i] \in {"ok", "error", "refused"} =>
         (results[r][i] = "refused" <=> body[r][i].query \in UnfitQueries)
  /\ WalksAreExact
=============================================================================
