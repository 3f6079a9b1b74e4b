-------------------------- MODULE MCSpanningTree --------------------------
(* Finite instances of SpanningTree: two bridges joined twice, with two    *)
(* events, and three in a ring, with a link that may be cut. The new       *)
(* identifier is better than both of a pair, between them, or worse.       *)
EXTENDS SpanningTree

Pair(a, b) == {{<<a, 1>>, <<b, 1>>}, {<<a, 2>>, <<b, 2>>}}
Ring == {{<<1, 1>>, <<2, 1>>}, {<<2, 2>>, <<3, 1>>}, {<<3, 2>>, <<1, 2>>}}

PairsAndRing ==
    {[links |-> Pair(5, 6), kinds |-> Kinds, bound |-> 2],
     [links |-> Pair(3, 5), kinds |-> {"lose", "renamed"}, bound |-> 2],
     [links |-> Pair(1, 2), kinds |-> {"lose", "renamed"}, bound |-> 2],
     [links |-> Ring, kinds |-> {"cut"}, bound |-> 1]}
=============================================================================
