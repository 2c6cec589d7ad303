------------------------------ MODULE MCGraphRun -----------------------------
(***************************************************************************)
(* Run on every acyclic graph over three keys in which at most two edges   *)
(* leave a key, repeated edges included, on four graphs over four keys,    *)
(* and on the graph without keys.                                          *)
(***************************************************************************)
EXTENDS GraphRun

MCNames == {"a", "b", "c", "d"}

Three == <<"a", "b", "c">>
Four == <<"a", "b", "c", "d">>

\* The bound: at most two edges out of a key.
Lists(d) == UNION {[1 .. n -> KeySet(Three) \ {d}] : n \in 0 .. 2}

Small ==
    {dd \in [KeySet(Three) -> UNION {Lists(d) : d \in KeySet(Three)}] :
        /\ \A d \in KeySet(Three) : dd[d] \in Lists(d)
        /\ Acyclic(dd)}

Diamond ==
    [a |-> <<"b", "c">>, b |-> <<"d">>, c |-> <<"d">>, d |-> <<>>]

\* A key that waits on three others, on one of them twice.
FanIn ==
    [a |-> <<>>, b |-> <<"a">>, c |-> <<"a", "a">>, d |-> <<"a">>]

\* A chain with shortcuts, and no edges at all.
Chain ==
    [a |-> <<"b", "c", "d">>, b |-> <<"c">>, c |-> <<"d">>, d |-> <<>>]

Apart == [a |-> <<>>, b |-> <<>>, c |-> <<>>, d |-> <<>>]

Graph(ks, dd) ==
    [keys |-> ks, dependents |-> dd,
     inDegree |-> [k \in KeySet(ks) |-> Cardinality(Into(dd, k))]]

MCGraphs ==
    {Graph(Three, dd) : dd \in Small}
        \cup {Graph(Four, dd) : dd \in {Diamond, FanIn, Chain, Apart}}
        \cup {Graph(<<>>, <<>>)}

==============================================================================
