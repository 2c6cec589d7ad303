------------------------------ MODULE MCGraphNew -----------------------------
(***************************************************************************)
(* New with three keys, every list of at most two dependencies for each of *)
(* them (on a key, on the key itself, repeated, or on "x", which is        *)
(* outside the set), and with no keys at all.                              *)
(***************************************************************************)
EXTENDS GraphNew

MCKeys == <<"a", "b", "c">>

MCNames == KeySet(MCKeys) \cup {"x"}

\* The bound: at most two dependencies a key.
MCLists == UNION {[1 .. n -> MCNames] : n \in 0 .. 2}

MCInputs ==
    [keys : {MCKeys}, deps : [KeySet(MCKeys) -> MCLists]]
        \cup {[keys |-> <<>>, deps |-> <<>>]}

==============================================================================
