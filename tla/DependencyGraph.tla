--------------------------- MODULE DependencyGraph ---------------------------
(***************************************************************************)
(* The dependency graph of depgraph/depgraph.go as a value.                *)
(*                                                                         *)
(* A Graph holds, for every key, the list of keys that wait on it          *)
(* (dependents, one entry per edge, so a repeated dependency is a repeated *)
(* entry) and the number of edges that lead into it (inDegree).  A slot is *)
(* a position in one of those lists: one slot is one edge.                 *)
(***************************************************************************)
EXTENDS Naturals, Sequences, FiniteSets

\* Every edge of the graph, as <<the key waited on, position in its list>>.
Slots(dependents) ==
    UNION {{d} \X DOMAIN dependents[d] : d \in DOMAIN dependents}

\* The edges that lead into x.
Into(dependents, x) ==
    {s \in Slots(dependents) : dependents[s[1]][s[2]] = x}

\* The keys x waits on.
WaitsOn(dependents, x) == {s[1] : s \in Into(dependents, x)}

(***************************************************************************)
(* No set of keys in which every key waits on another key of the set: the  *)
(* form of acyclicity that needs no paths, and that is equivalent to the   *)
(* absence of a cycle in a finite graph.                                   *)
(***************************************************************************)
Acyclic(dependents) ==
    \A S \in SUBSET DOMAIN dependents :
        S # {} => \E x \in S : WaitsOn(dependents, x) \cap S = {}

KeySet(keys) == {keys[i] : i \in DOMAIN keys}

\* A list of keys in which none is repeated: the "set of node keys" that
\* the package comment asks for.
Distinct(keys) == \A i, j \in DOMAIN keys : keys[i] = keys[j] => i = j

(***************************************************************************)
(* The shape of the Graph struct: lists of keys for every key, and degrees *)
(* that count the edges.                                                   *)
(***************************************************************************)
WellFormed(keys, dependents, inDegree) ==
    /\ Distinct(keys)
    /\ dependents \in [KeySet(keys) -> Seq(KeySet(keys))]
    /\ inDegree = [x \in KeySet(keys) |-> Cardinality(Into(dependents, x))]

==============================================================================
