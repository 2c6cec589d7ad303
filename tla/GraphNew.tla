------------------------------- MODULE GraphNew ------------------------------
(***************************************************************************)
(* depgraph.New and the findCycle it calls, one step per iteration of each *)
(* of their loops: the edges are entered one at a time, the keys with no   *)
(* dependency are queued, and the queue is drained (Kahn's algorithm).     *)
(***************************************************************************)
EXTENDS DependencyGraph

CONSTANTS
    Names,      \* the strings keys and dependencies are drawn from
    Inputs      \* the arguments of New that are considered: records of
                \* keys, a list, and deps, the lists of dependencies

ASSUME InputsAssumption ==
    \A in \in Inputs :
        /\ in.keys \in Seq(Names)
        /\ Distinct(in.keys)
        /\ in.deps \in [KeySet(in.keys) -> Seq(Names)]

VARIABLES
    keys, deps,     \* the arguments, unchanged
    dependents,     \* Graph.dependents, <<>> where Go's map has no entry
    inDegree,       \* Graph.inDegree
    remaining,      \* findCycle's copy of inDegree
    queue,          \* findCycle's queue
    drained,        \* findCycle's drained
    pc,             \* the loop being executed, or the outcome
    i, j            \* positions in the outer and the inner loop

vars == <<keys, deps, dependents, inDegree, remaining, queue, drained, pc, i, j>>

Keys == KeySet(keys)

Init ==
    /\ \E in \in Inputs : keys = in.keys /\ deps = in.deps
    /\ dependents = [x \in Keys |-> <<>>]
    /\ inDegree = [x \in Keys |-> 0]
    /\ remaining = inDegree
    /\ queue = <<>>
    /\ drained = {}
    /\ pc = "edges"
    /\ i = 1
    /\ j = 1

------------------------------------------------------------------------------
(* New: the loop that enters the edges.                                    *)

\* A dependency on the key itself, or on something outside the set, cannot
\* constrain the order.
\* Mutant: a key that names itself waits on itself.
ConstrainsItself(key, dep) == dep \in Keys

Constrains(key, dep) == dep \in Keys /\ dep # key

\* Mutant: a repeated dependency enters the list twice but the degree once.
AddEdgeOnce ==
    /\ pc = "edges" /\ i <= Len(keys) /\ j <= Len(deps[keys[i]])
    /\ LET key == keys[i]
           dep == deps[key][j]
       IN IF Constrains(key, dep)
          THEN /\ dependents' = [dependents EXCEPT ![dep] = Append(@, key)]
               /\ inDegree' = [inDegree EXCEPT
                     ![key] = IF key \in KeySet(dependents[dep]) THEN @ ELSE @ + 1]
          ELSE UNCHANGED <<dependents, inDegree>>
    /\ j' = j + 1
    /\ UNCHANGED <<keys, deps, remaining, queue, drained, pc, i>>

AddEdge ==
    /\ pc = "edges" /\ i <= Len(keys) /\ j <= Len(deps[keys[i]])
    /\ LET key == keys[i]
           dep == deps[key][j]
       IN IF Constrains(key, dep)
          THEN /\ dependents' = [dependents EXCEPT ![dep] = Append(@, key)]
               /\ inDegree' = [inDegree EXCEPT ![key] = @ + 1]
          ELSE UNCHANGED <<dependents, inDegree>>
    /\ j' = j + 1
    /\ UNCHANGED <<keys, deps, remaining, queue, drained, pc, i>>

NextKey ==
    /\ pc = "edges" /\ i <= Len(keys) /\ j > Len(deps[keys[i]])
    /\ i' = i + 1
    /\ j' = 1
    /\ UNCHANGED <<keys, deps, dependents, inDegree, remaining, queue, drained, pc>>

------------------------------------------------------------------------------
(* findCycle.                                                              *)

FindCycle ==
    /\ pc = "edges" /\ i > Len(keys)
    /\ remaining' = inDegree
    /\ pc' = "enqueue"
    /\ i' = 1
    /\ UNCHANGED <<keys, deps, dependents, inDegree, queue, drained, j>>

Enqueue ==
    /\ pc = "enqueue" /\ i <= Len(keys)
    /\ queue' = IF remaining[keys[i]] = 0 THEN Append(queue, keys[i]) ELSE queue
    /\ i' = i + 1
    /\ UNCHANGED <<keys, deps, dependents, inDegree, remaining, drained, pc, j>>

\* Mutant: look again until some key is ready.
EndEnqueueRetries ==
    /\ pc = "enqueue" /\ i > Len(keys)
    /\ IF queue = <<>> THEN i' = 1 /\ pc' = pc ELSE i' = i /\ pc' = "drain"
    /\ UNCHANGED <<keys, deps, dependents, inDegree, remaining, queue, drained, j>>

EndEnqueue ==
    /\ pc = "enqueue" /\ i > Len(keys)
    /\ pc' = "drain"
    /\ UNCHANGED <<keys, deps, dependents, inDegree, remaining, queue, drained, i, j>>

\* Take the key at the head of the queue; it stays there, as the key whose
\* dependents are being visited, until the inner loop is over.
Drain ==
    /\ pc = "drain" /\ queue # <<>>
    /\ drained' = drained \cup {Head(queue)}
    /\ pc' = "relax"
    /\ j' = 1
    /\ UNCHANGED <<keys, deps, dependents, inDegree, remaining, queue, i>>

\* Mutant: a dependent is queued by the first of its dependencies.
RelaxAny ==
    /\ pc = "relax" /\ j <= Len(dependents[Head(queue)])
    /\ LET dependent == dependents[Head(queue)][j]
       IN /\ remaining' = [remaining EXCEPT ![dependent] = @ - 1]
          /\ queue' = IF dependent \notin drained
                      THEN Append(queue, dependent) ELSE queue
    /\ j' = j + 1
    /\ UNCHANGED <<keys, deps, dependents, inDegree, drained, pc, i>>

Relax ==
    /\ pc = "relax" /\ j <= Len(dependents[Head(queue)])
    /\ LET dependent == dependents[Head(queue)][j]
       IN /\ remaining' = [remaining EXCEPT ![dependent] = @ - 1]
          /\ queue' = IF remaining'[dependent] = 0
                      THEN Append(queue, dependent) ELSE queue
    /\ j' = j + 1
    /\ UNCHANGED <<keys, deps, dependents, inDegree, drained, pc, i>>

EndRelax ==
    /\ pc = "relax" /\ j > Len(dependents[Head(queue)])
    /\ queue' = Tail(queue)
    /\ pc' = "drain"
    /\ UNCHANGED <<keys, deps, dependents, inDegree, remaining, drained, i, j>>

\* The keys that were never drained, which New reports as the cycle.
Stuck == Keys \ drained

Return ==
    /\ pc = "drain" /\ queue = <<>>
    /\ pc' = IF Stuck = {} THEN "accepted" ELSE "rejected"
    /\ UNCHANGED <<keys, deps, dependents, inDegree, remaining, queue, drained, i, j>>

Returned == pc \in {"accepted", "rejected"}

Done == Returned /\ UNCHANGED vars

Next ==
    \/ AddEdge \/ NextKey
    \/ FindCycle \/ Enqueue \/ EndEnqueue \/ Drain \/ Relax \/ EndRelax
    \/ Return \/ Done

Spec == Init /\ [][Next]_vars

\* New is one goroutine: it runs as long as it has something to do.
FairSpec == Spec /\ WF_vars(Next)

------------------------------------------------------------------------------
(* Properties.                                                             *)

TypeOK ==
    /\ keys \in Seq(Names) /\ Distinct(keys)
    /\ deps \in [Keys -> Seq(Names)]
    /\ dependents \in [Keys -> Seq(Keys)]
    /\ inDegree \in [Keys -> Nat]
    /\ remaining \in [Keys -> Nat]
    /\ queue \in Seq(Keys)
    /\ drained \in SUBSET Keys
    /\ pc \in {"edges", "enqueue", "drain", "relax", "accepted", "rejected"}
    /\ i \in Nat \ {0}
    /\ j \in Nat \ {0}

\* Once the edges are entered the graph says what the caller said: for two
\* different keys there are as many edges as the caller repeated the
\* dependency, and the degree of a key is the number of edges into it.  A
\* repeated dependency must be counted the same way on both sides, or its
\* key would be started early or never (New, lines 46-57).
GraphHoldsDeps ==
    pc # "edges" =>
        /\ WellFormed(keys, dependents, inDegree)
        /\ \A x, d \in Keys :
              Cardinality({s \in Into(dependents, x) : s[1] = d}) =
                  IF x = d THEN 0
                  ELSE Cardinality({n \in DOMAIN deps[x] : deps[x][n] = d})

\* What the keys wait on as the caller put it, and its transitive closure:
\* the smallest set that holds what x asks for and is closed under asking.
Direct(x) == {y \in Keys \ {x} : \E n \in DOMAIN deps[x] : deps[x][n] = y}

Upstream(x) ==
    {y \in Keys :
        \A S \in SUBSET Keys :
            Direct(x) \subseteq S /\ (\A z \in S : Direct(z) \subseteq S)
                => y \in S}

OnCycle(x) == x \in Upstream(x)

\* The comment of findCycle (lines 69-71): whatever it cannot drain is
\* exactly the set of keys waiting, directly or transitively, on a cycle,
\* and New fails exactly when there is such a key.
StuckIsTheCycle ==
    Returned =>
        /\ Stuck = {x \in Keys : \E y \in Upstream(x) : OnCycle(y)}
        /\ pc = "rejected" <=> \E x \in Keys : OnCycle(x)

\* What a caller of New may rely on, and what Run does rely on: New accepts
\* exactly the arguments whose graph is acyclic, and the graph it then
\* returns is well formed (New, lines 59-63).
AcceptsExactlyAcyclic ==
    Returned =>
        /\ WellFormed(keys, dependents, inDegree)
        /\ pc = "accepted" <=> Acyclic(dependents)

(***************************************************************************)
(* The invariant behind it.  An edge is pending until the loop over its    *)
(* source's dependents has passed it.                                      *)
(***************************************************************************)
Pending(s) ==
    \/ s[1] \notin drained
    \/ pc = "relax" /\ s[1] = Head(queue) /\ s[2] >= j

PendingInto(x) == {s \in Into(dependents, x) : Pending(s)}

\* While the edges are entered, the degrees count those entered so far.
EdgesInv == inDegree = [x \in Keys |-> Cardinality(Into(dependents, x))]

StartInv ==
    /\ pc \in {"edges", "enqueue"} => drained = {}
    /\ pc = "edges" => queue = <<>>

EnqueueInv ==
    pc = "enqueue" =>
        /\ remaining = inDegree
        /\ KeySet(queue) = {keys[n] : n \in {m \in 1 .. (i - 1) :
                                m <= Len(keys) /\ remaining[keys[m]] = 0}}

\* findCycle counts, for every key, the edges that are still pending, and
\* the keys with none left are those queued or drained.
DrainInv ==
    pc \in {"drain", "relax", "accepted", "rejected"} =>
        /\ \A x \in Keys : remaining[x] = Cardinality(PendingInto(x))
        /\ \A x \in Keys : remaining[x] = 0 <=> x \in KeySet(queue) \cup drained

QueueInv ==
    /\ pc = "drain" => KeySet(queue) \cap drained = {}
    /\ pc = "relax" => queue # <<>> /\ Head(queue) \in drained
    /\ pc = "relax" => KeySet(Tail(queue)) \cap drained = {}
    /\ Returned => queue = <<>> /\ (pc = "accepted" <=> Stuck = {})

\* The drained keys wait on drained keys only, and in every set of them some
\* key waits on none of the set.
DrainedInv ==
    /\ \A x \in drained : WaitsOn(dependents, x) \subseteq drained
    /\ \A S \in SUBSET drained :
          S # {} => \E x \in S : WaitsOn(dependents, x) \cap S = {}

\* Kahn's algorithm as an inductive invariant: what the degrees, the queue
\* and the drained keys say of each other at every step of New.
IInv ==
    /\ TypeOK
    /\ EdgesInv /\ StartInv /\ EnqueueInv
    /\ Distinct(queue) /\ QueueInv /\ DrainInv /\ DrainedInv

\* New returns, with a graph or with an error, whatever the dependencies
\* are: the loop that drains the queue is the one that could go on.
Termination == <>Returned
==============================================================================
