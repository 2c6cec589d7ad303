---------------------------- MODULE GraphNew_proof ---------------------------
(***************************************************************************)
(* New, for every list of keys and dependencies: Kahn's algorithm keeps    *)
(* the invariant IInv, and New accepts exactly the acyclic graphs.         *)
(***************************************************************************)
EXTENDS GraphNew, FiniteSetTheorems, SequenceTheorems, WellFoundedInduction, TLAPS

(* Facts about dependency graphs and the lists of keys they are made of. *)

\* The keys of a list are finitely many.
LEMMA KeySetFinite ==
    ASSUME NEW S, NEW ks \in Seq(S)
    PROVE  IsFiniteSet(KeySet(ks))
<1>1. ks \in Surjection(1 .. Len(ks), KeySet(ks))
    BY DEF KeySet, Surjection
<1>2. IsFiniteSet(1 .. Len(ks))
    BY FS_Interval
<1> QED
    BY <1>1, <1>2, FS_Surjection

\* A graph has finitely many edges.
LEMMA SlotsFinite ==
    ASSUME NEW K, IsFiniteSet(K), NEW dd \in [K -> Seq(K)]
    PROVE  IsFiniteSet(Slots(dd))
<1> DEFINE Edges(d) == {d} \X DOMAIN dd[d]
           f == [d \in K |-> Edges(d)]
           T == {Edges(d) : d \in DOMAIN dd}
<1>1. f \in Surjection(K, T)
    BY DEF Surjection
<1>2. IsFiniteSet(T)
    BY <1>1, FS_Surjection
<1>3. ASSUME NEW d \in K PROVE IsFiniteSet(Edges(d))
    <2>1. IsFiniteSet({d}) BY FS_Singleton
    <2>2. IsFiniteSet(1 .. Len(dd[d])) BY FS_Interval
    <2>3. DOMAIN dd[d] = 1 .. Len(dd[d]) OBVIOUS
    <2>4. IsFiniteSet({d} \X DOMAIN dd[d]) BY <2>1, <2>2, <2>3, FS_Product
    <2> QED BY <2>4
<1>4. \A U \in T : IsFiniteSet(U)
    BY <1>3
<1>5. IsFiniteSet(UNION T)
    BY <1>2, <1>4, FS_UNION
<1> QED
    BY <1>5 DEF Slots

\* So have its keys: the edges into a key, and any part of them, can be
\* counted, and the count is zero when there are none.
LEMMA IntoFinite ==
    ASSUME NEW K, IsFiniteSet(K), NEW dd \in [K -> Seq(K)], NEW x,
           NEW P \in SUBSET Into(dd, x)
    PROVE  /\ IsFiniteSet(P)
           /\ Cardinality(P) \in Nat
           /\ Cardinality(P) = 0 <=> P = {}
<1>1. P \in SUBSET Slots(dd)
    BY DEF Into
<1>2. IsFiniteSet(P)
    BY <1>1, SlotsFinite, FS_Subset
<1> QED
    BY <1>2, FS_CardinalityType, FS_EmptySet

\* An edge, spelt out.
LEMMA SlotsOf ==
    ASSUME NEW K, NEW dd \in [K -> Seq(K)], NEW s
    PROVE  s \in Slots(dd)
             <=> \E d \in K : \E p \in 1 .. Len(dd[d]) : s = <<d, p>>
BY DEF Slots

\* Appending, as it shows in the keys.
LEMMA AppendKeys ==
    ASSUME NEW S, NEW s \in Seq(S), NEW x \in S
    PROVE  KeySet(Append(s, x)) = KeySet(s) \cup {x}
<1>1. /\ Append(s, x) \in Seq(S) /\ Len(Append(s, x)) = Len(s) + 1
      /\ \A n \in 1 .. Len(s) : Append(s, x)[n] = s[n]
      /\ Append(s, x)[Len(s) + 1] = x
    OBVIOUS
<1>2. DOMAIN s = 1 .. Len(s) /\ DOMAIN Append(s, x) = 1 .. Len(s) + 1
    BY <1>1
<1>3. KeySet(Append(s, x)) \subseteq KeySet(s) \cup {x}
    BY <1>1, <1>2 DEF KeySet
<1>4. KeySet(s) \cup {x} \subseteq KeySet(Append(s, x))
    BY <1>1, <1>2 DEF KeySet
<1> QED
    BY <1>3, <1>4

LEMMA AppendDistinct ==
    ASSUME NEW S, NEW s \in Seq(S), NEW x \in S, Distinct(s), x \notin KeySet(s)
    PROVE  Distinct(Append(s, x))
<1>1. /\ Append(s, x) \in Seq(S) /\ Len(Append(s, x)) = Len(s) + 1
      /\ \A n \in 1 .. Len(s) : Append(s, x)[n] = s[n]
      /\ Append(s, x)[Len(s) + 1] = x
    OBVIOUS
<1>2. \A n \in 1 .. Len(s) : s[n] # x
    BY DEF KeySet
<1> QED
    BY <1>1, <1>2 DEF Distinct

\* The head of a list and the rest of it.
LEMMA HeadOf ==
    ASSUME NEW S, NEW q \in Seq(S), q # <<>>
    PROVE  /\ Head(q) \in S /\ Tail(q) \in Seq(S)
           /\ KeySet(q) = {Head(q)} \cup KeySet(Tail(q))
           /\ Distinct(q) => Head(q) \notin KeySet(Tail(q)) /\ Distinct(Tail(q))
<1>1. q \in Seq(S) /\ Len(q) \in Nat \ {0}
    BY EmptySeq
<1>2. /\ Head(q) = q[1] /\ Head(q) \in S /\ Tail(q) \in Seq(S)
      /\ Len(Tail(q)) = Len(q) - 1
      /\ \A n \in 1 .. Len(q) - 1 : Tail(q)[n] = q[n + 1]
    BY <1>1, HeadTailProperties
<1>3. DOMAIN q = 1 .. Len(q) /\ DOMAIN Tail(q) = 1 .. Len(q) - 1
    BY <1>1, <1>2
<1>4. KeySet(q) = {Head(q)} \cup KeySet(Tail(q))
    <2>1. ASSUME NEW x \in KeySet(q) PROVE x \in {Head(q)} \cup KeySet(Tail(q))
        <3>1. PICK n \in 1 .. Len(q) : x = q[n]
            BY <1>3 DEF KeySet
        <3>2. CASE n = 1
            BY <1>2, <3>1, <3>2
        <3>3. CASE n # 1
            <4>1. n - 1 \in 1 .. Len(q) - 1 /\ Tail(q)[n - 1] = q[n]
                BY <1>1, <1>2, <3>1, <3>3
            <4> QED
                BY <1>3, <3>1, <4>1 DEF KeySet
        <3> QED
            BY <3>2, <3>3
    <2>2. KeySet(Tail(q)) \subseteq KeySet(q)
        <3>1. \A n \in 1 .. Len(q) - 1 : n + 1 \in 1 .. Len(q)
            BY <1>1
        <3> QED
            BY <1>2, <1>3, <3>1 DEF KeySet
    <2>3. Head(q) \in KeySet(q)
        BY <1>1, <1>2, <1>3 DEF KeySet
    <2> QED
        BY <2>1, <2>2, <2>3
<1>5. ASSUME Distinct(q)
      PROVE  Head(q) \notin KeySet(Tail(q)) /\ Distinct(Tail(q))
    <2>1. \A m, n \in 1 .. Len(q) : q[m] = q[n] => m = n
        BY <1>3, <1>5 DEF Distinct
    <2>2. \A n \in 1 .. Len(q) - 1 : n + 1 \in 1 .. Len(q) /\ n + 1 # 1
        BY <1>1
    <2>3. \A n \in 1 .. Len(q) - 1 : Tail(q)[n] # Head(q)
        BY <1>1, <1>2, <2>1, <2>2
    <2>4. Head(q) \notin KeySet(Tail(q))
        BY <1>3, <2>3 DEF KeySet
    <2>5. ASSUME NEW m \in 1 .. Len(q) - 1, NEW n \in 1 .. Len(q) - 1,
                 Tail(q)[m] = Tail(q)[n]
          PROVE  m = n
        <3>1. m + 1 = n + 1
            BY <1>2, <2>1, <2>2, <2>5
        <3> QED
            BY <1>1, <3>1
    <2> QED
        BY <1>3, <2>4, <2>5 DEF Distinct
<1> QED
    BY <1>2, <1>4, <1>5

\* The edges into a key, spelt out.
HasAt(dd, x, d, p) == p \in 1 .. Len(dd[d]) /\ dd[d][p] = x

IsEdge(K, dd, x, s) == \E d \in K : \E p : s = <<d, p>> /\ HasAt(dd, x, d, p)

LEMMA EdgeOf ==
    ASSUME NEW K, NEW dd \in [K -> Seq(K)]
    PROVE  \A x, s : s \in Into(dd, x) <=> IsEdge(K, dd, x, s)
<1> SUFFICES ASSUME NEW x, NEW s
             PROVE  s \in Into(dd, x) <=> IsEdge(K, dd, x, s)
    OBVIOUS
<1>1. s \in Slots(dd) <=> \E d \in K : \E p \in 1 .. Len(dd[d]) : s = <<d, p>>
    BY SlotsOf
<1>2. s \in Into(dd, x) <=> s \in Slots(dd) /\ dd[s[1]][s[2]] = x
    BY DEF Into
<1> QED
    BY <1>1, <1>2 DEF IsEdge, HasAt

\* An edge appended to a list is one more slot into its key, and into no other.
EdgeAppended(K, dd, ee, key, dep) ==
    (\A d \in K \ {dep} : ee[d] = dd[d]) /\ ee[dep] = Append(dd[dep], key)

OneSlotMore(dd, ee, key, dep) ==
    LET s == <<dep, Len(dd[dep]) + 1>>
    IN  /\ s \notin Into(dd, key)
        /\ Into(ee, key) = Into(dd, key) \cup {s}
        /\ \A x : x # key => Into(ee, x) = Into(dd, x)

LEMMA IntoAppend ==
    ASSUME NEW K, NEW dd \in [K -> Seq(K)], NEW ee \in [K -> Seq(K)],
           NEW key \in K, NEW dep \in K, EdgeAppended(K, dd, ee, key, dep)
    PROVE  OneSlotMore(dd, ee, key, dep)
<1>2. \A x, s : s \in Into(dd, x) <=> IsEdge(K, dd, x, s)
    BY EdgeOf, Zenon
<1>3. \A x, s : s \in Into(ee, x) <=> IsEdge(K, ee, x, s)
    BY EdgeOf, Zenon
<1>0. (\A d \in K \ {dep} : ee[d] = dd[d]) /\ ee[dep] = Append(dd[dep], key)
    BY DEF EdgeAppended
<1> DEFINE last == Len(dd[dep]) + 1
<1>1. /\ dd[dep] \in Seq(K) /\ Len(dd[dep]) \in Nat /\ Len(ee[dep]) = last
      /\ ee[dep][last] = key /\ last \in 1 .. last
      /\ \A p \in 1 .. Len(dd[dep]) : ee[dep][p] = dd[dep][p]
    BY <1>0
<1>4. ASSUME NEW x, NEW d \in K, NEW p
      PROVE  HasAt(ee, x, d, p) <=> HasAt(dd, x, d, p) \/ (d = dep /\ p = last /\ x = key)
    <2>1. CASE d # dep
        BY <1>0, <2>1 DEF HasAt
    <2>2. CASE d = dep
        <3>1. HasAt(ee, x, d, p) <=> p \in 1 .. last /\ ee[dep][p] = x
            BY <1>1, <2>2 DEF HasAt
        <3>2. HasAt(dd, x, d, p) <=> p \in 1 .. Len(dd[dep]) /\ dd[dep][p] = x
            BY <2>2 DEF HasAt
        <3>3. p \in 1 .. last <=> p \in 1 .. Len(dd[dep]) \/ p = last
            <4>1. Len(dd[dep]) \in Nat
                BY <1>1
            <4> QED
                BY <4>1
        <3>4. p = last => ~(p \in 1 .. Len(dd[dep]))
            BY <1>1
        <3> HIDE DEF last
        <3> QED
            BY <1>1, <2>2, <3>1, <3>2, <3>3, <3>4
    <2> QED
        BY <2>1, <2>2
<1>5. <<dep, last>> \notin Into(dd, key)
    <2>1. last \notin 1 .. Len(dd[dep])
        BY <1>1
    <2> QED
        BY <1>2, <2>1 DEF IsEdge, HasAt
<1> HIDE DEF last
<1>8. \A x, s : s \in Into(ee, x) <=> s \in Into(dd, x) \/ (s = <<dep, last>> /\ x = key)
    BY <1>2, <1>3, <1>4 DEF IsEdge
<1>9. Into(ee, key) = Into(dd, key) \cup {<<dep, last>>}
    <2>1. \A s : s \in Into(ee, key) <=> s \in Into(dd, key) \/ s = <<dep, last>>
        BY <1>8
    <2> QED
        BY <2>1
<1>10. ASSUME NEW x, x # key PROVE Into(ee, x) = Into(dd, x)
    <2>1. \A s : s \in Into(ee, x) <=> s \in Into(dd, x)
        BY <1>8, <1>10, Zenon
    <2>2. Into(ee, x) \subseteq Into(dd, x) /\ Into(dd, x) \subseteq Into(ee, x)
        BY <2>1, Zenon
    <2> QED
        BY <2>2, Zenon
<1> QED
    BY <1>5, <1>9, <1>10, Zenon DEF last, OneSlotMore

------------------------------------------------------------------------------
(* The invariant.                                                          *)

\* The types of the variables, without those of the arguments.
LEMMA Types ==
    ASSUME TypeOK
    PROVE  /\ IsFiniteSet(Keys)
           /\ dependents \in [Keys -> Seq(Keys)] /\ DOMAIN dependents = Keys
           /\ inDegree \in [Keys -> Nat] /\ remaining \in [Keys -> Nat]
           /\ queue \in Seq(Keys) /\ drained \in SUBSET Keys
           /\ i \in Nat \ {0} /\ j \in Nat \ {0}
           /\ keys \in Seq(Names) /\ Len(keys) \in Nat
           /\ \A n \in 1 .. Len(keys) : keys[n] \in Keys
           /\ deps \in [Keys -> Seq(Names)]
<1>1. IsFiniteSet(Keys)
    BY KeySetFinite DEF TypeOK, Keys
<1>2. \A n \in 1 .. Len(keys) : keys[n] \in Keys
    BY DEF TypeOK, Keys, KeySet
<1>3. keys \in Seq(Names) /\ Len(keys) \in Nat
    BY DEF TypeOK
<1> QED
    BY <1>1, <1>2, <1>3 DEF TypeOK

\* What is counted is finite, and a count is zero when there is nothing.
LEMMA Counts ==
    ASSUME TypeOK
    PROVE  \A x : /\ IsFiniteSet(PendingInto(x))
                  /\ Cardinality(PendingInto(x)) \in Nat
                  /\ Cardinality(PendingInto(x)) = 0 <=> PendingInto(x) = {}
                  /\ IsFiniteSet(Into(dependents, x))
                  /\ Cardinality(Into(dependents, x)) \in Nat
                  /\ Cardinality(Into(dependents, x)) = 0 <=> Into(dependents, x) = {}
<1>1. \A x : PendingInto(x) \in SUBSET Into(dependents, x)
    BY DEF PendingInto
<1> QED
    BY <1>1, Types, IntoFinite

------------------------------------------------------------------------------
(* The initial states, and the loop that enters the edges.                 *)

\* New begins with no edges.
LEMMA InitIInv == Init => IInv
<1> SUFFICES ASSUME Init PROVE IInv
    OBVIOUS
<1>1. PICK in \in Inputs : keys = in.keys /\ deps = in.deps
    BY DEF Init
<1>2. keys \in Seq(Names) /\ Distinct(keys) /\ deps \in [Keys -> Seq(Names)]
    BY <1>1, InputsAssumption DEF Keys
<1>3. dependents \in [Keys -> Seq(Keys)]
    BY EmptySeq DEF Init
<1>4. inDegree \in [Keys -> Nat] /\ remaining \in [Keys -> Nat]
    BY DEF Init
<1>5. queue = <<>> /\ queue \in Seq(Keys) /\ drained = {} /\ pc = "edges" /\ i = 1 /\ j = 1
    BY EmptySeq DEF Init
<1>6. TypeOK
    BY <1>2, <1>3, <1>4, <1>5 DEF TypeOK
<1>7. EdgesInv
    <2>1. ASSUME NEW x PROVE Into(dependents, x) = {}
        <3>1. \A d \in Keys : Len(dependents[d]) = 0
            BY DEF Init
        <3> QED
            BY <1>3, <3>1, EdgeOf DEF IsEdge, HasAt
    <2>2. \A x \in Keys : Cardinality(Into(dependents, x)) = 0
        BY <2>1, FS_EmptySet
    <2> QED
        BY <2>2 DEF Init, EdgesInv
<1>8. Distinct(queue) /\ DrainedInv
    BY <1>5 DEF Distinct, DrainedInv
<1>9. StartInv /\ EnqueueInv /\ QueueInv /\ DrainInv
    BY <1>5 DEF StartInv, EnqueueInv, QueueInv, DrainInv, Returned
<1> QED
    BY <1>6, <1>7, <1>8, <1>9 DEF IInv

\* Entering an edge makes one slot more.
LEMMA NewSlot ==
    ASSUME TypeOK, NEW key \in Keys, NEW dep \in Keys,
           dependents' = [dependents EXCEPT ![dep] = Append(@, key)]
    PROVE  /\ <<dep, Len(dependents[dep]) + 1>> \notin Into(dependents, key)
           /\ Into(dependents', key) =
                  Into(dependents, key) \cup {<<dep, Len(dependents[dep]) + 1>>}
           /\ \A x : x # key => Into(dependents', x) = Into(dependents, x)
<1>1. dependents \in [Keys -> Seq(Keys)]
    BY Types
<1>2. dependents' \in [Keys -> Seq(Keys)]
    BY <1>1
<1>3. /\ \A d \in Keys \ {dep} : dependents'[d] = dependents[d]
      /\ dependents'[dep] = Append(dependents[dep], key)
    BY <1>1
<1>4. PICK ee : ee = dependents'
    OBVIOUS
<1>5. PICK dd : dd = dependents
    OBVIOUS
<1>6. ee \in [Keys -> Seq(Keys)] /\ dd \in [Keys -> Seq(Keys)]
    BY <1>1, <1>2, <1>4, <1>5
<1>7. EdgeAppended(Keys, dd, ee, key, dep)
    BY <1>3, <1>4, <1>5 DEF EdgeAppended
<1>8. OneSlotMore(dd, ee, key, dep)
    BY <1>6, <1>7, IntoAppend, Zenon
<1> QED
    BY <1>4, <1>5, <1>8 DEF OneSlotMore

\* One more edge is counted once.
LEMMA OneMoreEdge ==
    ASSUME TypeOK, EdgesInv, NEW key \in Keys, NEW dep \in Keys,
           dependents' = [dependents EXCEPT ![dep] = Append(@, key)],
           inDegree' = [inDegree EXCEPT ![key] = @ + 1], keys' = keys
    PROVE  EdgesInv' /\ dependents' \in [Keys -> Seq(Keys)] /\ inDegree' \in [Keys -> Nat]
<1>1. dependents \in [Keys -> Seq(Keys)] /\ inDegree \in [Keys -> Nat]
    BY Types
<1>2. dependents' \in [Keys -> Seq(Keys)] /\ inDegree' \in [Keys -> Nat]
    BY <1>1
<1> DEFINE s == <<dep, Len(dependents[dep]) + 1>>
<1>4. /\ s \notin Into(dependents, key)
      /\ Into(dependents', key) = Into(dependents, key) \cup {s}
      /\ \A x : x # key => Into(dependents', x) = Into(dependents, x)
    BY NewSlot
<1>5. Cardinality(Into(dependents', key)) = Cardinality(Into(dependents, key)) + 1
    <2>1. IsFiniteSet(Into(dependents, key))
        BY Counts
    <2> HIDE DEF s
    <2> QED
        BY <1>4, <2>1, FS_AddElement
<1> HIDE DEF s
<1>6. ASSUME NEW x \in Keys PROVE inDegree'[x] = Cardinality(Into(dependents', x))
    <2>1. inDegree[x] = Cardinality(Into(dependents, x))
        BY DEF EdgesInv
    <2>2. inDegree'[x] = IF x = key THEN inDegree[x] + 1 ELSE inDegree[x]
        BY <1>1
    <2> QED
        BY <1>4, <1>5, <2>1, <2>2
<1>7. Keys' = Keys
    BY DEF Keys
<1>8. inDegree' = [x \in Keys |-> Cardinality(Into(dependents', x))]
    BY <1>2, <1>6
<1> QED
    BY <1>2, <1>7, <1>8 DEF EdgesInv

\* The loop over the dependencies enters edges and does nothing else.
LEMMA AddEdgeIInv ==
    ASSUME IInv, AddEdge
    PROVE  IInv'
<1> DEFINE key == keys[i]
           dep == deps[key][j]
<1>1. key \in Keys /\ j' \in Nat \ {0} /\ Keys' = Keys
    <2>1. i \in 1 .. Len(keys) /\ key \in Keys
        <3>1. i \in Nat \ {0} /\ i <= Len(keys) /\ Len(keys) \in Nat /\ DOMAIN keys = 1 .. Len(keys)
            BY DEF IInv, TypeOK, AddEdge
        <3>2. i \in 1 .. Len(keys)
            BY <3>1
        <3> QED
            BY <3>1, <3>2 DEF Keys, KeySet
    <2>2. j \in Nat \ {0} /\ j' = j + 1 /\ keys' = keys
        BY DEF IInv, TypeOK, AddEdge
    <2> QED
        BY <2>1, <2>2 DEF Keys
<1>2. UNCHANGED <<keys, deps, remaining, queue, drained, pc, i>> /\ pc = "edges"
    BY DEF AddEdge
<1>3. EdgesInv' /\ dependents' \in [Keys -> Seq(Keys)] /\ inDegree' \in [Keys -> Nat]
    <2>1. CASE Constrains(key, dep)
        BY <1>1, <1>2, <2>1, OneMoreEdge DEF IInv, AddEdge, Constrains
    <2>2. CASE ~Constrains(key, dep)
        BY <1>1, <2>2, Types DEF IInv, AddEdge, EdgesInv
    <2> QED
        BY <2>1, <2>2
<1> HIDE DEF key, dep
<1>4. TypeOK'
    BY <1>1, <1>2, <1>3 DEF IInv, TypeOK
<1>5. drained = {} /\ queue = <<>>
    BY <1>2 DEF IInv, StartInv
<1>6. StartInv' /\ EnqueueInv' /\ Distinct(queue)' /\ QueueInv' /\ DrainInv' /\ DrainedInv'
    BY <1>2, <1>5 DEF StartInv, EnqueueInv, Distinct, QueueInv, DrainInv, DrainedInv, Returned
<1> QED
    BY <1>3, <1>4, <1>6 DEF IInv

\* The next key, and the copy of the degrees, change no edge.
LEMMA NextKeyIInv ==
    ASSUME IInv, NextKey
    PROVE  IInv'
<1> USE DEF NextKey
<1>1. TypeOK'
    BY DEF IInv, TypeOK, Keys
<1>2. EdgesInv'
    BY DEF IInv, EdgesInv, Keys
<1>3. drained = {} /\ queue = <<>>
    BY DEF IInv, StartInv
<1>4. StartInv' /\ EnqueueInv' /\ Distinct(queue)' /\ QueueInv' /\ DrainInv' /\ DrainedInv'
    BY <1>3 DEF StartInv, EnqueueInv, Distinct, QueueInv, DrainInv, DrainedInv, Returned
<1> QED
    BY <1>1, <1>2, <1>4 DEF IInv

------------------------------------------------------------------------------
(* findCycle: the ready keys.                                              *)

LEMMA FindCycleIInv ==
    ASSUME IInv, FindCycle
    PROVE  IInv'
<1> USE DEF FindCycle
<1>1. TypeOK'
    BY DEF IInv, TypeOK, Keys
<1>2. EdgesInv'
    BY DEF IInv, EdgesInv, Keys
<1>3. drained = {} /\ queue = <<>>
    BY DEF IInv, StartInv
<1>4. EnqueueInv'
    BY <1>3 DEF EnqueueInv, KeySet
<1>5. StartInv' /\ Distinct(queue)' /\ QueueInv' /\ DrainInv' /\ DrainedInv'
    BY <1>3 DEF StartInv, Distinct, QueueInv, DrainInv, DrainedInv, Returned
<1> QED
    BY <1>1, <1>2, <1>4, <1>5 DEF IInv

\* The queue holds the keys of the prefix with no dependency, once each.
LEMMA EnqueueIInv ==
    ASSUME IInv, Enqueue
    PROVE  IInv'
<1>0. /\ pc = "enqueue" /\ i <= Len(keys) /\ i' = i + 1
      /\ queue' = IF remaining[keys[i]] = 0 THEN Append(queue, keys[i]) ELSE queue
      /\ UNCHANGED <<keys, deps, dependents, inDegree, remaining, drained, pc, j>>
      /\ Keys' = Keys
    BY DEF Enqueue, Keys
<1>1. keys[i] \in Keys /\ i \in 1 .. Len(keys) /\ Len(keys) \in Nat /\ queue \in Seq(Keys)
    BY <1>0, Types DEF IInv
<1>2. Append(queue, keys[i]) \in Seq(Keys)
    BY <1>1
<1>3. TypeOK'
    <2>1. queue' \in Seq(Keys) /\ i' \in Nat \ {0}
        BY <1>0, <1>1, <1>2
    <2> QED
        BY <1>0, <2>1 DEF IInv, TypeOK
<1>4. /\ Distinct(queue)
      /\ KeySet(queue) = {keys[n] : n \in {m \in 1 .. (i - 1) :
                            m <= Len(keys) /\ remaining[keys[m]] = 0}}
    BY <1>0 DEF IInv, EnqueueInv
<1>5. keys[i] \notin KeySet(queue)
    <2>1. Distinct(keys) /\ DOMAIN keys = 1 .. Len(keys)
        BY Types DEF IInv, TypeOK
    <2>2. \A n \in 1 .. (i - 1) : keys[n] # keys[i]
        BY <1>1, <2>1 DEF Distinct
    <2> QED
        BY <1>4, <2>2
<1>6. EnqueueInv' /\ Distinct(queue)'
    <2>0. i' - 1 = i + 1 - 1
        <3>1. i' = i + 1
            BY <1>0
        <3> QED
            BY <1>1, <3>1
    <2>1. CASE remaining[keys[i]] = 0
        <3>1. KeySet(queue') = KeySet(queue) \cup {keys[i]} /\ Distinct(queue')
            BY <1>0, <1>1, <1>4, <1>5, <2>1, AppendKeys, AppendDistinct
        <3>2. {m \in 1 .. (i + 1 - 1) : m <= Len(keys) /\ remaining[keys[m]] = 0}
                = {m \in 1 .. (i - 1) : m <= Len(keys) /\ remaining[keys[m]] = 0} \cup {i}
            BY <1>1, <2>1
        <3>3. KeySet(queue') =
                {keys[n] : n \in {m \in 1 .. (i + 1 - 1) : m <= Len(keys) /\ remaining[keys[m]] = 0}}
            BY <1>4, <3>1, <3>2
        <3> QED
            BY <1>0, <2>0, <3>1, <3>3 DEF IInv, EnqueueInv
    <2>2. CASE remaining[keys[i]] # 0
        <3>1. {m \in 1 .. (i + 1 - 1) : m <= Len(keys) /\ remaining[keys[m]] = 0}
                = {m \in 1 .. (i - 1) : m <= Len(keys) /\ remaining[keys[m]] = 0}
            BY <1>1, <2>2
        <3> QED
            BY <1>0, <1>4, <2>0, <2>2, <3>1 DEF IInv, EnqueueInv
    <2> QED
        BY <2>1, <2>2
<1>7. EdgesInv'
    BY <1>0 DEF IInv, EdgesInv
<1>8. StartInv' /\ QueueInv' /\ DrainInv' /\ DrainedInv'
    BY <1>0 DEF IInv, StartInv, QueueInv, DrainInv, DrainedInv, Returned
<1> QED
    BY <1>3, <1>6, <1>7, <1>8 DEF IInv

\* At the end of the loop the queue holds all keys with no dependency, and
\* every edge is pending.
LEMMA EndEnqueueIInv ==
    ASSUME IInv, EndEnqueue
    PROVE  IInv'
<1>0. /\ pc = "enqueue" /\ i > Len(keys) /\ pc' = "drain"
      /\ UNCHANGED <<keys, deps, dependents, inDegree, remaining, queue, drained, i, j>>
      /\ Keys' = Keys
    BY DEF EndEnqueue, Keys
<1>1. /\ drained = {} /\ remaining = inDegree
      /\ KeySet(queue) = {keys[n] : n \in {m \in 1 .. (i - 1) :
                            m <= Len(keys) /\ remaining[keys[m]] = 0}}
    BY <1>0 DEF IInv, StartInv, EnqueueInv
<1>2. TypeOK'
    BY <1>0 DEF IInv, TypeOK
<1>3. \A x : PendingInto(x)' = Into(dependents, x)
    BY <1>0, <1>1 DEF PendingInto, Pending
<1>4. ASSUME NEW x \in Keys PROVE remaining[x] = 0 <=> x \in KeySet(queue)
    <2>1. PICK n \in 1 .. Len(keys) : x = keys[n]
        BY Types DEF IInv, Keys, KeySet
    <2>2. n \in 1 .. (i - 1)
        BY <1>0, <2>1, Types DEF IInv
    <2> QED
        BY <1>1, <2>1, <2>2
<1>5. DrainInv'
    BY <1>0, <1>1, <1>3, <1>4 DEF IInv, EdgesInv, DrainInv
<1>6. EdgesInv' /\ Distinct(queue)'
    BY <1>0 DEF IInv, EdgesInv
<1>7. StartInv' /\ EnqueueInv' /\ QueueInv' /\ DrainedInv'
    BY <1>0, <1>1 DEF StartInv, EnqueueInv, QueueInv, DrainedInv, Returned
<1> QED
    BY <1>2, <1>5, <1>6, <1>7 DEF IInv

------------------------------------------------------------------------------
(* findCycle: the drain.                                                   *)

\* A key is drained when nothing pending leads to it, so it waits on drained
\* keys only, and it is not among those waited on by the keys drained before.
LEMMA DrainIInv ==
    ASSUME IInv, Drain
    PROVE  IInv'
<1> DEFINE k == Head(queue)
<1>0. /\ pc = "drain" /\ queue # <<>> /\ pc' = "relax" /\ j' = 1
      /\ drained' = drained \cup {k}
      /\ UNCHANGED <<keys, deps, dependents, inDegree, remaining, queue, i>>
      /\ Keys' = Keys
    BY DEF Drain, Keys
<1>1. /\ k \in Keys /\ KeySet(queue) = {k} \cup KeySet(Tail(queue))
      /\ k \notin KeySet(Tail(queue)) /\ Distinct(queue)
    BY <1>0, Types, HeadOf DEF IInv
<1>2. k \notin drained /\ KeySet(Tail(queue)) \cap drained = {}
    BY <1>0, <1>1 DEF IInv, QueueInv
<1>3. ASSUME NEW x PROVE PendingInto(x)' = PendingInto(x)
    <2>1. ASSUME NEW s \in Into(dependents, x)
          PROVE  Pending(s)' <=> Pending(s)
        <3>1. s[2] \in Nat \ {0}
            <4>0. dependents \in [Keys -> Seq(Keys)]
                BY Types DEF IInv
            <4>1. PICK d \in Keys : \E p \in 1 .. Len(dependents[d]) : s = <<d, p>>
                BY <4>0, EdgeOf DEF IsEdge, HasAt
            <4>2. Len(dependents[d]) \in Nat
                BY <4>0
            <4> QED
                BY <4>1, <4>2
        <3>2. Pending(s)' <=> s[1] \notin drained \cup {k} \/ s[1] = k
            BY <1>0, <3>1 DEF Pending
        <3> QED
            BY <1>0, <1>2, <3>2 DEF Pending
    <2> QED
        BY <1>0, <2>1 DEF PendingInto
<1>4. WaitsOn(dependents, k) \subseteq drained
    <2>1. remaining[k] = 0
        BY <1>0, <1>1 DEF IInv, DrainInv
    <2>2. PendingInto(k) = {}
        BY <1>0, <1>1, <2>1, Counts DEF IInv, DrainInv
    <2> QED
        BY <1>0, <2>2 DEF WaitsOn, PendingInto, Pending
<1> HIDE DEF k
<1>5. TypeOK'
    BY <1>0, <1>1 DEF IInv, TypeOK
<1>6. DrainInv'
    BY <1>0, <1>1, <1>3 DEF IInv, DrainInv
<1>7. QueueInv'
    BY <1>0, <1>1, <1>2 DEF IInv, QueueInv, Returned, k
<1>8. DrainedInv'
    <2>1. \A x \in drained' : WaitsOn(dependents, x) \subseteq drained'
        BY <1>0, <1>4 DEF IInv, DrainedInv
    <2>2. ASSUME NEW S \in SUBSET drained', S # {}
          PROVE  \E x \in S : WaitsOn(dependents, x) \cap S = {}
        <3>1. CASE S = {k}
            BY <1>2, <1>4, <3>1
        <3>2. CASE S # {k}
            <4>1. S \ {k} \in SUBSET drained /\ S \ {k} # {}
                BY <1>0, <2>2, <3>2
            <4>2. PICK x \in S \ {k} : WaitsOn(dependents, x) \cap (S \ {k}) = {}
                BY <4>1 DEF IInv, DrainedInv
            <4>3. k \notin WaitsOn(dependents, x)
                BY <1>2, <4>1, <4>2 DEF IInv, DrainedInv
            <4> QED
                BY <4>2, <4>3
        <3> QED
            BY <3>1, <3>2
    <2> QED
        BY <1>0, <2>1, <2>2 DEF DrainedInv
<1>9. EdgesInv' /\ Distinct(queue)'
    BY <1>0 DEF IInv, EdgesInv
<1>10. StartInv' /\ EnqueueInv'
    BY <1>0 DEF StartInv, EnqueueInv
<1> QED
    BY <1>5, <1>6, <1>7, <1>8, <1>9, <1>10 DEF IInv

\* The edges have positions, and they start at keys.
LEMMA EdgeType ==
    ASSUME TypeOK, NEW x, NEW s \in Into(dependents, x)
    PROVE  /\ s[1] \in Keys /\ s[2] \in Nat \ {0} /\ s = <<s[1], s[2]>>
           /\ s[2] <= Len(dependents[s[1]]) /\ dependents[s[1]][s[2]] = x
<1>1. dependents \in [Keys -> Seq(Keys)]
    BY Types
<1>2. PICK d \in Keys : \E p : s = <<d, p>> /\ HasAt(dependents, x, d, p)
    BY <1>1, EdgeOf DEF IsEdge
<1>3. PICK p : s = <<d, p>> /\ p \in 1 .. Len(dependents[d]) /\ dependents[d][p] = x
    BY <1>2 DEF HasAt
<1>4. Len(dependents[d]) \in Nat
    BY <1>1
<1>5. p \in Nat \ {0} /\ p <= Len(dependents[d])
    BY <1>3, <1>4
<1> QED
    BY <1>3, <1>5

\* Visiting a dependent takes one edge from those pending, and the dependent
\* joins the queue with the last of them: never twice, and never a key that
\* is queued or drained already.
LEMMA RelaxIInv ==
    ASSUME IInv, Relax
    PROVE  IInv'
<1> DEFINE k == Head(queue)
           x == dependents[k][j]
           s == <<k, j>>
<1>0. /\ pc = "relax" /\ pc' = "relax" /\ j <= Len(dependents[k]) /\ j' = j + 1
      /\ remaining' = [remaining EXCEPT ![x] = @ - 1]
      /\ queue' = IF remaining'[x] = 0 THEN Append(queue, x) ELSE queue
      /\ UNCHANGED <<keys, deps, dependents, inDegree, drained, i>>
      /\ Keys' = Keys
    BY DEF Relax, Keys
<1>1. /\ queue \in Seq(Keys) /\ queue # <<>> /\ Distinct(queue)
      /\ k \in Keys /\ k \in drained /\ KeySet(Tail(queue)) \cap drained = {}
      /\ j \in Nat \ {0}
    BY <1>0, Types, HeadOf DEF IInv, QueueInv
<1>2. x \in Keys /\ s \in Into(dependents, x)
    <2>1. dependents \in [Keys -> Seq(Keys)]
        BY Types DEF IInv
    <2>2. j \in 1 .. Len(dependents[k]) /\ x \in Keys
        BY <1>0, <1>1, <2>1
    <2>3. HasAt(dependents, x, k, j)
        BY <2>2 DEF HasAt
    <2>4. IsEdge(Keys, dependents, x, s)
        BY <1>1, <2>3 DEF IsEdge
    <2> QED
        BY <2>1, <2>2, <2>4, EdgeOf
<1>3. Head(queue') = k /\ queue' # <<>>
    BY <1>0, <1>1, <1>2, EmptySeq
<1>4. ASSUME NEW y, NEW t \in Into(dependents, y)
      PROVE  Pending(t)' <=> Pending(t) /\ t # s
    <2>1. t[2] \in Nat /\ t = <<t[1], t[2]>>
        BY EdgeType DEF IInv
    <2>2. Pending(t)' <=> t[1] \notin drained \/ (t[1] = k /\ t[2] >= j + 1)
        BY <1>0, <1>3 DEF Pending
    <2>3. Pending(t) <=> t[1] \notin drained \/ (t[1] = k /\ t[2] >= j)
        BY <1>0 DEF Pending
    <2>4. t = s <=> t[1] = k /\ t[2] = j
        BY <2>1
    <2>5. t[2] >= j + 1 <=> t[2] >= j /\ t[2] # j
        BY <1>1, <2>1
    <2> QED
        BY <1>1, <2>2, <2>3, <2>4, <2>5
<1>5. s \in PendingInto(x) /\ \A y : y # x => s \notin PendingInto(y)
    <2>1. Pending(s)
        BY <1>0, <1>1 DEF Pending
    <2>2. ASSUME NEW y, y # x PROVE s \notin Into(dependents, y)
        BY <2>2, EdgeType DEF IInv
    <2> QED
        BY <1>2, <2>1, <2>2 DEF PendingInto
<1>6. ASSUME NEW y PROVE PendingInto(y)' = PendingInto(y) \ {s}
    BY <1>0, <1>4 DEF PendingInto
<1>7. /\ remaining \in [Keys -> Nat] /\ remaining[x] # 0
      /\ remaining[x] - 1 = Cardinality(PendingInto(x) \ {s})
    <2>1. remaining[x] = Cardinality(PendingInto(x))
        BY <1>0, <1>2 DEF IInv, DrainInv
    <2>2. IsFiniteSet(PendingInto(x)) /\ PendingInto(x) # {}
        BY <1>5, Counts DEF IInv
    <2>3. Cardinality(PendingInto(x) \ {s}) = Cardinality(PendingInto(x)) - 1
        BY <1>5, <2>2, FS_RemoveElement
    <2> QED
        BY <2>1, <2>2, <2>3, Counts, Types DEF IInv
<1>8. x \notin KeySet(queue) \cup drained
    BY <1>0, <1>2, <1>7 DEF IInv, DrainInv
<1> HIDE DEF s, x, k
<1>9. /\ queue' \in Seq(Keys) /\ Distinct(queue')
      /\ KeySet(queue') = KeySet(queue) \cup (IF remaining'[x] = 0 THEN {x} ELSE {})
    <2>1. CASE remaining'[x] = 0
        BY <1>0, <1>1, <1>2, <1>8, <2>1, AppendKeys, AppendDistinct
    <2>2. CASE remaining'[x] # 0
        BY <1>0, <1>1, <2>2
    <2> QED
        BY <2>1, <2>2
<1>10. /\ remaining' \in [Keys -> Nat] /\ remaining'[x] = remaining[x] - 1
       /\ \A y \in Keys : y # x => remaining'[y] = remaining[y]
    BY <1>0, <1>2, <1>7
<1>11. TypeOK'
    <2>1. j' \in Nat \ {0}
        BY <1>0, <1>1
    <2> QED
        BY <1>0, <1>9, <1>10, <2>1 DEF IInv, TypeOK
<1>12. DrainInv'
    <2>1. ASSUME NEW y \in Keys PROVE remaining'[y] = Cardinality(PendingInto(y)')
        <3>1. remaining[y] = Cardinality(PendingInto(y))
            BY <1>0 DEF IInv, DrainInv
        <3>2. PendingInto(y)' = PendingInto(y) \ {s}
            BY <1>6
        <3>3. y # x => PendingInto(y) \ {s} = PendingInto(y)
            BY <1>5
        <3> QED
            BY <1>7, <1>10, <3>1, <3>2, <3>3
    <2>2. ASSUME NEW y \in Keys
          PROVE  remaining'[y] = 0 <=> y \in KeySet(queue') \cup drained
        <3>1. remaining[y] = 0 <=> y \in KeySet(queue) \cup drained
            BY <1>0 DEF IInv, DrainInv
        <3> QED
            BY <1>8, <1>9, <1>10, <3>1
    <2> QED
        BY <1>0, <2>1, <2>2 DEF DrainInv
<1>13. QueueInv'
    <2>1. PICK q : q = queue'
        OBVIOUS
    <2>2. /\ KeySet(q) = {k} \cup KeySet(Tail(q)) /\ k \notin KeySet(Tail(q))
        BY <1>3, <1>9, <2>1, HeadOf
    <2>3. KeySet(queue) = {k} \cup KeySet(Tail(queue))
        BY <1>1, HeadOf DEF k
    <2>4. KeySet(Tail(q)) \cap drained = {}
        BY <1>1, <1>8, <1>9, <2>1, <2>2, <2>3
    <2> QED
        BY <1>0, <1>1, <1>3, <2>1, <2>4 DEF QueueInv, Returned
<1>14. EdgesInv' /\ DrainedInv' /\ StartInv' /\ EnqueueInv'
    BY <1>0 DEF IInv, EdgesInv, DrainedInv, StartInv, EnqueueInv
<1> QED
    BY <1>9, <1>11, <1>12, <1>13, <1>14 DEF IInv

\* When the loop over the dependents is over none of their edges is pending.
LEMMA EndRelaxIInv ==
    ASSUME IInv, EndRelax
    PROVE  IInv'
<1> DEFINE k == Head(queue)
<1>0. /\ pc = "relax" /\ pc' = "drain" /\ j > Len(dependents[k])
      /\ queue' = Tail(queue)
      /\ UNCHANGED <<keys, deps, dependents, inDegree, remaining, drained, i, j>>
      /\ Keys' = Keys
    BY DEF EndRelax, Keys
<1>1. /\ k \in drained /\ KeySet(Tail(queue)) \cap drained = {}
      /\ Tail(queue) \in Seq(Keys) /\ Distinct(Tail(queue))
      /\ KeySet(queue) = {k} \cup KeySet(Tail(queue))
    BY <1>0, Types, HeadOf DEF IInv, QueueInv
<1>2. ASSUME NEW y PROVE PendingInto(y)' = PendingInto(y)
    <2>1. ASSUME NEW t \in Into(dependents, y)
          PROVE  Pending(t)' <=> Pending(t)
        <3>1. t[2] \in Nat /\ t[2] <= Len(dependents[t[1]]) /\ t[1] \in Keys
            BY EdgeType DEF IInv
        <3>2. Len(dependents[t[1]]) \in Nat /\ j \in Nat
            BY <3>1, Types DEF IInv
        <3>3. t[1] = k => ~(t[2] >= j)
            BY <1>0, <3>1, <3>2
        <3> QED
            BY <1>0, <3>3 DEF Pending
    <2> QED
        BY <1>0, <2>1 DEF PendingInto
<1> HIDE DEF k
<1>3. TypeOK'
    BY <1>0, <1>1 DEF IInv, TypeOK
<1>4. DrainInv'
    BY <1>0, <1>1, <1>2 DEF IInv, DrainInv
<1>5. QueueInv' /\ Distinct(queue)'
    BY <1>0, <1>1 DEF QueueInv, Returned
<1>6. EdgesInv' /\ DrainedInv' /\ StartInv' /\ EnqueueInv'
    BY <1>0 DEF IInv, EdgesInv, DrainedInv, StartInv, EnqueueInv
<1> QED
    BY <1>3, <1>4, <1>5, <1>6 DEF IInv

\* Returning changes nothing but the outcome.
LEMMA ReturnIInv ==
    ASSUME IInv, Return
    PROVE  IInv'
<1>0. /\ pc = "drain" /\ queue = <<>>
      /\ pc' = IF Stuck = {} THEN "accepted" ELSE "rejected"
      /\ UNCHANGED <<keys, deps, dependents, inDegree, remaining, queue, drained, i, j>>
      /\ Keys' = Keys /\ Stuck' = Stuck
    BY DEF Return, Keys, Stuck
<1>1. \A y : PendingInto(y)' = PendingInto(y)
    BY <1>0 DEF PendingInto, Pending
<1>2. TypeOK'
    BY <1>0 DEF IInv, TypeOK
<1>3. DrainInv'
    BY <1>0, <1>1 DEF IInv, DrainInv
<1>4. QueueInv' /\ Distinct(queue)'
    BY <1>0 DEF IInv, QueueInv, Returned
<1>5. EdgesInv' /\ DrainedInv' /\ StartInv' /\ EnqueueInv'
    BY <1>0 DEF IInv, EdgesInv, DrainedInv, StartInv, EnqueueInv
<1> QED
    BY <1>2, <1>3, <1>4, <1>5 DEF IInv

\* A step that changes no variable keeps the invariant.
LEMMA StutterIInv ==
    ASSUME IInv, UNCHANGED vars
    PROVE  IInv'
<1>0. UNCHANGED <<keys, deps, dependents, inDegree, remaining, queue, drained, pc, i, j>>
    BY DEF vars
<1>1. TypeOK'
    BY <1>0 DEF IInv, TypeOK, Keys
<1>2. \A y : PendingInto(y)' = PendingInto(y)
    BY <1>0 DEF PendingInto, Pending
<1>3. DrainInv'
    BY <1>0, <1>2 DEF IInv, DrainInv, Keys
<1>4. QueueInv' /\ EnqueueInv' /\ StartInv' /\ EdgesInv' /\ DrainedInv' /\ Distinct(queue)'
    BY <1>0 DEF IInv, QueueInv, EnqueueInv, StartInv, EdgesInv, DrainedInv, Returned, Stuck, Keys
<1> QED
    BY <1>1, <1>3, <1>4 DEF IInv

\* Every step of New keeps the invariant.
LEMMA NextIInv == IInv /\ [Next]_vars => IInv'
<1> SUFFICES ASSUME IInv, [Next]_vars PROVE IInv'
    OBVIOUS
<1>1. CASE AddEdge
    BY <1>1, AddEdgeIInv
<1>2. CASE NextKey
    BY <1>2, NextKeyIInv
<1>3. CASE FindCycle
    BY <1>3, FindCycleIInv
<1>4. CASE Enqueue
    BY <1>4, EnqueueIInv
<1>5. CASE EndEnqueue
    BY <1>5, EndEnqueueIInv
<1>6. CASE Drain
    BY <1>6, DrainIInv
<1>7. CASE Relax
    BY <1>7, RelaxIInv
<1>8. CASE EndRelax
    BY <1>8, EndRelaxIInv
<1>9. CASE Return
    BY <1>9, ReturnIInv
<1>10. CASE Done \/ UNCHANGED vars
    BY <1>10, StutterIInv DEF Done
<1> QED
    BY <1>1, <1>2, <1>3, <1>4, <1>5, <1>6, <1>7, <1>8, <1>9, <1>10 DEF Next

------------------------------------------------------------------------------
(* What the invariant is for.                                              *)

\* When New is done an undrained key waits on an undrained key: otherwise
\* none of the edges into it would be pending and it would have been queued.
LEMMA StuckWaitsOnStuck ==
    ASSUME IInv, Returned, NEW x \in Stuck
    PROVE  WaitsOn(dependents, x) \cap Stuck # {}
<1>1. x \in Keys /\ x \notin drained /\ KeySet(queue) = {}
    BY DEF IInv, QueueInv, Stuck, KeySet
<1>2. pc \in {"accepted", "rejected"}
    BY DEF Returned
<1>3. remaining[x] # 0
    BY <1>1, <1>2 DEF IInv, DrainInv
<1>4. PendingInto(x) # {}
    BY <1>1, <1>2, <1>3, Counts DEF IInv, DrainInv
<1>5. PICK s \in Into(dependents, x) : Pending(s)
    BY <1>4 DEF PendingInto
<1>6. s[1] \in Keys \ drained
    BY <1>2, <1>5, EdgeType DEF IInv, Pending
<1> QED
    BY <1>5, <1>6 DEF WaitsOn, Stuck

\* The keys New accepts form an acyclic graph, and an acyclic graph leaves
\* no key undrained.
LEMMA IInvAccepts == IInv => AcceptsExactlyAcyclic
<1> SUFFICES ASSUME IInv, Returned
             PROVE  /\ WellFormed(keys, dependents, inDegree)
                    /\ pc = "accepted" <=> Acyclic(dependents)
    BY DEF AcceptsExactlyAcyclic
<1>1. WellFormed(keys, dependents, inDegree)
    BY DEF IInv, TypeOK, EdgesInv, WellFormed, Keys
<1>2. DOMAIN dependents = Keys /\ drained \in SUBSET Keys
    BY Types DEF IInv
<1>3. pc = "accepted" <=> Stuck = {}
    BY DEF IInv, QueueInv
<1>4. ASSUME Stuck = {} PROVE Acyclic(dependents)
    <2>1. drained = Keys
        BY <1>2, <1>4 DEF Stuck
    <2> QED
        BY <1>2, <2>1 DEF IInv, DrainedInv, Acyclic
<1>5. ASSUME Acyclic(dependents) PROVE Stuck = {}
    <2>1. SUFFICES ASSUME Stuck # {} PROVE FALSE
        OBVIOUS
    <2>2. Stuck \in SUBSET DOMAIN dependents
        BY <1>2 DEF Stuck
    <2>3. PICK x \in Stuck : WaitsOn(dependents, x) \cap Stuck = {}
        BY <1>5, <2>1, <2>2 DEF Acyclic
    <2> QED
        BY <2>3, StuckWaitsOnStuck
<1> QED
    BY <1>1, <1>3, <1>4, <1>5

------------------------------------------------------------------------------

\* The invariant of Kahn's algorithm holds at every step of New, for all
\* lists of keys and dependencies: the counts are those of the pending edges,
\* and the keys without one are exactly those queued or drained.
THEOREM Invariance == Spec => []IInv
<1>1. Init => IInv
    BY InitIInv
<1>2. IInv /\ [Next]_vars => IInv'
    BY NextIInv
<1> QED
    BY <1>1, <1>2, PTL DEF Spec

\* The variables keep their types; in particular no degree falls below zero.
THEOREM TypeCorrect == Spec => []TypeOK
<1>1. IInv => TypeOK
    BY DEF IInv
<1> QED
    BY <1>1, Invariance, PTL

\* New returns a graph exactly when no set of keys waits on itself, and then
\* the graph has the shape Run relies on.
THEOREM ExactAcceptance == Spec => []AcceptsExactlyAcyclic
<1> QED
    BY IInvAccepts, Invariance, PTL

------------------------------------------------------------------------------
(* The edges are the dependencies.                                         *)

\* The edges from d into x, and the dependencies of x on d that the loop of
\* New has passed.
EdgesFrom(x, d) == {s \in Into(dependents, x) : s[1] = d}

Passed(x, n) ==
    \/ pc # "edges"
    \/ \E p \in DOMAIN keys : keys[p] = x /\ (p < i \/ (p = i /\ n < j))

PassedDeps(x, d) == {n \in DOMAIN deps[x] : deps[x][n] = d /\ Passed(x, n)}

DepsInv ==
    \A x, d \in Keys :
        Cardinality(EdgesFrom(x, d)) = IF x = d THEN 0 ELSE Cardinality(PassedDeps(x, d))

\* What is counted is finite.
LEMMA DepsCounts ==
    ASSUME TypeOK, NEW x \in Keys, NEW d
    PROVE  /\ IsFiniteSet(EdgesFrom(x, d)) /\ IsFiniteSet(PassedDeps(x, d))
           /\ Cardinality(EdgesFrom(x, d)) \in Nat /\ Cardinality(PassedDeps(x, d)) \in Nat
           /\ Cardinality(EdgesFrom(x, d)) = 0 <=> EdgesFrom(x, d) = {}
           /\ Cardinality(PassedDeps(x, d)) = 0 <=> PassedDeps(x, d) = {}
<1>1. EdgesFrom(x, d) \in SUBSET Into(dependents, x)
    BY DEF EdgesFrom
<1>2. deps[x] \in Seq(Names) /\ DOMAIN deps[x] = 1 .. Len(deps[x]) /\ Len(deps[x]) \in Nat
    BY Types
<1>3. IsFiniteSet(1 .. Len(deps[x]))
    BY <1>2, FS_Interval
<1>4. IsFiniteSet(PassedDeps(x, d))
    BY <1>2, <1>3, FS_Subset DEF PassedDeps
<1> QED
    BY <1>1, <1>4, Types, IntoFinite, FS_CardinalityType, FS_EmptySet

LEMMA DepsInit == Init => DepsInv
<1> SUFFICES ASSUME Init, NEW x \in Keys, NEW d \in Keys
             PROVE  Cardinality(EdgesFrom(x, d)) = IF x = d THEN 0 ELSE Cardinality(PassedDeps(x, d))
    BY DEF DepsInv
<1>1. TypeOK
    BY InitIInv DEF IInv
<1>2. i = 1 /\ j = 1 /\ pc = "edges"
    BY DEF Init
<1>3. EdgesFrom(x, d) = {}
    <2>1. \A q \in Keys : Len(dependents[q]) = 0
        BY DEF Init
    <2>2. dependents \in [Keys -> Seq(Keys)]
        BY <1>1, Types
    <2>3. Into(dependents, x) = {}
        BY <2>1, <2>2, EdgeOf DEF IsEdge, HasAt
    <2> QED
        BY <2>3 DEF EdgesFrom
<1>4. PassedDeps(x, d) = {}
    <2>1. DOMAIN keys \subseteq Nat \ {0} /\ DOMAIN deps[x] \subseteq Nat \ {0}
        BY <1>1, Types
    <2>2. \A p \in DOMAIN keys, n \in DOMAIN deps[x] : ~(p < i) /\ ~(n < j)
        BY <1>2, <2>1
    <2> QED
        BY <1>2, <2>2 DEF PassedDeps, Passed
<1> QED
    BY <1>1, <1>3, <1>4, DepsCounts

\* An iteration of the inner loop passes one dependency, and enters an edge
\* for it exactly if it is on another key.
LEMMA DepsAdd ==
    ASSUME IInv, IInv', DepsInv, AddEdge
    PROVE  DepsInv'
<1> PICK key : key = keys[i]
    OBVIOUS
<1> PICK dep : dep = deps[key][j]
    OBVIOUS
<1>1. /\ UNCHANGED <<keys, deps, pc, i>> /\ pc = "edges" /\ j' = j + 1
      /\ i <= Len(keys) /\ j <= Len(deps[key])
    BY DEF AddEdge
<1>2. /\ i \in 1 .. Len(keys) /\ key \in Keys /\ Keys' = Keys
      /\ j \in DOMAIN deps[key] /\ j \in Nat /\ DOMAIN deps[key] \subseteq Nat
      /\ TypeOK /\ TypeOK'
    <2>1. deps[key] \in Seq(Names)
        BY <1>1, Types DEF IInv
    <2> QED
        BY <1>1, <2>1, Types DEF IInv, Keys
<1>3. \A p \in DOMAIN keys : keys[p] = key => p = i
    BY <1>2, Types DEF IInv, TypeOK, Distinct
<1>4. \A x \in Keys : \A n \in DOMAIN deps[x] : Passed(x, n)' <=> Passed(x, n) \/ (x = key /\ n = j)
    <2> SUFFICES ASSUME NEW x \in Keys, NEW n \in DOMAIN deps[x]
                 PROVE  Passed(x, n)' <=> Passed(x, n) \/ (x = key /\ n = j)
        OBVIOUS
    <2>1. n \in Nat
        BY Types DEF IInv
    <2>2. n < j + 1 <=> n < j \/ n = j
        BY <1>2, <2>1
    <2>3. Passed(x, n)' <=> \E p \in DOMAIN keys : keys[p] = x /\ (p < i \/ (p = i /\ n < j + 1))
        BY <1>1 DEF Passed
    <2>4. Passed(x, n) <=> \E p \in DOMAIN keys : keys[p] = x /\ (p < i \/ (p = i /\ n < j))
        BY <1>1 DEF Passed
    <2>5. (x = key /\ n = j) => \E p \in DOMAIN keys : keys[p] = x /\ p = i /\ n < j + 1
        BY <1>2, <2>2
    <2> QED
        BY <1>3, <2>2, <2>3, <2>4, <2>5
<1>5. ~Passed(key, j)
    BY <1>1, <1>2, <1>3 DEF Passed
<1>6. \A x, d \in Keys : PassedDeps(x, d)' =
          IF x = key /\ d = dep THEN PassedDeps(x, d) \cup {j} ELSE PassedDeps(x, d)
    <2> TAKE x, d \in Keys
    <2>1. PassedDeps(x, d)' = {n \in DOMAIN deps[x] : deps[x][n] = d /\ Passed(x, n)'}
        BY <1>1 DEF PassedDeps
    <2>2. PassedDeps(x, d)' = {n \in DOMAIN deps[x] : deps[x][n] = d /\ (Passed(x, n) \/ (x = key /\ n = j))}
        BY <1>4, <2>1
    <2> QED
        BY <1>2, <2>2 DEF PassedDeps
<1>7. ASSUME NEW x \in Keys, NEW d \in Keys
      PROVE  Cardinality(EdgesFrom(x, d)') =
                 IF x = d THEN 0 ELSE Cardinality(PassedDeps(x, d)')
    <2>1. Cardinality(EdgesFrom(x, d)) = IF x = d THEN 0 ELSE Cardinality(PassedDeps(x, d))
        BY DEF DepsInv
    <2>2. CASE ~(x = key /\ d = dep /\ dep # key)
        <3>1. EdgesFrom(x, d)' = EdgesFrom(x, d)
            <4>1. CASE Constrains(key, dep)
                <5>1. /\ Into(dependents', key) =
                             Into(dependents, key) \cup {<<dep, Len(dependents[dep]) + 1>>}
                      /\ \A q : q # key => Into(dependents', q) = Into(dependents, q)
                    BY <1>2, <4>1, NewSlot DEF AddEdge, Constrains
                <5> QED
                    BY <2>2, <4>1, <5>1 DEF EdgesFrom, Constrains
            <4>2. CASE ~Constrains(key, dep)
                BY <4>2 DEF AddEdge, EdgesFrom
            <4> QED
                BY <4>1, <4>2
        <3>2. x # d => PassedDeps(x, d)' = PassedDeps(x, d)
            BY <1>6, <2>2
        <3> QED
            BY <2>1, <3>1, <3>2
    <2>3. CASE x = key /\ d = dep /\ dep # key
        <3>1. Constrains(key, dep)
            BY <2>3 DEF Constrains
        <3> PICK s : s = <<dep, Len(dependents[dep]) + 1>>
            OBVIOUS
        <3>2. /\ s \notin Into(dependents, key)
              /\ Into(dependents', key) = Into(dependents, key) \cup {s}
            BY <1>2, <3>1, NewSlot DEF AddEdge, Constrains
        <3>3. s \notin EdgesFrom(x, d) /\ EdgesFrom(x, d)' = EdgesFrom(x, d) \cup {s}
            BY <2>3, <3>2 DEF EdgesFrom
        <3>4. Cardinality(EdgesFrom(x, d)') = Cardinality(EdgesFrom(x, d)) + 1
            BY <1>2, <3>3, DepsCounts, FS_AddElement
        <3>5. j \notin PassedDeps(x, d) /\ PassedDeps(x, d)' = PassedDeps(x, d) \cup {j}
            BY <1>5, <1>6, <2>3 DEF PassedDeps
        <3>6. Cardinality(PassedDeps(x, d)') = Cardinality(PassedDeps(x, d)) + 1
            BY <1>2, <3>5, DepsCounts, FS_AddElement
        <3> QED
            BY <2>1, <2>3, <3>4, <3>6
    <2> QED
        BY <2>2, <2>3
<1> QED
    BY <1>2, <1>7 DEF DepsInv

\* At the end of the inner loop all dependencies of the key are passed, and
\* at the end of the outer one those of all keys.
LEMMA DepsNext ==
    ASSUME IInv, DepsInv, NextKey \/ FindCycle
    PROVE  DepsInv'
<1>1. UNCHANGED <<keys, deps, dependents>> /\ Keys' = Keys /\ pc = "edges"
    BY DEF NextKey, FindCycle, Keys
<1>2. ASSUME NEW x \in Keys, NEW n \in DOMAIN deps[x] PROVE Passed(x, n)' <=> Passed(x, n)
    <2>1. /\ n \in 1 .. Len(deps[x]) /\ Len(deps[x]) \in Nat
          /\ DOMAIN keys = 1 .. Len(keys) /\ Len(keys) \in Nat /\ i \in Nat \ {0} /\ j \in Nat \ {0}
        BY Types DEF IInv
    <2>2. PICK p \in DOMAIN keys : keys[p] = x
        BY DEF Keys, KeySet
    <2>3. Distinct(keys)
        BY DEF IInv, TypeOK
    <2>4. Passed(x, n) <=> p < i \/ (p = i /\ n < j)
        BY <1>1, <2>2, <2>3 DEF Passed, Distinct
    <2>5. CASE NextKey
        <3>1. Passed(x, n)' <=> p < i + 1 \/ (p = i + 1 /\ n < 1)
            BY <1>1, <2>2, <2>3, <2>5 DEF Passed, Distinct, NextKey
        <3>2. j > Len(deps[keys[i]])
            BY <2>5 DEF NextKey
        <3> QED
            BY <2>1, <2>2, <2>4, <3>1, <3>2
    <2>6. CASE FindCycle
        <3>1. Passed(x, n)'
            BY <2>6 DEF Passed, FindCycle
        <3>2. p < i
            BY <2>1, <2>6 DEF FindCycle
        <3> QED
            BY <2>4, <3>1, <3>2
    <2> QED
        BY <2>5, <2>6
<1>3. ASSUME NEW x \in Keys, NEW d \in Keys
      PROVE  EdgesFrom(x, d)' = EdgesFrom(x, d) /\ PassedDeps(x, d)' = PassedDeps(x, d)
    <2>1. PassedDeps(x, d)' = {n \in DOMAIN deps[x] : deps[x][n] = d /\ Passed(x, n)'}
        BY <1>1 DEF PassedDeps
    <2>2. PassedDeps(x, d)' = PassedDeps(x, d)
        BY <1>2, <2>1 DEF PassedDeps
    <2> QED
        BY <1>1, <2>2 DEF EdgesFrom
<1> QED
    BY <1>1, <1>3 DEF DepsInv

LEMMA DepsStep == IInv /\ IInv' /\ DepsInv /\ [Next]_vars => DepsInv'
<1> SUFFICES ASSUME IInv, IInv', DepsInv, [Next]_vars PROVE DepsInv'
    OBVIOUS
<1>1. CASE AddEdge
    BY <1>1, DepsAdd
<1>2. CASE NextKey \/ FindCycle
    BY <1>2, DepsNext
<1>3. CASE ~(AddEdge \/ NextKey \/ FindCycle)
    <2>1. UNCHANGED <<keys, deps, dependents>> /\ Keys' = Keys
        BY <1>3 DEF Next, Enqueue, EndEnqueue, Drain, Relax, EndRelax, Return, Done, vars, Keys
    <2>2. UNCHANGED vars \/ (pc # "edges" /\ pc' # "edges")
        BY <1>3 DEF Next, Enqueue, EndEnqueue, Drain, Relax, EndRelax, Return, Done
    <2>3. \A x, n : Passed(x, n)' <=> Passed(x, n)
        BY <2>2 DEF Passed, vars
    <2>4. \A x, d : EdgesFrom(x, d)' = EdgesFrom(x, d)
        BY <2>1 DEF EdgesFrom
    <2>5. \A x, d : PassedDeps(x, d)' = PassedDeps(x, d)
        <3> TAKE x, d
        <3>1. PassedDeps(x, d)' = {n \in DOMAIN deps[x] : deps[x][n] = d /\ Passed(x, n)'}
            BY <2>1 DEF PassedDeps
        <3> QED
            BY <2>3, <3>1 DEF PassedDeps
    <2> QED
        BY <2>1, <2>4, <2>5 DEF DepsInv
<1> QED
    BY <1>1, <1>2, <1>3

LEMMA DepsInvariance == Spec => []DepsInv
    BY DepsInit, DepsStep, Invariance, PTL DEF Spec

\* The graph New works on has as many edges between two keys as the caller
\* named the dependency, and counts them all.
LEMMA DepsHeld == IInv /\ DepsInv => GraphHoldsDeps
<1> SUFFICES ASSUME IInv, DepsInv, pc # "edges"
             PROVE  /\ WellFormed(keys, dependents, inDegree)
                    /\ \A x, d \in Keys :
                          Cardinality({s \in Into(dependents, x) : s[1] = d}) =
                              IF x = d THEN 0
                              ELSE Cardinality({n \in DOMAIN deps[x] : deps[x][n] = d})
    BY DEF GraphHoldsDeps
<1>1. WellFormed(keys, dependents, inDegree)
    BY DEF IInv, TypeOK, EdgesInv, WellFormed, Keys
<1>2. \A x, d : PassedDeps(x, d) = {n \in DOMAIN deps[x] : deps[x][n] = d}
    BY DEF PassedDeps, Passed
<1> QED
    BY <1>1, <1>2 DEF DepsInv, EdgesFrom

\* Whatever New was given, the graph it looks for cycles in and that Run works
\* on says what the caller said.
THEOREM GraphIsTheDeps == Spec => []GraphHoldsDeps
<1> QED
    BY DepsHeld, DepsInvariance, Invariance, PTL

------------------------------------------------------------------------------
(* What findCycle cannot drain.                                            *)

\* A set of natural numbers has a smallest one.
LEMMA LeastExists ==
    ASSUME NEW T \in SUBSET Nat, T # {}
    PROVE  \E n \in T : \A m \in T : n <= m
<1> DEFINE R == OpToRel(<, Nat)
<1>1. IsWellFoundedOn(R, Nat)
    BY NatLessThanWellFounded
<1>2. \A m \in Nat, n \in Nat : m < n => <<m, n>> \in R
    BY DEF OpToRel
<1> HIDE DEF R
<1>3. PICK n \in T : \A m \in T : ~(<<m, n>> \in R)
    BY <1>1, WFMin
<1>4. \A m \in T : ~(m < n)
    BY <1>2, <1>3
<1> QED
    BY <1>4

\* Upstream is what Direct leads to, and no more.
LEMMA UpstreamFacts ==
    ASSUME NEW x \in Keys
    PROVE  /\ Direct(x) \subseteq Upstream(x) /\ Upstream(x) \subseteq Keys
           /\ \A z \in Upstream(x) : Direct(z) \subseteq Upstream(x)
           /\ \A S \in SUBSET Keys :
                 Direct(x) \subseteq S /\ (\A z \in S : Direct(z) \subseteq S)
                     => Upstream(x) \subseteq S
<1>1. \A z : Direct(z) \subseteq Keys
    BY DEF Direct
<1> QED
    BY <1>1, Zenon DEF Upstream

\* Whoever is upstream of one upstream is upstream, and whoever is upstream is
\* waited on directly or upstream of one that is.
LEMMA UpstreamUnfolds ==
    ASSUME NEW x \in Keys
    PROVE  /\ \A z \in Upstream(x) : Upstream(z) \subseteq Upstream(x)
           /\ \A y \in Upstream(x) : \E d \in Direct(x) : y = d \/ y \in Upstream(d)
<1>1. ASSUME NEW z \in Upstream(x) PROVE Upstream(z) \subseteq Upstream(x)
    <2>1. z \in Keys /\ Direct(z) \subseteq Upstream(x) /\ Upstream(x) \in SUBSET Keys
        BY UpstreamFacts
    <2>2. \A u \in Upstream(x) : Direct(u) \subseteq Upstream(x)
        BY UpstreamFacts
    <2> QED
        BY <2>1, <2>2, UpstreamFacts
<1>2. ASSUME NEW y \in Upstream(x) PROVE \E d \in Direct(x) : y = d \/ y \in Upstream(d)
    <2> DEFINE S == {u \in Keys : \E d \in Direct(x) : u = d \/ u \in Upstream(d)}
    <2>1. Direct(x) \subseteq Keys
        BY DEF Direct
    <2>2. Direct(x) \subseteq S
        BY <2>1
    <2>3. ASSUME NEW u \in S PROVE Direct(u) \subseteq S
        <3>1. PICK d \in Direct(x) : u = d \/ u \in Upstream(d)
            OBVIOUS
        <3>2. d \in Keys
            BY <2>1
        <3>3. Direct(u) \subseteq Upstream(d) /\ Upstream(d) \subseteq Keys
            BY <3>1, <3>2, UpstreamFacts
        <3> QED
            BY <3>3
    <2>4. S \in SUBSET Keys
        OBVIOUS
    <2> HIDE DEF S
    <2>5. Upstream(x) \subseteq S
        BY <2>2, <2>3, <2>4, UpstreamFacts
    <2> QED
        BY <2>5 DEF S
<1> QED
    BY <1>1, <1>2

\* Once the edges are entered, what a key waits on in the graph is what it
\* waits on as the caller put it.
LEMMA DirectIsWaitsOn ==
    ASSUME IInv, DepsInv, pc # "edges", NEW x \in Keys
    PROVE  WaitsOn(dependents, x) = Direct(x)
<1>1. TypeOK
    BY DEF IInv
<1>2. WaitsOn(dependents, x) \subseteq Keys
    BY EdgeType DEF IInv, WaitsOn
<1>3. ASSUME NEW d \in Keys PROVE d \in WaitsOn(dependents, x) <=> d \in Direct(x)
    <2>1. d \in WaitsOn(dependents, x) <=> EdgesFrom(x, d) # {}
        BY DEF WaitsOn, EdgesFrom
    <2>2. PassedDeps(x, d) # {} <=> \E n \in DOMAIN deps[x] : deps[x][n] = d
        BY DEF PassedDeps, Passed
    <2>3. EdgesFrom(x, d) # {} <=> x # d /\ PassedDeps(x, d) # {}
        BY <1>1, DepsCounts DEF DepsInv
    <2> QED
        BY <2>1, <2>2, <2>3 DEF Direct
<1>4. Direct(x) \subseteq Keys
    BY DEF Direct
<1> QED
    BY <1>2, <1>3, <1>4

\* A drained key is upstream of no cycle: among the drained keys that wait on
\* it and are upstream of it, one would wait on none of them.
LEMMA DrainedIsFree ==
    ASSUME IInv, DepsInv, pc # "edges", NEW x \in drained, NEW y \in Upstream(x)
    PROVE  ~OnCycle(y)
<1>0. SUFFICES ASSUME OnCycle(y) PROVE FALSE
    OBVIOUS
<1>1. x \in Keys /\ drained \in SUBSET Keys
    BY Types DEF IInv
<1>2. \A z \in drained : Direct(z) \subseteq drained
    BY <1>1, DirectIsWaitsOn DEF IInv, DrainedInv
<1>3. Upstream(x) \subseteq drained
    BY <1>1, <1>2, UpstreamFacts
<1>4. y \in Keys /\ y \in drained /\ Upstream(y) \subseteq drained
    BY <1>1, <1>2, <1>3, UpstreamFacts
<1> DEFINE S == {z \in Upstream(y) : y \in Upstream(z)}
<1>5. y \in S /\ S \in SUBSET drained
    BY <1>0, <1>4 DEF OnCycle
<1>6. PICK z \in S : WaitsOn(dependents, z) \cap S = {}
    <2> HIDE DEF S
    <2> QED
        BY <1>5 DEF IInv, DrainedInv
<1>7. z \in Keys /\ z \in Upstream(y) /\ y \in Upstream(z)
    BY <1>4, UpstreamFacts
<1>8. PICK d \in Direct(z) : y = d \/ y \in Upstream(d)
    BY <1>7, UpstreamUnfolds
<1>9. d \in Upstream(y) /\ d \in WaitsOn(dependents, z)
    BY <1>4, <1>7, UpstreamFacts, DirectIsWaitsOn
<1>10. y \in Upstream(d)
    BY <1>0, <1>8 DEF OnCycle
<1> QED
    BY <1>6, <1>9, <1>10

\* A key that is stuck when New is done is upstream of a cycle: of the stuck
\* keys upstream of it, take one with the fewest upstream of itself; it waits
\* on another that has no fewer, and is therefore among them.
LEMMA StuckMeetsCycle ==
    ASSUME IInv, DepsInv, Returned, NEW x \in Stuck
    PROVE  \E y \in Upstream(x) : OnCycle(y)
<1> DEFINE U == Upstream(x) \cap Stuck
           Size(u) == Cardinality(Upstream(u))
           T == {Size(u) : u \in U}
<1>1. pc # "edges" /\ Stuck \subseteq Keys /\ x \in Keys /\ IsFiniteSet(Keys)
    BY Types DEF IInv, Returned, Stuck
<1>2. \A u \in Stuck : \E d \in Stuck : d \in Direct(u)
    BY <1>1, StuckWaitsOnStuck, DirectIsWaitsOn
<1>3. U # {}
    BY <1>1, <1>2, UpstreamFacts
<1>4. \A u \in Keys : IsFiniteSet(Upstream(u)) /\ Size(u) \in Nat
    <2> TAKE u \in Keys
    <2>1. IsFiniteSet(Upstream(u))
        BY <1>1, UpstreamFacts, FS_Subset
    <2> QED
        BY <2>1, FS_CardinalityType
<1>5. PICK u \in U : \A v \in U : Size(u) <= Size(v)
    <2>1. T \subseteq Nat /\ T # {}
        BY <1>1, <1>3, <1>4
    <2>2. PICK n \in T : \A m \in T : n <= m
        <3> HIDE DEF T
        <3> QED
            BY <2>1, LeastExists
    <2>3. PICK u \in U : n = Size(u)
        OBVIOUS
    <2> QED
        BY <2>2, <2>3
<1>6. u \in Keys /\ u \in Upstream(x)
    BY <1>1
<1>7. PICK d \in Stuck : d \in Direct(u)
    BY <1>2
<1>8. d \in Upstream(u) /\ d \in Upstream(x) /\ d \in Keys
    BY <1>1, <1>6, <1>7, UpstreamFacts
<1>9. Upstream(d) \subseteq Upstream(u)
    BY <1>6, <1>8, UpstreamUnfolds
<1>10. Upstream(d) = Upstream(u)
    <2>1. Size(u) <= Size(d)
        BY <1>5, <1>7, <1>8
    <2>2. Size(d) <= Size(u) /\ (Size(d) = Size(u) => Upstream(d) = Upstream(u))
        BY <1>4, <1>6, <1>9, FS_Subset
    <2>3. Size(u) \in Nat /\ Size(d) \in Nat
        BY <1>4, <1>6, <1>8
    <2> HIDE DEF Size
    <2> QED
        BY <2>1, <2>2, <2>3
<1> QED
    BY <1>8, <1>10 DEF OnCycle

\* What New reports as the cycle is every key that waits on one, directly or
\* not, and no other, and New fails exactly when there is one.
LEMMA StuckIsUpstream == IInv /\ DepsInv => StuckIsTheCycle
<1> SUFFICES ASSUME IInv, DepsInv, Returned
             PROVE  /\ Stuck = {x \in Keys : \E y \in Upstream(x) : OnCycle(y)}
                    /\ pc = "rejected" <=> \E x \in Keys : OnCycle(x)
    BY DEF StuckIsTheCycle
<1>1. pc # "edges" /\ Stuck \subseteq Keys
    BY DEF Returned, Stuck
<1>2. \A x \in Keys : x \in Stuck <=> \E y \in Upstream(x) : OnCycle(y)
    <2>1. \A x \in Keys \ Stuck : x \in drained
        BY DEF Stuck
    <2> QED
        BY <1>1, <2>1, DrainedIsFree, StuckMeetsCycle
<1>3. Stuck = {x \in Keys : \E y \in Upstream(x) : OnCycle(y)}
    BY <1>1, <1>2
<1>4. pc = "rejected" <=> Stuck # {}
    BY DEF IInv, QueueInv, Returned
<1>5. Stuck # {} <=> \E x \in Keys : OnCycle(x)
    <2>1. ASSUME NEW x \in Stuck PROVE \E y \in Keys : OnCycle(y)
        BY <1>1, StuckMeetsCycle, UpstreamFacts
    <2>2. ASSUME NEW x \in Keys, OnCycle(x) PROVE x \in Stuck
        BY <1>2, <2>2 DEF OnCycle
    <2> QED
        BY <2>1, <2>2
<1> QED
    BY <1>3, <1>4, <1>5

\* Whatever findCycle cannot drain is exactly the set of keys that wait,
\* directly or transitively, on a cycle of the dependencies the caller gave.
THEOREM StuckIsExact == Spec => []StuckIsTheCycle
<1> QED
    BY StuckIsUpstream, DepsInvariance, Invariance, PTL
==============================================================================
