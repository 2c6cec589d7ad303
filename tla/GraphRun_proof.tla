---------------------------- MODULE GraphRun_proof ---------------------------
(***************************************************************************)
(* Run, for every acyclic graph: the counters, the lock, the group and the *)
(* channel keep the invariant IInv, and what Run promises follows from it. *)
(***************************************************************************)
EXTENDS GraphRun, FiniteSetTheorems, SequenceTheorems, TLAPS

(* Facts about dependency graphs and the lists of keys they are made of. *)

\* The keys of a list are finitely many.
LEMMA KeySetFinite ==
    ASSUME NEW S, NEW ks \in Seq(S)
    PROVE  IsFiniteSet(KeySet(ks))
<1>1. ks \in Surjection(1 .. Len(ks), KeySet(ks))
    BY DEF KeySet, Surjection
<1>2. IsFiniteSet(1 .. Len(ks))
    BY FS_Interval
<1> QED
    BY <1>1, <1>2, FS_Surjection

\* A list without repetition has as many positions as keys.
LEMMA DistinctLength ==
    ASSUME NEW S, NEW ks \in Seq(S), Distinct(ks)
    PROVE  Cardinality(KeySet(ks)) = Len(ks)
<1>1. ks \in Surjection(1 .. Len(ks), KeySet(ks))
    BY DEF KeySet, Surjection
<1>2. ks \in Injection(1 .. Len(ks), KeySet(ks))
    BY <1>1 DEF Distinct, Injection, IsInjective, Surjection
<1>3. IsFiniteSet(1 .. Len(ks)) /\ Cardinality(1 .. Len(ks)) = Len(ks)
    <2>1. Len(ks) \in Nat
        OBVIOUS
    <2>2. Cardinality(1 .. Len(ks)) = IF 1 > Len(ks) THEN 0 ELSE Len(ks) - 1 + 1
        BY <2>1, FS_Interval
    <2> QED
        BY <2>1, <2>2, FS_Interval
<1> QED
    BY <1>1, <1>2, <1>3, FS_Surjection

\* A graph has finitely many edges.
LEMMA SlotsFinite ==
    ASSUME NEW K, IsFiniteSet(K), NEW dd \in [K -> Seq(K)]
    PROVE  IsFiniteSet(Slots(dd))
<1> DEFINE Edges(d) == {d} \X DOMAIN dd[d]
           f == [d \in K |-> Edges(d)]
           T == {Edges(d) : d \in DOMAIN dd}
<1>1. f \in Surjection(K, T)
    BY DEF Surjection
<1>2. IsFiniteSet(T)
    BY <1>1, FS_Surjection
<1>3. ASSUME NEW d \in K PROVE IsFiniteSet(Edges(d))
    <2>1. IsFiniteSet({d}) BY FS_Singleton
    <2>2. IsFiniteSet(1 .. Len(dd[d])) BY FS_Interval
    <2>3. DOMAIN dd[d] = 1 .. Len(dd[d]) OBVIOUS
    <2>4. IsFiniteSet({d} \X DOMAIN dd[d]) BY <2>1, <2>2, <2>3, FS_Product
    <2> QED BY <2>4
<1>4. \A U \in T : IsFiniteSet(U)
    BY <1>3
<1>5. IsFiniteSet(UNION T)
    BY <1>2, <1>4, FS_UNION
<1> QED
    BY <1>5 DEF Slots

\* So have its keys: the edges into a key, and any part of them, can be
\* counted, and the count is zero when there are none.
LEMMA IntoFinite ==
    ASSUME NEW K, IsFiniteSet(K), NEW dd \in [K -> Seq(K)], NEW x,
           NEW P \in SUBSET Into(dd, x)
    PROVE  /\ IsFiniteSet(P)
           /\ Cardinality(P) \in Nat
           /\ Cardinality(P) = 0 <=> P = {}
<1>1. P \in SUBSET Slots(dd)
    BY DEF Into
<1>2. IsFiniteSet(P)
    BY <1>1, SlotsFinite, FS_Subset
<1> QED
    BY <1>2, FS_CardinalityType, FS_EmptySet

\* An edge, spelt out.
LEMMA SlotsOf ==
    ASSUME NEW K, NEW dd \in [K -> Seq(K)], NEW s
    PROVE  s \in Slots(dd)
             <=> \E d \in K : \E p \in 1 .. Len(dd[d]) : s = <<d, p>>
BY DEF Slots

\* No key of an acyclic graph waits on itself.
LEMMA NoSelfWait ==
    ASSUME NEW dd, Acyclic(dd), NEW x \in DOMAIN dd
    PROVE  x \notin WaitsOn(dd, x)
<1>1. {x} \in SUBSET DOMAIN dd /\ {x} # {}
    OBVIOUS
<1> QED
    BY <1>1 DEF Acyclic

\* Appending, and taking from the head of the second list to the end of the
\* first, as they show in the keys.
LEMMA AppendKeys ==
    ASSUME NEW S, NEW s \in Seq(S), NEW x \in S
    PROVE  KeySet(Append(s, x)) = KeySet(s) \cup {x}
<1>1. /\ Append(s, x) \in Seq(S) /\ Len(Append(s, x)) = Len(s) + 1
      /\ \A n \in 1 .. Len(s) : Append(s, x)[n] = s[n]
      /\ Append(s, x)[Len(s) + 1] = x
    OBVIOUS
<1>2. DOMAIN s = 1 .. Len(s) /\ DOMAIN Append(s, x) = 1 .. Len(s) + 1
    BY <1>1
<1>3. KeySet(Append(s, x)) \subseteq KeySet(s) \cup {x}
    BY <1>1, <1>2 DEF KeySet
<1>4. KeySet(s) \cup {x} \subseteq KeySet(Append(s, x))
    BY <1>1, <1>2 DEF KeySet
<1> QED
    BY <1>3, <1>4

LEMMA AppendDistinct ==
    ASSUME NEW S, NEW s \in Seq(S), NEW x \in S, Distinct(s), x \notin KeySet(s)
    PROVE  Distinct(Append(s, x))
<1>1. /\ Append(s, x) \in Seq(S) /\ Len(Append(s, x)) = Len(s) + 1
      /\ \A n \in 1 .. Len(s) : Append(s, x)[n] = s[n]
      /\ Append(s, x)[Len(s) + 1] = x
    OBVIOUS
<1>2. \A n \in 1 .. Len(s) : s[n] # x
    BY DEF KeySet
<1> QED
    BY <1>1, <1>2 DEF Distinct

LEMMA MoveHead ==
    ASSUME NEW S, NEW s \in Seq(S), NEW t \in Seq(S), t # <<>>
    PROVE  Append(s, Head(t)) \o Tail(t) = s \o t
<1>1. Append(s, Head(t)) \o Tail(t) \in Seq(S) /\ s \o t \in Seq(S)
    BY HeadTailProperties, ConcatProperties
<1>2. Len(Append(s, Head(t)) \o Tail(t)) = Len(s \o t)
    BY HeadTailProperties, ConcatProperties
<1>3. ASSUME NEW n \in 1 .. Len(s \o t)
      PROVE  (Append(s, Head(t)) \o Tail(t))[n] = (s \o t)[n]
    <2>1. Append(s, Head(t)) \in Seq(S) /\ Len(Append(s, Head(t))) = Len(s) + 1
        BY HeadTailProperties
    <2>2. Tail(t) \in Seq(S) /\ Len(Tail(t)) = Len(t) - 1
        BY HeadTailProperties
    <2>3. n \in 1 .. Len(s) + Len(t) /\ Len(s) \in Nat /\ Len(t) \in Nat \ {0}
        BY ConcatProperties, EmptySeq
    <2>4. (s \o t)[n] = IF n <= Len(s) THEN s[n] ELSE t[n - Len(s)]
        BY <2>3, ConcatProperties
    <2>5. (Append(s, Head(t)) \o Tail(t))[n] =
            IF n <= Len(s) + 1 THEN Append(s, Head(t))[n] ELSE Tail(t)[n - (Len(s) + 1)]
        BY <2>1, <2>2, <2>3, ConcatProperties
    <2>6. CASE n <= Len(s)
        BY <2>3, <2>4, <2>5, <2>6
    <2>7. CASE n = Len(s) + 1
        BY <2>3, <2>4, <2>5, <2>7
    <2>8. CASE n > Len(s) + 1
        BY <2>2, <2>3, <2>4, <2>5, <2>8, HeadTailProperties
    <2> QED
        BY <2>3, <2>6, <2>7, <2>8
<1> QED
    BY <1>1, <1>2, <1>3, SeqEqual

LEMMA MoveLast ==
    ASSUME NEW S, NEW s \in Seq(S), NEW t \in Seq(S), NEW x \in S
    PROVE  s \o Append(t, x) = Append(s \o t, x)
<1>1. s \o Append(t, x) \in Seq(S) /\ Append(s \o t, x) \in Seq(S)
    BY ConcatProperties
<1>2. Len(s \o Append(t, x)) = Len(Append(s \o t, x))
    BY ConcatProperties
<1>3. ASSUME NEW n \in 1 .. Len(s \o Append(t, x))
      PROVE  (s \o Append(t, x))[n] = Append(s \o t, x)[n]
    <2>1. Append(t, x) \in Seq(S) /\ Len(Append(t, x)) = Len(t) + 1
        OBVIOUS
    <2>2. s \o t \in Seq(S) /\ Len(s \o t) = Len(s) + Len(t)
        BY ConcatProperties
    <2>3. n \in 1 .. Len(s) + Len(t) + 1 /\ Len(s) \in Nat /\ Len(t) \in Nat
        BY <2>1, ConcatProperties
    <2>4. (s \o Append(t, x))[n] = IF n <= Len(s) THEN s[n] ELSE Append(t, x)[n - Len(s)]
        BY <2>1, <2>3, ConcatProperties
    <2>5. CASE n <= Len(s) + Len(t)
        <3>1. Append(s \o t, x)[n] = (s \o t)[n]
            BY <2>2, <2>3, <2>5
        <3>2. (s \o t)[n] = IF n <= Len(s) THEN s[n] ELSE t[n - Len(s)]
            BY <2>3, <2>5, ConcatProperties
        <3> QED
            BY <2>3, <2>4, <2>5, <3>1, <3>2
    <2>6. CASE n = Len(s) + Len(t) + 1
        BY <2>2, <2>3, <2>4, <2>6
    <2> QED
        BY <2>3, <2>5, <2>6
<1> QED
    BY <1>1, <1>2, <1>3, SeqEqual

------------------------------------------------------------------------------
(* The invariant.                                                          *)

\* What the shape of the graph gives: everything that is counted is finite.
LEMMA GraphFacts ==
    ASSUME TypeOK
    PROVE  /\ IsFiniteSet(Keys)
           /\ Distinct(keys)
           /\ dependents \in [Keys -> Seq(Keys)]
           /\ inDegree = [x \in Keys |-> Cardinality(Into(dependents, x))]
           /\ \A x : /\ IsFiniteSet(PendingInto(x))
                     /\ Cardinality(PendingInto(x)) \in Nat
                     /\ Cardinality(PendingInto(x)) = 0 <=> PendingInto(x) = {}
           /\ \A x : /\ Cardinality(Into(dependents, x)) \in Nat
                     /\ Cardinality(Into(dependents, x)) = 0 <=> Into(dependents, x) = {}
<1>1. /\ Distinct(keys)
      /\ dependents \in [Keys -> Seq(Keys)]
      /\ inDegree = [x \in Keys |-> Cardinality(Into(dependents, x))]
    BY DEF TypeOK, WellFormed, Keys
<1>2. IsFiniteSet(Keys)
    BY KeySetFinite DEF TypeOK, Keys
<1>3. \A x : PendingInto(x) \in SUBSET Into(dependents, x)
    BY DEF PendingInto
<1> QED
    BY <1>1, <1>2, <1>3, IntoFinite

\* An edge into a key, spelt out.
LEMMA IntoOf ==
    ASSUME TypeOK, NEW x, NEW s
    PROVE  s \in Into(dependents, x)
             <=> \E d \in Keys : \E p \in 1 .. Len(dependents[d]) :
                    s = <<d, p>> /\ dependents[d][p] = x
<1>1. dependents \in [Keys -> Seq(Keys)]
    BY GraphFacts
<1>2. s \in Slots(dependents)
        <=> \E d \in Keys : \E p \in 1 .. Len(dependents[d]) : s = <<d, p>>
    BY <1>1, SlotsOf
<1>3. s \in Into(dependents, x) <=> s \in Slots(dependents) /\ dependents[s[1]][s[2]] = x
    BY DEF Into
<1> QED
    BY <1>2, <1>3

\* The holder of a free mutex is no key.
LEMMA NotAKey == TypeOK => NoOne \notin Keys
<1> SUFFICES ASSUME TypeOK PROVE NoOne \notin Keys
    OBVIOUS
<1>1. \A n \in DOMAIN keys : keys[n] \in Names
    BY DEF TypeOK
<1> QED
    BY <1>1, NoOneAssumption DEF Keys, KeySet

------------------------------------------------------------------------------
(* The initial states.                                                     *)

\* Run begins in a state of the right types.
LEMMA InitTypeOK == Init => TypeOK
<1> SUFFICES ASSUME Init PROVE TypeOK
    OBVIOUS
<1>1. PICK g \in Graphs :
        keys = g.keys /\ dependents = g.dependents /\ inDegree = g.inDegree
    BY DEF Init
<1>2. /\ keys \in Seq(Names)
      /\ WellFormed(keys, dependents, inDegree) /\ Acyclic(dependents)
    BY <1>1, GraphsAssumption
<1>3. IsFiniteSet(Keys) /\ dependents \in [Keys -> Seq(Keys)]
      /\ inDegree = [x \in Keys |-> Cardinality(Into(dependents, x))]
    BY <1>2, KeySetFinite DEF WellFormed, Keys
<1>4. inDegree \in [Keys -> Nat]
    BY <1>3, IntoFinite
<1>5. pc \in [Keys -> Steps] /\ pos \in [Keys -> Nat \ {0}] /\ started \in [Keys -> Nat]
    BY DEF Init, Steps
<1>6. remaining \in [Keys -> Nat] /\ results \in Seq(Keys) /\ collected \in Seq(Keys)
      /\ ready \in Seq(Keys)
    BY <1>4, EmptySeq DEF Init
<1>7. mu \in Keys \cup {NoOne} /\ wg \in Nat /\ main = "ready" /\ i \in Nat \ {0}
    BY DEF Init
<1>8. closed \in BOOLEAN /\ reported \in SUBSET Keys
    BY Zenon DEF Init
<1> QED
    BY <1>2, <1>5, <1>6, <1>7, <1>8 DEF TypeOK

\* Run begins with every edge pending, nothing started and nothing sent.
LEMMA InitIInv == Init => IInv
<1> SUFFICES ASSUME Init PROVE IInv
    OBVIOUS
<1>1. TypeOK
    BY InitTypeOK
<1>2. RemainingInv
    <2>1. ASSUME NEW k \in Keys PROVE PendingInto(k) = Into(dependents, k)
        BY <1>1, IntoOf DEF Init, PendingInto
    <2> QED
        BY <1>1, <2>1, GraphFacts DEF Init, RemainingInv
<1>3. ReadyInv /\ PosInv /\ MainInv /\ WaitHonest
    BY DEF Init, ReadyInv, PosInv, MainInv, WaitHonest, Distinct, KeySet
<1>4. StartedInv
    <2>1. {k \in Keys : pc[k] \notin {"idle", "gone"}} = {}
        BY DEF Init
    <2> QED
        BY <2>1, FS_EmptySet DEF Init, StartedInv
<1>5. LockInv
    <2>1. NoOne \notin Keys
        BY <1>1, NoOneAssumption, NotAKey
    <2> QED
        BY <2>1 DEF Init, LockInv
<1>6. SentInv
    BY DEF Init, SentInv, Delivered, Sent, Distinct, KeySet
<1> QED
    BY <1>1, <1>2, <1>3, <1>4, <1>5, <1>6 DEF IInv

------------------------------------------------------------------------------
(* The steps of a key's goroutine.                                         *)

\* While a goroutine is under way the calling goroutine has collected the
\* ready keys and has not passed wg.Wait.
LEMMA WhileActive ==
    ASSUME IInv, NEW k \in Keys, pc[k] \notin {"idle", "gone"}
    PROVE  main \in {"start", "wait"} /\ ~closed /\ collected = <<>>
BY DEF IInv, TypeOK, ReadyInv, WaitHonest, MainInv

\* Which keys are idle, and have no dependency left, changes only where a
\* goroutine starts or passes an edge.
LEMMA ReadyKept ==
    ASSUME IInv, NEW k \in Keys, NEW s, s # "idle", pc[k] # "idle",
           pc \in [Keys -> Steps], pc' = [pc EXCEPT ![k] = s],
           UNCHANGED <<keys, remaining, main, ready, i>>
    PROVE  ReadyInv'
<1>1. \A l \in Keys : pc'[l] = "idle" <=> pc[l] = "idle"
    OBVIOUS
<1>2. Keys' = Keys /\ ToStart' = ToStart
    BY DEF Keys, ToStart
<1>3. ReadyInv
    BY DEF IInv
<1> QED
    BY <1>1, <1>2, <1>3 DEF ReadyInv, KeySet

\* A key that has been started is waited for by none of the keys it waits
\* on: they have passed it in the loop over their dependents.
LEMMA WaitedFor ==
    ASSUME IInv, NEW k \in Keys, pc[k] # "idle", NEW d \in WaitsOn(dependents, k)
    PROVE  d \in Keys /\ pos[d] > 1 /\ pc[d] \in {"unblock", "exit", "gone"}
<1>1. PendingInto(k) = {}
    BY GraphFacts DEF IInv, RemainingInv
<1>2. PICK s \in Into(dependents, k) : d = s[1]
    BY DEF WaitsOn
<1>3. d \in Keys /\ s[2] \in Nat \ {0}
    BY <1>2, IntoOf DEF IInv
<1>4. pos[d] \in Nat /\ pos[d] > s[2] /\ pos[d] # 1
    <2>1. pos[d] \in Nat
        BY <1>3 DEF IInv, TypeOK
    <2>2. ~(s[2] >= pos[d])
        BY <1>1, <1>2 DEF PendingInto
    <2> QED
        BY <1>3, <2>1, <2>2
<1>5. pc[d] \in {"unblock", "exit", "gone"}
    BY <1>3, <1>4 DEF IInv, TypeOK, PosInv, Steps
<1> QED
    BY <1>3, <1>4, <1>5

\* Nothing is counted, sent or locked while a key is processed.
LEMMA ProcessIInv ==
    ASSUME IInv, NEW k \in Keys, Process(k)
    PROVE  IInv'
<1> USE DEF Process, Goto, graph, Keys
<1>1. TypeOK'
    BY DEF IInv, TypeOK, Steps
<1>2. RemainingInv'
    BY DEF IInv, TypeOK, RemainingInv, PendingInto
<1>3. ReadyInv'
    BY ReadyKept DEF IInv, TypeOK
<1>4. PosInv'
    BY DEF IInv, TypeOK, PosInv
<1>5. StartedInv'
    <2>1. {l \in Keys : pc[l] \notin {"idle", "gone"}}' = {l \in Keys : pc[l] \notin {"idle", "gone"}}
        BY DEF IInv, TypeOK
    <2> QED
        BY <2>1 DEF IInv, TypeOK, StartedInv
<1>6. LockInv'
    BY DEF IInv, TypeOK, LockInv
<1>7. SentInv'
    BY DEF IInv, TypeOK, SentInv, Sent, Delivered
<1>8. MainInv' /\ WaitHonest'
    BY WhileActive DEF IInv, TypeOK, MainInv, WaitHonest
<1> QED
    BY <1>1, <1>2, <1>3, <1>4, <1>5, <1>6, <1>7, <1>8 DEF IInv

\* The report comes before the send, and both before the unblocking.
LEMMA OnDoneIInv ==
    ASSUME IInv, NEW k \in Keys, OnDone(k)
    PROVE  IInv'
<1> USE DEF OnDone, Goto, graph, Keys
<1>1. TypeOK'
    BY DEF IInv, TypeOK, Steps
<1>2. RemainingInv'
    BY DEF IInv, TypeOK, RemainingInv, PendingInto
<1>3. ReadyInv'
    BY ReadyKept DEF IInv, TypeOK
<1>4. PosInv'
    BY DEF IInv, TypeOK, PosInv
<1>5. StartedInv'
    <2>1. {l \in Keys : pc[l] \notin {"idle", "gone"}}' = {l \in Keys : pc[l] \notin {"idle", "gone"}}
        BY DEF IInv, TypeOK
    <2> QED
        BY <2>1 DEF IInv, TypeOK, StartedInv
<1>6. LockInv'
    BY DEF IInv, TypeOK, LockInv
<1>7. SentInv'
    BY DEF IInv, TypeOK, SentInv, Sent, Delivered
<1>8. MainInv' /\ WaitHonest'
    BY WhileActive DEF IInv, TypeOK, MainInv, WaitHonest
<1> QED
    BY <1>1, <1>2, <1>3, <1>4, <1>5, <1>6, <1>7, <1>8 DEF IInv

\* A key is sent once, and after everything it waits on.
LEMMA SendIInv ==
    ASSUME IInv, NEW k \in Keys, Send(k)
    PROVE  IInv'
<1> USE DEF Send, CanSend, Goto, graph, Keys
<1>1. TypeOK'
    BY DEF IInv, TypeOK, Steps
<1>2. RemainingInv'
    BY DEF IInv, TypeOK, RemainingInv, PendingInto
<1>3. ReadyInv'
    BY ReadyKept DEF IInv, TypeOK
<1>4. PosInv'
    BY DEF IInv, TypeOK, PosInv
<1>5. StartedInv'
    <2>1. {l \in Keys : pc[l] \notin {"idle", "gone"}}' = {l \in Keys : pc[l] \notin {"idle", "gone"}}
        BY DEF IInv, TypeOK
    <2> QED
        BY <2>1 DEF IInv, TypeOK, StartedInv
<1>6. LockInv'
    BY DEF IInv, TypeOK, LockInv
<1>7. SentInv'
    <2>1. Sent \in Seq(Keys) /\ Sent' = Append(Sent, k)
        <3>1. collected \in Seq(Keys) /\ results \in Seq(Keys)
            BY DEF IInv, TypeOK
        <3>2. collected \o Append(results, k) = Append(collected \o results, k)
            BY <3>1, MoveLast
        <3> QED
            BY <3>1, <3>2, ConcatProperties DEF Sent
    <2>2. k \notin KeySet(Sent)
        BY DEF IInv, SentInv, Delivered
    <2>3. Distinct(Sent)' /\ Delivered' = Delivered \cup {k}
        BY <2>1, <2>2, AppendKeys, AppendDistinct DEF IInv, SentInv, Delivered
    <2>4. ASSUME NEW m \in DOMAIN Sent', NEW n \in DOMAIN Sent',
                 Sent'[m] \in WaitsOn(dependents, Sent'[n])
          PROVE  m < n
        <3>1. /\ Len(Sent) \in Nat /\ DOMAIN Sent = 1 .. Len(Sent)
              /\ DOMAIN Sent' = 1 .. Len(Sent) + 1 /\ Sent'[Len(Sent) + 1] = k
              /\ \A p \in DOMAIN Sent : Sent'[p] = Sent[p] /\ Sent[p] \in Keys
            BY <2>1
        <3>2. CASE n = Len(Sent) + 1
            <4>1. k \notin WaitsOn(dependents, k)
                BY GraphFacts, NoSelfWait DEF IInv, TypeOK
            <4> QED
                BY <3>1, <3>2, <4>1, <2>4
        <3>3. CASE n \in DOMAIN Sent /\ m \in DOMAIN Sent
            BY <3>1, <3>3, <2>4 DEF IInv, SentInv
        <3>4. CASE n \in DOMAIN Sent /\ m = Len(Sent) + 1
            <4>1. pc[Sent[n]] # "idle" /\ k \in WaitsOn(dependents, Sent[n])
                BY <3>1, <3>4, <2>4 DEF IInv, SentInv, Delivered, KeySet
            <4> QED
                BY <3>1, <3>4, <4>1, WaitedFor DEF IInv, PosInv
        <3> QED
            BY <3>1, <3>2, <3>3, <3>4
    <2>5. reported' = {l \in Keys' : pc'[l] \notin {"idle", "process", "onDone"}}
        BY DEF IInv, TypeOK, SentInv
    <2>6. Delivered' = {l \in Keys' : pc'[l] \in {"lock", "unblock", "exit", "gone"}}
        BY <2>3 DEF IInv, TypeOK, SentInv
    <2> QED
        BY <2>3, <2>4, <2>5, <2>6 DEF SentInv
<1>8. MainInv' /\ WaitHonest'
    BY WhileActive DEF IInv, TypeOK, MainInv, WaitHonest
<1> QED
    BY <1>1, <1>2, <1>3, <1>4, <1>5, <1>6, <1>7, <1>8 DEF IInv

\* Only the holder of the mutex unblocks.
LEMMA LockIInv ==
    ASSUME IInv, NEW k \in Keys, Lock(k)
    PROVE  IInv'
<1> USE DEF Lock, Goto, graph, Keys
<1>1. TypeOK'
    BY DEF IInv, TypeOK, Steps
<1>2. RemainingInv'
    BY DEF IInv, TypeOK, RemainingInv, PendingInto
<1>3. ReadyInv'
    BY ReadyKept DEF IInv, TypeOK
<1>4. PosInv'
    BY DEF IInv, TypeOK, PosInv
<1>5. StartedInv'
    <2>1. {l \in Keys : pc[l] \notin {"idle", "gone"}}' = {l \in Keys : pc[l] \notin {"idle", "gone"}}
        BY DEF IInv, TypeOK
    <2> QED
        BY <2>1 DEF IInv, TypeOK, StartedInv
<1>6. LockInv'
    BY NotAKey DEF IInv, TypeOK, LockInv
<1>7. SentInv'
    BY DEF IInv, TypeOK, SentInv, Sent, Delivered
<1>8. MainInv' /\ WaitHonest'
    BY WhileActive DEF IInv, TypeOK, MainInv, WaitHonest
<1> QED
    BY <1>1, <1>2, <1>3, <1>4, <1>5, <1>6, <1>7, <1>8 DEF IInv

\* The mutex is released when every dependent has been passed.
LEMMA UnlockIInv ==
    ASSUME IInv, NEW k \in Keys, Unlock(k)
    PROVE  IInv'
<1> USE DEF Unlock, Goto, graph, Keys
<1>1. TypeOK'
    BY DEF IInv, TypeOK, Steps
<1>2. RemainingInv'
    BY DEF IInv, TypeOK, RemainingInv, PendingInto
<1>3. ReadyInv'
    BY ReadyKept DEF IInv, TypeOK
<1>4. PosInv'
    BY DEF IInv, TypeOK, PosInv
<1>5. StartedInv'
    <2>1. {l \in Keys : pc[l] \notin {"idle", "gone"}}' = {l \in Keys : pc[l] \notin {"idle", "gone"}}
        BY DEF IInv, TypeOK
    <2> QED
        BY <2>1 DEF IInv, TypeOK, StartedInv
<1>6. LockInv'
    BY NotAKey DEF IInv, TypeOK, LockInv
<1>7. SentInv'
    BY DEF IInv, TypeOK, SentInv, Sent, Delivered
<1>8. MainInv' /\ WaitHonest'
    BY WhileActive DEF IInv, TypeOK, MainInv, WaitHonest
<1> QED
    BY <1>1, <1>2, <1>3, <1>4, <1>5, <1>6, <1>7, <1>8 DEF IInv

\* The group counts one goroutine less.
LEMMA ExitIInv ==
    ASSUME IInv, NEW k \in Keys, Exit(k)
    PROVE  IInv'
<1> USE DEF Exit, Goto, graph, Keys
<1>1. TypeOK'
    <2>1. wg' \in Nat
        <3> DEFINE Active == {l \in Keys : pc[l] \notin {"idle", "gone"}}
        <3>1. IsFiniteSet(Active) /\ k \in Active
            BY GraphFacts, FS_Subset DEF IInv
        <3>2. Cardinality(Active) \in Nat /\ Cardinality(Active) # 0
            BY <3>1, FS_CardinalityType, FS_EmptySet
        <3> QED
            BY <3>2 DEF IInv, StartedInv
    <2> QED
        BY <2>1 DEF IInv, TypeOK, Steps
<1>2. RemainingInv'
    BY DEF IInv, TypeOK, RemainingInv, PendingInto
<1>3. ReadyInv'
    BY ReadyKept DEF IInv, TypeOK
<1>4. PosInv'
    BY DEF IInv, TypeOK, PosInv
<1>5. StartedInv'
    <2> DEFINE Active == {l \in Keys : pc[l] \notin {"idle", "gone"}}
    <2>1. Active' = Active \ {k} /\ k \in Active
        BY DEF IInv, TypeOK
    <2>2. IsFiniteSet(Active)
        BY GraphFacts, FS_Subset DEF IInv
    <2>3. wg' = Cardinality(Active')
        BY <2>1, <2>2, FS_RemoveElement DEF IInv, StartedInv
    <2> QED
        BY <2>3 DEF IInv, TypeOK, StartedInv
<1>6. LockInv'
    BY DEF IInv, TypeOK, LockInv
<1>7. SentInv'
    BY DEF IInv, TypeOK, SentInv, Sent, Delivered
<1>8. MainInv' /\ WaitHonest'
    BY WhileActive DEF IInv, TypeOK, MainInv, WaitHonest
<1> QED
    BY <1>1, <1>2, <1>3, <1>4, <1>5, <1>6, <1>7, <1>8 DEF IInv

\* One edge passed: it leaves the pending edges of the key it leads to, which
\* is idle, and no others.
LEMMA Pass ==
    ASSUME IInv, NEW k \in Keys, Unblock(k)
    PROVE  LET d == dependents[k][pos[k]]
           IN /\ d \in Keys /\ d # k /\ pc[d] = "idle" /\ remaining[d] > 0
              /\ remaining' = [remaining EXCEPT ![d] = @ - 1]
              /\ \A x \in Keys : remaining'[x] = Cardinality(PendingInto(x)')
<1> DEFINE d == dependents[k][pos[k]]
           s == <<k, pos[k]>>
<1>1. pos[k] \in 1 .. Len(dependents[k]) /\ dependents[k] \in Seq(Keys)
    BY GraphFacts DEF IInv, TypeOK, Unblock
<1>2. d \in Keys
    BY <1>1
<1>3. s \in Into(dependents, d)
    BY <1>1, IntoOf DEF IInv
<1>4. s \in PendingInto(d)
    <2>1. s[1] = k /\ s[2] = pos[k] /\ pos[k] \in Nat
        BY DEF IInv, TypeOK
    <2> QED
        BY <1>3, <2>1 DEF PendingInto
<1>5. remaining[d] = Cardinality(PendingInto(d)) /\ remaining[d] > 0 /\ pc[d] = "idle"
    BY <1>2, <1>4, GraphFacts DEF IInv, RemainingInv
<1>6. d # k
    BY <1>5 DEF Unblock
<1>7. /\ pos' = [pos EXCEPT ![k] = @ + 1] /\ dependents' = dependents
      /\ remaining' = [remaining EXCEPT ![d] = @ - 1]
    BY DEF Unblock, graph
<1>8. ASSUME NEW x PROVE PendingInto(x)' = PendingInto(x) \ {s}
    <2>1. ASSUME NEW t \in Into(dependents, x)
          PROVE  t[2] >= pos'[t[1]] <=> t[2] >= pos[t[1]] /\ t # s
        <3>1. PICK e \in Keys : \E q \in 1 .. Len(dependents[e]) : t = <<e, q>>
            BY IntoOf DEF IInv
        <3>2. PICK q \in 1 .. Len(dependents[e]) : t = <<e, q>>
            BY <3>1
        <3>3. q \in Nat /\ pos[e] \in Nat /\ pos[k] \in Nat
            BY <3>1, <3>2, GraphFacts DEF IInv, TypeOK
        <3>4. CASE e = k
            BY <1>7, <3>2, <3>3, <3>4 DEF IInv, TypeOK
        <3>5. CASE e # k
            BY <1>7, <3>2, <3>5 DEF IInv, TypeOK
        <3> QED
            BY <3>4, <3>5
    <2> QED
        BY <1>7, <2>1 DEF PendingInto
<1>9. ASSUME NEW x \in Keys PROVE remaining'[x] = Cardinality(PendingInto(x)')
    <2>1. CASE x = d
        <3>1. Cardinality(PendingInto(d) \ {s}) = Cardinality(PendingInto(d)) - 1
            BY <1>4, GraphFacts, FS_RemoveElement DEF IInv
        <3> QED
            BY <1>2, <1>5, <1>7, <1>8, <2>1, <3>1 DEF IInv, TypeOK
    <2>2. CASE x # d
        <3>1. s \notin PendingInto(x)
            BY <2>2 DEF PendingInto, Into
        <3>2. PendingInto(x)' = PendingInto(x)
            BY <1>8, <3>1
        <3> QED
            BY <1>7, <2>2, <3>2 DEF IInv, TypeOK, RemainingInv
    <2> QED
        BY <2>1, <2>2
<1> QED
    BY <1>2, <1>5, <1>6, <1>7, <1>9

\* An edge passed keeps the counts exact, and starts the dependent with its
\* last one: no earlier, and never a second time.
LEMMA UnblockIInv ==
    ASSUME IInv, NEW k \in Keys, Unblock(k)
    PROVE  IInv'
<1> DEFINE d == dependents[k][pos[k]]
<1>1. /\ d \in Keys /\ d # k /\ pc[d] = "idle" /\ remaining[d] > 0
      /\ remaining' = [remaining EXCEPT ![d] = @ - 1]
      /\ \A x \in Keys : remaining'[x] = Cardinality(PendingInto(x)')
    BY Pass
<1>2. /\ pc[k] = "unblock" /\ pos[k] <= Len(dependents[k])
      /\ pos' = [pos EXCEPT ![k] = @ + 1]
      /\ UNCHANGED <<keys, dependents, inDegree, mu, reported, results, closed,
                     collected, main, ready, i>>
    BY DEF Unblock, graph
<1> HIDE DEF d
<1>0. /\ remaining \in [Keys -> Nat] /\ wg \in Nat /\ started \in [Keys -> Nat]
      /\ pc \in [Keys -> Steps] /\ pos \in [Keys -> Nat \ {0}]
    BY DEF IInv, TypeOK
<1>3. CASE remaining'[d] = 0
    <2>1. /\ wg' = wg + 1 /\ started' = [started EXCEPT ![d] = @ + 1]
          /\ pc' = [pc EXCEPT ![d] = "process"]
        BY <1>3 DEF Unblock, Start, d
    <2> USE DEF Keys
    <2>2. TypeOK'
        <3>1. remaining' \in [Keys -> Nat]
            BY <1>1, <1>0
        <3>2. wg' \in Nat /\ started' \in [Keys -> Nat]
            BY <1>1, <2>1, <1>0
        <3>3. pc' \in [Keys -> Steps] /\ pos' \in [Keys -> Nat \ {0}]
            BY <1>1, <1>2, <2>1, <1>0 DEF Steps
        <3> QED
            BY <1>2, <3>1, <3>2, <3>3 DEF IInv, TypeOK
    <2>3. RemainingInv'
        BY <1>1, <1>2, <1>3, <2>1 DEF IInv, TypeOK, RemainingInv
    <2>4. ReadyInv'
        <3>1. main' = main /\ main \in {"start", "wait"}
            BY <1>2, WhileActive
        <3>2. ASSUME NEW l \in Keys
              PROVE  (pc'[l] = "idle" /\ remaining'[l] = 0) <=> (pc[l] = "idle" /\ remaining[l] = 0)
            BY <1>1, <1>3, <2>1 DEF IInv, TypeOK
        <3>3. ASSUME NEW l \in Keys, pc'[l] = "idle", remaining'[l] = 0
              PROVE  pc[l] = "idle" /\ remaining[l] = 0
            BY <3>2, <3>3
        <3>4. ToStart' = ToStart /\ Distinct(ready)'
            BY <1>2 DEF ToStart, IInv, ReadyInv
        <3> QED
            BY <1>2, <3>1, <3>2, <3>3, <3>4 DEF IInv, ReadyInv
    <2>5. PosInv'
        <3> SUFFICES ASSUME NEW l \in Keys
                     PROVE  /\ pc'[l] \in {"idle", "process", "onDone", "send", "lock"} => pos'[l] = 1
                            /\ pc'[l] \in {"exit", "gone"} => pos'[l] > Len(dependents[l])
            BY <1>2 DEF PosInv
        <3>1. CASE l = d
            BY <1>1, <1>2, <1>0, <2>1, <3>1 DEF IInv, PosInv
        <3>2. CASE l = k
            BY <1>1, <1>2, <1>0, <2>1, <3>2
        <3>3. CASE l # d /\ l # k
            BY <1>1, <1>2, <1>0, <2>1, <3>3 DEF IInv, PosInv
        <3> QED
            BY <3>1, <3>2, <3>3
    <2>6. StartedInv'
        <3> DEFINE Active == {l \in Keys : pc[l] \notin {"idle", "gone"}}
        <3>1. Active' = Active \cup {d} /\ d \notin Active
            BY <1>1, <1>2, <2>1 DEF IInv, TypeOK
        <3>2. IsFiniteSet(Active)
            BY GraphFacts, FS_Subset DEF IInv
        <3>3. Cardinality(Active \cup {d}) = Cardinality(Active) + 1
            BY <3>1, <3>2, FS_AddElement
        <3>4. wg = Cardinality(Active)
            BY DEF IInv, StartedInv
        <3>5. wg' = Cardinality(Active')
            BY <2>1, <3>1, <3>3, <3>4
        <3>6. \A l \in Keys : started'[l] = IF pc'[l] = "idle" THEN 0 ELSE 1
            BY <1>1, <2>1, <1>0 DEF IInv, StartedInv
        <3> QED
            BY <1>2, <3>5, <3>6 DEF StartedInv
    <2>7. LockInv'
        BY <1>1, <1>2, <2>1 DEF IInv, TypeOK, LockInv
    <2>8. SentInv'
        <3>1. /\ {l \in Keys : pc[l] \notin {"idle", "process", "onDone"}}'
                    = {l \in Keys : pc[l] \notin {"idle", "process", "onDone"}}
              /\ {l \in Keys : pc[l] \in {"lock", "unblock", "exit", "gone"}}'
                    = {l \in Keys : pc[l] \in {"lock", "unblock", "exit", "gone"}}
            BY <1>1, <1>2, <2>1 DEF IInv, TypeOK
        <3>2. Sent' = Sent /\ Delivered' = Delivered
            BY <1>2 DEF Sent, Delivered
        <3> QED
            BY <1>2, <3>1, <3>2 DEF IInv, SentInv
    <2>9. MainInv' /\ WaitHonest'
        BY <1>1, <1>2, <2>1, WhileActive DEF IInv, TypeOK, MainInv, WaitHonest
    <2> QED
        BY <2>2, <2>3, <2>4, <2>5, <2>6, <2>7, <2>8, <2>9 DEF IInv
<1>4. CASE remaining'[d] # 0
    <2>1. UNCHANGED <<wg, started, pc>>
        BY <1>4 DEF Unblock, d
    <2> USE DEF Keys
    <2>2. TypeOK'
        <3>1. remaining' \in [Keys -> Nat] /\ pos' \in [Keys -> Nat \ {0}]
            BY <1>1, <1>2, <1>0
        <3> QED
            BY <1>2, <2>1, <3>1 DEF IInv, TypeOK
    <2>3. RemainingInv'
        BY <1>1, <1>2, <2>1 DEF IInv, TypeOK, RemainingInv
    <2>4. ReadyInv'
        <3>1. main' = main /\ main \in {"start", "wait"}
            BY <1>2, WhileActive
        <3>2. ASSUME NEW l \in Keys
              PROVE  (pc'[l] = "idle" /\ remaining'[l] = 0) <=> (pc[l] = "idle" /\ remaining[l] = 0)
            BY <1>1, <1>4, <2>1 DEF IInv, TypeOK
        <3>3. ASSUME NEW l \in Keys, pc'[l] = "idle", remaining'[l] = 0
              PROVE  pc[l] = "idle" /\ remaining[l] = 0
            BY <3>2, <3>3
        <3>4. ToStart' = ToStart /\ Distinct(ready)'
            BY <1>2 DEF ToStart, IInv, ReadyInv
        <3> QED
            BY <1>2, <3>1, <3>2, <3>3, <3>4 DEF IInv, ReadyInv
    <2>5. PosInv'
        BY <1>1, <1>2, <2>1 DEF IInv, TypeOK, PosInv
    <2>6. StartedInv' /\ LockInv'
        BY <1>2, <2>1 DEF IInv, StartedInv, LockInv
    <2>7. SentInv'
        BY <1>2, <2>1 DEF IInv, SentInv, Sent, Delivered
    <2>8. MainInv' /\ WaitHonest'
        BY <1>2, <2>1 DEF IInv, MainInv, WaitHonest
    <2> QED
        BY <2>2, <2>3, <2>4, <2>5, <2>6, <2>7, <2>8 DEF IInv
<1> QED
    BY <1>3, <1>4

------------------------------------------------------------------------------
(* The steps of the calling goroutine.                                     *)

\* The parts of the invariant that do not speak of the calling goroutine.
Steady == RemainingInv /\ PosInv /\ StartedInv /\ LockInv

\* The calling goroutine touches none of these parts in most of its steps.
LEMMA SteadyFrame ==
    ASSUME IInv, UNCHANGED <<keys, dependents, inDegree, remaining, pos, pc,
                             started, wg, mu>>
    PROVE  Steady'
BY DEF IInv, Steady, RemainingInv, PosInv, StartedInv, LockInv, Keys, PendingInto

\* Nor what has been sent.
LEMMA SentFrame ==
    ASSUME IInv, UNCHANGED <<keys, dependents, inDegree, pc, reported, results, collected>>
    PROVE  SentInv'
BY DEF IInv, SentInv, Sent, Delivered, Keys

\* The ready keys are the keys of the prefix with nothing to wait on.
LEMMA CollectReadyIInv ==
    ASSUME IInv, CollectReady
    PROVE  IInv'
<1> USE DEF CollectReady, graph, Keys
<1>1. keys[i] \in Keys /\ i \in 1 .. Len(keys) /\ Len(keys) \in Nat
    BY DEF IInv, TypeOK, KeySet
<1>2. TypeOK'
    <2>1. ready \in Seq(Keys)
        BY DEF IInv, TypeOK
    <2>2. ready' \in Seq(Keys)
        <3>1. Append(ready, keys[i]) \in Seq(Keys)
            BY <1>1, <2>1
        <3>2. ready' = Append(ready, keys[i]) \/ ready' = ready
            OBVIOUS
        <3> QED
            BY <2>1, <3>1, <3>2
    <2>3. i' \in Nat \ {0}
        BY <1>1
    <2> HIDE DEF Keys
    <2>4. UNCHANGED <<keys, dependents, inDegree, remaining, mu, wg, reported, results,
                      closed, collected, main, pc, pos, started>>
        OBVIOUS
    <2>5. Keys' = Keys
        BY <2>4 DEF Keys
    <2> QED
        BY <2>2, <2>3, <2>4, <2>5 DEF IInv, TypeOK
<1>3. ReadyInv'
    <2>1. ready \in Seq(Keys) /\ Distinct(ready)
          /\ KeySet(ready) = {keys[n] : n \in {m \in 1 .. Len(keys) : m < i /\ remaining[keys[m]] = 0}}
        BY DEF IInv, TypeOK, ReadyInv
    <2>2. keys[i] \notin KeySet(ready)
        <3>1. Distinct(keys) /\ DOMAIN keys = 1 .. Len(keys)
            BY GraphFacts DEF IInv, TypeOK
        <3> QED
            BY <1>1, <2>1, <3>1 DEF Distinct
    <2>3. i' = i + 1 /\ keys' = keys /\ remaining' = remaining /\ i \in Nat
        BY DEF IInv, TypeOK
    <2>4. CASE remaining[keys[i]] = 0
        <3>1. ready' = Append(ready, keys[i])
            BY <2>4
        <3>2. KeySet(ready') = KeySet(ready) \cup {keys[i]} /\ Distinct(ready')
            BY <1>1, <2>1, <2>2, <3>1, AppendKeys, AppendDistinct
        <3>3. {m \in 1 .. Len(keys) : m < i + 1 /\ remaining[keys[m]] = 0}
                = {m \in 1 .. Len(keys) : m < i /\ remaining[keys[m]] = 0} \cup {i}
            BY <1>1, <2>3, <2>4
        <3>4. KeySet(ready') =
                {keys[n] : n \in {m \in 1 .. Len(keys) : m < i + 1 /\ remaining[keys[m]] = 0}}
            BY <2>1, <3>2, <3>3
        <3> QED
            BY <2>3, <3>2, <3>4 DEF IInv, ReadyInv
    <2>5. CASE remaining[keys[i]] # 0
        <3>1. ready' = ready
            BY <2>5
        <3>2. {m \in 1 .. Len(keys) : m < i + 1 /\ remaining[keys[m]] = 0}
                = {m \in 1 .. Len(keys) : m < i /\ remaining[keys[m]] = 0}
            BY <1>1, <2>3, <2>5
        <3> QED
            BY <2>1, <2>3, <3>1, <3>2 DEF IInv, ReadyInv
    <2> QED
        BY <2>4, <2>5
<1>4. Steady' /\ SentInv'
    BY SteadyFrame, SentFrame
<1>5. MainInv' /\ WaitHonest'
    BY DEF IInv, MainInv, WaitHonest
<1> QED
    BY <1>2, <1>3, <1>4, <1>5 DEF IInv, Steady

\* When the loop over keys ends they are all the keys with nothing to wait on.
LEMMA EndCollectReadyIInv ==
    ASSUME IInv, EndCollectReady
    PROVE  IInv'
<1> USE DEF EndCollectReady, graph, Keys
<1>1. TypeOK'
    BY DEF IInv, TypeOK
<1>2. ReadyInv'
    <2>1. /\ ready \in Seq(Keys) /\ Distinct(ready) /\ i \in Nat /\ i > Len(keys)
          /\ \A k \in Keys : pc[k] = "idle"
          /\ KeySet(ready) = {keys[n] : n \in {m \in 1 .. Len(keys) : m < i /\ remaining[keys[m]] = 0}}
        BY DEF IInv, TypeOK, ReadyInv
    <2>2. ToStart' = KeySet(ready)
        BY <2>1 DEF ToStart, KeySet
    <2>3. ASSUME NEW k \in Keys PROVE k \in KeySet(ready) <=> remaining[k] = 0
        <3>1. PICK n \in 1 .. Len(keys) : k = keys[n]
            BY DEF IInv, TypeOK, KeySet
        <3>2. n < i
            BY <2>1, <3>1 DEF IInv, TypeOK
        <3> QED
            BY <2>1, <3>1, <3>2
    <2> QED
        BY <2>1, <2>2, <2>3 DEF ReadyInv
<1>3. Steady' /\ SentInv'
    BY SteadyFrame, SentFrame
<1>4. MainInv' /\ WaitHonest'
    BY DEF IInv, MainInv, WaitHonest
<1> QED
    BY <1>1, <1>2, <1>3, <1>4 DEF IInv, Steady

\* A ready key is started by the calling goroutine only.
LEMMA StartReadyIInv ==
    ASSUME IInv, StartReady
    PROVE  IInv'
<1> DEFINE k == ready[i]
<1>1. /\ i \in 1 .. Len(ready) /\ Len(ready) \in Nat /\ ready \in Seq(Keys)
      /\ Distinct(ready)
    BY DEF IInv, TypeOK, StartReady, ReadyInv
<1>2. k \in Keys /\ k \in ToStart
    BY <1>1 DEF ToStart
<1>3. pc[k] = "idle" /\ remaining[k] = 0
    BY <1>2 DEF IInv, ReadyInv, StartReady
<1>4. /\ main = "start" /\ i' = i + 1
      /\ wg' = wg + 1 /\ started' = [started EXCEPT ![k] = @ + 1]
      /\ pc' = [pc EXCEPT ![k] = "process"]
      /\ UNCHANGED <<keys, dependents, inDegree, remaining, mu, reported, results,
                     closed, collected, main, ready, pos>>
    BY DEF StartReady, Start, graph
<1>5. ToStart' = ToStart \ {k}
    <2>1. \A m, n \in 1 .. Len(ready) : ready[m] = ready[n] => m = n
        BY <1>1 DEF Distinct
    <2> QED
        BY <1>1, <1>4, <2>1 DEF ToStart
<1> HIDE DEF k
<1> USE DEF Keys
<1>0. /\ remaining \in [Keys -> Nat] /\ wg \in Nat /\ started \in [Keys -> Nat]
      /\ pc \in [Keys -> Steps] /\ pos \in [Keys -> Nat \ {0}]
    BY DEF IInv, TypeOK
<1>6. TypeOK'
    <2>1. wg' \in Nat /\ started' \in [Keys -> Nat] /\ i' \in Nat \ {0}
        BY <1>0, <1>1, <1>2, <1>4
    <2>2. pc' \in [Keys -> Steps]
        BY <1>0, <1>2, <1>4 DEF Steps
    <2> QED
        BY <1>4, <2>1, <2>2 DEF IInv, TypeOK
<1>7. RemainingInv'
    BY <1>0, <1>2, <1>3, <1>4 DEF IInv, RemainingInv, PendingInto
<1>8. ReadyInv'
    BY <1>0, <1>2, <1>3, <1>4, <1>5 DEF IInv, ReadyInv
<1>9. PosInv' /\ LockInv'
    BY <1>0, <1>2, <1>3, <1>4 DEF IInv, PosInv, LockInv
<1>10. StartedInv'
    <2> DEFINE Active == {l \in Keys : pc[l] \notin {"idle", "gone"}}
    <2>1. Active' = Active \cup {k} /\ k \notin Active
        BY <1>0, <1>2, <1>3, <1>4
    <2>2. IsFiniteSet(Active)
        BY GraphFacts, FS_Subset DEF IInv
    <2>3. Cardinality(Active \cup {k}) = Cardinality(Active) + 1
        BY <2>1, <2>2, FS_AddElement
    <2>4. wg = Cardinality(Active)
        BY DEF IInv, StartedInv
    <2>5. wg' = Cardinality(Active')
        BY <1>4, <2>1, <2>3, <2>4
    <2>6. \A l \in Keys : started'[l] = IF pc'[l] = "idle" THEN 0 ELSE 1
        BY <1>0, <1>2, <1>3, <1>4 DEF IInv, StartedInv
    <2> QED
        BY <1>4, <2>5, <2>6 DEF StartedInv
<1>11. SentInv'
    <2>1. /\ {l \in Keys : pc[l] \notin {"idle", "process", "onDone"}}'
                = {l \in Keys : pc[l] \notin {"idle", "process", "onDone"}}
          /\ {l \in Keys : pc[l] \in {"lock", "unblock", "exit", "gone"}}'
                = {l \in Keys : pc[l] \in {"lock", "unblock", "exit", "gone"}}
        BY <1>0, <1>2, <1>3, <1>4
    <2>2. Sent' = Sent /\ Delivered' = Delivered
        BY <1>4 DEF Sent, Delivered
    <2> QED
        BY <1>4, <2>1, <2>2 DEF IInv, SentInv
<1>12. MainInv' /\ WaitHonest'
    BY <1>4 DEF IInv, MainInv, WaitHonest
<1> QED
    BY <1>6, <1>7, <1>8, <1>9, <1>10, <1>11, <1>12 DEF IInv

\* No key without a pending edge is left idle.
LEMMA EndStartReadyIInv ==
    ASSUME IInv, EndStartReady
    PROVE  IInv'
<1> USE DEF EndStartReady, graph, Keys
<1>1. TypeOK'
    BY DEF IInv, TypeOK
<1>2. ReadyInv'
    <2>1. ToStart = {}
        BY DEF IInv, TypeOK, ToStart
    <2> QED
        BY <2>1 DEF IInv, ReadyInv
<1>3. Steady' /\ SentInv'
    BY SteadyFrame, SentFrame
<1>4. MainInv' /\ WaitHonest'
    BY DEF IInv, MainInv, WaitHonest
<1> QED
    BY <1>1, <1>2, <1>3, <1>4 DEF IInv, Steady

\* The heart of "what keeps wg.Wait honest": when the counter is zero, no key
\* is left idle, for in an acyclic graph one of the idle keys would wait only
\* on keys that are gone, and would have been started by the last of them.
LEMMA NoneLeft ==
    ASSUME IInv, main = "wait", wg = 0
    PROVE  \A k \in Keys : pc[k] = "gone"
<1> DEFINE Active == {l \in Keys : pc[l] \notin {"idle", "gone"}}
           Idle == {l \in Keys : pc[l] = "idle"}
<1>1. Active = {}
    <2>1. IsFiniteSet(Active)
        BY GraphFacts, FS_Subset DEF IInv
    <2> QED
        BY <2>1, FS_EmptySet DEF IInv, StartedInv
<1>2. ASSUME Idle # {} PROVE FALSE
    <2>1. Idle \in SUBSET DOMAIN dependents
        BY GraphFacts DEF IInv
    <2>2. PICK x \in Idle : WaitsOn(dependents, x) \cap Idle = {}
        BY <1>2, <2>1 DEF IInv, TypeOK, Acyclic
    <2>3. PendingInto(x) # {}
        BY <2>2, GraphFacts DEF IInv, ReadyInv, RemainingInv
    <2>4. PICK s \in PendingInto(x) : TRUE
        BY <2>3
    <2>5. s[1] \in WaitsOn(dependents, x)
        BY <2>4 DEF PendingInto, WaitsOn
    <2>6. s[1] \in Keys /\ s[2] \in 1 .. Len(dependents[s[1]]) /\ s[2] >= pos[s[1]]
        BY <2>4, IntoOf DEF PendingInto, IInv
    <2>7. pc[s[1]] = "gone"
        BY <1>1, <2>2, <2>5, <2>6
    <2>8. pos[s[1]] > Len(dependents[s[1]])
        BY <2>6, <2>7 DEF IInv, PosInv
    <2>9. Len(dependents[s[1]]) \in Nat /\ pos[s[1]] \in Nat
        BY <2>6, GraphFacts DEF IInv, TypeOK
    <2> QED
        BY <2>6, <2>8, <2>9
<1> QED
    BY <1>1, <1>2

\* Wait returns when every key's goroutine has ended.
LEMMA WaitIInv ==
    ASSUME IInv, Wait
    PROVE  IInv'
<1> USE DEF Wait, graph, Keys
<1>1. TypeOK'
    BY DEF IInv, TypeOK
<1>2. ReadyInv'
    BY DEF IInv, ReadyInv
<1>3. Steady' /\ SentInv'
    BY SteadyFrame, SentFrame
<1>4. MainInv'
    BY DEF IInv, MainInv
<1>5. WaitHonest'
    BY NoneLeft DEF WaitHonest
<1> QED
    BY <1>1, <1>2, <1>3, <1>4, <1>5 DEF IInv, Steady

\* Collecting moves a result and loses none.
LEMMA CollectIInv ==
    ASSUME IInv, Collect
    PROVE  IInv'
<1> USE DEF Collect, graph, Keys
<1>1. collected \in Seq(Keys) /\ results \in Seq(Keys) /\ results # <<>>
    BY DEF IInv, TypeOK
<1>2. TypeOK'
    BY <1>1, HeadTailProperties DEF IInv, TypeOK
<1>3. ReadyInv'
    BY DEF IInv, ReadyInv
<1>4. Steady'
    BY SteadyFrame
<1>5. Sent' = Sent
    BY <1>1, MoveHead DEF Sent
<1>6. SentInv'
    BY <1>5 DEF IInv, SentInv, Delivered
<1>7. MainInv' /\ WaitHonest'
    BY DEF IInv, MainInv, WaitHonest
<1> QED
    BY <1>2, <1>3, <1>4, <1>6, <1>7 DEF IInv, Steady

\* Run returns with the channel empty.
LEMMA ReturnIInv ==
    ASSUME IInv, Return
    PROVE  IInv'
<1> USE DEF Return, graph, Keys
<1>1. TypeOK'
    BY DEF IInv, TypeOK
<1>2. ReadyInv'
    BY DEF IInv, ReadyInv
<1>3. Steady' /\ SentInv'
    BY SteadyFrame, SentFrame
<1>4. MainInv' /\ WaitHonest'
    BY DEF IInv, MainInv, WaitHonest
<1> QED
    BY <1>1, <1>2, <1>3, <1>4 DEF IInv, Steady

\* Steps that change nothing.
LEMMA StutterIInv ==
    ASSUME IInv, UNCHANGED vars
    PROVE  IInv'
<1> USE DEF vars, graph, Keys
<1>1. TypeOK'
    BY DEF IInv, TypeOK
<1>2. ReadyInv'
    BY DEF IInv, ReadyInv, ToStart
<1>3. Steady' /\ SentInv'
    BY SteadyFrame, SentFrame
<1>4. MainInv' /\ WaitHonest'
    BY DEF IInv, MainInv, WaitHonest
<1> QED
    BY <1>1, <1>2, <1>3, <1>4 DEF IInv, Steady

(* The invariant, and what follows from it.                                *)

\* Every step of Run keeps the invariant.
LEMMA NextIInv == IInv /\ [Next]_vars => IInv'
<1> SUFFICES ASSUME IInv, [Next]_vars PROVE IInv'
    OBVIOUS
<1>1. CASE Main
    BY <1>1, CollectReadyIInv, EndCollectReadyIInv, StartReadyIInv, EndStartReadyIInv,
       WaitIInv, CollectIInv, ReturnIInv DEF Main
<1>2. ASSUME NEW k \in Keys, Worker(k) PROVE IInv'
    BY <1>2, ProcessIInv, OnDoneIInv, SendIInv, LockIInv, UnblockIInv, UnlockIInv,
       ExitIInv DEF Worker
<1>3. CASE UNCHANGED vars
    BY <1>3, StutterIInv
<1> QED
    BY <1>1, <1>2, <1>3 DEF Next, Done

\* The invariant holds in every state of every run.
THEOREM Invariance == Spec => []IInv
<1>1. Init => IInv
    BY InitIInv
<1>2. IInv /\ [Next]_vars => IInv'
    BY NextIInv
<1> QED
    BY <1>1, <1>2, PTL DEF Spec

\* Every variable keeps its type; in particular neither the counters of
\* remaining nor the WaitGroup's counter go below zero.
THEOREM TypeCorrect == Spec => []TypeOK
<1>1. IInv => TypeOK
    BY DEF IInv
<1> QED
    BY <1>1, Invariance, PTL

\* A key that has been started waits only on keys that have been processed,
\* reported and sent.
LEMMA StartedAfter == IInv => DependencyOrder
<1> SUFFICES ASSUME IInv, NEW k \in Keys, started[k] > 0, NEW d \in WaitsOn(dependents, k)
             PROVE  d \in reported \cap Delivered
    BY DEF DependencyOrder
<1>1. pc[k] # "idle"
    BY DEF IInv, StartedInv
<1>2. d \in Keys /\ pc[d] \in {"unblock", "exit", "gone"}
    BY <1>1, WaitedFor
<1> QED
    BY <1>2 DEF IInv, SentInv

\* In every run of every graph, start(key) is called only when every key it
\* waits on has been processed, reported to onDone and sent.
THEOREM OrderKept == Spec => []DependencyOrder
<1> QED
    BY StartedAfter, Invariance, PTL

\* In every run, process is called at most once for every key.
THEOREM StartedAtMostOnce == Spec => []StartedOnce
<1>1. IInv => StartedOnce
    BY DEF IInv, StartedInv, StartedOnce
<1> QED
    BY <1>1, Invariance, PTL

\* remaining is never accessed by two goroutines at once.
THEOREM NoRace == Spec => []RaceFree
<1>1. IInv => RaceFree
    <2> SUFFICES ASSUME IInv PROVE RaceFree
        OBVIOUS
    <2>1. main = "ready" => Unblocking = {}
        BY DEF IInv, ReadyInv, Unblocking
    <2>2. \A k, l \in Unblocking : k = l
        BY DEF IInv, LockInv, Unblocking
    <2> QED
        BY <2>1, <2>2 DEF RaceFree
<1> QED
    BY <1>1, Invariance, PTL

\* A channel with room for every key never makes a goroutine wait, whatever
\* the number of keys.
THEOREM NeverBlocks == Spec => []SendNeverBlocks
<1>1. IInv => SendNeverBlocks
    <2> SUFFICES ASSUME IInv, NEW k \in Keys, pc[k] = "send" PROVE CanSend /\ ~closed
        BY DEF SendNeverBlocks
    <2>1. ~closed /\ collected = <<>>
        BY WhileActive
    <2>2. results \in Seq(Keys) /\ Sent = results
        BY <2>1, ConcatEmptySeq DEF IInv, TypeOK, Sent
    <2>3. Distinct(results) /\ KeySet(results) \subseteq Keys /\ k \notin KeySet(results)
        BY <2>2 DEF IInv, SentInv, Delivered
    <2>4. IsFiniteSet(Keys) /\ IsFiniteSet(KeySet(results)) /\ Distinct(keys)
        BY <2>3, GraphFacts, FS_Subset DEF IInv
    <2>5. Cardinality(KeySet(results)) < Cardinality(Keys)
        <3>1. Cardinality(KeySet(results)) <= Cardinality(Keys)
            BY <2>3, <2>4, FS_Subset
        <3>2. Cardinality(KeySet(results)) # Cardinality(Keys)
            BY <2>3, <2>4, FS_Subset
        <3>3. Cardinality(KeySet(results)) \in Nat /\ Cardinality(Keys) \in Nat
            BY <2>4, FS_CardinalityType
        <3> QED
            BY <3>1, <3>2, <3>3
    <2>6. Cardinality(KeySet(results)) = Len(results)
        BY <2>2, <2>3, DistinctLength
    <2>7. Cardinality(Keys) = Len(keys)
        BY <2>4, DistinctLength DEF IInv, TypeOK, Keys
    <2> QED
        BY <2>1, <2>5, <2>6, <2>7 DEF CanSend
<1> QED
    BY <1>1, Invariance, PTL

\* wg.Wait returns only when every key has been processed.
THEOREM HonestWait == Spec => []WaitHonest
<1>1. IInv => WaitHonest
    BY DEF IInv
<1> QED
    BY <1>1, Invariance, PTL

\* Run returns one result for every key, dependencies before dependents.
THEOREM ReturnsEverything == Spec => []Complete
<1>1. IInv => Complete
    <2> SUFFICES ASSUME IInv, main = "returned"
                 PROVE  /\ Distinct(collected) /\ KeySet(collected) = Keys
                        /\ \A m, n \in DOMAIN collected :
                              collected[m] \in WaitsOn(dependents, collected[n]) => m < n
        BY DEF Complete
    <2>1. results = <<>> /\ collected \in Seq(Keys)
        BY DEF IInv, TypeOK, MainInv
    <2>2. Sent = collected
        BY <2>1, ConcatEmptySeq DEF Sent
    <2>3. Delivered = Keys
        BY DEF IInv, WaitHonest, SentInv
    <2> QED
        BY <2>2, <2>3 DEF IInv, SentInv, Delivered
<1> QED
    BY <1>1, Invariance, PTL

------------------------------------------------------------------------------
(* Run implements the order.                                               *)

\* A step that begins no key, sends nothing and does not return is a stutter
\* of the order.
LEMMA OrderStutter ==
    ASSUME UNCHANGED <<keys, dependents>>, Delivered' = Delivered,
           \A k \in Keys : pc'[k] # "idle" <=> pc[k] # "idle",
           main' = "returned" <=> main = "returned"
    PROVE  UNCHANGED Order!vars
<1>1. Keys' = Keys
    BY DEF Keys
<1>2. {k \in Keys : pc[k] # "idle"}' = {k \in Keys : pc[k] # "idle"}
    BY <1>1
<1>3. [k \in Keys |-> WaitsOn(dependents, k)]' = [k \in Keys |-> WaitsOn(dependents, k)]
    BY <1>1
<1>4. (main = "returned")' = (main = "returned")
    OBVIOUS
<1> QED
    BY <1>1, <1>2, <1>3, <1>4 DEF Order!vars

\* A call of start is the order's Begin: the key was idle, and the invariant
\* after the step says that everything it waits on has been sent.
LEMMA OrderBegin ==
    ASSUME IInv, IInv', NEW k \in Keys, pc[k] = "idle",
           pc' = [pc EXCEPT ![k] = "process"],
           UNCHANGED <<keys, dependents, results, collected, main>>
    PROVE  Order!Begin(k)
<1>1. Keys' = Keys /\ Delivered' = Delivered
    BY DEF Keys, Delivered, Sent
<1>2. {l \in Keys : pc[l] # "idle"}' = {l \in Keys : pc[l] # "idle"} \cup {k}
    BY <1>1 DEF IInv, TypeOK
<1>3. WaitsOn(dependents, k) \subseteq Delivered
    <2>1. IInv' => DependencyOrder'
        BY StartedAfter, PTL
    <2>2. started'[k] > 0
        BY <1>1 DEF IInv, TypeOK, StartedInv
    <2> QED
        BY <1>1, <2>1, <2>2 DEF DependencyOrder
<1>4. [l \in Keys |-> WaitsOn(dependents, l)]' = [l \in Keys |-> WaitsOn(dependents, l)]
    BY <1>1
<1>5. (main = "returned")' = (main = "returned")
    OBVIOUS
<1>6. [l \in Keys |-> WaitsOn(dependents, l)][k] = WaitsOn(dependents, k)
    OBVIOUS
<1> QED
    BY <1>1, <1>2, <1>3, <1>4, <1>5, <1>6 DEF Order!Begin

\* A step of the calling goroutine.
LEMMA MainOrder ==
    ASSUME IInv, IInv', Main
    PROVE  [Order!Next]_Order!vars
<1>1. CASE CollectReady \/ EndCollectReady \/ EndStartReady \/ Wait
    <2>1. UNCHANGED <<keys, dependents, pc, results, collected>>
          /\ (main' = "returned" <=> main = "returned")
        BY <1>1 DEF CollectReady, EndCollectReady, EndStartReady, Wait, graph
    <2> QED
        BY <2>1, OrderStutter DEF Delivered, Sent
<1>2. CASE StartReady
    <2>1. ready \in Seq(Keys) /\ i \in 1 .. Len(ready)
        BY <1>2 DEF StartReady, IInv, TypeOK
    <2>2. PICK key \in Keys : key = ready[i] /\ key \in ToStart
        BY <2>1 DEF ToStart
    <2>3. pc[key] = "idle"
        BY <1>2, <2>2 DEF StartReady, IInv, ReadyInv
    <2>4. /\ UNCHANGED <<keys, dependents, results, collected, main>>
          /\ pc' = [pc EXCEPT ![key] = "process"]
        BY <1>2, <2>2 DEF StartReady, graph
    <2>5. Order!Begin(key)
        BY <2>3, <2>4, OrderBegin
    <2> QED
        BY <2>5 DEF Order!Next
<1>3. CASE Collect
    <2>1. collected \in Seq(Keys) /\ results \in Seq(Keys) /\ results # <<>>
        BY <1>3 DEF Collect, IInv, TypeOK
    <2>2. Sent' = Sent
        BY <1>3, <2>1, MoveHead DEF Collect, Sent
    <2> QED
        BY <1>3, <2>2, OrderStutter DEF Collect, graph, Delivered
<1>4. CASE Return
    <2>1. Delivered = Keys
        BY <1>4 DEF Return, IInv, WaitHonest, SentInv
    <2>2. UNCHANGED <<keys, dependents, pc, results, collected>>
          /\ main # "returned" /\ main' = "returned"
        BY <1>4 DEF Return, graph
    <2>3. Keys' = Keys /\ Delivered' = Delivered
        BY <2>2 DEF Keys, Delivered, Sent
    <2>4. /\ {k \in Keys : pc[k] # "idle"}' = {k \in Keys : pc[k] # "idle"}
          /\ [k \in Keys |-> WaitsOn(dependents, k)]' = [k \in Keys |-> WaitsOn(dependents, k)]
        BY <2>2, <2>3
    <2>5. ~(main = "returned") /\ (main = "returned")' = TRUE
        BY <2>2
    <2>6. Order!Return
        BY <2>1, <2>3, <2>4, <2>5 DEF Order!Return
    <2> QED
        BY <2>6 DEF Order!Next
<1> QED
    BY <1>1, <1>2, <1>3, <1>4 DEF Main

\* A step of a key's goroutine.
LEMMA WorkerOrder ==
    ASSUME IInv, IInv', NEW k \in Keys, Worker(k)
    PROVE  [Order!Next]_Order!vars
<1>0. pc \in [Keys -> Steps] /\ collected \in Seq(Keys) /\ results \in Seq(Keys)
    BY DEF IInv, TypeOK
<1>1. CASE Process(k) \/ OnDone(k) \/ Lock(k) \/ Unlock(k) \/ Exit(k)
    <2>1. /\ UNCHANGED <<keys, dependents, results, collected, main>>
          /\ \E step \in Steps \ {"idle"} : pc[k] # "idle" /\ pc' = [pc EXCEPT ![k] = step]
        BY <1>1 DEF Process, OnDone, Lock, Unlock, Exit, Goto, graph, Steps
    <2>2. \A l \in Keys : pc'[l] # "idle" <=> pc[l] # "idle"
        BY <1>0, <2>1
    <2> QED
        BY <2>1, <2>2, OrderStutter DEF Delivered, Sent
<1>2. CASE Send(k)
    <2>1. /\ UNCHANGED <<keys, dependents, collected, main>>
          /\ pc[k] = "send" /\ pc' = [pc EXCEPT ![k] = "lock"] /\ results' = Append(results, k)
        BY <1>2 DEF Send, Goto, graph
    <2>2. Keys' = Keys
        BY <2>1 DEF Keys
    <2>3. Delivered' = Delivered \cup {k}
        <3>1. Sent \in Seq(Keys) /\ Sent' = Append(Sent, k)
            BY <1>0, <2>1, MoveLast, ConcatProperties DEF Sent
        <3> QED
            BY <3>1, AppendKeys DEF Delivered
    <2>4. {l \in Keys : pc[l] # "idle"}' = {l \in Keys : pc[l] # "idle"}
        BY <1>0, <2>1, <2>2
    <2>5. k \in {l \in Keys : pc[l] # "idle"} \ Delivered
        BY <2>1 DEF IInv, SentInv
    <2>6. [l \in Keys |-> WaitsOn(dependents, l)]' = [l \in Keys |-> WaitsOn(dependents, l)]
        BY <2>1, <2>2
    <2>7. (main = "returned")' = (main = "returned")
        BY <2>1
    <2>8. Order!Finish(k)
        BY <2>2, <2>3, <2>4, <2>5, <2>6, <2>7 DEF Order!Finish
    <2> QED
        BY <2>8 DEF Order!Next
<1>3. CASE Unblock(k)
    <2>1. PICK d \in Keys : d = dependents[k][pos[k]] /\ pc[d] = "idle"
        BY <1>3, Pass
    <2>2. /\ UNCHANGED <<keys, dependents, results, collected, main>>
          /\ pc' = pc \/ pc' = [pc EXCEPT ![d] = "process"]
        BY <1>3, <2>1 DEF Unblock, graph
    <2>3. CASE pc' = pc
        BY <2>2, <2>3, OrderStutter DEF Delivered, Sent
    <2>4. CASE pc' = [pc EXCEPT ![d] = "process"]
        BY <2>1, <2>2, <2>4, OrderBegin DEF Order!Next
    <2> QED
        BY <2>2, <2>3, <2>4
<1> QED
    BY <1>1, <1>2, <1>3 DEF Worker

\* Run implements TopoOrder for every acyclic graph: a key begins once, after
\* everything it waits on has finished, and Run returns when all have.
THEOREM Refinement == Spec => RefinesTopoOrder
<1>1. Init => Order!Init
    <2> SUFFICES ASSUME Init PROVE Order!Init
        OBVIOUS
    <2>1. {k \in Keys : pc[k] # "idle"} = {} /\ Delivered = {}
        BY DEF Init, Delivered, Sent, KeySet
    <2>2. (main = "returned") = FALSE
        BY DEF Init
    <2> QED
        BY <2>1, <2>2 DEF Order!Init
<1>2. IInv /\ IInv' /\ [Next]_vars => [Order!Next]_Order!vars
    <2> SUFFICES ASSUME IInv, IInv', [Next]_vars PROVE [Order!Next]_Order!vars
        OBVIOUS
    <2>1. CASE Main
        BY <2>1, MainOrder
    <2>2. ASSUME NEW k \in Keys, Worker(k) PROVE [Order!Next]_Order!vars
        BY <2>2, WorkerOrder
    <2>3. CASE UNCHANGED vars
        BY <2>3, OrderStutter DEF vars, graph, Delivered, Sent
    <2> QED
        BY <2>1, <2>2, <2>3 DEF Next, Done
<1> QED
    BY <1>1, <1>2, Invariance, PTL DEF Spec, RefinesTopoOrder, Order!Spec
==============================================================================
