------------------------ MODULE ModuleChanges_proof --------------------------
(***************************************************************************)
(* What a report says of go.mod and of the files is what there is to say,  *)
(* for any requirements and files, in whatever order the maps are gone     *)
(* through.                                                                *)
(***************************************************************************)
EXTENDS ModuleChanges, FiniteSetTheorems, WellFoundedInduction, TLAPS

\* A set of natural numbers has a smallest one.
LEMMA LeastExists ==
  ASSUME NEW T \in SUBSET Nat, T # {}
  PROVE  \E n \in T : \A m \in T : n <= m
  <1> DEFINE R == OpToRel(<, Nat)
  <1>1. IsWellFoundedOn(R, Nat)
    BY NatLessThanWellFounded
  <1>2. \A m \in Nat, n \in Nat : m < n => <<m, n>> \in R
    BY DEF OpToRel
  <1> HIDE DEF R
  <1>3. PICK n \in T : \A m \in T : ~(<<m, n>> \in R)
    BY <1>1, WFMin
  <1>4. \A m \in T : ~(m < n)
    BY <1>2, <1>3
  <1>5. QED BY <1>4

\* A set of positions has a greatest one.
LEMMA GreatestExists ==
  ASSUME NEW L \in Nat, NEW S \in SUBSET (1 .. L), S # {}
  PROVE  \E n \in S : \A m \in S : m <= n
  <1> DEFINE T == {L - n : n \in S}
  <1>1. T \in SUBSET Nat /\ T # {}
    <2>1. \A n \in S : L - n \in Nat
      OBVIOUS
    <2>2. QED BY <2>1
  <1>2. PICK x \in T : \A y \in T : x <= y
    BY <1>1, LeastExists
  <1>3. PICK n \in S : x = L - n
    OBVIOUS
  <1>4. \A m \in S : m <= n
    BY <1>2, <1>3
  <1>5. QED BY <1>4

------------------------------------------------------------------------------
(* Sorting.                                                                *)

\* What has its place at or before that of the n-th.
UpTo(key, n) ==
    {m \in DOMAIN key : key[m] < key[n] \/ (key[m] = key[n] /\ m <= n)}

\* Entry k of what Sort returns is the entry p[k] of what it was given.
Sorts(p, key) ==
    /\ p \in [DOMAIN key -> DOMAIN key]
    /\ \A n \in DOMAIN key : \E k \in DOMAIN key : p[k] = n
    /\ \A j, k \in DOMAIN key : j < k => p[j] # p[k] /\ key[p[j]] <= key[p[k]]

LEMMA PlaceFacts ==
  ASSUME NEW key \in Seq(Nat)
  PROVE  /\ \A n \in DOMAIN key : Place(key, n) \in DOMAIN key
         /\ \A m, n \in DOMAIN key : m # n => Place(key, m) # Place(key, n)
         /\ \A m, n \in DOMAIN key : Place(key, m) < Place(key, n) => key[m] <= key[n]
  <1>1. DOMAIN key = 1 .. Len(key) /\ Len(key) \in Nat /\ \A n \in DOMAIN key : key[n] \in Nat
    OBVIOUS
  <1>2. IsFiniteSet(DOMAIN key) /\ Cardinality(DOMAIN key) = Len(key)
    <2>1. Cardinality(1 .. Len(key)) = IF 1 > Len(key) THEN 0 ELSE Len(key) - 1 + 1
      BY <1>1, FS_Interval
    <2>2. IsFiniteSet(1 .. Len(key))
      BY <1>1, FS_Interval
    <2>3. QED BY <1>1, <2>1, <2>2
  <1>3. \A n : Place(key, n) = Cardinality(UpTo(key, n))
    BY DEF Place, UpTo
  <1>4. ASSUME NEW n
        PROVE  /\ UpTo(key, n) \in SUBSET (DOMAIN key)
               /\ IsFiniteSet(UpTo(key, n)) /\ Cardinality(UpTo(key, n)) \in Nat
               /\ Cardinality(UpTo(key, n)) <= Len(key)
    <2>1. UpTo(key, n) \in SUBSET (DOMAIN key)
      BY DEF UpTo
    <2>2. QED BY <1>2, <2>1, FS_Subset, FS_CardinalityType
  <1>5. ASSUME NEW n \in DOMAIN key PROVE n \in UpTo(key, n) /\ Place(key, n) \in DOMAIN key
    <2>1. n \in UpTo(key, n)
      BY <1>1 DEF UpTo
    <2>2. Cardinality(UpTo(key, n)) # 0
      BY <1>4, <2>1, FS_EmptySet
    <2>3. QED BY <1>1, <1>3, <1>4, <2>1, <2>2
  <1>6. ASSUME NEW m \in DOMAIN key, NEW n \in DOMAIN key, m \in UpTo(key, n), m # n
        PROVE  Place(key, m) < Place(key, n)
    <2>1. UpTo(key, m) \subseteq UpTo(key, n)
      BY <1>1, <1>6 DEF UpTo
    <2>2. n \notin UpTo(key, m) /\ n \in UpTo(key, n)
      <3>1. key[m] < key[n] \/ (key[m] = key[n] /\ m < n)
        BY <1>1, <1>6 DEF UpTo
      <3>2. key[m] \in Nat /\ key[n] \in Nat /\ m \in Nat /\ n \in Nat
        BY <1>1
      <3>3. ~(key[n] < key[m] \/ (key[n] = key[m] /\ n <= m))
        BY <3>1, <3>2
      <3>4. QED BY <1>5, <3>3 DEF UpTo
    <2>3. UpTo(key, m) \in SUBSET UpTo(key, n) /\ UpTo(key, m) # UpTo(key, n)
      BY <2>1, <2>2
    <2>4. /\ Cardinality(UpTo(key, m)) <= Cardinality(UpTo(key, n))
          /\ Cardinality(UpTo(key, n)) # Cardinality(UpTo(key, m))
      BY <1>4, <2>3, FS_Subset
    <2>5. QED BY <1>3, <1>4, <2>4
  <1>7. ASSUME NEW m \in DOMAIN key, NEW n \in DOMAIN key
        PROVE  m \in UpTo(key, n) \/ n \in UpTo(key, m)
    BY <1>1 DEF UpTo
  <1>8. \A m, n \in DOMAIN key : m # n => Place(key, m) # Place(key, n)
    <2> SUFFICES ASSUME NEW m \in DOMAIN key, NEW n \in DOMAIN key, m # n
                 PROVE  Place(key, m) # Place(key, n)
      OBVIOUS
    <2>1. Place(key, m) \in Nat /\ Place(key, n) \in Nat
      BY <1>1, <1>5
    <2>2. QED BY <1>6, <1>7, <2>1
  <1>9. ASSUME NEW m \in DOMAIN key, NEW n \in DOMAIN key, Place(key, m) < Place(key, n)
        PROVE  key[m] <= key[n]
    <2>1. Place(key, m) \in Nat /\ Place(key, n) \in Nat /\ m # n
      BY <1>1, <1>5, <1>9
    <2>2. m \in UpTo(key, n)
      BY <1>6, <1>7, <1>9, <2>1
    <2>3. QED BY <1>1, <2>2 DEF UpTo
  <1>10. QED BY <1>5, <1>8, <1>9

\* t is s in the order of key.
Sorted(S, s, key, t) ==
    /\ t \in Seq(S) /\ DOMAIN t = DOMAIN key /\ Len(t) = Len(s)
    /\ \E p : Sorts(p, key) /\ \A k \in DOMAIN key : t[k] = s[p[k]]

\* Sorting is a matter of order only.
LEMMA SortFacts ==
  ASSUME NEW key \in Seq(Nat), NEW S, NEW s \in Seq(S), Len(s) = Len(key)
  PROVE  Sorted(S, s, key, Sort(s, key))
  <1> DEFINE D == DOMAIN s
             f == [n \in D |-> Place(key, n)]
             p == [k \in D |-> CHOOSE n \in D : Place(key, n) = k]
  <1>1. D = 1 .. Len(s) /\ Len(s) \in Nat /\ D = DOMAIN key /\ D \subseteq Nat
    OBVIOUS
  <1>2. f \in Injection(D, D)
    <2>1. f \in [D -> D]
      BY <1>1, PlaceFacts
    <2>2. \A m, n \in D : f[m] = f[n] => m = n
      BY <1>1, PlaceFacts
    <2>3. DOMAIN f = D
      OBVIOUS
    <2> HIDE DEF f, D
    <2>4. QED BY <2>1, <2>2, <2>3 DEF Injection, IsInjective
  <1>3. IsFiniteSet(D)
    BY <1>1, FS_Interval
  <1>4. f \in Surjection(D, D)
    BY <1>2, <1>3, FS_Injection
  <1>5. ASSUME NEW k \in D PROVE \E n \in D : Place(key, n) = k
    BY <1>4 DEF Surjection
  <1>6. ASSUME NEW k \in D PROVE p[k] \in D /\ Place(key, p[k]) = k
    <2>1. PICK n \in D : Place(key, n) = k
      BY <1>5
    <2>2. p[k] = CHOOSE m \in D : Place(key, m) = k
      OBVIOUS
    <2>3. QED BY <2>1, <2>2
  <1>7. p \in [D -> D]
    BY <1>6
  <1>8. ASSUME NEW n \in D PROVE \E k \in D : p[k] = n
    <2>1. Place(key, n) \in D
      BY <1>1, PlaceFacts
    <2>2. PICK k \in D : k = Place(key, n)
      BY <2>1
    <2>3. p[k] \in D /\ Place(key, p[k]) = Place(key, n)
      BY <1>6, <2>2
    <2>4. p[k] = n
      BY <1>1, <2>3, PlaceFacts
    <2>5. QED BY <2>4
  <1>9. ASSUME NEW j \in D, NEW k \in D, j < k PROVE p[j] # p[k] /\ key[p[j]] <= key[p[k]]
    <2>1. Place(key, p[j]) = j /\ Place(key, p[k]) = k /\ p[j] \in D /\ p[k] \in D
      BY <1>6
    <2>2. Place(key, p[j]) < Place(key, p[k])
      BY <1>9, <2>1
    <2>3. p[j] # p[k]
      BY <1>1, <1>9, <2>1
    <2>4. QED BY <1>1, <2>1, <2>2, <2>3, PlaceFacts
  <1>10. Sort(s, key) = [k \in D |-> s[p[k]]]
    BY DEF Sort
  <1>11. Sorts(p, key)
    BY <1>1, <1>7, <1>8, <1>9 DEF Sorts
  <1> HIDE DEF D, p
  <1>12. \A k \in D : s[p[k]] \in S
    BY <1>6 DEF D
  <1>13. Sort(s, key) \in [D -> S] /\ \A k \in D : Sort(s, key)[k] = s[p[k]]
    BY <1>10, <1>12
  <1>14. ASSUME NEW N \in Nat, NEW t \in [1 .. N -> S]
         PROVE  t \in Seq(S) /\ DOMAIN t = 1 .. N /\ Len(t) = N
    OBVIOUS
  <1>15. Sort(s, key) \in Seq(S) /\ DOMAIN Sort(s, key) = D /\ Len(Sort(s, key)) = Len(s)
    BY <1>1, <1>13, <1>14
  <1>16. QED BY <1>1, <1>11, <1>13, <1>15 DEF Sorted

------------------------------------------------------------------------------
(* The files.                                                              *)

\* One round of the loop over the files.
Round(fs, n, out) == IF fs[n] \in Vendored THEN out ELSE Append(out, fs[n])

\* The equation withVendorDir gives its function, and what that function ends
\* with.
Filters(fs, out) ==
    out = [n \in 0 .. Len(fs) |->
              IF n = 0 THEN <<>>
              ELSE IF fs[n] \in Vendored THEN out[n - 1] ELSE Append(out[n - 1], fs[n])]

Kept(fs) == (CHOOSE out : Filters(fs, out))[Len(fs)]

\* The same, as far as N.
FiltersTo(fs, N, out) ==
    /\ DOMAIN out = 0 .. N /\ out[0] = <<>>
    /\ \A n \in 1 .. N : out[n] = Round(fs, n, out[n - 1])

\* The loop has an outcome for every list.
LEMMA FilterExists ==
  ASSUME NEW fs, Len(fs) \in Nat
  PROVE  Filters(fs, CHOOSE out : Filters(fs, out))
  <1> DEFINE Without == {N \in Nat : ~\E out : FiltersTo(fs, N, out)}
  <1>1. ASSUME NEW N \in Nat, NEW out, FiltersTo(fs, N, out)
        PROVE  \E g : FiltersTo(fs, N + 1, g)
    <2> DEFINE g == [n \in 0 .. N + 1 |-> IF n = N + 1 THEN Round(fs, N + 1, out[N]) ELSE out[n]]
    <2>1. DOMAIN g = 0 .. N + 1 /\ g[0] = <<>>
      BY <1>1 DEF FiltersTo
    <2>2. ASSUME NEW n \in 1 .. N + 1 PROVE g[n] = Round(fs, n, g[n - 1])
      <3>1. CASE n = N + 1
        <4>1. g[n] = Round(fs, N + 1, out[N]) /\ g[n - 1] = out[N]
          BY <3>1
        <4>2. QED BY <3>1, <4>1
      <3>2. CASE n \in 1 .. N
        <4>1. g[n] = out[n] /\ g[n - 1] = out[n - 1]
          BY <3>2
        <4>2. QED BY <1>1, <3>2, <4>1 DEF FiltersTo
      <3>3. QED BY <3>1, <3>2
    <2> HIDE DEF g
    <2>3. QED BY <2>1, <2>2 DEF FiltersTo
  <1>2. \E out : FiltersTo(fs, 0, out)
    <2>1. FiltersTo(fs, 0, [n \in 0 .. 0 |-> <<>>])
      BY DEF FiltersTo
    <2>2. QED BY <2>1
  <1>3. Without = {}
    <2> SUFFICES ASSUME Without # {} PROVE FALSE
      OBVIOUS
    <2>1. PICK N \in Without : \A M \in Without : N <= M
      BY LeastExists
    <2>2. N \in Nat /\ N # 0
      BY <1>2
    <2>3. N - 1 \in Nat /\ N - 1 \notin Without
      BY <2>1, <2>2
    <2>4. PICK out : FiltersTo(fs, N - 1, out)
      BY <2>3
    <2>5. \E g : FiltersTo(fs, N - 1 + 1, g)
      BY <1>1, <2>3, <2>4
    <2>6. QED BY <2>2, <2>5
  <1>4. PICK out : FiltersTo(fs, Len(fs), out)
    BY <1>3
  <1> DEFINE g == [n \in 0 .. Len(fs) |-> out[n]]
  <1>5. Filters(fs, g)
    <2>1. ASSUME NEW n \in 0 .. Len(fs)
          PROVE  g[n] = IF n = 0 THEN <<>>
                        ELSE IF fs[n] \in Vendored THEN g[n - 1] ELSE Append(g[n - 1], fs[n])
      <3>1. CASE n = 0
        BY <1>4, <3>1 DEF FiltersTo
      <3>2. CASE n # 0
        <4>1. n \in 1 .. Len(fs) /\ n - 1 \in 0 .. Len(fs)
          BY <3>2
        <4>2. out[n] = Round(fs, n, out[n - 1])
          BY <1>4, <4>1 DEF FiltersTo
        <4>3. g[n] = out[n] /\ g[n - 1] = out[n - 1]
          BY <4>1
        <4>4. QED BY <3>2, <4>2, <4>3, Zenon DEF Round
      <3>3. QED BY <3>1, <3>2
    <2>2. g = [n \in 0 .. Len(fs) |->
                  IF n = 0 THEN <<>>
                  ELSE IF fs[n] \in Vendored THEN g[n - 1] ELSE Append(g[n - 1], fs[n])]
      <3>1. g = [n \in 0 .. Len(fs) |-> g[n]]
        OBVIOUS
      <3> HIDE DEF g
      <3>2. QED BY <2>1, <3>1, Zenon
    <2>3. QED BY <2>2, Zenon DEF Filters
  <1>6. QED BY <1>5, Zenon

LEMMA withVendorDirIs ==
  ASSUME NEW fs
  PROVE  withVendorDir(fs) = IF Len(Kept(fs)) = Len(fs) THEN Kept(fs)
                             ELSE Append(Kept(fs), VendorDir)
  BY DEF withVendorDir, Kept, Filters

\* A list of file names without repetition of which T are the names.
Lists(s, T) == s \in Seq(Nat) /\ IsInjective(s) /\ Range(s) = T

LEMMA AppendLists ==
  ASSUME NEW s, NEW T, Lists(s, T), NEW x \in Nat, x \notin T
  PROVE  Lists(Append(s, x), T \cup {x}) /\ Len(Append(s, x)) = Len(s) + 1
  <1>1. /\ s \in Seq(Nat) /\ Len(s) \in Nat /\ DOMAIN s = 1 .. Len(s)
        /\ \A m, n \in 1 .. Len(s) : s[m] = s[n] => m = n
    BY DEF Lists, IsInjective
  <1>2. T = {s[n] : n \in 1 .. Len(s)}
    BY <1>1 DEF Lists, Range
  <1> DEFINE t == Append(s, x)
  <1>3. /\ t \in Seq(Nat) /\ Len(t) = Len(s) + 1 /\ DOMAIN t = 1 .. Len(s) + 1
        /\ t[Len(s) + 1] = x /\ \A n \in 1 .. Len(s) : t[n] = s[n]
    BY <1>1
  <1> HIDE DEF t
  <1>4. \A m, n \in DOMAIN t : t[m] = t[n] => m = n
    <2>1. \A n \in DOMAIN t : n \in 1 .. Len(s) \/ n = Len(s) + 1
      BY <1>1, <1>3
    <2>2. \A n \in 1 .. Len(s) : t[n] = s[n] /\ s[n] # x
      BY <1>2, <1>3
    <2>3. QED BY <1>1, <1>3, <2>1, <2>2, Zenon
  <1>5. {t[n] : n \in DOMAIN t} = T \cup {x}
    <2>1. \A n \in DOMAIN t : t[n] \in T \cup {x}
      BY <1>1, <1>2, <1>3
    <2>2. ASSUME NEW y \in T PROVE \E n \in DOMAIN t : t[n] = y
      <3>1. PICK n \in 1 .. Len(s) : s[n] = y
        BY <1>2
      <3>2. n \in DOMAIN t /\ t[n] = y
        BY <1>1, <1>3, <3>1
      <3>3. QED BY <3>2
    <2>3. Len(s) + 1 \in DOMAIN t
      BY <1>1, <1>3
    <2>4. QED BY <1>3, <2>1, <2>2, <2>3
  <1>6. QED BY <1>3, <1>4, <1>5 DEF Lists, IsInjective, Range, t

\* Such a list is as long as it has names.
LEMMA ListsLength ==
  ASSUME NEW s, NEW T, Lists(s, T)
  PROVE  IsFiniteSet(T) /\ Cardinality(T) = Len(s) /\ Len(s) \in Nat
  <1>1. s \in Seq(Nat) /\ Len(s) \in Nat /\ DOMAIN s = 1 .. Len(s)
    BY DEF Lists
  <1>2. \A n \in 1 .. Len(s) : s[n] \in T
    BY <1>1 DEF Lists, Range
  <1>3. \A x \in T : \E n \in 1 .. Len(s) : s[n] = x
    BY <1>1 DEF Lists, Range
  <1>4. s \in [1 .. Len(s) -> T]
    BY <1>1, <1>2
  <1>5. s \in Surjection(1 .. Len(s), T)
    BY <1>3, <1>4 DEF Surjection
  <1>6. s \in Injection(1 .. Len(s), T)
    BY <1>4 DEF Lists, Injection, IsInjective
  <1>7. IsFiniteSet(1 .. Len(s)) /\ Cardinality(1 .. Len(s)) = Len(s)
    <2>1. Cardinality(1 .. Len(s)) = IF 1 > Len(s) THEN 0 ELSE Len(s) - 1 + 1
      BY <1>1, FS_Interval
    <2>2. IsFiniteSet(1 .. Len(s))
      BY <1>1, FS_Interval
    <2>3. QED BY <1>1, <2>1, <2>2
  <1>8. IsFiniteSet(T) /\ Cardinality(T) <= Cardinality(1 .. Len(s))
        /\ (Cardinality(T) = Cardinality(1 .. Len(s)) <=> s \in Injection(1 .. Len(s), T))
    BY <1>5, <1>7, FS_Surjection
  <1>9. QED BY <1>1, <1>6, <1>7, <1>8

\* The names of the first n files, without those under vendor/.
Outside(fs, n) == {fs[m] : m \in 1 .. n} \ Vendored

\* What the loop has kept after n rounds.
KeptSoFar(fs, n, out) ==
    /\ Lists(out, Outside(fs, n))
    /\ Len(out) <= n
    /\ Len(out) = n <=> \A m \in 1 .. n : fs[m] \notin Vendored

LEMMA RoundKeeps ==
  ASSUME NEW fs \in Seq(Nat), IsInjective(fs), NEW n \in 1 .. Len(fs), NEW out,
         KeptSoFar(fs, n - 1, out)
  PROVE  KeptSoFar(fs, n, Round(fs, n, out))
  <1>1. /\ Len(fs) \in Nat /\ DOMAIN fs = 1 .. Len(fs) /\ fs[n] \in Nat
        /\ \A m \in 1 .. Len(fs) : fs[m] = fs[n] => m = n
    BY DEF IsInjective
  <1>2. /\ n \in Nat /\ n - 1 \in Nat /\ 1 .. n = (1 .. n - 1) \cup {n}
        /\ \A m \in 1 .. n - 1 : m \in 1 .. Len(fs) /\ m # n
    OBVIOUS
  <1>3. fs[n] \notin Outside(fs, n - 1)
    BY <1>1, <1>2 DEF Outside
  <1>4. Len(out) \in Nat
    BY ListsLength DEF KeptSoFar
  <1>5. CASE fs[n] \in Vendored
    <2>1. Round(fs, n, out) = out /\ Outside(fs, n) = Outside(fs, n - 1)
      BY <1>2, <1>5 DEF Round, Outside
    <2>2. Len(out) <= n /\ Len(out) # n
      BY <1>2, <1>4 DEF KeptSoFar
    <2>3. ~\A m \in 1 .. n : fs[m] \notin Vendored
      BY <1>2, <1>5
    <2>4. QED BY <2>1, <2>2, <2>3 DEF KeptSoFar
  <1>6. CASE fs[n] \notin Vendored
    <2>1. Outside(fs, n) = Outside(fs, n - 1) \cup {fs[n]}
      BY <1>2, <1>6 DEF Outside
    <2>2. Lists(Append(out, fs[n]), Outside(fs, n)) /\ Len(Append(out, fs[n])) = Len(out) + 1
      BY <1>1, <1>3, <2>1, AppendLists DEF KeptSoFar
    <2>3. Round(fs, n, out) = Append(out, fs[n])
      BY <1>6 DEF Round
    <2> DEFINE t == Append(out, fs[n])
    <2> HIDE DEF t
    <2>4. Len(t) <= n /\ (Len(t) = n <=> Len(out) = n - 1)
      BY <1>2, <1>4, <2>2 DEF KeptSoFar, t
    <2>5. (\A m \in 1 .. n : fs[m] \notin Vendored)
            <=> \A m \in 1 .. n - 1 : fs[m] \notin Vendored
      BY <1>2, <1>6
    <2>6. QED BY <2>2, <2>3, <2>4, <2>5, Zenon DEF KeptSoFar, t
  <1>7. QED BY <1>5, <1>6

LEMMA KeptFacts ==
  ASSUME NEW fs \in Seq(Nat), IsInjective(fs)
  PROVE  KeptSoFar(fs, Len(fs), Kept(fs))
  <1> DEFINE out == CHOOSE g : Filters(fs, g)
             Bad == {n \in Nat : n <= Len(fs) /\ ~KeptSoFar(fs, n, out[n])}
  <1>1. Len(fs) \in Nat
    OBVIOUS
  <1>2. Filters(fs, out)
    BY <1>1, FilterExists
  <1> HIDE DEF out
  <1>3. out[0] = <<>>
    BY <1>1, <1>2 DEF Filters
  <1>4. ASSUME NEW n \in 1 .. Len(fs) PROVE out[n] = Round(fs, n, out[n - 1])
    <2>1. n \in 0 .. Len(fs) /\ n # 0
      BY <1>1
    <2>2. \A k \in 0 .. Len(fs) : out[k] = IF k = 0 THEN <<>>
             ELSE IF fs[k] \in Vendored THEN out[k - 1] ELSE Append(out[k - 1], fs[k])
      BY <1>2, Zenon DEF Filters
    <2>3. QED BY <2>1, <2>2, Zenon DEF Round
  <1>5. KeptSoFar(fs, 0, out[0])
    <2>1. <<>> \in Seq(Nat) /\ DOMAIN <<>> = {} /\ Len(<<>>) = 0
      OBVIOUS
    <2>2. IsInjective(<<>>) /\ Range(<<>>) = {}
      BY <2>1 DEF IsInjective, Range
    <2>3. Outside(fs, 0) = {}
      BY DEF Outside
    <2>4. Lists(<<>>, Outside(fs, 0))
      BY <2>1, <2>2, <2>3 DEF Lists
    <2>5. QED BY <1>3, <2>1, <2>4 DEF KeptSoFar
  <1>6. Bad = {}
    <2> SUFFICES ASSUME Bad # {} PROVE FALSE
      OBVIOUS
    <2>1. PICK n \in Bad : \A m \in Bad : n <= m
      BY LeastExists
    <2>2. n \in Nat /\ n # 0 /\ n <= Len(fs) /\ ~KeptSoFar(fs, n, out[n])
      BY <1>5
    <2>3. n \in 1 .. Len(fs) /\ n - 1 \in Nat /\ n - 1 <= Len(fs)
      BY <1>1, <2>2
    <2>4. n - 1 \notin Bad
      BY <2>1, <2>2, <2>3
    <2>5. KeptSoFar(fs, n - 1, out[n - 1])
      BY <2>3, <2>4
    <2>6. QED BY <1>4, <2>2, <2>3, <2>5, RoundKeeps
  <1>7. KeptSoFar(fs, Len(fs), out[Len(fs)])
    BY <1>1, <1>6
  <1>8. QED BY <1>7 DEF Kept, out

\* What a report shows of the files of fs: those outside vendor/, and vendor/
\* if there is another.
Shown(fs) ==
    (Range(fs) \ Vendored) \cup (IF Range(fs) \cap Vendored = {} THEN {} ELSE {VendorDir})

LEMMA withVendorDirFacts ==
  ASSUME NEW fs \in Seq(Nat \ {VendorDir}), IsInjective(fs), VendorDir \in Nat
  PROVE  Lists(withVendorDir(fs), Shown(fs))
  <1>1. fs \in Seq(Nat) /\ Len(fs) \in Nat /\ DOMAIN fs = 1 .. Len(fs)
        /\ \A n \in 1 .. Len(fs) : fs[n] # VendorDir
    OBVIOUS
  <1>2. KeptSoFar(fs, Len(fs), Kept(fs))
    BY <1>1, KeptFacts
  <1>3. Range(fs) = {fs[m] : m \in 1 .. Len(fs)}
    BY <1>1 DEF Range
  <1>4. CASE Len(Kept(fs)) = Len(fs)
    <2>1. Range(fs) \cap Vendored = {}
      BY <1>2, <1>3, <1>4 DEF KeptSoFar
    <2>2. Shown(fs) = Outside(fs, Len(fs))
      BY <1>3, <2>1 DEF Shown, Outside
    <2>3. QED BY <1>2, <1>4, <2>2, withVendorDirIs DEF KeptSoFar
  <1>5. CASE Len(Kept(fs)) # Len(fs)
    <2>1. Range(fs) \cap Vendored # {}
      BY <1>2, <1>3, <1>5 DEF KeptSoFar
    <2>2. Shown(fs) = Outside(fs, Len(fs)) \cup {VendorDir}
      BY <1>3, <2>1 DEF Shown, Outside
    <2>3. VendorDir \notin Outside(fs, Len(fs))
      BY <1>1 DEF Outside
    <2>4. withVendorDir(fs) = Append(Kept(fs), VendorDir)
      BY <1>5, withVendorDirIs, Zenon
    <2>5. QED BY <1>2, <2>2, <2>3, <2>4, AppendLists DEF KeptSoFar
  <1>6. QED BY <1>4, <1>5

\* Sorting such a list.
InOrder(s) == \A j, k \in DOMAIN s : j < k => s[j] < s[k]

LEMMA SortLists ==
  ASSUME NEW s, NEW T, Lists(s, T)
  PROVE  Lists(Sort(s, s), T) /\ InOrder(Sort(s, s))
  <1> DEFINE t == Sort(s, s)
  <1>1. /\ s \in Seq(Nat) /\ Len(s) \in Nat /\ DOMAIN s = 1 .. Len(s)
        /\ \A m, n \in DOMAIN s : s[m] = s[n] => m = n
    BY DEF Lists, IsInjective
  <1>0. /\ t \in Seq(Nat) /\ DOMAIN t = DOMAIN s
        /\ \E p : Sorts(p, s) /\ \A k \in DOMAIN s : t[k] = s[p[k]]
    <2>1. Sorted(Nat, s, s, Sort(s, s))
      BY <1>1, SortFacts
    <2>2. QED BY <2>1, Zenon DEF Sorted
  <1> HIDE DEF t
  <1>2. PICK p : Sorts(p, s) /\ \A k \in DOMAIN s : t[k] = s[p[k]]
    BY <1>0
  <1>3. t \in Seq(Nat) /\ DOMAIN t = DOMAIN s
    BY <1>0
  <1>4. /\ \A k \in DOMAIN s : p[k] \in DOMAIN s
        /\ \A n \in DOMAIN s : \E k \in DOMAIN s : p[k] = n
        /\ \A j, k \in DOMAIN s : j < k => p[j] # p[k] /\ s[p[j]] <= s[p[k]]
    BY <1>2 DEF Sorts
  <1>5. ASSUME NEW j \in DOMAIN s, NEW k \in DOMAIN s, j < k PROVE t[j] < t[k]
    <2>1. p[j] \in DOMAIN s /\ p[k] \in DOMAIN s /\ p[j] # p[k] /\ s[p[j]] <= s[p[k]]
      BY <1>4, <1>5
    <2>2. s[p[j]] # s[p[k]]
      BY <1>1, <2>1, Zenon
    <2>3. s[p[j]] \in Nat /\ s[p[k]] \in Nat
      BY <1>1, <2>1
    <2>4. s[p[j]] < s[p[k]]
      BY <2>1, <2>2, <2>3
    <2>5. QED BY <1>2, <2>4, Zenon
  <1>6. ASSUME NEW j \in DOMAIN s, NEW k \in DOMAIN s, t[j] = t[k] PROVE j = k
    <2>1. j \in Nat /\ k \in Nat /\ t[j] \in Nat /\ t[k] \in Nat
      BY <1>1, <1>3
    <2>2. QED BY <1>5, <1>6, <2>1
  <1>7. Range(t) = Range(s)
    <2>1. \A k \in DOMAIN s : t[k] \in Range(s)
      BY <1>2, <1>4 DEF Range
    <2>2. ASSUME NEW n \in DOMAIN s PROVE s[n] \in Range(t)
      <3>1. PICK k \in DOMAIN s : p[k] = n
        BY <1>4
      <3>2. t[k] = s[n]
        BY <1>2, <3>1
      <3>3. QED BY <1>3, <3>2 DEF Range
    <2>3. QED BY <1>3, <2>1, <2>2 DEF Range
  <1>8. Lists(t, T)
    BY <1>3, <1>6, <1>7 DEF Lists, IsInjective
  <1>9. InOrder(t)
    BY <1>3, <1>5 DEF InOrder
  <1>10. QED BY <1>8, <1>9 DEF t

\* The files as every report has them.
LEMMA collapseVendorFacts ==
  ASSUME NEW fs \in FileLists \cup {<<>>}
  PROVE  Lists(collapseVendor(fs), Shown(fs)) /\ InOrder(collapseVendor(fs))
  <1>1. fs \in Seq(Nat \ {VendorDir}) /\ IsInjective(fs) /\ VendorDir \in Nat
    <2>1. <<>> \in Seq(Nat \ {VendorDir}) /\ IsInjective(<<>>)
      BY DEF IsInjective
    <2>2. QED BY <2>1, FilesAssumption
  <1>2. Lists(withVendorDir(fs), Shown(fs))
    BY <1>1, withVendorDirFacts
  <1>3. QED BY <1>2, SortLists DEF collapseVendor

------------------------------------------------------------------------------
(* The requirements.                                                       *)

\* Where a go.mod lists a module last.
LastAt(data, path, n) ==
    /\ n \in DOMAIN data /\ data[n][1] = path
    /\ \A m \in DOMAIN data : data[m][1] = path => m <= n

LEMMA LastAtExists ==
  ASSUME NEW data \in Contents, NEW path, NEW k \in DOMAIN data, data[k][1] = path
  PROVE  \E n : LastAt(data, path, n)
  <1> DEFINE S == {n \in DOMAIN data : data[n][1] = path}
  <1>1. DOMAIN data = 1 .. Len(data) /\ Len(data) \in Nat
    BY RequirementsAssumption
  <1>2. S \in SUBSET (1 .. Len(data)) /\ S # {}
    BY <1>1
  <1>3. PICK n \in S : \A m \in S : m <= n
    BY <1>1, <1>2, GreatestExists
  <1>4. QED BY <1>3 DEF LastAt

\* The version of a module is the one of its last listing, in the map the code
\* makes and in Version alike.
LastCounts(data) ==
    /\ DOMAIN requirements(data) = {data[n][1] : n \in DOMAIN data}
    /\ \A path, n : LastAt(data, path, n) =>
          /\ n \in DOMAIN data
          /\ requirements(data)[path] = data[n][2]
          /\ Version(data, path) = data[n][2]
    /\ \A path : path \notin DOMAIN requirements(data) => Version(data, path) = NoVersion

LEMMA requirementsFacts ==
  ASSUME NEW data \in Contents
  PROVE  LastCounts(data)
  <1> DEFINE at(path) == {n \in DOMAIN data : data[n][1] = path}
  <1>1. DOMAIN data = 1 .. Len(data) /\ Len(data) \in Nat
    BY RequirementsAssumption
  <1>2. data \notin {Nil, Garbage} /\ data # NoFile
    BY RequirementsAssumption
  <1>3. DOMAIN requirements(data) = {data[n][1] : n \in DOMAIN data}
    BY <1>2 DEF requirements
  <1>4. ASSUME NEW path, NEW n, LastAt(data, path, n)
        PROVE  requirements(data)[path] = data[n][2] /\ Version(data, path) = data[n][2]
    <2>1. n \in DOMAIN data /\ data[n][1] = path /\ path \in {data[k][1] : k \in DOMAIN data}
      BY <1>4 DEF LastAt
    <2> DEFINE Last(k) == data[k][1] = path /\ \A m \in DOMAIN data : m > k => data[m][1] # path
    <2>2. Last(n)
      BY <1>1, <1>4 DEF LastAt
    <2>3. \A k \in DOMAIN data : Last(k) => k = n
      BY <1>1, <1>4 DEF LastAt
    <2>4. requirements(data)[path] = data[CHOOSE k \in DOMAIN data : Last(k)][2]
      BY <1>2, <2>1 DEF requirements
    <2>5. (CHOOSE k \in DOMAIN data : Last(k)) = n
      <3> HIDE DEF Last
      <3>1. QED BY <2>1, <2>2, <2>3
    <2>6. n \in at(path) /\ \A m \in at(path) : m <= n
      BY <1>4 DEF LastAt
    <2>7. \A k \in at(path) : (\A m \in at(path) : m <= k) => k = n
      BY <1>1, <2>6
    <2>8. Version(data, path) = data[CHOOSE k \in at(path) : \A m \in at(path) : m <= k][2]
      BY <1>2, <2>6 DEF Version
    <2> HIDE DEF at
    <2>9. (CHOOSE k \in at(path) : \A m \in at(path) : m <= k) = n
      BY <2>6, <2>7
    <2>10. QED BY <2>4, <2>5, <2>8, <2>9
  <1>5. ASSUME NEW path, path \notin DOMAIN requirements(data)
        PROVE  Version(data, path) = NoVersion
    <2>1. at(path) = {}
      BY <1>3, <1>5
    <2>2. QED BY <2>1 DEF Version
  <1>6. \A path, n : LastAt(data, path, n) => n \in DOMAIN data
    BY DEF LastAt
  <1>7. QED BY <1>3, <1>4, <1>5, <1>6, Zenon DEF LastCounts

\* What the requirements of either reading may be.
IsReqs(r) == DOMAIN r \subseteq ModulePaths /\ \A path \in DOMAIN r : r[path] \in Versions

LEMMA requirementsType ==
  ASSUME NEW data \in Contents \cup {Nil, Garbage}
  PROVE  IsReqs(requirements(data))
  <1>1. CASE data \in {Nil, Garbage}
    <2>1. requirements(data) = <<>> /\ DOMAIN <<>> = {}
      BY <1>1 DEF requirements
    <2>2. QED BY <2>1 DEF IsReqs
  <1>2. CASE data \in Contents
    <2>1. DOMAIN data = 1 .. Len(data)
          /\ \A n \in DOMAIN data : data[n] \in ModulePaths \X Versions
      BY <1>2, RequirementsAssumption
    <2>2. \A n \in DOMAIN data : data[n][1] \in ModulePaths /\ data[n][2] \in Versions
      BY <2>1
    <2>0. LastCounts(data)
      BY <1>2, requirementsFacts
    <2>3. DOMAIN requirements(data) = {data[n][1] : n \in DOMAIN data}
      BY <2>0 DEF LastCounts
    <2>4. ASSUME NEW path \in DOMAIN requirements(data)
          PROVE  requirements(data)[path] \in Versions
      <3>1. PICK k \in DOMAIN data : data[k][1] = path
        BY <2>3
      <3>2. PICK n : LastAt(data, path, n)
        BY <1>2, <3>1, LastAtExists
      <3>3. n \in DOMAIN data /\ requirements(data)[path] = data[n][2]
        BY <2>0, <3>2, Zenon DEF LastCounts
      <3>4. QED BY <2>2, <3>3
    <2>5. DOMAIN requirements(data) \subseteq ModulePaths
      BY <2>2, <2>3
    <2>6. QED BY <2>4, <2>5 DEF IsReqs
  <1>3. QED BY <1>1, <1>2

\* What readGoMod returns of a go.mod it can read.
Reading(content) == IF content = NoFile THEN Nil ELSE content

LEMMA VersionIs ==
  ASSUME NEW content \in Contents \cup {NoFile}, NEW path
  PROVE  VersionIn(requirements(Reading(content)), path) = Version(content, path)
  <1>1. CASE content = NoFile
    <2>1. requirements(Reading(content)) = <<>> /\ DOMAIN <<>> = {}
      BY <1>1 DEF requirements, Reading
    <2>2. Version(content, path) = NoVersion
      BY <1>1 DEF Version
    <2>3. QED BY <2>1, <2>2 DEF VersionIn
  <1>2. CASE content # NoFile
    <2>1. content \in Contents /\ Reading(content) = content
      BY <1>2 DEF Reading
    <2>0. LastCounts(content)
      BY <2>1, requirementsFacts
    <2>2. CASE path \in DOMAIN requirements(content)
      <3>1. PICK k \in DOMAIN content : content[k][1] = path
        BY <2>0, <2>2 DEF LastCounts
      <3>2. PICK n : LastAt(content, path, n)
        BY <2>1, <3>1, LastAtExists
      <3>3. requirements(content)[path] = Version(content, path)
        BY <2>0, <3>2, Zenon DEF LastCounts
      <3>4. QED BY <2>1, <2>2, <3>3 DEF VersionIn
    <2>3. CASE path \notin DOMAIN requirements(content)
      BY <2>0, <2>1, <2>3 DEF VersionIn, LastCounts
    <2>4. QED BY <2>2, <2>3
  <1>3. QED BY <1>1, <1>2

------------------------------------------------------------------------------
(* The changes.                                                            *)

Moved(f, t, path) == VersionIn(f, path) # VersionIn(t, path)

MoveOf(f, t, path) == Change(path, VersionIn(f, path), VersionIn(t, path))

\* chs has each module of S that moved, once, and no other.
Listing(chs, S, f, t) ==
    /\ chs \in Seq(Moves)
    /\ \A n \in DOMAIN chs :
          /\ chs[n].path \in S /\ Moved(f, t, chs[n].path)
          /\ chs[n] = MoveOf(f, t, chs[n].path)
    /\ \A m, n \in DOMAIN chs : chs[m].path = chs[n].path => m = n
    /\ \A path \in S : Moved(f, t, path) => \E n \in DOMAIN chs : chs[n].path = path

LEMMA MoveOfFacts ==
  ASSUME NEW f, NEW t, IsReqs(f), IsReqs(t), NEW path \in ModulePaths
  PROVE  MoveOf(f, t, path) \in Moves /\ MoveOf(f, t, path).path = path
  <1>1. VersionIn(f, path) \in Versions \cup {NoVersion}
        /\ VersionIn(t, path) \in Versions \cup {NoVersion}
    BY DEF IsReqs, VersionIn
  <1>2. QED BY <1>1 DEF MoveOf, Change, Moves

LEMMA ListingNothing ==
  ASSUME NEW f, NEW t PROVE Listing(<<>>, {}, f, t)
  BY DEF Listing

\* A module that did not move has nothing to be listed.
LEMMA ListingStays ==
  ASSUME NEW chs, NEW S, NEW f, NEW t, Listing(chs, S, f, t), NEW path, ~Moved(f, t, path)
  PROVE  Listing(chs, S \cup {path}, f, t)
  BY DEF Listing

\* One that did is listed.
LEMMA ListingGrows ==
  ASSUME NEW chs, NEW S, NEW f, NEW t, Listing(chs, S, f, t), IsReqs(f), IsReqs(t),
         NEW path \in ModulePaths, Moved(f, t, path), path \notin S
  PROVE  Listing(Append(chs, MoveOf(f, t, path)), S \cup {path}, f, t)
  <1> DEFINE c == MoveOf(f, t, path)
             out == Append(chs, c)
  <1>1. c \in Moves /\ c.path = path
    BY MoveOfFacts
  <1>2. chs \in Seq(Moves) /\ Len(chs) \in Nat /\ DOMAIN chs = 1 .. Len(chs)
    BY DEF Listing
  <1> HIDE DEF c
  <1>3. /\ out \in Seq(Moves) /\ DOMAIN out = 1 .. Len(chs) + 1 /\ out[Len(chs) + 1] = c
        /\ \A n \in 1 .. Len(chs) : out[n] = chs[n]
    BY <1>1, <1>2
  <1> HIDE DEF out
  <1>4. \A n \in DOMAIN out : n \in DOMAIN chs \/ n = Len(chs) + 1
    BY <1>2, <1>3
  <1>5. ASSUME NEW n \in DOMAIN out
        PROVE  /\ out[n].path \in S \cup {path} /\ Moved(f, t, out[n].path)
               /\ out[n] = MoveOf(f, t, out[n].path)
    <2>1. CASE n \in DOMAIN chs
      BY <1>2, <1>3, <2>1 DEF Listing
    <2>2. CASE n = Len(chs) + 1
      BY <1>1, <1>3, <2>2 DEF c
    <2>3. QED BY <1>4, <2>1, <2>2
  <1>6. ASSUME NEW m \in DOMAIN out, NEW n \in DOMAIN out, out[m].path = out[n].path
        PROVE  m = n
    <2>1. \A k \in DOMAIN chs : out[k] = chs[k] /\ chs[k].path # path
      BY <1>2, <1>3 DEF Listing
    <2>2. CASE m \in DOMAIN chs /\ n \in DOMAIN chs
      BY <1>6, <2>1, <2>2 DEF Listing
    <2>3. QED BY <1>1, <1>3, <1>4, <1>6, <2>1, <2>2
  <1>7. ASSUME NEW q \in S \cup {path}, Moved(f, t, q)
        PROVE  \E n \in DOMAIN out : out[n].path = q
    <2>1. CASE q = path
      <3>1. Len(chs) + 1 \in DOMAIN out
        BY <1>2, <1>3
      <3>2. QED BY <1>1, <1>3, <2>1, <3>1
    <2>2. CASE q # path
      <3>1. PICK n \in DOMAIN chs : chs[n].path = q
        BY <1>7, <2>2 DEF Listing
      <3>2. n \in DOMAIN out /\ out[n] = chs[n]
        BY <1>2, <1>3, <3>1
      <3>3. QED BY <3>1, <3>2
    <2>3. QED BY <2>1, <2>2
  <1>8. QED BY <1>3, <1>5, <1>6, <1>7 DEF Listing, out, c

\* In the order of their paths they are the same modules.
Paths(chs) == [n \in DOMAIN chs |-> chs[n].path]

LEMMA ListingSorted ==
  ASSUME NEW chs, NEW S, NEW f, NEW t, Listing(chs, S, f, t)
  PROVE  /\ Listing(Sort(chs, Paths(chs)), S, f, t)
         /\ \A j, k \in DOMAIN Sort(chs, Paths(chs)) :
               j < k => Sort(chs, Paths(chs))[j].path < Sort(chs, Paths(chs))[k].path
  <1> DEFINE out == Sort(chs, Paths(chs))
             D == DOMAIN chs
  <1>1. /\ chs \in Seq(Moves) /\ D = 1 .. Len(chs) /\ Len(chs) \in Nat
        /\ \A n \in D : chs[n] \in Moves
    BY DEF Listing
  <1>2. \A n \in D : chs[n].path \in Nat
    BY <1>1, RequirementsAssumption DEF Moves
  <1>3. Paths(chs) \in Seq(Nat) /\ Len(Paths(chs)) = Len(chs) /\ DOMAIN Paths(chs) = D
    BY <1>1, <1>2 DEF Paths
  <1>4. \A n \in D : Paths(chs)[n] = chs[n].path
    BY DEF Paths
  <1>5. Sorted(Moves, chs, Paths(chs), out)
    BY <1>1, <1>3, SortFacts
  <1> HIDE DEF out
  <1>6. out \in Seq(Moves) /\ DOMAIN out = D
    BY <1>3, <1>5 DEF Sorted
  <1>7. PICK p : Sorts(p, Paths(chs)) /\ \A k \in D : out[k] = chs[p[k]]
    BY <1>3, <1>5, Zenon DEF Sorted
  <1> HIDE DEF D
  <1>8. /\ \A k \in D : p[k] \in D
        /\ \A n \in D : \E k \in D : p[k] = n
        /\ \A j, k \in D : j < k => p[j] # p[k] /\ Paths(chs)[p[j]] <= Paths(chs)[p[k]]
    BY <1>3, <1>7 DEF Sorts
  <1>9. ASSUME NEW j \in D, NEW k \in D, j < k PROVE out[j].path < out[k].path
    <2>1. p[j] \in D /\ p[k] \in D /\ p[j] # p[k] /\ Paths(chs)[p[j]] <= Paths(chs)[p[k]]
      BY <1>8, <1>9
    <2>2. chs[p[j]].path <= chs[p[k]].path
      BY <1>4, <2>1
    <2>3. chs[p[j]].path # chs[p[k]].path
      BY <2>1 DEF Listing, D
    <2>4. chs[p[j]].path \in Nat /\ chs[p[k]].path \in Nat
      BY <1>2, <2>1
    <2>5. chs[p[j]].path < chs[p[k]].path
      BY <2>2, <2>3, <2>4
    <2>6. QED BY <1>7, <2>5
  <1>10. ASSUME NEW k \in D
         PROVE  /\ out[k].path \in S /\ Moved(f, t, out[k].path)
                /\ out[k] = MoveOf(f, t, out[k].path)
    <2>1. p[k] \in D /\ out[k] = chs[p[k]]
      BY <1>7, <1>8
    <2>2. /\ chs[p[k]].path \in S /\ Moved(f, t, chs[p[k]].path)
          /\ chs[p[k]] = MoveOf(f, t, chs[p[k]].path)
      BY <2>1, Zenon DEF Listing, D
    <2>3. QED BY <2>1, <2>2, Zenon
  <1>11. ASSUME NEW j \in D, NEW k \in D, out[j].path = out[k].path PROVE j = k
    <2>1. j \in Nat /\ k \in Nat
      BY <1>1 DEF D
    <2>2. out[j].path \in Nat /\ out[k].path \in Nat
      BY <1>2, <1>7, <1>8
    <2>3. QED BY <1>9, <1>11, <2>1, <2>2
  <1>12. ASSUME NEW path \in S, Moved(f, t, path) PROVE \E k \in D : out[k].path = path
    <2>1. PICK n \in D : chs[n].path = path
      BY <1>12 DEF Listing, D
    <2>2. PICK k \in D : p[k] = n
      BY <1>8
    <2>3. QED BY <1>7, <2>1, <2>2
  <1>13. Listing(out, S, f, t)
    BY <1>6, <1>10, <1>11, <1>12 DEF Listing
  <1>14. QED BY <1>6, <1>9, <1>13 DEF out

------------------------------------------------------------------------------
(* The steps.                                                              *)

BeforeLoops == {"read", "task", "test", "before", "after"}

\* The modules the loops have been through.
Seen ==
    IF pc = "to" THEN DOMAIN to \ todo
    ELSE IF pc = "from" THEN DOMAIN to \cup (DOMAIN from \ todo)
    ELSE ModulePaths

\* What has been read of go.mod, unless a reading failed.
ReadOK ==
    /\ pc = "read" => goMod = head
    /\ pc # "read" /\ ~unread => before = Reading(head)
    /\ pc \notin {"read", "task", "test"} /\ ~unread => after = Reading(goMod)

\* What is compared is what was read.
ComparedOK ==
    /\ IsReqs(from) /\ IsReqs(to)
    /\ pc \in BeforeLoops => changes = <<>>
    /\ pc = "after" => from = requirements(before) /\ before # Garbage
    /\ pc \in {"to", "from"} => Garbage \notin {before, after}
    /\ pc \notin BeforeLoops /\ Garbage \in {before, after} => changes = <<>>
    /\ pc \notin BeforeLoops /\ Garbage \notin {before, after} =>
          from = requirements(before) /\ to = requirements(after)

\* The changes so far are those of the modules gone through.
ListedOK ==
    /\ pc = "to" => todo \subseteq DOMAIN to
    /\ pc = "from" => todo \subseteq DOMAIN from
    /\ pc \notin BeforeLoops /\ Garbage \notin {before, after} => Listing(changes, Seen, from, to)

\* The report, before it is made and after.
ReportOK ==
    /\ pc # "done" => \E failed \in BOOLEAN :
          report = [named |-> <<>>, more |-> 0, modules |-> <<>>, failed |-> failed]
    /\ pc = "done" =>
          /\ report.modules = Sort(changes, Paths(changes))
          /\ \/ report.named = collapseVendor(files) /\ report.more = 0
             \/ /\ report.failed /\ Len(collapseVendor(files)) > MaxDescribedFiles
                /\ report.named = SubSeq(collapseVendor(files), 1, MaxDescribedFiles)
                /\ report.more = Len(collapseVendor(files)) - MaxDescribedFiles

MoveInv == ReadOK /\ ComparedOK /\ ListedOK /\ ReportOK

Inv == TypeOK /\ MoveInv

LEMMA InitInv == Init => Inv
  <1> SUFFICES ASSUME Init PROVE Inv
    OBVIOUS
  <1>1. TypeOK
    <2>1. DOMAIN <<>> = {} /\ <<>> \in Seq(Moves) /\ <<>> \in Seq(Nat)
      OBVIOUS
    <2>2. report.named = <<>> /\ report.more = 0 /\ report.failed = FALSE
      BY DEF Init, NoReport
    <2>3. report.named \in Seq(Nat) /\ report.more \in Nat /\ report.failed \in BOOLEAN
      <3>1. report.named \in Seq(Nat)
        BY <2>1, <2>2, Zenon
      <3>2. report.more \in Nat
        BY <2>2
      <3>3. FALSE \in BOOLEAN
        OBVIOUS
      <3>4. QED BY <2>2, <3>1, <3>2, <3>3, Zenon
    <2>4. {goMod, head} \subseteq Contents \cup {NoFile, Garbage}
          /\ {before, after} \subseteq Contents \cup {Nil, Garbage}
      BY DEF Init
    <2>5. /\ unread \in BOOLEAN /\ files \in FileLists \cup {<<>>} /\ todo \subseteq ModulePaths
          /\ DOMAIN from \subseteq ModulePaths /\ DOMAIN to \subseteq ModulePaths
          /\ changes \in Seq(Moves)
      <3>1. unread = FALSE /\ files = <<>> /\ todo = {} /\ from = <<>> /\ to = <<>> /\ changes = <<>>
        BY DEF Init
      <3>2. QED BY <2>1, <3>1
    <2>6. QED BY <2>3, <2>4, <2>5, Zenon DEF TypeOK
  <1>2. IsReqs(<<>>)
    BY DEF IsReqs
  <1>3. ReadOK /\ ComparedOK /\ ListedOK
    BY <1>2 DEF Init, ReadOK, ComparedOK, ListedOK, BeforeLoops
  <1>4. ReportOK
    BY DEF Init, ReportOK, NoReport
  <1>5. QED BY <1>1, <1>3, <1>4 DEF Inv, MoveInv

\* Reading go.mod, and what the task and its test do.
LEMMA ReadBeforeInv == Inv /\ ReadBefore => Inv'
  <1> SUFFICES ASSUME Inv, ReadBefore PROVE Inv'
    OBVIOUS
  <1>1. /\ pc = "read" /\ pc' = "task" /\ goMod' = goMod /\ head' = head /\ after' = after
        /\ files' = files /\ from' = from /\ to' = to /\ todo' = todo /\ changes' = changes
        /\ report' = report
    BY DEF ReadBefore, Goto
  <1>2. /\ (before' \in {Nil, goMod} /\ goMod # NoFile) \/ before' = Nil
        /\ unread' \in {unread, TRUE} /\ (~unread' => before' = Reading(goMod))
    BY DEF ReadBefore, readGoMod, Reading
  <1>3. TypeOK'
    BY <1>1, <1>2 DEF Inv, TypeOK
  <1>4. ReadOK' /\ ComparedOK' /\ ListedOK' /\ ReportOK'
    BY <1>1, <1>2 DEF Inv, MoveInv, ReadOK, ComparedOK, ListedOK, ReportOK, BeforeLoops
  <1>5. QED BY <1>3, <1>4 DEF Inv, MoveInv

LEMMA RunTaskInv == Inv /\ RunTask => Inv'
  <1> SUFFICES ASSUME Inv, RunTask PROVE Inv'
    OBVIOUS
  <1>1. /\ pc = "task" /\ pc' = "test" /\ head' = head /\ before' = before /\ after' = after
        /\ unread' = unread /\ from' = from /\ to' = to /\ todo' = todo /\ changes' = changes
        /\ report' = report
        /\ goMod' \in Contents \cup {NoFile, Garbage} /\ files' \in FileLists
    BY DEF RunTask, Goto
  <1>2. TypeOK'
    BY <1>1 DEF Inv, TypeOK
  <1>3. ReadOK' /\ ComparedOK' /\ ListedOK' /\ ReportOK'
    BY <1>1 DEF Inv, MoveInv, ReadOK, ComparedOK, ListedOK, ReportOK, BeforeLoops
  <1>4. QED BY <1>2, <1>3 DEF Inv, MoveInv

LEMMA TestInv == Inv /\ Test => Inv'
  <1> SUFFICES ASSUME Inv, Test PROVE Inv'
    OBVIOUS
  <1>1. /\ pc = "test" /\ pc' = "before" /\ goMod' = goMod /\ head' = head /\ before' = before
        /\ files' = files /\ from' = from /\ to' = to /\ todo' = todo /\ changes' = changes
    BY DEF Test, Goto
  <1>2. /\ (after' \in {Nil, goMod} /\ goMod # NoFile) \/ after' = Nil
        /\ unread' \in {unread, TRUE} /\ (~unread' => ~unread /\ after' = Reading(goMod))
    <2>1. PICK a \in {goMod, Nil} : readGoMod(a) /\ after' = a
      BY DEF Test
    <2>2. CASE after' = (IF goMod = NoFile THEN Nil ELSE goMod) /\ UNCHANGED unread
      BY <2>2 DEF Reading
    <2>3. CASE goMod # NoFile /\ after' = Nil /\ unread' = TRUE
      BY <2>3
    <2>4. QED BY <2>1, <2>2, <2>3 DEF readGoMod
  <1>3. \E failed \in BOOLEAN :
          report' = [named |-> <<>>, more |-> 0, modules |-> <<>>, failed |-> failed]
    <2>1. PICK was \in BOOLEAN :
            report = [named |-> <<>>, more |-> 0, modules |-> <<>>, failed |-> was]
      BY <1>1 DEF Inv, MoveInv, ReportOK
    <2>2. PICK failed \in BOOLEAN : report' = [report EXCEPT !.failed = failed]
      BY DEF Test
    <2>3. report' = [named |-> <<>>, more |-> 0, modules |-> <<>>, failed |-> failed]
      BY <2>1, <2>2
    <2>4. QED BY <2>3
  <1>4. TypeOK'
    <2>1. report'.named \in Seq(Nat) /\ report'.more \in Nat /\ report'.failed \in BOOLEAN
      BY <1>3
    <2>2. QED BY <1>1, <1>2, <2>1 DEF Inv, TypeOK
  <1>5. ReadOK' /\ ComparedOK' /\ ListedOK' /\ ReportOK'
    BY <1>1, <1>2, <1>3 DEF Inv, MoveInv, ReadOK, ComparedOK, ListedOK, ReportOK, BeforeLoops
  <1>6. QED BY <1>4, <1>5 DEF Inv, MoveInv

\* The two sides.
LEMMA CompareBeforeInv == Inv /\ CompareBefore => Inv'
  <1> SUFFICES ASSUME Inv, CompareBefore PROVE Inv'
    OBVIOUS
  <1>1. /\ pc = "before" /\ goMod' = goMod /\ head' = head /\ before' = before /\ after' = after
        /\ unread' = unread /\ files' = files /\ to' = to /\ todo' = todo /\ changes' = changes
        /\ report' = report /\ from' = requirements(before)
        /\ pc' = IF before = Garbage THEN "sort" ELSE "after"
    BY DEF CompareBefore
  <1>2. IsReqs(from')
    BY <1>1, requirementsType DEF Inv, TypeOK
  <1>3. TypeOK'
    BY <1>1, <1>2 DEF Inv, TypeOK, IsReqs
  <1>4. ReadOK' /\ ComparedOK' /\ ListedOK' /\ ReportOK'
    BY <1>1, <1>2 DEF Inv, MoveInv, ReadOK, ComparedOK, ListedOK, ReportOK, BeforeLoops
  <1>5. QED BY <1>3, <1>4 DEF Inv, MoveInv

LEMMA CompareAfterInv == Inv /\ CompareAfter => Inv'
  <1> SUFFICES ASSUME Inv, CompareAfter PROVE Inv'
    OBVIOUS
  <1>1. /\ pc = "after" /\ goMod' = goMod /\ head' = head /\ before' = before /\ after' = after
        /\ unread' = unread /\ files' = files /\ from' = from /\ changes' = changes
        /\ report' = report /\ to' = requirements(after)
        /\ pc' = IF after = Garbage THEN "sort" ELSE "to"
        /\ todo' = IF after = Garbage THEN todo ELSE DOMAIN to'
    BY DEF CompareAfter
  <1>2. IsReqs(to')
    BY <1>1, requirementsType DEF Inv, TypeOK
  <1>3. TypeOK'
    BY <1>1, <1>2 DEF Inv, TypeOK, IsReqs
  <1>4. ReadOK' /\ ComparedOK' /\ ReportOK'
    BY <1>1, <1>2 DEF Inv, MoveInv, ReadOK, ComparedOK, ReportOK, BeforeLoops
  <1>5. ListedOK'
    <2>1. CASE after = Garbage
      BY <1>1, <2>1 DEF ListedOK, BeforeLoops
    <2>2. CASE after # Garbage
      <3>1. pc' = "to" /\ todo' = DOMAIN to' /\ changes' = <<>>
        BY <1>1, <2>2 DEF Inv, MoveInv, ComparedOK, BeforeLoops
      <3>2. Seen' = {}
        BY <3>1 DEF Seen
      <3>3. Listing(changes', Seen', from', to')
        BY <3>1, <3>2, ListingNothing
      <3>4. QED BY <3>1, <3>3 DEF ListedOK
    <2>3. QED BY <2>1, <2>2
  <1>6. QED BY <1>3, <1>4, <1>5 DEF Inv, MoveInv

\* One round of a loop, of a module it had not been through: the changes are
\* what they should be if they gain just the module's, when it moved.
LEMMA RoundInv ==
  ASSUME Inv, NEW path \in todo, todo' = todo \ {path}, pc' = pc,
         UNCHANGED <<goMod, head, before, after, unread, files, from, to, report>>,
         pc \in {"to", "from"}, Seen' = Seen \cup {path},
         path \in Seen => changes' = changes,
         path \notin Seen => changes' = IF Moved(from, to, path)
                                       THEN Append(changes, MoveOf(from, to, path)) ELSE changes
  PROVE  Inv'
  <1>1. /\ IsReqs(from) /\ IsReqs(to) /\ todo \subseteq ModulePaths /\ changes \in Seq(Moves)
        /\ Garbage \notin {before, after} /\ Listing(changes, Seen, from, to)
        /\ from = requirements(before) /\ to = requirements(after)
        /\ pc \notin BeforeLoops /\ pc \notin {"read", "task", "test", "after", "done"}
    BY DEF Inv, TypeOK, MoveInv, ComparedOK, ListedOK, BeforeLoops
  <1>2. path \in ModulePaths
    BY <1>1
  <1>3. Listing(changes', Seen', from', to')
    <2>1. CASE path \in Seen
      <3>1. Seen' = Seen
        BY <2>1
      <3>2. QED BY <1>1, <2>1, <3>1
    <2>2. CASE path \notin Seen /\ Moved(from, to, path)
      <3>1. Listing(Append(changes, MoveOf(from, to, path)), Seen \cup {path}, from, to)
        BY <1>1, <1>2, <2>2, ListingGrows
      <3>2. changes' = Append(changes, MoveOf(from, to, path)) /\ from' = from /\ to' = to
        BY <2>2
      <3>3. QED BY <3>1, <3>2, Zenon
    <2>3. CASE path \notin Seen /\ ~Moved(from, to, path)
      BY <1>1, <2>3, ListingStays
    <2>4. QED BY <2>1, <2>2, <2>3
  <1>4. changes' \in Seq(Moves)
    BY <1>3 DEF Listing
  <1>5. TypeOK'
    BY <1>1, <1>4 DEF Inv, TypeOK
  <1>6. ReadOK'
    BY <1>1 DEF Inv, MoveInv, ReadOK
  <1>7. ComparedOK'
    BY <1>1 DEF ComparedOK
  <1>8. ListedOK'
    BY <1>1, <1>3 DEF Inv, MoveInv, ListedOK
  <1>9. ReportOK'
    BY <1>1 DEF Inv, MoveInv, ReportOK
  <1>10. QED BY <1>5, <1>6, <1>7, <1>8, <1>9 DEF Inv, MoveInv

LEMMA LoopToInv == Inv /\ LoopTo => Inv'
  <1> SUFFICES ASSUME Inv, LoopTo PROVE Inv'
    OBVIOUS
  <1>1. PICK path \in todo :
          /\ todo' = todo \ {path}
          /\ changes' = IF VersionIn(from, path) = to[path] THEN changes
                        ELSE Append(changes, Change(path, VersionIn(from, path), to[path]))
    BY DEF LoopTo
  <1>2. /\ pc = "to" /\ pc' = pc
        /\ UNCHANGED <<goMod, head, before, after, unread, files, from, to, report>>
    BY DEF LoopTo
  <1>3. path \in DOMAIN to /\ todo \subseteq DOMAIN to
    BY <1>1, <1>2 DEF Inv, MoveInv, ListedOK
  <1>4. VersionIn(to, path) = to[path]
    BY <1>3 DEF VersionIn
  <1>5. Seen = DOMAIN to \ todo /\ Seen' = DOMAIN to \ todo'
    BY <1>2 DEF Seen
  <1>6. path \notin Seen /\ Seen' = Seen \cup {path}
    BY <1>1, <1>3, <1>5
  <1>7. changes' = IF Moved(from, to, path) THEN Append(changes, MoveOf(from, to, path))
                   ELSE changes
    BY <1>1, <1>4, Zenon DEF Moved, MoveOf
  <1>8. QED BY <1>1, <1>2, <1>6, <1>7, RoundInv

LEMMA LoopFromInv == Inv /\ LoopFrom => Inv'
  <1> SUFFICES ASSUME Inv, LoopFrom PROVE Inv'
    OBVIOUS
  <1>1. PICK path \in todo :
          /\ todo' = todo \ {path}
          /\ changes' = IF path \in DOMAIN to THEN changes
                        ELSE Append(changes, Change(path, from[path], NoVersion))
    BY DEF LoopFrom
  <1>2. /\ pc = "from" /\ pc' = pc
        /\ UNCHANGED <<goMod, head, before, after, unread, files, from, to, report>>
    BY DEF LoopFrom
  <1>3. path \in DOMAIN from /\ todo \subseteq DOMAIN from /\ IsReqs(from)
    BY <1>1, <1>2 DEF Inv, MoveInv, ListedOK, ComparedOK
  <1>4. Seen = DOMAIN to \cup (DOMAIN from \ todo) /\ Seen' = DOMAIN to \cup (DOMAIN from \ todo')
    BY <1>2 DEF Seen
  <1>5. Seen' = Seen \cup {path} /\ (path \in Seen <=> path \in DOMAIN to)
    BY <1>1, <1>3, <1>4
  <1>6. path \in Seen => changes' = changes
    BY <1>1, <1>5
  <1>7. ASSUME path \notin Seen
        PROVE  changes' = IF Moved(from, to, path) THEN Append(changes, MoveOf(from, to, path))
                          ELSE changes
    <2>1. path \notin DOMAIN to /\ VersionIn(to, path) = NoVersion
      BY <1>5, <1>7 DEF VersionIn
    <2>2. VersionIn(from, path) = from[path] /\ from[path] # NoVersion
      BY <1>3, RequirementsAssumption DEF VersionIn, IsReqs
    <2>3. Moved(from, to, path) /\ MoveOf(from, to, path) = Change(path, from[path], NoVersion)
      BY <2>1, <2>2 DEF Moved, MoveOf
    <2>4. QED BY <1>1, <2>1, <2>3, Zenon
  <1>8. QED BY <1>1, <1>2, <1>5, <1>6, <1>7, RoundInv

LEMMA EndToInv == Inv /\ EndTo => Inv'
  <1> SUFFICES ASSUME Inv, EndTo PROVE Inv'
    OBVIOUS
  <1>1. /\ pc = "to" /\ pc' = "from" /\ todo = {} /\ todo' = DOMAIN from
        /\ UNCHANGED <<goMod, head, before, after, unread, files, from, to, changes, report>>
    BY DEF EndTo, Goto
  <1>2. TypeOK'
    BY <1>1 DEF Inv, TypeOK
  <1>3. ReadOK' /\ ComparedOK' /\ ReportOK'
    BY <1>1 DEF Inv, MoveInv, ReadOK, ComparedOK, ReportOK, BeforeLoops
  <1>4. Seen' = Seen
    BY <1>1 DEF Seen
  <1>5. ListedOK'
    BY <1>1, <1>4 DEF Inv, MoveInv, ListedOK, BeforeLoops
  <1>6. QED BY <1>2, <1>3, <1>5 DEF Inv, MoveInv

LEMMA EndFromInv == Inv /\ EndFrom => Inv'
  <1> SUFFICES ASSUME Inv, EndFrom PROVE Inv'
    OBVIOUS
  <1>1. /\ pc = "from" /\ pc' = "sort" /\ todo = {}
        /\ UNCHANGED <<goMod, head, before, after, unread, files, from, to, todo, changes, report>>
    BY DEF EndFrom, Goto
  <1>2. TypeOK'
    BY <1>1 DEF Inv, TypeOK
  <1>3. ReadOK' /\ ComparedOK' /\ ReportOK'
    BY <1>1 DEF Inv, MoveInv, ReadOK, ComparedOK, ReportOK, BeforeLoops
  <1>4. /\ Seen = DOMAIN to \cup DOMAIN from /\ Seen' = ModulePaths
        /\ Listing(changes, Seen, from, to) /\ IsReqs(from) /\ IsReqs(to)
    BY <1>1 DEF Inv, MoveInv, ComparedOK, ListedOK, Seen, BeforeLoops
  <1>5. \A path \in ModulePaths \ Seen : ~Moved(from, to, path)
    BY <1>4 DEF Moved, VersionIn
  <1>6. Seen \subseteq ModulePaths
    BY <1>4 DEF IsReqs
  <1>7. Listing(changes, ModulePaths, from, to)
    BY <1>4, <1>5, <1>6 DEF Listing
  <1>8. ListedOK'
    BY <1>1, <1>4, <1>7 DEF ListedOK, BeforeLoops
  <1>9. QED BY <1>2, <1>3, <1>8 DEF Inv, MoveInv

LEMMA ReportInv == Inv /\ Report => Inv'
  <1> SUFFICES ASSUME Inv, Report PROVE Inv'
    OBVIOUS
  <1> DEFINE fs == collapseVendor(files)
             said == IF report.failed THEN described(fs) ELSE [named |-> fs, more |-> 0]
             ms == Sort(changes, Paths(changes))
  <1>1. /\ pc = "sort" /\ pc' = "done"
        /\ UNCHANGED <<goMod, head, before, after, unread, files, from, to, todo, changes>>
    BY DEF Report, Goto
  <1>2. report' = [named |-> said.named, more |-> said.more, failed |-> report.failed,
                   modules |-> ms]
    BY DEF Report, Paths
  <1>3. report.failed \in BOOLEAN /\ files \in FileLists \cup {<<>>}
    BY DEF Inv, TypeOK
  <1>4. fs \in Seq(Nat) /\ Len(fs) \in Nat
    BY <1>3, collapseVendorFacts DEF Lists
  <1> HIDE DEF fs, ms
  <1>5. \/ said.named = fs /\ said.more = 0
        \/ /\ report.failed /\ Len(fs) > MaxDescribedFiles
           /\ said.named = SubSeq(fs, 1, MaxDescribedFiles)
           /\ said.more = Len(fs) - MaxDescribedFiles
    BY DEF described
  <1> HIDE DEF said
  <1>6. /\ report'.named = said.named /\ report'.more = said.more
        /\ report'.failed = report.failed /\ report'.modules = ms
    BY <1>2
  <1>7. said.named \in Seq(Nat) /\ said.more \in Nat
    <2>1. MaxDescribedFiles \in Nat
      BY FilesAssumption
    <2>2. Len(fs) > MaxDescribedFiles => SubSeq(fs, 1, MaxDescribedFiles) \in Seq(Nat)
      BY <1>4, <2>1
    <2>3. CASE said.named = fs /\ said.more = 0
      BY <1>4, <2>3
    <2>4. CASE /\ Len(fs) > MaxDescribedFiles /\ said.named = SubSeq(fs, 1, MaxDescribedFiles)
               /\ said.more = Len(fs) - MaxDescribedFiles
      <3>1. said.named \in Seq(Nat)
        BY <2>2, <2>4
      <3>2. Len(fs) - MaxDescribedFiles \in Nat
        BY <1>4, <2>1, <2>4
      <3>3. QED BY <2>4, <3>1, <3>2
    <2>5. QED BY <1>5, <2>3, <2>4
  <1>8. TypeOK'
    BY <1>1, <1>3, <1>6, <1>7 DEF Inv, TypeOK
  <1>9. ReadOK' /\ ComparedOK'
    BY <1>1 DEF Inv, MoveInv, ReadOK, ComparedOK, BeforeLoops
  <1>10. Seen' = Seen
    BY <1>1 DEF Seen
  <1>11. ListedOK'
    BY <1>1, <1>10 DEF Inv, MoveInv, ListedOK, BeforeLoops
  <1>12. fs' = fs /\ ms' = ms
    BY <1>1 DEF fs, ms
  <1>13. ReportOK'
    BY <1>1, <1>5, <1>6, <1>12 DEF ReportOK, fs, ms
  <1>14. QED BY <1>8, <1>9, <1>11, <1>13 DEF Inv, MoveInv

LEMMA StutterInv == Inv /\ UNCHANGED vars => Inv'
  BY DEF vars, Inv, TypeOK, MoveInv, ReadOK, ComparedOK, ListedOK, ReportOK, Seen, BeforeLoops

LEMMA NextInv == Inv /\ [Next]_vars => Inv'
  BY ReadBeforeInv, RunTaskInv, TestInv, CompareBeforeInv, CompareAfterInv, LoopToInv,
     EndToInv, LoopFromInv, EndFromInv, ReportInv, StutterInv DEF Next, Done

------------------------------------------------------------------------------
(* What the reports say.                                                   *)

LEMMA Correct == Spec => []Inv
  <1>1. Init => Inv
    BY InitInv
  <1>2. Inv /\ [Next]_vars => Inv'
    BY NextInv
  <1>3. QED BY <1>1, <1>2, PTL DEF Spec

LEMMA NothingSorted == Sort(<<>>, Paths(<<>>)) = <<>>
  <1>1. Paths(<<>>) = <<>> /\ <<>> \in Seq(Nat) /\ Len(<<>>) = 0
    BY DEF Paths
  <1>2. Sorted(Nat, <<>>, <<>>, Sort(<<>>, <<>>))
    BY <1>1, SortFacts
  <1>3. Sort(<<>>, <<>>) \in Seq(Nat) /\ Len(Sort(<<>>, <<>>)) = 0
    BY <1>1, <1>2 DEF Sorted
  <1>4. QED BY <1>1, <1>3

LEMMA InvSaysWhatMoved == Inv => SaysWhatMoved
  <1> SUFFICES ASSUME Inv PROVE SaysWhatMoved
    OBVIOUS
  <1> DEFINE ms == report.modules
  <1>1. ASSUME pc = "done" PROVE ms = Sort(changes, Paths(changes)) /\ pc \notin BeforeLoops
    BY <1>1 DEF Inv, MoveInv, ReportOK, BeforeLoops
  <1>2. ASSUME pc = "done", Garbage \in {before, after} PROVE ms = <<>>
    <2>1. changes = <<>>
      BY <1>1, <1>2 DEF Inv, MoveInv, ComparedOK
    <2>2. QED BY <1>1, <1>2, <2>1, NothingSorted
  <1>3. ASSUME pc = "done", Known
        PROVE  /\ Increasing(ms, LAMBDA c : c.path)
               /\ \A n \in DOMAIN ms : ms[n].from # ms[n].to
               /\ \A path \in ModulePaths :
                     LET said == {n \in DOMAIN ms : ms[n].path = path}
                         was == Version(head, path)
                         is == Version(goMod, path)
                     IN IF was = is THEN said = {}
                        ELSE \E n \in said : ms[n] = Change(path, was, is)
    <2>1. before = Reading(head) /\ after = Reading(goMod)
      BY <1>3 DEF Inv, MoveInv, ReadOK, Known
    <2>2. head \in Contents \cup {NoFile} /\ goMod \in Contents \cup {NoFile}
      BY <1>3 DEF Inv, TypeOK, Known
    <2>3. Garbage \notin {before, after}
      BY <1>3, <2>1, RequirementsAssumption DEF Reading, Known
    <2>4. from = requirements(before) /\ to = requirements(after)
      BY <1>1, <1>3, <2>3 DEF Inv, MoveInv, ComparedOK
    <2>5. \A path : VersionIn(from, path) = Version(head, path)
                    /\ VersionIn(to, path) = Version(goMod, path)
      BY <2>1, <2>2, <2>4, VersionIs
    <2>6. Listing(changes, ModulePaths, from, to)
      BY <1>1, <1>3, <2>3 DEF Inv, MoveInv, ListedOK, Seen
    <2>7. Listing(ms, ModulePaths, from, to)
          /\ \A j, k \in DOMAIN ms : j < k => ms[j].path < ms[k].path
      BY <1>1, <1>3, <2>6, ListingSorted, Zenon
    <2> HIDE DEF ms
    <2>8. Increasing(ms, LAMBDA c : c.path)
      BY <2>7 DEF Increasing
    <2>9. ASSUME NEW n \in DOMAIN ms PROVE ms[n].from # ms[n].to
      <3>1. ms[n] = MoveOf(from, to, ms[n].path) /\ Moved(from, to, ms[n].path)
        BY <2>7, Zenon DEF Listing
      <3> DEFINE p == ms[n].path
      <3> HIDE DEF p
      <3>2. ms[n] = Change(p, VersionIn(from, p), VersionIn(to, p))
            /\ VersionIn(from, p) # VersionIn(to, p)
        BY <3>1, Zenon DEF MoveOf, Moved, p
      <3>3. ms[n].from = VersionIn(from, p) /\ ms[n].to = VersionIn(to, p)
        BY <3>2 DEF Change
      <3>4. QED BY <3>2, <3>3
    <2>10. ASSUME NEW path \in ModulePaths, Version(head, path) = Version(goMod, path)
           PROVE  {n \in DOMAIN ms : ms[n].path = path} = {}
      <3>1. ~Moved(from, to, path)
        BY <2>5, <2>10 DEF Moved
      <3>2. QED BY <2>7, <3>1 DEF Listing
    <2>11. ASSUME NEW path \in ModulePaths, Version(head, path) # Version(goMod, path)
           PROVE  \E n \in DOMAIN ms : /\ ms[n].path = path
                     /\ ms[n] = Change(path, Version(head, path), Version(goMod, path))
      <3>1. Moved(from, to, path)
        BY <2>5, <2>11 DEF Moved
      <3>2. PICK n \in DOMAIN ms : ms[n].path = path
        BY <2>7, <3>1 DEF Listing
      <3>3. ms[n] = MoveOf(from, to, ms[n].path)
        BY <2>7, Zenon DEF Listing
      <3>4. ms[n] = Change(path, Version(head, path), Version(goMod, path))
        BY <2>5, <3>2, <3>3 DEF MoveOf
      <3>5. QED BY <3>2, <3>4
    <2>12. QED BY <2>8, <2>9, <2>10, <2>11
  <1>4. QED BY <1>2, <1>3 DEF SaysWhatMoved

\* The property of FilesExact, of the list and the count of a report.
Covers(named, more, shown) ==
    /\ \A m, n \in DOMAIN named : m < n => named[m] < named[n]
    /\ Range(named) \subseteq shown
    /\ Cardinality(shown) = Len(named) + more
    /\ \A f \in shown \ Range(named) : \A n \in DOMAIN named : named[n] < f

LEMMA WholeCovers ==
  ASSUME NEW fs, NEW T, Lists(fs, T), InOrder(fs)
  PROVE  Covers(fs, 0, T)
  <1>1. Range(fs) = T /\ Cardinality(T) = Len(fs) /\ Len(fs) \in Nat
    BY ListsLength DEF Lists
  <1>2. \A m, n \in DOMAIN fs : m < n => fs[m] < fs[n]
    BY DEF InOrder
  <1>3. Cardinality(T) = Len(fs) + 0
    BY <1>1
  <1>4. QED BY <1>1, <1>2, <1>3 DEF Covers

LEMMA FirstCover ==
  ASSUME NEW fs, NEW T, Lists(fs, T), InOrder(fs), NEW M \in Nat, Len(fs) > M
  PROVE  Covers(SubSeq(fs, 1, M), Len(fs) - M, T) /\ Len(SubSeq(fs, 1, M)) = M
  <1> DEFINE g == SubSeq(fs, 1, M)
  <1>1. /\ fs \in Seq(Nat) /\ Len(fs) \in Nat /\ DOMAIN fs = 1 .. Len(fs)
        /\ \A n \in 1 .. Len(fs) : fs[n] \in T /\ fs[n] \in Nat
        /\ \A x \in T : \E n \in 1 .. Len(fs) : fs[n] = x
    BY DEF Lists, Range
  <1>2. Cardinality(T) = Len(fs)
    BY ListsLength
  <1>3. \A j, k \in 1 .. Len(fs) : j < k => fs[j] < fs[k]
    BY <1>1 DEF InOrder
  <1>4. /\ g \in Seq(Nat) /\ Len(g) = M /\ DOMAIN g = 1 .. M
        /\ \A n \in 1 .. M : g[n] = fs[n] /\ n \in 1 .. Len(fs)
    BY <1>1
  <1> HIDE DEF g
  <1>5. \A m, n \in DOMAIN g : m < n => g[m] < g[n]
    BY <1>3, <1>4
  <1>6. Range(g) \subseteq T
    BY <1>1, <1>4 DEF Range
  <1>7. Cardinality(T) = Len(g) + (Len(fs) - M)
    BY <1>1, <1>2, <1>4
  <1>8. ASSUME NEW x \in T \ Range(g), NEW n \in DOMAIN g PROVE g[n] < x
    <2>1. PICK k \in 1 .. Len(fs) : fs[k] = x
      BY <1>1
    <2>2. k \notin 1 .. M
      BY <1>4, <1>8, <2>1 DEF Range
    <2>3. n < k
      BY <1>1, <1>4, <2>1, <2>2
    <2>4. QED BY <1>3, <1>4, <2>1, <2>3
  <1>9. Covers(g, Len(fs) - M, T)
    BY <1>5, <1>6, <1>7, <1>8 DEF Covers
  <1>10. QED BY <1>4, <1>9 DEF g

LEMMA InvFilesExact == Inv => FilesExact
  <1> SUFFICES ASSUME Inv, pc = "done" PROVE FilesExact
    BY DEF FilesExact
  <1> DEFINE fs == collapseVendor(files)
             g == report.named
             k == report.more
  <1>1. files \in FileLists \cup {<<>>} /\ report.failed \in BOOLEAN
    BY DEF Inv, TypeOK
  <1>2. Lists(fs, Shown(files)) /\ InOrder(fs)
    BY <1>1, collapseVendorFacts
  <1>3. \/ g = fs /\ k = 0
        \/ /\ report.failed /\ Len(fs) > MaxDescribedFiles
           /\ g = SubSeq(fs, 1, MaxDescribedFiles) /\ k = Len(fs) - MaxDescribedFiles
    BY DEF Inv, MoveInv, ReportOK
  <1> HIDE DEF fs, g, k
  <1>4. Covers(g, k, Shown(files)) /\ (k > 0 => report.failed /\ Len(g) = MaxDescribedFiles)
    <2>1. CASE g = fs /\ k = 0
      BY <1>2, <2>1, WholeCovers
    <2>2. CASE /\ report.failed /\ Len(fs) > MaxDescribedFiles
               /\ g = SubSeq(fs, 1, MaxDescribedFiles) /\ k = Len(fs) - MaxDescribedFiles
      <3>1. MaxDescribedFiles \in Nat
        BY FilesAssumption
      <3>2. Covers(SubSeq(fs, 1, MaxDescribedFiles), Len(fs) - MaxDescribedFiles, Shown(files))
            /\ Len(SubSeq(fs, 1, MaxDescribedFiles)) = MaxDescribedFiles
        BY <1>2, <2>2, <3>1, FirstCover
      <3>3. QED BY <2>2, <3>2
    <2>3. QED BY <1>3, <2>1, <2>2
  <1>5. Increasing(g, LAMBDA f : f)
    BY <1>4 DEF Increasing, Covers
  <1>6. QED BY <1>4, <1>5 DEF FilesExact, Covers, Shown, g, k

\* At every moment go.mod, its readings, the files, the changes and the report
\* are of their types: modules.go and the part of apply (maintain.go) around it.
THEOREM TypeCorrect == Spec => []TypeOK
  <1>1. Inv => TypeOK
    BY DEF Inv
  <1>2. QED BY <1>1, Correct, PTL

\* A report's module changes are the difference between the requirements of the
\* last commit and those of the worktree, one entry for each module that moved,
\* in the order of the paths, whatever order the two maps are gone through in;
\* and none where a side does not parse (modules.go 33-93).
THEOREM MovesAreTheDifference == Spec => []SaysWhatMoved
  <1>1. Inv => SaysWhatMoved
    BY InvSaysWhatMoved
  <1>2. QED BY <1>1, Correct, PTL

\* A report's files are every changed file and no other, in order, vendor/ once
\* in place of those under it, and a failure counts those it does not name
\* (modules.go 95-138).
THEOREM FilesAreExact == Spec => []FilesExact
  <1>1. Inv => FilesExact
    BY InvFilesExact
  <1>2. QED BY <1>1, Correct, PTL
==============================================================================
