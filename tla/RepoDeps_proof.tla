---------------------------- MODULE RepoDeps_proof ---------------------------
(***************************************************************************)
(* RepoDeps finds exactly the edges and the gaps, for any set and go.mod.  *)
(***************************************************************************)
EXTENDS RepoDeps, TLAPS

\* The requirement at m is of key, or of another spelling of it.
Of(m, key) ==
    /\ onGitHub(requires[m])
    /\ Folded(moduleRepo(requires[m])) = Folded(key)

IInv == TypeOK /\ EdgesExact /\ GapsExact

LEMMA AppendFacts ==
  ASSUME NEW S, NEW s \in Seq(S), NEW x \in S
  PROVE  /\ Append(s, x) \in Seq(S)
         /\ \A y : Contains(Append(s, x), y) <=> Contains(s, y) \/ y = x
         /\ Once(s) /\ ~Contains(s, x) => Once(Append(s, x))
  <1>1. /\ Append(s, x) \in Seq(S)
        /\ DOMAIN Append(s, x) = DOMAIN s \cup {Len(s) + 1}
        /\ Append(s, x)[Len(s) + 1] = x
        /\ \A n \in DOMAIN s : Append(s, x)[n] = s[n]
    OBVIOUS
  <1> DEFINE t == Append(s, x)
  <1> HIDE DEF t
  <1>2. /\ DOMAIN t = DOMAIN s \cup {Len(s) + 1} /\ t[Len(s) + 1] = x
        /\ \A n \in DOMAIN s : t[n] = s[n]
    BY <1>1 DEF t
  <1>3. \A y : Contains(t, y) <=> Contains(s, y) \/ y = x
    BY <1>2 DEF Contains
  <1>4. Once(s) /\ ~Contains(s, x) => Once(t)
    BY <1>2 DEF Once, Contains
  <1>5. QED BY <1>1, <1>3, <1>4 DEF t

LEMMA RequiredRepository ==
  ASSUME TypeOK, NEW m \in DOMAIN requires
  PROVE  /\ requires[m] \in Seq(Elements)
         /\ onGitHub(requires[m]) => moduleRepo(requires[m]) \in Repositories
  <1>1. requires[m] \in Seq(Elements)
    BY InputsAssumption DEF TypeOK
  <1>2. ASSUME NEW path \in Seq(Elements), Len(path) >= 3
        PROVE  path[2] \in Elements /\ path[3] \in Elements
    <2>1. 2 \in 1 .. Len(path) /\ 3 \in 1 .. Len(path)
      BY <1>2
    <2>2. QED BY <2>1
  <1>3. QED BY <1>1, <1>2 DEF onGitHub, moduleRepo, Repositories

LEMMA MentionsOf ==
  ASSUME TypeOK, NEW key
  PROVE  Mentions(key) = {m \in 1 .. i - 1 : Of(m, key)}
  BY DEF Mentions, Of, onGitHub, moduleRepo

LEMMA KeysFacts ==
  ASSUME TypeOK
  PROVE  /\ keys \in Seq(Repositories)
         /\ \A m, n \in DOMAIN keys : Folded(keys[m]) = Folded(keys[n]) => m = n
  BY InputsAssumption DEF TypeOK

LEMMA InitIInv == Init => IInv
  <1> SUFFICES ASSUME Init PROVE IInv
    OBVIOUS
  <1> USE DEF Init
  <1>1. requires \in Seq(Seq(Elements))
    BY InputsAssumption
  <1>2. TypeOK
    BY <1>1 DEF TypeOK
  <1>3. \A key : Mentions(key) = {}
    BY DEF Mentions
  <1>4. EdgesExact
    BY <1>3 DEF EdgesExact, Once, Contains
  <1>5. GapsExact
    BY DEF GapsExact, Once
  <1>6. QED BY <1>2, <1>4, <1>5 DEF IInv

\* A step considers one requirement more.
LEMMA AdvanceFacts ==
  ASSUME TypeOK, Advance
  PROVE  /\ i \in DOMAIN requires /\ i' \in 1 .. Len(requires) + 1
         /\ 1 .. i' - 1 = (1 .. i - 1) \cup {i}
         /\ i \notin 1 .. i - 1
         /\ \A key : Mentions(key)' =
                        Mentions(key) \cup {m \in {i} : Of(m, key)}
  <1>1. requires \in Seq(Seq(Elements)) /\ i \in 1 .. Len(requires) + 1
    BY InputsAssumption DEF TypeOK
  <1>2. i \in DOMAIN requires /\ i' \in 1 .. Len(requires) + 1 /\ i' = i + 1
    BY <1>1 DEF Advance
  <1>3. 1 .. i' - 1 = (1 .. i - 1) \cup {i} /\ i \notin 1 .. i - 1
    BY <1>1, <1>2
  <1>4. ASSUME NEW key
        PROVE  Mentions(key)' = Mentions(key) \cup {m \in {i} : Of(m, key)}
    BY <1>3 DEF Mentions, Of, onGitHub, moduleRepo, Advance
  <1>5. QED BY <1>2, <1>3, <1>4

\* GapsExact as it is after a step, its last conjunct in terms of onGitHub.
LEMMA GapsRestated ==
  ASSUME TypeOK, Advance, Once(unmaintained)',
         \A y : \A m \in DOMAIN unmaintained' : y = unmaintained'[m] =>
            Mentions(y)' # {} /\ owned(y)' /\ known(y)' = {},
         \A m \in 1 .. i' - 1 :
            /\ onGitHub(requires[m])
            /\ owned(moduleRepo(requires[m]))
            /\ known(moduleRepo(requires[m])) = {}
            => Contains(unmaintained', moduleRepo(requires[m]))
  PROVE  GapsExact'
  <1>1. UNCHANGED <<keys, requires>>
    BY DEF Advance
  <1>2. \A key : known(key)' = known(key) /\ owned(key)' = owned(key)
    BY <1>1 DEF known, owned
  <1>3. ASSUME NEW m \in 1 .. i' - 1, NEW key, key = moduleRepo(requires[m]),
               m \in Mentions(key)', owned(key)', known(key)' = {}
        PROVE  Contains(unmaintained', key)
    <2>1. onGitHub(requires[m])
      BY <1>1, <1>3 DEF Mentions, onGitHub
    <2>2. QED BY <1>2, <1>3, <2>1
  <1>4. ASSUME NEW m \in DOMAIN unmaintained'
        PROVE  (/\ Mentions(unmaintained[m]) # {}
                /\ owned(unmaintained[m]) /\ known(unmaintained[m]) = {})'
    <2>1. PICK y : y = unmaintained'[m]
      OBVIOUS
    <2>2. Mentions(y)' # {} /\ owned(y)' /\ known(y)' = {}
      BY <1>4, <2>1
    <2>3. QED BY <2>1, <2>2 DEF Mentions, owned, known
  <1>5. ASSUME NEW m \in 1 .. i' - 1, Len(requires[m]) >= 3
        PROVE  (LET key == <<requires[m][2], requires[m][3]>>
                IN m \in Mentions(key) /\ owned(key) /\ known(key) = {}
                      => Contains(unmaintained, key))'
    <2>1. PICK key : key = moduleRepo(requires[m])
      OBVIOUS
    <2>2. m \in Mentions(key)' /\ owned(key)' /\ known(key)' = {}
            => Contains(unmaintained', key)
      BY <1>3, <2>1
    <2>3. key = <<requires'[m][2], requires'[m][3]>>
      BY <1>1, <2>1 DEF moduleRepo
    <2>4. QED BY <2>2, <2>3 DEF Mentions, owned, known, Contains
  <1>6. QED BY <1>1, <1>4, <1>5 DEF GapsExact

\* A requirement that is no gap leaves the gaps exact.
LEMMA GapsKept ==
  ASSUME IInv, Advance, UNCHANGED unmaintained,
         \/ ~onGitHub(requires[i])
         \/ known(moduleRepo(requires[i])) # {}
         \/ ~owned(moduleRepo(requires[i]))
  PROVE  GapsExact'
  <1>1. TypeOK /\ GapsExact
    BY DEF IInv
  <1>2. UNCHANGED <<keys, requires, unmaintained>>
    BY DEF Advance
  <1>3. \A key : known(key)' = known(key) /\ owned(key)' = owned(key)
    BY <1>2 DEF known, owned
  <1>4. Once(unmaintained)'
    BY <1>1, <1>2 DEF GapsExact, Once
  <1>5. ASSUME NEW y, NEW m \in DOMAIN unmaintained', y = unmaintained'[m]
        PROVE  Mentions(y)' # {} /\ owned(y)' /\ known(y)' = {}
    BY <1>1, <1>2, <1>3, <1>5, AdvanceFacts DEF GapsExact
  <1>6. ASSUME NEW m \in 1 .. i' - 1, onGitHub(requires[m]),
               owned(moduleRepo(requires[m])), known(moduleRepo(requires[m])) = {}
        PROVE  Contains(unmaintained, moduleRepo(requires[m]))
    <2>1. m \in 1 .. i - 1
      BY <1>1, <1>6, AdvanceFacts
    <2>2. m \in Mentions(moduleRepo(requires[m]))
      BY <1>1, <1>6, <2>1, MentionsOf DEF Of
    <2>3. QED BY <1>1, <1>6, <2>1, <2>2 DEF GapsExact, onGitHub, moduleRepo
  <1>7. QED BY <1>1, <1>2, <1>3, <1>4, <1>5, <1>6, GapsRestated

LEMMA MaintainedIInv == IInv /\ Maintained => IInv'
  <1> SUFFICES ASSUME IInv, Maintained PROVE IInv'
    OBVIOUS
  <1>1. TypeOK /\ Advance /\ UNCHANGED <<keys, requires, unmaintained>>
    BY DEF IInv, Maintained, Advance
  <1>2. PICK r : r = Required
    OBVIOUS
  <1>3. /\ onGitHub(requires[i]) /\ r = moduleRepo(requires[i])
        /\ r \in Repositories
    BY <1>1, <1>2, AdvanceFacts, RequiredRepository DEF Maintained, Required
  <1>4. PICK n \in known(r) :
            maintained' = IF Contains(maintained, keys[n]) THEN maintained
                          ELSE Append(maintained, keys[n])
    BY <1>2 DEF Maintained
  <1>5. n \in DOMAIN keys /\ Folded(keys[n]) = Folded(r) /\ keys[n] \in Repositories
    BY <1>1, <1>4, KeysFacts DEF known
  <1>6. maintained \in Seq(Repositories) /\ Once(maintained)
    BY DEF IInv, TypeOK, EdgesExact
  <1>7. /\ maintained' \in Seq(Repositories)
        /\ Once(maintained')
        /\ \A y : Contains(maintained', y) <=> Contains(maintained, y) \/ y = keys[n]
    BY <1>4, <1>5, <1>6, AppendFacts
  <1>8. TypeOK'
    BY <1>1, <1>7, AdvanceFacts DEF TypeOK
  <1>9. ASSUME NEW k \in DOMAIN keys
        PROVE  Contains(maintained', keys[k]) <=> Mentions(keys[k])' # {}
    <2>1. PICK key : key = keys[k]
      OBVIOUS
    <2>2. Of(i, key) <=> k = n
      BY <1>1, <1>3, <1>5, <2>1, KeysFacts DEF Of
    <2>3. Contains(maintained', key) <=> Mentions(key) # {} \/ key = keys[n]
      BY <1>7, <2>1 DEF IInv, EdgesExact
    <2>4. key = keys[n] <=> k = n
      BY <1>1, <1>5, <2>1, KeysFacts
    <2>5. Mentions(key)' # {} <=> Mentions(key) # {} \/ k = n
      BY <1>1, <2>2, AdvanceFacts
    <2>6. key = keys'[k]
      BY <1>1, <2>1
    <2>7. QED BY <2>1, <2>3, <2>4, <2>5, <2>6
  <1>10. ASSUME NEW m \in DOMAIN maintained'
         PROVE  Contains(keys, maintained'[m])
    <2>1. Contains(maintained', maintained'[m])
      BY DEF Contains
    <2>2. Contains(maintained, maintained'[m]) \/ maintained'[m] = keys[n]
      BY <1>7, <2>1
    <2>3. QED BY <1>5, <2>2 DEF IInv, EdgesExact, Contains
  <1>11. EdgesExact'
    BY <1>1, <1>7, <1>9, <1>10 DEF EdgesExact
  <1>12. GapsExact'
    BY <1>1, <1>3, <1>5, GapsKept
  <1>13. QED BY <1>8, <1>11, <1>12 DEF IInv

\* A requirement of no repository of the set leaves the edges exact.
LEMMA EdgesKept ==
  ASSUME IInv, Advance, UNCHANGED maintained,
         onGitHub(requires[i]) => known(moduleRepo(requires[i])) = {}
  PROVE  EdgesExact'
  <1>1. TypeOK /\ EdgesExact /\ UNCHANGED <<keys, requires, maintained>>
    BY DEF IInv, Advance
  <1>2. ASSUME NEW k \in DOMAIN keys
        PROVE  Mentions(keys[k])' = Mentions(keys[k])
    <2>1. ~Of(i, keys[k])
      BY <1>2 DEF Of, known
    <2>2. QED BY <1>1, <2>1, AdvanceFacts
  <1>3. QED BY <1>1, <1>2 DEF EdgesExact

LEMMA UnmaintainedIInv == IInv /\ Unmaintained => IInv'
  <1> SUFFICES ASSUME IInv, Unmaintained PROVE IInv'
    OBVIOUS
  <1>1. TypeOK /\ GapsExact /\ Advance /\ UNCHANGED <<keys, requires, maintained>>
    BY DEF IInv, Unmaintained, Advance
  <1>2. PICK r : r = moduleRepo(requires[i])
    OBVIOUS
  <1>3. /\ onGitHub(requires[i]) /\ known(r) = {} /\ owned(r)
        /\ unmaintained' = IF Contains(unmaintained, r) THEN unmaintained
                           ELSE Append(unmaintained, r)
    BY <1>2 DEF Unmaintained, Required
  <1>4. r \in Repositories
    BY <1>1, <1>2, <1>3, AdvanceFacts, RequiredRepository
  <1>5. unmaintained \in Seq(Repositories) /\ Once(unmaintained)
    BY <1>1 DEF TypeOK, GapsExact
  <1>6. /\ unmaintained' \in Seq(Repositories)
        /\ Once(unmaintained')
        /\ \A y : Contains(unmaintained', y) <=> Contains(unmaintained, y) \/ y = r
    BY <1>3, <1>4, <1>5, AppendFacts
  <1>7. TypeOK'
    BY <1>1, <1>6, AdvanceFacts DEF TypeOK
  <1>8. EdgesExact'
    BY <1>1, <1>2, <1>3, EdgesKept
  <1>9. \A key : known(key)' = known(key) /\ owned(key)' = owned(key)
    BY <1>1 DEF known, owned
  <1>10. ASSUME NEW m \in DOMAIN unmaintained', NEW y, y = unmaintained'[m]
         PROVE  Mentions(y)' # {} /\ owned(y)' /\ known(y)' = {}
    <2>1. Contains(unmaintained', y)
      BY <1>10 DEF Contains
    <2>2. CASE y = r
      BY <1>1, <1>2, <1>3, <1>9, <2>2, AdvanceFacts DEF Of
    <2>3. CASE Contains(unmaintained, y)
      BY <1>1, <1>9, <2>3, AdvanceFacts DEF GapsExact, Contains
    <2>4. QED BY <1>6, <2>1, <2>2, <2>3
  <1>11. ASSUME NEW m \in 1 .. i' - 1, onGitHub(requires[m]),
                owned(moduleRepo(requires[m])), known(moduleRepo(requires[m])) = {}
         PROVE  Contains(unmaintained', moduleRepo(requires[m]))
    <2>1. CASE m = i
      BY <1>2, <1>6, <2>1
    <2>2. CASE m \in 1 .. i - 1
      <3>1. m \in Mentions(moduleRepo(requires[m]))
        BY <1>1, <1>11, <2>2, MentionsOf DEF Of
      <3>2. Contains(unmaintained, moduleRepo(requires[m]))
        BY <1>1, <1>11, <2>2, <3>1 DEF GapsExact, onGitHub, moduleRepo
      <3>3. QED BY <1>6, <3>2
    <2>3. QED BY <1>1, <2>1, <2>2, AdvanceFacts
  <1>12. Once(unmaintained)'
    BY <1>6 DEF Once
  <1>13. GapsExact'
    BY <1>1, <1>10, <1>11, <1>12, GapsRestated
  <1>14. QED BY <1>7, <1>8, <1>13 DEF IInv

LEMMA NeitherIInv == IInv /\ Neither => IInv'
  <1> SUFFICES ASSUME IInv, Neither PROVE IInv'
    OBVIOUS
  <1>1. TypeOK /\ Advance /\ UNCHANGED <<keys, requires, maintained, unmaintained>>
    BY DEF IInv, Neither, Advance
  <1>2. onGitHub(requires[i]) =>
            known(moduleRepo(requires[i])) = {} /\ ~owned(moduleRepo(requires[i]))
    BY DEF Neither, Required
  <1>3. TypeOK'
    BY <1>1, AdvanceFacts DEF TypeOK
  <1>4. EdgesExact'
    BY <1>1, <1>2, EdgesKept
  <1>5. GapsExact'
    BY <1>1, <1>2, GapsKept
  <1>6. QED BY <1>3, <1>4, <1>5 DEF IInv

LEMMA StepIInv == IInv /\ [Next]_vars => IInv'
  <1> SUFFICES ASSUME IInv, [Next]_vars PROVE IInv'
    OBVIOUS
  <1>1. CASE Maintained
    BY <1>1, MaintainedIInv
  <1>2. CASE Unmaintained
    BY <1>2, UnmaintainedIInv
  <1>3. CASE Neither
    BY <1>3, NeitherIInv
  <1>4. CASE UNCHANGED vars
    <2>1. UNCHANGED <<keys, requires, maintained, unmaintained, i>>
      BY <1>4 DEF vars
    <2>2. TypeOK'
      BY <2>1 DEF IInv, TypeOK
    <2>3. EdgesExact' <=> EdgesExact
      BY <2>1 DEF EdgesExact, Once, Contains, Mentions
    <2>4. GapsExact' <=> GapsExact
      BY <2>1 DEF GapsExact, Once, Contains, Mentions, owned, known
    <2>5. QED BY <2>2, <2>3, <2>4 DEF IInv
  <1>5. QED BY <1>1, <1>2, <1>3, <1>4 DEF Next, Done

------------------------------------------------------------------------------

\* The inductive invariant holds throughout.
THEOREM Invariance == Spec => []IInv
  BY InitIInv, StepIInv, PTL DEF Spec

\* The lists hold repositories and the position never passes the requirements.
THEOREM TypeCorrect == Spec => []TypeOK
  <1>1. IInv => TypeOK
    BY DEF IInv
  <1>2. QED BY <1>1, Invariance, PTL

\* Whatever the set and the go.mod, the edges are exactly the repositories of
\* the set that are required, as the set spells them (lines 14-18).
THEOREM EdgesAreExact == Spec => []EdgesExact
  <1>1. IInv => EdgesExact
    BY DEF IInv
  <1>2. QED BY <1>1, Invariance, PTL

\* Whatever the set and the go.mod, what is reported as unmaintained is exactly
\* what is required of the set's owners outside the set (lines 15-18).
THEOREM GapsAreExact == Spec => []GapsExact
  <1>1. IInv => GapsExact
    BY DEF IInv
  <1>2. QED BY <1>1, Invariance, PTL
==============================================================================
