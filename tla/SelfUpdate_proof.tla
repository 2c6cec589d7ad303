--------------------------- MODULE SelfUpdate_proof --------------------------
(***************************************************************************)
(* What an Outcome says is what happened, and what is installed is what    *)
(* was compared, for any number of processes, versions and machines.       *)
(***************************************************************************)
EXTENDS SelfUpdate, TLAPS

Dirs == {"gobin", "early"}

Steps == {"off", "check", "resolve", "install", "installed", "locate", "returned"}

\* The modules that are asked of the repository itself.
Direct == "module" \in env("GONOPROXY")

Outcomes ==
    [latest : Versions \cup {NoVersion},
     updated : BOOLEAN, reason : BOOLEAN, err : BOOLEAN,
     installed : {Nowhere, <<"gobin", name>>},
     shadowed : {Nowhere, "gobin", "early"}]

\* Whether a process that is the build b may install v, t having been the
\* latest version at its start.
Worth(b, v, t) ==
    /\ v \in Versions
    /\ Published(v) # b
    /\ b.kind \in {"published", "ahead"}
    /\ Direct => v >= t /\ v >= b.version
    /\ v = b.version => b.kind = "ahead"

\* What Update knows at a step, of its build b, outcome o and version w, and
\* of the version t.  An error tells nothing of w.
Knows(step, b, o, w, t) ==
    /\ step # "off" => b # Absent
    /\ step \in {"off", "check", "resolve"} => o = NoOutcome /\ w = NoVersion
    /\ step \in {"check", "resolve"} => b.version <= t
    /\ step = "resolve" => b.kind \in {"published", "ahead"}
    /\ step \in {"install", "installed", "locate"} =>
          /\ Worth(b, o.latest, t)
          /\ o = [NoOutcome EXCEPT !.latest = o.latest]
    /\ step = "install" => w = NoVersion
    /\ step \in {"installed", "locate"} => w = o.latest
    /\ step = "returned" =>
          /\ o.err <=> ~o.reason /\ ~o.updated
          /\ o.reason => ~o.updated
          /\ o.updated => w # NoVersion
          /\ w # NoVersion => w = o.latest /\ ~o.reason /\ Worth(b, w, t)
          /\ ~o.updated => o.installed = Nowhere /\ o.shadowed = Nowhere
          /\ Direct /\ o.latest # NoVersion => o.latest >= t

At(p) == Knows(pc[p], current[p], out[p], wrote[p], since[p])

\* No build is of a version that has not been pushed, or ahead of one, and
\* none is compared.
Pushed ==
    /\ \A d \in Dirs : files[d].version <= latest
    /\ \A p \in Procs : /\ current[p].version <= latest /\ out[p].latest <= latest
                        /\ since[p] <= latest

IInv == TypeOK /\ Pushed /\ \A p \in Procs : At(p)

------------------------------------------------------------------------------
(* Facts on builds and files.                                              *)

LEMMA BuildFacts ==
  /\ Absent \in Builds
  /\ NoOutcome \in Outcomes
  /\ \A v \in Versions : /\ Published(v) \in Builds /\ Build("dirty", v) \in Builds
                         /\ Build("ahead", v) \in Builds
                         /\ Published(v).version = v
  /\ \A b \in Builds : b.version \in Nat
  /\ \A b \in Builds : b.kind = "published" => b.version \in Versions
                                                   /\ b = Published(b.version)
  /\ \A b \in Builds : b # Absent /\ b # Unversioned /\ ~local(b)
                           => b.kind \in {"published", "ahead"}
  BY BoundsAssumption DEF Builds, Build, Published, Absent, Devel, Unversioned, local,
     Versions, NoVersion, NoOutcome, Outcomes

LEMMA SetupFacts ==
  ASSUME TypeOK
  PROVE  /\ setup \in Setup
         /\ DOMAIN setup.path \subseteq {1, 2}
         /\ \A m \in DOMAIN setup.path : setup.path[m] \in Dirs
  <1>1. setup \in Setup
    BY SetupsAssumption DEF TypeOK
  <1>2. setup.path \in {<<>>, <<"gobin">>, <<"early", "gobin">>, <<"gobin", "early">>}
    BY <1>1 DEF Setup
  <1>3. QED BY <1>1, <1>2 DEF Dirs

LEMMA PlaceDirs == \A d \in Dirs : Place(d) \in Dirs
  BY DEF Place, Dirs

LEMMA LookPathDirs ==
  ASSUME TypeOK, NEW x
  PROVE  LookPath(x) \in Dirs \cup {Nowhere}
  <1> DEFINE Found == {m \in DOMAIN setup.path : x = Binary /\ File(setup.path[m]) # Absent}
  <1>1. CASE Found = {}
    BY <1>1 DEF LookPath
  <1>2. CASE Found # {}
    <2>1. Found \subseteq {1, 2}
      BY SetupFacts
    <2>2. \E m \in Found : \A k \in Found : m <= k
      BY <1>2, <2>1
    <2>3. (CHOOSE m \in Found : \A k \in Found : m <= k) \in Found
      BY <2>2
    <2>4. LookPath(x) = setup.path[CHOOSE m \in Found : \A k \in Found : m <= k]
      BY <1>2 DEF LookPath
    <2> HIDE DEF Found
    <2>5. \A m \in Found : setup.path[m] \in Dirs
      BY SetupFacts DEF Found
    <2>6. QED BY <2>3, <2>4, <2>5
  <1>3. QED BY <1>1, <1>2

LEMMA StartedDirs == ASSUME TypeOK PROVE Started \in Dirs
  BY LookPathDirs DEF Started, Dirs

LEMMA StartedBuild ==
  ASSUME IInv
  PROVE  File(Started) \in Builds /\ File(Started).version <= latest
  <1>1. Place(Started) \in Dirs
    BY StartedDirs, PlaceDirs DEF IInv
  <1>2. files \in [Dirs -> Builds]
    BY DEF IInv, TypeOK, Dirs
  <1>3. QED BY <1>1, <1>2 DEF File, IInv, Pushed

\* What is known depends on the machine only by its setup.
LEMMA KnowsStays ==
  ASSUME UNCHANGED setup, NEW step, NEW b, NEW o, NEW w, NEW t
  PROVE  Knows(step, b, o, w, t)' <=> Knows(step, b, o, w, t)
  BY DEF Knows, Worth, Direct, env, patterns, Bypassed

------------------------------------------------------------------------------
(* The invariant.                                                          *)

LEMMA InitIInv == Init => IInv
  <1> SUFFICES ASSUME Init PROVE IInv
    OBVIOUS
  <1> USE DEF Init
  <1>1. \A p \in Procs : /\ pc[p] = "off" /\ current[p] = Absent
                         /\ out[p] = NoOutcome /\ wrote[p] = NoVersion
                         /\ since[p] = NoVersion
    OBVIOUS
  <1>2. setup \in Setup /\ \A d \in Dirs : files[d].version <= 1
    BY SetupsAssumption DEF Dirs
  <1>3. files \in [Dirs -> Builds]
    BY <1>2 DEF Setup, Dirs
  <1>4. NoOutcome \in Outcomes /\ Absent \in Builds
    BY BuildFacts
  <1>5. TypeOK
    BY <1>3, <1>4, BoundsAssumption DEF TypeOK, Dirs, Outcomes, Versions
  <1>6. Pushed
    BY <1>1, <1>2 DEF Pushed, NoOutcome, Absent, Build, NoVersion
  <1>7. \A p \in Procs : At(p)
    BY <1>1 DEF At, Knows
  <1>8. QED BY <1>5, <1>6, <1>7 DEF IInv

\* A step of p's own that leaves the machine alone keeps the invariant if it
\* leaves p knowing what it should.
LEMMA OwnStep ==
  ASSUME IInv, NEW p \in Procs, NEW step \in Steps, NEW b \in Builds,
         NEW o \in Outcomes, NEW w \in Versions \cup {NoVersion},
         NEW t \in Versions \cup {NoVersion},
         UNCHANGED machine,
         pc' = [pc EXCEPT ![p] = step],
         current' = [current EXCEPT ![p] = b],
         out' = [out EXCEPT ![p] = o],
         wrote' = [wrote EXCEPT ![p] = w],
         since' = [since EXCEPT ![p] = t],
         b.version <= latest, o.latest <= latest, t <= latest,
         Knows(step, b, o, w, t)
  PROVE  IInv'
  <1>1. /\ pc \in [Procs -> Steps] /\ current \in [Procs -> Builds]
        /\ out \in [Procs -> Outcomes] /\ wrote \in [Procs -> Versions \cup {NoVersion}]
        /\ since \in [Procs -> Versions \cup {NoVersion}]
    BY DEF IInv, TypeOK, Steps, Outcomes
  <1>2. /\ pc' \in [Procs -> Steps] /\ current' \in [Procs -> Builds]
        /\ out' \in [Procs -> Outcomes] /\ wrote' \in [Procs -> Versions \cup {NoVersion}]
        /\ since' \in [Procs -> Versions \cup {NoVersion}]
    BY <1>1
  <1>3. Outcomes' = Outcomes
    BY DEF Outcomes, name, machine
  <1>4. TypeOK'
    BY <1>2, <1>3 DEF IInv, TypeOK, Steps, Outcomes, machine
  <1>5. Pushed'
    BY <1>1 DEF IInv, Pushed, machine
  <1>6. ASSUME NEW s \in Procs PROVE At(s)'
    <2>1. CASE s = p
      <3>1. /\ pc'[s] = step /\ current'[s] = b /\ out'[s] = o /\ wrote'[s] = w
            /\ since'[s] = t
        BY <1>1, <2>1
      <3>2. Knows(step, b, o, w, t)'
        BY KnowsStays DEF machine
      <3>3. QED BY <3>1, <3>2 DEF At
    <2>2. CASE s # p
      <3>1. /\ pc'[s] = pc[s] /\ current'[s] = current[s]
            /\ out'[s] = out[s] /\ wrote'[s] = wrote[s] /\ since'[s] = since[s]
        BY <1>1, <2>2
      <3>2. PICK step0, b0, o0, w0, t0 : /\ step0 = pc[s] /\ b0 = current[s]
                                         /\ o0 = out[s] /\ w0 = wrote[s] /\ t0 = since[s]
        OBVIOUS
      <3>3. Knows(step0, b0, o0, w0, t0)
        BY <3>2 DEF IInv, At
      <3>4. Knows(step0, b0, o0, w0, t0)'
        BY <3>3, KnowsStays DEF machine
      <3>5. QED BY <3>1, <3>2, <3>4 DEF At
    <2>3. QED BY <2>1, <2>2
  <1>7. QED BY <1>4, <1>5, <1>6 DEF IInv

\* Where p is, by type, and what it knows.
LEMMA Here ==
  ASSUME IInv, NEW p \in Procs
  PROVE  /\ current[p] \in Builds /\ current[p].version <= latest
         /\ out[p] \in Outcomes /\ out[p].latest <= latest
         /\ wrote[p] \in Versions \cup {NoVersion}
         /\ since[p] \in Versions \cup {NoVersion} /\ since[p] <= latest
         /\ Knows(pc[p], current[p], out[p], wrote[p], since[p])
         /\ pc = [pc EXCEPT ![p] = pc[p]]
         /\ current = [current EXCEPT ![p] = current[p]]
         /\ out = [out EXCEPT ![p] = out[p]]
         /\ wrote = [wrote EXCEPT ![p] = wrote[p]]
         /\ since = [since EXCEPT ![p] = since[p]]
  BY DEF IInv, TypeOK, Pushed, At, Outcomes

\* A step that only moves p on, to an outcome o.
LEMMA OutcomeStep ==
  ASSUME IInv, NEW p \in Procs, NEW step \in Steps, NEW b, NEW w, NEW t,
         NEW o \in Outcomes, b = current[p], w = wrote[p], t = since[p],
         UNCHANGED <<machine, current, wrote, since>>,
         pc' = [pc EXCEPT ![p] = step],
         out' = [out EXCEPT ![p] = o],
         o.latest <= latest, Knows(step, b, o, w, t)
  PROVE  IInv'
  <1>1. /\ b \in Builds /\ b.version <= latest /\ w \in Versions \cup {NoVersion}
        /\ t \in Versions \cup {NoVersion} /\ t <= latest /\ since' = [since EXCEPT ![p] = t]
        /\ current' = [current EXCEPT ![p] = b] /\ wrote' = [wrote EXCEPT ![p] = w]
    BY Here
  <1>2. UNCHANGED machine
    OBVIOUS
  <1> HIDE DEF machine
  <1>3. QED BY <1>1, <1>2, OwnStep

LEMMA StartIInv ==
  ASSUME IInv, NEW p \in Procs, Start(p)
  PROVE  IInv'
  <1> USE DEF Start, Goto
  <1>1. PICK b : b = File(Started)
    OBVIOUS
  <1>2. b \in Builds /\ b.version <= latest /\ b # Absent
    BY <1>1, StartedBuild
  <1>3. out[p] = NoOutcome /\ wrote[p] = NoVersion
    BY Here DEF Knows
  <1>4. PICK t : t = latest /\ t \in Versions /\ t <= latest
    BY DEF IInv, TypeOK, Versions
  <1>5. Knows("check", b, NoOutcome, NoVersion, t)
    BY <1>2, <1>4 DEF Knows
  <1>6. PICK o, w : o = out[p] /\ w = wrote[p]
    OBVIOUS
  <1>7. /\ o \in Outcomes /\ o.latest <= latest /\ w \in Versions \cup {NoVersion}
        /\ o = NoOutcome /\ w = NoVersion
        /\ out' = [out EXCEPT ![p] = o] /\ wrote' = [wrote EXCEPT ![p] = w]
    BY <1>3, <1>6, Here
  <1>8. /\ UNCHANGED machine /\ pc' = [pc EXCEPT ![p] = "check"] /\ "check" \in Steps
        /\ current' = [current EXCEPT ![p] = b] /\ since' = [since EXCEPT ![p] = t]
    BY <1>1, <1>4 DEF Steps
  <1>9. QED BY <1>2, <1>4, <1>5, <1>7, <1>8, OwnStep

LEMMA CheckIInv ==
  ASSUME IInv, NEW p \in Procs, Check(p)
  PROVE  IInv'
  <1>1. /\ out[p] = NoOutcome /\ wrote[p] = NoVersion /\ current[p] # Absent
        /\ current[p].version <= since[p] /\ UNCHANGED machine
    BY Here DEF Knows, Check
  <1>2. PICK b, w, t : b = current[p] /\ w = wrote[p] /\ t = since[p]
    OBVIOUS
  <1>3. ASSUME NEW o \in {Failed, Because}, Returns(p, o)
        PROVE  IInv'
    <2>1. o \in Outcomes /\ o.latest = NoVersion
      BY <1>3 DEF Failed, Because, NoOutcome, Outcomes
    <2>2. Knows("returned", b, o, w, t)
      BY <1>1, <1>2, <1>3 DEF Knows, Failed, Because, NoOutcome, NoVersion
    <2>3. o.latest <= latest
      BY <2>1 DEF IInv, TypeOK, Versions, NoVersion
    <2>4. /\ UNCHANGED <<machine, current, wrote, since>>
          /\ pc' = [pc EXCEPT ![p] = "returned"] /\ out' = [out EXCEPT ![p] = o]
      BY <1>3 DEF Check, Returns
    <2>5. QED BY <1>2, <2>1, <2>2, <2>3, <2>4, OutcomeStep DEF Steps
  <1>4. CASE /\ current[p] # Unversioned /\ ~local(current[p])
             /\ Goto(p, "check", "resolve") /\ UNCHANGED out
    <2>1. b.kind \in {"published", "ahead"}
      BY <1>1, <1>2, <1>4, Here, BuildFacts
    <2>2. Knows("resolve", b, NoOutcome, w, t)
      BY <1>1, <1>2, <2>1 DEF Knows
    <2>3. PICK o : o = out[p] /\ o = NoOutcome
      BY <1>1
    <2>4. /\ o \in Outcomes /\ o.latest <= latest /\ out' = [out EXCEPT ![p] = o]
      BY <1>4, <2>3, Here
    <2>5. /\ UNCHANGED <<machine, current, wrote, since>>
          /\ pc' = [pc EXCEPT ![p] = "resolve"]
      BY <1>4 DEF Check, Goto
    <2>6. QED BY <1>2, <2>2, <2>3, <2>4, <2>5, OutcomeStep DEF Steps
  <1>5. QED BY <1>3, <1>4 DEF Check

LEMMA ResolveWorksIInv ==
  ASSUME IInv, NEW p \in Procs, ResolveWorks(p)
  PROVE  IInv'
  <1> DEFINE asked == [NoOutcome EXCEPT !.latest = Answer]
  <1>1. /\ out[p] = NoOutcome /\ wrote[p] = NoVersion
        /\ current[p] # Absent /\ current[p].kind \in {"published", "ahead"}
        /\ current[p].version <= since[p]
        /\ UNCHANGED <<machine, current, wrote, since>>
    BY Here DEF Knows, ResolveWorks
  <1>2. PICK b, w, t, o, a : /\ b = current[p] /\ w = wrote[p] /\ t = since[p]
                             /\ o = asked /\ a = Answer
    OBVIOUS
  <1>3. a \in Versions /\ a <= latest /\ (Direct => a = latest)
    <2>1. latest \in Versions /\ cached \in 1 .. latest
      BY DEF IInv, TypeOK
    <2>2. a = latest \/ (~Direct /\ a = cached)
      BY <1>2 DEF Answer, Direct
    <2>3. QED BY <2>1, <2>2, BoundsAssumption DEF Versions
  <1>4. /\ o \in Outcomes /\ o.latest = a /\ o = [NoOutcome EXCEPT !.latest = a]
        /\ [o EXCEPT !.reason = TRUE] \in Outcomes
    BY <1>2, <1>3 DEF NoOutcome, Outcomes
  <1>5. CASE Published(a) = b
    <2>1. PICK r \in Outcomes : r = [o EXCEPT !.reason = TRUE]
      BY <1>4
    <2>2. Knows("returned", b, r, w, t)
      <3>1. Direct => r.latest >= t
        BY <1>2, <1>3, <1>4, <2>1, Here DEF NoOutcome, Versions, NoVersion
      <3>2. QED BY <1>1, <1>2, <1>4, <2>1, <3>1 DEF Knows, NoOutcome
    <2>3. r.latest <= latest
      BY <1>3, <1>4, <2>1 DEF Outcomes
    <2>4. Returns(p, r)
      BY <1>2, <1>5, <2>1 DEF ResolveWorks
    <2> HIDE DEF asked
    <2>5. QED BY <1>1, <1>2, <2>2, <2>3, <2>4, OutcomeStep DEF Returns, Steps
  <1>6. CASE Published(a) # b
    <2>1. b \in Builds /\ b.version \in Nat /\ b.version <= t
      BY <1>1, <1>2, Here, BuildFacts
    <2>2. t \in Nat /\ t <= latest
      BY <1>2, Here DEF Versions, NoVersion
    <2>3. a = b.version => b.kind = "ahead"
      BY <1>1, <1>2, <1>6, <2>1, BuildFacts
    <2>4. Worth(b, a, t)
      <3>1. Direct => a >= t /\ a >= b.version
        <4>1. a \in Nat /\ (Direct => a = latest)
          BY <1>3 DEF Versions
        <4>2. latest \in Nat
          BY DEF IInv, TypeOK, Versions
        <4>3. QED BY <2>1, <2>2, <4>1, <4>2
      <3>2. QED BY <1>1, <1>2, <1>3, <1>6, <2>3, <3>1 DEF Worth
    <2>5. Knows("install", b, o, w, t)
      BY <1>1, <1>2, <1>4, <2>4 DEF Knows
    <2>6. /\ pc' = [pc EXCEPT ![p] = "install"]
          /\ out' = [out EXCEPT ![p] = o]
      BY <1>2, <1>6 DEF ResolveWorks, Goto
    <2>7. o \in Outcomes /\ o.latest <= latest
      BY <1>3, <1>4
    <2> HIDE DEF asked
    <2>8. QED BY <1>1, <1>2, <2>5, <2>6, <2>7, OutcomeStep DEF Steps
  <1>7. QED BY <1>5, <1>6

\* An Update returns with an error, whether it had asked or not, and whether
\* the version is in place or not.
LEMMA FailsIInv ==
  ASSUME IInv, NEW p \in Procs, ResolveFails(p) \/ InstallFails(p)
  PROVE  IInv'
  <1>1. PICK b, w, t, o : /\ b = current[p] /\ w = wrote[p] /\ t = since[p]
                          /\ o = [out[p] EXCEPT !.err = TRUE]
    OBVIOUS
  <1>2. /\ b # Absent /\ ~out[p].updated /\ ~out[p].reason
        /\ out[p].installed = Nowhere /\ out[p].shadowed = Nowhere
        /\ w = NoVersion \/ (w = out[p].latest /\ Worth(b, w, t))
        /\ out[p].latest = NoVersion \/ Worth(b, out[p].latest, t)
    <2>1. CASE ResolveFails(p)
      <3>1. b # Absent /\ out[p] = NoOutcome /\ w = NoVersion
        BY <1>1, <2>1, Here DEF Knows, ResolveFails
      <3>2. QED BY <3>1 DEF NoOutcome
    <2>2. CASE InstallFails(p)
      <3>1. PICK step, o0 : step = pc[p] /\ o0 = out[p]
        OBVIOUS
      <3>2. Knows(step, b, o0, w, t) /\ step \in {"install", "installed"}
        BY <1>1, <2>2, <3>1, Here DEF InstallFails
      <3>3. o0 = [NoOutcome EXCEPT !.latest = o0.latest] /\ Worth(b, o0.latest, t)
        BY <3>2 DEF Knows
      <3>4. w = NoVersion \/ w = o0.latest
        BY <3>2 DEF Knows
      <3>5. b # Absent
        BY <3>2 DEF Knows
      <3>6. QED BY <3>1, <3>3, <3>4, <3>5 DEF NoOutcome
    <2>3. QED BY <2>1, <2>2
  <1>3. o \in Outcomes /\ o.latest = out[p].latest
    BY <1>1, Here DEF Outcomes
  <1>4. ~o.updated /\ ~o.reason /\ o.err /\ o.installed = Nowhere /\ o.shadowed = Nowhere
    BY <1>1, <1>2, Here DEF Outcomes, NoOutcome
  <1>5. Knows("returned", b, o, w, t)
    <2>1. Direct /\ o.latest # NoVersion => o.latest >= t
      BY <1>2, <1>3 DEF Worth
    <2>2. QED BY <1>2, <1>3, <1>4, <2>1 DEF Knows
  <1>6. ResolveFails(p) => o = Failed
    BY <1>1, Here DEF ResolveFails, Knows, Failed
  <1>7. Returns(p, o) /\ UNCHANGED <<machine, current, wrote, since>>
    BY <1>1, <1>6 DEF ResolveFails, InstallFails
  <1>8. QED BY <1>1, <1>3, <1>5, <1>7, Here, OutcomeStep DEF Returns, Steps

LEMMA LocateIInv ==
  ASSUME IInv, NEW p \in Procs, Locate(p)
  PROVE  IInv'
  <1>1. PICK installed \in {<<"gobin", name>>, Nowhere} :
             Returns(p, [out[p] EXCEPT !.updated = TRUE, !.installed = installed,
                                       !.shadowed = shadowing(installed)])
    BY DEF Locate
  <1>2. PICK b, w, t, o : /\ b = current[p] /\ w = wrote[p] /\ t = since[p]
                          /\ o = [out[p] EXCEPT !.updated = TRUE, !.installed = installed,
                                                !.shadowed = shadowing(installed)]
    OBVIOUS
  <1>3. shadowing(installed) \in {Nowhere, "gobin", "early"}
    BY LookPathDirs DEF shadowing, IInv, Dirs
  <1>4. o \in Outcomes /\ o.latest = out[p].latest
    BY <1>2, <1>3, Here DEF Outcomes
  <1>5. /\ w = o.latest /\ Worth(b, w, t) /\ b # Absent
        /\ out[p] = [NoOutcome EXCEPT !.latest = out[p].latest]
    BY <1>2, <1>4, Here DEF Knows, Locate
  <1>6. o.updated /\ ~o.reason /\ ~o.err
    BY <1>2, <1>5, Here DEF Outcomes, NoOutcome
  <1>7. w # NoVersion
    BY <1>5 DEF Worth, Versions, NoVersion
  <1>8. Knows("returned", b, o, w, t)
    <2>1. Direct /\ o.latest # NoVersion => o.latest >= t
      BY <1>5 DEF Worth
    <2>2. QED BY <1>5, <1>6, <1>7, <2>1 DEF Knows
  <1>9. /\ UNCHANGED <<machine, current, wrote, since>> /\ pc' = [pc EXCEPT ![p] = "returned"]
        /\ out' = [out EXCEPT ![p] = o]
    BY <1>1, <1>2 DEF Locate, Returns
  <1>10. o.latest <= latest /\ "returned" \in Steps
    BY <1>4, Here DEF Steps
  <1>11. QED BY <1>2, <1>4, <1>8, <1>9, <1>10, OutcomeStep

LEMMA InstallReturnsIInv ==
  ASSUME IInv, NEW p \in Procs, InstallReturns(p)
  PROVE  IInv'
  <1>1. PICK b, w, t, o : b = current[p] /\ w = wrote[p] /\ t = since[p] /\ o = out[p]
    OBVIOUS
  <1>2. o \in Outcomes /\ o.latest <= latest /\ out' = [out EXCEPT ![p] = o]
    BY <1>1, Here DEF InstallReturns
  <1>3. Knows("locate", b, o, w, t)
    BY <1>1, Here DEF Knows, InstallReturns, Goto
  <1>4. pc' = [pc EXCEPT ![p] = "locate"] /\ UNCHANGED <<machine, current, wrote, since>>
    BY DEF InstallReturns, Goto
  <1>5. QED BY <1>1, <1>2, <1>3, <1>4, OutcomeStep DEF Steps

LEMMA ExitIInv ==
  ASSUME IInv, NEW p \in Procs, Exit(p)
  PROVE  IInv'
  <1>1. Knows("off", Absent, NoOutcome, NoVersion, NoVersion)
    BY DEF Knows
  <1>2. Absent.version <= latest /\ NoOutcome.latest <= latest
    BY DEF Absent, Build, NoOutcome, NoVersion, IInv, TypeOK, Versions
  <1>3. PICK n : n = NoVersion /\ n \in Versions \cup {NoVersion} /\ n <= latest
    BY DEF NoVersion, IInv, TypeOK, Versions
  <1>4. PICK b, o : b = Absent /\ o = NoOutcome /\ b \in Builds /\ o \in Outcomes
    BY BuildFacts
  <1>5. /\ UNCHANGED machine /\ pc' = [pc EXCEPT ![p] = "off"] /\ "off" \in Steps
        /\ current' = [current EXCEPT ![p] = b] /\ out' = [out EXCEPT ![p] = o]
        /\ wrote' = [wrote EXCEPT ![p] = n] /\ since' = [since EXCEPT ![p] = n]
    BY <1>3, <1>4 DEF Exit, Steps
  <1>6. QED BY <1>1, <1>2, <1>3, <1>4, <1>5, OwnStep

\* What others do to the machine, the installed file included, is nothing an
\* Update under way relies on.
LEMMA MachineStep ==
  ASSUME IInv, UNCHANGED <<setup, pc, current, out, wrote, since>>,
         latest' \in Versions, latest <= latest', cached' \in 1 .. latest',
         files' \in [Dirs -> Builds], \A d \in Dirs : files'[d].version <= latest',
         builds' \in 0 .. MaxBuilds
  PROVE  IInv'
  <1>1. Outcomes' = Outcomes
    BY DEF Outcomes, name
  <1>2. TypeOK'
    BY <1>1 DEF IInv, TypeOK, Dirs, Outcomes
  <1>3. ASSUME NEW p \in Procs
        PROVE  /\ current'[p].version <= latest' /\ out'[p].latest <= latest'
               /\ since'[p] <= latest'
    <2>1. current[p].version \in Nat /\ out[p].latest \in Nat /\ since[p] \in Nat
      BY Here, BuildFacts DEF Outcomes, Versions, NoVersion
    <2>2. QED BY <2>1, Here DEF IInv, TypeOK, Versions
  <1>4. Pushed'
    BY <1>3 DEF Pushed
  <1>5. ASSUME NEW p \in Procs PROVE At(p)'
    <2>1. PICK step, b, o, w, t : /\ step = pc[p] /\ b = current[p]
                                  /\ o = out[p] /\ w = wrote[p] /\ t = since[p]
      OBVIOUS
    <2>2. Knows(step, b, o, w, t)'
      BY <2>1, KnowsStays DEF IInv, At
    <2>3. QED BY <2>1, <2>2 DEF At
  <1>6. QED BY <1>2, <1>4, <1>5 DEF IInv

LEMMA InstallWorksIInv ==
  ASSUME IInv, NEW p \in Procs, InstallWorks(p)
  PROVE  IInv'
  <1> USE DEF InstallWorks, Installs, Goto
  <1>1. PICK v, b, o, t : /\ v = out[p].latest /\ b = current[p] /\ o = out[p]
                          /\ t = since[p]
    OBVIOUS
  <1>2. /\ Worth(b, v, t) /\ v \in Versions /\ v <= latest /\ b # Absent
        /\ o = [NoOutcome EXCEPT !.latest = v]
    BY <1>1, Here DEF Knows, Worth
  <1>3. Knows("installed", b, o, v, t)
    BY <1>1, <1>2 DEF Knows
  <1>4. files' \in [Dirs -> Builds] /\ \A d \in Dirs : files'[d].version <= latest
    BY <1>1, <1>2, BuildFacts DEF IInv, TypeOK, Pushed, Dirs
  <1>5. /\ pc \in [Procs -> Steps] /\ wrote \in [Procs -> Versions \cup {NoVersion}]
        /\ wrote' = [wrote EXCEPT ![p] = v]
    BY <1>1 DEF IInv, TypeOK, Steps
  <1>6. pc' \in [Procs -> Steps] /\ wrote' \in [Procs -> Versions \cup {NoVersion}]
    BY <1>2, <1>5 DEF Steps
  <1>7. TypeOK'
    BY <1>4, <1>6 DEF IInv, TypeOK, Dirs, Steps, name
  <1>8. Pushed'
    BY <1>4 DEF IInv, Pushed
  <1>9. ASSUME NEW s \in Procs PROVE At(s)'
    <2>1. CASE s = p
      <3>1. /\ pc'[s] = "installed" /\ current'[s] = b /\ out'[s] = o
            /\ wrote'[s] = v /\ since'[s] = t
        BY <1>1, <1>5, <2>1
      <3>2. Knows("installed", b, o, v, t)'
        BY <1>3, KnowsStays
      <3>3. QED BY <3>1, <3>2 DEF At
    <2>2. CASE s # p
      <3>1. pc'[s] = pc[s] /\ wrote'[s] = wrote[s]
        BY <1>5, <2>2
      <3>2. PICK step0, b0, o0, w0, t0 : /\ step0 = pc[s] /\ b0 = current[s]
                                         /\ o0 = out[s] /\ w0 = wrote[s] /\ t0 = since[s]
        OBVIOUS
      <3>3. Knows(step0, b0, o0, w0, t0)'
        BY <3>2, KnowsStays DEF IInv, At
      <3>4. QED BY <3>1, <3>2, <3>3 DEF At
    <2>3. QED BY <2>1, <2>2
  <1>10. QED BY <1>7, <1>8, <1>9 DEF IInv

LEMMA WorldIInv ==
  ASSUME IInv, Push \/ Refresh \/ BuildByHand
  PROVE  IInv'
  <1>1. /\ files \in [Dirs -> Builds] /\ \A d \in Dirs : files[d].version <= latest
        /\ latest \in Versions /\ cached \in 1 .. latest /\ builds \in 0 .. MaxBuilds
        /\ \A d \in Dirs : files[d].version \in Nat
    BY BuildFacts DEF IInv, TypeOK, Pushed, Dirs
  <1>2. CASE Push
    BY <1>1, <1>2, MachineStep, BoundsAssumption DEF Push, Versions
  <1>3. CASE Refresh
    BY <1>1, <1>3, MachineStep DEF Refresh, Versions
  <1>4. CASE BuildByHand
    <2>1. PICK b \in ByHand : files' = [files EXCEPT !["gobin"] = b]
      BY <1>4 DEF BuildByHand
    <2>2. b \in Builds /\ b.version <= latest
      <3>1. \A v \in 1 .. latest : v \in Versions /\ v <= latest
        BY <1>1, BoundsAssumption DEF Versions
      <3>2. ASSUME NEW v \in 1 .. latest
            PROVE  /\ Published(v) \in Builds /\ Published(v).version <= latest
                   /\ Build("dirty", v) \in Builds /\ Build("dirty", v).version <= latest
                   /\ Build("ahead", v) \in Builds /\ Build("ahead", v).version <= latest
        BY <3>1, BuildFacts DEF Build, Published
      <3>3. Devel \in Builds /\ Devel.version <= latest
        BY <1>1 DEF Devel, Build, Builds, NoVersion, Versions
      <3>4. latest \in 1 .. latest
        BY <1>1 DEF Versions
      <3>5. QED BY <3>2, <3>3, <3>4 DEF ByHand
    <2>3. files' \in [Dirs -> Builds] /\ \A d \in Dirs : files'[d].version <= latest
      BY <1>1, <2>1, <2>2 DEF Dirs
    <2>4. builds' \in 0 .. MaxBuilds
      BY <1>1, <1>4, BoundsAssumption DEF BuildByHand
    <2>5. QED BY <1>1, <1>4, <2>3, <2>4, MachineStep DEF BuildByHand, Versions
  <1>5. QED BY <1>2, <1>3, <1>4

LEMMA StepIInv == IInv /\ [Next]_vars => IInv'
  <1> SUFFICES ASSUME IInv, [Next]_vars PROVE IInv'
    OBVIOUS
  <1>1. ASSUME NEW p \in Procs, Calls(p) \/ Exit(p)
        PROVE  IInv'
    BY <1>1, StartIInv, CheckIInv, ResolveWorksIInv, FailsIInv, InstallWorksIInv,
       InstallReturnsIInv, LocateIInv, ExitIInv DEF Calls
  <1>2. CASE UNCHANGED vars
    <2>1. files \in [Dirs -> Builds] /\ builds \in 0 .. MaxBuilds
      BY DEF IInv, TypeOK, Dirs
    <2>2. latest <= latest
      BY DEF IInv, TypeOK, Versions
    <2>3. QED BY <1>2, <2>1, <2>2, MachineStep DEF vars, machine, IInv, TypeOK, Pushed
  <1>3. QED BY <1>1, <1>2, WorldIInv DEF Next, Done

\* What each process has come to agrees with what it has done.
THEOREM Invariance == Spec => []IInv
  BY InitIInv, StepIInv, PTL DEF Spec

------------------------------------------------------------------------------

\* The files, the processes and their outcomes keep their types.
THEOREM TypeCorrect == Spec => []TypeOK
  <1>1. IInv => TypeOK
    BY DEF IInv
  <1>2. QED BY <1>1, Invariance, PTL

\* What Update reports as done, or gives a reason for not doing, is so; an
\* error leaves open whether the version is in place.
THEOREM OutcomeIsTrue == Spec => []OutcomeTrue
  <1>1. IInv => OutcomeTrue
    <2> SUFFICES ASSUME IInv, NEW p \in Procs, Returned(p),
                        NEW o, o = out[p], NEW w, w = wrote[p]
                 PROVE  /\ o.err <=> ~o.reason /\ ~o.updated
                        /\ o.reason => ~o.updated
                        /\ o.updated => w # NoVersion /\ w = o.latest
                        /\ w # NoVersion =>
                              ~o.reason /\ current[p].kind \in {"published", "ahead"}
                        /\ ~o.updated => o.installed = Nowhere /\ o.shadowed = Nowhere
      BY DEF OutcomeTrue
    <2>1. QED BY DEF Returned, IInv, At, Knows, Worth
  <1>2. QED BY <1>1, Invariance, PTL

\* The version that is installed is the one that was compared, though others
\* are pushed in between.
THEOREM PinnedVersion == Spec => []Pinned
  <1>1. IInv => Pinned
    <2> SUFFICES ASSUME IInv, NEW p \in Procs, wrote[p] # NoVersion
                 PROVE  wrote[p] = out[p].latest /\ Published(wrote[p]) # current[p]
      BY DEF Pinned
    <2>1. pc[p] \in {"installed", "locate", "returned"}
      BY DEF IInv, TypeOK, At, Knows
    <2>2. QED BY <2>1 DEF IInv, At, Knows, Worth
  <1>2. QED BY <1>1, Invariance, PTL

\* A process that goes direct installs, and takes itself to be on, nothing
\* older than the latest version at its start; where that is no newer than the
\* build it is, the build is one ahead of that version.
THEOREM NeverStale == Spec => []DirectFresh
  <1>1. IInv => DirectFresh
    <2> SUFFICES ASSUME IInv, NEW p \in Procs, Direct
                 PROVE  /\ NoVersion # out[p].latest => out[p].latest >= since[p]
                        /\ NoVersion # wrote[p] =>
                              /\ wrote[p] >= since[p]
                              /\ wrote[p] >= current[p].version
                              /\ wrote[p] = current[p].version => current[p].kind = "ahead"
      BY DEF DirectFresh, Direct
    <2>1. /\ pc[p] \in Steps
          /\ Knows(pc[p], current[p], out[p], wrote[p], since[p])
      BY Here DEF IInv, TypeOK, Steps
    <2>2. CASE pc[p] \in {"off", "check", "resolve"}
      BY <2>1, <2>2 DEF Knows, NoOutcome
    <2>3. CASE pc[p] \in {"install", "installed", "locate"}
      BY <2>1, <2>3 DEF Knows, Worth
    <2>4. CASE pc[p] = "returned"
      BY <2>1, <2>4 DEF Knows, Worth
    <2>5. QED BY <2>1, <2>2, <2>3, <2>4 DEF Steps
  <1>2. QED BY <1>1, Invariance, PTL

------------------------------------------------------------------------------
(* The machine after an installation.                                      *)

\* What is installed stays in place, and an Outcome that names the installed
\* file says whether it is the one a shell starts.
Says(p) ==
    /\ pc[p] \in {"installed", "locate"} => files["gobin"] # Absent
    /\ pc[p] = "returned" /\ out[p].installed = <<"gobin", Binary>> =>
          /\ files["gobin"] # Absent
          /\ out[p].shadowed = Nowhere <=> Place(Started) = "gobin"

SaysInv == \A p \in Procs : Says(p)

LEMMA PresentBuilds ==
  /\ \A v : Published(v) # Absent
  /\ \A b \in ByHand : b # Absent
  BY DEF Published, Build, Absent, Devel, ByHand

\* No step takes the installed file away, touches the other directory or
\* moves the link.
LEMMA FilesStep ==
  ASSUME IInv, [Next]_vars
  PROVE  /\ setup' = setup /\ files'["early"] = files["early"]
         /\ files["gobin"] # Absent => files'["gobin"] # Absent
  <1>1. files \in [Dirs -> Builds]
    BY DEF IInv, TypeOK, Dirs
  <1>2. ASSUME NEW b, b # Absent, files' = [files EXCEPT !["gobin"] = b], setup' = setup
        PROVE  /\ setup' = setup /\ files'["early"] = files["early"]
               /\ files["gobin"] # Absent => files'["gobin"] # Absent
    BY <1>1, <1>2 DEF Dirs
  <1>3. CASE \E p \in Procs : InstallWorks(p)
    BY <1>2, <1>3, PresentBuilds DEF InstallWorks, Installs
  <1>4. CASE BuildByHand
    BY <1>2, <1>4, PresentBuilds DEF BuildByHand
  <1>5. CASE ~BuildByHand /\ ~\E p \in Procs : InstallWorks(p)
    <2>1. UNCHANGED <<setup, files>>
      BY <1>5 DEF Next, Calls, Start, Check, ResolveWorks, ResolveFails, InstallReturns,
         InstallFails, Locate, Exit, Push, Refresh, Done, vars, machine
    <2>2. QED BY <2>1
  <1>6. QED BY <1>3, <1>4, <1>5

\* As long as there is an installed file, what a shell starts does not change.
LEMMA StartedStays ==
  ASSUME TypeOK, setup' = setup, files'["early"] = files["early"],
         files["gobin"] # Absent, files'["gobin"] # Absent
  PROVE  Place(Started)' = Place(Started)
  <1>1. \A d : Place(d)' = Place(d)
    BY DEF Place
  <1>2. \A d \in Dirs : File(d)' # Absent <=> File(d) # Absent
    BY DEF File, Place, Dirs
  <1>3. PICK path : path = setup.path /\ path = setup'.path /\ \A m \in DOMAIN path : path[m] \in Dirs
    BY SetupFacts
  <1>4. PICK F : F = {m \in DOMAIN path : File(path[m]) # Absent}
    OBVIOUS
  <1>5. LookPath(Binary)' = LookPath(Binary)
    <2>1. F = {m \in DOMAIN path : File(path[m])' # Absent}
      BY <1>2, <1>3, <1>4
    <2>2. LookPath(Binary) =
            IF F = {} THEN Nowhere ELSE path[CHOOSE m \in F : \A k \in F : m <= k]
      BY <1>3, <1>4 DEF LookPath
    <2>3. LookPath(Binary)' =
            IF F = {} THEN Nowhere ELSE path[CHOOSE m \in F : \A k \in F : m <= k]
      BY <1>3, <2>1 DEF LookPath
    <2>4. QED BY <2>2, <2>3
  <1>6. Started' = Started
    BY <1>5 DEF Started
  <1>7. QED BY <1>1, <1>6

\* What shadowing answers for the installed file.
LEMMA ShadowingSays ==
  ASSUME TypeOK, name = Binary
  PROVE  shadowing(<<"gobin", Binary>>) = Nowhere <=> Place(Started) = "gobin"
  <1>1. Nowhere # <<"gobin", Binary>> /\ Place("gobin") = "gobin" /\ Nowhere \notin Dirs
    BY NowhereAssumption DEF Binary, Place, Dirs
  <1>2. PICK f : f = LookPath(Binary) /\ f \in Dirs \cup {Nowhere}
    BY LookPathDirs
  <1>3. CASE f = Nowhere
    BY <1>1, <1>2, <1>3 DEF shadowing, Started
  <1>4. CASE f # Nowhere
    <2>1. Started = f
      BY <1>2, <1>4 DEF Started
    <2> PICK installed : installed = <<"gobin", Binary>>
      OBVIOUS
    <2>2. installed[1] = "gobin" /\ installed # Nowhere
      BY <1>1
    <2>3. shadowing(installed) = IF Place(f) = "gobin" THEN Nowhere ELSE f
      BY <1>1, <1>2, <1>4, <2>2 DEF shadowing, sameFile
    <2>4. QED BY <1>4, <2>1, <2>3
  <1>5. QED BY <1>3, <1>4

\* A process comes to a step by a call of its own.
LEMMA Moves ==
  ASSUME IInv, [Next]_vars, NEW p \in Procs, ~(pc'[p] = pc[p] /\ out'[p] = out[p])
  PROVE  Calls(p) \/ Exit(p)
  <1>1. /\ pc \in [Procs -> Steps] /\ out \in [Procs -> Outcomes]
    BY DEF IInv, TypeOK, Steps, Outcomes
  <1>2. ASSUME NEW q \in Procs, q # p, Calls(q) \/ Exit(q)
        PROVE  pc'[p] = pc[p] /\ out'[p] = out[p]
    BY <1>1, <1>2 DEF Calls, Start, Check, ResolveWorks, ResolveFails, InstallWorks,
       Installs, InstallReturns, InstallFails, Locate, Exit, Goto, Returns
  <1>3. CASE Push \/ Refresh \/ BuildByHand \/ Done \/ UNCHANGED vars
    BY <1>3 DEF Push, Refresh, BuildByHand, Done, vars
  <1>4. QED BY <1>2, <1>3 DEF Next

\* Only Locate returns with an installed file.
LEMMA LocateReturns ==
  ASSUME IInv, NEW p \in Procs, Calls(p) \/ Exit(p), pc'[p] = "returned",
         out'[p].installed = <<"gobin", Binary>>
  PROVE  /\ pc[p] = "locate" /\ name = Binary /\ UNCHANGED <<setup, files>>
         /\ out'[p].shadowed = shadowing(<<"gobin", Binary>>)
  <1>1. /\ pc \in [Procs -> Steps] /\ out \in [Procs -> Outcomes] /\ out[p] \in Outcomes
    BY DEF IInv, TypeOK, Steps, Outcomes
  <1>2. Nowhere # <<"gobin", Binary>>
    BY NowhereAssumption DEF Binary
  <1>3. ASSUME NEW o, Returns(p, o) PROVE out'[p] = o
    BY <1>1, <1>3 DEF Returns
  <1>4. Failed.installed = Nowhere /\ Because.installed = Nowhere
    BY DEF Failed, Because, NoOutcome
  <1>5. CASE Locate(p)
    <2> PICK installed \in {<<"gobin", name>>, Nowhere} :
             Returns(p, [out[p] EXCEPT !.updated = TRUE, !.installed = installed,
                                       !.shadowed = shadowing(installed)])
      BY <1>5 DEF Locate
    <2>1. PICK o : /\ Returns(p, o)
                   /\ o = [out[p] EXCEPT !.updated = TRUE, !.installed = installed,
                                         !.shadowed = shadowing(installed)]
      OBVIOUS
    <2>2. o.installed = installed /\ o.shadowed = shadowing(installed)
      BY <1>1, <2>1 DEF Outcomes
    <2>3. out'[p] = o
      BY <1>3, <2>1
    <2>4. installed = <<"gobin", Binary>> /\ installed = <<"gobin", name>>
      BY <1>2, <2>1, <2>2, <2>3
    <2>5. name = Binary
      <3>1. <<"gobin", Binary>>[2] = Binary /\ <<"gobin", name>>[2] = name
        OBVIOUS
      <3>2. QED BY <2>4, <3>1
    <2>6. QED BY <1>5, <2>2, <2>3, <2>4, <2>5 DEF Locate, machine
  <1>6. CASE Check(p)
    BY <1>1, <1>2, <1>3, <1>4, <1>6 DEF Check, Goto, Steps
  <1>7. CASE ResolveWorks(p)
    <2> DEFINE asked == [NoOutcome EXCEPT !.latest = Answer]
    <2>1. asked.installed = Nowhere /\ [asked EXCEPT !.reason = TRUE].installed = Nowhere
      BY DEF NoOutcome
    <2>2. ~Goto(p, "resolve", "install")
      BY <1>1 DEF Goto
    <2>3. Returns(p, [asked EXCEPT !.reason = TRUE])
      BY <1>7, <2>2 DEF ResolveWorks
    <2>4. QED BY <1>2, <1>3, <2>1, <2>3
  <1>8. CASE ResolveFails(p)
    BY <1>2, <1>3, <1>4, <1>8 DEF ResolveFails
  <1>9. CASE InstallFails(p)
    <2>1. out[p].installed = Nowhere
      BY <1>1, <1>9, Here DEF InstallFails, Knows, NoOutcome
    <2>2. PICK o : Returns(p, o) /\ o = [out[p] EXCEPT !.err = TRUE]
      BY <1>9 DEF InstallFails
    <2>3. o.installed = Nowhere
      BY <1>1, <2>1, <2>2 DEF Outcomes
    <2>4. QED BY <1>2, <1>3, <2>2, <2>3
  <1>10. CASE Start(p) \/ InstallWorks(p) \/ InstallReturns(p) \/ Exit(p)
    BY <1>1, <1>10 DEF Start, InstallWorks, Installs, InstallReturns, Exit, Goto
  <1>11. QED BY <1>5, <1>6, <1>7, <1>8, <1>9, <1>10 DEF Calls

LEMMA SaysStep == IInv /\ SaysInv /\ [Next]_vars => SaysInv'
  <1> SUFFICES ASSUME IInv, SaysInv, [Next]_vars, NEW p \in Procs PROVE Says(p)'
    BY DEF SaysInv
  <1>1. TypeOK /\ Says(p)
    BY DEF IInv, SaysInv
  <1>2. /\ setup' = setup /\ files'["early"] = files["early"]
        /\ files["gobin"] # Absent => files'["gobin"] # Absent
    BY FilesStep
  <1>3. files["gobin"] # Absent => Place(Started)' = Place(Started)
    BY <1>1, <1>2, StartedStays
  <1>4. CASE pc'[p] = pc[p] /\ out'[p] = out[p]
    BY <1>1, <1>2, <1>3, <1>4 DEF Says
  <1>5. CASE ~(pc'[p] = pc[p] /\ out'[p] = out[p])
    <2>1. Calls(p) \/ Exit(p)
      BY <1>5, Moves
    <2>2. pc'[p] \in {"installed", "locate"} => files'["gobin"] # Absent
      <3>1. pc \in [Procs -> Steps] /\ files \in [Dirs -> Builds]
        BY DEF IInv, TypeOK, Steps, Dirs
      <3>2. CASE InstallWorks(p)
        BY <3>1, <3>2, PresentBuilds DEF InstallWorks, Installs, Dirs
      <3>3. CASE InstallReturns(p)
        BY <1>1, <1>2, <3>3 DEF InstallReturns, Goto, Says
      <3>4. CASE ~InstallWorks(p) /\ ~InstallReturns(p)
        BY <2>1, <3>1, <3>4 DEF Calls, Start, Check, ResolveWorks, ResolveFails,
           InstallFails, Locate, Exit, Goto, Returns
      <3>5. QED BY <3>2, <3>3, <3>4
    <2>3. ASSUME pc'[p] = "returned", out'[p].installed = <<"gobin", Binary>>
          PROVE  /\ files'["gobin"] # Absent
                 /\ out'[p].shadowed = Nowhere <=> Place(Started)' = "gobin"
      <3>1. /\ pc[p] = "locate" /\ name = Binary
            /\ out'[p].shadowed = shadowing(<<"gobin", Binary>>)
        BY <2>1, <2>3, LocateReturns
      <3>2. files["gobin"] # Absent
        BY <1>1, <3>1 DEF Says
      <3>3. QED BY <1>1, <1>2, <1>3, <3>1, <3>2, ShadowingSays
    <2>4. QED BY <2>2, <2>3 DEF Says
  <1>6. QED BY <1>4, <1>5

\* What Outcome says of the PATH is what the next start finds, whatever is
\* installed and built over it meanwhile.
THEOREM SaysWhatStarts == Spec => []SaysWhatRuns
  <1>1. Init => SaysInv
    BY DEF Init, SaysInv, Says
  <1>2. SaysInv => SaysWhatRuns
    BY DEF SaysInv, Says, SaysWhatRuns, Returned
  <1>3. QED BY <1>1, <1>2, SaysStep, Invariance, PTL DEF Spec
==============================================================================
