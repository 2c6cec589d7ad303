----------------------------- MODULE Runner_proof ----------------------------
(***************************************************************************)
(* What Update may never do to a repository, over any number of calls,     *)
(* failures, kills and pushes by others: the inductive invariant behind    *)
(* NoDamage and what follows from it.                                      *)
(***************************************************************************)
EXTENDS Runner, FiniteSetTheorems, SequenceTheorems, TLAPS

Preparing == {"description", "topics", "discard", "reset", "clean", "recheck",
              "pull", "isGoRepo", "modInit", "initialCommit", "initialPush",
              "initialPushed"}

Tasking == {"run", "changedFiles", "taskTest", "commit", "committed"}

\* The step under way is the one the call belongs to.
IndexInv ==
    /\ pc \in Preparing => index = 1
    /\ pc = "test" => index = 2
    /\ pc \in Tasking => index \in 3 .. Len(Tasks) + 2
    /\ pc \in {"push", "pushed"} => index = Len(Tasks) + 3

\* What the clone takes for the remote's is the remote's, unless others pushed.
RemoteInv == ~moved => remote = base

\* Nobody commits a tree without a module.
ModuleInv == \A n \in DOMAIN unpushed : unpushed[n].tree.code # NoModule

\* The worktree holds what is committed where the code relies on it.
CleanInv ==
    /\ pc \in {"pull", "isGoRepo", "initialPush", "initialPushed", "test", "committed"} =>
          worktree = Top
    /\ pc \in {"run", "push", "pushed"} => TestsWrite \/ worktree = Top

\* A repository is initialised only where the remote has no module.
InitialInv ==
    /\ pc \in {"modInit", "initialCommit"} => unpushed = <<>>
    /\ pc \in {"modInit", "initialCommit", "initialPush"} => base.code = NoModule
    /\ pc = "initialCommit" => worktree.code # NoModule
    /\ pc = "initialPush" => Top.code # NoModule

\* Once the test going in has passed, the head passes, and before a commit so
\* does the worktree; the coverage is that of the one which will be the head.
PassInv ==
    /\ pc \in {"run", "changedFiles", "taskTest", "committed", "push", "pushed"} =>
          Passes(Top) /\ coverage = Top.code
    /\ pc = "commit" => Passes(worktree) /\ coverage = worktree.code

\* Nothing is reported before the end.
ReportInv ==
    pc # "idle" => ~finished /\ ~res.err /\ ~res.pushed /\ res.coverage = None

\* CoverageOfHead, for tests that write as well.
CoverageInv ==
    /\ Succeeded => res.coverage = Top.code /\ (TestsWrite \/ worktree = Top)
    /\ Returned /\ res.err => res.coverage = None

IInv ==
    /\ TypeOK /\ IndexInv /\ RemoteInv /\ ModuleInv /\ CleanInv
    /\ InitialInv /\ PassInv /\ ReportInv /\ CoverageInv /\ NoDamage

------------------------------------------------------------------------------
(* Trees and commits.                                                      *)

LEMMA TopInTrees ==
  ASSUME TypeOK PROVE Top \in Trees
  <1>1. CASE unpushed = <<>>
    BY <1>1 DEF TypeOK, Top
  <1>2. CASE unpushed # <<>>
    <2>1. unpushed \in Seq(Commits)
      BY DEF TypeOK
    <2>2. unpushed[Len(unpushed)] \in Commits
      BY <1>2, <2>1
    <2>3. QED BY <1>2, <2>2 DEF Top, Commits
  <1>3. QED BY <1>1, <1>2

LEMMA NoChanges ==
  ASSUME TypeOK, ChangedFiles = {} PROVE worktree = Top
  <1>1. Top \in Trees /\ worktree \in Trees
    BY TopInTrees DEF TypeOK
  <1>2. Top.code = worktree.code /\ Top.doc = worktree.doc /\ Top.art = worktree.art
    BY DEF ChangedFiles, Diff, Paths
  <1>3. QED BY <1>1, <1>2 DEF Trees

\* A test that runs leaves the code and the documentation alone.
LEMMA AfterTestFacts ==
  ASSUME TypeOK, worktree' \in AfterTest
  PROVE  /\ worktree' \in Trees
         /\ worktree'.code = worktree.code /\ worktree'.doc = worktree.doc
         /\ TestsWrite \/ worktree' = worktree
  BY RepositoryAssumption DEF TypeOK, AfterTest, Trees

LEMMA CommitFacts ==
  ASSUME TypeOK, NEW by \in Makers, CommitAll(by)
  PROVE  /\ unpushed' \in Seq(Commits) /\ Len(unpushed') = Len(unpushed) + 1
         /\ unpushed' # <<>>
         /\ unpushed'[Len(unpushed')].tree = worktree
         /\ unpushed'[Len(unpushed')].by = by
         /\ DOMAIN unpushed' = DOMAIN unpushed \cup {Len(unpushed')}
         /\ \A n \in DOMAIN unpushed : unpushed'[n] = unpushed[n]
         /\ Top' = worktree
  <1>1. unpushed \in Seq(Commits) /\ [tree |-> worktree, by |-> by] \in Commits
    BY DEF TypeOK, Commits
  <1> DEFINE c == [tree |-> worktree, by |-> by]
  <1> HIDE DEF c
  <1>2. unpushed' = Append(unpushed, c) /\ c.tree = worktree /\ c.by = by
    BY DEF CommitAll, c
  <1>3. /\ unpushed' \in Seq(Commits) /\ Len(unpushed') = Len(unpushed) + 1
        /\ unpushed'[Len(unpushed')] = c
        /\ DOMAIN unpushed' = DOMAIN unpushed \cup {Len(unpushed')}
        /\ \A n \in DOMAIN unpushed : unpushed'[n] = unpushed[n]
    BY <1>1, <1>2 DEF c
  <1>4. unpushed' # <<>>
    BY <1>1, <1>3
  <1>5. QED BY <1>2, <1>3, <1>4 DEF Top, c

LEMMA PublishFacts ==
  ASSUME TypeOK, Publish
  PROVE  /\ unpushed' \in Seq(Commits) /\ base' \in Trees /\ remote' \in Trees
         /\ Top' = Top
         /\ DOMAIN unpushed' = {}
  BY TopInTrees DEF Publish, Top, TypeOK

LEMMA SeqFacts ==
  ASSUME NEW S
  PROVE  /\ <<>> \in Seq(S)
         /\ \A x \in S : <<x>> \in Seq(S)
         /\ \A s \in Seq(S) : \A n \in DOMAIN s : s[n] \in S
         /\ \A s, t \in Seq(S) : s \o t \in Seq(S)
  OBVIOUS

\* A task's commit is made by it, and reports at least its label.
LEMMA TaskLabel ==
  ASSUME NEW n \in 3 .. Len(Tasks) + 2
  PROVE  Label(n) \in Makers /\ describe(Label(n)) \in Seq(STRING)
  <1>1. n - 2 \in DOMAIN Tasks /\ Label(n) = Tasks[n - 2]
    BY TasksAssumption DEF Label
  <1>2. PICK label : label = Label(n)
    OBVIOUS
  <1>3. Describe[label] \in Seq(STRING) /\ label \in STRING /\ label \in Makers
    <2>1. label = Tasks[n - 2]
      BY <1>1, <1>2
    <2>2. label \in STRING
      BY <1>1, <2>1, TasksAssumption, SeqFacts, Zenon
    <2>3. Describe[Tasks[n - 2]] \in Seq(STRING)
      BY <1>1, TasksAssumption, Zenon
    <2>4. label \in Makers
      BY <1>1, <2>1, Zenon DEF Makers
    <2>5. QED BY <2>1, <2>2, <2>3, <2>4
  <1>4. <<label>> \in Seq(STRING)
    BY <1>3, SeqFacts, Zenon
  <1>5. QED BY <1>2, <1>3, <1>4 DEF describe

LEMMA NextStepFacts ==
  ASSUME TypeOK, NEW event, NextStep(event), index \in 1 .. Len(Tasks) + 2
  PROVE  /\ index' \in 0 .. Count
         /\ index = 1 => pc' = "test" /\ index' = 2
         /\ index # 1 => \/ pc' = "run" /\ index' \in 3 .. Len(Tasks) + 2
                         \/ pc' = "push" /\ index' = Len(Tasks) + 3
  BY TasksAssumption DEF NextStep, Count


------------------------------------------------------------------------------
(* The invariant holds initially.                                          *)

LEMMA InitIInv == Init => IInv
  <1> SUFFICES ASSUME Init PROVE IInv
    OBVIOUS
  <1> USE DEF Init
  <1>1. TypeOK
    <2>1. res \in [commits : Seq(STRING), pushed : BOOLEAN,
                   coverage : Codes \cup {None}, err : BOOLEAN]
      BY SeqFacts DEF NoResult
    <2>2. worktree \in Trees /\ base \in Trees /\ unpushed \in Seq(Commits)
      <3>1. base \in Trees
        OBVIOUS
      <3>2. worktree \in Trees
        BY <3>1 DEF Trees
      <3>3. QED BY <3>1, <3>2, SeqFacts
    <2>3. index \in 0 .. Count /\ runs \in 0 .. MaxRuns /\ others \in 0 .. MaxOthers
      BY TasksAssumption, RepositoryAssumption DEF Count
    <2>4. QED BY <2>1, <2>2, <2>3 DEF TypeOK
  <1>2. IndexInv /\ RemoteInv /\ ModuleInv /\ CleanInv /\ InitialInv /\ PassInv
    BY DEF IndexInv, RemoteInv, ModuleInv, CleanInv, InitialInv, PassInv,
           Preparing, Tasking
  <1>3. ReportInv /\ CoverageInv /\ NoDamage
    BY DEF ReportInv, CoverageInv, NoDamage, Returned, Succeeded
  <1>4. QED BY <1>1, <1>2, <1>3 DEF IInv

------------------------------------------------------------------------------
(* Each action preserves it.                                               *)

\* What the results of calls are made of.
Results == [commits : Seq(STRING), pushed : BOOLEAN,
            coverage : Codes \cup {None}, err : BOOLEAN]

LEMMA ResultFails ==
  ASSUME NEW r \in Results
  PROVE  /\ [r EXCEPT !.err = TRUE] \in Results
         /\ [r EXCEPT !.err = TRUE].err = TRUE
         /\ [r EXCEPT !.err = TRUE].coverage = r.coverage
  BY DEF Results

LEMMA ResultEnds ==
  ASSUME NEW r \in Results, NEW p \in BOOLEAN, NEW c \in Codes \cup {None}
  PROVE  /\ [r EXCEPT !.pushed = p, !.coverage = c] \in Results
         /\ [r EXCEPT !.pushed = p, !.coverage = c].err = r.err
         /\ [r EXCEPT !.pushed = p, !.coverage = c].coverage = c
  BY DEF Results

LEMMA ResultGrows ==
  ASSUME NEW r \in Results, NEW s \in Seq(STRING)
  PROVE  /\ [r EXCEPT !.commits = @ \o s] \in Results
         /\ [r EXCEPT !.commits = @ \o s].err = r.err
         /\ [r EXCEPT !.commits = @ \o s].coverage = r.coverage
         /\ [r EXCEPT !.commits = @ \o s].pushed = r.pushed
  <1> DEFINE S == Seq(STRING)
  <1>1. r \in [commits : S, pushed : BOOLEAN,
               coverage : Codes \cup {None}, err : BOOLEAN]
    BY DEF Results
  <1>2. r.commits \in S /\ r.commits \o s \in S
    <2>1. r.commits \in S
      BY DEF Results
    <2>2. QED BY <2>1, SeqFacts
  <1> HIDE DEF S
  <1>3. [r EXCEPT !.commits = @ \o s] \in [commits : S, pushed : BOOLEAN,
               coverage : Codes \cup {None}, err : BOOLEAN]
    BY <1>1, <1>2
  <1>4. QED BY <1>1, <1>3 DEF Results, S

\* A call that fails reports nothing else, and leaves a clone to the next.
LEMMA FailIInv ==
  ASSUME IInv, pc # "idle", Fail,
         worktree' \in Trees, base' \in Trees, remote' \in Trees,
         unpushed' \in Seq(Commits), UNCHANGED <<spec, moved, bounds>>,
         RemoteInv', ModuleInv', NoDamage'
  PROVE  IInv'
  <1>1. TypeOK'
    <2>1. res' \in Results
      BY ResultFails DEF IInv, TypeOK, Fail, Results
    <2>2. QED BY <2>1 DEF IInv, TypeOK, Fail, Results, bounds
  <1>2. IndexInv' /\ CleanInv' /\ InitialInv' /\ PassInv' /\ ReportInv'
    BY DEF Fail, IndexInv, CleanInv, InitialInv, PassInv, ReportInv,
           Preparing, Tasking
  <1>3. CoverageInv'
    <2>1. res'.err /\ res'.coverage = None
      BY ResultFails DEF IInv, TypeOK, ReportInv, Fail, Results
    <2>2. QED BY <2>1 DEF CoverageInv, Succeeded, Returned
  <1>4. QED BY <1>1, <1>2, <1>3 DEF IInv

\* Where a failure leaves the commits and the remote alone, too.
LEMMA FailAlone ==
  ASSUME IInv, pc # "idle", Fail, worktree' \in Trees,
         UNCHANGED <<spec, base, unpushed, remote, moved, bounds>>
  PROVE  IInv'
  <1>1. RemoteInv' /\ ModuleInv' /\ NoDamage'
    BY DEF IInv, RemoteInv, ModuleInv, NoDamage, Passes
  <1>2. base' \in Trees /\ remote' \in Trees /\ unpushed' \in Seq(Commits)
    BY DEF IInv, TypeOK
  <1>3. QED BY <1>1, <1>2, FailIInv DEF bounds

\* A call that goes on within prepare, with all it has made as it was.
LEMMA QuietIInv ==
  ASSUME IInv, pc \in Preparing, pc' \in Preparing, Quiet,
         worktree' \in Trees, UNCHANGED <<spec, unpushed, remote, bounds>>,
         base' \in Trees, moved' \in BOOLEAN,
         RemoteInv', CleanInv', InitialInv'
  PROVE  IInv'
  <1>1. TypeOK'
    BY DEF IInv, TypeOK, Quiet, bounds, Preparing
  <1>2. IndexInv' /\ ModuleInv' /\ PassInv' /\ ReportInv' /\ CoverageInv' /\ NoDamage'
    BY DEF IInv, Quiet, IndexInv, ModuleInv, PassInv, ReportInv, CoverageInv,
           NoDamage, Passes, Succeeded, Returned, Preparing, Tasking
  <1>3. QED BY <1>1, <1>2 DEF IInv

LEMMA BeginIInv == ASSUME IInv, Begin PROVE IInv'
  <1>1. TypeOK'
    <2>1. res' \in Results
      BY SeqFacts DEF Begin, NoResult, Results
    <2>2. index' \in 0 .. Count /\ runs' \in 0 .. MaxRuns
      <3>1. Len(Tasks) \in Nat /\ index' = 1
        <4>1. Len(Tasks) \in Nat
          BY TasksAssumption
        <4>2. QED BY <4>1, Zenon DEF Begin
      <3>2. runs \in 0 .. MaxRuns /\ runs < MaxRuns /\ runs' = runs + 1
        BY DEF IInv, TypeOK, Begin
      <3>3. QED BY <3>1, <3>2, RepositoryAssumption DEF Count
    <2>3. QED BY <2>1, <2>2 DEF IInv, TypeOK, Begin, repository, Results, Goto
  <1>2. UNCHANGED <<spec, repository>> /\ pc' = "description" /\ index' = 1
    BY DEF Begin, Goto
  <1>3. IndexInv' /\ RemoteInv' /\ ModuleInv' /\ CleanInv' /\ InitialInv' /\ PassInv'
    BY <1>2 DEF IInv, IndexInv, RemoteInv, ModuleInv, CleanInv, InitialInv,
           PassInv, Preparing, Tasking, repository
  <1>4. ReportInv' /\ CoverageInv' /\ NoDamage'
    BY <1>2 DEF IInv, ReportInv, CoverageInv, NoDamage, Passes, Succeeded,
           Returned, Begin, NoResult, repository
  <1>5. QED BY <1>1, <1>3, <1>4 DEF IInv

LEMMA HostIInv == ASSUME IInv, SetDescription \/ SetTopics PROVE IInv'
  <1>1. /\ UNCHANGED <<spec, worktree, base, unpushed, remote, moved, bounds>>
        /\ pc \in {"description", "topics"}
        /\ (Quiet /\ pc' \in {"topics", "discard"}) \/ Fail
    BY DEF SetDescription, SetTopics, Goto
  <1>2. worktree' \in Trees /\ base' \in Trees /\ moved' \in BOOLEAN
    BY <1>1 DEF IInv, TypeOK
  <1>3. CASE Fail
    BY <1>1, <1>2, <1>3, FailAlone
  <1>4. CASE Quiet /\ pc' \in {"topics", "discard"}
    <2>1. RemoteInv' /\ CleanInv' /\ InitialInv'
      BY <1>1, <1>4 DEF IInv, RemoteInv, CleanInv, InitialInv
    <2>2. QED BY <1>1, <1>2, <1>4, <2>1, QuietIInv DEF Preparing
  <1>5. QED BY <1>1, <1>3, <1>4

LEMMA DiscardIInv ==
  ASSUME IInv, DiscardLocalChanges \/ HardReset \/ Clean \/ Recheck
  PROVE  IInv'
  <1>1. /\ UNCHANGED <<spec, base, unpushed, remote, moved, bounds>>
        /\ pc \in {"discard", "reset", "clean", "recheck"}
        /\ (Quiet /\ pc' \in {"reset", "clean", "recheck", "pull"}) \/ Fail
        /\ pc' = "pull" => ChangedFiles = {} /\ worktree' = worktree
    BY DEF DiscardLocalChanges, HardReset, Clean, Recheck, Goto, repository, Fail
  <1>2. worktree' \in Trees
    <2>1. worktree \in Trees /\ Top \in Trees
      BY TopInTrees DEF IInv, TypeOK
    <2>2. CASE UNCHANGED worktree
      BY <2>1, <2>2
    <2>3. CASE HardReset
      BY <2>1, <2>3 DEF HardReset, Trees
    <2>4. CASE Clean
      BY <2>1, <2>4 DEF Clean, Trees
    <2>5. QED BY <2>2, <2>3, <2>4 DEF DiscardLocalChanges, Recheck, repository
  <1>3. CASE Fail
    BY <1>1, <1>2, <1>3, FailAlone
  <1>4. CASE Quiet /\ pc' \in {"reset", "clean", "recheck", "pull"}
    <2>1. pc' = "pull" => worktree' = Top'
      BY <1>1, NoChanges DEF IInv, Top
    <2>2. RemoteInv' /\ CleanInv' /\ InitialInv'
      BY <1>1, <1>4, <2>1 DEF IInv, RemoteInv, CleanInv, InitialInv
    <2>3. base' \in Trees /\ moved' \in BOOLEAN
      BY <1>1 DEF IInv, TypeOK
    <2>4. QED BY <1>1, <1>2, <1>4, <2>2, <2>3, QuietIInv DEF Preparing
  <1>5. QED BY <1>1, <1>3, <1>4

LEMMA PullIInv == ASSUME IInv, Pull PROVE IInv'
  <1>1. pc = "pull" /\ worktree = Top /\ UNCHANGED <<spec, unpushed, remote, bounds>>
    BY DEF IInv, CleanInv, Pull, Goto
  <1>2. CASE Fail
    BY <1>1, <1>2, FailAlone DEF Pull, IInv, TypeOK, Fail, Goto
  <1>3. CASE Quiet /\ pc' = "isGoRepo"
    <2>1. /\ moved => unpushed = <<>>
          /\ base' = IF moved THEN remote ELSE base
          /\ worktree' = IF moved THEN remote ELSE worktree
          /\ moved' = FALSE
      BY <1>3 DEF Pull, Fail
    <2>2. worktree' \in Trees /\ base' \in Trees
      BY <2>1 DEF IInv, TypeOK
    <2>3. worktree' = Top'
      BY <1>1, <2>1 DEF Top
    <2>4. RemoteInv' /\ CleanInv' /\ InitialInv'
      BY <1>1, <1>3, <2>1, <2>3 DEF IInv, RemoteInv, CleanInv, InitialInv
    <2>5. QED BY <1>1, <1>3, <2>1, <2>2, <2>4, QuietIInv DEF Preparing
  <1>4. QED BY <1>2, <1>3 DEF Pull, Goto

\* A step that begins from one that succeeded: what is left to show is that
\* the head is the one the next step expects.
LEMMA NextIInv ==
  ASSUME IInv, pc # "idle", NEW event, NextStep(event), index \in 1 .. Len(Tasks) + 2,
         UNCHANGED <<spec, moved, bounds, files, finished>>,
         worktree' \in Trees, base' \in Trees, remote' \in Trees,
         unpushed' \in Seq(Commits),
         coverage' \in Codes \cup {None}, res' \in Results,
         res'.err = res.err, res'.pushed = res.pushed, res'.coverage = res.coverage,
         RemoteInv', ModuleInv', NoDamage',
         index = 1 => worktree' = Top',
         index # 1 => /\ TestsWrite \/ worktree' = Top'
                      /\ Passes(Top)' /\ coverage' = Top'.code
  PROVE  IInv'
  <1>1. /\ index' \in 0 .. Count
        /\ index = 1 => pc' = "test" /\ index' = 2
        /\ index # 1 => \/ pc' = "run" /\ index' \in 3 .. Len(Tasks) + 2
                        \/ pc' = "push" /\ index' = Len(Tasks) + 3
    BY NextStepFacts DEF IInv
  <1>2. pc' \in {"test", "run", "push"}
    BY <1>1
  <1>3. TypeOK'
    BY <1>1, <1>2 DEF IInv, TypeOK, Results, bounds
  <1>4. IndexInv'
    BY <1>1 DEF IndexInv, Preparing, Tasking
  <1>5. CleanInv' /\ InitialInv' /\ PassInv'
    <2>1. CleanInv' /\ InitialInv'
      BY <1>1 DEF CleanInv, InitialInv
    <2>2. PassInv'
      BY <1>1 DEF PassInv, Passes, Top
    <2>3. QED BY <2>1, <2>2
  <1>6. ReportInv' /\ CoverageInv'
    BY <1>2 DEF IInv, ReportInv, CoverageInv, Succeeded, Returned
  <1>7. QED BY <1>3, <1>4, <1>5, <1>6 DEF IInv

LEMMA IsGoRepoIInv == ASSUME IInv, IsGoRepo PROVE IInv'
  <1>1. /\ pc = "isGoRepo" /\ worktree = Top /\ index = 1
        /\ UNCHANGED <<spec, worktree, base, unpushed, remote, moved, bounds>>
    BY DEF IInv, CleanInv, IndexInv, Preparing, IsGoRepo, Goto, repository
  <1>2. /\ worktree' \in Trees /\ base' \in Trees /\ remote' \in Trees
        /\ unpushed' \in Seq(Commits) /\ moved' \in BOOLEAN
    BY <1>1 DEF IInv, TypeOK
  <1>3. RemoteInv' /\ ModuleInv' /\ NoDamage' /\ worktree' = Top'
    BY <1>1 DEF IInv, RemoteInv, ModuleInv, NoDamage, Passes, Top
  <1>4. CASE Fail
    BY <1>1, <1>2, <1>4, FailAlone
  <1>5. CASE NextStep(<<done("prepare", 1)>>) /\ UNCHANGED <<files, coverage, res, finished, made>>
    <2>1. index \in 1 .. Len(Tasks) + 2
      BY <1>1, TasksAssumption
    <2>2. coverage' \in Codes \cup {None} /\ res' \in Results
      BY <1>5 DEF IInv, TypeOK, Results
    <2>3. QED BY <1>1, <1>2, <1>3, <1>5, <2>1, <2>2, NextIInv
  <1>6. CASE worktree.code = NoModule /\ pc' = "modInit" /\ Quiet
    <2>1. unpushed = <<>>
      <3>1. SUFFICES ASSUME unpushed # <<>> PROVE FALSE
        OBVIOUS
      <3>2. Len(unpushed) \in DOMAIN unpushed
        BY <3>1 DEF IInv, TypeOK
      <3>3. QED BY <1>1, <1>6, <3>1, <3>2 DEF IInv, ModuleInv, Top
    <2>2. base.code = NoModule
      BY <1>1, <1>6, <2>1 DEF Top
    <2>3. CleanInv' /\ InitialInv'
      BY <1>1, <1>6, <2>1, <2>2 DEF CleanInv, InitialInv
    <2>4. QED BY <1>1, <1>2, <1>3, <1>6, <2>3, QuietIInv DEF Preparing
  <1>7. QED BY <1>4, <1>5, <1>6 DEF IsGoRepo, Goto

LEMMA GoModInitIInv == ASSUME IInv, GoModInit PROVE IInv'
  <1>1. /\ pc = "modInit" /\ UNCHANGED <<spec, base, unpushed, remote, moved, bounds>>
        /\ unpushed = <<>> /\ base.code = NoModule
    BY DEF IInv, InitialInv, GoModInit, Goto
  <1>2. PICK c \in Codes : worktree' = [worktree EXCEPT !.code = c] /\
            (Fail \/ (c # NoModule /\ Quiet /\ pc' = "initialCommit"))
    BY DEF GoModInit, Goto
  <1>3. worktree' \in Trees /\ worktree'.code = c
    BY <1>2 DEF IInv, TypeOK, Trees
  <1>4. CASE Fail
    BY <1>1, <1>3, <1>4, FailAlone
  <1>5. CASE c # NoModule /\ Quiet /\ pc' = "initialCommit"
    <2>1. RemoteInv' /\ CleanInv' /\ InitialInv'
      BY <1>1, <1>3, <1>5 DEF IInv, RemoteInv, CleanInv, InitialInv
    <2>2. base' \in Trees /\ moved' \in BOOLEAN
      BY <1>1 DEF IInv, TypeOK
    <2>3. QED BY <1>1, <1>3, <1>5, <2>1, <2>2, QuietIInv DEF Preparing
  <1>6. QED BY <1>2, <1>4, <1>5

\* A commit of a tree that passes, or of the first tree with a module.
LEMMA CommitIsSound ==
  ASSUME IInv, NEW by \in Makers, CommitAll(by), spec' = spec,
         worktree.code # NoModule, by = byRunner \/ Passes(worktree)
  PROVE  ModuleInv' /\ NoDamage'
  <1> DEFINE last == Len(unpushed')
  <1>1. /\ DOMAIN unpushed' = DOMAIN unpushed \cup {last}
        /\ \A n \in DOMAIN unpushed : unpushed'[n] = unpushed[n]
    BY CommitFacts DEF IInv
  <1>2. unpushed'[last].tree = worktree /\ unpushed'[last].by = by
    BY CommitFacts DEF IInv
  <1> HIDE DEF last
  <1>3. ASSUME NEW n \in DOMAIN unpushed'
        PROVE  /\ unpushed'[n].tree.code # NoModule
               /\ unpushed'[n].by # byRunner => Passes(unpushed'[n].tree)
    <2>1. CASE n = last
      BY <1>2, <2>1
    <2>2. CASE n \in DOMAIN unpushed
      BY <1>1, <2>2 DEF IInv, ModuleInv, NoDamage
    <2>3. QED BY <1>1, <2>1, <2>2
  <1>4. ModuleInv'
    BY <1>3 DEF ModuleInv
  <1>5. NoDamage'
    <2>1. ASSUME NEW n \in DOMAIN unpushed', unpushed'[n].by # byRunner
          PROVE  Passes(unpushed[n].tree)'
      <3>1. Passes(unpushed'[n].tree)
        BY <1>3, <2>1
      <3>2. QED BY <3>1 DEF Passes
    <2>2. QED BY <2>1 DEF NoDamage
  <1>6. QED BY <1>4, <1>5

LEMMA InitialCommitIInv == ASSUME IInv, InitialCommit PROVE IInv'
  <1>1. /\ pc = "initialCommit"
        /\ UNCHANGED <<spec, worktree, base, remote, moved, bounds>>
        /\ index = 1 /\ base.code = NoModule /\ worktree.code # NoModule
    BY DEF IInv, InitialInv, IndexInv, Preparing, InitialCommit, Goto
  <1>2. worktree' \in Trees /\ base' \in Trees /\ remote' \in Trees
    BY <1>1 DEF IInv, TypeOK
  <1>3. CASE Fail /\ UNCHANGED unpushed
    BY <1>1, <1>2, <1>3, FailAlone
  <1>4. CASE /\ Goto("initialCommit", "initialPush")
             /\ CommitAll(byRunner)
             /\ UNCHANGED <<index, files, coverage, res, log, finished>>
    <2>1. byRunner \in Makers
      BY DEF Makers
    <2>2. /\ unpushed' \in Seq(Commits) /\ Top' = worktree
          /\ DOMAIN unpushed' = DOMAIN unpushed \cup {Len(unpushed')}
          /\ \A n \in DOMAIN unpushed : unpushed'[n] = unpushed[n]
      BY <1>4, <2>1, CommitFacts DEF IInv
    <2>3. pc' = "initialPush"
      BY <1>4 DEF Goto
    <2>4. TypeOK'
      BY <1>1, <1>2, <1>4, <2>2, <2>3 DEF IInv, TypeOK, bounds
    <2>5. IndexInv' /\ RemoteInv' /\ CleanInv' /\ InitialInv' /\ PassInv'
      BY <1>1, <1>4, <2>2, <2>3 DEF IInv, IndexInv, RemoteInv, CleanInv,
         InitialInv, PassInv, Preparing, Tasking
    <2>6. ModuleInv' /\ NoDamage'
      BY <1>1, <1>4, <2>1, CommitIsSound
    <2>7. ReportInv' /\ CoverageInv'
      BY <1>1, <1>4, <2>3 DEF IInv, ReportInv, CoverageInv, Succeeded, Returned
    <2>8. QED BY <2>4, <2>5, <2>6, <2>7 DEF IInv
  <1>5. QED BY <1>3, <1>4 DEF InitialCommit

\* What a push that arrived leaves.
LEMMA PublishIInv ==
  ASSUME IInv, Publish, UNCHANGED <<spec, moved>>
  PROVE  RemoteInv' /\ ModuleInv' /\ NoDamage'
  BY PublishFacts DEF IInv, RemoteInv, ModuleInv, NoDamage, Publish

\* A push that arrives, and leaves the call where it is to return.
LEMMA ArrivesIInv ==
  ASSUME IInv, Publish, Quiet, UNCHANGED <<spec, worktree, moved, bounds>>,
         \/ Goto("initialPush", "initialPushed") \/ Goto("push", "pushed")
  PROVE  IInv'
  <1>1. /\ unpushed' \in Seq(Commits) /\ base' \in Trees /\ remote' \in Trees
        /\ Top' = Top
    BY PublishFacts DEF IInv
  <1>2. RemoteInv' /\ ModuleInv' /\ NoDamage'
    BY PublishIInv
  <1>3. \/ pc = "initialPush" /\ pc' = "initialPushed"
        \/ pc = "push" /\ pc' = "pushed"
    BY DEF Goto
  <1>4. TypeOK'
    BY <1>1, <1>3 DEF IInv, TypeOK, Quiet, bounds
  <1>5. IndexInv' /\ CleanInv' /\ InitialInv'
    BY <1>1, <1>3 DEF IInv, IndexInv, CleanInv, InitialInv, Quiet, Preparing, Tasking
  <1>6. PassInv'
    BY <1>1, <1>3 DEF IInv, PassInv, Passes, Quiet
  <1>7. ReportInv' /\ CoverageInv'
    BY <1>3 DEF IInv, ReportInv, CoverageInv, Succeeded, Returned, Quiet
  <1>8. QED BY <1>2, <1>4, <1>5, <1>6, <1>7 DEF IInv

LEMMA InitialPushIInv == ASSUME IInv, InitialPush PROVE IInv'
  <1>1. UNCHANGED <<spec, worktree, moved, bounds>> /\ worktree \in Trees
    BY DEF IInv, TypeOK, InitialPush
  <1>2. CASE Publish /\ Goto("initialPush", "initialPushed") /\ Quiet
    BY <1>1, <1>2, ArrivesIInv
  <1>3. CASE pc = "initialPush" /\ Fail /\ UNCHANGED <<remote, base, unpushed>>
    BY <1>1, <1>3, FailAlone
  <1>4. QED BY <1>2, <1>3 DEF InitialPush

\* A call that returns leaves the repository alone.
LEMMA SameRepository ==
  ASSUME IInv, UNCHANGED <<spec, repository, bounds>>
  PROVE  /\ unpushed' \in Seq(Commits) /\ base' \in Trees /\ remote' \in Trees
         /\ worktree' \in Trees /\ Top' = Top
         /\ UNCHANGED <<spec, worktree, base, unpushed, remote, moved, bounds>>
         /\ RemoteInv' /\ ModuleInv' /\ NoDamage'
  BY DEF IInv, TypeOK, Top, RemoteInv, ModuleInv, NoDamage, Passes, repository

LEMMA InitialPushReturnsIInv == ASSUME IInv, InitialPushReturns PROVE IInv'
  <1>1. /\ pc = "initialPushed" /\ UNCHANGED <<spec, repository, bounds>>
        /\ worktree = Top /\ index = 1
    BY DEF IInv, CleanInv, IndexInv, Preparing, InitialPushReturns
  <1>2. /\ unpushed' \in Seq(Commits) /\ base' \in Trees /\ remote' \in Trees
        /\ worktree' \in Trees /\ worktree' = Top'
        /\ UNCHANGED <<spec, worktree, base, unpushed, remote, moved, bounds>>
        /\ RemoteInv' /\ ModuleInv' /\ NoDamage'
    BY <1>1, SameRepository
  <1>3. CASE Fail
    BY <1>1, <1>2, <1>3, FailAlone
  <1>4. CASE /\ NextStep(<<done("prepare", 1)>>)
             /\ UNCHANGED <<files, coverage, res, finished, made>>
    <2>1. /\ coverage' \in Codes \cup {None}
          /\ res' \in Results /\ index \in 1 .. Len(Tasks) + 2
      BY <1>1, <1>4, TasksAssumption DEF IInv, TypeOK, Results
    <2>2. QED BY <1>1, <1>2, <1>4, <2>1, NextIInv
  <1>5. QED BY <1>3, <1>4 DEF InitialPushReturns

LEMMA TestIInv == ASSUME IInv, Test PROVE IInv'
  <1>1. /\ pc = "test" /\ index = 2 /\ worktree = Top
        /\ UNCHANGED <<spec, base, unpushed, remote, moved, bounds>>
        /\ worktree' \in AfterTest
    BY DEF IInv, CleanInv, IndexInv, Test
  <1>2. /\ worktree' \in Trees
        /\ TestsWrite \/ worktree' = worktree
        /\ Top' = Top
    BY <1>1, AfterTestFacts DEF IInv, Top
  <1>3. CASE Fail
    BY <1>1, <1>2, <1>3, FailAlone
  <1>4. CASE /\ TestCover /\ coverage' = worktree.code
             /\ NextStep(<<done("test", 2)>>)
             /\ UNCHANGED <<files, res, finished, made>>
    <2>1. RemoteInv' /\ ModuleInv' /\ NoDamage'
      BY <1>1 DEF IInv, RemoteInv, ModuleInv, NoDamage, Passes
    <2>2. /\ base' \in Trees /\ remote' \in Trees /\ unpushed' \in Seq(Commits)
          /\ res' \in Results /\ index \in 1 .. Len(Tasks) + 2
      BY <1>1, <1>4, TasksAssumption DEF IInv, TypeOK, Results
    <2>3. coverage' \in Codes \cup {None}
      BY <1>1, <1>4 DEF IInv, TypeOK, Trees
    <2>4. Passes(Top)'
      BY <1>1, <1>2, <1>4 DEF Passes, TestCover
    <2>5. /\ TestsWrite \/ worktree' = Top'
          /\ coverage' = Top'.code
      BY <1>1, <1>2, <1>4
    <2>6. QED BY <1>1, <1>2, <1>4, <2>1, <2>2, <2>3, <2>4, <2>5, NextIInv
  <1>5. QED BY <1>3, <1>4 DEF Test

LEMMA RunTaskIInv == ASSUME IInv, RunTask PROVE IInv'
  <1>1. /\ pc = "run" /\ UNCHANGED <<spec, base, unpushed, remote, moved, bounds>>
        /\ (pc' = "changedFiles" /\ Quiet) \/ Fail
    BY DEF RunTask, Goto
  <1>2. worktree' \in Trees
    <2>1. PICK c \in Codes, d \in Docs :
                worktree' = [worktree EXCEPT !.code = c, !.doc = d]
      BY DEF RunTask
    <2>2. worktree \in Trees
      BY DEF IInv, TypeOK
    <2>3. QED BY <2>1, <2>2 DEF Trees
  <1>3. CASE Fail
    BY <1>1, <1>2, <1>3, FailAlone
  <1>4. CASE pc' = "changedFiles" /\ Quiet
    <2>1. TypeOK'
      BY <1>1, <1>2, <1>4 DEF IInv, TypeOK, Quiet, bounds
    <2>2. IndexInv' /\ RemoteInv' /\ CleanInv' /\ InitialInv'
      BY <1>1, <1>4 DEF IInv, IndexInv, RemoteInv, CleanInv, InitialInv, Quiet,
         Preparing, Tasking
    <2>3. ModuleInv' /\ NoDamage' /\ PassInv'
      BY <1>1, <1>4 DEF IInv, ModuleInv, NoDamage, PassInv, Passes, Top, Quiet
    <2>4. ReportInv' /\ CoverageInv'
      BY <1>1, <1>4 DEF IInv, ReportInv, CoverageInv, Succeeded, Returned, Quiet
    <2>5. QED BY <2>1, <2>2, <2>3, <2>4 DEF IInv
  <1>5. QED BY <1>1, <1>3, <1>4

\* A change that needs no test leaves code that passes as it is.
LEMMA Irrelevant ==
  ASSUME IInv, pc = "changedFiles", ~relevant(ChangedFiles)
  PROVE  Passes(worktree) /\ worktree.code = Top.code
  <1>1. ChangedFiles \ Inert = {} /\ ~spec.lintInTests
    BY DEF relevant
  <1>2. worktree.code = Top.code
    BY <1>1, InertAssumption DEF ChangedFiles, Diff, Paths
  <1>3. QED BY <1>1, <1>2 DEF IInv, PassInv, Passes

LEMMA GetChangedFilesIInv == ASSUME IInv, GetChangedFiles PROVE IInv'
  <1>1. /\ pc = "changedFiles" /\ index \in 3 .. Len(Tasks) + 2
        /\ UNCHANGED <<spec, worktree, base, unpushed, remote, moved, bounds>>
        /\ Passes(Top) /\ coverage = Top.code
    BY DEF IInv, IndexInv, PassInv, Tasking, GetChangedFiles, repository
  <1>2. /\ worktree' \in Trees /\ base' \in Trees /\ remote' \in Trees
        /\ unpushed' \in Seq(Commits)
    BY <1>1 DEF IInv, TypeOK
  <1>3. RemoteInv' /\ ModuleInv' /\ NoDamage'
    BY <1>1 DEF IInv, RemoteInv, ModuleInv, NoDamage, Passes
  <1>4. CASE Fail
    BY <1>1, <1>2, <1>4, FailAlone
  <1>5. CASE /\ ChangedFiles = {} /\ NextStep(<<done(Label(index), index)>>)
             /\ UNCHANGED <<files, coverage, res, finished, made>>
    <2>1. Top' = Top /\ worktree' = Top' /\ coverage' = Top'.code
      BY <1>1, <1>5, NoChanges DEF IInv, Top
    <2>2. Passes(Top)'
      BY <1>1, <2>1 DEF Passes
    <2>3. coverage' \in Codes \cup {None} /\ res' \in Results
      BY <1>5 DEF IInv, TypeOK, Results
    <2>4. index \in 1 .. Len(Tasks) + 2 /\ index # 1
      BY <1>1, TasksAssumption
    <2>5. QED BY <1>1, <1>2, <1>3, <1>5, <2>1, <2>2, <2>3, <2>4, NextIInv
  <1>6. CASE /\ files' = ChangedFiles
             /\ IF relevant(ChangedFiles) THEN pc' = "taskTest" ELSE pc' = "commit"
             /\ UNCHANGED <<index, coverage, res, finished, made>>
    <2>1. pc' \in {"taskTest", "commit"}
      BY <1>6
    <2>2. TypeOK'
      BY <1>1, <1>2, <1>6, <2>1 DEF IInv, TypeOK, bounds, ChangedFiles, Diff
    <2>3. IndexInv' /\ CleanInv' /\ InitialInv'
      BY <1>1, <1>6, <2>1 DEF IndexInv, CleanInv, InitialInv, Preparing, Tasking
    <2>4. PassInv'
      <3>1. CASE pc' = "taskTest"
        BY <1>1, <1>6, <3>1 DEF PassInv, Passes, Top
      <3>2. CASE pc' = "commit"
        <4>1. Passes(worktree) /\ worktree.code = Top.code
          BY <1>1, <1>6, <3>2, Irrelevant
        <4>2. QED BY <1>1, <1>6, <3>2, <4>1 DEF PassInv, Passes
      <3>3. QED BY <2>1, <3>1, <3>2
    <2>5. ReportInv' /\ CoverageInv'
      BY <1>1, <1>6, <2>1 DEF IInv, ReportInv, CoverageInv, Succeeded, Returned
    <2>6. QED BY <1>3, <2>2, <2>3, <2>4, <2>5 DEF IInv
  <1>7. QED BY <1>4, <1>5, <1>6 DEF GetChangedFiles

LEMMA TaskTestIInv == ASSUME IInv, TaskTest PROVE IInv'
  <1>1. /\ pc = "taskTest" /\ index \in 3 .. Len(Tasks) + 2
        /\ UNCHANGED <<spec, base, unpushed, remote, moved, bounds>>
        /\ worktree' \in AfterTest
    BY DEF IInv, IndexInv, Tasking, TaskTest
  <1>2. /\ worktree' \in Trees
        /\ worktree'.code = worktree.code /\ worktree'.doc = worktree.doc
    BY <1>1, AfterTestFacts DEF IInv
  <1>3. CASE Fail
    BY <1>1, <1>2, <1>3, FailAlone
  <1>4. CASE /\ TestCover /\ coverage' = worktree.code /\ pc' = "commit"
             /\ UNCHANGED <<index, files, res, finished, made>>
    <2>1. worktree.code \in Codes
      BY DEF IInv, TypeOK, Trees
    <2>2. TypeOK'
      BY <1>1, <1>2, <1>4, <2>1 DEF IInv, TypeOK, bounds
    <2>3. IndexInv' /\ RemoteInv' /\ CleanInv' /\ InitialInv'
      BY <1>1, <1>4 DEF IInv, IndexInv, RemoteInv, CleanInv, InitialInv,
         Preparing, Tasking
    <2>4. PassInv'
      BY <1>1, <1>2, <1>4 DEF PassInv, Passes, TestCover
    <2>5. ModuleInv' /\ NoDamage'
      BY <1>1 DEF IInv, ModuleInv, NoDamage, Passes
    <2>6. ReportInv' /\ CoverageInv'
      BY <1>1, <1>4 DEF IInv, ReportInv, CoverageInv, Succeeded, Returned
    <2>7. QED BY <2>2, <2>3, <2>4, <2>5, <2>6 DEF IInv
  <1>5. QED BY <1>3, <1>4 DEF TaskTest

LEMMA CommitIInv == ASSUME IInv, Commit PROVE IInv'
  <1>1. /\ pc = "commit" /\ index \in 3 .. Len(Tasks) + 2
        /\ UNCHANGED <<spec, worktree, base, remote, moved, bounds>>
        /\ Passes(worktree) /\ coverage = worktree.code
    BY DEF IInv, IndexInv, PassInv, Tasking, Commit, Goto
  <1>2. worktree' \in Trees /\ base' \in Trees /\ remote' \in Trees
    BY <1>1 DEF IInv, TypeOK
  <1>3. CASE Fail /\ UNCHANGED unpushed
    BY <1>1, <1>2, <1>3, FailAlone
  <1>4. CASE /\ Goto("commit", "committed") /\ CommitAll(Label(index))
             /\ UNCHANGED <<index, files, coverage, res, log, finished>>
    <2>1. Label(index) \in Makers
      BY <1>1, TaskLabel
    <2>2. unpushed' \in Seq(Commits) /\ Top' = worktree
      BY <1>4, <2>1, CommitFacts DEF IInv
    <2>3. worktree.code # NoModule
      BY <1>1, RepositoryAssumption DEF Passes
    <2>4. RemoteInv' /\ ModuleInv' /\ NoDamage'
      BY <1>1, <1>4, <2>1, <2>3, CommitIsSound DEF IInv, RemoteInv
    <2>5. pc' = "committed"
      BY <1>4 DEF Goto
    <2>6. TypeOK'
      BY <1>1, <1>2, <1>4, <2>2, <2>5 DEF IInv, TypeOK, bounds
    <2>7. IndexInv' /\ CleanInv' /\ InitialInv'
      BY <1>1, <1>4, <2>2, <2>5 DEF IndexInv, CleanInv, InitialInv, Preparing, Tasking
    <2>8. PassInv'
      BY <1>1, <1>4, <2>2, <2>5 DEF PassInv, Passes
    <2>9. ReportInv' /\ CoverageInv'
      BY <1>1, <1>4, <2>5 DEF IInv, ReportInv, CoverageInv, Succeeded, Returned
    <2>10. QED BY <2>4, <2>6, <2>7, <2>8, <2>9 DEF IInv
  <1>5. QED BY <1>3, <1>4 DEF Commit

LEMMA CommitReturnsIInv == ASSUME IInv, CommitReturns PROVE IInv'
  <1>1. /\ pc = "committed" /\ index \in 3 .. Len(Tasks) + 2
        /\ UNCHANGED <<spec, repository, bounds>>
        /\ Passes(Top) /\ coverage = Top.code /\ worktree = Top
    BY DEF IInv, IndexInv, PassInv, CleanInv, Tasking, CommitReturns
  <1>2. /\ unpushed' \in Seq(Commits) /\ base' \in Trees /\ remote' \in Trees
        /\ worktree' \in Trees /\ worktree' = Top' /\ Top' = Top
        /\ UNCHANGED <<spec, worktree, base, unpushed, remote, moved, bounds>>
        /\ RemoteInv' /\ ModuleInv' /\ NoDamage'
    BY <1>1, SameRepository
  <1>3. CASE Fail
    BY <1>1, <1>2, <1>3, FailAlone
  <1>4. CASE /\ res' = [res EXCEPT !.commits = @ \o describe(Label(index))]
             /\ NextStep(<<committed(Label(index), index, files)>>)
             /\ UNCHANGED <<files, coverage, finished, made>>
    <2>1. describe(Label(index)) \in Seq(STRING)
      BY <1>1, TaskLabel
    <2>2. /\ res' \in Results /\ res'.err = res.err /\ res'.pushed = res.pushed
          /\ res'.coverage = res.coverage
      <3>1. res \in Results
        BY DEF IInv, TypeOK, Results
      <3>2. PICK s \in Seq(STRING) : s = describe(Label(index))
        BY <2>1
      <3>3. res' = [res EXCEPT !.commits = @ \o s]
        BY <1>4, <3>2
      <3>4. /\ [res EXCEPT !.commits = @ \o s] \in Results
            /\ [res EXCEPT !.commits = @ \o s].err = res.err
            /\ [res EXCEPT !.commits = @ \o s].coverage = res.coverage
            /\ [res EXCEPT !.commits = @ \o s].pushed = res.pushed
        BY <3>1, <3>2, ResultGrows, Zenon
      <3>5. QED BY <3>3, <3>4, Zenon
    <2>3. Passes(Top)' /\ coverage' = Top'.code
      BY <1>1, <1>2, <1>4 DEF Passes
    <2>4. coverage' \in Codes \cup {None}
      BY <1>4 DEF IInv, TypeOK
    <2>5. index \in 1 .. Len(Tasks) + 2 /\ index # 1
      BY <1>1, TasksAssumption
    <2>6. QED BY <1>1, <1>2, <1>4, <2>2, <2>3, <2>4, <2>5, NextIInv
  <1>5. QED BY <1>3, <1>4 DEF CommitReturns

\* What a call that succeeds leaves.
LEMMA FinishIInv ==
  ASSUME IInv, pc \in {"push", "pushed"}, NEW pushed \in BOOLEAN, NEW event,
         Finish(pushed, event), UNCHANGED <<spec, worktree, moved, bounds>>,
         base' \in Trees, remote' \in Trees, unpushed' \in Seq(Commits), Top' = Top,
         RemoteInv', ModuleInv', NoDamage'
  PROVE  IInv'
  <1>1. /\ res' \in Results /\ ~res'.err /\ res'.coverage = coverage
    <2>1. res \in Results /\ ~res.err /\ coverage \in Codes \cup {None}
      BY DEF IInv, TypeOK, ReportInv, Results
    <2>2. res' = [res EXCEPT !.pushed = pushed, !.coverage = coverage]
      BY DEF Finish
    <2>3. /\ [res EXCEPT !.pushed = pushed, !.coverage = coverage] \in Results
          /\ [res EXCEPT !.pushed = pushed, !.coverage = coverage].err = res.err
          /\ [res EXCEPT !.pushed = pushed, !.coverage = coverage].coverage = coverage
      BY <2>1, ResultEnds, ZenonT(40)
    <2>4. QED BY <2>1, <2>2, <2>3, Zenon
  <1>2. pc' = "idle" /\ finished' = TRUE
    BY DEF Finish
  <1>3. TypeOK'
    BY <1>1, <1>2 DEF IInv, TypeOK, Finish, Results, bounds
  <1>4. IndexInv' /\ CleanInv' /\ InitialInv' /\ PassInv' /\ ReportInv'
    BY <1>2 DEF IndexInv, CleanInv, InitialInv, PassInv, ReportInv, Preparing, Tasking
  <1>5. CoverageInv'
    <2>1. coverage = Top.code /\ (TestsWrite \/ worktree = Top)
      BY DEF IInv, PassInv, CleanInv
    <2>2. QED BY <1>1, <2>1 DEF CoverageInv, Succeeded, Returned
  <1>6. QED BY <1>3, <1>4, <1>5 DEF IInv

LEMMA PushIInv == ASSUME IInv, Push PROVE IInv'
  <1>1. UNCHANGED <<spec, worktree, moved, bounds>> /\ worktree \in Trees
    BY DEF IInv, TypeOK, Push
  <1>2. CASE Publish /\ Goto("push", "pushed") /\ Quiet
    BY <1>1, <1>2, ArrivesIInv
  <1>3. CASE pc = "push" /\ Fail /\ UNCHANGED <<remote, base, unpushed>>
    BY <1>1, <1>3, FailAlone
  <1>4. QED BY <1>2, <1>3 DEF Push

LEMMA NothingToPushIInv == ASSUME IInv, NothingToPush PROVE IInv'
  <1>1. /\ pc = "push" /\ Finish(FALSE, <<>>)
        /\ UNCHANGED <<spec, repository, bounds>>
    BY DEF NothingToPush
  <1>2. QED BY <1>1, SameRepository, FinishIInv

LEMMA PushReturnsIInv == ASSUME IInv, PushReturns PROVE IInv'
  <1>1. pc = "pushed" /\ UNCHANGED <<spec, repository, bounds>>
    BY DEF PushReturns
  <1>2. CASE Fail
    BY <1>1, <1>2, SameRepository, FailAlone
  <1>3. CASE Finish(TRUE, <<ofRepo("repo_pushed")>>)
    BY <1>1, <1>3, SameRepository, FinishIInv
  <1>4. QED BY <1>2, <1>3 DEF PushReturns

LEMMA CrashIInv == ASSUME IInv, Crash PROVE IInv'
  <1>1. UNCHANGED <<spec, repository, index, files, coverage, res, log, finished, bounds>>
    BY DEF Crash
  <1>2. pc' = "idle" /\ ~finished
    BY DEF IInv, ReportInv, Crash
  <1>3. TypeOK'
    BY <1>1, <1>2 DEF IInv, TypeOK, repository, bounds
  <1>4. QED BY <1>1, <1>2, <1>3 DEF IInv, IndexInv, RemoteInv, ModuleInv, CleanInv,
       InitialInv, PassInv, ReportInv, CoverageInv, NoDamage, Passes, Succeeded,
       Returned, Preparing, Tasking, repository

LEMMA OtherIInv == ASSUME IInv, Other PROVE IInv'
  <1>1. /\ UNCHANGED <<spec, worktree, base, unpushed, progress>>
        /\ moved' = TRUE
    BY DEF Other
  <1>2. TypeOK'
    <2>1. remote' \in Trees
      <3>1. remote \in Trees
        BY DEF IInv, TypeOK
      <3>2. QED BY <3>1 DEF Other, Trees
    <2>2. others' \in 0 .. MaxOthers /\ runs' = runs
      BY RepositoryAssumption DEF IInv, TypeOK, Other
    <2>3. QED BY <1>1, <2>1, <2>2 DEF IInv, TypeOK, progress
  <1>3. Top' = Top
    BY <1>1 DEF Top
  <1>4. IndexInv' /\ RemoteInv' /\ ModuleInv' /\ NoDamage'
    BY <1>1 DEF IInv, IndexInv, RemoteInv, ModuleInv, NoDamage, Passes,
       Preparing, Tasking, progress
  <1>5. CleanInv' /\ InitialInv'
    BY <1>1, <1>3 DEF IInv, CleanInv, InitialInv, progress
  <1>6. PassInv'
    BY <1>1, <1>3 DEF IInv, PassInv, Passes, progress
  <1>7. ReportInv' /\ CoverageInv'
    BY <1>1, <1>3 DEF IInv, ReportInv, CoverageInv, Succeeded, Returned, progress
  <1>8. QED BY <1>2, <1>4, <1>5, <1>6, <1>7 DEF IInv

LEMMA StutterIInv == ASSUME IInv, UNCHANGED vars PROVE IInv'
  <1>1. UNCHANGED <<spec, worktree, base, unpushed, remote, moved, pc, index, files,
                    coverage, res, finished, runs, others>>
    BY DEF vars, repository, progress, bounds
  <1>2. TypeOK'
    BY <1>1 DEF IInv, TypeOK
  <1>3. Top' = Top
    BY <1>1 DEF Top
  <1>4. IndexInv' /\ RemoteInv' /\ ModuleInv' /\ NoDamage'
    BY <1>1 DEF IInv, IndexInv, RemoteInv, ModuleInv, NoDamage, Passes,
       Preparing, Tasking
  <1>5. CleanInv' /\ InitialInv'
    BY <1>1, <1>3 DEF IInv, CleanInv, InitialInv
  <1>6. PassInv'
    BY <1>1, <1>3 DEF IInv, PassInv, Passes
  <1>7. ReportInv' /\ CoverageInv'
    BY <1>1, <1>3 DEF IInv, ReportInv, CoverageInv, Succeeded, Returned
  <1>8. QED BY <1>2, <1>4, <1>5, <1>6, <1>7 DEF IInv

LEMMA StepIInv == IInv /\ [Next]_vars => IInv'
  <1> SUFFICES ASSUME IInv, [Next]_vars PROVE IInv'
    OBVIOUS
  <1>1. CASE Update
    BY <1>1, HostIInv, DiscardIInv, PullIInv, IsGoRepoIInv, GoModInitIInv,
       InitialCommitIInv, InitialPushIInv, InitialPushReturnsIInv, TestIInv, RunTaskIInv,
       GetChangedFilesIInv, TaskTestIInv, CommitIInv, CommitReturnsIInv,
       NothingToPushIInv, PushIInv, PushReturnsIInv DEF Update
  <1>2. QED BY <1>1, BeginIInv, CrashIInv, OtherIInv, StutterIInv DEF Next, Rest

------------------------------------------------------------------------------
(* The theorems.                                                           *)

\* Over any number of calls, with any tasks and specs, whatever fails, is
\* killed or is pushed meanwhile, the clone is as the runner takes it to be.
THEOREM Invariance == Spec => []IInv
  <1>1. QED BY InitIInv, StepIInv, PTL DEF Spec

\* The types; in particular the steps never outnumber the announced count.
THEOREM TypeCorrect == Spec => []TypeOK
  <1>1. IInv => TypeOK
    BY DEF IInv
  <1>2. QED BY <1>1, Invariance, PTL

\* A commit of a task that can still reach the remote passes the tests.
THEOREM DamageStays == Spec => []NoDamage
  <1>1. IInv => NoDamage
    BY DEF IInv
  <1>2. QED BY <1>1, Invariance, PTL

\* Where tests write no files, nothing but what is committed is pulled over,
\* tested or given to a task.
THEOREM LeftoversDiscarded == Spec => [](TestsWrite \/ StartsClean)
  <1>1. IInv => TestsWrite \/ StartsClean
    BY DEF IInv, CleanInv, StartsClean
  <1>2. QED BY <1>1, Invariance, PTL

\* Where tests write no files, the coverage reported is that of the head.
THEOREM CoverageIsOfHead == Spec => [](TestsWrite \/ CoverageOfHead)
  <1>1. IInv => TestsWrite \/ CoverageOfHead
    BY DEF IInv, CoverageInv, CoverageOfHead
  <1>2. QED BY <1>1, Invariance, PTL

------------------------------------------------------------------------------
(* The refinement: what a step is to those who share the remote.           *)

LEMMA Unreported == ASSUME pc # "idle" PROVE Reported = "none"
  BY DEF Reported, Returned, Succeeded

\* Which trees pass depends on the spec.
LEMMA SameSound ==
  ASSUME spec' = spec
  PROVE  {t \in Trees : Passes(t)}' = {t \in Trees : Passes(t)}
  BY DEF Passes, Trees

\* A step on which nothing of this can be seen.
LEMMA Unseen ==
  ASSUME pc \notin {"idle", "pushed"}, pc' \notin {"idle", "pushed"},
         UNCHANGED <<spec, remote, moved>>
  PROVE  UNCHANGED U!vars
  <1>1. Reported = "none" /\ Reported' = "none"
    <2>1. Reported = "none"
      BY Unreported
    <2>2. Reported' = "none"
      BY DEF Reported, Returned, Succeeded
    <2>3. QED BY <2>1, <2>2
  <1>2. /\ (pc # "idle") = TRUE /\ (pc # "idle")' = TRUE
        /\ (pc = "pushed") = FALSE /\ (pc = "pushed")' = FALSE
    OBVIOUS
  <1>3. QED BY <1>1, <1>2, SameSound DEF U!vars

LEMMA FailSeen ==
  ASSUME IInv, pc # "idle", Fail, UNCHANGED <<spec, remote, moved>>
  PROVE  U!End("failed")
  <1>1. pc' = "idle" /\ finished' = TRUE /\ res'.err = TRUE
    BY ResultFails DEF IInv, TypeOK, Fail, Results
  <1>2. Reported' = "failed"
    BY <1>1 DEF Reported, Returned, Succeeded
  <1>3. QED BY <1>1, <1>2, SameSound DEF U!End

LEMMA FailNothing ==
  ASSUME IInv, pc # "idle", Fail, UNCHANGED <<spec, remote, moved>>
  PROVE  U!Next
  BY FailSeen DEF U!Next, U!Return

LEMMA BeginSeen == ASSUME IInv, Begin PROVE U!Next
  <1>1. pc = "idle" /\ pc' = "description" /\ UNCHANGED <<spec, remote, moved>>
    BY DEF Begin, Goto, repository
  <1>2. Reported' = "none"
    BY <1>1 DEF Reported, Returned, Succeeded
  <1>3. QED BY <1>1, <1>2, SameSound DEF U!Next, U!Start

LEMMA PullSeen == ASSUME IInv, Pull PROVE U!Next
  <1>1. pc = "pull" /\ UNCHANGED <<spec, remote>>
    BY DEF Pull, Goto
  <1>2. CASE Fail /\ UNCHANGED moved
    BY <1>1, <1>2, FailNothing
  <1>3. CASE pc' = "isGoRepo" /\ moved' = FALSE
    <2>1. Reported = "none" /\ Reported' = "none"
      BY <1>1, <1>3 DEF Reported, Returned, Succeeded
    <2>2. QED BY <1>1, <1>3, <2>1, SameSound DEF U!Next, U!Pull
  <1>4. QED BY <1>2, <1>3 DEF Pull, Goto

LEMMA InitialPushSeen == ASSUME IInv, InitialPush PROVE U!Next
  <1>1. /\ pc = "initialPush" /\ UNCHANGED <<spec, moved>>
        /\ base.code = NoModule /\ Top.code # NoModule
        /\ ~moved => remote = base
    BY DEF IInv, InitialInv, RemoteInv, InitialPush, Goto
  <1>2. base \in Trees /\ Top \in Trees
    BY TopInTrees DEF IInv, TypeOK
  <1>3. CASE Fail /\ UNCHANGED <<remote, base, unpushed>>
    BY <1>1, <1>3, FailNothing
  <1>4. CASE Publish /\ pc' = "initialPushed"
    <2>1. /\ ~moved
          /\ remote \in {t \in Trees : t.code = NoModule}
          /\ remote' \in Trees \ {t \in Trees : t.code = NoModule}
      BY <1>1, <1>2, <1>4 DEF Publish
    <2>2. Reported = "none" /\ Reported' = "none"
      BY <1>1, <1>4 DEF Reported, Returned, Succeeded
    <2>3. QED BY <1>1, <1>4, <2>1, <2>2, SameSound DEF U!Next, U!Initialise
  <1>5. QED BY <1>3, <1>4 DEF InitialPush, Goto

LEMMA FinishSeen ==
  ASSUME IInv, pc # "idle", NEW pushed \in BOOLEAN, NEW event, Finish(pushed, event),
         UNCHANGED <<spec, remote, moved>>
  PROVE  U!End(IF pushed THEN "pushed" ELSE "unchanged")
  <1>1. res \in Results /\ res.err = FALSE /\ coverage \in Codes \cup {None}
    BY DEF IInv, TypeOK, ReportInv, Results
  <1>2. res' = [res EXCEPT !.pushed = pushed, !.coverage = coverage]
    BY DEF Finish
  <1>3. res'.err = FALSE /\ res'.pushed = pushed
    BY <1>1, <1>2 DEF Results
  <1>4. pc' = "idle" /\ finished' = TRUE
    BY DEF Finish
  <1>5. Reported' = IF pushed THEN "pushed" ELSE "unchanged"
    BY <1>3, <1>4 DEF Reported, Returned, Succeeded
  <1>6. QED BY <1>4, <1>5, SameSound DEF U!End

LEMMA PushSeen == ASSUME IInv, Push PROVE U!Next
  <1>1. /\ pc = "push" /\ UNCHANGED <<spec, moved>> /\ Passes(Top)
    BY DEF IInv, PassInv, Push, Goto
  <1>2. CASE Fail /\ UNCHANGED <<remote, base, unpushed>>
    BY <1>1, <1>2, FailNothing
  <1>3. CASE Publish /\ pc' = "pushed"
    <2>1. ~moved /\ remote' \in {t \in Trees : Passes(t)}
      BY <1>1, <1>3, TopInTrees DEF IInv, Publish
    <2>2. Reported = "none" /\ Reported' = "none"
      BY <1>1, <1>3 DEF Reported, Returned, Succeeded
    <2>3. QED BY <1>1, <1>3, <2>1, <2>2, SameSound DEF U!Next, U!Deliver
  <1>4. QED BY <1>2, <1>3 DEF Push, Goto

\* The call ends, with a push that has arrived or with nothing to push.
LEMMA EndSeen == ASSUME IInv, NothingToPush \/ PushReturns PROVE U!Next
  <1>1. UNCHANGED <<spec, remote, moved>>
    BY DEF NothingToPush, PushReturns, repository
  <1>2. CASE pc = "push" /\ Finish(FALSE, <<>>)
    BY <1>1, <1>2, FinishSeen DEF U!Next, U!Return
  <1>3. CASE pc = "pushed" /\ Finish(TRUE, <<ofRepo("repo_pushed")>>)
    BY <1>1, <1>3, FinishSeen DEF U!Next, U!Return
  <1>4. CASE pc = "pushed" /\ Fail
    BY <1>1, <1>4, FailNothing
  <1>5. QED BY <1>2, <1>3, <1>4 DEF NothingToPush, PushReturns

\* The other calls are seen if they fail.
LEMMA CallSeen ==
  ASSUME IInv, Update, ~Pull, ~InitialPush, ~NothingToPush, ~Push, ~PushReturns
  PROVE  U!Next \/ UNCHANGED U!vars
  <1>1. pc \notin {"idle", "push", "pushed"} /\ UNCHANGED <<spec, remote, moved>>
    BY DEF Update, SetDescription, SetTopics, DiscardLocalChanges, HardReset, Clean,
           Recheck, IsGoRepo, GoModInit, InitialCommit, InitialPushReturns, Test, RunTask,
           GetChangedFiles, TaskTest, Commit, CommitReturns, Goto, repository
  <1>2. Fail \/ pc' \notin {"idle", "pushed"}
    <2>1. \A event : NextStep(event) => pc' \notin {"idle", "pushed"}
      BY DEF NextStep
    <2>2. CASE SetDescription \/ SetTopics \/ DiscardLocalChanges \/ HardReset \/ Clean \/ Recheck
      BY <2>2 DEF SetDescription, SetTopics, DiscardLocalChanges, HardReset, Clean,
                  Recheck, Goto
    <2>3. CASE IsGoRepo \/ GoModInit \/ InitialCommit \/ InitialPushReturns
      BY <2>1, <2>3 DEF IsGoRepo, GoModInit, InitialCommit, InitialPushReturns, Goto
    <2>4. CASE Test \/ RunTask \/ GetChangedFiles \/ TaskTest \/ Commit \/ CommitReturns
      BY <2>1, <2>4 DEF Test, RunTask, GetChangedFiles, TaskTest, Commit, CommitReturns, Goto
    <2>5. QED BY <2>2, <2>3, <2>4 DEF Update
  <1>3. QED BY <1>1, <1>2, FailNothing, Unseen

LEMMA CrashSeen == ASSUME IInv, Crash PROVE U!Next
  <1>1. pc # "idle" /\ pc' = "idle" /\ ~finished' /\ UNCHANGED <<spec, remote, moved>>
    BY DEF IInv, ReportInv, Crash, repository
  <1>2. Reported' = "none"
    BY <1>1 DEF Reported, Returned, Succeeded
  <1>3. QED BY <1>1, <1>2, SameSound DEF U!Next, U!Die, U!End

LEMMA OtherSeen == ASSUME IInv, Other PROVE U!Next
  <1>1. spec' = spec /\ moved' = TRUE /\ UNCHANGED <<pc, finished, res>>
    BY DEF Other, progress
  <1>2. remote' \in Trees \ {t \in Trees : t.code = NoModule}
    <2>1. PICK c \in Codes \ {NoModule}, d \in Docs :
                remote' = [remote EXCEPT !.code = c, !.doc = d]
      BY DEF Other
    <2>2. remote \in Trees
      BY DEF IInv, TypeOK
    <2>3. QED BY <2>1, <2>2 DEF Trees
  <1>3. /\ Reported' = Reported
        /\ (pc # "idle")' = (pc # "idle") /\ (pc = "pushed")' = (pc = "pushed")
    BY <1>1 DEF Reported, Returned, Succeeded
  <1>4. QED BY <1>1, <1>2, <1>3, SameSound DEF U!Next, U!Other

LEMMA StutterSeen == ASSUME UNCHANGED vars PROVE UNCHANGED U!vars
  <1>1. UNCHANGED <<spec, remote, moved, pc, finished, res>>
    BY DEF vars, repository, progress
  <1>2. /\ Reported' = Reported
        /\ (pc # "idle")' = (pc # "idle") /\ (pc = "pushed")' = (pc = "pushed")
    BY <1>1 DEF Reported, Returned, Succeeded
  <1>3. QED BY <1>1, <1>2, SameSound DEF U!vars

\* Update keeps what Upkeep promises to those who share the remote, for any
\* tasks and specs and any number of calls.
THEOREM KeepsUp == Spec => RefinesUpkeep
  <1>1. Init => U!Init
    <2> SUFFICES ASSUME Init PROVE U!Init
      OBVIOUS
    <2>1. {t \in Trees : Passes(t)} \subseteq Trees \ {t \in Trees : t.code = NoModule}
      BY RepositoryAssumption DEF Passes
    <2>2. /\ remote \in Trees /\ moved = FALSE
          /\ (pc # "idle") = FALSE /\ (pc = "pushed") = FALSE
      BY DEF Init
    <2>3. Reported = "none"
      BY DEF Init, Reported, Returned, Succeeded
    <2>4. QED BY <2>1, <2>2, <2>3 DEF U!Init
  <1>2. IInv /\ [Next]_vars => [U!Next]_U!vars
    BY BeginSeen, PullSeen, InitialPushSeen, PushSeen, EndSeen, CallSeen,
       CrashSeen, OtherSeen, StutterSeen DEF Next, Rest
  <1>3. QED BY <1>1, <1>2, Invariance, PTL DEF Spec, RefinesUpkeep, U!Spec

------------------------------------------------------------------------------
(* The events.                                                             *)

Kinds == {"repo_start", "repo_done", "repo_pushed", "task_start", "task_done"}

Labels == {""} \cup {Label(n) : n \in 1 .. Count}

Evs == [kind : Kinds, task : Labels, index : Nat, inner : BOOLEAN,
        committed : BOOLEAN, files : SUBSET Paths, err : BOOLEAN]

\* As values that a field may have.
No == FALSE
Yes == TRUE

LEMMA EvFacts ==
  ASSUME NEW kind \in Kinds, NEW task \in Labels, NEW n \in Nat,
         NEW e, e = Ev(kind, task, n)
  PROVE  /\ e \in Evs /\ e.kind = kind /\ e.task = task /\ e.index = n /\ e.files = {}
         /\ e.inner = No /\ e.committed = No /\ e.err = No
  <1>1. e = [kind |-> kind, task |-> task, index |-> n, inner |-> No,
             committed |-> No, files |-> {}, err |-> No]
    BY Zenon DEF Ev, No
  <1>2. No \in BOOLEAN
    BY DEF No
  <1>3. QED BY <1>1, <1>2 DEF Evs

\* Which step an event of a task is of, and what it says of it.
Says(e, kind, label, n) == e \in Evs /\ e.kind = kind /\ e.task = label /\ e.index = n

LEMMA StartSays ==
  ASSUME NEW label \in Labels, NEW n \in Nat
  PROVE  /\ Says(start(label, n), "task_start", label, n)
         /\ ~start(label, n).inner /\ ~start(label, n).committed /\ ~start(label, n).err
         /\ Says(within(label, n), "task_start", label, n)
         /\ within(label, n).inner /\ ~within(label, n).committed /\ ~within(label, n).err
  <1>3. PICK s : s = start(label, n)
    OBVIOUS
  <1>4. PICK w : w = [s EXCEPT !.inner = Yes]
    OBVIOUS
  <1>5. Says(s, "task_start", label, n) /\ s.inner = No /\ s.committed = No /\ s.err = No
    <2>1. s = Ev("task_start", label, n) /\ "task_start" \in Kinds
      BY <1>3 DEF start, Kinds
    <2>2. QED BY <2>1, EvFacts DEF Says
  <1>6. Says(w, "task_start", label, n) /\ w.inner = Yes /\ w.committed = No /\ w.err = No
    <2>1. Yes \in BOOLEAN
      BY DEF Yes
    <2>2. QED BY <1>4, <1>5, <2>1 DEF Says, Evs
  <1>7. w = within(label, n)
    BY <1>3, <1>4, Zenon DEF within, Yes
  <1>8. QED BY <1>3, <1>5, <1>6, <1>7, Zenon DEF Yes, No

LEMMA DoneSays ==
  ASSUME NEW label \in Labels, NEW n \in Nat
  PROVE  /\ Says(done(label, n), "task_done", label, n)
         /\ ~done(label, n).inner /\ ~done(label, n).committed /\ ~done(label, n).err
         /\ Says(doneWithin(label, n), "task_done", label, n)
         /\ doneWithin(label, n).inner /\ ~doneWithin(label, n).committed
         /\ ~doneWithin(label, n).err
         /\ Says(failed(label, n), "task_done", label, n)
         /\ ~failed(label, n).inner /\ ~failed(label, n).committed /\ failed(label, n).err
  <1>3. PICK d : d = done(label, n)
    OBVIOUS
  <1>4. PICK w : w = [d EXCEPT !.inner = Yes]
    OBVIOUS
  <1>5. PICK f : f = [d EXCEPT !.err = Yes]
    OBVIOUS
  <1>6. Says(d, "task_done", label, n) /\ d.inner = No /\ d.committed = No /\ d.err = No
    <2>1. d = Ev("task_done", label, n) /\ "task_done" \in Kinds
      BY <1>3 DEF done, Kinds
    <2>2. QED BY <2>1, EvFacts DEF Says
  <1>7. Yes \in BOOLEAN
    BY DEF Yes
  <1>8. Says(w, "task_done", label, n) /\ w.inner = Yes /\ w.committed = No /\ w.err = No
    BY <1>4, <1>6, <1>7 DEF Says, Evs
  <1>9. Says(f, "task_done", label, n) /\ f.inner = No /\ f.committed = No /\ f.err = Yes
    BY <1>5, <1>6, <1>7 DEF Says, Evs
  <1>10. w = doneWithin(label, n) /\ f = failed(label, n)
    BY <1>3, <1>4, <1>5, Zenon DEF doneWithin, failed, Yes
  <1>11. QED BY <1>3, <1>6, <1>8, <1>9, <1>10, Zenon DEF Yes, No

LEMMA CommittedSays ==
  ASSUME NEW label \in Labels, NEW n \in Nat, NEW fs \in SUBSET Paths
  PROVE  /\ Says(committed(label, n, fs), "task_done", label, n)
         /\ committed(label, n, fs).files = fs /\ committed(label, n, fs).committed
         /\ ~committed(label, n, fs).inner /\ ~committed(label, n, fs).err
  <1>3. PICK d : d = done(label, n)
    OBVIOUS
  <1>4. PICK c0 : c0 = [d EXCEPT !.committed = Yes]
    OBVIOUS
  <1>5. PICK c : c = [c0 EXCEPT !.files = fs]
    OBVIOUS
  <1>6. Says(d, "task_done", label, n) /\ d.inner = No /\ d.err = No
    <2>1. d = Ev("task_done", label, n) /\ "task_done" \in Kinds
      BY <1>3 DEF done, Kinds
    <2>2. QED BY <2>1, EvFacts DEF Says
  <1>7. /\ Says(c0, "task_done", label, n) /\ c0.committed = Yes /\ c0.inner = No
        /\ c0.err = No
    <2>1. Yes \in BOOLEAN
      BY DEF Yes
    <2>2. QED BY <1>4, <1>6, <2>1 DEF Says, Evs
  <1>8. /\ Says(c, "task_done", label, n) /\ c.files = fs /\ c.committed = Yes
        /\ c.inner = No /\ c.err = No
    BY <1>5, <1>7 DEF Says, Evs
  <1>9. c = committed(label, n, fs)
    <2>1. c = [d EXCEPT !.committed = Yes, !.files = fs]
      BY <1>4, <1>5, <1>6 DEF Says, Evs
    <2>2. QED BY <1>3, <2>1, Zenon DEF committed, Yes
  <1>10. QED BY <1>8, <1>9, Zenon DEF Yes, No

LEMMA CountFacts == Count \in Nat /\ Len(Tasks) \in Nat /\ Count = Len(Tasks) + 3
  BY TasksAssumption DEF Count

LEMMA LabelFacts ==
  /\ "" \in Labels /\ \A n \in 1 .. Count : Label(n) \in Labels
  /\ Label(1) = "prepare" /\ Label(2) = "test" /\ Label(Count) = "push"
  <1>1. /\ Count \notin 3 .. Len(Tasks) + 2 /\ Count # 1 /\ Count # 2
        /\ 1 \notin 3 .. Len(Tasks) + 2 /\ 2 \notin 3 .. Len(Tasks) + 2
    BY CountFacts
  <1>2. Label(1) = "prepare" /\ Label(2) = "test" /\ Label(Count) = "push"
    BY <1>1 DEF Label
  <1>3. "" \in Labels /\ \A n \in 1 .. Count : Label(n) \in Labels
    BY Zenon DEF Labels
  <1>4. QED BY <1>2, <1>3, Zenon

LEMMA RepoSays ==
  ASSUME NEW kind \in {"repo_start", "repo_done", "repo_pushed"}
  PROVE  /\ ofRepo(kind) \in Evs /\ ofRepo(kind).kind = kind /\ ~ofRepo(kind).inner
         /\ ~ofRepo(kind).committed /\ ~ofRepo(kind).err
  <1>1. PICK none : none = ""
    OBVIOUS
  <1>2. PICK e : e = ofRepo(kind)
    OBVIOUS
  <1>3. kind \in Kinds /\ none \in Labels /\ e = Ev(kind, none, 0)
    BY <1>1, <1>2, LabelFacts, Zenon DEF Kinds, ofRepo
  <1>4. e \in Evs /\ e.kind = kind /\ e.inner = No /\ e.committed = No /\ e.err = No
    BY <1>3, EvFacts
  <1>5. QED BY <1>2, <1>4, Zenon DEF No

LEMMA AppendFacts ==
  ASSUME NEW S, NEW l \in Seq(S), NEW e \in S, NEW m, m = Append(l, e)
  PROVE  /\ m \in Seq(S) /\ Len(m) = Len(l) + 1 /\ Len(l) \in Nat
         /\ DOMAIN l = 1 .. Len(l) /\ DOMAIN m = DOMAIN l \cup {Len(l) + 1}
         /\ \A n \in DOMAIN l : m[n] = l[n] /\ n \in Nat /\ n < Len(l) + 1 /\ n # Len(l) + 1
         /\ m[Len(l) + 1] = e /\ m # <<>>
  OBVIOUS

\* The rank of a member is not changed by a greater one.
LEMMA RankKept ==
  ASSUME NEW S \in SUBSET Nat, IsFiniteSet(S), NEW p \in Nat, \A n \in S : n < p,
         NEW T, T = S \cup {p}, NEW n \in S
  PROVE  Rank(T, n) = Rank(S, n) /\ Rank(S, n) \in 1 .. Cardinality(S)
  <1> PICK R : R = {m \in S : m <= n}
    OBVIOUS
  <1> PICK Q : Q = {m \in T : m <= n}
    OBVIOUS
  <1>1. \A m : m \in R <=> m \in Q
    OBVIOUS
  <1>2. R = Q
    BY <1>1
  <1>3. n \in R /\ R \subseteq S
    OBVIOUS
  <1>4. /\ IsFiniteSet(R) /\ Cardinality(R) <= Cardinality(S) /\ Cardinality(R) \in Nat
        /\ Cardinality(S) \in Nat
    BY <1>3, FS_Subset, FS_CardinalityType
  <1>5. Cardinality(R) # 0
    BY <1>3, <1>4, FS_EmptySet
  <1>6. QED BY <1>2, <1>4, <1>5 DEF Rank

\* The rank of a new greatest member, and those of the others.
LEMMA RankFacts ==
  ASSUME NEW S \in SUBSET Nat, IsFiniteSet(S), NEW p \in Nat, \A n \in S : n < p,
         NEW T, T = S \cup {p}
  PROVE  /\ IsFiniteSet(T) /\ Cardinality(S) \in Nat
         /\ Cardinality(T) = Cardinality(S) + 1
         /\ Rank(T, p) = Cardinality(S) + 1
         /\ \A n \in S : /\ Rank(T, n) = Rank(S, n)
                         /\ Rank(S, n) \in 1 .. Cardinality(S)
  <1>1. p \notin S /\ Cardinality(S) \in Nat
    BY FS_CardinalityType
  <1>2. IsFiniteSet(T) /\ Cardinality(T) = Cardinality(S) + 1
    BY <1>1, FS_AddElement
  <1>3. Rank(T, p) = Cardinality(T)
    <2> PICK R : R = {m \in T : m <= p}
      OBVIOUS
    <2>1. \A m \in T : m \in Nat /\ m <= p
      OBVIOUS
    <2>2. R = T
      BY <2>1
    <2>3. QED BY <2>2 DEF Rank
  <1>4. \A n \in S : Rank(T, n) = Rank(S, n) /\ Rank(S, n) \in 1 .. Cardinality(S)
    <2> SUFFICES ASSUME NEW n \in S
                 PROVE  Rank(T, n) = Rank(S, n) /\ Rank(S, n) \in 1 .. Cardinality(S)
      OBVIOUS
    <2>1. QED BY RankKept
  <1>5. QED BY <1>1, <1>2, <1>3, <1>4

\* The member of the greatest rank has none above it.
LEMMA RankLast ==
  ASSUME NEW S \in SUBSET Nat, NEW n \in S, \A m \in S : ~(m > n)
  PROVE  Rank(S, n) = Cardinality(S)
  <1> PICK R : R = {m \in S : m <= n}
    OBVIOUS
  <1>1. \A m \in S : m \in Nat /\ n \in Nat /\ m <= n
    OBVIOUS
  <1>2. R = S
    BY <1>1
  <1>3. QED BY <1>2 DEF Rank

------------------------------------------------------------------------------
(* What is appended to the stream.                                         *)

OuterOf(l, kind) == {n \in DOMAIN l : l[n].kind = kind /\ ~l[n].inner}

Starts(l) == OuterOf(l, "task_start")

Dones(l) == OuterOf(l, "task_done")

Numbered(l) ==
    \A n \in Starts(l) :
        /\ l[n].index \in 1 .. Count /\ l[n].task = Label(l[n].index)
        /\ l[n].index = Rank(Starts(l), n)

Ends(l, n, q) == n < q /\ l[q].index = l[n].index /\ ~l[q].err

Closed(l) ==
    \A n, m \in Starts(l) : m > n => \E q \in Dones(l) : q < m /\ Ends(l, n, q)

AllClosed(l) == \A n \in Starts(l) : \E q \in Dones(l) : Ends(l, n, q)

Answers(e, f) == f \in {doneWithin(e.task, e.index), failed(e.task, e.index)}

Nested(l) ==
    \A n \in DOMAIN l :
        l[n].kind = "task_start" /\ l[n].inner /\ n < Len(l) => Answers(l[n], l[n + 1])

\* A stream in order, k steps of which have begun.
InOrder(l, k) ==
    /\ l \in Seq(Evs) /\ k \in Nat /\ Cardinality(Starts(l)) = k
    /\ Numbered(l) /\ Closed(l) /\ Nested(l)

\* It ends with the start of a test inside a task.
Within(l) == l # <<>> /\ l[Len(l)].kind = "task_start" /\ l[Len(l)].inner

LEMMA StartsFinite ==
  ASSUME NEW l \in Seq(Evs), NEW kind
  PROVE  IsFiniteSet(OuterOf(l, kind)) /\ OuterOf(l, kind) \in SUBSET (DOMAIN l)
         /\ OuterOf(l, kind) \in SUBSET Nat
  <1>1. DOMAIN l = 1 .. Len(l) /\ Len(l) \in Nat
    OBVIOUS
  <1>2. IsFiniteSet(1 .. Len(l))
    BY <1>1, FS_Interval
  <1>3. QED BY <1>1, <1>2, FS_Subset DEF OuterOf

\* An event that begins no step.
LEMMA AddEvent ==
  ASSUME NEW l, NEW k, InOrder(l, k), NEW e \in Evs, e.kind # "task_start" \/ e.inner,
         Within(l) => Answers(l[Len(l)], e), NEW m, m = Append(l, e)
  PROVE  InOrder(m, k) /\ Starts(m) = Starts(l) /\ Dones(l) \subseteq Dones(m)
  <1>1. /\ m \in Seq(Evs) /\ Len(m) = Len(l) + 1 /\ Len(l) \in Nat
        /\ DOMAIN l = 1 .. Len(l) /\ DOMAIN m = DOMAIN l \cup {Len(l) + 1}
        /\ \A n \in DOMAIN l : m[n] = l[n] /\ n \in Nat /\ n < Len(l) + 1 /\ n # Len(l) + 1
        /\ m[Len(l) + 1] = e
    BY AppendFacts DEF InOrder
  <1>2. Starts(m) = Starts(l) /\ Dones(l) \subseteq Dones(m)
    BY <1>1 DEF Starts, Dones, OuterOf
  <1>3. Starts(l) \subseteq DOMAIN l /\ Dones(l) \subseteq DOMAIN l
    BY DEF Starts, Dones, OuterOf
  <1>4. Numbered(m)
    BY <1>1, <1>2, <1>3 DEF InOrder, Numbered
  <1>5. Closed(m)
    BY <1>1, <1>2, <1>3 DEF InOrder, Closed, Ends
  <1>6. Nested(m)
    <2> SUFFICES ASSUME NEW n \in DOMAIN m, m[n].kind = "task_start", m[n].inner, n < Len(m)
                 PROVE  Answers(m[n], m[n + 1])
      BY DEF Nested
    <2>1. n \in DOMAIN l /\ m[n] = l[n]
      BY <1>1
    <2>2. CASE n < Len(l)
      <3>1. n \in 1 .. Len(l) /\ Len(l) \in Nat
        BY <1>1, <2>1
      <3>2. n + 1 \in 1 .. Len(l)
        BY <2>2, <3>1
      <3>3. \A q \in 1 .. Len(l) : q \in DOMAIN l /\ m[q] = l[q]
        BY <1>1
      <3>4. n + 1 \in DOMAIN l /\ m[n + 1] = l[n + 1]
        BY <3>2, <3>3
      <3>5. Nested(l)
        BY DEF InOrder
      <3>6. Answers(l[n], l[n + 1])
        BY <2>1, <2>2, <3>5, Zenon DEF Nested
      <3>7. QED BY <2>1, <3>4, <3>6
    <2>3. CASE n = Len(l)
      <3>1. l # <<>>
        BY <2>1
      <3>2. QED BY <1>1, <2>1, <2>3, <3>1 DEF Within
    <2>4. QED BY <1>1, <2>1, <2>2, <2>3
  <1>7. QED BY <1>1, <1>2, <1>4, <1>5, <1>6 DEF InOrder

\* The end of the step under way: all that have begun are done.
LEMMA AddDone ==
  ASSUME NEW l, NEW k, InOrder(l, k), NEW e \in Evs, e.kind = "task_done", ~e.inner, ~e.err,
         e.index = k, ~Within(l), NEW m, m = Append(l, e)
  PROVE  InOrder(m, k) /\ AllClosed(m) /\ ~Within(m)
  <1>1. /\ Len(m) = Len(l) + 1 /\ Len(l) \in Nat
        /\ DOMAIN m = DOMAIN l \cup {Len(l) + 1}
        /\ \A n \in DOMAIN l : m[n] = l[n] /\ n < Len(l) + 1
        /\ m[Len(l) + 1] = e
    BY AppendFacts DEF InOrder
  <1>2. InOrder(m, k) /\ Starts(m) = Starts(l) /\ Dones(l) \subseteq Dones(m)
    BY AddEvent
  <1>3. Len(l) + 1 \in Dones(m)
    BY <1>1 DEF Dones, OuterOf
  <1>4. ASSUME NEW n \in Starts(m) PROVE \E q \in Dones(m) : Ends(m, n, q)
    <2>1. n \in DOMAIN l
      BY <1>2 DEF Starts, OuterOf
    <2>2. CASE \E o \in Starts(m) : o > n
      BY <1>2, <2>2 DEF InOrder, Closed
    <2>3. CASE \A o \in Starts(m) : ~(o > n)
      <3>1. Rank(Starts(m), n) = Cardinality(Starts(m))
        BY <1>2, <2>3, RankLast, StartsFinite DEF InOrder, Starts
      <3>2. m[n].index = k
        BY <1>2, <3>1 DEF InOrder, Numbered
      <3>3. Ends(m, n, Len(l) + 1)
        BY <1>1, <2>1, <3>2 DEF Ends
      <3>4. QED BY <1>3, <3>3
    <2>4. QED BY <2>2, <2>3
  <1>5. ~Within(m)
    BY <1>1 DEF Within
  <1>6. QED BY <1>2, <1>4, <1>5 DEF AllClosed

\* The start of the next step, once all that have begun are done.
LEMMA AddStart ==
  ASSUME NEW l, NEW k, InOrder(l, k), AllClosed(l), ~Within(l), k < Count,
         NEW m, m = Append(l, start(Label(k + 1), k + 1))
  PROVE  InOrder(m, k + 1) /\ ~Within(m)
  <1> PICK e : e = start(Label(k + 1), k + 1)
    OBVIOUS
  <1>1. k \in Nat /\ k + 1 \in 1 .. Count /\ l \in Seq(Evs)
    BY CountFacts DEF InOrder
  <1>2. /\ e \in Evs /\ e.kind = "task_start" /\ e.task = Label(k + 1) /\ e.index = k + 1
        /\ ~e.inner
    <2>1. k + 1 \in Nat
      BY <1>1
    <2>2. Label(k + 1) \in Labels
      BY <1>1, LabelFacts, Zenon
    <2>3. e = start(Label(k + 1), k + 1)
      OBVIOUS
    <2>4. Says(e, "task_start", Label(k + 1), k + 1) /\ ~e.inner
      BY <2>1, <2>2, <2>3, StartSays, Zenon
    <2>5. QED BY <2>4 DEF Says
  <1> PICK p : p = Len(l) + 1
    OBVIOUS
  <1>3. /\ m \in Seq(Evs) /\ Len(m) = p /\ p \in Nat
        /\ DOMAIN l = 1 .. Len(l) /\ DOMAIN m = DOMAIN l \cup {p}
        /\ \A n \in DOMAIN l : m[n] = l[n] /\ n \in Nat /\ n < p /\ n # p
        /\ m[p] = e
    BY <1>1, <1>2, AppendFacts
  <1>4. Starts(m) = Starts(l) \cup {p} /\ Dones(m) = Dones(l)
    BY <1>2, <1>3 DEF Starts, Dones, OuterOf
  <1>5. Starts(l) \subseteq DOMAIN l /\ Dones(l) \subseteq DOMAIN l
    BY DEF Starts, Dones, OuterOf
  <1>6. /\ Cardinality(Starts(m)) = k + 1 /\ Rank(Starts(m), p) = k + 1
        /\ \A n \in Starts(l) : Rank(Starts(m), n) = Rank(Starts(l), n)
    <2>1. Starts(l) \in SUBSET Nat /\ IsFiniteSet(Starts(l)) /\ \A n \in Starts(l) : n < p
      BY <1>1, <1>3, <1>5, StartsFinite DEF Starts
    <2>2. PICK S, T : S = Starts(l) /\ T = Starts(m)
      OBVIOUS
    <2>3. S \in SUBSET Nat /\ IsFiniteSet(S) /\ (\A n \in S : n < p) /\ T = S \cup {p}
      BY <1>4, <2>1, <2>2
    <2>4. Cardinality(S) = k
      BY <2>2 DEF InOrder
    <2>5. QED BY <1>3, <2>2, <2>3, <2>4, RankFacts
  <1>7. Numbered(m)
    BY <1>1, <1>2, <1>3, <1>4, <1>5, <1>6 DEF InOrder, Numbered
  <1>8. Closed(m)
    <2> SUFFICES ASSUME NEW n \in Starts(m), NEW o \in Starts(m), o > n
                 PROVE  \E q \in Dones(m) : q < o /\ Ends(m, n, q)
      BY DEF Closed
    <2>1. n \in Starts(l)
      BY <1>3, <1>4, <1>5
    <2>2. CASE o = p
      <3>1. PICK q \in Dones(l) : Ends(l, n, q)
        BY <2>1 DEF AllClosed
      <3>2. q < p /\ Ends(m, n, q)
        BY <1>3, <1>5, <2>1, <3>1 DEF Ends
      <3>3. QED BY <1>4, <2>2, <3>2
    <2>3. CASE o \in Starts(l)
      <3>1. PICK q \in Dones(l) : q < o /\ Ends(l, n, q)
        BY <2>1, <2>3 DEF InOrder, Closed
      <3>2. Ends(m, n, q)
        BY <1>3, <1>5, <2>1, <3>1 DEF Ends
      <3>3. QED BY <1>4, <3>1, <3>2
    <2>4. QED BY <1>4, <2>2, <2>3
  <1>9. Nested(m)
    <2> SUFFICES ASSUME NEW n \in DOMAIN m, m[n].kind = "task_start", m[n].inner, n < Len(m)
                 PROVE  Answers(m[n], m[n + 1])
      BY DEF Nested
    <2>1. n \in DOMAIN l /\ m[n] = l[n]
      BY <1>3
    <2>2. n # Len(l)
      <3>1. l # <<>>
        BY <2>1
      <3>2. QED BY <2>1, <3>1 DEF Within
    <2>3. n < Len(l) /\ n + 1 \in DOMAIN l
      BY <1>1, <1>3, <2>1, <2>2
    <2>4. QED BY <1>3, <2>1, <2>3 DEF InOrder, Nested
  <1>10. ~Within(m)
    BY <1>2, <1>3 DEF Within
  <1>11. QED BY <1>1, <1>3, <1>6, <1>7, <1>8, <1>9, <1>10 DEF InOrder

LEMMA ConcatFacts ==
  ASSUME NEW S, NEW l \in Seq(S), NEW a \in S, NEW b \in S
  PROVE  /\ l \o <<a>> = Append(l, a) /\ l \o <<a, b>> = Append(Append(l, a), b)
         /\ l \o <<>> = l
  OBVIOUS

------------------------------------------------------------------------------
(* The stream of a call, from its begin to its end.                        *)

\* Nothing says yet that the call has ended, or has failed.
Open(l) ==
    \A n \in DOMAIN l : l[n].kind \notin {"repo_done", "repo_pushed"} /\ ~l[n].err

\* It has ended in the k-th step, with r.
Over(l, k, r) ==
    /\ Len(l) - 1 \in DOMAIN l
    /\ \A n \in DOMAIN l : l[n].kind = "repo_done" <=> n = Len(l)
    /\ (\E n \in DOMAIN l : l[n].kind = "repo_pushed") <=> r.pushed
    /\ l[Len(l) - 1].kind = "task_done" /\ l[Len(l) - 1].index = k
    /\ l[Len(l) - 1].err = r.err
    /\ \A n \in DOMAIN l : l[n].err <=> n = Len(l) - 1 /\ r.err
    /\ r.err \/ k = Count

\* The inductive invariant of the stream.
LogInv ==
    /\ InOrder(log, index)
    /\ pc \notin {"idle", "taskTest"} => ~Within(log)
    /\ pc = "taskTest" => log # <<>> /\ log[Len(log)] = within(Label(index), index)
    /\ ~finished => Open(log) /\ ~res.pushed
    /\ finished => Over(log, index, res)

LEMMA OpenEvent ==
  ASSUME NEW l \in Seq(Evs), Open(l), NEW e \in Evs,
         e.kind \notin {"repo_done", "repo_pushed"}, ~e.err, NEW m, m = Append(l, e)
  PROVE  Open(m)
  BY AppendFacts DEF Open

\* o is l with the last two events of a call, f and the repository's.
Ended(l, f, o) ==
    /\ Len(o) - 1 \in DOMAIN o /\ o[Len(o) - 1] = f
    /\ \A n \in DOMAIN o : o[n].kind = "repo_done" <=> n = Len(o)
    /\ \A n \in DOMAIN o : o[n].err <=> n = Len(o) - 1 /\ f.err
    /\ (\E n \in DOMAIN o : o[n].kind = "repo_pushed")
          <=> (\E n \in DOMAIN l : l[n].kind = "repo_pushed")

LEMMA LastEvents ==
  ASSUME NEW l \in Seq(Evs), \A n \in DOMAIN l : l[n].kind # "repo_done" /\ ~l[n].err,
         NEW f \in Evs, f.kind = "task_done", NEW d \in Evs, d.kind = "repo_done", ~d.err,
         NEW m, m = Append(l, f), NEW o, o = Append(m, d)
  PROVE  o \in Seq(Evs) /\ Ended(l, f, o)
  <1>1. /\ m \in Seq(Evs) /\ Len(m) = Len(l) + 1 /\ Len(l) \in Nat
        /\ DOMAIN l = 1 .. Len(l) /\ DOMAIN m = DOMAIN l \cup {Len(l) + 1}
        /\ \A n \in DOMAIN l : m[n] = l[n] /\ n \in Nat /\ n < Len(l) + 1
        /\ m[Len(l) + 1] = f
    BY AppendFacts
  <1>2. /\ o \in Seq(Evs) /\ Len(o) = Len(m) + 1
        /\ DOMAIN o = DOMAIN m \cup {Len(m) + 1}
        /\ \A n \in DOMAIN m : o[n] = m[n]
        /\ o[Len(m) + 1] = d
    BY <1>1, AppendFacts
  <1>3. Len(o) = Len(l) + 2 /\ Len(o) - 1 = Len(l) + 1
    BY <1>1, <1>2
  <1>4. \A n \in DOMAIN o : \/ n \in DOMAIN l /\ o[n] = l[n] /\ n < Len(l) + 1
                            \/ n = Len(l) + 1 /\ o[n] = f
                            \/ n = Len(l) + 2 /\ o[n] = d
    BY <1>1, <1>2
  <1>5. Len(l) + 1 \in DOMAIN o /\ o[Len(l) + 1] = f /\ DOMAIN l \subseteq DOMAIN o
    BY <1>1, <1>2
  <1>6. \A n \in DOMAIN o : o[n].kind = "repo_done" <=> n = Len(o)
    BY <1>1, <1>3, <1>4
  <1>7. \A n \in DOMAIN o : o[n].err <=> n = Len(o) - 1 /\ f.err
    BY <1>1, <1>3, <1>4
  <1>8. (\E n \in DOMAIN o : o[n].kind = "repo_pushed")
               <=> (\E n \in DOMAIN l : l[n].kind = "repo_pushed")
    BY <1>1, <1>2, <1>4, <1>5
  <1>9. QED BY <1>2, <1>3, <1>5, <1>6, <1>7, <1>8 DEF Ended

\* The first two events of a call.
LEMMA FirstEvents ==
  ASSUME NEW l, l = <<ofRepo("repo_start"), start("prepare", 1)>>
  PROVE  InOrder(l, 1) /\ Open(l) /\ ~Within(l)
  <1>1. PICK a : a = ofRepo("repo_start")
    OBVIOUS
  <1>2. PICK b : b = start("prepare", 1)
    OBVIOUS
  <1>3. a \in Evs /\ a.kind = "repo_start" /\ ~a.inner /\ ~a.err
    BY <1>1, RepoSays, Zenon
  <1>4. b = start(Label(1), 1)
    BY <1>2, LabelFacts, Zenon
  <1>5. Says(b, "task_start", Label(1), 1) /\ ~b.inner /\ ~b.err
    <2>1. 1 \in 1 .. Count /\ 1 \in Nat
      BY CountFacts
    <2>2. Label(1) \in Labels
      BY <2>1, LabelFacts, Zenon
    <2>3. QED BY <1>4, <2>1, <2>2, StartSays, Zenon
  <1>6. PICK m : m = Append(<<>>, a)
    OBVIOUS
  <1>7. l = Append(m, b)
    BY <1>1, <1>2, <1>6
  <1>9. m = <<a>> /\ m \in Seq(Evs)
    BY <1>3, <1>6
  <1>10. InOrder(m, 0) /\ AllClosed(m) /\ ~Within(m) /\ Open(m)
    <2>1. Starts(m) = {}
      BY <1>3, <1>9 DEF Starts, OuterOf
    <2>2. Cardinality({}) = 0
      BY FS_EmptySet
    <2>3. Nested(m)
      BY <1>3, <1>9 DEF Nested
    <2>4. Open(m) /\ ~Within(m)
      BY <1>3, <1>9 DEF Open, Within
    <2>5. QED BY <1>9, <2>1, <2>2, <2>3, <2>4
              DEF InOrder, Numbered, Closed, AllClosed
  <1>11. InOrder(l, 1) /\ ~Within(l)
    <2>1. 0 < Count /\ 0 + 1 = 1
      BY CountFacts
    <2>2. l = Append(m, start(Label(0 + 1), 0 + 1))
      BY <1>4, <1>7, <2>1
    <2>3. InOrder(l, 0 + 1) /\ ~Within(l)
      BY <1>10, <2>1, <2>2, AddStart
    <2>4. QED BY <2>1, <2>3
  <1>12. Open(l)
    BY <1>5, <1>7, <1>9, <1>10, OpenEvent DEF Says
  <1>13. QED BY <1>11, <1>12

------------------------------------------------------------------------------
(* Each action preserves it.                                               *)

\* The step under way has a label.
LEMMA StepLabel ==
  ASSUME IInv, pc # "idle"
  PROVE  index \in 1 .. Count /\ index \in Nat /\ Label(index) \in Labels
  <1>1. index \in 1 .. Count /\ index \in Nat
    BY CountFacts DEF IInv, TypeOK, IndexInv, Preparing, Tasking
  <1>2. QED BY <1>1, LabelFacts, Zenon

\* A step that says nothing.
LEMMA SilentLogInv ==
  ASSUME LogInv, UNCHANGED <<log, index, finished, res>>, pc' # "taskTest",
         pc = "taskTest" => pc' = "idle",
         pc = "idle" => pc' = "idle"
  PROVE  LogInv'
  BY DEF LogInv, Over

\* A call that fails says so, and what it says last.
LEMMA FailLogInv ==
  ASSUME IInv, LogInv, pc # "idle", Fail
  PROVE  LogInv'
  <1>1. PICK f : f = failed(Label(index), index)
    OBVIOUS
  <1>2. PICK d : d = ofRepo("repo_done")
    OBVIOUS
  <1>3. PICK m : m = Append(log, f)
    OBVIOUS
  <1>4. PICK o : o = Append(m, d)
    OBVIOUS
  <1>5. Says(f, "task_done", Label(index), index) /\ ~f.inner /\ f.err
    BY <1>1, StepLabel, DoneSays, Zenon
  <1>6. d \in Evs /\ d.kind = "repo_done" /\ ~d.inner /\ ~d.err
    BY <1>2, RepoSays, Zenon
  <1>7. ~finished /\ ~res.pushed /\ Open(log) /\ InOrder(log, index) /\ res \in Results
    BY DEF IInv, TypeOK, ReportInv, LogInv, Results
  <1>8. log' = o /\ index' = index /\ finished' /\ pc' = "idle"
    <2>1. log \in Seq(Evs)
      BY <1>7 DEF InOrder
    <2>2. log' = log \o <<f, d>>
      BY <1>1, <1>2, Zenon DEF Fail
    <2>3. QED BY <1>3, <1>4, <1>5, <1>6, <2>1, <2>2, ConcatFacts DEF Fail, Says
  <1>9. InOrder(m, index) /\ ~Within(m)
    <2>1. Within(log) => Answers(log[Len(log)], f)
      <3>1. Within(log) => log[Len(log)] = within(Label(index), index)
        BY DEF LogInv
      <3>2. Says(within(Label(index), index), "task_start", Label(index), index)
        BY StepLabel, StartSays, Zenon
      <3>3. QED BY <1>1, <3>1, <3>2 DEF Answers, Says
    <2>2. InOrder(m, index)
      BY <1>3, <1>5, <1>7, <2>1, AddEvent DEF Says
    <2>3. ~Within(m)
      BY <1>3, <1>5, <1>7, AppendFacts DEF Within, InOrder, Says
    <2>4. QED BY <2>2, <2>3
  <1>10. InOrder(o, index)
    BY <1>4, <1>6, <1>9, AddEvent
  <1>11. Over(o, index, res')
    <2>1. Ended(log, f, o)
      <3>1. log \in Seq(Evs) /\ \A n \in DOMAIN log : log[n].kind # "repo_done" /\ ~log[n].err
        BY <1>7 DEF Open, InOrder
      <3>2. /\ f \in Evs /\ f.kind = "task_done"
            /\ d \in Evs /\ d.kind = "repo_done" /\ ~d.err
        BY <1>5, <1>6 DEF Says
      <3>3. QED BY <1>3, <1>4, <3>1, <3>2, LastEvents
    <2>2. ~(\E n \in DOMAIN log : log[n].kind = "repo_pushed")
      BY <1>7 DEF Open
    <2>3. res'.err = TRUE /\ res'.pushed = res.pushed
      BY <1>7, ResultFails DEF Fail, Results
    <2>4. f.err = res'.err
      BY <1>5, <2>3 DEF Says, Evs
    <2>5. QED BY <1>5, <1>7, <2>1, <2>2, <2>3, <2>4 DEF Ended, Over, Says
  <1>12. QED BY <1>8, <1>10, <1>11 DEF LogInv

\* The step under way ends, and the next one begins.
LEMMA NextLogInv ==
  ASSUME IInv, LogInv, pc \notin {"idle", "taskTest"}, index < Count,
         NEW e, Says(e, "task_done", Label(index), index), ~e.inner, ~e.err,
         NextStep(<<e>>), UNCHANGED finished, res'.pushed = res.pushed
  PROVE  LogInv'
  <1>1. PICK s : s = start(Label(index + 1), index + 1)
    OBVIOUS
  <1>2. PICK m : m = Append(log, e)
    OBVIOUS
  <1>3. PICK o : o = Append(m, s)
    OBVIOUS
  <1>4. Says(s, "task_start", Label(index + 1), index + 1) /\ ~s.err
    <2>1. index + 1 \in Nat /\ index + 1 \in 1 .. Count
      BY StepLabel, CountFacts
    <2>2. Label(index + 1) \in Labels
      BY <2>1, LabelFacts, Zenon
    <2>3. QED BY <1>1, <2>1, <2>2, StartSays, Zenon
  <1>5. ~finished /\ ~res.pushed /\ Open(log) /\ InOrder(log, index) /\ ~Within(log)
    BY DEF IInv, ReportInv, LogInv
  <1>6. log' = o /\ index' = index + 1 /\ pc' # "idle" /\ pc' # "taskTest"
    <2>1. log \in Seq(Evs)
      BY <1>5 DEF InOrder
    <2>2. log' = log \o <<e>> \o <<s>>
      BY <1>1, Zenon DEF NextStep
    <2>3. log \o <<e>> = m /\ m \in Seq(Evs)
      BY <1>2, <2>1, ConcatFacts, AppendFacts DEF Says
    <2>4. m \o <<s>> = o
      BY <1>3, <1>4, <2>3, ConcatFacts DEF Says
    <2>5. index' = index + 1 /\ pc' # "idle" /\ pc' # "taskTest"
      BY DEF NextStep
    <2>6. QED BY <2>2, <2>3, <2>4, <2>5
  <1>7. InOrder(m, index) /\ AllClosed(m) /\ ~Within(m) /\ Open(m)
    <2>1. Open(m)
      BY <1>2, <1>5, OpenEvent DEF Says, InOrder
    <2>2. InOrder(m, index) /\ AllClosed(m) /\ ~Within(m)
      BY <1>2, <1>5, AddDone DEF Says
    <2>3. QED BY <2>1, <2>2
  <1>8. InOrder(o, index + 1) /\ ~Within(o) /\ Open(o)
    <2>1. InOrder(o, index + 1) /\ ~Within(o)
      BY <1>1, <1>3, <1>7, AddStart
    <2>2. Open(o)
      BY <1>3, <1>4, <1>7, OpenEvent DEF Says, InOrder
    <2>3. QED BY <2>1, <2>2
  <1>9. QED BY <1>5, <1>6, <1>8 DEF LogInv

\* A test inside a task begins, or ends.
LEMMA WithinLogInv ==
  ASSUME IInv, LogInv, pc = "changedFiles", pc' = "taskTest",
         log' = Append(log, within(Label(index), index)),
         UNCHANGED <<index, finished, res>>
  PROVE  LogInv'
  <1>1. PICK e : e = within(Label(index), index)
    OBVIOUS
  <1>2. Says(e, "task_start", Label(index), index) /\ e.inner /\ ~e.err
    BY <1>1, StepLabel, StartSays, Zenon
  <1>3. ~finished /\ ~res.pushed /\ Open(log) /\ InOrder(log, index) /\ ~Within(log)
    BY DEF IInv, ReportInv, LogInv
  <1>4. log' = Append(log, e)
    BY <1>1
  <1>5. InOrder(log', index)
    BY <1>2, <1>3, <1>4, AddEvent DEF Says
  <1>6. log' # <<>> /\ log'[Len(log')] = e /\ Open(log')
    <2>1. log \in Seq(Evs) /\ e \in Evs /\ e.kind \notin {"repo_done", "repo_pushed"}
      BY <1>2, <1>3 DEF InOrder, Says
    <2>2. log' # <<>> /\ log'[Len(log')] = e
      BY <1>4, <2>1, AppendFacts
    <2>3. Open(log')
      BY <1>2, <1>3, <1>4, <2>1, OpenEvent
    <2>4. QED BY <2>2, <2>3
  <1>7. QED BY <1>1, <1>3, <1>5, <1>6 DEF LogInv

LEMMA DoneWithinLogInv ==
  ASSUME IInv, LogInv, pc = "taskTest", pc' = "commit",
         log' = Append(log, doneWithin(Label(index), index)),
         UNCHANGED <<index, finished, res>>
  PROVE  LogInv'
  <1>1. PICK e : e = doneWithin(Label(index), index)
    OBVIOUS
  <1>2. Says(e, "task_done", Label(index), index) /\ e.inner /\ ~e.err
    BY <1>1, StepLabel, DoneSays, Zenon
  <1>3. /\ ~finished /\ ~res.pushed /\ Open(log) /\ InOrder(log, index)
        /\ log[Len(log)] = within(Label(index), index)
    BY DEF IInv, ReportInv, LogInv
  <1>4. log' = Append(log, e)
    BY <1>1
  <1>5. Answers(log[Len(log)], e)
    <2>1. Says(within(Label(index), index), "task_start", Label(index), index)
      BY StepLabel, StartSays, Zenon
    <2>2. QED BY <1>1, <1>3, <2>1 DEF Answers, Says
  <1>6. InOrder(log', index)
    BY <1>2, <1>3, <1>4, <1>5, AddEvent DEF Says
  <1>7. ~Within(log') /\ Open(log')
    <2>1. log \in Seq(Evs) /\ e \in Evs /\ e.kind = "task_done"
      BY <1>2, <1>3 DEF InOrder, Says
    <2>2. log'[Len(log')] = e
      BY <1>4, <2>1, AppendFacts
    <2>3. ~Within(log')
      BY <2>1, <2>2 DEF Within
    <2>4. Open(log')
      BY <1>2, <1>3, <1>4, <2>1, OpenEvent
    <2>5. QED BY <2>3, <2>4
  <1>8. QED BY <1>3, <1>6, <1>7 DEF LogInv

\* A call that succeeds says which way, and that all steps are done.
LEMMA FinishLogInv ==
  ASSUME IInv, LogInv, pc \in {"push", "pushed"}, NEW p \in BOOLEAN, NEW event,
         \/ event = <<>> /\ ~p
         \/ event = <<ofRepo("repo_pushed")>> /\ p,
         Finish(p, event)
  PROVE  LogInv'
  <1>1. PICK f : f = done("push", index)
    OBVIOUS
  <1>2. PICK d : d = ofRepo("repo_done")
    OBVIOUS
  <1>3. PICK b : b = ofRepo("repo_pushed")
    OBVIOUS
  <1>4. PICK l : l = log \o event
    OBVIOUS
  <1>5. PICK m : m = Append(l, f)
    OBVIOUS
  <1>6. PICK o : o = Append(m, d)
    OBVIOUS
  <1>7. index = Count /\ Label(index) = "push" /\ index \in Nat
    <2>1. index = Count /\ index \in Nat
      BY CountFacts DEF IInv, IndexInv
    <2>2. QED BY <2>1, LabelFacts
  <1>8. Says(f, "task_done", "push", index) /\ ~f.inner /\ ~f.err
    BY <1>1, <1>7, StepLabel, DoneSays, Zenon
  <1>9. /\ d \in Evs /\ d.kind = "repo_done" /\ ~d.inner /\ ~d.err
        /\ b \in Evs /\ b.kind = "repo_pushed" /\ ~b.inner /\ ~b.err
    BY <1>2, <1>3, RepoSays, Zenon
  <1>10. /\ Open(log) /\ InOrder(log, index) /\ ~Within(log)
         /\ res \in Results /\ ~res.err
    BY DEF IInv, TypeOK, ReportInv, LogInv, Results
  <1>11. log \in Seq(Evs)
    BY <1>10 DEF InOrder
  <1>12. /\ InOrder(l, index) /\ ~Within(l)
         /\ \A n \in DOMAIN l : l[n].kind # "repo_done" /\ ~l[n].err
         /\ (\E n \in DOMAIN l : l[n].kind = "repo_pushed") <=> p
    <2>1. CASE event = <<>> /\ ~p
      <3>1. l = log
        BY <1>4, <1>9, <1>11, <2>1, ConcatFacts
      <3>2. QED BY <1>10, <2>1, <3>1 DEF Open
    <2>2. CASE event = <<ofRepo("repo_pushed")>> /\ p
      <3>1. l = Append(log, b)
        BY <1>3, <1>4, <1>9, <1>11, <2>2, ConcatFacts
      <3>2. InOrder(l, index)
        BY <1>9, <1>10, <3>1, AddEvent
      <3>3. /\ \A n \in DOMAIN log : l[n] = log[n]
            /\ l[Len(log) + 1] = b /\ Len(l) = Len(log) + 1
            /\ DOMAIN l = DOMAIN log \cup {Len(log) + 1}
        BY <1>9, <1>11, <3>1, AppendFacts
      <3>4. ~Within(l)
        BY <1>9, <3>3 DEF Within
      <3>5. \A n \in DOMAIN l : l[n].kind # "repo_done" /\ ~l[n].err
        BY <1>9, <1>10, <3>3 DEF Open
      <3>6. \E n \in DOMAIN l : l[n].kind = "repo_pushed"
        BY <1>9, <3>3
      <3>7. QED BY <2>2, <3>2, <3>4, <3>5, <3>6
    <2>3. QED BY <2>1, <2>2
  <1>13. l \in Seq(Evs)
    BY <1>12 DEF InOrder
  <1>14. log' = o /\ index' = index /\ finished' /\ pc' = "idle"
    <2>1. log' = l \o <<f, d>>
      BY <1>1, <1>2, <1>4, Zenon DEF Finish
    <2>2. l \o <<f, d>> = o
      BY <1>5, <1>6, <1>8, <1>9, <1>13, ConcatFacts DEF Says
    <2>3. QED BY <2>1, <2>2 DEF Finish
  <1>15. InOrder(m, index) /\ ~Within(m)
    BY <1>5, <1>8, <1>12, AddDone DEF Says
  <1>16. InOrder(o, index)
    BY <1>6, <1>9, <1>15, AddEvent
  <1>17. Over(o, index, res')
    <2>6. /\ f \in Evs /\ f.kind = "task_done"
          /\ d \in Evs /\ d.kind = "repo_done" /\ ~d.err
      BY <1>8, <1>9 DEF Says
    <2>7. \A n \in DOMAIN l : l[n].kind # "repo_done" /\ ~l[n].err
      BY <1>12
    <2>1. Ended(l, f, o)
      BY <1>5, <1>6, <1>13, <2>6, <2>7, LastEvents
    <2>2. res'.err = res.err /\ res'.pushed = p
      <3>1. coverage \in Codes \cup {None}
        BY DEF IInv, TypeOK
      <3>2. QED BY <1>10, <3>1, ResultEnds DEF Finish, Results
    <2>3. f.err = res'.err
      BY <1>8, <1>10, <2>2 DEF Says, Evs, Results
    <2>4. QED BY <1>7, <1>8, <1>10, <1>12, <2>1, <2>2, <2>3 DEF Ended, Over, Says
  <1>18. QED BY <1>14, <1>16, <1>17 DEF LogInv

LEMMA InitLogInv == Init => LogInv
  <1> SUFFICES ASSUME Init PROVE LogInv
    OBVIOUS
  <1>1. log = <<>> /\ index = 0 /\ pc = "idle" /\ ~finished /\ ~res.pushed
    BY DEF Init, NoResult
  <1>2. log \in Seq(Evs) /\ Starts(log) = {} /\ DOMAIN log = {}
    BY <1>1 DEF Starts, OuterOf
  <1>3. Cardinality({}) = 0
    BY FS_EmptySet
  <1>4. InOrder(log, 0)
    BY <1>1, <1>2, <1>3 DEF InOrder, Numbered, Closed, Nested
  <1>5. QED BY <1>1, <1>4 DEF LogInv, Open

LEMMA NextLogInvariance == ASSUME IInv, LogInv, [Next]_vars PROVE LogInv'
  <1>1. CASE Begin
    <2>1. InOrder(log', 1) /\ Open(log') /\ ~Within(log')
      BY <1>1, FirstEvents DEF Begin
    <2>2. index' = 1 /\ ~finished' /\ ~res'.pushed /\ pc' = "description"
      BY <1>1 DEF Begin, Goto, NoResult
    <2>3. QED BY <2>1, <2>2 DEF LogInv
  <1>2. CASE SetDescription \/ SetTopics \/ DiscardLocalChanges \/ HardReset \/ Clean
             \/ Recheck \/ Pull \/ GoModInit
    <2>1. /\ pc \in Preparing
          /\ (Quiet /\ pc' \in Preparing) \/ Fail
      BY <1>2 DEF SetDescription, SetTopics, DiscardLocalChanges, HardReset, Clean, Recheck,
                  Pull, GoModInit, Goto, Fail, Preparing
    <2>2. QED BY <2>1, FailLogInv, SilentLogInv DEF Quiet, Preparing
  <1>3. ASSUME pc \in {"isGoRepo", "initialPushed"}, NextStep(<<done("prepare", 1)>>),
               UNCHANGED <<res, finished>>
        PROVE  LogInv'
    <2>1. PICK e : e = done("prepare", 1)
      OBVIOUS
    <2>2. index = 1 /\ index < Count
      BY <1>3, CountFacts DEF IInv, IndexInv, Preparing
    <2>3. Label(index) = "prepare"
      BY <2>2, LabelFacts
    <2>4. pc # "idle"
      BY <1>3
    <2>5. Says(e, "task_done", Label(index), index) /\ ~e.inner /\ ~e.err
      BY <2>1, <2>2, <2>3, <2>4, StepLabel, DoneSays, Zenon
    <2>6. QED BY <1>3, <2>1, <2>2, <2>5, NextLogInv
  <1>4. CASE IsGoRepo
    <2>1. CASE Fail
      BY <1>4, <2>1, FailLogInv DEF IsGoRepo, Goto
    <2>2. CASE ~Fail
      BY <1>3, <1>4, <2>2, SilentLogInv DEF IsGoRepo, Goto, Quiet
    <2>3. QED BY <2>1, <2>2
  <1>5. CASE InitialCommit
    BY <1>5, FailLogInv, SilentLogInv DEF InitialCommit, Goto
  <1>6. CASE InitialPush \/ InitialPushReturns
    BY <1>3, <1>6, FailLogInv, SilentLogInv DEF InitialPush, InitialPushReturns, Goto, Quiet
  <1>7. CASE Test
    <2>1. pc = "test" /\ index = 2 /\ index < Count
      BY <1>7, CountFacts DEF Test, IInv, IndexInv
    <2>2. PICK e : e = done("test", 2)
      OBVIOUS
    <2>3. Label(index) = "test"
      BY <2>1, LabelFacts
    <2>4. Says(e, "task_done", Label(index), index) /\ ~e.inner /\ ~e.err
      <3>1. pc # "idle"
        BY <2>1
      <3>2. QED BY <2>1, <2>2, <2>3, <3>1, StepLabel, DoneSays, Zenon
    <2>5. Fail \/ (NextStep(<<e>>) /\ UNCHANGED <<res, finished>>)
      BY <1>7, <2>2 DEF Test
    <2>6. QED BY <2>1, <2>4, <2>5, FailLogInv, NextLogInv
  <1>8. CASE RunTask
    BY <1>8, FailLogInv, SilentLogInv DEF RunTask, Goto, Quiet
  <1>9. CASE GetChangedFiles
    <2>1. pc = "changedFiles" /\ index < Count
      BY <1>9, CountFacts DEF GetChangedFiles, IInv, IndexInv, Tasking
    <2>2. CASE Fail
      BY <2>1, <2>2, FailLogInv
    <2>3. CASE /\ NextStep(<<done(Label(index), index)>>)
               /\ UNCHANGED <<files, coverage, res, finished, made>>
      <3>1. PICK e : e = done(Label(index), index)
        OBVIOUS
      <3>2. Says(e, "task_done", Label(index), index) /\ ~e.inner /\ ~e.err
        <4>1. pc # "idle"
          BY <2>1
        <4>2. QED BY <3>1, <4>1, StepLabel, DoneSays, Zenon
      <3>3. QED BY <2>1, <2>3, <3>1, <3>2, NextLogInv
    <2>4. CASE /\ pc' = "taskTest"
               /\ log' = Append(log, within(Label(index), index))
               /\ UNCHANGED <<index, coverage, res, finished, made>>
      BY <2>1, <2>4, WithinLogInv
    <2>5. CASE pc' = "commit" /\ UNCHANGED <<log, index, res, finished>>
      BY <2>1, <2>5, SilentLogInv
    <2>6. QED BY <1>9, <2>2, <2>3, <2>4, <2>5 DEF GetChangedFiles
  <1>10. CASE TaskTest
    BY <1>10, FailLogInv, DoneWithinLogInv DEF TaskTest
  <1>11. CASE Commit
    BY <1>11, FailLogInv, SilentLogInv DEF Commit, Goto
  <1>12. CASE CommitReturns
    <2>1. /\ pc = "committed" /\ index < Count /\ files \in SUBSET Paths /\ res \in Results
          /\ index \in 3 .. Len(Tasks) + 2
      BY <1>12, CountFacts DEF CommitReturns, IInv, TypeOK, IndexInv, Tasking, Results
    <2>2. CASE Fail
      BY <2>1, <2>2, FailLogInv
    <2>3. CASE /\ res' = [res EXCEPT !.commits = @ \o describe(Label(index))]
               /\ NextStep(<<committed(Label(index), index, files)>>)
               /\ UNCHANGED <<files, coverage, finished>>
      <3>1. PICK e : e = committed(Label(index), index, files)
        OBVIOUS
      <3>2. Says(e, "task_done", Label(index), index) /\ ~e.inner /\ ~e.err
        <4>1. pc # "idle"
          BY <2>1
        <4>2. QED BY <2>1, <3>1, <4>1, StepLabel, CommittedSays, Zenon
      <3>3. res'.pushed = res.pushed
        BY <2>1, <2>3, ResultGrows, TaskLabel, Zenon
      <3>4. QED BY <2>1, <2>3, <3>1, <3>2, <3>3, NextLogInv
    <2>4. QED BY <1>12, <2>2, <2>3 DEF CommitReturns
  <1>13. CASE NothingToPush \/ Push \/ PushReturns
    <2>1. pc \in {"push", "pushed"}
      BY <1>13 DEF NothingToPush, Push, PushReturns, Goto
    <2>2. CASE Fail
      BY <2>1, <2>2, FailLogInv
    <2>3. CASE Finish(FALSE, <<>>)
      <3>1. PICK p \in BOOLEAN : p = FALSE
        OBVIOUS
      <3>2. Finish(p, <<>>) /\ ~p
        BY <2>3, <3>1, Zenon
      <3>3. QED BY <2>1, <3>2, FinishLogInv
    <2>4. CASE Finish(TRUE, <<ofRepo("repo_pushed")>>)
      <3>1. PICK p \in BOOLEAN : p = TRUE
        OBVIOUS
      <3>2. PICK event : event = <<ofRepo("repo_pushed")>>
        OBVIOUS
      <3>3. Finish(p, event) /\ p
        BY <2>4, <3>1, <3>2, Zenon
      <3>4. QED BY <2>1, <3>2, <3>3, FinishLogInv
    <2>5. CASE Goto("push", "pushed") /\ Quiet
      BY <2>5, SilentLogInv DEF Goto, Quiet
    <2>6. QED BY <1>13, <2>2, <2>3, <2>4, <2>5 DEF NothingToPush, Push, PushReturns
  <1>14. CASE Crash \/ Other \/ Rest \/ UNCHANGED vars
    <2>1. /\ UNCHANGED <<log, index, finished, res>>
          /\ pc' = pc \/ pc' = "idle"
      BY <1>14 DEF Crash, Other, Rest, vars, progress
    <2>2. QED BY <2>1 DEF LogInv, Over
  <1>15. QED
    BY <1>1, <1>2, <1>4, <1>5, <1>6, <1>7, <1>8, <1>9, <1>10, <1>11, <1>12, <1>13,
       <1>14 DEF Next, Update

------------------------------------------------------------------------------
(* What a reader of the stream relies on holds in every state of it.       *)

LEMMA LogInvStepsInOrder == LogInv => StepsInOrder
  <1> SUFFICES ASSUME LogInv PROVE StepsInOrder
    OBVIOUS
  <1>1. Outer("task_start") = Starts(log) /\ Outer("task_done") = Dones(log)
    BY DEF Outer, Starts, Dones, OuterOf
  <1>2. InOrder(log, index)
    BY DEF LogInv
  <1>3. \A n \in Outer("task_start") :
          /\ log[n].index \in 1 .. Count /\ log[n].task = Label(log[n].index)
          /\ log[n].index = Cardinality({m \in Outer("task_start") : m <= n})
    BY <1>1, <1>2 DEF InOrder, Numbered, Rank
  <1>4. \A n \in Outer("task_start") :
          \A m \in Outer("task_start") :
             m > n => \E k \in Outer("task_done") :
                         /\ n < k /\ k < m
                         /\ log[k].index = log[n].index /\ ~log[k].err
    BY <1>1, <1>2 DEF InOrder, Closed, Ends
  <1>5. \A n \in DOMAIN log :
          log[n].kind = "task_start" /\ log[n].inner /\ n < Len(log) =>
              log[n + 1] \in {doneWithin(log[n].task, log[n].index),
                             failed(log[n].task, log[n].index)}
    BY <1>2 DEF InOrder, Nested, Answers
  <1>6. CASE ~finished
    <2>1. Open(log) /\ ~res.pushed
      BY <1>6 DEF LogInv
    <2>2. ~Has("repo_done") /\ ~Has("repo_pushed")
      BY <2>1 DEF Open, Has
    <2>3. QED BY <1>3, <1>4, <1>5, <1>6, <2>1, <2>2 DEF StepsInOrder, Has
  <1>7. CASE finished
    <2>1. Over(log, index, res) /\ Len(log) \in DOMAIN log
      BY <1>2, <1>7 DEF LogInv, InOrder, Over
    <2>2. Has("repo_done") /\ (Has("repo_pushed") <=> res.pushed)
      BY <2>1 DEF Over, Has
    <2>3. \A n \in DOMAIN log : log[n].kind = "repo_done" => n = Len(log)
      BY <2>1 DEF Over
    <2>4. index = Cardinality(Outer("task_start"))
      BY <1>1, <1>2 DEF InOrder
    <2>5. res.err => {n \in DOMAIN log : log[n].err} = {Len(log) - 1}
      BY <2>1 DEF Over
    <2>6. ~res.err => {n \in DOMAIN log : log[n].err} = {} /\ index = Count
      BY <2>1 DEF Over
    <2>7. /\ log[Len(log) - 1].kind = "task_done" /\ log[Len(log) - 1].err = res.err
          /\ log[Len(log) - 1].index = index
      BY <2>1 DEF Over
    <2>8. QED BY <1>3, <1>4, <1>5, <1>7, <2>2, <2>3, <2>4, <2>5, <2>6, <2>7
              DEF StepsInOrder
  <1>8. QED BY <1>6, <1>7

\* The numbering, the nesting and the end of the stream of every call, for any
\* list of tasks.
THEOREM StreamInOrder == Spec => []StepsInOrder
  <1>1. Init => LogInv
    BY InitLogInv
  <1>2. IInv /\ LogInv /\ [Next]_vars => LogInv'
    BY NextLogInvariance
  <1>3. QED BY <1>1, <1>2, Invariance, LogInvStepsInOrder, PTL DEF Spec

------------------------------------------------------------------------------
(* The commits of a call, the events that tell of them, and its Result.    *)

Mades == [by : Makers, files : SUBSET Paths]

By(m) == {n \in DOMAIN m : m[n].by # byRunner}

Told(l) == {n \in DOMAIN l : l[n].committed}

\* The stream tells of the commits one by one.
Match(m, l) ==
    /\ Cardinality(Told(l)) = Cardinality(By(m))
    /\ \A a \in By(m), b \in Told(l) :
          Rank(By(m), a) = Rank(Told(l), b) =>
              /\ l[b].task = m[a].by
              /\ TestsWrite \/ l[b].files = m[a].files

\* Where in c the names of the commits end.
Cut(m, c, ends) ==
    /\ ends[0] = 0 /\ ends[Cardinality(By(m))] = Len(c)
    /\ \A n \in By(m) :
          describe(m[n].by) =
              SubSeq(c, ends[Rank(By(m), n) - 1] + 1, ends[Rank(By(m), n)])

Names(m, c) == \E ends \in [0 .. Cardinality(By(m)) -> 0 .. Len(c)] : Cut(m, c, ends)

\* What a sequence becomes, for proofs that need not know of sequences.
Adds(s, x, t) == t = Append(s, x)

\* The call knows of the commits mm, by its Result and by its events.
Knows(mm, l, c) ==
    /\ mm \in Seq(Mades) /\ Match(mm, l) /\ Names(mm, c)
    /\ c = <<>> <=> By(mm) = {}

\* A task's commit was made behind them, of which it does not know.
Unheard(mm, m) == \E x \in Mades : x.by # byRunner /\ Adds(mm, x, m)

\* It is about to hear of it.
Hears(mm, m) ==
    \E x \in Mades : /\ x.by = Label(index) /\ (TestsWrite \/ x.files = files)
                    /\ Adds(mm, x, m)

\* How far what the call knows of is all it made.
Kept(mm) ==
    CASE pc = "committed" -> Hears(mm, made)
      [] pc = "idle" -> made = mm \/ (Unheard(mm, made) /\ (finished => res.err))
      [] OTHER -> made = mm

\* The inductive invariant of the Result.
CommitInv ==
    /\ \E mm : Knows(mm, log, res.commits) /\ Kept(mm)
    /\ res.pushed => unpushed = <<>>
    /\ pc = "pushed" => unpushed = <<>> /\ res.commits # <<>>
    /\ finished /\ ~res.err => (res.pushed <=> res.commits # <<>>)
    /\ pc \in {"taskTest", "commit"} => TestsWrite \/ files = ChangedFiles

LEMMA PositionsFinite ==
  ASSUME NEW S, NEW s \in Seq(S), NEW T \in SUBSET (DOMAIN s)
  PROVE  IsFiniteSet(T) /\ T \in SUBSET Nat /\ \A n \in T : n < Len(s) + 1
  <1>1. DOMAIN s = 1 .. Len(s) /\ Len(s) \in Nat
    OBVIOUS
  <1>2. IsFiniteSet(1 .. Len(s))
    BY <1>1, FS_Interval
  <1>3. QED BY <1>1, <1>2, FS_Subset

\* An event that tells of no commit.
LEMMA MatchQuietly ==
  ASSUME NEW mm, NEW l \in Seq(Evs), Match(mm, l), NEW e \in Evs, ~e.committed,
         NEW o, o = Append(l, e)
  PROVE  o \in Seq(Evs) /\ Match(mm, o)
  <1>1. /\ DOMAIN o = DOMAIN l \cup {Len(l) + 1} /\ o[Len(l) + 1] = e /\ o \in Seq(Evs)
        /\ \A n \in DOMAIN l : o[n] = l[n]
    BY AppendFacts
  <1>2. Told(o) = Told(l) /\ Told(l) \subseteq DOMAIN l
    BY <1>1 DEF Told
  <1>3. QED BY <1>1, <1>2 DEF Match

\* The initial commit, which is none of the tasks'.
LEMMA MadeQuietly ==
  ASSUME NEW mm \in Seq(Mades), NEW l, Match(mm, l), NEW c, Names(mm, c),
         NEW x \in Mades, x.by = byRunner, NEW o, o = Append(mm, x)
  PROVE  o \in Seq(Mades) /\ Match(o, l) /\ Names(o, c) /\ By(o) = By(mm)
  <1>1. /\ DOMAIN o = DOMAIN mm \cup {Len(mm) + 1} /\ o[Len(mm) + 1] = x /\ o \in Seq(Mades)
        /\ \A n \in DOMAIN mm : o[n] = mm[n]
    BY AppendFacts
  <1>2. By(o) = By(mm) /\ By(mm) \subseteq DOMAIN mm
    BY <1>1 DEF By
  <1>3. Match(o, l)
    BY <1>1, <1>2 DEF Match
  <1>4. Names(o, c)
    <2>1. PICK f \in [0 .. Cardinality(By(mm)) -> 0 .. Len(c)] : Cut(mm, c, f)
      BY DEF Names
    <2>2. Cut(o, c, f)
      BY <1>1, <1>2, <2>1 DEF Cut
    <2>3. QED BY <1>2, <2>1, <2>2 DEF Names
  <1>5. QED BY <1>1, <1>2, <1>3, <1>4

\* A commit of a task ranks behind the others.
LEMMA ByGrows ==
  ASSUME NEW mm \in Seq(Mades), NEW x \in Mades, x.by # byRunner, NEW o, Adds(mm, x, o),
         NEW M, M = By(mm), NEW M2, M2 = By(o), NEW p, p = Len(mm) + 1
  PROVE  /\ o \in Seq(Mades) /\ o[p] = x /\ \A n \in M : o[n] = mm[n]
         /\ M2 = M \cup {p} /\ p \notin M
         /\ Cardinality(M2) = Cardinality(M) + 1 /\ Cardinality(M) \in Nat
         /\ Rank(M2, p) = Cardinality(M) + 1
         /\ \A n \in M : Rank(M2, n) = Rank(M, n) /\ Rank(M, n) \in 1 .. Cardinality(M)
  <1>1. /\ DOMAIN o = DOMAIN mm \cup {p} /\ o[p] = x /\ o \in Seq(Mades) /\ p \in Nat
        /\ \A n \in DOMAIN mm : o[n] = mm[n]
    BY AppendFacts DEF Adds
  <1>2. M2 = M \cup {p} /\ M \in SUBSET (DOMAIN mm)
    BY <1>1 DEF By
  <1>3. IsFiniteSet(M) /\ M \in SUBSET Nat /\ \A n \in M : n < p
    BY <1>2, PositionsFinite
  <1>4. p \in Nat /\ M2 = M \cup {p}
    BY <1>1, <1>2
  <1>5. Cardinality(M2) = Cardinality(M) + 1 /\ Rank(M2, p) = Cardinality(M) + 1
    BY <1>3, <1>4, RankFacts
  <1>7. ASSUME NEW n \in M
        PROVE  Rank(M2, n) = Rank(M, n) /\ Rank(M, n) \in 1 .. Cardinality(M)
    BY <1>3, <1>4, RankKept
  <1>6. Cardinality(M) \in Nat
    BY <1>3, FS_CardinalityType
  <1>8. p \notin M
    BY <1>1, <1>3
  <1>9. QED BY <1>1, <1>2, <1>5, <1>6, <1>7, <1>8

\* M commit of a task, and the event that tells of it.
LEMMA MatchCommit ==
  ASSUME NEW mm \in Seq(Mades), NEW l \in Seq(Evs), Match(mm, l),
         NEW x \in Mades, x.by # byRunner, NEW o, Adds(mm, x, o),
         NEW e \in Evs, e.committed, e.task = x.by, TestsWrite \/ e.files = x.files,
         NEW q, Adds(l, e, q)
  PROVE  o \in Seq(Mades) /\ q \in Seq(Evs) /\ Match(o, q)
  <1>1. PICK p, r : p = Len(mm) + 1 /\ r = Len(l) + 1
    OBVIOUS
  <1>3. /\ DOMAIN q = DOMAIN l \cup {r} /\ q[r] = e /\ q \in Seq(Evs) /\ r \in Nat
        /\ \A n \in DOMAIN l : q[n] = l[n]
    BY <1>1, AppendFacts DEF Adds
  <1>4. PICK M, M2 : M = By(mm) /\ M2 = By(o)
    OBVIOUS
  <1>5. PICK B, B2 : B = Told(l) /\ B2 = Told(q)
    OBVIOUS
  <1>7. B2 = B \cup {r} /\ B \in SUBSET (DOMAIN l)
    BY <1>3, <1>5 DEF Told
  <1>8. /\ o \in Seq(Mades) /\ o[p] = x /\ M2 = M \cup {p}
        /\ Cardinality(M2) = Cardinality(M) + 1 /\ Cardinality(M) \in Nat
        /\ Rank(M2, p) = Cardinality(M) + 1
        /\ \A n \in M : /\ Rank(M2, n) = Rank(M, n) /\ Rank(M, n) \in 1 .. Cardinality(M)
                        /\ o[n] = mm[n]
    BY <1>1, <1>4, ByGrows
  <1>9. /\ Cardinality(B2) = Cardinality(B) + 1 /\ Rank(B2, r) = Cardinality(B) + 1
        /\ \A n \in B : Rank(B2, n) = Rank(B, n) /\ Rank(B, n) \in 1 .. Cardinality(B)
    <2>1. IsFiniteSet(B) /\ B \in SUBSET Nat /\ \A n \in B : n < r
      BY <1>1, <1>7, PositionsFinite
    <2>2. r \in Nat /\ B2 = B \cup {r}
      BY <1>3, <1>7
    <2>3. Cardinality(B2) = Cardinality(B) + 1 /\ Rank(B2, r) = Cardinality(B) + 1
      BY <2>1, <2>2, RankFacts
    <2>4. ASSUME NEW n \in B
          PROVE  Rank(B2, n) = Rank(B, n) /\ Rank(B, n) \in 1 .. Cardinality(B)
      BY <2>1, <2>2, RankKept
    <2>5. QED BY <2>3, <2>4
  <1>10. Cardinality(B) = Cardinality(M)
    BY <1>4, <1>5 DEF Match
  <1>11. ASSUME NEW a \in M2, NEW b \in B2, Rank(M2, a) = Rank(B2, b)
         PROVE  q[b].task = o[a].by /\ (TestsWrite \/ q[b].files = o[a].files)
    <2>1. CASE a = p
      <3>1. b = r
        BY <1>7, <1>8, <1>9, <1>10, <1>11, <2>1
      <3>2. QED BY <1>3, <1>8, <2>1, <3>1
    <2>2. CASE a \in M
      <3>1. b \in B
        BY <1>7, <1>8, <1>9, <1>10, <1>11, <2>2
      <3>2. Rank(M, a) = Rank(B, b)
        BY <1>8, <1>9, <1>11, <2>2, <3>1
      <3>3. l[b].task = mm[a].by /\ (TestsWrite \/ l[b].files = mm[a].files)
        BY <1>4, <1>5, <2>2, <3>1, <3>2 DEF Match
      <3>4. QED BY <1>3, <1>7, <1>8, <2>2, <3>1, <3>3
    <2>3. QED BY <1>8, <2>1, <2>2
  <1>12. Cardinality(B2) = Cardinality(M2)
    BY <1>8, <1>9, <1>10
  <1>13. Match(o, q)
    BY <1>4, <1>5, <1>11, <1>12, Zenon DEF Match
  <1>14. QED BY <1>3, <1>8, <1>13

\* Its names in the Result.
LEMMA CutCommit ==
  ASSUME NEW mm \in Seq(Mades), NEW c \in Seq(STRING), Names(mm, c),
         NEW x \in Mades, x.by # byRunner, NEW o, Adds(mm, x, o),
         NEW d \in Seq(STRING), d = describe(x.by), NEW k, k = c \o d
  PROVE  Names(o, k)
  <1>1. PICK p : p = Len(mm) + 1
    OBVIOUS
  <1>3. PICK M, M2 : M = By(mm) /\ M2 = By(o)
    OBVIOUS
  <1>4. PICK z : z = Cardinality(M)
    OBVIOUS
  <1>5. /\ o[p] = x /\ M2 = M \cup {p} /\ z \in Nat
        /\ Cardinality(M2) = Cardinality(M) + 1 /\ Rank(M2, p) = Cardinality(M) + 1
        /\ \A n \in M : /\ Rank(M2, n) = Rank(M, n) /\ Rank(M, n) \in 1 .. Cardinality(M)
                        /\ o[n] = mm[n]
    BY <1>1, <1>3, <1>4, ByGrows
  <1>6. /\ Cardinality(M2) = z + 1 /\ Rank(M2, p) = z + 1
        /\ \A n \in M : Rank(M2, n) = Rank(M, n) /\ Rank(M, n) \in 1 .. z
    BY <1>4, <1>5
  <1>7. PICK f \in [0 .. z -> 0 .. Len(c)] : Cut(mm, c, f)
    BY <1>3, <1>4 DEF Names
  <1>8. /\ f[0] = 0 /\ f[z] = Len(c)
        /\ \A n \in M : describe(mm[n].by) = SubSeq(c, f[Rank(M, n) - 1] + 1, f[Rank(M, n)])
    BY <1>3, <1>4, <1>7 DEF Cut
  <1>9. PICK g : g = [j \in 0 .. z + 1 |-> IF j <= z THEN f[j] ELSE Len(k)]
    OBVIOUS
  <1>10. Len(c) \in Nat /\ Len(d) \in Nat /\ k \in Seq(STRING) /\ Len(k) = Len(c) + Len(d)
    OBVIOUS
  <1>11. g \in [0 .. z + 1 -> 0 .. Len(k)]
    BY <1>5, <1>7, <1>9, <1>10
  <1>12. g[0] = 0 /\ g[z] = Len(c) /\ g[z + 1] = Len(k) /\ \A j \in 0 .. z : g[j] = f[j]
    BY <1>5, <1>8, <1>9
  <1>13. ASSUME NEW n \in M2
         PROVE  describe(o[n].by) = SubSeq(k, g[Rank(M2, n) - 1] + 1, g[Rank(M2, n)])
    <2>1. CASE n \in M
      <3>1. PICK a, b : a = f[Rank(M, n) - 1] + 1 /\ b = f[Rank(M, n)]
        OBVIOUS
      <3>2. /\ g[Rank(M2, n) - 1] + 1 = a /\ g[Rank(M2, n)] = b
            /\ a \in 1 .. Len(c) + 1 /\ b \in 0 .. Len(c)
        <4>1. PICK j : j = Rank(M, n)
          OBVIOUS
        <4>2. j \in 1 .. z /\ Rank(M2, n) = j
          BY <1>6, <2>1, <4>1
        <4>3. j \in 0 .. z /\ j - 1 \in 0 .. z
          BY <1>5, <4>2
        <4>4. g[j] = f[j] /\ g[j - 1] = f[j - 1] /\ f[j] \in 0 .. Len(c) /\ f[j - 1] \in 0 .. Len(c)
          BY <1>7, <1>12, <4>3
        <4>5. a = f[j - 1] + 1 /\ b = f[j]
          BY <3>1, <4>1
        <4>6. f[j] \in Nat /\ f[j - 1] \in Nat /\ f[j] <= Len(c) /\ f[j - 1] <= Len(c)
          BY <1>10, <4>4
        <4>7. g[Rank(M2, n) - 1] = g[j - 1] /\ g[Rank(M2, n)] = g[j]
          BY <4>2
        <4>8. QED BY <1>10, <4>4, <4>5, <4>6, <4>7
      <3>3. SubSeq(k, a, b) = SubSeq(c, a, b)
        <4>1. CASE b < a
          BY <1>10, <3>2, <4>1, SubSeqEmpty
        <4>2. CASE a <= b
          <5>1. a \in 1 .. Len(c) /\ b \in 1 .. Len(c)
            BY <1>10, <3>2, <4>2
          <5>2. QED BY <5>1, SubSeqOfConcat1
        <4>3. QED BY <1>10, <3>2, <4>1, <4>2
      <3>4. o[n] = mm[n] /\ describe(mm[n].by) = SubSeq(c, a, b)
        BY <1>5, <1>8, <2>1, <3>1
      <3>5. QED BY <3>2, <3>3, <3>4
    <2>2. CASE n = p
      <3>1. /\ g[Rank(M2, n) - 1] + 1 = Len(c) + 1 /\ g[Rank(M2, n)] = Len(c) + Len(d)
        <4>1. Rank(M2, n) = z + 1
          BY <1>6, <2>2
        <4>2. Rank(M2, n) - 1 = z
          BY <1>5, <4>1
        <4>3. QED BY <1>10, <1>12, <4>1, <4>2
      <3>2. SubSeq(k, Len(c) + 1, Len(c) + Len(d)) = d
        <4>1. CASE Len(d) = 0
          <5>1. d = <<>>
            BY <4>1
          <5>2. QED BY <1>10, <4>1, <5>1, SubSeqEmpty
        <4>2. CASE Len(d) # 0
          <5>1. /\ Len(c) + 1 \in Len(c) + 1 .. Len(c) + Len(d)
                /\ Len(c) + Len(d) \in Len(c) + 1 .. Len(c) + Len(d)
                /\ Len(c) + 1 - Len(c) = 1 /\ Len(c) + Len(d) - Len(c) = Len(d)
            BY <1>10, <4>2
          <5>2. SubSeq(k, Len(c) + 1, Len(c) + Len(d)) = SubSeq(d, 1, Len(d))
            BY <5>1, SubSeqOfConcat2
          <5>3. QED BY <5>2, SubSeqFull
        <4>3. QED BY <4>1, <4>2
      <3>3. QED BY <1>5, <2>2, <3>1, <3>2
    <2>3. QED BY <1>5, <2>1, <2>2
  <1>14. Cut(o, k, g)
    BY <1>3, <1>6, <1>12, <1>13 DEF Cut
  <1>15. QED BY <1>3, <1>6, <1>11, <1>14 DEF Names

------------------------------------------------------------------------------
(* Each action preserves it.                                               *)

LEMMA MatchTwo ==
  ASSUME NEW mm, NEW l \in Seq(Evs), Match(mm, l), NEW a \in Evs, ~a.committed,
         NEW b \in Evs, ~b.committed
  PROVE  /\ l \o <<a, b>> \in Seq(Evs) /\ Match(mm, l \o <<a, b>>)
         /\ l \o <<a>> \in Seq(Evs) /\ Match(mm, l \o <<a>>)
         /\ Match(mm, l \o <<a>> \o <<b>>)
  <1>1. PICK m : m = Append(l, a)
    OBVIOUS
  <1>2. PICK o : o = Append(m, b)
    OBVIOUS
  <1>3. m \in Seq(Evs) /\ Match(mm, m)
    BY <1>1, MatchQuietly
  <1>4. o \in Seq(Evs) /\ Match(mm, o)
    BY <1>2, <1>3, MatchQuietly
  <1>5. l \o <<a>> = m /\ l \o <<a, b>> = o
    BY <1>1, <1>2, ConcatFacts
  <1>6. m \o <<b>> = o
    BY <1>2, <1>3, ConcatFacts
  <1>7. QED BY <1>3, <1>4, <1>5, <1>6

\* A task's commit is not the runner's own.
LEMMA NotTheRunners ==
  ASSUME index \in 3 .. Len(Tasks) + 2 PROVE Label(index) # byRunner
  <1>1. index - 2 \in DOMAIN Tasks /\ Label(index) = Tasks[index - 2]
    BY TasksAssumption DEF Label
  <1>2. QED BY <1>1, LabelsAssumption, Zenon

\* What a step does that makes no commit of a task.
LEMMA KeepCommitInv ==
  ASSUME CommitInv, UNCHANGED made, res'.commits = res.commits,
         \A mm : Match(mm, log) => Match(mm, log'),
         \/ pc \notin {"idle", "committed"} /\ pc' # "committed"
         \/ pc = "committed" /\ pc' = "idle" /\ (finished' => res'.err) /\ Label(index) # byRunner
         \/ UNCHANGED <<pc, index, files, finished, res>>,
         res'.pushed => unpushed' = <<>>,
         pc' = "pushed" => unpushed' = <<>> /\ res'.commits # <<>>,
         finished' /\ ~res'.err => (res'.pushed <=> res'.commits # <<>>),
         pc' \in {"taskTest", "commit"} => TestsWrite \/ files' = ChangedFiles'
  PROVE  CommitInv'
  <1>1. PICK mm, c, m : Knows(mm, log, c) /\ Kept(mm) /\ c = res.commits /\ m = made
    BY DEF CommitInv
  <1>2. Knows(mm, log', c)
    BY <1>1 DEF Knows
  <1>3. made' = m /\ res'.commits = c
    BY <1>1
  <1>4. Kept(mm)'
    <2>1. CASE pc \notin {"idle", "committed"} /\ pc' # "committed"
      BY <1>1, <2>1 DEF Kept
    <2>2. CASE pc = "committed" /\ pc' = "idle" /\ (finished' => res'.err) /\ Label(index) # byRunner
      <3>1. Hears(mm, m)
        BY <1>1, <2>2 DEF Kept
      <3>2. Unheard(mm, m)
        BY <2>2, <3>1 DEF Hears, Unheard
      <3>3. QED BY <1>3, <2>2, <3>2 DEF Kept, Unheard
    <2>3. CASE UNCHANGED <<pc, index, files, finished, res>>
      BY <1>1, <2>3 DEF Kept, Hears, Unheard, Label
    <2>4. QED BY <2>1, <2>2, <2>3
  <1>5. Knows(mm, log', res'.commits)
    BY <1>2, <1>3
  <1>6. QED BY <1>4, <1>5 DEF CommitInv, Knows

LEMMA FailCommitInv ==
  ASSUME IInv, LogInv, CommitInv, pc # "idle", Fail
  PROVE  CommitInv'
  <1>1. PICK f : f = failed(Label(index), index)
    OBVIOUS
  <1>2. PICK d : d = ofRepo("repo_done")
    OBVIOUS
  <1>3. f \in Evs /\ ~f.committed /\ d \in Evs /\ ~d.committed
    <2>1. Says(f, "task_done", Label(index), index) /\ ~f.committed
      BY <1>1, StepLabel, DoneSays, Zenon
    <2>2. d \in Evs /\ ~d.committed
      BY <1>2, RepoSays, Zenon
    <2>3. QED BY <2>1, <2>2 DEF Says
  <1>4. log \in Seq(Evs)
    BY DEF LogInv, InOrder
  <1>5. log' = log \o <<f, d>>
    BY <1>1, <1>2, Zenon DEF Fail
  <1>6. \A mm : Match(mm, log) => Match(mm, log')
    BY <1>3, <1>4, <1>5, MatchTwo, Zenon
  <1>7. /\ res'.err /\ res'.commits = res.commits /\ ~res'.pushed
    <2>1. res \in Results /\ ~res.pushed
      BY DEF IInv, TypeOK, ReportInv, Results
    <2>2. QED BY <2>1 DEF Fail, Results
  <1>8. pc' = "idle" /\ UNCHANGED made
    BY DEF Fail
  <1>9. pc = "committed" => Label(index) # byRunner
    BY NotTheRunners DEF IInv, IndexInv, Tasking
  <1>10. QED BY <1>6, <1>7, <1>8, <1>9, KeepCommitInv

\* A step that says nothing, and makes and tests nothing.
LEMMA SilentCommitInv ==
  ASSUME IInv, CommitInv, UNCHANGED <<log, made, finished, res>>,
         pc \notin {"idle", "committed"},
         pc' \notin {"taskTest", "commit", "committed", "pushed"}
  PROVE  CommitInv'
  <1>1. ~finished /\ ~res.pushed
    BY DEF IInv, ReportInv
  <1>2. \A mm : Match(mm, log) => Match(mm, log')
    OBVIOUS
  <1>3. QED BY <1>1, <1>2, KeepCommitInv

\* The step under way ends without a commit.
LEMMA NextCommitInv ==
  ASSUME IInv, LogInv, CommitInv, pc \notin {"idle", "committed"}, index < Count,
         NEW e \in Evs, ~e.committed, NextStep(<<e>>), UNCHANGED <<made, finished, res>>
  PROVE  CommitInv'
  <1>1. PICK s : s = start(Label(index + 1), index + 1)
    OBVIOUS
  <1>2. s \in Evs /\ ~s.committed
    <2>1. index + 1 \in Nat /\ index + 1 \in 1 .. Count
      BY StepLabel, CountFacts
    <2>2. Label(index + 1) \in Labels
      BY <2>1, LabelFacts, Zenon
    <2>3. Says(s, "task_start", Label(index + 1), index + 1) /\ ~s.committed
      BY <1>1, <2>1, <2>2, StartSays, Zenon
    <2>4. QED BY <2>3 DEF Says
  <1>3. log \in Seq(Evs)
    BY DEF LogInv, InOrder
  <1>4. log' = log \o <<e>> \o <<s>>
    BY <1>1, Zenon DEF NextStep
  <1>5. \A mm : Match(mm, log) => Match(mm, log')
    BY <1>2, <1>3, <1>4, MatchTwo, Zenon
  <1>6. ~finished /\ ~res.pushed /\ pc' \notin {"taskTest", "commit", "committed", "pushed"}
    BY DEF IInv, ReportInv, NextStep
  <1>7. QED BY <1>5, <1>6, KeepCommitInv

\* A task's commit, its names and its event.
LEMMA CommitCommitInv ==
  ASSUME IInv, LogInv, CommitInv, pc = "committed", UNCHANGED made,
         res' = [res EXCEPT !.commits = @ \o describe(Label(index))],
         NextStep(<<committed(Label(index), index, files)>>), UNCHANGED finished
  PROVE  CommitInv'
  <1>1. PICK e : e = committed(Label(index), index, files)
    OBVIOUS
  <1>2. PICK s : s = start(Label(index + 1), index + 1)
    OBVIOUS
  <1>3. PICK mm, x : /\ Knows(mm, log, res.commits)
                     /\ x \in Mades /\ x.by = Label(index) /\ (TestsWrite \/ x.files = files)
                     /\ Adds(mm, x, made)
    BY DEF CommitInv, Kept, Hears
  <1>4. PICK d : d = describe(Label(index))
    OBVIOUS
  <1>5. /\ index \in 3 .. Len(Tasks) + 2 /\ files \in SUBSET Paths /\ res \in Results
        /\ ~finished /\ ~res.pushed
    BY DEF IInv, TypeOK, IndexInv, Tasking, ReportInv, Results
  <1>6. /\ Says(e, "task_done", Label(index), index) /\ e.committed /\ e.files = files
    <2>1. pc # "idle"
      OBVIOUS
    <2>2. QED BY <1>1, <1>5, <2>1, StepLabel, CommittedSays, Zenon
  <1>7. s \in Evs /\ ~s.committed
    <2>1. index + 1 \in Nat /\ index + 1 \in 1 .. Count
      BY <1>5, CountFacts
    <2>2. Label(index + 1) \in Labels
      BY <2>1, LabelFacts, Zenon
    <2>3. Says(s, "task_start", Label(index + 1), index + 1) /\ ~s.committed
      BY <1>2, <2>1, <2>2, StartSays, Zenon
    <2>4. QED BY <2>3 DEF Says
  <1>8. x.by # byRunner
    BY <1>3, <1>5, NotTheRunners
  <1>9. d \in Seq(STRING) /\ d = describe(x.by) /\ d # <<>>
    <2>1. d \in Seq(STRING) /\ d = describe(x.by)
      BY <1>3, <1>4, <1>5, TaskLabel, Zenon
    <2>2. d # <<>>
      BY <1>4 DEF describe
    <2>3. QED BY <2>1, <2>2
  <1>10. /\ log \in Seq(Evs) /\ mm \in Seq(Mades) /\ Match(mm, log)
         /\ Names(mm, res.commits) /\ res.commits \in Seq(STRING)
    BY <1>3, <1>5 DEF LogInv, InOrder, Knows, Results
  <1>11. /\ log' = log \o <<e>> \o <<s>>
         /\ res'.commits = res.commits \o d /\ res'.pushed = res.pushed
    <2>2. log' = log \o <<e>> \o <<s>>
      BY <1>1, <1>2, Zenon DEF NextStep
    <2>3. res'.commits = res.commits \o d
      BY <1>4, <1>5 DEF Results
    <2>4. res'.pushed = res.pushed
      BY <1>5 DEF Results
    <2>5. QED BY <2>2, <2>3, <2>4
  <1>12. PICK q : Adds(log, e, q)
    BY DEF Adds
  <1>13. made \in Seq(Mades) /\ q \in Seq(Evs) /\ Match(made, q)
    <2>1. e \in Evs /\ e.committed /\ e.task = x.by /\ (TestsWrite \/ e.files = x.files)
      BY <1>3, <1>6 DEF Says
    <2>2. PICK o : o = made
      OBVIOUS
    <2>3. Adds(mm, x, o)
      BY <1>3, <2>2
    <2>4. o \in Seq(Mades) /\ q \in Seq(Evs) /\ Match(o, q)
      BY <1>3, <1>8, <1>10, <1>12, <2>1, <2>3, MatchCommit
    <2>5. QED BY <2>2, <2>4
  <1>14. log' = Append(q, s)
    <2>1. q = log \o <<e>> /\ e \in Evs
      BY <1>6, <1>10, <1>12, ConcatFacts DEF Says, Adds
    <2>2. QED BY <1>7, <1>11, <1>13, <2>1, ConcatFacts
  <1>15. PICK o, k, g : o = made /\ k = res'.commits /\ g = log'
    OBVIOUS
  <1>16. Match(o, g)
    BY <1>7, <1>13, <1>14, <1>15, MatchQuietly
  <1>17. Names(o, k)
    <2>1. Adds(mm, x, o) /\ k = res.commits \o d
      BY <1>3, <1>11, <1>15
    <2>2. QED BY <1>3, <1>8, <1>9, <1>10, <2>1, CutCommit
  <1>18. k # <<>>
    <2>1. PICK c : c = res.commits
      OBVIOUS
    <2>2. c \o d # <<>>
      BY <1>9, <1>10, <2>1, ConcatEqualIffEmpty
    <2>3. QED BY <1>11, <1>15, <2>1, <2>2
  <1>19. By(o) # {}
    <2>1. PICK M, M2, p : M = By(mm) /\ M2 = By(o) /\ p = Len(mm) + 1
      OBVIOUS
    <2>2. Adds(mm, x, o)
      BY <1>3, <1>15
    <2>3. p \in M2
      BY <1>3, <1>8, <1>10, <2>1, <2>2, ByGrows
    <2>4. QED BY <2>1, <2>3
  <1>20. o \in Seq(Mades) /\ made' = o
    BY <1>13, <1>15
  <1>21. Knows(o, g, k)
    BY <1>16, <1>17, <1>18, <1>19, <1>20 DEF Knows
  <1>22. pc' \notin {"taskTest", "commit", "committed", "idle", "pushed"}
    BY DEF NextStep
  <1>23. Kept(o)'
    BY <1>20, <1>22 DEF Kept
  <1>24. QED BY <1>5, <1>11, <1>15, <1>21, <1>22, <1>23 DEF CommitInv

\* A task's commit, of which the call has not heard yet.
LEMMA MadeCommitInv ==
  ASSUME IInv, LogInv, CommitInv, Goto("commit", "committed"), CommitAll(Label(index)),
         UNCHANGED <<index, files, coverage, res, log, finished>>
  PROVE  CommitInv'
  <1>1. PICK x : x = [by |-> Label(index), files |-> ChangedFiles]
    OBVIOUS
  <1>2. PICK mm : Knows(mm, log, res.commits) /\ made = mm
    BY DEF CommitInv, Kept, Goto
  <1>3. x \in Mades /\ x.by = Label(index) /\ (TestsWrite \/ x.files = files)
    <2>1. Label(index) \in Makers
      BY TaskLabel DEF IInv, IndexInv, Tasking, Goto
    <2>2. ChangedFiles \in SUBSET Paths /\ (TestsWrite \/ files = ChangedFiles)
      BY DEF ChangedFiles, Diff, CommitInv, Goto
    <2>3. QED BY <1>1, <2>1, <2>2 DEF Mades
  <1>4. Adds(mm, x, made')
    BY <1>1, <1>2, Zenon DEF CommitAll, Adds
  <1>5. PICK i, fs, m : i = index /\ fs = files /\ m = made'
    OBVIOUS
  <1>6. Hears(mm, made)'
    <2>1. index' = i /\ files' = fs
      BY <1>5
    <2>2. x.by = Label(index)'
      BY <1>3 DEF Label
    <2>3. QED BY <1>3, <1>4, <1>5, <2>1, <2>2 DEF Hears
  <1>7. Kept(mm)'
    BY <1>6 DEF Kept, Goto
  <1>8. Knows(mm, log', res'.commits)
    BY <1>2
  <1>9. pc' = "committed" /\ ~finished /\ ~res.pushed
    BY DEF Goto, IInv, ReportInv
  <1>10. QED BY <1>7, <1>8, <1>9 DEF CommitInv

\* Before anything is committed.
LEMMA NoCommits ==
  ASSUME NEW mm, mm = <<>>, NEW l \in Seq(Evs), \A n \in DOMAIN l : ~l[n].committed,
         NEW c, c = <<>>
  PROVE  mm \in Seq(Mades) /\ Match(mm, l) /\ Names(mm, c) /\ By(mm) = {}
  <1>1. mm \in Seq(Mades) /\ By(mm) = {} /\ Told(l) = {}
    BY DEF By, Told
  <1>2. Cardinality({}) = 0
    BY FS_EmptySet
  <1>3. Match(mm, l)
    BY <1>1, <1>2 DEF Match
  <1>4. Names(mm, c)
    <2>1. PICK f : f = [j \in {0} |-> 0]
      OBVIOUS
    <2>2. f \in [0 .. 0 -> 0 .. 0] /\ f[0] = 0
      BY <2>1
    <2>3. Len(c) = 0
      OBVIOUS
    <2>4. Cut(mm, c, f)
      BY <1>1, <1>2, <2>2, <2>3 DEF Cut
    <2>5. QED BY <1>1, <1>2, <2>2, <2>3, <2>4 DEF Names
  <1>5. QED BY <1>1, <1>3, <1>4

LEMMA InitCommitInv == Init => CommitInv
  <1> SUFFICES ASSUME Init PROVE CommitInv
    OBVIOUS
  <1>1. /\ made = <<>> /\ log = <<>> /\ res.commits = <<>> /\ pc = "idle" /\ ~finished
        /\ unpushed = <<>>
    BY DEF Init, NoResult
  <1>2. log \in Seq(Evs) /\ \A n \in DOMAIN log : ~log[n].committed
    BY <1>1
  <1>3. made \in Seq(Mades) /\ Match(made, log) /\ Names(made, res.commits) /\ By(made) = {}
    BY <1>1, <1>2, NoCommits
  <1>4. Knows(made, log, res.commits) /\ Kept(made)
    BY <1>1, <1>3 DEF Knows, Kept
  <1>5. QED BY <1>1, <1>4 DEF CommitInv

LEMMA BeginCommitInv == ASSUME Begin PROVE CommitInv'
  <1>1. PICK a : a = ofRepo("repo_start")
    OBVIOUS
  <1>2. PICK b : b = start("prepare", 1)
    OBVIOUS
  <1>3. a \in Evs /\ ~a.committed
    BY <1>1, RepoSays, Zenon
  <1>4. b \in Evs /\ ~b.committed
    <2>1. 1 \in 1 .. Count /\ 1 \in Nat
      BY CountFacts
    <2>2. "prepare" \in Labels
      BY <2>1, LabelFacts, Zenon
    <2>3. Says(b, "task_start", "prepare", 1) /\ ~b.committed
      BY <1>2, <2>1, <2>2, StartSays, Zenon
    <2>4. QED BY <2>3 DEF Says
  <1>5. PICK l : l = <<a, b>>
    OBVIOUS
  <1>6. log' = l
    BY <1>1, <1>2, <1>5, Zenon DEF Begin
  <1>7. l \in Seq(Evs) /\ \A n \in DOMAIN l : ~l[n].committed
    BY <1>3, <1>4, <1>5
  <1>8. made' = <<>> /\ res'.commits = <<>> /\ ~finished' /\ ~res'.pushed /\ pc' = "description"
    BY DEF Begin, NoResult, Goto
  <1>9. PICK c : c = <<>>
    OBVIOUS
  <1>10. c \in Seq(Mades) /\ Match(c, l) /\ Names(c, c) /\ By(c) = {}
    BY <1>7, <1>9, NoCommits
  <1>11. /\ made' \in Seq(Mades) /\ Match(made', log') /\ Names(made', res'.commits)
         /\ By(made') = {}
    BY <1>6, <1>8, <1>9, <1>10
  <1>12. Knows(made', log', res'.commits) /\ Kept(c)'
    BY <1>8, <1>9, <1>11 DEF Knows, Kept
  <1>13. QED BY <1>8, <1>9, <1>12 DEF CommitInv

\* The commit of a repository that becomes a module is not a task's.
LEMMA InitialCommitInv ==
  ASSUME IInv, LogInv, CommitInv, InitialCommit
  PROVE  CommitInv'
  <1>1. CASE Fail
    BY <1>1, FailCommitInv DEF InitialCommit, Goto
  <1>2. CASE /\ Goto("initialCommit", "initialPush") /\ CommitAll(byRunner)
             /\ UNCHANGED <<index, files, coverage, res, log, finished>>
    <2>1. PICK x : x = [by |-> byRunner, files |-> ChangedFiles]
      OBVIOUS
    <2>2. x \in Mades /\ x.by = byRunner
      <3>1. byRunner \in Makers
        BY DEF Makers
      <3>2. ChangedFiles \in SUBSET Paths
        BY DEF ChangedFiles, Diff
      <3>3. QED BY <2>1, <3>1, <3>2 DEF Mades
    <2>3. PICK mm, o, c : Knows(mm, log, c) /\ made = mm /\ o = made' /\ c = res.commits
      BY <1>2 DEF CommitInv, Kept, Goto
    <2>4. o = Append(mm, x)
      BY <1>2, <2>1, <2>3 DEF CommitAll
    <2>5. Knows(o, log, c)
      <3>1. /\ mm \in Seq(Mades) /\ Match(mm, log) /\ Names(mm, c)
            /\ c = <<>> <=> By(mm) = {}
        BY <2>3 DEF Knows
      <3>2. o \in Seq(Mades) /\ Match(o, log) /\ Names(o, c) /\ By(o) = By(mm)
        BY <2>2, <2>4, <3>1, MadeQuietly
      <3>3. QED BY <3>1, <3>2 DEF Knows
    <2>6. ~finished /\ ~res.pushed /\ pc' = "initialPush"
      BY <1>2 DEF IInv, ReportInv, Goto
    <2>7. Kept(o)'
      BY <2>3, <2>6 DEF Kept
    <2>8. Knows(o, log', res'.commits)
      BY <1>2, <2>3, <2>5
    <2>9. QED BY <1>2, <2>6, <2>7, <2>8 DEF CommitInv
  <1>3. QED BY <1>1, <1>2 DEF InitialCommit

\* A call that succeeds has pushed exactly if a task has committed.
LEMMA FinishCommitInv ==
  ASSUME IInv, LogInv, CommitInv, pc \in {"push", "pushed"}, NEW p \in BOOLEAN, NEW event,
         \/ event = <<>> /\ ~p /\ res.commits = <<>>
         \/ event = <<ofRepo("repo_pushed")>> /\ p /\ res.commits # <<>> /\ unpushed' = <<>>,
         Finish(p, event)
  PROVE  CommitInv'
  <1>1. PICK f : f = done("push", index)
    OBVIOUS
  <1>2. PICK d : d = ofRepo("repo_done")
    OBVIOUS
  <1>3. PICK b : b = ofRepo("repo_pushed")
    OBVIOUS
  <1>4. PICK l : l = log \o event
    OBVIOUS
  <1>5. f \in Evs /\ ~f.committed
    <2>1. index = Count /\ index \in Nat
      BY CountFacts DEF IInv, IndexInv
    <2>2. Label(index) = "push"
      BY <2>1, LabelFacts
    <2>3. pc # "idle"
      OBVIOUS
    <2>4. Says(f, "task_done", "push", index) /\ ~f.committed
      BY <1>1, <2>1, <2>2, <2>3, StepLabel, DoneSays, Zenon
    <2>5. QED BY <2>4 DEF Says
  <1>6. d \in Evs /\ ~d.committed /\ b \in Evs /\ ~b.committed
    BY <1>2, <1>3, RepoSays, Zenon
  <1>7. log \in Seq(Evs) /\ res \in Results
    BY DEF IInv, TypeOK, LogInv, InOrder, Results
  <1>8. l \in Seq(Evs) /\ \A mm : Match(mm, log) => Match(mm, l)
    <2>1. CASE event = <<>>
      BY <1>4, <1>5, <1>7, <2>1, ConcatFacts
    <2>2. CASE event = <<ofRepo("repo_pushed")>>
      <3>1. l = log \o <<b>>
        BY <1>3, <1>4, <2>2, Zenon
      <3>2. l = Append(log, b)
        BY <1>6, <1>7, <3>1, ConcatFacts
      <3>3. l \in Seq(Evs)
        BY <1>6, <1>7, <3>2
      <3>4. ASSUME NEW mm, Match(mm, log) PROVE Match(mm, l)
        BY <1>6, <1>7, <3>2, <3>4, MatchQuietly
      <3>5. QED BY <3>3, <3>4
    <2>3. QED BY <2>1, <2>2
  <1>9. \A mm : Match(mm, log) => Match(mm, log')
    <2>1. log' = l \o <<f, d>>
      BY <1>1, <1>2, <1>4, Zenon DEF Finish
    <2>2. QED BY <1>5, <1>6, <1>8, <2>1, MatchTwo
  <1>10. res'.commits = res.commits /\ res'.pushed = p
    <2>1. coverage \in Codes \cup {None}
      BY DEF IInv, TypeOK
    <2>2. QED BY <1>7, <2>1 DEF Finish, Results
  <1>11. pc' = "idle" /\ UNCHANGED made
    BY DEF Finish
  <1>12. QED BY <1>9, <1>10, <1>11, KeepCommitInv

LEMMA NextCommitInvariance ==
  ASSUME IInv, LogInv, CommitInv, [Next]_vars PROVE CommitInv'
  <1>1. CASE Begin
    BY <1>1, BeginCommitInv
  <1>2. CASE SetDescription \/ SetTopics \/ DiscardLocalChanges \/ HardReset \/ Clean
             \/ Recheck \/ Pull \/ GoModInit
    <2>1. /\ pc \in Preparing
          /\ (Quiet /\ pc' \in Preparing) \/ Fail
      BY <1>2 DEF SetDescription, SetTopics, DiscardLocalChanges, HardReset, Clean, Recheck,
                  Pull, GoModInit, Goto, Fail, Preparing
    <2>2. QED BY <2>1, FailCommitInv, SilentCommitInv DEF Quiet, Preparing
  <1>3. ASSUME pc \in {"isGoRepo", "initialPushed"}, NextStep(<<done("prepare", 1)>>),
               UNCHANGED <<res, finished, made>>
        PROVE  CommitInv'
    <2>1. PICK e : e = done("prepare", 1)
      OBVIOUS
    <2>2. index = 1 /\ index < Count
      BY <1>3, CountFacts DEF IInv, IndexInv, Preparing
    <2>3. Label(index) = "prepare"
      BY <2>2, LabelFacts
    <2>4. pc \notin {"idle", "committed"}
      BY <1>3
    <2>5. Says(e, "task_done", Label(index), index) /\ ~e.committed
      BY <2>1, <2>2, <2>3, <2>4, StepLabel, DoneSays, Zenon
    <2>6. e \in Evs
      BY <2>5 DEF Says
    <2>7. QED BY <1>3, <2>1, <2>2, <2>4, <2>5, <2>6, NextCommitInv
  <1>4. CASE IsGoRepo
    <2>1. CASE Fail
      BY <1>4, <2>1, FailCommitInv DEF IsGoRepo, Goto
    <2>2. CASE ~Fail
      BY <1>3, <1>4, <2>2, SilentCommitInv DEF IsGoRepo, Goto, Quiet
    <2>3. QED BY <2>1, <2>2
  <1>5. CASE InitialCommit
    BY <1>5, InitialCommitInv
  <1>6. CASE InitialPush \/ InitialPushReturns
    BY <1>3, <1>6, FailCommitInv, SilentCommitInv
       DEF InitialPush, InitialPushReturns, Goto, Quiet
  <1>7. CASE Test
    <2>1. pc = "test" /\ index = 2 /\ index < Count
      BY <1>7, CountFacts DEF Test, IInv, IndexInv
    <2>2. PICK e : e = done("test", 2)
      OBVIOUS
    <2>3. Label(index) = "test"
      BY <2>1, LabelFacts
    <2>4. pc \notin {"idle", "committed"}
      BY <2>1
    <2>5. Says(e, "task_done", Label(index), index) /\ ~e.committed
      BY <2>1, <2>2, <2>3, <2>4, StepLabel, DoneSays, Zenon
    <2>6. e \in Evs
      BY <2>5 DEF Says
    <2>7. Fail \/ (NextStep(<<e>>) /\ UNCHANGED <<res, finished, made>>)
      BY <1>7, <2>2 DEF Test
    <2>8. QED BY <2>1, <2>4, <2>5, <2>6, <2>7, FailCommitInv, NextCommitInv
  <1>8. CASE RunTask
    BY <1>8, FailCommitInv, SilentCommitInv DEF RunTask, Goto, Quiet
  <1>9. CASE GetChangedFiles
    <2>1. pc = "changedFiles" /\ index < Count /\ pc \notin {"idle", "committed"}
      BY <1>9, CountFacts DEF GetChangedFiles, IInv, IndexInv, Tasking
    <2>2. CASE Fail
      BY <2>1, <2>2, FailCommitInv
    <2>3. CASE /\ NextStep(<<done(Label(index), index)>>)
               /\ UNCHANGED <<files, coverage, res, finished, made>>
      <3>1. PICK e : e = done(Label(index), index)
        OBVIOUS
      <3>2. Says(e, "task_done", Label(index), index) /\ ~e.committed
        BY <2>1, <3>1, StepLabel, DoneSays, Zenon
      <3>3. e \in Evs
        BY <3>2 DEF Says
      <3>4. QED BY <2>1, <2>3, <3>1, <3>2, <3>3, NextCommitInv
    <2>4. CASE /\ files' = ChangedFiles
               /\ \/ log' = Append(log, within(Label(index), index))
                  \/ UNCHANGED log
               /\ pc' \in {"taskTest", "commit"}
               /\ UNCHANGED <<res, finished, made, repository>>
      <3>1. \A mm : Match(mm, log) => Match(mm, log')
        <4>1. PICK e : e = within(Label(index), index)
          OBVIOUS
        <4>2. Says(e, "task_start", Label(index), index) /\ ~e.committed
          BY <2>1, <4>1, StepLabel, StartSays, Zenon
        <4>3. log \in Seq(Evs) /\ e \in Evs
          BY <4>2 DEF LogInv, InOrder, Says
        <4>4. CASE log' = Append(log, e)
          BY <4>2, <4>3, <4>4, MatchQuietly
        <4>5. QED BY <2>4, <4>1, <4>3, <4>4
      <3>2. ~finished /\ ~res.pushed /\ ChangedFiles' = ChangedFiles
        BY <2>1, <2>4 DEF IInv, ReportInv, ChangedFiles, Top, repository
      <3>3. /\ UNCHANGED made /\ res'.commits = res.commits
            /\ pc \notin {"idle", "committed"} /\ pc' # "committed" /\ pc' # "pushed"
            /\ ~res'.pushed /\ ~finished'
        BY <2>1, <2>4, <3>2
      <3>4. files' = ChangedFiles'
        BY <2>4, <3>2
      <3>5. QED BY <3>1, <3>3, <3>4, KeepCommitInv
    <2>5. QED BY <1>9, <2>2, <2>3, <2>4 DEF GetChangedFiles
  <1>10. CASE TaskTest
    <2>1. pc = "taskTest" /\ pc # "idle"
      BY <1>10 DEF TaskTest
    <2>2. CASE Fail
      BY <2>1, <2>2, FailCommitInv
    <2>3. CASE /\ log' = Append(log, doneWithin(Label(index), index)) /\ pc' = "commit"
               /\ UNCHANGED <<files, res, finished, made>>
      <3>1. PICK e : e = doneWithin(Label(index), index)
        OBVIOUS
      <3>2. Says(e, "task_done", Label(index), index) /\ ~e.committed
        BY <2>1, <3>1, StepLabel, DoneSays, Zenon
      <3>3. log \in Seq(Evs) /\ e \in Evs
        BY <3>2 DEF LogInv, InOrder, Says
      <3>4. \A mm : Match(mm, log) => Match(mm, log')
        BY <2>3, <3>1, <3>2, <3>3, MatchQuietly
      <3>5. TestsWrite \/ files' = ChangedFiles'
        <4>1. TestsWrite \/ worktree' = worktree
          BY <1>10, AfterTestFacts DEF TaskTest, IInv
        <4>2. TestsWrite \/ files = ChangedFiles
          BY <2>1 DEF CommitInv
        <4>3. UNCHANGED <<base, unpushed>>
          BY <1>10 DEF TaskTest
        <4>4. QED BY <2>3, <4>1, <4>2, <4>3 DEF ChangedFiles, Top
      <3>6. ~finished /\ ~res.pushed
        BY <2>1 DEF IInv, ReportInv
      <3>7. /\ UNCHANGED made /\ res'.commits = res.commits
            /\ pc \notin {"idle", "committed"} /\ pc' # "committed" /\ pc' # "pushed"
            /\ ~res'.pushed /\ ~finished'
        BY <2>1, <2>3, <3>6
      <3>8. QED BY <3>4, <3>5, <3>7, KeepCommitInv
    <2>4. QED BY <1>10, <2>2, <2>3 DEF TaskTest
  <1>11. CASE Commit
    BY <1>11, FailCommitInv, MadeCommitInv DEF Commit, Goto
  <1>12. CASE CommitReturns
    BY <1>12, FailCommitInv, CommitCommitInv DEF CommitReturns
  <1>13. CASE NothingToPush \/ Push \/ PushReturns
    <2>1. pc \in {"push", "pushed"}
      BY <1>13 DEF NothingToPush, Push, PushReturns, Goto
    <2>2. CASE Fail
      BY <2>1, <2>2, FailCommitInv
    <2>3. CASE NothingToPush
      <3>1. PICK p \in BOOLEAN : p = FALSE
        OBVIOUS
      <3>2. Finish(p, <<>>) /\ ~p /\ res.commits = <<>>
        BY <2>3, <3>1, Zenon DEF NothingToPush
      <3>3. QED BY <2>1, <3>2, FinishCommitInv
    <2>4. CASE /\ res.commits # <<>> /\ Publish
               /\ Goto("push", "pushed") /\ Quiet
      <3>1. ~finished /\ ~res.pushed /\ unpushed' = <<>>
        BY <2>4 DEF IInv, ReportInv, Goto, Publish
      <3>2. \A mm : Match(mm, log) => Match(mm, log')
        BY <2>4 DEF Quiet
      <3>3. QED BY <2>4, <3>1, <3>2, KeepCommitInv DEF Goto, Quiet
    <2>5. CASE pc = "pushed" /\ Finish(TRUE, <<ofRepo("repo_pushed")>>)
               /\ UNCHANGED repository
      <3>1. PICK p \in BOOLEAN : p = TRUE
        OBVIOUS
      <3>2. PICK event : event = <<ofRepo("repo_pushed")>>
        OBVIOUS
      <3>3. Finish(p, event) /\ p
        BY <2>5, <3>1, <3>2, Zenon
      <3>4. unpushed' = <<>> /\ res.commits # <<>>
        BY <2>5 DEF CommitInv, repository
      <3>5. QED BY <2>1, <3>2, <3>3, <3>4, FinishCommitInv
    <2>6. QED BY <1>13, <2>2, <2>3, <2>4, <2>5 DEF Push, PushReturns
  <1>14. CASE Crash \/ Other \/ Rest \/ UNCHANGED vars
    <2>1. UNCHANGED <<log, made, index, finished, res, files, worktree, base, unpushed>>
      BY <1>14 DEF Crash, Other, Rest, vars, progress, repository
    <2>2. /\ \A mm : Match(mm, log) => Match(mm, log')
          /\ res.pushed => unpushed = <<>>
          /\ pc = "pushed" => unpushed = <<>> /\ res.commits # <<>>
          /\ finished /\ ~res.err => (res.pushed <=> res.commits # <<>>)
          /\ pc \in {"taskTest", "commit"} => TestsWrite \/ files = ChangedFiles
      BY <2>1 DEF CommitInv
    <2>3. ChangedFiles' = ChangedFiles
      BY <2>1 DEF ChangedFiles, Top
    <2>4. CASE pc' = pc
      BY <2>1, <2>2, <2>3, <2>4, KeepCommitInv
    <2>5. CASE Crash
      <3>1. pc # "idle" /\ pc' = "idle" /\ ~finished'
        BY <2>5 DEF IInv, ReportInv, Crash
      <3>2. pc = "committed" => Label(index) # byRunner
        BY NotTheRunners DEF IInv, IndexInv, Tasking
      <3>3. QED BY <2>1, <2>2, <3>1, <3>2, KeepCommitInv
    <2>6. QED BY <1>14, <2>4, <2>5 DEF Other, Rest, vars, progress
  <1>15. QED
    BY <1>1, <1>2, <1>4, <1>5, <1>6, <1>7, <1>8, <1>9, <1>10, <1>11, <1>12, <1>13,
       <1>14 DEF Next, Update

------------------------------------------------------------------------------
(* The Result is what happened.                                            *)

\* What the call knows of, among all it made.
LEMMA KnownFacts ==
  ASSUME IInv, CommitInv, NEW mm, Knows(mm, log, res.commits), Kept(mm),
         NEW K, K = By(mm), NEW M, M = ByTasks, NEW m, m = made
  PROVE  /\ \A n \in K : m[n] = mm[n] /\ Rank(M, n) = Rank(K, n)
         /\ Known = K
         /\ \/ M = K
            \/ /\ M \subseteq K \cup {Len(m)} /\ pc \in {"committed", "idle"}
               /\ finished => res.err \/ pc = "committed"
  <1>1. mm \in Seq(Mades) /\ Cardinality(Told(log)) = Cardinality(K)
    BY DEF Knows, Match
  <1>2. M = By(m) /\ Known = {n \in M : Rank(M, n) <= Cardinality(K)}
    BY <1>1 DEF Known, ByTasks, By, CommittedAt, Told
  <1>3. CASE m = mm
    <2>1. K \in SUBSET (DOMAIN mm) /\ M = K
      BY <1>2, <1>3 DEF By
    <2>2. IsFiniteSet(K) /\ K \in SUBSET Nat /\ \A n \in K : n < Len(mm) + 1
      BY <1>1, <2>1, PositionsFinite
    <2>3. PICK p, K2 : p = Len(mm) + 1 /\ K2 = K \cup {p}
      OBVIOUS
    <2>4. p \in Nat
      BY <1>1, <2>3
    <2>5. ASSUME NEW n \in K PROVE Rank(K, n) <= Cardinality(K)
      <3>1. Rank(K, n) \in 1 .. Cardinality(K)
        BY <2>2, <2>3, <2>4, RankKept
      <3>2. Cardinality(K) \in Nat
        BY <2>2, FS_CardinalityType
      <3>3. QED BY <3>1, <3>2
    <2>6. QED BY <1>2, <1>3, <2>1, <2>5
  <1>4. CASE m # mm
    <2>1. PICK x \in Mades : x.by # byRunner /\ Adds(mm, x, m)
      <3>1. CASE pc = "committed"
        <4>1. Label(index) # byRunner
          BY <3>1, NotTheRunners DEF IInv, IndexInv, Tasking
        <4>2. QED BY <3>1, <4>1 DEF Kept, Hears
      <3>2. CASE pc # "committed"
        BY <1>4, <3>2 DEF Kept, Unheard
      <3>3. QED BY <3>1, <3>2
    <2>2. pc \in {"committed", "idle"} /\ (finished => res.err \/ pc = "committed")
      BY <1>4 DEF Kept
    <2>3. PICK p : p = Len(mm) + 1
      OBVIOUS
    <2>4. /\ \A n \in K : m[n] = mm[n] /\ Rank(M, n) = Rank(K, n)
          /\ \A n \in K : Rank(K, n) \in 1 .. Cardinality(K)
          /\ M = K \cup {p} /\ Cardinality(K) \in Nat
          /\ Rank(M, p) = Cardinality(K) + 1
      BY <1>1, <1>2, <2>1, <2>3, ByGrows
    <2>5. Len(m) = p
      BY <1>1, <2>1, <2>3 DEF Adds
    <2>6. Known = K
      <3>1. PICK r : r = [n \in M |-> Rank(M, n)]
        OBVIOUS
      <3>2. /\ \A n \in K : r[n] \in 1 .. Cardinality(K)
            /\ r[p] = Cardinality(K) + 1
        BY <2>4, <3>1
      <3>3. Known = {n \in M : r[n] <= Cardinality(K)}
        BY <1>2, <3>1
      <3>4. p \notin {n \in M : r[n] <= Cardinality(K)}
        BY <2>4, <3>2
      <3>5. \A n \in K : r[n] <= Cardinality(K)
        BY <2>4, <3>2
      <3>6. QED BY <2>4, <3>3, <3>4, <3>5
    <2>7. QED BY <2>2, <2>4, <2>5, <2>6
  <1>5. QED BY <1>3, <1>4

LEMMA CommitInvResultAccurate ==
  ASSUME IInv, CommitInv, ~TestsWrite PROVE ResultAccurate
  <1>1. PICK mm : Knows(mm, log, res.commits) /\ Kept(mm)
    BY DEF CommitInv
  <1>2. PICK K, M, m : K = By(mm) /\ M = ByTasks /\ m = made
    OBVIOUS
  <1>3. /\ \A n \in K : m[n] = mm[n] /\ Rank(M, n) = Rank(K, n)
        /\ Known = K
        /\ \/ M = K
           \/ /\ M \subseteq K \cup {Len(m)} /\ pc \in {"committed", "idle"}
              /\ finished => res.err \/ pc = "committed"
    BY <1>1, <1>2, KnownFacts
  <1>4. \E ends \in [0 .. Cardinality(Known) -> 0 .. Len(res.commits)] : Named(ends)
    <2>1. PICK ends \in [0 .. Cardinality(K) -> 0 .. Len(res.commits)] :
              Cut(mm, res.commits, ends)
      BY <1>1, <1>2 DEF Knows, Names
    <2>2. Named(ends)
      BY <1>2, <1>3, <2>1 DEF Cut, Named
    <2>3. QED BY <1>3, <2>2
  <1>5. Told(log) = CommittedAt
    BY DEF Told, CommittedAt
  <1>6. /\ Cardinality(CommittedAt) = Cardinality(Known)
        /\ \A a \in Known, n \in CommittedAt :
              Rank(ByTasks, a) = Rank(CommittedAt, n) =>
                  log[n].task = made[a].by /\ log[n].files = made[a].files
    BY <1>1, <1>2, <1>3, <1>5 DEF Knows, Match
  <1>7. \A a \in ByTasks \ Known :
           a = Len(made) /\ ~Succeeded /\ pc \in {"committed", "idle"}
    BY <1>2, <1>3 DEF Succeeded, Returned
  <1>8. res.pushed => unpushed = <<>>
    BY DEF CommitInv
  <1>9. Succeeded => (res.pushed <=> ByTasks # {})
    <2>1. Succeeded => M = K
      BY <1>3 DEF Succeeded, Returned
    <2>2. Succeeded => (res.pushed <=> res.commits # <<>>)
      BY DEF CommitInv, Succeeded, Returned
    <2>3. res.commits = <<>> <=> K = {}
      BY <1>1, <1>2 DEF Knows
    <2>4. QED BY <1>2, <2>1, <2>2, <2>3
  <1>10. QED BY <1>4, <1>6, <1>7, <1>8, <1>9 DEF ResultAccurate

\* The Result and the stream tell of the commits that the tasks made, for any
\* tasks that describe themselves in any number of names.
THEOREM ResultIsWhatHappened == Spec => [](TestsWrite \/ ResultAccurate)
  <1>1. Init => LogInv /\ CommitInv
    BY InitLogInv, InitCommitInv
  <1>2. IInv /\ LogInv /\ CommitInv /\ [Next]_vars => LogInv' /\ CommitInv'
    BY NextLogInvariance, NextCommitInvariance
  <1>3. IInv /\ CommitInv => TestsWrite \/ ResultAccurate
    BY CommitInvResultAccurate
  <1>4. QED BY <1>1, <1>2, <1>3, Invariance, PTL DEF Spec
==============================================================================
