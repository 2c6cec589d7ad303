-------------------------------- MODULE Runner -------------------------------
(***************************************************************************)
(* Runner.Update of maintain/maintain.go on one repository, called again   *)
(* and again, by a process that may be killed at any step.                 *)
(*                                                                         *)
(* Every call the runner makes on the Repo interface and every Task.Run is *)
(* an action with its outcomes; what the runner does between two calls,    *)
(* emitting events included, belongs to the action of the first.           *)
(*                                                                         *)
(* A tree is what a checkout holds, as far as the runner can tell two of   *)
(* them apart: the code, the documentation, and a file that the tests may  *)
(* leave behind.                                                           *)
(***************************************************************************)
EXTENDS Naturals, Sequences, FiniteSets

CONSTANTS
    Tasks,      \* the labels of the task sequence
    Describe,   \* label -> the names Task.Describe answers, <<>> for none
    Specs,      \* the specs: description, topics, lintInTests
    None,       \* no description, no topics, no coverage yet
    Inert,      \* the paths the caller declares inert
    Codes,      \* states of the code, NoModule among them
    NoModule,   \* a repository without go.mod
    Healthy,    \* the states of the code whose tests pass
    Docs,       \* states of the documentation
    Lintable,   \* the states of the documentation the linter accepts
    TestsWrite, \* whether a test run may leave a file in the worktree
    MaxRuns,    \* bound: calls of Update
    MaxOthers   \* bound: pushes by someone else

Paths == {"code", "doc", "art"}

Trees == [code : Codes, doc : Docs, art : BOOLEAN]

ASSUME TasksAssumption ==
    /\ Tasks \in Seq(STRING)
    /\ \A n \in DOMAIN Tasks : Describe[Tasks[n]] \in Seq(STRING)

\* Who makes the commit of a repository that becomes a module.
byRunner == "initial commit"

\* A task is told from it by its label.
ASSUME LabelsAssumption == \A n \in DOMAIN Tasks : Tasks[n] # byRunner

ASSUME RepositoryAssumption ==
    /\ NoModule \in Codes
    /\ Healthy \subseteq Codes \ {NoModule}
    /\ Lintable \subseteq Docs
    /\ Inert \subseteq Paths
    /\ TestsWrite \in BOOLEAN
    /\ MaxRuns \in Nat /\ MaxOthers \in Nat

\* A caller declares inert what no test looks at: never the code.
ASSUME InertAssumption == "code" \notin Inert

VARIABLES
    spec,       \* the Spec the caller passes for the repository
    worktree,   \* the tree in the checkout
    base,       \* the tree of the last commit shared with the remote
    unpushed,   \* the local commits after it: tree, and who made them
    remote,     \* the tree of the remote's last commit
    moved,      \* whether someone else has pushed since the last sync
    host,       \* the description and the topics the host shows
    pc,         \* the call Update is about to make, "idle" outside
    index,      \* steps.index
    files,      \* the changed files apply has read
    coverage,   \* the coverage last measured
    res,        \* the Result of the latest call
    log,        \* the events of the latest call
    finished,   \* whether the latest call has returned
    made,       \* the commits the latest call has made (history)
    runs, others

repository == <<worktree, base, unpushed, remote, moved, host>>
progress == <<pc, index, files, coverage, res, log, finished, made>>
bounds == <<runs, others>>

vars == <<spec, repository, progress, bounds>>

Top == IF unpushed = <<>> THEN base ELSE unpushed[Len(unpushed)].tree

Diff(s, t) == {p \in Paths : s[p] # t[p]}

ChangedFiles == Diff(Top, worktree)

\* A repository whose tests run the linter fails on documentation, too.
Passes(tree) ==
    tree.code \in Healthy /\ (spec.lintInTests => tree.doc \in Lintable)

NoResult == [commits |-> <<>>, pushed |-> FALSE, coverage |-> None, err |-> FALSE]

Init ==
    /\ spec \in Specs
    /\ base \in {t \in Trees : ~t.art}
    /\ remote = base
    /\ worktree \in {base, [base EXCEPT !.art = TRUE]}
    /\ unpushed = <<>> /\ moved = FALSE
    /\ host = [description |-> None, topics |-> None]
    /\ pc = "idle" /\ index = 0 /\ files = {} /\ coverage = None
    /\ res = NoResult /\ log = <<>> /\ finished = FALSE /\ made = <<>>
    /\ runs = 0 /\ others = 0

------------------------------------------------------------------------------
(* The events.                                                             *)

Ev(kind, task, n) ==
    [kind |-> kind, task |-> task, index |-> n, inner |-> FALSE,
     committed |-> FALSE, files |-> {}, err |-> FALSE]

ofRepo(kind) == Ev(kind, "", 0)
start(label, n) == Ev("task_start", label, n)
done(label, n) == Ev("task_done", label, n)
within(label, n) == [start(label, n) EXCEPT !.inner = TRUE]
doneWithin(label, n) == [done(label, n) EXCEPT !.inner = TRUE]
committed(label, n, fs) == [done(label, n) EXCEPT !.committed = TRUE, !.files = fs]
failed(label, n) == [done(label, n) EXCEPT !.err = TRUE]

\* The steps beyond the tasks are preparing, the test going in, and the push.
Count == Len(Tasks) + 3

\* The labels of the steps by their index.
Label(n) ==
    CASE n = 1 -> "prepare"
      [] n = 2 -> "test"
      [] n \in 3 .. Len(Tasks) + 2 -> Tasks[n - 2]
      [] OTHER -> "push"

------------------------------------------------------------------------------
(* Moving on.                                                              *)

Goto(from, to) == pc = from /\ pc' = to

Quiet == UNCHANGED <<index, files, coverage, res, log, finished, made>>

\* The step under way is done, as event says, and the next one begins.
NextStep(event) ==
    /\ log' = log \o event \o <<start(Label(index + 1), index + 1)>>
    /\ index' = index + 1
    /\ pc' = CASE index' = 2 -> "test"
               [] index' \in 3 .. Len(Tasks) + 2 -> "run"
               [] OTHER -> "push"

\* Mutant: the step that failed is left open.
FailSilently ==
    /\ log' = Append(log, ofRepo("repo_done"))
    /\ res' = [res EXCEPT !.err = TRUE]
    /\ finished' = TRUE
    /\ pc' = "idle"
    /\ UNCHANGED <<index, files, coverage, made>>

\* Update returns with the error of the step under way.
Fail ==
    /\ log' = log \o <<failed(Label(index), index), ofRepo("repo_done")>>
    /\ res' = [res EXCEPT !.err = TRUE]
    /\ finished' = TRUE
    /\ pc' = "idle"
    /\ UNCHANGED <<index, files, coverage, made>>

------------------------------------------------------------------------------
(* Update begins: the result and the events are those of this call.        *)

Begin ==
    /\ runs < MaxRuns
    /\ Goto("idle", "description")
    /\ index' = 1
    /\ log' = <<ofRepo("repo_start"), start("prepare", 1)>>
    /\ res' = NoResult
    /\ coverage' = None /\ files' = {} /\ made' = <<>> /\ finished' = FALSE
    /\ runs' = runs + 1
    /\ UNCHANGED <<spec, repository, others>>

------------------------------------------------------------------------------
(* prepare.                                                                *)

SetDescription ==
    /\ \/ /\ Goto("description", "topics") /\ Quiet
          /\ host' = IF spec.description = None THEN host
                     ELSE [host EXCEPT !.description = spec.description]
       \/ /\ pc = "description" /\ spec.description # None
          /\ Fail
          /\ host' \in {host, [host EXCEPT !.description = spec.description]}
    /\ UNCHANGED <<spec, worktree, base, unpushed, remote, moved, bounds>>

SetTopics ==
    /\ \/ /\ Goto("topics", "discard") /\ Quiet
          /\ host' = IF spec.topics = None THEN host
                     ELSE [host EXCEPT !.topics = spec.topics]
       \/ /\ pc = "topics" /\ spec.topics # None
          /\ Fail
          /\ host' \in {host, [host EXCEPT !.topics = spec.topics]}
    /\ UNCHANGED <<spec, worktree, base, unpushed, remote, moved, bounds>>

\* Mutant: leftovers are not looked for.
DiscardNothing ==
    /\ Goto("discard", "pull") /\ Quiet
    /\ UNCHANGED <<spec, repository, bounds>>

DiscardLocalChanges ==
    /\ \/ Goto("discard", IF ChangedFiles = {} THEN "pull" ELSE "reset") /\ Quiet
       \/ pc = "discard" /\ Fail
    /\ UNCHANGED <<spec, repository, bounds>>

\* HardReset restores what is committed; a file git does not know stays.
HardReset ==
    /\ \/ /\ Goto("reset", "clean") /\ Quiet
          /\ worktree' = [Top EXCEPT !.art = @ \/ worktree.art]
       \/ pc = "reset" /\ Fail /\ UNCHANGED worktree
    /\ UNCHANGED <<spec, base, unpushed, remote, moved, host, bounds>>

\* Clean removes it, unless it cannot.
Clean ==
    /\ \/ /\ Goto("clean", "recheck") /\ Quiet
          /\ worktree' \in {worktree, [worktree EXCEPT !.art = Top.art]}
       \/ pc = "clean" /\ Fail /\ UNCHANGED worktree
    /\ UNCHANGED <<spec, base, unpushed, remote, moved, host, bounds>>

\* Mutant: reset again until the worktree is clean.
RecheckRetries ==
    /\ Goto("recheck", IF ChangedFiles = {} THEN "pull" ELSE "reset") /\ Quiet
    /\ UNCHANGED <<spec, repository, bounds>>

Recheck ==
    /\ \/ ChangedFiles = {} /\ Goto("recheck", "pull") /\ Quiet
       \/ pc = "recheck" /\ Fail
    /\ UNCHANGED <<spec, repository, bounds>>

\* Pull fast-forwards; it fails where the histories have diverged.
Pull ==
    /\ \/ /\ moved => unpushed = <<>>
          /\ Goto("pull", "isGoRepo") /\ Quiet
          /\ base' = IF moved THEN remote ELSE base
          /\ worktree' = IF moved THEN remote ELSE worktree
          /\ moved' = FALSE
       \/ pc = "pull" /\ Fail /\ UNCHANGED <<base, worktree, moved>>
    /\ UNCHANGED <<spec, unpushed, remote, host, bounds>>

IsGoRepo ==
    /\ \/ /\ pc = "isGoRepo" /\ worktree.code # NoModule
          /\ NextStep(<<done("prepare", 1)>>)
          /\ UNCHANGED <<files, coverage, res, finished, made>>
       \/ worktree.code = NoModule /\ Goto("isGoRepo", "modInit") /\ Quiet
       \/ pc = "isGoRepo" /\ Fail
    /\ UNCHANGED <<spec, repository, bounds>>

------------------------------------------------------------------------------
(* initGoModule.                                                           *)

\* A go.mod appears, and the tests of what is there pass or do not.
GoModInit ==
    /\ \/ /\ Goto("modInit", "initialCommit") /\ Quiet
          /\ \E c \in Codes \ {NoModule} : worktree' = [worktree EXCEPT !.code = c]
       \/ /\ pc = "modInit" /\ Fail
          /\ \E c \in Codes : worktree' = [worktree EXCEPT !.code = c]
    /\ UNCHANGED <<spec, base, unpushed, remote, moved, host, bounds>>

CommitAll(by) ==
    /\ unpushed' = Append(unpushed, [tree |-> worktree, by |-> by])
    /\ made' = Append(made, [by |-> by, files |-> ChangedFiles])

InitialCommit ==
    /\ \/ /\ Goto("initialCommit", "initialPush")
          /\ CommitAll(byRunner)
          /\ UNCHANGED <<index, files, coverage, res, log, finished>>
       \/ pc = "initialCommit" /\ Fail /\ UNCHANGED unpushed
    /\ UNCHANGED <<spec, worktree, base, remote, moved, host, bounds>>

\* The remote takes the local commits, if nobody has pushed meanwhile.
Publish ==
    /\ ~moved
    /\ remote' = Top /\ base' = Top
    /\ unpushed' = <<>>

InitialPush ==
    /\ \/ Publish /\ Goto("initialPush", "initialPushed") /\ Quiet
       \/ pc = "initialPush" /\ Fail /\ UNCHANGED <<remote, base, unpushed>>
    /\ UNCHANGED <<spec, worktree, moved, host, bounds>>

\* A push that has arrived may yet be reported as failed.
InitialPushReturns ==
    /\ pc = "initialPushed"
    /\ \/ /\ NextStep(<<done("prepare", 1)>>)
          /\ UNCHANGED <<files, coverage, res, finished, made>>
       \/ Fail
    /\ UNCHANGED <<spec, repository, bounds>>

------------------------------------------------------------------------------
(* The test going in, and the tasks.                                       *)

\* What a test run may leave in the worktree.
AfterTest ==
    {worktree} \cup (IF TestsWrite THEN {[worktree EXCEPT !.art = TRUE]} ELSE {})

\* GoTestCover succeeds on a tree whose tests pass, and fails on any other;
\* it may fail on every tree.
TestCover == Passes(worktree)

Test ==
    /\ pc = "test"
    /\ \/ /\ TestCover
          /\ coverage' = worktree.code
          /\ NextStep(<<done("test", 2)>>)
          /\ UNCHANGED <<files, res, finished, made>>
       \/ Fail
    /\ worktree' \in AfterTest
    /\ UNCHANGED <<spec, base, unpushed, remote, moved, host, bounds>>

\* A task leaves a Go repository a Go repository, and may fail half-way.
RunTask ==
    /\ (Goto("run", "changedFiles") /\ Quiet) \/ (pc = "run" /\ Fail)
    /\ \E c \in Codes \ {NoModule}, d \in Docs :
          worktree' = [worktree EXCEPT !.code = c, !.doc = d]
    /\ UNCHANGED <<spec, base, unpushed, remote, moved, host, bounds>>

\* Mutant: inert files are inert in a repository that lints in its tests, too.
relevantByPath(fs) == fs \ Inert # {}

\* Whether the changed files are worth testing over.
relevant(fs) == Inert = {} \/ spec.lintInTests \/ fs \ Inert # {}

GetChangedFiles ==
    /\ pc = "changedFiles"
    /\ \/ /\ ChangedFiles = {}
          /\ NextStep(<<done(Label(index), index)>>)
          /\ UNCHANGED <<files, coverage, res, finished, made>>
       \/ /\ ChangedFiles # {}
          /\ files' = ChangedFiles
          /\ IF relevant(ChangedFiles)
             THEN /\ pc' = "taskTest"
                  /\ log' = Append(log, within(Label(index), index))
             ELSE pc' = "commit" /\ UNCHANGED log
          /\ UNCHANGED <<index, coverage, res, finished, made>>
       \/ Fail
    /\ UNCHANGED <<spec, repository, bounds>>

\* Mutant: the coverage measured is not recorded.
TaskTestForgets ==
    /\ pc = "taskTest"
    /\ \/ /\ TestCover
          /\ pc' = "commit"
          /\ log' = Append(log, doneWithin(Label(index), index))
          /\ UNCHANGED <<index, files, coverage, res, finished, made>>
       \/ Fail
    /\ worktree' \in AfterTest
    /\ UNCHANGED <<spec, base, unpushed, remote, moved, host, bounds>>

TaskTest ==
    /\ pc = "taskTest"
    /\ \/ /\ TestCover
          /\ coverage' = worktree.code
          /\ pc' = "commit"
          /\ log' = Append(log, doneWithin(Label(index), index))
          /\ UNCHANGED <<index, files, res, finished, made>>
       \/ Fail
    /\ worktree' \in AfterTest
    /\ UNCHANGED <<spec, base, unpushed, remote, moved, host, bounds>>

\* Mutant: a task that describes nothing reports nothing.
describeNothing(label) == Describe[label]

\* What a commit of a task reports, its label at least.
describe(label) == IF Describe[label] # <<>> THEN Describe[label] ELSE <<label>>

Commit ==
    /\ \/ /\ Goto("commit", "committed")
          /\ CommitAll(Label(index))
          /\ UNCHANGED <<index, files, coverage, res, log, finished>>
       \/ pc = "commit" /\ Fail /\ UNCHANGED unpushed
    /\ UNCHANGED <<spec, worktree, base, remote, moved, host, bounds>>

\* A commit that was made may yet be reported as failed.
CommitReturns ==
    /\ pc = "committed"
    /\ \/ /\ res' = [res EXCEPT !.commits = @ \o describe(Label(index))]
          /\ NextStep(<<committed(Label(index), index, files)>>)
          /\ UNCHANGED <<files, coverage, finished, made>>
       \/ Fail
    /\ UNCHANGED <<spec, repository, bounds>>

------------------------------------------------------------------------------
(* The push, and the end of Update.                                        *)

Finish(pushed, event) ==
    /\ res' = [res EXCEPT !.pushed = pushed, !.coverage = coverage]
    /\ log' = log \o event \o <<done("push", index), ofRepo("repo_done")>>
    /\ finished' = TRUE
    /\ pc' = "idle"
    /\ UNCHANGED <<index, files, coverage, made>>

NothingToPush ==
    /\ pc = "push" /\ res.commits = <<>>
    /\ Finish(FALSE, <<>>)
    /\ UNCHANGED <<spec, repository, bounds>>

\* Mutant: the error of the push is not returned.
PushErrIgnored ==
    /\ res.commits # <<>>
    /\ Goto("push", "pushed") /\ Quiet
    /\ Publish \/ UNCHANGED <<remote, base, unpushed>>
    /\ UNCHANGED <<spec, worktree, moved, host, bounds>>

Push ==
    /\ res.commits # <<>>
    /\ \/ Publish /\ Goto("push", "pushed") /\ Quiet
       \/ pc = "push" /\ Fail /\ UNCHANGED <<remote, base, unpushed>>
    /\ UNCHANGED <<spec, worktree, moved, host, bounds>>

PushReturns ==
    /\ pc = "pushed"
    /\ Finish(TRUE, <<ofRepo("repo_pushed")>>) \/ Fail
    /\ UNCHANGED <<spec, repository, bounds>>

------------------------------------------------------------------------------
(* The environment.                                                        *)

\* The process is killed: what was in memory and the rest of the stream are
\* lost, the clone and the remote stay as they are, with whatever the call
\* under way has done to them.
Crash ==
    /\ pc # "idle"
    /\ pc' = "idle"
    /\ UNCHANGED <<spec, repository, index, files, coverage, res, log, finished,
                   made, bounds>>

\* Someone else pushes, a broken tree perhaps.
Other ==
    /\ others < MaxOthers
    /\ \E c \in Codes \ {NoModule}, d \in Docs :
          remote' = [remote EXCEPT !.code = c, !.doc = d]
    /\ moved' = TRUE
    /\ others' = others + 1
    /\ UNCHANGED <<spec, worktree, base, unpushed, host, progress, runs>>

\* No call is left within the bound.
Rest == pc = "idle" /\ runs = MaxRuns /\ UNCHANGED vars

Update ==
    \/ SetDescription \/ SetTopics
    \/ DiscardLocalChanges \/ HardReset \/ Clean \/ Recheck
    \/ Pull \/ IsGoRepo \/ GoModInit \/ InitialCommit
    \/ InitialPush \/ InitialPushReturns
    \/ Test \/ RunTask \/ GetChangedFiles \/ TaskTest \/ Commit \/ CommitReturns
    \/ NothingToPush \/ Push \/ PushReturns

Next == Begin \/ Update \/ Crash \/ Other \/ Rest

Spec == Init /\ [][Next]_vars

\* Every call on the repository returns, and the caller calls Update for as
\* long as the bound allows.
FairSpec == Spec /\ WF_vars(Update) /\ WF_vars(Begin)

------------------------------------------------------------------------------
(* Properties.                                                             *)

\* Who makes commits: the runner its first, and the tasks.
Makers == {byRunner} \cup {Tasks[n] : n \in DOMAIN Tasks}

Commits == [tree : Trees, by : Makers]

TypeOK ==
    /\ spec \in Specs
    /\ {worktree, base, remote} \subseteq Trees
    /\ unpushed \in Seq(Commits)
    /\ moved \in BOOLEAN /\ finished \in BOOLEAN
    /\ pc \in {"idle", "description", "topics", "discard", "reset", "clean",
               "recheck", "pull", "isGoRepo", "modInit", "initialCommit",
               "initialPush", "initialPushed", "test", "run", "changedFiles",
               "taskTest", "commit", "committed", "push", "pushed"}
    /\ index \in 0 .. Count
    /\ files \subseteq Paths
    /\ coverage \in Codes \cup {None}
    /\ res \in [commits : Seq(STRING), pushed : BOOLEAN,
                coverage : Codes \cup {None}, err : BOOLEAN]
    /\ runs \in 0 .. MaxRuns /\ others \in 0 .. MaxOthers

\* "Its damage is never pushed" (maintain.go:389-391), over any number of
\* runs: every commit of a task that can still reach the remote passes the
\* tests, although tests are skipped for inert files, although the test ran
\* before the commit, and although a commit may wait in the clone for the
\* push of a later run.
NoDamage ==
    \A n \in DOMAIN unpushed :
        unpushed[n].by # byRunner => Passes(unpushed[n].tree)

\* The worktree is what is committed whenever the runner pulls, tests what it
\* found, or lets a task run: what an earlier run or task left behind is
\* never committed as though this one did it (runner_test.go:105-106).
StartsClean ==
    pc \in {"pull", "isGoRepo", "test", "run"} => worktree = Top

Returned == pc = "idle" /\ finished

Succeeded == Returned /\ ~res.err

\* The coverage a run reports is that of the code it leaves, whichever test
\* measured it last, and none is reported for a run that failed
\* (maintain.go:275-279, 310).
CoverageOfHead ==
    /\ Succeeded => res.coverage = Top.code /\ worktree = Top
    /\ Returned /\ res.err => res.coverage = None

\* Where the commits are that tasks made in this call, the events that say
\* so, and which of them in order one is.
ByTasks == {n \in DOMAIN made : made[n].by # byRunner}

CommittedAt == {n \in DOMAIN log : log[n].committed}

Rank(S, n) == Cardinality({m \in S : m <= n})

\* The commits the stream tells of: the first ones.
Known == {n \in ByTasks : Rank(ByTasks, n) <= Cardinality(CommittedAt)}

\* The names of a Result, cut behind those of each commit.
Named(ends) ==
    /\ ends[0] = 0 /\ ends[Cardinality(Known)] = Len(res.commits)
    /\ \A n \in Known :
          LET k == Rank(ByTasks, n)
          IN  describe(made[n].by) = SubSeq(res.commits, ends[k - 1] + 1, ends[k])

\* The Result is what happened: it names, in order, every commit the tasks
\* made and no other, the stream says the same with the files each of them
\* carried, and a run that succeeded has pushed exactly if it made one.  Only
\* the commit in which a call failed or was killed may be missing from both.
ResultAccurate ==
    /\ \E ends \in [0 .. Cardinality(Known) -> 0 .. Len(res.commits)] : Named(ends)
    /\ Cardinality(CommittedAt) = Cardinality(Known)
    /\ \A m \in Known, n \in CommittedAt :
          Rank(ByTasks, m) = Rank(CommittedAt, n) =>
              log[n].task = made[m].by /\ log[n].files = made[m].files
    /\ \A m \in ByTasks \ Known :
          m = Len(made) /\ ~Succeeded /\ pc \in {"committed", "idle"}
    /\ res.pushed => unpushed = <<>>
    /\ Succeeded => (res.pushed <=> ByTasks # {})

Has(kind) == \E n \in DOMAIN log : log[n].kind = kind

\* The positions of the steps' own events, not of the tests inside them.
Outer(kind) == {n \in DOMAIN log : log[n].kind = kind /\ ~log[n].inner}

\* What a reader of the stream relies on: the steps are numbered without gap
\* up to a count that never moves, each ends before the next begins, the
\* test inside a task is followed by its end or by that of the task it fails, the
\* stream of a call that returns ends in one repo_done, all steps are done
\* when it succeeds, and when it fails exactly one step says so, the last one.
StepsInOrder ==
    /\ \A n \in Outer("task_start") :
          /\ log[n].index \in 1 .. Count /\ log[n].task = Label(log[n].index)
          /\ log[n].index = Cardinality({m \in Outer("task_start") : m <= n})
          /\ \A m \in Outer("task_start") :
                m > n => \E k \in Outer("task_done") :
                            /\ n < k /\ k < m
                            /\ log[k].index = log[n].index /\ ~log[k].err
    /\ \A n \in DOMAIN log :
          log[n].kind = "task_start" /\ log[n].inner /\ n < Len(log) =>
              log[n + 1] \in {doneWithin(log[n].task, log[n].index),
                             failed(log[n].task, log[n].index)}
    /\ Has("repo_done") <=> finished
    /\ \A n \in DOMAIN log : log[n].kind = "repo_done" => n = Len(log)
    /\ Has("repo_pushed") <=> res.pushed
    /\ finished =>
          LET last == log[Len(log) - 1]
              Errs == {n \in DOMAIN log : log[n].err}
          IN /\ last.kind = "task_done" /\ last.err = res.err
             /\ last.index = Cardinality(Outer("task_start"))
             /\ res.err => Errs = {Len(log) - 1}
             /\ ~res.err => Errs = {} /\ last.index = Count

\* A call that begins returns, unless the process dies: no path through the
\* steps leaves a repository under way for ever.
Returns == (pc # "idle") ~> (pc = "idle")

\* What the latest call reported, as far as it returned.
Reported ==
    CASE ~Returned -> "none"
      [] Returned /\ res.err -> "failed"
      [] Succeeded /\ res.pushed -> "pushed"
      [] Succeeded /\ ~res.pushed -> "unchanged"

U == INSTANCE Upkeep WITH
        Bare <- {t \in Trees : t.code = NoModule},
        sound <- {t \in Trees : Passes(t)},
        unseen <- moved,
        running <- pc # "idle",
        delivered <- pc = "pushed",
        result <- Reported

\* Seen from the remote, a call delivers at most once, as the last thing it
\* does, a tree that passes, and never over somebody else's push; and what it
\* reports is so, though a push that failed, and one that a kill cut short,
\* may have arrived (maintain.go:240-316, 389-391; repo.go:28-34).
RefinesUpkeep == U!Spec

------------------------------------------------------------------------------
(* What comments say and the code does not do.                             *)

\* discardLocalChanges undoes "anything an interrupted earlier run left
\* behind" (repo.go:67-68) and Update ends on "repository is up to date"
\* (maintain.go:312): after a call that succeeded, nothing is committed in
\* the clone that the remote does not have.
UpToDate == Succeeded => unpushed = <<>>

\* "Files are the paths the commit carried" (event.go:132): a commit named in
\* the stream changed the files it is said to have changed.
FilesAreTheCommits ==
    \A m \in ByTasks, n \in CommittedAt :
        Rank(ByTasks, m) = Rank(CommittedAt, n) => log[n].files = made[m].files
==============================================================================
