# Verification of devtool-engine

TLA+ specifications of the `devtool-engine` packages: what `depgraph`,
`maintain`, `event` and `selfupdate` do, model-checked with TLC on small
instances, and theorems about them, checked by TLAPS for every instance.

All paths below are relative to the repository (`depgraph/depgraph.go`, ...).
The files here are modules, TLC configurations and `PROJECT.json`, which lists
the components, the runs, the source lines each definition stands for, the
hazards, the findings and the theorems.

    tlc -config MCGraphRun.cfg MCGraphRun      # one run
    tlapm GraphRun_proof.tla                   # one module's proofs

## 1. The system

| Component | Where | State it keeps | Operations |
|---|---|---|---|
| dependency graph | `depgraph/depgraph.go` `New`, `findCycle` | keys, dependents, inDegree; while building: remaining, queue, drained | build a graph, reject cycles |
| parallel run | `depgraph/depgraph.go` `Run` | remaining (under a mutex), a WaitGroup, a buffered channel, one goroutine per started key | process every key in dependency order |
| runner | `maintain/maintain.go` `Update`, `prepare`, `apply`, `relevant` | the `Result`, the step counter, the coverage last measured | bring one repository up to standard |
| repository | `maintain/repo.go` | worktree, local commits, remote (behind the `Repo` interface) | discard local changes, initialise a module |
| lint serialisation | `maintain/maintain.go` `Serialise`, `TestCover` | the lint mutex of the shared `Runner` | run a linting task, test a repository that lints in its tests |
| event stream | `event/event.go` `Emit`, `Write`, `Read`, `decode` | the writer's mutex, the byte stream, the reader's stray count | emit, write a line, read the lines back |
| board | `event/result.go` `NewBoard`, `Set`, `Apply`, `Results` | rows in a fixed order, an index by key | record results, from a run or from its events |
| module changes | `maintain/modules.go` | none | compare two go.mod files, collapse `vendor/` |
| repository dependencies | `maintain/deps.go` | none | sort requirements into maintained and unmaintained repositories |
| lint configuration | `maintain/lint.go` | files of a worktree | leave one linter configuration |
| self-update | `selfupdate/selfupdate.go` | an installed binary, seen through the go toolchain | resolve the latest version, install it, find what shadows it |

How they interact. A caller builds a graph over the repositories with `New`
from the edges `RepoDeps` gives it, and calls `Run` with `Runner.Update` as the
work of a key: several `Update`s run at once and share one `Runner`, hence one
lint mutex. `Update` calls the repository through the `Repo` interface and emits
events through `Emit`; the writer serialises them into a stream, a reader in
another process decodes them and applies them to a board. `Update` also returns
a `Result`, which a board in the same process takes directly.

What is hard.

- *Concurrency* is in `Run` (goroutines that register their successors while the
  caller already waits, a map guarded by a lock only from a certain moment on, a
  channel that is read only after every sender is done), in the lint mutex
  (not reentrant), in the writer and in the board.
- *Crashes, failures and repetition* are in `Update`: every call on the
  repository can fail, the process can be killed at any point, the clone
  survives it, somebody else pushes meanwhile, and `Update` is called again.
- *Order and loss* are in the event stream: what is written is what a process
  emitted, perhaps cut short, and the board has to make sense of it.
- *Staleness* is in `apply` (files read before the test and used after it,
  coverage kept from an earlier measurement) and in `selfupdate` (a version
  compared and installed later, a proxy that answers with an old one).

What makes each component correct is listed with the properties below;
`PROJECT.json` lists the hazards at their lines, with the properties that would
catch each of them going wrong, and a note where none does yet.

## 2. Plan

| | Modules | Composes | Abstract specification | Theorems |
|---|---|---|---|---|
| done | `DependencyGraph`, `GraphNew` | | reachability, as a definition | invariant of Kahn's algorithm, exact acceptance, the edges, the stuck keys |
| done | `TopoOrder`, `GraphRun` | `DependencyGraph` | `TopoOrder` | invariant of `Run`, its promises, refinement |
| done | `Runner`, `Upkeep` | | `Upkeep` | the clone's invariant, `NoDamage`, `StartsClean`, `CoverageOfHead`, refinement; the invariants of the log and of the commits, `StepsInOrder`, `ResultAccurate` |
| done | `LintPool` | `TopoOrder` | | one linter at a time, the mutex never kept |
| done | `Board`, `Report`, `EventStream` | `Board` | `Report` | the invariant of the stream, all its safety properties, refinement |
| done | `SelfUpdate` | | | `OutcomeTrue`, `Pinned`, `DirectFresh`, `SaysWhatRuns` |
| done | `RepoDeps` | | the edges and gaps, as a definition | both exact |
| done | `ModuleChanges` | | the difference of two go.mod files, as a definition | what the two loops find, the files |

The order put first what everything else stands on (the order of the work) and
what changes repositories (`Update`); linting, reporting and self-update followed,
then the algorithms `Update` and its caller use. Every safety property that a run
checks is proved.

## 3. Modules

**`DependencyGraph`** is a `Graph` as a value: `dependents` lists, `inDegree`
counts. A *slot* `<<d, p>>` is position `p` in `dependents[d]`, that is, one
edge; a dependency named twice is two slots, in the code as here. `Acyclic` says
that every set of keys has one that waits on none of the set.

**`GraphNew`** is `New` with `findCycle`. `pc` names the loop under way: `edges`
(lines 46-57), `enqueue` (77-81), `drain` and `relax` (84-94), then `accepted` or
`rejected`. Each action is one iteration of a loop. A Go map without an entry
reads as the zero value, so `dependents` and `inDegree` are total here. The key
being drained stays at the head of `queue` until its dependents are visited; in
the code it is in the local `key`.

**`TopoOrder`** is what `Run` promises: keys begin and finish, a key begins once
and after everything it waits on has finished, and `Run` returns when all have.

**`GraphRun`** is `Run`. The calling goroutine is `main`, a key's goroutine is
`pc[k]`:

| action | code |
|---|---|
| `CollectReady`, `StartReady`, `Wait`, `Collect`, `Return` | lines 163-183, the calling goroutine, one loop iteration each |
| `Process`, `OnDone`, `Send` | 138, 140-142, 144 |
| `Lock`, `Unblock`, `Unlock` | 149, 152-156 (one dependent each), the deferred unlock |
| `Exit` | the `Done` that `wg.Go` defers |
| `Start` (an operator) | `wg.Go`: the counter goes up before the goroutine exists |

`process` is opaque: it takes a while and returns. `Send` has to find room in the
buffer, or the goroutine blocks. `RefinesTopoOrder` maps a started key to a begun
one and a key with a result in the channel or the slice to a finished one.

**`Runner`** is `Update` on one repository. `pc` is the call on the `Repo` or the
task that comes next; each call is an action that succeeds or fails as its
disjuncts say, together with all the code up to the next call, the events
included. The calls that commit and push are two: `Commit`, `InitialPush` and `Push` are
what git does, `CommitReturns`, `InitialPushReturns` and `PushReturns` what `Update` does
when it hears of it. Between the two the process may be killed, or the call fail for its
context, with the commit made or the remote changed all the same; so may those that set
the description and the topics. A tree has three parts that the runner can tell apart: `code` (on which
the tests pass or not, or which has no go.mod), `doc` (inert, but read by a
linter) and `art` (a file tests may write). `unpushed` are the local commits the
remote does not have, `moved` says that somebody else has pushed since the clone
last synchronised. `Crash` loses what is in memory and keeps the repository;
`Begin` is the next call. `log` is the stream of the latest call, `made` the
commits it made (a history variable). Modelled from their use and marked
external: git (`Top`, `ChangedFiles`, `CommitAll`, `Publish`), `go test`
(`Passes`, `AfterTest`), the kill, and the pushes of others.

**`Board`** is `event.Board` as a value with the methods as functions (each holds the
board's mutex from its first line to its last), and `Event.Result`. A result is
reduced to its key, a failure message (`err`, `""` for none) and `data` for all the
fields that are merely copied. Keys are `Proper` or `Improper` (of a form that
`splitKey` refuses); a row keeps the position of its key, so that an improper one
leaves its position out.

**`EventStream`** is the writer, the pipe to another process and `Read`. Every
goroutine of `Procs` has a `Script`: the caller's is `run_start` and `run_done`, a
repository's `repo_start` and `repo_done` (its other events take the same way).
`Emit` is `Lock` (with the encoding), `Write` of one piece at a time, `WriteFails` and
`Unlock`. A line is three pieces, two halves of an object and the end of the line, so
that a failing or killed writer, or a tool writing to the same stream (`Stray`), can
spoil it anywhere; `Junk` is whatever is not part of an event, log lines of unknown
kind included. `Scan` and `ScanEnds` are the scanner's input, then one iteration of
the loop is `Empty`, `Deliver` or `Skip`, and `ReadReturns` ends it. The board on the
reader's side (`table`) is drawn as `TestBoardFromEventStreamGolden` does, `local` is
the one the run fills from its results. `dropped`, `torn` and `strays` are history
variables. External: the bytes and lines of the stream, the caller of `Update`, the
consumer, the kill.

**`Report`** is what a table drawn from events promises: a row is pending, then the
truth, and never changes again.

**`Upkeep`** is what `Update` promises to those who share a remote with it. It knows
nothing of worktrees, steps or tests: only which trees are sound, what the remote
holds, whether somebody has pushed that no call has taken in (`unseen`), whether a call
is under way and has delivered, and what the latest one reported. A call that returns or
dies may do so before or after it has delivered (`End`); only one that returns without
an error tells which. `Runner` refines it with `sound` as the trees that pass, `unseen` as
`moved`, `delivered` as the push of the call having arrived and not returned
(`pc = "pushed"`), and `result` as what the `Result` says of a call that returned
(`Reported`, `"none"` for one that was killed).

**`LintPool`** is the lint mutex of one `Runner` shared by the repositories of a run.
It composes `TopoOrder` (variables and actions of its instance `Order` are used as they
are: `Begin` and `Finish` of a repository are those of its key) with the calls of each
`Update` that may ask for the mutex, in the order `update` makes them: the test going
in, then each task and the test after it. `Serialise` around a task, and `TestCover`'s
own lock where the spec says `LintInTests`, are `Locks`; `Measure` is a serialised task
that calls `TestCover` itself. Both unlock by `defer`: `Leave` gives the mutex up
whether the call succeeds or fails.

**`SelfUpdate`** is `Updater.Update`, called by several processes of one binary on one
machine. Versions are numbered; a build is published, ahead of a published version and
behind the next (a prerelease, or a commit no tag names), local (`+dirty`, `(devel)`) or of
no version. `pc[p]` is the run of the toolchain that comes next: `resolve` is `Latest`
(175-204), `install` (211-223), `installed` the same when the version is in place and
the toolchain has not returned, `locate` the question for GOBIN and the search of
PATH. `InstallFails` may come in either of the two, as the context that ends `go install`
may do so when it has written. `wrote` and `since` are history variables. A setup is an `Updater` with its machine: PATH, links, what is installed, and the
environment's exemptions. Modelled from their use and marked external: the toolchain's
rules for GOPRIVATE, GONOPROXY and GONOSUMDB, the proxy's cache, PATH, pushes and the
developer's own builds.

**`RepoDeps`** is the function of that name, one action per requirement
(`Maintained`, `Unmaintained`, `Neither`). A module path is the sequence of its
elements; `Lower` is `strings.ToLower` on an element.

**`ModuleChanges`** is `modules.go` as `apply` uses it: go.mod is read, the task runs,
go.mod is read again, and the two readings are compared by the two loops of
`moduleChanges`, one action per iteration over a Go map, in any order. `Sort` is
`slices.Sort` and `slices.SortFunc`; in a Go map of requirements the last listing of a
module wins. The report is what is named and what is counted, not its wording. `unread` is a history variable.

**The `MC...` modules** give the constants their values.
Operators introduced by a comment `Mutant:` are the broken variants by which each
property was shown to be able to fail; `PROJECT.json` pairs them.

## 4. Runs

Times and numbers of states are of a two-core machine.

| run | what it shows | bounds |
|---|---|---|
| `graph_new` | `GraphHoldsDeps`: the lists and the counts hold exactly the edges asked for. `StuckIsTheCycle`: what is not drained is exactly what waits on a cycle, directly or not, with reachability defined independently. `AcceptsExactlyAcyclic`. `Termination`. | 3 keys, every list of at most 2 dependencies each, out of the keys (itself included) and one outsider; and no keys. 184174 states, 13 s |
| `graph_run` | `DependencyOrder`, `StartedOnce`, `RaceFree`, `SendNeverBlocks`, `Complete`, `RefinesTopoOrder`, `Termination`, over all interleavings | every acyclic graph on 3 keys with at most 2 edges out of a key, a diamond, a fan-in with a repeated edge, a chain with shortcuts, 4 keys without edges, and no keys. 46784 states, 12 s |
| `runner` | `NoDamage`: no commit of a task that fails the tests can reach the remote, over runs. `StartsClean`: leftovers are never committed as a task's work. `CoverageOfHead`. `ResultAccurate`: result, stream and commits agree, but for the commit in which a call failed or was killed. `StepsInOrder`: the grammar of the stream. `Returns`. `RefinesUpkeep`: what the remote sees. | 2 calls, 1 push by someone else, 2 tasks, 4 states of the code, 2 of the documentation. 226142 states, 40 s |
| `lint_pool` | `OneLinter`: tasks and tests of all repositories included, at most one linter runs. `HeldToLint`: nobody keeps the mutex past its call. `AllMaintained`: if linters return, the run does. `OthersGoOn`: a linter that hangs holds up only those that lint and those that wait on them. | 3 repositories, side by side or one after another, that lint in their tests or not, each with a task of any kind that fails or not. 499922 states, 145 s |
| `event_stream` | `Faithful`: what is delivered was emitted, once and in order. `LossBounded`: how many events a failure, a stray piece or a kill can cost, and that nothing is lost without one, whatever the interleaving. `NoSilentLoss`. `TablesAgree`: the reader's board equals the run's but for rows whose `repo_done` is missing. `RefinesReport`. `RunEnds`: no trouble with the reporting keeps a run from ending. `ReadEnds`. | 2 repositories, 3 runs (a malformed key among the rows; a message too long; one that cannot be encoded, of a repository next to one that has no row), a pipe of 2 pieces, 1 stray line logged, 2 troubles of any kind. 507777 states, 100 s |
| `self_update` | `OutcomeTrue`: exactly one of error, reason and update; an update was made, a reason means that nothing was. `Pinned`: what is installed is what was compared. `DirectFresh`: who asks the repository itself installs, and takes itself to be on, nothing older than the latest version at its start. `SaysWhatRuns`: the next start finds what the outcome says it will. `Converges`: once nothing is pushed any more, what is started (or what is installed and shadowed) becomes the latest version and stays it, whatever two processes install over each other. | 2 processes that come and go, 2 versions and builds ahead of either, 1 build by hand, 23 machines. 283686 states, 120 s |
| `repo_deps` | `EdgesExact`: exactly the repositories of the set that are required, in whatever spelling, each once, spelt as the graph's keys are. `GapsExact`: exactly those of the set's owners outside it. | every list of at most 3 of 11 module paths against 4 sets. 22840 states, 1 s |
| `module_changes` | `SaysWhatMoved`: what is reported turns the old requirements into the new ones, in order, whatever order the maps are gone through; nothing where a side does not parse. `FilesExact`: every changed file is named or counted, once, `vendor/` for all under it. | 3 modules in 2 versions, every pair of go.mod files of at most 2 requirements, none and malformed ones included; 7 file lists around the limit. 606525 states, 13 s |
| `failure_comes_back`, `up_to_date`, `files_are_the_commits`, `named_once` | a disagreement between the code and its comments, see section 6 | as the run of the same module, `up_to_date` and `files_are_the_commits` on 1 or 2 calls |

Why the bounds are enough. Three keys with repeated, self and outside
dependencies show every shape of a 2- and 3-cycle, a key behind a cycle and one
beside it. The races of `Run` are between the caller, two predecessors and a
common successor: three keys have them all, four add two generations. The
theorems of section 5 hold for any number of keys. In `Runner`, one call leaves
something behind and the next meets it; a third can only meet what the second
could, and one push by someone else already makes the histories diverge. Two
tasks are one that commits before another fails, and an inert change before or
after a tested one. In `EventStream` two repositories and the caller are the three
writers that can meet at the mutex, two pieces of room make each of them wait for
the reader inside a line, and two troubles are the least that can spoil two
neighbouring lines in two ways; a third spoils a third line. In `LintPool` three
repositories are one that holds the mutex and two that wait, and the order with an
edge has one that cannot begin before another lints. In `SelfUpdate` a build ahead
of the first version, that version and the second are one that is installed, one that is
resolved and one that lands in between, and two processes are all that can install over
each other. In `RepoDeps` three requirements
are one repository twice with another between; `ModuleChanges` has at every position
one module that is new, gone, moved, unmoved or listed twice.

The modelled programs do stop: their last states step to themselves by the disjunct
`Done` (`Rest` in `Runner`), and deadlock is checked in every run but `lint_pool`. There
it is not, because the code does stop where a serialised task comes back to the mutex it
holds (section 6); that it stops nowhere else is what `AllMaintained` checks.

**Fairness.** `GraphNew` is one goroutine: `WF(Next)`. In `GraphRun` the caller
and each key's goroutine are weakly fair: the Go scheduler runs every runnable
goroutine, and a goroutine blocked on the mutex, the group or the channel is not
enabled. Weak fairness of `Lock` suffices because the calls with the mutex held
are finite and every key takes it once. `process` and `onDone` are assumed to
return. In `Runner`, `WF(Update)` says that each call on the repository returns
(with an error, if its context ends), and `WF(Begin)` that the caller goes on;
neither `Crash` nor `Other` is fair. In `EventStream` the goroutines of the run are
fair as in `GraphRun`, `Read` is one goroutine that goes on as long as it has input,
and `WF(Close)` says that the caller of `Read` gives up the stream once `Read` has
returned; without it a writer could wait in a full pipe for ever, with the mutex.
No trouble is fair. In `LintPool` a repository's goroutine is fair as in `GraphRun`, but
for the end of a call that lints: that linters return is the hypothesis `LintersReturn`
of `AllMaintained`, and `OthersGoOn` does without it. Weak fairness of `Enter` suffices,
as each repository asks for the mutex finitely often. In `SelfUpdate` the fairness is
about its users, and `Converges` is no stronger than that: the tool is started again
and again (`WF` of a process' next step), the proxy's cache expires (`WF(Refresh)`),
and an attempt made over and over gets through at last (`SF` of `Check`, `ResolveWorks`
and `InstallWorks`, which a failing network or a kill disables again and again).

## 5. Proofs

`GraphNew_proof` and `GraphRun_proof` begin with the facts on graphs and lists of keys
that they need: edges are finite, a list without repetition has as many positions as
keys, no key of an acyclic graph waits on itself, appending, taking the head and moving
from one list to another, and that an entry appended to a list is one more edge into its
key.

`GraphNew_proof` proves of `New`, for every set `Inputs` of lists of distinct keys
and their dependencies (`InputsAssumption`), the theorems `Invariance`,
`TypeCorrect` and `ExactAcceptance`: a graph is returned exactly when it is acyclic.
That it is acyclic and well formed is what the theorems about `Run` assume.

The argument. An edge is *pending* until the loop over its source's dependents has
passed it. `IInv` says that `remaining[x]` is the number of pending edges into `x`
and that the keys with none are those in the queue or drained (`DrainInv`), which
are disjoint and never repeated (`QueueInv`); that a drained key waits on drained
keys only and every set of them has one that waits on none of the set
(`DrainedInv`); and, before the drain, that the degrees count the edges entered so
far (`EdgesInv`) and the queue holds the prefix's keys with none (`EnqueueInv`). The
action with content is `Relax`: it takes exactly one edge from those pending, so
that the count was not zero and the dependent neither queued nor drained. At the
end an undrained key has a pending edge from an undrained key (`StuckWaitsOnStuck`),
so an acyclic graph has none.

`GraphIsTheDeps` needs an invariant of its own, `DepsInv`: there are as many edges
from `x` to `d` as the loop has passed entries `d` in the list of `x`, none if
`x = d`; only the iteration of the loop disturbs it, and it passes exactly one entry.
`StuckIsExact` compares what is left undrained with a definition that knows nothing of
degrees. That a drained key is behind no cycle follows from `DrainedInv`: the drained
keys of the cycle would have one that waits on none of them. That a stuck key is
behind one takes, of the stuck keys upstream of it, one with the fewest upstream of
itself (`StuckMeetsCycle`): it waits on a stuck key that has no fewer, hence the same.

`GraphRun_proof` proves of `Run`, for every set `Graphs` of well-formed acyclic
graphs (`GraphsAssumption`, what `New` leaves) and any mutex token that is no key
(`NoOneAssumption`), the theorems `Invariance`, `TypeCorrect`, `OrderKept`,
`StartedAtMostOnce`, `NoRace`, `NeverBlocks`, `HonestWait`, `ReturnsEverything`
and `Refinement`.

The argument. None of the properties is inductive: that a key is started once,
say, depends on the counts being right, and those on what each goroutine has
passed of its loop. `IInv` says so: an edge is *pending* until the goroutine of its
source has passed it; `remaining[k]` is the number of pending edges into `k`
(`RemainingInv`), and of the keys with none exactly those not yet taken up by the
caller are idle (`ReadyInv`); the group counts the goroutines under way
(`StartedInv`); the mutex is held by the one that unblocks (`LockInv`); what is
sent is what is past its send, without repetition and in order (`SentInv`). Each
action has a lemma. The two with content are `Pass`/`UnblockIInv` (passing an edge
takes one pending edge from one idle key, which is started exactly with its last)
and `NoneLeft` (when the group is at zero no key is idle: the set of idle keys would
have one that waits on none of them, whose predecessors are then gone, have passed
their edges, and would have started it). `NeverBlocks` is a pigeonhole: what is in
the channel are different keys and not the sender's. `Refinement` maps each step to
`Begin`, `Finish`, `Return` or a stutter.

`Runner_proof` proves of `Update`, for any tasks, specs and inert paths but the code
itself (`TasksAssumption`, `RepositoryAssumption`, `InertAssumption`; no task is called
what the runner calls its own commit, `LabelsAssumption`) and any number of calls, kills and pushes by others, `Invariance`, `TypeCorrect`, `DamageStays`
(`NoDamage`), `LeftoversDiscarded` and `CoverageIsOfHead` (`StartsClean` and
`CoverageOfHead`, where tests write no files), `KeepsUp` (`Update` implements `Upkeep`),
`StreamInOrder` (`StepsInOrder`) and `ResultIsWhatHappened` (`ResultAccurate`, where tests
write no files: where they do, the stream names other files, `FilesAreTheCommits`).

The argument. `NoDamage` speaks of commits that wait in the clone, so it rests on what
each step takes for granted of the clone. `IInv` says so: the worktree holds what is
committed where the code relies on it (`CleanInv`); from the test going in onwards the
head passes, and before a commit the worktree does (`PassInv`), which is where a change
judged inert is used: it leaves the code as it is, and a linter in the tests makes
nothing inert (`Irrelevant`); what the clone takes for the remote's head is that,
unless others pushed (`RemoteInv`); a repository without a module has no commits of its
own when it is given one (`InitialInv`, which needs `ModuleInv`: nobody commits a tree
without a module); nothing is reported before the end (`ReportInv`). A step that fails
ends the call with all of this (`FailIInv`), one that goes on hands the head to the next
(`NextIInv`). For `KeepsUp` only `Begin`, the pull, the two pushes, the kill and the
others' push can be seen, and how the call returns; every other step is a stutter. A step
that fails is `Return` whether it has delivered or not. That a call which reports a push
has delivered, and one which reports that there was nothing to push has not, is that the
two returns come from different places (`EndSeen`).

What is said rests on invariants of its own. `LogInv` is the grammar of the stream at
every step: started steps are numbered without gap and those before the current one have
ended (`Numbered`, `Closed`, `AllClosed`), a test inside a task lies between its step's two
events (`Nested`), nothing has failed and nothing has ended before the call has (`Open`),
and then the last two events are the failed or last step and `repo_done` (`Over`).
`CommitInv` ties the commits to what is said of them. Those the call has heard of are all
that were made but perhaps the last, which it is about to hear of, or failed or died
without (`Kept`); of these (`Knows`), the n-th event that tells of a
commit is that of the n-th commit a task made, with its files (`Match`); the names in the
`Result` can be cut into as many pieces, each what its task calls itself (`Names`), a task
having any number of names, none included; and until the commit the files read before
the test are the files changed, which is where tests that write files would break it.

`LintPool_proof` proves, for any repositories, order and task sequences
(`PoolAssumption`), `OneLinterAtATime` and `NeverKept`: a repository lints exactly while
it holds the mutex, and one that measures gets no further than to `TestCover` where that
wants the mutex, which is what keeps the second unlock from giving away another's lock.

`SelfUpdate_proof` proves, for any number of processes and machines
(`SetupsAssumption`, `BoundsAssumption`), `OutcomeIsTrue`, `PinnedVersion` and
`NeverStale` (`DirectFresh`). `At(p)` says what a process knows at each step: to get as far
as to install, its own build is no local one and another than the one resolved (`Worth`),
and where it goes direct the one resolved is no older than the latest at its start, which
its build is or is ahead of at most, as no build is of a version not yet pushed
(`Pushed`); and what was installed is what was resolved, also for a call that failed
thereafter. Pushes, builds by hand and the other processes disturb none of this. `SaysWhatStarts` adds to it that no step takes
an installed file away, touches the directory before it or moves the link (`FilesStep`), so
that what `locate` found of the place does not go stale (`SaysInv`; `NowhereAssumption`
keeps the empty path apart from the places).

`EventStream_proof` proves, for any repositories and runs (`ReposAssumption`,
`RunsAssumption`, `KeysAssumption`, `TextsAssumption`), capacity, limit of warnings
and number of troubles (`BoundsAssumption`), `TypeCorrect`, `WhatIsReadWasSaid`
(`Faithful`), `LossIsBounded` (`LossBounded`), `LossIsTold` (`NoSilentLoss`), `BoardsAgree`
(`TablesAgree`) and `TableIsAReport`: the reader's table implements `Report`.

The argument. Everything is said of what is still unread, the reader's buffer and the
pipe behind it as one sequence (`Unread`), because scanning a piece does not change it.
`IInv` says who writes: whoever has begun a line holds the mutex, and goroutines emit in
the order of the run (`WriterInv`); that what is delivered, and the lines still
unread, were emitted, once, and in order, each delivered before any unread (`OrderInv`);
that at the end of the input nothing is left and warnings count skips up to the limit
(`ReaderInv`); and that an event of which something was written was delivered, is unread
or cost a skipped line (`AccountInv`). `LossBounded` counts ahead of time: an emitted
event is *harmed* when no unread line of it is, or is going to be, whole on a line of its
own (`Intact`), and `Dirty` says that the next event will share its line with something.
`HarmInv` bounds the two together by the troubles so far. The steps with content are those
of a trouble, each of which harms at most as many events as it is counted for
(`WriteFails` the one being written, and the line it leaves unfinished the next), and
`Skip`, which has to show that what it throws away was harmed before. At the end
of the input nothing is unread, so what is missing was dropped or is harmed. `BoardInv`
says that a row shows what its repository's event said if that was delivered (on the
reader's side) or if its call has ended (on the run's side), and is untouched if not.

`RepoDeps_proof` proves, for any list of repositories no two of which differ in case only,
and any list of module paths (`ElementsAssumption`, `InputsAssumption`),
`EdgesAreExact` and `GapsAreExact`: each step considers one requirement more
(`AdvanceFacts`), and an entry is appended exactly when it is the first of its kind.

`ModuleChanges_proof` proves, for any go.mod files and file lists without repetition
(`RequirementsAssumption`, `FilesAssumption`), `TypeCorrect`, `MovesAreTheDifference`
(`SaysWhatMoved`) and `FilesAreExact` (`FilesExact`). What the sort returns follows from
counting: the places of the entries, how many come before each, are different and hence
all there are (`SortFacts`). What the loop of `collapseVendor` keeps is shown of its n-th
round from the round before, a least round at which it fails being absurd
(`FilterExists`, `KeptFacts`). `MoveInv` says that what is compared is what was read, and
that the changes so far are exactly the moves among the modules the loops have been
through (`Listing` of `Seen`), each once, so that it does not matter in which order; that
the second loop adds only what the first could not meet is where it is needed that no
requirement has an empty version.

The types are proved for every module. Only model-checked is liveness (`Termination` of
`GraphNew` and `GraphRun`, `Returns`, `RunEnds`, `ReadEnds`, `AllMaintained`,
`OthersGoOn`, `Converges`): fairness and ENABLED are beyond the prover.

## 6. Findings

Each of these is a run that violates one property; `PROJECT.json` quotes the line.

- `UpToDate`: commits that an interrupted or failed run left unpushed stay in the
  clone through successful runs that have nothing to commit; cleaning looks at the
  worktree, pushing at this run's commits.
- `FailureComesBack`: an event that cannot be encoded is dropped without a word. The
  encoder accepts only UTF-8, and the error of a failing repository quotes the output
  of its tests and tools: if that is not UTF-8 its `repo_done` (and the `task_done`
  that names the step) never reaches the stream, and the reader shows the
  repository as pending after the run has ended.
- `FilesAreTheCommits`: the files named in the stream are those before the test,
  the commit carries those after it.
- `NamedOnce`: a repository outside the set that is required in two spellings is
  reported twice, as only those of the set are compared without regard to case.

Modelling also settled the following. No run is spent on them, as each is read off one
path of an action; the models do what the code does.

- A failing test inside a task leaves `<task> → test` started and not done in the
  stream (maintain/maintain.go:406), against a test that calls such a start one "a
  reader would show as running for the rest of the run" (maintain/event_test.go:64-65).
  `StepsInOrder` says what a reader can rely on instead: the task's own end follows.
- The call that gives a repository its module goes on with the test and the tasks,
  though the comment says to "leave the rest to the next run"
  (maintain/maintain.go:345-353), and its first push is announced by no `RepoPushed`.
- `Serialise` is to be used "for anything that invokes golangci-lint, directly or
  otherwise" (maintain/maintain.go:114), but a serialised task that calls `TestCover`
  on a repository with `LintInTests` waits for itself, and all that lint with it:
  `Nests` in `LintPool`, which `AllMaintained` leaves out and `OthersGoOn` does not.
- A proxy that still answers with the version before makes `Update` install an older
  one (selfupdate/selfupdate.go:152); `DirectFresh` holds for those that go
  direct, and `Converges` says that it is made up for. The line asks whether the versions
  are equal, not which is newer: a build ahead of the latest version (a prerelease, or a
  commit installed by its hash where the repository has tags) is replaced by that older
  version, direct or not.
- An error of `Update` does not say that nothing was installed, nor one of `Runner.Update`
  that nothing was committed or pushed: a call whose context ends may have done its work.
- Whether a local build is replaced is asked of the build that runs (line 135), and
  `go install` writes to GOBIN: a published binary earlier on PATH replaces a local
  build there.
- Of a module path that ends in a major version, `name` (line 304) is that version,
  where `go install` builds the element before it; `SaysWhatRuns` is stated of
  outcomes that name the file written.
- A go.mod that is there and cannot be read counts as none (maintain/modules.go:26):
  all of the other side's requirements are then reported, where the tests ask for
  nothing on either side (maintain/modules_test.go:69-70). `SaysWhatMoved` leaves
  readings that failed (`unread`) out.

## 7. Not modelled

`GenLintfile` (maintain/lint.go) is a dozen lines of file operations in a row, without a
state of its own; that a task may fail half-way, and that what it left is discarded, is in
`Runner`. Left out for good: rendering (`RenderTable`, `notes`, `ErrorMessage`, the wording of
`describeChanges`, `Outcome.String`, `stderrOf`) and logging, which only lay out
text; `maintain/event.go`, which only renames; the vendored libraries. Of an event, its timestamp (stamped before the
writer's mutex is taken, and read by nobody); of `Emit`, the nil emitter, which does
nothing; that a process writing to a closed standard output may be ended by a
signal, where `EventStream` lets the write fail. In `Run`, the context is only handed on to
`process`, so cancellation has no action of its own, and a panic in `process`
ends the program. A process of `SelfUpdate` calls `Update` once and ends; one that
lives on and calls it again would compare with the build it was started from. A version
with other build metadata than `+dirty`, as `+incompatible` is, which `local` takes for a
local build (line 111), is no build of the model; nor is a binary that `go install` was
killed in the middle of copying.
Keys are assumed distinct, as the package comment's "set of node keys" asks.
