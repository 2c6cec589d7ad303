------------------------------- MODULE LintPool ------------------------------
(***************************************************************************)
(* Several Updates of one run, in the order of a graph, that share a       *)
(* Runner: its lint mutex, which Serialise holds around a task and         *)
(* TestCover around the tests of a repository that lints in its tests.     *)
(*                                                                         *)
(* Of an Update only the calls matter that may ask for the mutex: the      *)
(* test going in, and each task with the test after it.                    *)
(***************************************************************************)
EXTENDS Naturals, Sequences

CONSTANTS
    Repos,      \* the repositories
    Orders,     \* repository -> those it waits on, for each run looked at
    Sequences,  \* the task sequences a repository may be given
    NoOne       \* the holder of a free mutex

\* What a task is to the mutex: it does not lint, it is serialised, or it is
\* serialised and measures the coverage with TestCover.
Kinds == {"plain", "lint", "measure"}

ASSUME PoolAssumption ==
    /\ NoOne \notin Repos
    /\ Sequences \subseteq Seq(Kinds)

VARIABLES
    keys, waits, begun, finished, returned,     \* the order, see TopoOrder
    lintInTests,    \* repository -> Spec.LintInTests
    tasks,          \* repository -> its task sequence
    lint,           \* who holds the mutex
    pc,             \* repository -> what its goroutine does
    call,           \* repository -> the kind of the call it is at
    n               \* repository -> the tasks it has been through

Order == INSTANCE TopoOrder

order == <<keys, waits, begun, finished, returned>>
vars == <<order, lintInTests, tasks, lint, pc, call, n>>

Init ==
    /\ keys = Repos /\ waits \in Orders
    /\ Order!Init
    /\ lintInTests \in [Repos -> BOOLEAN]
    /\ tasks \in [Repos -> Sequences]
    /\ lint = NoOne
    /\ pc = [r \in Repos |-> "idle"]
    /\ call = [r \in Repos |-> "test"]
    /\ n = [r \in Repos |-> 0]

------------------------------------------------------------------------------
(* The mutex.                                                              *)

\* Mutant: TestCover does not look at the spec.
LocksAlways(r) == call[r] # "plain"

\* Mutant: only tasks are serialised.
LocksTasks(r) == call[r] \in {"lint", "measure"}

\* Whether the call of r is made with the mutex held.
Locks(r) == IF call[r] = "test" THEN lintInTests[r] ELSE call[r] # "plain"

Acquire(r) == lint = NoOne /\ lint' = r

Goto(r, from, to) == pc[r] = from /\ pc' = [pc EXCEPT ![r] = to]

------------------------------------------------------------------------------
(* One repository.                                                         *)

Begin(r) ==
    /\ Order!Begin(r)
    /\ Goto(r, "idle", "call")
    /\ UNCHANGED <<lintInTests, tasks, lint, call, n>>

\* The call begins; a goroutine that finds the mutex taken waits here.
Enter(r) ==
    /\ Goto(r, "call", "work")
    /\ IF Locks(r) THEN Acquire(r) ELSE UNCHANGED lint
    /\ UNCHANGED <<order, lintInTests, tasks, call, n>>

\* A task that measures the coverage calls TestCover, with the mutex held.
Measure(r) ==
    /\ call[r] = "measure" /\ Goto(r, "work", "measuring")
    /\ IF lintInTests[r] THEN Acquire(r) ELSE UNCHANGED lint
    /\ UNCHANGED <<order, lintInTests, tasks, call, n>>

Measured(r) ==
    /\ Goto(r, "measuring", "measured")
    /\ lint' = IF lintInTests[r] THEN NoOne ELSE lint
    /\ UNCHANGED <<order, lintInTests, tasks, call, n>>

\* The call is over: the tests of what a task changed come next, or the next
\* task, or nothing more.
Continue(r) ==
    \/ /\ call[r] # "test"
       /\ call' = [call EXCEPT ![r] = "test"]
       /\ pc' = [pc EXCEPT ![r] = "call"]
       /\ UNCHANGED n
    \/ /\ n[r] < Len(tasks[r])
       /\ n' = [n EXCEPT ![r] = @ + 1]
       /\ call' = [call EXCEPT ![r] = tasks[r][n'[r]]]
       /\ pc' = [pc EXCEPT ![r] = "call"]
    \/ /\ n[r] = Len(tasks[r])
       /\ pc' = [pc EXCEPT ![r] = "over"]
       /\ UNCHANGED <<call, n>>

\* What is running in the call returns.
Ended(r) == pc[r] = IF call[r] = "measure" THEN "measured" ELSE "work"

\* Mutant: the mutex is given up where the call succeeds only.
LeaveUnlessFailed(r) ==
    /\ Ended(r)
    /\ \/ lint' = (IF Locks(r) THEN NoOne ELSE lint) /\ Continue(r)
       \/ UNCHANGED <<lint, call, n>> /\ pc' = [pc EXCEPT ![r] = "over"]
    /\ UNCHANGED <<order, lintInTests, tasks>>

\* Mutant: a call that failed is made again.
LeaveRetries(r) ==
    /\ Ended(r)
    /\ lint' = IF Locks(r) THEN NoOne ELSE lint
    /\ Continue(r) \/ (pc' = [pc EXCEPT ![r] = "call"] /\ UNCHANGED <<call, n>>)
    /\ UNCHANGED <<order, lintInTests, tasks>>

\* The mutex is given up whether the call succeeds or fails; a failure is the
\* end of the repository's sequence.
Leave(r) ==
    /\ Ended(r)
    /\ lint' = IF Locks(r) THEN NoOne ELSE lint
    /\ Continue(r) \/ (pc' = [pc EXCEPT ![r] = "over"] /\ UNCHANGED <<call, n>>)
    /\ UNCHANGED <<order, lintInTests, tasks>>

\* Update returns, and the graph goes on to those that wait on r.
Finish(r) ==
    /\ Order!Finish(r)
    /\ Goto(r, "over", "idle")
    /\ UNCHANGED <<lintInTests, tasks, lint, call, n>>

Return ==
    /\ Order!Return
    /\ UNCHANGED <<lintInTests, tasks, lint, pc, call, n>>

Done == returned /\ UNCHANGED vars

Next ==
    \/ \E r \in Repos :
          \/ Begin(r) \/ Enter(r) \/ Measure(r) \/ Measured(r)
          \/ Leave(r) \/ Finish(r)
    \/ Return \/ Done

Spec == Init /\ [][Next]_vars

------------------------------------------------------------------------------
(* Fairness.                                                               *)

\* r is in a call that invokes the linter.
Linting(r) ==
    /\ pc[r] \in {"work", "measuring", "measured"}
    /\ call[r] # "plain"
    /\ call[r] = "test" => lintInTests[r]

\* The goroutine of r, but for the end of what the linter runs in.
Runs(r) == Begin(r) \/ Enter(r) \/ Measure(r) \/ Measured(r) \/ Finish(r)

FairSpec ==
    /\ Spec
    /\ \A r \in Repos :
          WF_vars(Runs(r)) /\ WF_vars(~Linting(r) /\ Leave(r))
    /\ WF_vars(Return)

LintersReturn == \A r \in Repos : WF_vars(Leave(r))

------------------------------------------------------------------------------
(* Properties.                                                             *)

TypeOK ==
    /\ keys = Repos /\ waits \in Orders
    /\ begun \subseteq Repos /\ finished \subseteq begun
    /\ returned \in BOOLEAN
    /\ lintInTests \in [Repos -> BOOLEAN]
    /\ tasks \in [Repos -> Sequences]
    /\ lint \in Repos \cup {NoOne}
    /\ pc \in [Repos -> {"idle", "call", "work", "measuring", "measured", "over"}]
    /\ call \in [Repos -> Kinds \cup {"test"}]
    /\ n \in [Repos -> Nat] /\ \A r \in Repos : n[r] <= Len(tasks[r])

\* However many repositories are maintained at once, and whether the linter
\* runs in a task or in their tests, at most one linter runs
\* (maintain.go:106-108, 126-127).
OneLinter ==
    \A r, s \in Repos : Linting(r) /\ Linting(s) => r = s

\* Whoever holds the mutex is linting, whatever calls failed before: no
\* repository keeps it past its call, let alone past its end.
HeldToLint == lint # NoOne => Linting(lint)

\* A repository whose serialised task asks for the mutex it holds, by testing a
\* repository that lints in its tests.
Nests(r) == lintInTests[r] /\ \E m \in DOMAIN tasks[r] : tasks[r][m] = "measure"

\* Nobody waits for ever: if every linter returns, the run returns, whatever
\* the graph, whoever lints and whatever fails; unless a serialised function
\* comes back to the mutex (line 114 says to use it "for anything that invokes
\* golangci-lint, directly or otherwise").
AllMaintained == LintersReturn /\ (\A r \in Repos : ~Nests(r)) => <>returned

NeverLints(r) ==
    ~lintInTests[r] /\ \A m \in DOMAIN tasks[r] : tasks[r][m] = "plain"

\* A linter that hangs, and a serialised function that waits for itself, hold
\* up those that lint and those that wait on them, and nobody else: it is the
\* linter that is serialised, not the run.
OthersGoOn ==
    \A r \in Repos :
        (\E U \in SUBSET Repos :
            r \in U /\ \A s \in U : NeverLints(s) /\ waits[s] \subseteq U)
        ~> (r \in finished)

==============================================================================
