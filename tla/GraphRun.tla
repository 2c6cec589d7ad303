------------------------------- MODULE GraphRun ------------------------------
(***************************************************************************)
(* depgraph.Run: the calling goroutine, one goroutine for every key that   *)
(* has been started, the mutex that guards remaining, the WaitGroup and    *)
(* the buffered channel of results.  One action per step another goroutine *)
(* could observe.                                                          *)
(***************************************************************************)
EXTENDS DependencyGraph

CONSTANTS
    Names,      \* the strings keys are drawn from
    Graphs,     \* the graphs Run may be given, as New leaves them
    NoOne       \* the holder of a free mutex

ASSUME GraphsAssumption ==
    \A g \in Graphs :
        /\ g.keys \in Seq(Names)
        /\ WellFormed(g.keys, g.dependents, g.inDegree)
        /\ Acyclic(g.dependents)

ASSUME NoOneAssumption == NoOne \notin Names

VARIABLES
    keys, dependents, inDegree,     \* the graph, unchanged
    remaining,  \* key -> dependencies that have not finished
    mu,         \* who holds the mutex
    wg,         \* the WaitGroup's counter
    reported,   \* the keys onDone was called for
    results,    \* the channel's buffer, in the order of the sends
    closed,     \* whether the channel is closed
    collected,  \* the slice Run returns
    main,       \* the step of the calling goroutine
    ready,      \* the keys it starts itself
    i,          \* its position in keys, then in ready
    pc,         \* key -> the step of the key's goroutine
    pos,        \* key -> the position in its dependents
    started     \* key -> how often start was called with it

graph == <<keys, dependents, inDegree>>

vars == <<graph, remaining, mu, wg, reported, results, closed, collected,
          main, ready, i, pc, pos, started>>

Keys == KeySet(keys)

Init ==
    /\ \E g \in Graphs :
          keys = g.keys /\ dependents = g.dependents /\ inDegree = g.inDegree
    /\ remaining = inDegree
    /\ mu = NoOne
    /\ wg = 0
    /\ reported = {}
    /\ results = <<>>
    /\ closed = FALSE
    /\ collected = <<>>
    /\ main = "ready"
    /\ ready = <<>>
    /\ i = 1
    /\ pc = [k \in Keys |-> "idle"]
    /\ pos = [k \in Keys |-> 1]
    /\ started = [k \in Keys |-> 0]

\* The step a goroutine of key k moves to.
Goto(k, from, to) == pc[k] = from /\ pc' = [pc EXCEPT ![k] = to]

(***************************************************************************)
(* start(key): wg.Go registers the goroutine before it runs.  pc and pos   *)
(* are those of the latest goroutine of the key; StartedOnce says that     *)
(* there is no other.                                                      *)
(***************************************************************************)
Start(key) ==
    /\ wg' = wg + 1
    /\ started' = [started EXCEPT ![key] = @ + 1]

------------------------------------------------------------------------------
(* The calling goroutine.                                                  *)

\* Mutant: the ready keys are started while they are collected.
CollectReadyStarts ==
    /\ main = "ready" /\ i <= Len(keys)
    /\ IF remaining[keys[i]] = 0
       THEN Start(keys[i]) /\ pc' = [pc EXCEPT ![keys[i]] = "process"]
       ELSE UNCHANGED <<wg, started, pc>>
    /\ i' = i + 1
    /\ UNCHANGED <<graph, remaining, mu, reported, results, closed,
                   collected, main, ready, pos>>

CollectReady ==
    /\ main = "ready" /\ i <= Len(keys)
    /\ ready' = IF remaining[keys[i]] = 0 THEN Append(ready, keys[i]) ELSE ready
    /\ i' = i + 1
    /\ UNCHANGED <<graph, remaining, mu, wg, reported, results, closed,
                   collected, main, pc, pos, started>>

EndCollectReady ==
    /\ main = "ready" /\ i > Len(keys)
    /\ main' = "start"
    /\ i' = 1
    /\ UNCHANGED <<graph, remaining, mu, wg, reported, results, closed,
                   collected, ready, pc, pos, started>>

StartReady ==
    /\ main = "start" /\ i <= Len(ready)
    /\ Start(ready[i])
    /\ pc' = [pc EXCEPT ![ready[i]] = "process"]
    /\ i' = i + 1
    /\ UNCHANGED <<graph, remaining, mu, reported, results,
                   closed, collected, main, ready, pos>>

EndStartReady ==
    /\ main = "start" /\ i > Len(ready)
    /\ main' = "wait"
    /\ UNCHANGED <<graph, remaining, mu, wg, reported, results, closed, collected,
                   ready, i, pc, pos, started>>

\* wg.Wait() returns, and the channel is closed.
Wait ==
    /\ main = "wait" /\ wg = 0
    /\ main' = "collect"
    /\ closed' = TRUE
    /\ UNCHANGED <<graph, remaining, mu, wg, reported, results, collected,
                   ready, i, pc, pos, started>>

Collect ==
    /\ main = "collect" /\ results # <<>>
    /\ collected' = Append(collected, Head(results))
    /\ results' = Tail(results)
    /\ UNCHANGED <<graph, remaining, mu, wg, reported, closed, main,
                   ready, i, pc, pos, started>>

\* Mutant: the last result is left in the channel.
ReturnEarly ==
    /\ main = "collect" /\ Len(results) <= 1 /\ closed
    /\ main' = "returned"
    /\ UNCHANGED <<graph, remaining, mu, wg, reported, results, closed, collected,
                   ready, i, pc, pos, started>>

Return ==
    /\ main = "collect" /\ results = <<>> /\ closed
    /\ main' = "returned"
    /\ UNCHANGED <<graph, remaining, mu, wg, reported, results, closed, collected,
                   ready, i, pc, pos, started>>

------------------------------------------------------------------------------
(* The goroutine of key k.                                                 *)

\* process(ctx, key) returns.
Process(k) ==
    /\ Goto(k, "process", "onDone")
    /\ UNCHANGED <<graph, remaining, mu, wg, reported, results, closed, collected,
                   main, ready, i, pos, started>>

\* onDone(result) returns; where onDone is nil the step does nothing.
OnDone(k) ==
    /\ Goto(k, "onDone", "send")
    /\ reported' = reported \cup {k}
    /\ UNCHANGED <<graph, remaining, mu, wg, results, closed, collected,
                   main, ready, i, pos, started>>

\* Mutant: room for the ready keys only.
CanSendReady == Len(results) < Len(ready)

\* results <- result: the channel is made with room for len(g.keys).
CanSend == Len(results) < Len(keys)

Send(k) ==
    /\ CanSend
    /\ Goto(k, "send", "lock")
    /\ results' = Append(results, k)
    /\ UNCHANGED <<graph, remaining, mu, wg, reported, closed, collected,
                   main, ready, i, pos, started>>

\* Mutant: no mutex.
LockFree(k) ==
    /\ Goto(k, "lock", "unblock")
    /\ mu' = k
    /\ UNCHANGED <<graph, remaining, wg, reported, results, closed, collected,
                   main, ready, i, pos, started>>

Lock(k) ==
    /\ mu = NoOne
    /\ Goto(k, "lock", "unblock")
    /\ mu' = k
    /\ UNCHANGED <<graph, remaining, wg, reported, results, closed, collected,
                   main, ready, i, pos, started>>

\* Mutant: a dependent is started when one dependency is still missing.
UnblockEarly(k) ==
    /\ pc[k] = "unblock" /\ pos[k] <= Len(dependents[k])
    /\ LET dependent == dependents[k][pos[k]]
       IN /\ remaining' = [remaining EXCEPT ![dependent] = @ - 1]
          /\ IF remaining[dependent] = 2 \/ remaining'[dependent] = 0
             THEN /\ Start(dependent)
                  /\ pc' = [pc EXCEPT ![dependent] = "process"]
             ELSE UNCHANGED <<wg, started, pc>>
    /\ pos' = [pos EXCEPT ![k] = @ + 1]
    /\ UNCHANGED <<graph, mu, reported, results,
                   closed, collected, main, ready, i>>

\* Mutant: the last dependency waits, inside the lock, for the others.
UnblockSpins(k) ==
    /\ pc[k] = "unblock" /\ pos[k] <= Len(dependents[k])
    /\ LET dependent == dependents[k][pos[k]]
       IN IF remaining[dependent] > 1
          THEN UNCHANGED <<remaining, wg, started, pc, pos>>
          ELSE /\ remaining' = [remaining EXCEPT ![dependent] = 0]
               /\ Start(dependent)
               /\ pc' = [pc EXCEPT ![dependent] = "process"]
               /\ pos' = [pos EXCEPT ![k] = @ + 1]
    /\ UNCHANGED <<graph, mu, reported, results,
                   closed, collected, main, ready, i>>

\* Mutant: the loop ends before the last dependent.
UnblockShort(k) ==
    /\ pc[k] = "unblock" /\ pos[k] <= Len(dependents[k])
    /\ LET dependent == dependents[k][pos[k]]
       IN IF pos[k] = Len(dependents[k])
          THEN UNCHANGED <<remaining, wg, started, pc>>
          ELSE /\ remaining' = [remaining EXCEPT ![dependent] = @ - 1]
               /\ IF remaining'[dependent] = 0
                  THEN /\ Start(dependent)
                       /\ pc' = [pc EXCEPT ![dependent] = "process"]
                  ELSE UNCHANGED <<wg, started, pc>>
    /\ pos' = [pos EXCEPT ![k] = @ + 1]
    /\ UNCHANGED <<graph, mu, reported, results,
                   closed, collected, main, ready, i>>

\* One iteration over the dependents, inside the lock.
Unblock(k) ==
    /\ pc[k] = "unblock" /\ pos[k] <= Len(dependents[k])
    /\ LET dependent == dependents[k][pos[k]]
       IN /\ remaining' = [remaining EXCEPT ![dependent] = @ - 1]
          /\ IF remaining'[dependent] = 0
             THEN /\ Start(dependent)
                  /\ pc' = [pc EXCEPT ![dependent] = "process"]
             ELSE UNCHANGED <<wg, started, pc>>
    /\ pos' = [pos EXCEPT ![k] = @ + 1]
    /\ UNCHANGED <<graph, mu, reported, results,
                   closed, collected, main, ready, i>>

\* The deferred mu.Unlock().
Unlock(k) ==
    /\ pos[k] > Len(dependents[k])
    /\ Goto(k, "unblock", "exit")
    /\ mu' = NoOne
    /\ UNCHANGED <<graph, remaining, wg, reported, results, closed, collected,
                   main, ready, i, pos, started>>

\* wg.Go's deferred Done.
Exit(k) ==
    /\ Goto(k, "exit", "gone")
    /\ wg' = wg - 1
    /\ UNCHANGED <<graph, remaining, mu, reported, results, closed, collected,
                   main, ready, i, pos, started>>

------------------------------------------------------------------------------
Main ==
    \/ CollectReady \/ EndCollectReady \/ StartReady \/ EndStartReady
    \/ Wait \/ Collect \/ Return

Worker(k) ==
    \/ Process(k) \/ OnDone(k) \/ Send(k) \/ Lock(k)
    \/ Unblock(k) \/ Unlock(k) \/ Exit(k)

Done == main = "returned" /\ UNCHANGED vars

Next == Main \/ (\E k \in Keys : Worker(k)) \/ Done

Spec == Init /\ [][Next]_vars

(***************************************************************************)
(* The Go scheduler runs every goroutine that can take a step; process and *)
(* onDone are assumed to return.                                           *)
(***************************************************************************)
Fairness ==
    /\ WF_vars(Main)
    /\ \A k \in Names : WF_vars(k \in Keys /\ Worker(k))

FairSpec == Spec /\ Fairness

------------------------------------------------------------------------------
(* Properties.                                                             *)

Steps == {"idle", "process", "onDone", "send", "lock", "unblock", "exit", "gone"}

TypeOK ==
    /\ keys \in Seq(Names)
    /\ WellFormed(keys, dependents, inDegree) /\ Acyclic(dependents)
    /\ remaining \in [Keys -> Nat]
    /\ mu \in Keys \cup {NoOne}
    /\ wg \in Nat
    /\ reported \in SUBSET Keys
    /\ results \in Seq(Keys)
    /\ closed \in BOOLEAN
    /\ collected \in Seq(Keys)
    /\ main \in {"ready", "start", "wait", "collect", "returned"}
    /\ ready \in Seq(Keys)
    /\ i \in Nat \ {0}
    /\ pc \in [Keys -> Steps]
    /\ pos \in [Keys -> Nat \ {0}]
    /\ started \in [Keys -> Nat]

\* The results sent so far, in the order of the sends.
Sent == collected \o results

Delivered == KeySet(Sent)

\* A key is started only when everything it waits on has been processed, has
\* been reported to onDone ("before the keys it unblocks are started", line
\* 114) and has its result in the channel.
DependencyOrder ==
    \A k \in Keys :
        started[k] > 0 =>
            WaitsOn(dependents, k) \subseteq reported \cap Delivered

\* Run calls process once for every key: a key that the calling goroutine
\* and a predecessor, or two predecessors, both find ready is started by one
\* of them only.
StartedOnce == \A k \in Keys : started[k] <= 1

\* remaining is not accessed by two goroutines at once: the calling goroutine
\* reads it before any other exists, the others inside the lock (lines
\* 160-162).
Unblocking == {k \in Keys : pc[k] = "unblock"}

RaceFree ==
    /\ main = "ready" => Unblocking = {}
    /\ \A k, l \in Unblocking : k = l

\* No goroutine blocks on the channel, which nobody reads before all of them
\* are done, and none sends on it after it is closed.
SendNeverBlocks == \A k \in Keys : pc[k] = "send" => CanSend /\ ~closed

\* "What keeps wg.Wait honest" (lines 146-148): when Wait returns, every key
\* has been processed and its goroutine has ended, although goroutines are
\* registered with the group while Wait is already waiting.
WaitHonest ==
    main \in {"collect", "returned"} => \A k \in Keys : pc[k] = "gone"

\* Run returns one result for every key, in an order in which a key comes
\* after everything it waits on.
Complete ==
    main = "returned" =>
        /\ Distinct(collected) /\ KeySet(collected) = Keys
        /\ \A m, n \in DOMAIN collected :
              collected[m] \in WaitsOn(dependents, collected[n]) => m < n

\* Run implements the order TopoOrder specifies: a key begins when start is
\* called with it and has finished when its result is in the channel.
Order == INSTANCE TopoOrder WITH
            keys <- Keys,
            waits <- [k \in Keys |-> WaitsOn(dependents, k)],
            begun <- {k \in Keys : pc[k] # "idle"},
            finished <- Delivered,
            returned <- main = "returned"

RefinesTopoOrder == Order!Spec

\* Every call of Run returns: no goroutine waits for another for ever, and
\* no key is left unstarted.
Termination == <>(main = "returned")

(***************************************************************************)
(* The invariant behind them.  An edge is pending until the goroutine of   *)
(* its source has passed it in the loop over the dependents.               *)
(***************************************************************************)
PendingInto(k) == {s \in Into(dependents, k) : s[2] >= pos[s[1]]}

\* remaining counts the pending edges, and only keys with none are started.
RemainingInv ==
    \A k \in Keys :
        /\ remaining[k] = Cardinality(PendingInto(k))
        /\ pc[k] # "idle" => remaining[k] = 0

\* Of the keys with no pending edge, those that are not started are the ones
\* the calling goroutine has still to start.
ToStart == {ready[n] : n \in i .. Len(ready)}

ReadyInv ==
    /\ main = "ready" =>
          /\ \A k \in Keys : pc[k] = "idle"
          /\ KeySet(ready) =
                {keys[n] : n \in {m \in 1 .. Len(keys) : m < i /\ remaining[keys[m]] = 0}}
    /\ main = "start" =>
          \A k \in Keys : k \in ToStart <=> pc[k] = "idle" /\ remaining[k] = 0
    /\ main \in {"wait", "collect", "returned"} =>
          \A k \in Keys : pc[k] = "idle" => remaining[k] # 0
    /\ Distinct(ready)

PosInv ==
    \A k \in Keys :
        /\ pc[k] \in {"idle", "process", "onDone", "send", "lock"} => pos[k] = 1
        /\ pc[k] \in {"exit", "gone"} => pos[k] > Len(dependents[k])

StartedInv ==
    /\ \A k \in Keys : started[k] = IF pc[k] = "idle" THEN 0 ELSE 1
    /\ wg = Cardinality({k \in Keys : pc[k] \notin {"idle", "gone"}})

LockInv == \A k \in Keys : pc[k] = "unblock" <=> mu = k

\* Every key whose goroutine is past its send is in the channel or in the
\* slice, once, and after everything it waits on.
SentInv ==
    /\ reported = {k \in Keys : pc[k] \notin {"idle", "process", "onDone"}}
    /\ Delivered = {k \in Keys : pc[k] \in {"lock", "unblock", "exit", "gone"}}
    /\ Distinct(Sent)
    /\ \A m, n \in DOMAIN Sent : Sent[m] \in WaitsOn(dependents, Sent[n]) => m < n

MainInv ==
    /\ closed <=> main \in {"collect", "returned"}
    /\ ~closed => collected = <<>>
    /\ main = "returned" => results = <<>>

\* What the counters, the lock, the group and the channel say of each other
\* at every step of Run.
IInv ==
    /\ TypeOK
    /\ RemainingInv /\ ReadyInv /\ PosInv /\ StartedInv
    /\ LockInv /\ SentInv /\ MainInv /\ WaitHonest
==============================================================================
