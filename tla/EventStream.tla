------------------------------ MODULE EventStream ----------------------------
(***************************************************************************)
(* event/event.go: the goroutines of a run that emit through one writer,   *)
(* the pipe to another process, and Read with the board that is drawn      *)
(* there.  The bytes of a line are abstracted to three pieces, the two     *)
(* halves of a JSON object and the end of the line, each of which may be   *)
(* the last that a write gets out.                                         *)
(***************************************************************************)
EXTENDS Board

CONSTANTS
    Repos,              \* the repositories that are maintained
    Main,               \* the goroutine of the caller
    NoOne,              \* the holder of a free mutex
    NoBoard,            \* the reader's board before run_start
    NotShown,           \* a row without an outcome, for Report
    Runs,               \* the runs considered: records of keys, the list
                        \* run_start carries, and outcome, what the Updates
                        \* amount to
    Unencodable,        \* messages json.Marshal rejects: not UTF-8
    Oversize,           \* messages that do not fit the scanner's buffer
    maxStrayReports,
    Capacity,           \* pieces the pipe holds
    MaxTroubles         \* bound: failed writes, pieces written by others,
                        \* and ends of the writing process or of the input

ASSUME ReposAssumption ==
    /\ Repos \subseteq Proper /\ IsFiniteSet(Repos)
    /\ Main \notin Repos /\ NoOne \notin Repos \cup {Main}

ASSUME RunsAssumption ==
    \A run \in Runs :
        /\ run.keys \in Seq(Proper \cup Improper)
        /\ run.outcome \in [Repos -> [data : Texts, err : Texts]]
        /\ NoBoard \notin BoardsFor(run.keys)

ASSUME BoundsAssumption ==
    /\ maxStrayReports \in Nat \ {0}
    /\ Capacity \in Nat /\ MaxTroubles \in Nat

Procs == Repos \cup {Main}

VARIABLES
    keys, outcome,      \* what run_start carries, and what Update returns; unchanged
    pc,                 \* goroutine -> its step in Emit
    next,               \* goroutine -> the position of the event it emits
    part,               \* goroutine -> the piece it writes next
    mu,                 \* who holds the writer's mutex
    local,              \* the board of the process that performs the run
    killed,             \* whether that process was killed
    pipe,               \* what was written and not read
    open,               \* whether the writing end is open
    dropped, torn,      \* events of which no piece was written; others cut short
    strays,             \* pieces others wrote
    buf,                \* the scanner's buffer
    input,              \* how the input ended, as the scanner knows
    skipped, warned,    \* lines that were not events; those logged
    summary,            \* whether Read logged how many it had skipped
    delivered,          \* the events fn was called with
    table,              \* the board of the process that reads
    rpc, rerr,          \* Read's step, and whether it returned an error
    closed              \* whether the reading end is closed

producer == <<keys, outcome, pc, next, part, mu, local, killed, open, dropped, torn>>
reader == <<buf, input, skipped, warned, summary, delivered, table, rpc, rerr, closed>>
vars == <<producer, pipe, strays, reader>>

Event(kind, repo, data, err) ==
    [kind |-> kind, repo |-> repo, repos |-> <<>>, data |-> data, err |-> err]

RepoDone(r) == Event("repo_done", r, outcome[r].data, outcome[r].err)

\* The events a goroutine emits.  The steps of a repository are to the
\* writer and the reader what its repo_start is, and are left out.
Script(p) ==
    IF p = Main
    THEN <<[Event("run_start", NoKey, "", "") EXCEPT !.repos = keys],
           Event("run_done", NoKey, "", "")>>
    ELSE <<Event("repo_start", p, "", ""), RepoDone(p)>>

Current(p) == Script(p)[next[p]]

Eol == <<"eol">>
Junk == <<"junk">>
Piece(ev, n) == IF n = 3 THEN Eol ELSE <<ev, n>>

Init ==
    /\ \E run \in Runs : keys = run.keys /\ outcome = run.outcome
    /\ pc = [p \in Procs |-> "emit"]
    /\ next = [p \in Procs |-> 1]
    /\ part = [p \in Procs |-> 1]
    /\ mu = NoOne
    /\ local = NewBoardFor(keys)
    /\ killed = FALSE /\ open = TRUE /\ closed = FALSE
    /\ pipe = <<>> /\ buf = <<>> /\ delivered = <<>>
    /\ dropped = {} /\ torn = 0 /\ strays = 0
    /\ input = "open"
    /\ skipped = 0 /\ warned = 0 /\ summary = FALSE
    /\ table = NoBoard
    /\ rpc = "read" /\ rerr = FALSE

------------------------------------------------------------------------------
(* The writer.                                                             *)

\* run_start comes before the work on the repositories, run_done after it.
Emits(p) ==
    /\ pc[p] = "emit"
    /\ IF p # Main THEN next[Main] = 2
       ELSE next[Main] = 2 => \A r \in Repos : pc[r] = "done"

\* Mutant: the writer has no mutex.
LockFree(p) ==
    /\ ~killed /\ Emits(p)
    /\ mu' = mu
    /\ IF Current(p).err \in Unencodable
       THEN pc' = [pc EXCEPT ![p] = "unlock"] /\ dropped' = dropped \cup {Current(p)}
       ELSE pc' = [pc EXCEPT ![p] = "write"] /\ UNCHANGED dropped
    /\ UNCHANGED <<keys, outcome, next, part, local, killed, open, torn, pipe, strays, reader>>

\* Emit takes the mutex and encodes the event; one that cannot be encoded is
\* dropped.
Lock(p) ==
    /\ ~killed /\ Emits(p) /\ mu = NoOne
    /\ mu' = p
    /\ IF Current(p).err \in Unencodable
       THEN pc' = [pc EXCEPT ![p] = "unlock"] /\ dropped' = dropped \cup {Current(p)}
       ELSE pc' = [pc EXCEPT ![p] = "write"] /\ UNCHANGED dropped
    /\ UNCHANGED <<keys, outcome, next, part, local, killed, open, torn, pipe, strays, reader>>

\* A piece of the line, when the pipe has room.
Write(p) ==
    /\ ~killed /\ pc[p] = "write" /\ ~closed /\ Len(pipe) < Capacity
    /\ pipe' = Append(pipe, Piece(Current(p), part[p]))
    /\ part' = [part EXCEPT ![p] = IF @ = 3 THEN 1 ELSE @ + 1]
    /\ pc' = IF part[p] = 3 THEN [pc EXCEPT ![p] = "unlock"] ELSE pc
    /\ UNCHANGED <<keys, outcome, next, mu, local, killed, open, dropped, torn, strays, reader>>

\* How many writes have failed while there was a reader, and what else has
\* gone wrong.
Failures == torn + Cardinality({ev \in dropped : ev.err \notin Unencodable})

Trouble ==
    Failures + strays + (IF killed THEN 1 ELSE 0) + (IF input = "failed" THEN 1 ELSE 0)
        < MaxTroubles

\* Mutant: a write that failed is tried again.
WriteAgain(p) ==
    /\ ~killed /\ pc[p] = "write" /\ (closed \/ Trouble)
    /\ UNCHANGED vars

\* The write fails, always once nobody can read; nobody is told.
WriteFails(p) ==
    /\ ~killed /\ pc[p] = "write" /\ (closed \/ Trouble)
    /\ IF part[p] = 1
       THEN dropped' = dropped \cup {Current(p)} /\ UNCHANGED torn
       ELSE torn' = torn + 1 /\ UNCHANGED dropped
    /\ part' = [part EXCEPT ![p] = 1]
    /\ pc' = [pc EXCEPT ![p] = "unlock"]
    /\ UNCHANGED <<keys, outcome, next, mu, local, killed, open, pipe, strays, reader>>

\* The deferred unlock, whichever way Emit returns.
Unlock(p) ==
    /\ ~killed /\ pc[p] = "unlock"
    /\ mu' = NoOne
    /\ next' = [next EXCEPT ![p] = @ + 1]
    /\ pc' = [pc EXCEPT ![p] = IF next[p] = Len(Script(p)) THEN "returned" ELSE "emit"]
    /\ UNCHANGED <<keys, outcome, part, local, killed, open, dropped, torn, pipe, strays, reader>>

\* The caller has the repository's result, and enters it in its own board.
Finish(r) ==
    /\ ~killed /\ pc[r] = "returned"
    /\ local' = Set(local, [Row(r) EXCEPT !.data = outcome[r].data, !.err = outcome[r].err])
    /\ pc' = [pc EXCEPT ![r] = "done"]
    /\ UNCHANGED <<keys, outcome, next, part, mu, killed, open, dropped, torn, pipe, strays, reader>>

\* The process ends, in good order or not, and with it the stream.
Exit ==
    /\ ~killed /\ pc[Main] = "returned"
    /\ pc' = [pc EXCEPT ![Main] = "done"]
    /\ open' = FALSE
    /\ UNCHANGED <<keys, outcome, next, part, mu, local, killed, dropped, torn, pipe, strays, reader>>

Kill ==
    /\ open /\ Trouble
    /\ killed' = TRUE
    /\ open' = FALSE
    /\ UNCHANGED <<keys, outcome, pc, next, part, mu, local, dropped, torn, pipe, strays, reader>>

\* A tool the process has started writes to the same stream: some text, with
\* or without an end of line.
Stray(piece) ==
    /\ open /\ ~closed /\ Trouble /\ Len(pipe) < Capacity
    /\ pipe' = Append(pipe, piece)
    /\ strays' = strays + 1
    /\ UNCHANGED <<producer, reader>>

------------------------------------------------------------------------------
(* The reader.                                                             *)

HasLine == buf # <<>> /\ buf[Len(buf)] = Eol

\* The line the scanner has found: what follows the last end of line counts
\* as one once the input has ended.
Found == HasLine \/ (buf # <<>> /\ input # "open")

Line == IF HasLine THEN SubSeq(buf, 1, Len(buf) - 1) ELSE buf

TooLong == \E n \in DOMAIN buf : Len(buf[n]) = 2 /\ buf[n][1].err \in Oversize

Scan ==
    /\ rpc = "read" /\ input = "open" /\ pipe # <<>> /\ ~HasLine /\ ~TooLong
    /\ buf' = Append(buf, Head(pipe))
    /\ pipe' = Tail(pipe)
    /\ UNCHANGED <<producer, strays, input, skipped, warned, summary, delivered,
                   table, rpc, rerr, closed>>

ScanEnds ==
    /\ rpc = "read" /\ input = "open" /\ ~HasLine /\ ~TooLong
    /\ \/ pipe = <<>> /\ ~open /\ input' = "eof"
       \/ Trouble /\ input' = "failed"
    /\ UNCHANGED <<producer, pipe, strays, buf, skipped, warned, summary,
                   delivered, table, rpc, rerr, closed>>

\* decode: the line is one event, or it is none.
decode(line) ==
    IF Len(line) = 2 /\ line[1] # Junk /\ line = <<<<line[1][1], 1>>, <<line[1][1], 2>>>>
    THEN {line[1][1]} ELSE {}

Empty ==
    /\ rpc = "read" /\ Found /\ Line = <<>>
    /\ buf' = <<>>
    /\ UNCHANGED <<producer, pipe, strays, input, skipped, warned, summary,
                   delivered, table, rpc, rerr, closed>>

\* What the process that reads does with an event.
fn(ev) ==
    table' = IF ev.kind = "run_start" THEN NewBoardFor(ev.repos)
             ELSE IF table = NoBoard THEN NoBoard ELSE Apply(table, ev)

\* Mutant: events are decoded into one variable, and an omitted field keeps
\* the value of the event before.
DeliverStale ==
    /\ rpc = "read" /\ Found
    /\ \E ev \in decode(Line) :
          LET last == IF delivered = <<>> THEN "" ELSE delivered[Len(delivered)].err
              stale == [ev EXCEPT !.err = IF @ = "" THEN last ELSE @]
          IN  delivered' = Append(delivered, stale) /\ fn(stale)
    /\ buf' = <<>>
    /\ UNCHANGED <<producer, pipe, strays, input, skipped, warned, summary,
                   rpc, rerr, closed>>

Deliver ==
    /\ rpc = "read" /\ Found
    /\ \E ev \in decode(Line) : delivered' = Append(delivered, ev) /\ fn(ev)
    /\ buf' = <<>>
    /\ UNCHANGED <<producer, pipe, strays, input, skipped, warned, summary,
                   rpc, rerr, closed>>

\* Mutant: a line that is no event is skipped without a word.
SkipSilently ==
    /\ rpc = "read" /\ Found /\ Line # <<>> /\ decode(Line) = {}
    /\ buf' = <<>>
    /\ skipped' = skipped + 1
    /\ UNCHANGED <<producer, pipe, strays, input, warned, summary, delivered,
                   table, rpc, rerr, closed>>

\* Mutant: every stray line is logged.
SkipDrowning ==
    /\ rpc = "read" /\ Found /\ Line # <<>> /\ decode(Line) = {}
    /\ buf' = <<>>
    /\ skipped' = skipped + 1
    /\ warned' = warned + 1
    /\ UNCHANGED <<producer, pipe, strays, input, summary, delivered, table,
                   rpc, rerr, closed>>

Skip ==
    /\ rpc = "read" /\ Found /\ Line # <<>> /\ decode(Line) = {}
    /\ buf' = <<>>
    /\ skipped' = skipped + 1
    /\ warned' = IF skipped' <= maxStrayReports THEN warned + 1 ELSE warned
    /\ UNCHANGED <<producer, pipe, strays, input, summary, delivered, table,
                   rpc, rerr, closed>>

\* Mutant: a line that does not fit is waited for.
ReadWaits ==
    /\ rpc = "read"
    /\ TooLong \/ (buf = <<>> /\ input # "open")
    /\ rpc' = IF TooLong THEN rpc ELSE "returned"
    /\ rerr' = (input = "failed")
    /\ summary' = (skipped > maxStrayReports)
    /\ UNCHANGED <<producer, pipe, strays, buf, input, skipped, warned,
                   delivered, table, closed>>

\* Read returns: at the end of the input, after a failure to read it, or for
\* a line that does not fit.
ReadReturns ==
    /\ rpc = "read"
    /\ TooLong \/ (buf = <<>> /\ input # "open")
    /\ rpc' = "returned"
    /\ rerr' = (TooLong \/ input = "failed")
    /\ summary' = (skipped > maxStrayReports)
    /\ UNCHANGED <<producer, pipe, strays, buf, input, skipped, warned,
                   delivered, table, closed>>

\* The caller of Read is done with the stream.
Close ==
    /\ rpc = "returned" /\ ~closed
    /\ closed' = TRUE
    /\ UNCHANGED <<producer, pipe, strays, buf, input, skipped, warned, summary,
                   delivered, table, rpc, rerr>>

Emit(p) == Lock(p) \/ Write(p) \/ WriteFails(p) \/ Unlock(p)

Read == Scan \/ ScanEnds \/ Empty \/ Deliver \/ Skip \/ ReadReturns

Done == closed /\ ~open /\ UNCHANGED vars

Next ==
    \/ \E p \in Procs : Emit(p)
    \/ \E r \in Repos : Finish(r)
    \/ Exit \/ Kill
    \/ \E piece \in {Junk, Eol} : Stray(piece)
    \/ Read \/ Close \/ Done

Spec == Init /\ [][Next]_vars

\* Every goroutine runs, the reader reads on and its caller closes the stream.
FairSpec ==
    /\ Spec
    /\ \A p \in Procs : WF_vars(Emit(p))
    /\ \A r \in Repos : WF_vars(Finish(r))
    /\ WF_vars(Exit) /\ WF_vars(Read) /\ WF_vars(Close)

------------------------------------------------------------------------------
(* Properties.                                                             *)

Events == UNION {{Script(p)[n] : n \in DOMAIN Script(p)} : p \in Procs}

Pieces == ({<<ev, n>> : ev \in Events, n \in 1 .. 2}) \cup {Eol, Junk}

TypeOK ==
    /\ pc \in [Procs -> {"emit", "write", "unlock", "returned", "done"}]
    /\ next \in [Procs -> 1 .. 3] /\ part \in [Procs -> 1 .. 3]
    /\ mu \in Procs \cup {NoOne}
    /\ local \in BoardsFor(keys) /\ table \in BoardsFor(keys) \cup {NoBoard}
    /\ pipe \in Seq(Pieces) /\ Len(pipe) <= Capacity
    /\ buf \in Seq(Pieces) /\ input \in {"open", "eof", "failed"}
    /\ dropped \subseteq Events /\ torn \in Nat /\ strays \in 0 .. MaxTroubles
    /\ skipped \in Nat /\ warned \in 0 .. maxStrayReports
    /\ delivered \in Seq(Events)
    /\ rpc \in {"read", "returned"}
    /\ {killed, open, summary, rerr, closed} \subseteq BOOLEAN

Received == {delivered[n] : n \in DOMAIN delivered}

\* The events Emit has returned from, and those it has begun to write.
Emitted(p) ==
    {Script(p)[n] : n \in {m \in DOMAIN Script(p) :
        m < next[p] \/ (m = next[p] /\ (pc[p] = "unlock" \/ part[p] > 1))}}

Missing == (UNION {Emitted(p) : p \in Procs}) \ Received

\* Read returned and said that it has read the whole stream.
ReadAll == rpc = "returned" /\ ~rerr

\* e is emitted before f in every run.
Before(e, f) ==
    \/ e.kind = "run_start" /\ f # e
    \/ f.kind = "run_done" /\ f # e
    \/ e.repo = f.repo /\ e.kind = "repo_start" /\ f.kind = "repo_done"

\* The contract across the process boundary (TestRoundTrip): what fn is
\* called with was emitted, field for field, comes once, and comes in the
\* order in which its goroutine emitted it.
Faithful ==
    /\ Received \subseteq UNION {Emitted(p) : p \in Procs}
    /\ \A m, n \in DOMAIN delivered :
          m < n => delivered[m] # delivered[n] /\ ~Before(delivered[n], delivered[m])

\* How much a disturbance can cost: a write cut short, two events (its own
\* and the one that shares its line); text from elsewhere, one; the end of
\* the process, the one being written.  Undisturbed, whatever the goroutines
\* do at the same time, nothing that can be encoded is lost (Emit, Read).
LossBounded ==
    ReadAll =>
        Cardinality(Missing) <=
            Cardinality(dropped) + 2 * torn + strays + (IF killed THEN 1 ELSE 0)

\* A reader is never quietly short of an event of which something reached
\* the stream: Read fails, or reports a line it skipped (the comment of
\* Read, "not a stray line but a lost one").
NoSilentLoss ==
    rpc = "returned" /\ Missing \ dropped # {} => rerr \/ warned > 0

\* The acceptance check of TestBoardFromEventsMatchesResults, under every
\* interleaving and disturbance: once a stream has been read to its end the
\* two boards agree row by row, but for rows whose repo_done is missing.
TablesAgree ==
    ReadAll /\ ~killed /\ table # NoBoard =>
        \A n \in DOMAIN local.rows :
            LET row == local.rows[n]
            IN  IF row.key \in Repos /\ RepoDone(row.key) \in Missing
                THEN table.rows[n].pending
                ELSE table.rows[n] = [row EXCEPT !.remote = row.err # ""]

\* At every moment the reader's table shows the truth or nothing, and no row
\* changes once it shows it.
Shown(r) ==
    IF table = NoBoard \/ r \notin DOMAIN table.index THEN NotShown
    ELSE LET row == table.rows[table.index[r]]
         IN  IF row.pending THEN NotShown ELSE [data |-> row.data, err |-> row.err]

Reports == INSTANCE Report WITH Pending <- NotShown, truth <- outcome,
                                shown <- [r \in Repos |-> Shown(r)]

RefinesReport == Reports!Spec

\* Reporting is not the work (the comment of Write): whatever becomes of the
\* stream and its reader, every Update returns and the run ends.
RunEnds == <>(killed \/ pc[Main] = "done")

\* Read returns, unless the run goes on for ever.
ReadEnds == <>(rpc = "returned")

\* The comment of Event.Result (event.go:329): "A failure comes back as an
\* error whose message is the original verbatim".
FailureComesBack ==
    ReadAll /\ ~killed /\ Failures = 0 /\ strays = 0 =>
        \A r \in Repos :
            r \in DOMAIN local.index /\ outcome[r].err # "" =>
                Shown(r) = outcome[r]
==============================================================================
