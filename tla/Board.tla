-------------------------------- MODULE Board --------------------------------
(***************************************************************************)
(* event/result.go: the board, a row per repository in a fixed order, and  *)
(* the way from an event to a result.  Every method of the Go type holds   *)
(* the board's mutex from its first to its last line, so each is a         *)
(* function of the board here.                                             *)
(***************************************************************************)
EXTENDS Naturals, Sequences, FiniteSets

CONSTANTS
    Proper,     \* the keys of the form "owner/name"
    Improper,   \* keys of any other form
    NoKey,      \* the key of a result without owner and name
    Texts       \* what maintenance amounts to, and messages; "" for none

ASSUME KeysAssumption == NoKey \notin Proper
ASSUME TextsAssumption == "" \in Texts

\* What splitKey makes of a key.
splitKey(key) == IF key \in Proper THEN key ELSE NoKey

\* A row: the repository, what its maintenance amounted to and the message
\* of its failure, "" for none; remote marks a failure read off an event.
Row(key) == [key |-> key, data |-> "", err |-> "", remote |-> FALSE, pending |-> FALSE]

Rows == [key : Proper \cup Improper, data : Texts, err : Texts,
         remote : BOOLEAN, pending : BOOLEAN]

\* The rows are a function on positions, of which only the order matters.
NewBoard(repos) ==
    [rows |-> [n \in DOMAIN repos |-> [repos[n] EXCEPT !.pending = TRUE]],
     index |-> [key \in {repos[n].key : n \in DOMAIN repos} |->
                   CHOOSE n \in DOMAIN repos :
                       /\ repos[n].key = key
                       /\ \A m \in DOMAIN repos : repos[m].key = key => m <= n]]

\* A key that is none leaves out its position.
NewBoardFor(keys) ==
    LET known == {n \in DOMAIN keys : splitKey(keys[n]) # NoKey}
    IN  NewBoard([n \in known |-> Row(keys[n])])

\* The boards that begin with these keys.
BoardsFor(keys) ==
    LET blank == NewBoardFor(keys)
    IN  [rows : [DOMAIN blank.rows -> Rows], index : {blank.index}]

Set(board, res) ==
    IF res.key \in DOMAIN board.index
    THEN [board EXCEPT !.rows[board.index[res.key]] = res]
    ELSE board

\* Mutant: the failure does not survive the trip.
ResultWithoutErr(ev) ==
    [key |-> splitKey(ev.repo), data |-> ev.data, err |-> "",
     remote |-> FALSE, pending |-> FALSE]

\* Event.Result.
ResultOf(ev) ==
    [key |-> splitKey(ev.repo), data |-> ev.data, err |-> ev.err,
     remote |-> ev.err # "", pending |-> FALSE]

\* Mutant: every event of a repository is taken for its outcome.
ApplyAny(board, ev) == Set(board, ResultOf(ev))

Apply(board, ev) ==
    IF ev.kind = "repo_done" THEN Set(board, ResultOf(ev)) ELSE board
==============================================================================
