--------------------------- MODULE EventStream_proof -------------------------
(***************************************************************************)
(* What the reader of a stream may rely on, for any number of writers,     *)
(* whatever is written in between, cut short or lost: the inductive        *)
(* invariant behind the safety properties of EventStream, and Report.      *)
(***************************************************************************)
EXTENDS EventStream, FiniteSetTheorems, WellFoundedInduction, TLAPS

\* Goroutine p has begun to emit its n-th event, or has dropped it.
Begun(p, n) == n < next[p] \/ (n = next[p] /\ (pc[p] = "unlock" \/ part[p] > 1))

AllEmitted ==
    {e \in Events : \E p \in Procs : \E n \in 1 .. 2 : e = Script(p)[n] /\ Begun(p, n)}

\* What was written and no line of which was dealt with.
Unread == buf \o pipe

\* Where the first piece of an event is.
HeadsOf(e) == {n \in DOMAIN Unread : Unread[n] = <<e, 1>>}

\* Whoever emits has the mutex, and goroutines emit in the order of the run.
WriterInv ==
    /\ \A p \in Procs :
          /\ pc[p] \in {"write", "unlock"} => mu = p
          /\ part[p] > 1 => pc[p] = "write"
          /\ next[p] = 3 <=> pc[p] \in {"returned", "done"}
    /\ open <=> ~killed /\ pc[Main] # "done"
    /\ next[Main] = 1 => \A r \in Repos : pc[r] = "emit" /\ next[r] = 1
    /\ next[Main] = 3 \/ (next[Main] = 2 /\ pc[Main] # "emit") =>
          \A r \in Repos : pc[r] = "done"

\* f was not emitted before e.
Follows(e, f) == e # f /\ ~Before(f, e)

\* What is delivered, and what is still to be, was emitted once and in order.
OrderInv ==
    /\ Received \subseteq AllEmitted
    /\ \A e \in Events : HeadsOf(e) # {} => e \in AllEmitted
    /\ \A m, n \in DOMAIN delivered : m < n => Follows(delivered[m], delivered[n])
    /\ \A d \in Received, e \in Events : HeadsOf(e) # {} => Follows(d, e)
    /\ \A e, f \in Events : \A m \in HeadsOf(e), n \in HeadsOf(f) :
          m < n => Follows(e, f)

ReaderInv ==
    /\ \A n \in DOMAIN buf : buf[n] = Eol => n = Len(buf)
    /\ input = "eof" => pipe = <<>> /\ ~open
    /\ warned = IF skipped <= maxStrayReports THEN skipped ELSE maxStrayReports
    /\ ReadAll => input = "eof" /\ buf = <<>>

\* An event of which a piece was written is still to be read, was delivered,
\* or a line has been skipped.
AccountInv ==
    \A e \in AllEmitted \ dropped :
        e \in Received \/ HeadsOf(e) # {} \/ skipped > 0

\* The line of e, whose first piece is at n, is or will be what decode takes
\* for e, unless something else happens to it.
LineStart(n) == n = 1 \/ Unread[n - 1] = Eol

Whole(e, n) ==
    n + 2 \in DOMAIN Unread /\ Unread[n + 1] = <<e, 2>> /\ Unread[n + 2] = Eol

UnderWay(e, n) ==
    /\ ~killed
    /\ \E p \in Procs :
          /\ part[p] > 1 /\ Current(p) = e
          /\ Len(Unread) = n + part[p] - 2
          /\ part[p] = 3 => Unread[n + 1] = <<e, 2>>

Intact(e, n) == LineStart(n) /\ (Whole(e, n) \/ UnderWay(e, n))

\* The events that are lost or will be, if nothing else happens.
Harmed ==
    {e \in AllEmitted \ dropped :
        e \notin Received /\ \A n \in HeadsOf(e) : ~Intact(e, n)}

\* The event that comes next will share its line with what is there.
Dirty ==
    /\ open /\ \A p \in Procs : part[p] = 1
    /\ Unread # <<>> /\ Unread[Len(Unread)] # Eol

One(b) == IF b THEN 1 ELSE 0

HarmInv ==
    input # "failed" =>
        Cardinality(Harmed) + One(Dirty) <= 2 * torn + strays + One(killed)

\* keys and outcome are those of one of the runs.
RunInv == \E run \in Runs : keys = run.keys /\ outcome = run.outcome

\* A row shows what its repository's event said, in either process.
Blank == NewBoardFor(keys)

Said(r, remote) ==
    IF remote THEN ResultOf(RepoDone(r))
    ELSE [Row(r) EXCEPT !.data = outcome[r].data, !.err = outcome[r].err]

Shows(board, repos, remote) ==
    /\ board \in BoardsFor(keys)
    /\ \A r \in repos : r \in DOMAIN Blank.index =>
          board.rows[Blank.index[r]] = Said(r, remote)
    /\ \A n \in DOMAIN Blank.rows :
          (\A r \in repos : r \in DOMAIN Blank.index => Blank.index[r] # n) =>
              board.rows[n] = Blank.rows[n]

BoardInv ==
    /\ Shows(local, {r \in Repos : pc[r] = "done"}, FALSE)
    /\ table # NoBoard =>
          /\ Shows(table, {r \in Repos : RepoDone(r) \in Received}, TRUE)
          /\ Script(Main)[1] \in Received

IInv ==
    /\ TypeOK /\ WriterInv /\ OrderInv /\ ReaderInv /\ AccountInv /\ HarmInv
    /\ RunInv /\ BoardInv

------------------------------------------------------------------------------
(* The events of a run.                                                    *)

LEMMA ScriptFacts ==
  /\ \A p \in Procs : Len(Script(p)) = 2 /\ DOMAIN Script(p) = 1 .. 2
  /\ \A p, q \in Procs : \A m, n \in 1 .. 2 :
        Script(p)[m] = Script(q)[n] => p = q /\ m = n
  /\ Script(Main)[1].kind = "run_start" /\ Script(Main)[2].kind = "run_done"
  /\ \A r \in Repos :
        /\ Script(r)[1].kind = "repo_start" /\ Script(r)[1].repo = r
        /\ Script(r)[2] = RepoDone(r)
        /\ RepoDone(r).kind = "repo_done" /\ RepoDone(r).repo = r
  /\ Script(Main)[1].repo = NoKey /\ Script(Main)[2].repo = NoKey
  /\ Script(Main)[1].repos = keys
  <1>1. ASSUME NEW x, NEW y
        PROVE  /\ Len(<<x, y>>) = 2 /\ DOMAIN <<x, y>> = 1 .. 2
               /\ <<x, y>>[1] = x /\ <<x, y>>[2] = y
    OBVIOUS
  <1>2. ASSUME NEW r \in Repos
        PROVE  /\ Script(r)[1].kind = "repo_start" /\ Script(r)[1].repo = r
               /\ Script(r)[2] = RepoDone(r)
               /\ RepoDone(r).kind = "repo_done" /\ RepoDone(r).repo = r
               /\ Len(Script(r)) = 2 /\ DOMAIN Script(r) = 1 .. 2
    <2> DEFINE first == Event("repo_start", r, "", "")
    <2>1. Script(r) = <<first, RepoDone(r)>>
      BY ReposAssumption DEF Script
    <2>2. first.kind = "repo_start" /\ first.repo = r
      BY DEF Event
    <2>3. RepoDone(r).kind = "repo_done" /\ RepoDone(r).repo = r
      BY DEF RepoDone, Event
    <2> HIDE DEF first
    <2>4. QED BY <1>1, <2>1, <2>2, <2>3
  <1>3. /\ Script(Main)[1].kind = "run_start" /\ Script(Main)[2].kind = "run_done"
        /\ Script(Main)[1].repo = NoKey /\ Script(Main)[2].repo = NoKey
        /\ Script(Main)[1].repos = keys
        /\ Len(Script(Main)) = 2 /\ DOMAIN Script(Main) = 1 .. 2
    <2> DEFINE first == [Event("run_start", NoKey, "", "") EXCEPT !.repos = keys]
               last == Event("run_done", NoKey, "", "")
    <2>1. /\ first.kind = "run_start" /\ first.repo = NoKey /\ first.repos = keys
          /\ last.kind = "run_done" /\ last.repo = NoKey
      BY DEF Event
    <2>2. Script(Main) = <<first, last>>
      BY DEF Script
    <2> HIDE DEF first, last
    <2>3. QED BY <1>1, <2>1, <2>2
  <1>4. ASSUME NEW p \in Procs, NEW q \in Procs, NEW m \in 1 .. 2, NEW n \in 1 .. 2,
               Script(p)[m] = Script(q)[n]
        PROVE  p = q /\ m = n
    <2>1. (m = 1 \/ m = 2) /\ (n = 1 \/ n = 2)
      OBVIOUS
    <2>2. QED BY <1>2, <1>3, <1>4, <2>1, ReposAssumption DEF Procs
  <1>5. QED BY <1>2, <1>3, <1>4 DEF Procs

LEMMA EventsAre ==
  \A e : e \in Events <=> \E p \in Procs : \E n \in 1 .. 2 : e = Script(p)[n]
  BY ScriptFacts DEF Events

LEMMA BeforeFacts ==
  ASSUME NEW p \in Procs, NEW q \in Procs, NEW m \in 1 .. 2, NEW n \in 1 .. 2,
         Before(Script(p)[m], Script(q)[n])
  PROVE  \/ p = Main /\ m = 1
         \/ q = Main /\ n = 2
         \/ p = q /\ m = 1 /\ n = 2
  BY ScriptFacts, ReposAssumption, KeysAssumption DEF Procs, Before

LEMMA StartIsFirst ==
  ASSUME NEW e \in Events, e # Script(Main)[1] PROVE Before(Script(Main)[1], e)
  BY ScriptFacts DEF Before

\* keys and outcome never change, and so neither does what is emitted.
LEMMA SameScripts ==
  ASSUME UNCHANGED <<keys, outcome>>
  PROVE  /\ \A p : Script(p)' = Script(p)
         /\ \A r : RepoDone(r)' = RepoDone(r)
         /\ Events' = Events /\ Pieces' = Pieces
  <1>1. \A r : RepoDone(r)' = RepoDone(r)
    BY DEF RepoDone, Event
  <1>2. \A p : Script(p)' = Script(p)
    BY <1>1 DEF Script, Event
  <1>3. QED BY <1>1, <1>2 DEF Events, Pieces

LEMMA CurrentIsEvent ==
  ASSUME TypeOK, NEW p \in Procs, next[p] # 3
  PROVE  next[p] \in 1 .. 2 /\ Current(p) \in Events /\ Current(p) = Script(p)[next[p]]
  BY EventsAre DEF TypeOK, Current

LEMMA EmittedAre == AllEmitted = UNION {Emitted(p) : p \in Procs}
  <1>1. \A p \in Procs : Emitted(p) = {Script(p)[n] : n \in {m \in 1 .. 2 : Begun(p, m)}}
    BY ScriptFacts DEF Emitted, Begun
  <1>2. QED BY <1>1, EventsAre DEF AllEmitted

LEMMA EventsFinite == IsFiniteSet(Events) /\ \A S \in SUBSET Events : IsFiniteSet(S)
  <1>1. IsFiniteSet(Procs)
    BY ReposAssumption, FS_AddElement DEF Procs
  <1> DEFINE First == {Script(p)[1] : p \in Procs}
             Second == {Script(p)[2] : p \in Procs}
  <1> DEFINE f == [p \in Procs |-> Script(p)[1]]
             g == [p \in Procs |-> Script(p)[2]]
  <1>2. IsFiniteSet(First) /\ IsFiniteSet(Second)
    <2>1. f \in Surjection(Procs, First) /\ g \in Surjection(Procs, Second)
      BY DEF Surjection
    <2> HIDE DEF f, g, First, Second
    <2>2. QED BY <1>1, <2>1, FS_Surjection
  <1>3. IsFiniteSet(First \cup Second)
    BY <1>2, FS_Union
  <1>4. Events \subseteq First \cup Second
    <2> SUFFICES ASSUME NEW e \in Events PROVE e \in First \cup Second
      OBVIOUS
    <2>1. PICK p \in Procs, n \in 1 .. 2 : e = Script(p)[n]
      BY EventsAre
    <2>2. n = 1 \/ n = 2
      OBVIOUS
    <2>3. QED BY <2>1, <2>2
  <1>5. QED BY <1>3, <1>4, FS_Subset

------------------------------------------------------------------------------
(* The pieces of the stream.                                               *)

LEMMA PieceFacts ==
  /\ Eol # Junk
  /\ \A e, n : <<e, n>> # Eol /\ <<e, n>> # Junk
  /\ \A e, f, m, n : <<e, m>> = <<f, n>> => e = f /\ m = n
  /\ \A x \in Pieces : x = Eol \/ x = Junk \/ \E e \in Events : \E n \in 1 .. 2 : x = <<e, n>>
  /\ Eol \in Pieces /\ Junk \in Pieces
  /\ \A e \in Events : \A n \in 1 .. 2 : <<e, n>> \in Pieces
  BY DEF Eol, Junk, Pieces

LEMMA PieceIn ==
  \A e \in Events : <<e, 1>> \in Pieces /\ <<e, 2>> \in Pieces
  BY DEF Pieces

LEMMA ConcatFacts ==
  ASSUME NEW S, NEW s \in Seq(S), NEW t \in Seq(S)
  PROVE  /\ s \o t \in Seq(S) /\ Len(s \o t) = Len(s) + Len(t)
         /\ DOMAIN (s \o t) = 1 .. Len(s) + Len(t)
         /\ \A n \in 1 .. Len(s) + Len(t) :
               (s \o t)[n] = IF n <= Len(s) THEN s[n] ELSE t[n - Len(s)]
  OBVIOUS

LEMMA UnreadFacts ==
  ASSUME TypeOK
  PROVE  /\ buf \in Seq(Pieces) /\ pipe \in Seq(Pieces) /\ Unread \in Seq(Pieces)
         /\ Len(buf) \in Nat /\ Len(pipe) \in Nat /\ Len(Unread) = Len(buf) + Len(pipe)
         /\ DOMAIN Unread = 1 .. Len(Unread)
         /\ DOMAIN buf = 1 .. Len(buf)
         /\ \A n \in DOMAIN buf : Unread[n] = buf[n]
  <1>1. buf \in Seq(Pieces) /\ pipe \in Seq(Pieces)
    BY DEF TypeOK
  <1>2. QED BY <1>1, ConcatFacts DEF Unread

\* A piece is written.
LEMMA PushFacts ==
  ASSUME TypeOK, NEW x \in Pieces, pipe' = Append(pipe, x), buf' = buf
  PROVE  /\ Len(Unread') = Len(Unread) + 1
         /\ DOMAIN Unread' = 1 .. Len(Unread) + 1
         /\ Unread'[Len(Unread) + 1] = x
         /\ \A n \in DOMAIN Unread : Unread'[n] = Unread[n]
         /\ \A e : HeadsOf(e)' =
               HeadsOf(e) \cup (IF x = <<e, 1>> THEN {Len(Unread) + 1} ELSE {})
  <1>1. buf \in Seq(Pieces) /\ pipe \in Seq(Pieces)
    BY DEF TypeOK
  <1>2. Unread \in Seq(Pieces) /\ Unread' = Append(Unread, x)
    BY <1>1 DEF Unread
  <1>3. /\ Len(Unread') = Len(Unread) + 1
        /\ DOMAIN Unread' = 1 .. Len(Unread) + 1 /\ DOMAIN Unread = 1 .. Len(Unread)
        /\ Unread'[Len(Unread) + 1] = x
        /\ \A n \in DOMAIN Unread : Unread'[n] = Unread[n]
    BY <1>2
  <1>4. ASSUME NEW e
        PROVE  HeadsOf(e)' =
                  HeadsOf(e) \cup (IF x = <<e, 1>> THEN {Len(Unread) + 1} ELSE {})
    <2>1. /\ HeadsOf(e) = {n \in DOMAIN Unread : Unread[n] = <<e, 1>>}
          /\ HeadsOf(e)' = {n \in DOMAIN Unread' : Unread'[n] = <<e, 1>>}
      BY DEF HeadsOf
    <2>2. Len(Unread) \in Nat /\ DOMAIN Unread' = DOMAIN Unread \cup {Len(Unread) + 1}
      BY <1>2, <1>3
    <2>3. CASE x = <<e, 1>>
      BY <1>3, <2>1, <2>2, <2>3
    <2>4. CASE x # <<e, 1>>
      BY <1>3, <2>1, <2>2, <2>4
    <2>5. QED BY <2>3, <2>4
  <1>5. QED BY <1>3, <1>4

\* The scanner takes over a piece.
LEMMA ScanFacts ==
  ASSUME TypeOK, pipe # <<>>, buf' = Append(buf, Head(pipe)), pipe' = Tail(pipe)
  PROVE  Unread' = Unread
  <1>1. buf \in Seq(Pieces) /\ pipe \in Seq(Pieces)
    BY DEF TypeOK
  <1>2. buf' \in Seq(Pieces) /\ pipe' \in Seq(Pieces)
    BY <1>1
  <1>3. Len(Unread') = Len(Unread) /\ Unread \in Seq(Pieces) /\ Unread' \in Seq(Pieces)
    BY <1>1, <1>2 DEF Unread
  <1>4. \A n \in 1 .. Len(Unread) : Unread'[n] = Unread[n]
    BY <1>1, <1>2 DEF Unread
  <1>5. QED BY <1>3, <1>4

\* A line is dealt with.
LEMMA ClearFacts ==
  ASSUME TypeOK, buf' = <<>>, pipe' = pipe
  PROVE  /\ Len(Unread') = Len(pipe) /\ DOMAIN Unread' = 1 .. Len(pipe)
         /\ \A n \in 1 .. Len(pipe) : Unread'[n] = Unread[n + Len(buf)]
         /\ \A e : HeadsOf(e)' = {n \in 1 .. Len(pipe) : n + Len(buf) \in HeadsOf(e)}
  <1>1. buf \in Seq(Pieces) /\ pipe \in Seq(Pieces)
    BY DEF TypeOK
  <1>2. Unread' = pipe
    BY <1>1 DEF Unread
  <1>3. \A n \in 1 .. Len(pipe) : n + Len(buf) \in DOMAIN Unread /\ Unread[n + Len(buf)] = pipe[n]
    BY <1>1 DEF Unread
  <1>4. DOMAIN pipe = 1 .. Len(pipe)
    BY <1>1
  <1>5. \A e : HeadsOf(e)' = {n \in 1 .. Len(pipe) : n + Len(buf) \in HeadsOf(e)}
    BY <1>2, <1>3, <1>4 DEF HeadsOf
  <1>6. QED BY <1>2, <1>3, <1>4, <1>5

LEMMA HeadsFacts ==
  ASSUME TypeOK
  PROVE  /\ \A e : HeadsOf(e) \subseteq 1 .. Len(Unread)
         /\ \A e, f : \A n : n \in HeadsOf(e) /\ n \in HeadsOf(f) => e = f
  BY UnreadFacts, PieceFacts DEF HeadsOf

\* What decode finds is the whole line.
LEMMA DecodeFacts ==
  ASSUME TypeOK, ReaderInv, Found, NEW e \in decode(Line)
  PROVE  /\ e \in Events /\ 1 \in HeadsOf(e)
         /\ \A f : \A n \in HeadsOf(f) : n <= Len(buf) => n = 1 /\ f = e
  <1>1. buf \in Seq(Pieces) /\ buf # <<>>
    BY DEF TypeOK, Found, HasLine
  <1>2. Line \in Seq(Pieces) /\ Len(Line) = 2 /\ Line = <<<<Line[1][1], 1>>, <<Line[1][1], 2>>>> /\ e = Line[1][1]
    BY <1>1 DEF decode, Line
  <1>3. Line[1] = <<e, 1>> /\ Line[2] = <<e, 2>>
    BY <1>2
  <1>4. e \in Events
    BY <1>2, <1>3, PieceFacts
  <1>5. Len(buf) >= 2 /\ buf[1] = <<e, 1>> /\ buf[2] = <<e, 2>>
    BY <1>1, <1>2, <1>3 DEF Line
  <1>6. Len(buf) = 2 \/ (Len(buf) = 3 /\ buf[3] = Eol)
    BY <1>1, <1>2 DEF Line, HasLine
  <1>7. 1 \in HeadsOf(e)
    BY <1>5, UnreadFacts DEF HeadsOf
  <1>8. ASSUME NEW f, NEW n \in HeadsOf(f), n <= Len(buf)
        PROVE  n = 1 /\ f = e
    <2>1. n \in DOMAIN buf /\ buf[n] = <<f, 1>>
      BY <1>8, UnreadFacts DEF HeadsOf
    <2>2. n = 1 \/ n = 2 \/ (n = 3 /\ Len(buf) = 3)
      BY <1>6, <2>1, UnreadFacts
    <2>3. QED BY <1>5, <1>6, <2>1, <2>2, PieceFacts
  <1>9. QED BY <1>4, <1>7, <1>8

LEMMA DecodesTo ==
  ASSUME TypeOK, NEW e, buf = <<<<e, 1>>, <<e, 2>>, Eol>> \/ buf = <<<<e, 1>>, <<e, 2>>>>
  PROVE  e \in decode(Line)
  <1>1. Line = <<<<e, 1>>, <<e, 2>>>>
    <2>1. CASE buf = <<<<e, 1>>, <<e, 2>>, Eol>>
      <3>1. ASSUME NEW x, NEW y, NEW z
            PROVE  /\ SubSeq(<<x, y, z>>, 1, 2) = <<x, y>>
                   /\ Len(<<x, y, z>>) = 3 /\ <<x, y, z>>[3] = z /\ <<x, y, z>> # <<>>
        <4> DEFINE s == <<x, y, z>>
                   t == SubSeq(s, 1, 2)
        <4>1. s \in Seq({x, y, z}) /\ Len(s) = 3 /\ s[1] = x /\ s[2] = y /\ s[3] = z
          OBVIOUS
        <4> HIDE DEF s
        <4>2. t \in Seq({x, y, z}) /\ Len(t) = 2 /\ t[1] = x /\ t[2] = y
          BY <4>1
        <4> HIDE DEF t
        <4>3. t = <<t[1], t[2]>>
          BY <4>2
        <4>4. s # <<>>
          BY <4>1
        <4>5. QED BY <4>1, <4>2, <4>3, <4>4 DEF s, t
      <3>2. Line = SubSeq(buf, 1, 2)
        BY <2>1, <3>1 DEF Line, HasLine
      <3>3. QED BY <2>1, <3>1, <3>2
    <2>2. CASE buf = <<<<e, 1>>, <<e, 2>>>>
      <3>1. buf[Len(buf)] = <<e, 2>>
        BY <2>2
      <3>2. QED BY <2>2, <3>1, PieceFacts DEF Line, HasLine
    <2>3. QED BY <2>1, <2>2
  <1>2. Len(Line) = 2 /\ Line[1] = <<e, 1>> /\ Line[1][1] = e
    BY <1>1
  <1>3. QED BY <1>1, <1>2, PieceFacts DEF decode

------------------------------------------------------------------------------
(* The order of the events.                                                *)

LEMMA BegunSame ==
  ASSUME UNCHANGED <<keys, outcome>>,
         \A p \in Procs : \A n \in 1 .. 2 : Begun(p, n)' <=> Begun(p, n)
  PROVE  AllEmitted' = AllEmitted
  BY SameScripts DEF AllEmitted

LEMMA BegunAdd ==
  ASSUME UNCHANGED <<keys, outcome>>, TypeOK, NEW q \in Procs, next[q] # 3,
         \A p \in Procs : \A n \in 1 .. 2 :
             Begun(p, n)' <=> Begun(p, n) \/ (p = q /\ n = next[q])
  PROVE  AllEmitted' = AllEmitted \cup {Current(q)}
  BY SameScripts, CurrentIsEvent DEF AllEmitted

\* What a goroutine is about to emit was not emitted, and nothing that comes
\* after it was.
LEMMA CurrentFollows ==
  ASSUME TypeOK, WriterInv, NEW p \in Procs, pc[p] = "write", part[p] = 1
  PROVE  /\ Current(p) \notin AllEmitted
         /\ \A e \in AllEmitted : Follows(e, Current(p))
  <1>1. next[p] \in 1 .. 2 /\ Current(p) = Script(p)[next[p]]
    BY CurrentIsEvent DEF TypeOK, WriterInv
  <1>2. ASSUME NEW e \in AllEmitted
        PROVE  e # Current(p) /\ ~Before(Current(p), e)
    <2>1. PICK q \in Procs, m \in 1 .. 2 : e = Script(q)[m] /\ Begun(q, m)
      BY DEF AllEmitted
    <2>2. e # Current(p)
      <3>1. ~Begun(p, next[p])
        BY <1>1 DEF Begun
      <3>2. QED BY <1>1, <2>1, <3>1, ScriptFacts
    <2>3. ~Before(Current(p), e)
      <3>1. SUFFICES ASSUME Before(Current(p), e) PROVE FALSE
        OBVIOUS
      <3>2. \/ p = Main /\ next[p] = 1
            \/ q = Main /\ m = 2
            \/ p = q /\ next[p] = 1 /\ m = 2
        BY <1>1, <2>1, <3>1, BeforeFacts
      <3>3. ~(p = q /\ next[p] = 1 /\ m = 2)
        BY <2>1 DEF Begun
      <3>4. ~(p = Main /\ next[p] = 1)
        <4>1. SUFFICES ASSUME p = Main, next[p] = 1 PROVE FALSE
          OBVIOUS
        <4>2. q # Main
          BY <1>1, <2>1, <2>2, <4>1 DEF Begun
        <4>3. q \in Repos /\ pc[q] = "emit" /\ next[q] = 1 /\ part[q] = 1
          BY <4>1, <4>2 DEF Procs, WriterInv, TypeOK
        <4>4. QED BY <2>1, <4>3 DEF Begun
      <3>5. ~(q = Main /\ m = 2)
        <4>1. SUFFICES ASSUME q = Main, m = 2 PROVE FALSE
          OBVIOUS
        <4>2. next[Main] = 3 \/ (next[Main] = 2 /\ pc[Main] # "emit")
          BY <2>1, <4>1 DEF Begun, WriterInv, TypeOK, Procs
        <4>3. p = Main
          BY <4>2 DEF WriterInv, Procs
        <4>4. QED BY <2>1, <4>1, <4>3 DEF Begun, WriterInv, TypeOK
      <3>6. QED BY <3>2, <3>3, <3>4, <3>5
    <2>4. QED BY <2>2, <2>3
  <1>3. QED BY <1>2 DEF Follows

LEMMA OrderSame ==
  ASSUME OrderInv, UNCHANGED <<keys, outcome, delivered>>, AllEmitted \subseteq AllEmitted',
         \A e : HeadsOf(e)' = HeadsOf(e)
  PROVE  OrderInv'
  <1>1. Events' = Events /\ Received' = Received
    BY SameScripts DEF Received
  <1>2. QED BY <1>1 DEF OrderInv

LEMMA OrderPush ==
  ASSUME TypeOK, OrderInv, UNCHANGED <<keys, outcome, delivered>>,
         NEW c \in Events, AllEmitted' = AllEmitted \cup {c},
         \A e \in AllEmitted : Follows(e, c),
         \A e : HeadsOf(e)' = HeadsOf(e) \cup (IF c = e THEN {Len(Unread) + 1} ELSE {})
  PROVE  OrderInv'
  <1>1. Events' = Events /\ Received' = Received
    BY SameScripts DEF Received
  <1>2. HeadsOf(c) = {}
    BY DEF OrderInv, Follows
  <1>3. \A e \in Events : HeadsOf(e)' # {} => e \in AllEmitted'
    BY DEF OrderInv
  <1>4. \A d \in Received, e \in Events : HeadsOf(e)' # {} => Follows(d, e)
    BY DEF OrderInv
  <1>5. ASSUME NEW e \in Events, NEW f \in Events,
               NEW m \in HeadsOf(e)', NEW n \in HeadsOf(f)', m < n
        PROVE  Follows(e, f)
    <2>1. Len(Unread) \in Nat /\ \A g : HeadsOf(g) \subseteq 1 .. Len(Unread)
      BY HeadsFacts, UnreadFacts
    <2>2. m \in HeadsOf(e)
      BY <1>5, <2>1
    <2>3. CASE n \in HeadsOf(f)
      BY <1>5, <2>2, <2>3 DEF OrderInv
    <2>4. CASE n \notin HeadsOf(f)
      BY <2>2, <2>4 DEF OrderInv
    <2>5. QED BY <2>3, <2>4
  <1>6. QED BY <1>1, <1>3, <1>4, <1>5 DEF OrderInv

\* A line that is not delivered takes nothing with it.
LEMMA OrderClear ==
  ASSUME TypeOK, OrderInv, UNCHANGED <<keys, outcome, delivered, pipe>>, buf' = <<>>,
         AllEmitted' = AllEmitted
  PROVE  OrderInv'
  <1>1. Events' = Events /\ Received' = Received
    BY SameScripts DEF Received
  <1>2. /\ Len(buf) \in Nat
        /\ \A e : HeadsOf(e)' = {n \in 1 .. Len(pipe) : n + Len(buf) \in HeadsOf(e)}
    BY ClearFacts, UnreadFacts
  <1>3. ASSUME NEW e \in Events, NEW f \in Events,
               NEW m \in HeadsOf(e)', NEW n \in HeadsOf(f)', m < n
        PROVE  Follows(e, f)
    BY <1>2, <1>3 DEF OrderInv
  <1>4. \A e : HeadsOf(e)' # {} => HeadsOf(e) # {}
    BY <1>2
  <1>5. QED BY <1>1, <1>3, <1>4 DEF OrderInv

LEMMA OrderDeliver ==
  ASSUME TypeOK, OrderInv, UNCHANGED <<keys, outcome, pipe>>, buf' = <<>>,
         AllEmitted' = AllEmitted,
         NEW c \in Events, 1 \in HeadsOf(c), buf # <<>>, delivered' = Append(delivered, c)
  PROVE  /\ OrderInv' /\ Received' = Received \cup {c} /\ c \notin Received
         /\ c = Script(Main)[1] => Received = {}
  <1>1. Events' = Events
    BY SameScripts
  <1>2. /\ delivered \in Seq(Events)
        /\ DOMAIN delivered' = DOMAIN delivered \cup {Len(delivered) + 1}
        /\ delivered'[Len(delivered) + 1] = c
        /\ \A n \in DOMAIN delivered : delivered'[n] = delivered[n] /\ n < Len(delivered) + 1
        /\ Len(delivered) + 1 \notin DOMAIN delivered
    BY DEF TypeOK
  <1>3. Received' = Received \cup {c}
    BY <1>2 DEF Received
  <1>4. /\ Len(buf) \in Nat \ {0} /\ Len(pipe) \in Nat
        /\ \A e : HeadsOf(e)' = {n \in 1 .. Len(pipe) : n + Len(buf) \in HeadsOf(e)}
    BY ClearFacts, UnreadFacts
  <1>5. ASSUME NEW e \in Events, NEW f \in Events,
               NEW m \in HeadsOf(e)', NEW n \in HeadsOf(f)', m < n
        PROVE  Follows(e, f)
    BY <1>4, <1>5 DEF OrderInv
  <1>6. \A e : HeadsOf(e)' # {} => HeadsOf(e) # {}
    BY <1>4
  <1>7. \A d \in Received : Follows(d, c)
    BY DEF OrderInv
  <1>8. ASSUME NEW m \in DOMAIN delivered', NEW n \in DOMAIN delivered', m < n
        PROVE  Follows(delivered'[m], delivered'[n])
    <2>1. m \in DOMAIN delivered /\ delivered[m] \in Received
      BY <1>2, <1>8 DEF Received
    <2>2. CASE n \in DOMAIN delivered
      BY <1>2, <1>8, <2>1, <2>2 DEF OrderInv
    <2>3. CASE n = Len(delivered) + 1
      BY <1>2, <1>7, <2>1, <2>3
    <2>4. QED BY <1>2, <2>2, <2>3
  <1>9. ASSUME NEW e \in Events, HeadsOf(e)' # {}
        PROVE  Follows(c, e)
    <2>1. PICK n \in HeadsOf(e)' : TRUE
      BY <1>9
    <2>2. n + Len(buf) \in HeadsOf(e) /\ 1 < n + Len(buf)
      BY <1>4, <2>1
    <2>3. QED BY <2>2 DEF OrderInv
  <1>10. c \in AllEmitted
    BY DEF OrderInv
  <1>11. OrderInv'
    BY <1>1, <1>3, <1>5, <1>6, <1>8, <1>9, <1>10 DEF OrderInv
  <1>12. c = Script(Main)[1] => Received = {}
    <2>1. \A d \in Received : d \in Events
      BY <1>2 DEF Received
    <2>2. QED BY <1>7, <2>1, StartIsFirst DEF Follows
  <1>13. QED BY <1>3, <1>7, <1>11, <1>12 DEF Follows

------------------------------------------------------------------------------
(* The writer.                                                             *)

LEMMA StepTypes ==
  ASSUME TypeOK
  PROVE  /\ pc \in [Procs -> {"emit", "write", "unlock", "returned", "done"}]
         /\ next \in [Procs -> 1 .. 3] /\ part \in [Procs -> 1 .. 3]
  BY DEF TypeOK

LEMMA LockFacts ==
  ASSUME TypeOK, WriterInv, NEW p \in Procs, Lock(p)
  PROVE  /\ WriterInv' /\ next[p] # 3 /\ \A q \in Procs : part[q] = 1 /\ part'[q] = 1
         /\ \/ AllEmitted' = AllEmitted /\ dropped' = dropped
            \/ /\ AllEmitted' = AllEmitted \cup {Current(p)}
               /\ dropped' = dropped \cup {Current(p)}
  <1>1. next[p] # 3 /\ next[p] \in 1 .. 2
    BY DEF Lock, Emits, WriterInv, TypeOK
  <1>2. \A q \in Procs : part[q] = 1 /\ part'[q] = 1
    BY ReposAssumption DEF Lock, WriterInv, TypeOK, Procs
  <1>3. /\ mu' = p /\ pc'[p] \in {"write", "unlock"} /\ pc \in [Procs -> {"emit", "write", "unlock", "returned", "done"}]
        /\ \A q \in Procs : q # p => pc'[q] = pc[q] /\ pc[q] \notin {"write", "unlock"}
        /\ UNCHANGED <<keys, outcome, next, part, killed, open>>
    BY ReposAssumption DEF Lock, WriterInv, TypeOK, Procs
  <1>4. WriterInv'
    <2>1. \A q \in Procs :
            /\ pc'[q] \in {"write", "unlock"} => mu' = q
            /\ part'[q] > 1 => pc'[q] = "write"
            /\ next'[q] = 3 <=> pc'[q] \in {"returned", "done"}
      BY <1>1, <1>2, <1>3 DEF WriterInv
    <2>2. open' <=> ~killed' /\ pc'[Main] # "done"
      BY <1>1, <1>3 DEF WriterInv, Procs, Lock, Emits
    <2>3. next'[Main] = 1 => \A r \in Repos : pc'[r] = "emit" /\ next'[r] = 1
      BY <1>3, ReposAssumption DEF WriterInv, Lock, Emits, Procs
    <2>4. next'[Main] = 3 \/ (next'[Main] = 2 /\ pc'[Main] # "emit") =>
            \A r \in Repos : pc'[r] = "done"
      BY <1>1, <1>3, ReposAssumption DEF WriterInv, Lock, Emits, Procs
    <2>5. QED BY <2>1, <2>2, <2>3, <2>4 DEF WriterInv
  <1>5. CASE Current(p).err \in Unencodable
    <2>1. pc'[p] = "unlock" /\ dropped' = dropped \cup {Current(p)}
      BY <1>5 DEF Lock, TypeOK
    <2>2. \A q \in Procs : \A n \in 1 .. 2 :
            Begun(q, n)' <=> Begun(q, n) \/ (q = p /\ n = next[p])
      BY <1>2, <1>3, <2>1 DEF Begun
    <2>3. QED BY <1>1, <1>2, <1>3, <1>4, <2>1, <2>2, BegunAdd
  <1>6. CASE Current(p).err \notin Unencodable
    <2>1. pc'[p] = "write" /\ pc[p] = "emit" /\ dropped' = dropped
      BY <1>6 DEF Lock, TypeOK, Emits
    <2>2. \A q \in Procs : \A n \in 1 .. 2 : Begun(q, n)' <=> Begun(q, n)
      BY <1>2, <1>3, <2>1 DEF Begun
    <2>3. QED BY <1>1, <1>2, <1>3, <1>4, <2>1, <2>2, BegunSame
  <1>7. QED BY <1>5, <1>6

LEMMA WriteFacts ==
  ASSUME TypeOK, WriterInv, NEW p \in Procs, Write(p) \/ WriteFails(p)
  PROVE  /\ WriterInv' /\ next[p] # 3 /\ pc[p] = "write"
         /\ \A q \in Procs : q # p => part[q] = 1 /\ part'[q] = 1
         /\ part[p] = 1 => AllEmitted' = AllEmitted \cup {Current(p)}
         /\ part[p] # 1 => AllEmitted' = AllEmitted
  <1>1. next[p] # 3 /\ next[p] \in 1 .. 2 /\ pc[p] = "write" /\ mu = p
    BY DEF Write, WriteFails, WriterInv, TypeOK
  <1>2. /\ pc'[p] = (IF part'[p] = 1 THEN "unlock" ELSE "write")
        /\ part[p] \in 1 .. 3 /\ part'[p] \in 1 .. 3
        /\ part[p] = 1 => part'[p] > 1 \/ pc'[p] = "unlock"
        /\ \A q \in Procs : q # p => pc'[q] = pc[q] /\ part'[q] = part[q]
        /\ UNCHANGED <<keys, outcome, next, mu, killed, open>>
    BY DEF Write, WriteFails, TypeOK
  <1>3. \A q \in Procs : q # p => part[q] = 1 /\ part'[q] = 1
    BY <1>1, <1>2 DEF WriterInv, TypeOK
  <1>4. WriterInv'
    <2>1. \A q \in Procs :
            /\ pc'[q] \in {"write", "unlock"} => mu' = q
            /\ part'[q] > 1 => pc'[q] = "write"
            /\ next'[q] = 3 <=> pc'[q] \in {"returned", "done"}
      <3> SUFFICES ASSUME NEW q \in Procs
                   PROVE  /\ pc'[q] \in {"write", "unlock"} => mu' = q
                          /\ part'[q] > 1 => pc'[q] = "write"
                          /\ next'[q] = 3 <=> pc'[q] \in {"returned", "done"}
        OBVIOUS
      <3>1. CASE q = p
        BY <1>1, <1>2, <3>1 DEF WriterInv
      <3>2. CASE q # p
        BY <1>2, <1>3, <3>2 DEF WriterInv
      <3>3. QED BY <3>1, <3>2
    <2>2. open' <=> ~killed' /\ pc'[Main] # "done"
      BY <1>1, <1>2 DEF WriterInv, Procs
    <2>3. next'[Main] = 1 => \A r \in Repos : pc'[r] = "emit" /\ next'[r] = 1
      BY <1>1, <1>2, ReposAssumption DEF WriterInv, Procs
    <2>4. next'[Main] = 3 \/ (next'[Main] = 2 /\ pc'[Main] # "emit") =>
            \A r \in Repos : pc'[r] = "done"
      BY <1>1, <1>2, ReposAssumption DEF WriterInv, Procs
    <2>5. QED BY <2>1, <2>2, <2>3, <2>4 DEF WriterInv
  <1>5. CASE part[p] = 1
    <2>1. \A q \in Procs : \A n \in 1 .. 2 :
            Begun(q, n)' <=> Begun(q, n) \/ (q = p /\ n = next[p])
      BY <1>2, <1>3, <1>5 DEF Begun
    <2>2. QED BY <1>1, <1>2, <1>3, <1>4, <1>5, <2>1, BegunAdd
  <1>6. CASE part[p] # 1
    <2>1. \A q \in Procs : \A n \in 1 .. 2 : Begun(q, n)' <=> Begun(q, n)
      BY <1>1, <1>2, <1>3, <1>6 DEF Begun
    <2>2. QED BY <1>1, <1>2, <1>3, <1>4, <1>6, <2>1, BegunSame
  <1>7. QED BY <1>5, <1>6

LEMMA UnlockFacts ==
  ASSUME TypeOK, WriterInv, NEW p \in Procs, Unlock(p)
  PROVE  WriterInv' /\ AllEmitted' = AllEmitted /\ \A q \in Procs : part[q] = 1
  <1>1. /\ pc[p] = "unlock" /\ mu = p /\ next[p] \in 1 .. 2 /\ next'[p] = next[p] + 1
        /\ pc'[p] = (IF next[p] = 2 THEN "returned" ELSE "emit")
        /\ \A q \in Procs : q # p => pc'[q] = pc[q] /\ next'[q] = next[q]
        /\ UNCHANGED <<keys, outcome, part, killed, open>>
    <2>1. /\ pc[p] = "unlock" /\ mu = p /\ next[p] # 3
          /\ next' = [next EXCEPT ![p] = @ + 1]
          /\ pc' = [pc EXCEPT ![p] = IF next[p] = 2 THEN "returned" ELSE "emit"]
          /\ UNCHANGED <<keys, outcome, part, killed, open>>
      <3>1. pc[p] = "unlock" => mu = p
        BY DEF WriterInv
      <3>2. next[p] = 3 <=> pc[p] \in {"returned", "done"}
        BY DEF WriterInv
      <3>3. QED BY <3>1, <3>2, ScriptFacts DEF Unlock
    <2>2. QED BY <2>1, StepTypes
  <1>2. \A q \in Procs : q # p => pc[q] \notin {"write", "unlock"}
    BY <1>1 DEF WriterInv
  <1>3. \A q \in Procs : part[q] = 1
    BY <1>1, <1>2 DEF WriterInv, TypeOK
  <1>4. WriterInv'
    <2>1. \A q \in Procs :
            /\ pc'[q] \in {"write", "unlock"} => mu' = q
            /\ part'[q] > 1 => pc'[q] = "write"
            /\ next'[q] = 3 <=> pc'[q] \in {"returned", "done"}
      BY <1>1, <1>2, <1>3 DEF WriterInv
    <2>2. open' <=> ~killed' /\ pc'[Main] # "done"
      BY <1>1 DEF WriterInv, Procs
    <2>3. next'[Main] = 1 => \A r \in Repos : pc'[r] = "emit" /\ next'[r] = 1
      BY <1>1, ReposAssumption DEF WriterInv, Procs
    <2>4. next'[Main] = 3 \/ (next'[Main] = 2 /\ pc'[Main] # "emit") =>
            \A r \in Repos : pc'[r] = "done"
      BY <1>1, ReposAssumption DEF WriterInv, Procs
    <2>5. QED BY <2>1, <2>2, <2>3, <2>4 DEF WriterInv
  <1>5. \A q \in Procs : \A n \in 1 .. 2 : Begun(q, n)' <=> Begun(q, n)
    BY <1>1, <1>3 DEF Begun, TypeOK
  <1>6. QED BY <1>1, <1>3, <1>4, <1>5, BegunSame

\* A result is entered, and the process ends.
LEMMA EndFacts ==
  ASSUME TypeOK, WriterInv, (\E r \in Repos : Finish(r)) \/ Exit \/ Kill
  PROVE  WriterInv' /\ AllEmitted' = AllEmitted
  <1>1. CASE \E r \in Repos : Finish(r)
    <2>1. PICK r \in Repos : Finish(r)
      BY <1>1
    <2>2. /\ pc[r] = "returned" /\ pc'[r] = "done" /\ r \in Procs /\ r # Main
          /\ \A q \in Procs : q # r => pc'[q] = pc[q]
          /\ UNCHANGED <<keys, outcome, next, part, mu, killed, open>>
      BY <2>1, ReposAssumption DEF Finish, TypeOK, Procs
    <2>3. part[r] = 1 /\ next[r] = 3
      BY <2>2, StepTypes DEF WriterInv
    <2>4. WriterInv'
      BY <2>2, <2>3, ReposAssumption DEF WriterInv, Procs
    <2>5. \A q \in Procs : \A n \in 1 .. 2 : Begun(q, n)' <=> Begun(q, n)
      BY <2>2, <2>3 DEF Begun
    <2>6. QED BY <2>2, <2>4, <2>5, BegunSame
  <1>2. CASE Exit
    <2>1. /\ pc[Main] = "returned" /\ pc'[Main] = "done" /\ Main \in Procs /\ ~open'
          /\ \A q \in Procs : q # Main => pc'[q] = pc[q]
          /\ UNCHANGED <<keys, outcome, next, part, mu, killed>>
      BY <1>2 DEF Exit, TypeOK, Procs
    <2>2. part[Main] = 1 /\ next[Main] = 3
      BY <2>1 DEF WriterInv, TypeOK
    <2>3. WriterInv'
      BY <2>1, <2>2, ReposAssumption DEF WriterInv, Procs
    <2>4. \A q \in Procs : \A n \in 1 .. 2 : Begun(q, n)' <=> Begun(q, n)
      BY <2>1, <2>2 DEF Begun
    <2>5. QED BY <2>1, <2>3, <2>4, BegunSame
  <1>3. CASE Kill
    <2>1. killed' /\ ~open' /\ UNCHANGED <<keys, outcome, pc, next, part, mu>>
      BY <1>3 DEF Kill
    <2>2. WriterInv'
      BY <2>1 DEF WriterInv
    <2>3. QED BY <2>1, <2>2, BegunSame DEF Begun
  <1>4. QED BY <1>1, <1>2, <1>3

LEMMA WriterSame ==
  ASSUME WriterInv, UNCHANGED producer
  PROVE  WriterInv' /\ AllEmitted' = AllEmitted
  <1>1. UNCHANGED <<keys, outcome, pc, next, part, mu, killed, open>>
    BY DEF producer
  <1>2. WriterInv'
    BY <1>1 DEF WriterInv
  <1>3. QED BY <1>1, <1>2, BegunSame DEF Begun

\* While somebody writes, the stream is open.
LEMMA WritingOpen ==
  ASSUME TypeOK, WriterInv, NEW p \in Procs, pc[p] = "write", ~killed
  PROVE  open
  <1>1. SUFFICES ASSUME ~open PROVE FALSE
    OBVIOUS
  <1>2. pc[Main] = "done" /\ next[Main] = 3
    BY <1>1 DEF WriterInv, Procs
  <1>3. \A r \in Repos : pc[r] = "done"
    BY <1>2 DEF WriterInv
  <1>4. QED BY <1>2, <1>3 DEF Procs

------------------------------------------------------------------------------
(* The reader.                                                             *)

LEMMA ReaderSame ==
  ASSUME ReaderInv, UNCHANGED <<buf, input, skipped, warned, rpc, rerr>>,
         open' => open, pipe' = pipe \/ open
  PROVE  ReaderInv'
  <1>1. /\ \A n \in DOMAIN buf' : buf'[n] = Eol => n = Len(buf')
        /\ warned' = IF skipped' <= maxStrayReports THEN skipped' ELSE maxStrayReports
    BY DEF ReaderInv
  <1>2. input' = "eof" => pipe' = <<>> /\ ~open'
    BY DEF ReaderInv
  <1>3. ReadAll' => input' = "eof" /\ buf' = <<>>
    BY DEF ReaderInv, ReadAll
  <1>4. QED BY <1>1, <1>2, <1>3 DEF ReaderInv

LEMMA ScanReader ==
  ASSUME TypeOK, ReaderInv, Scan PROVE ReaderInv'
  <1>1. buf \in Seq(Pieces) /\ pipe \in Seq(Pieces) /\ pipe # <<>>
    BY DEF TypeOK, Scan
  <1>2. \A n \in DOMAIN buf' : buf'[n] = Eol => n = Len(buf')
    <2>1. \A n \in DOMAIN buf : buf[n] # Eol
      BY <1>1 DEF ReaderInv, Scan, HasLine
    <2>2. QED BY <1>1, <2>1 DEF Scan
  <1>3. QED BY <1>2 DEF ReaderInv, Scan, ReadAll, producer

LEMMA LineReader ==
  ASSUME TypeOK, ReaderInv, Empty \/ Deliver \/ Skip PROVE ReaderInv'
  <1>1. /\ rpc' = "read" /\ buf' = <<>>
        /\ UNCHANGED <<pipe, input, open>>
    BY DEF Empty, Deliver, Skip, producer
  <1>2. warned' = IF skipped' <= maxStrayReports THEN skipped' ELSE maxStrayReports
    <2>1. CASE Empty \/ Deliver
      BY <2>1 DEF Empty, Deliver, ReaderInv
    <2>2. CASE Skip
      <3>1. skipped \in Nat /\ skipped' = skipped + 1
        BY <2>2 DEF Skip, TypeOK
      <3>2. QED BY <2>2, <3>1, BoundsAssumption DEF Skip, ReaderInv
    <2>3. QED BY <2>1, <2>2
  <1>3. QED BY <1>1, <1>2 DEF ReaderInv, ReadAll

LEMMA EndReader ==
  ASSUME TypeOK, ReaderInv, ScanEnds \/ ReadReturns \/ Close PROVE ReaderInv'
  <1>1. CASE ScanEnds
    BY <1>1 DEF ScanEnds, ReaderInv, ReadAll, producer
  <1>2. CASE ReadReturns
    <2>1. /\ rpc' = "returned" /\ (TooLong \/ (buf = <<>> /\ input # "open"))
          /\ rerr' = (TooLong \/ input = "failed")
          /\ UNCHANGED <<pipe, open, buf, input, skipped, warned>>
      BY <1>2 DEF ReadReturns, producer
    <2>2. ReadAll' => input' = "eof" /\ buf' = <<>>
      BY <2>1 DEF ReadAll, TypeOK
    <2>3. QED BY <2>1, <2>2 DEF ReaderInv
  <1>3. CASE Close
    BY <1>3, ReaderSame DEF Close, producer
  <1>4. QED BY <1>1, <1>2, <1>3

LEMMA EmptyLine ==
  ASSUME TypeOK, Empty
  PROVE  Len(buf) = 1 /\ buf[1] = Eol /\ \A e : 1 \notin HeadsOf(e)
  <1>1. buf \in Seq(Pieces) /\ buf # <<>> /\ Line = <<>>
    BY UnreadFacts DEF Empty, Found, HasLine
  <1>2. HasLine
    BY <1>1 DEF Line
  <1>3. PICK line : line = SubSeq(buf, 1, Len(buf) - 1)
    OBVIOUS
  <1>4. Len(buf) = 1 /\ buf[1] = Eol
    <2>1. line = <<>>
      BY <1>1, <1>2, <1>3 DEF Line
    <2>2. Len(buf) \in Nat \ {0} /\ Len(line) = Len(buf) - 1
      <3>1. PICK n \in Nat : n = Len(buf) - 1
        BY <1>1
      <3>2. Len(SubSeq(buf, 1, n)) = n
        BY <1>1, <3>1
      <3>3. QED BY <1>1, <1>3, <3>1, <3>2
    <2>3. Len(buf) = 1
      <3>1. Len(line) = 0
        BY <2>1
      <3>2. QED BY <2>2, <3>1
    <2>4. QED BY <1>2, <2>3 DEF HasLine
  <1>5. Unread[1] = Eol
    BY <1>4, UnreadFacts
  <1>6. QED BY <1>4, <1>5, PieceFacts DEF HeadsOf

------------------------------------------------------------------------------
(* Nothing gets lost in silence.                                           *)

LEMMA AccountKept ==
  ASSUME AccountInv,
         dropped \subseteq dropped', Received \subseteq Received',
         \A e \in AllEmitted' \ dropped' : e \in AllEmitted \/ HeadsOf(e)' # {},
         skipped' > 0 \/
            /\ skipped' = skipped
            /\ \A e : HeadsOf(e) # {} => HeadsOf(e)' # {} \/ e \in Received'
  PROVE  AccountInv'
  <1>1. \A e \in AllEmitted \ dropped :
          e \in Received \/ HeadsOf(e) # {} \/ skipped > 0
    BY DEF AccountInv
  <1>2. \A e \in AllEmitted' \ dropped' :
          e \in Received' \/ HeadsOf(e)' # {} \/ skipped' > 0
    BY <1>1
  <1>3. QED BY <1>2 DEF AccountInv

LEMMA LineAccount ==
  ASSUME IInv, Empty \/ Deliver \/ Skip, AllEmitted' = AllEmitted PROVE AccountInv'
  <1>1. /\ Len(buf) \in Nat
        /\ \A e : HeadsOf(e)' = {n \in 1 .. Len(pipe) : n + Len(buf) \in HeadsOf(e)}
        /\ \A e : HeadsOf(e) \subseteq 1 .. Len(buf) + Len(pipe)
    BY ClearFacts, UnreadFacts, HeadsFacts DEF IInv, Empty, Deliver, Skip
  <1>2. ASSUME NEW e, NEW n \in HeadsOf(e), n > Len(buf)
        PROVE  HeadsOf(e)' # {}
    <2>1. PICK k : k = n - Len(buf)
      OBVIOUS
    <2>2. Len(pipe) \in Nat /\ n \in 1 .. Len(buf) + Len(pipe)
      BY <1>1, UnreadFacts DEF IInv
    <2>3. k \in 1 .. Len(pipe) /\ k + Len(buf) = n
      BY <1>1, <1>2, <2>1, <2>2
    <2>4. k \in HeadsOf(e)'
      BY <1>1, <2>3
    <2>5. QED BY <2>4
  <1>3. dropped' = dropped
    BY DEF Empty, Deliver, Skip, producer
  <1>4. CASE Empty
    <2>1. ASSUME NEW e, NEW n \in HeadsOf(e) PROVE HeadsOf(e)' # {}
      <3>1. n \in 1 .. Len(buf) + Len(pipe) /\ n # 1 /\ Len(buf) = 1
        BY <1>1, <1>4, EmptyLine DEF IInv
      <3>2. n > Len(buf)
        BY <3>1, UnreadFacts DEF IInv
      <3>3. QED BY <1>2, <3>2
    <2>2. skipped' = skipped /\ Received' = Received
      BY <1>4 DEF Empty, Received
    <2>3. QED BY <1>3, <2>1, <2>2, AccountKept DEF IInv
  <1>5. CASE Deliver
    <2>1. PICK c \in decode(Line) : delivered' = Append(delivered, c)
      BY <1>5 DEF Deliver
    <2>2. /\ c \in Events /\ 1 \in HeadsOf(c) /\ buf # <<>>
          /\ \A f : \A n \in HeadsOf(f) : n <= Len(buf) => n = 1 /\ f = c
      BY <1>5, <2>1, DecodeFacts DEF Deliver, IInv, Found, HasLine
    <2>3. Received' = Received \cup {c}
      BY <1>5, <2>1, <2>2, OrderDeliver DEF Deliver, IInv, producer
    <2>4. \A e : HeadsOf(e) # {} => HeadsOf(e)' # {} \/ e \in Received'
      BY <1>1, <1>2, <2>2, <2>3
    <2>5. skipped' = skipped
      BY <1>5 DEF Deliver
    <2>6. QED BY <1>3, <2>3, <2>4, <2>5, AccountKept DEF IInv
  <1>6. CASE Skip
    <2>1. skipped' > 0 /\ Received' = Received
      BY <1>6 DEF Skip, IInv, TypeOK, Received
    <2>2. QED BY <1>3, <2>1, AccountKept DEF IInv
  <1>7. QED BY <1>4, <1>5, <1>6

------------------------------------------------------------------------------
(* How much is lost.                                                       *)

LEMMA CountFacts ==
  ASSUME NEW S, IsFiniteSet(S), NEW T
  PROVE  /\ Cardinality(S) \in Nat
         /\ T \subseteq S => Cardinality(T) \in Nat /\ Cardinality(T) <= Cardinality(S)
         /\ \A c : T \subseteq S \cup {c} =>
               Cardinality(T) \in Nat /\ Cardinality(T) <= Cardinality(S) + 1
  <1>1. Cardinality(S) \in Nat
    BY FS_CardinalityType
  <1>2. ASSUME NEW U, IsFiniteSet(U), T \subseteq U
        PROVE  Cardinality(T) \in Nat /\ Cardinality(T) <= Cardinality(U)
    BY <1>2, FS_Subset, FS_CardinalityType
  <1>3. ASSUME NEW c, T \subseteq S \cup {c}
        PROVE  Cardinality(T) \in Nat /\ Cardinality(T) <= Cardinality(S) + 1
    <2>1. IsFiniteSet(S \cup {c}) /\ Cardinality(S \cup {c}) <= Cardinality(S) + 1
      BY <1>1, FS_AddElement
    <2>2. Cardinality(T) \in Nat /\ Cardinality(T) <= Cardinality(S \cup {c})
      BY <1>2, <1>3, <2>1
    <2>3. Cardinality(S \cup {c}) \in Nat
      BY <2>1, FS_CardinalityType
    <2>4. QED BY <1>1, <2>1, <2>2, <2>3
  <1>4. QED BY <1>1, <1>2, <1>3

LEMMA HarmedFinite == IsFiniteSet(Harmed)
  <1>1. Harmed \subseteq Events
    BY DEF Harmed, AllEmitted
  <1>2. QED BY <1>1, EventsFinite

LEMMA HarmStays ==
  ASSUME NEW X, Received \subseteq Received', dropped \subseteq dropped',
         \A e \in AllEmitted' \ dropped' : e \in AllEmitted \/ e \in X,
         \A e \in AllEmitted : \A n \in HeadsOf(e) :
             Intact(e, n) =>
                 e \in X \/ e \in Received' \/ \E k \in HeadsOf(e)' : Intact(e, k)'
  PROVE  Harmed' \subseteq Harmed \cup X
  <1> SUFFICES ASSUME NEW e \in Harmed', e \notin X PROVE e \in Harmed
    OBVIOUS
  <1>1. /\ e \in AllEmitted' \ dropped' /\ e \notin Received'
        /\ \A k \in HeadsOf(e)' : ~Intact(e, k)'
    BY DEF Harmed
  <1>2. e \in AllEmitted \ dropped /\ e \notin Received
    BY <1>1
  <1>3. \A n \in HeadsOf(e) : ~Intact(e, n)
    BY <1>1, <1>2
  <1>4. QED BY <1>2, <1>3 DEF Harmed

\* What is written later leaves a line as it is.
LEMMA PushKeeps ==
  ASSUME TypeOK, NEW x \in Pieces, pipe' = Append(pipe, x), buf' = buf,
         NEW e, NEW n \in HeadsOf(e)
  PROVE  /\ n \in HeadsOf(e)' /\ n \in 1 .. Len(Unread)
         /\ LineStart(n) => LineStart(n)'
         /\ Whole(e, n) => Whole(e, n)'
  <1>1. n \in 1 .. Len(Unread) /\ Len(Unread) \in Nat /\ DOMAIN Unread = 1 .. Len(Unread)
    BY HeadsFacts, UnreadFacts
  <1>2. /\ DOMAIN Unread' = 1 .. Len(Unread) + 1
        /\ \A k \in DOMAIN Unread : Unread'[k] = Unread[k]
        /\ n \in HeadsOf(e)'
    BY PushFacts
  <1>3. LineStart(n) => LineStart(n)'
    <2>1. n = 1 \/ n - 1 \in DOMAIN Unread
      BY <1>1
    <2>2. QED BY <1>2, <2>1 DEF LineStart
  <1>4. Whole(e, n) => Whole(e, n)'
    <2>1. n + 2 \in DOMAIN Unread => n + 1 \in DOMAIN Unread /\ n + 2 \in DOMAIN Unread'
      BY <1>1, <1>2
    <2>2. QED BY <1>2, <2>1 DEF Whole
  <1>5. QED BY <1>1, <1>2, <1>3, <1>4

LEMMA SameKeeps ==
  ASSUME Unread' = Unread
  PROVE  /\ \A e : HeadsOf(e)' = HeadsOf(e)
         /\ \A n : LineStart(n)' <=> LineStart(n)
         /\ \A e, n : Whole(e, n)' <=> Whole(e, n)
  BY DEF HeadsOf, LineStart, Whole

LEMMA UnderWaySame ==
  ASSUME Unread' = Unread, UNCHANGED <<keys, outcome, next, part, killed>>
  PROVE  \A e, n : UnderWay(e, n)' <=> UnderWay(e, n)
  BY SameScripts DEF UnderWay, Current

LEMMA NobodyWrites ==
  ASSUME \A p \in Procs : part[p] = 1
  PROVE  \A e, n : ~UnderWay(e, n)
  BY DEF UnderWay

\* A line that was dealt with leaves those behind it as they are.
LEMMA ShiftKeeps ==
  ASSUME TypeOK, buf' = <<>>, UNCHANGED <<pipe, keys, outcome, next, part, killed>>,
         NEW e, NEW n \in HeadsOf(e), n > Len(buf), Intact(e, n)
  PROVE  \E k \in HeadsOf(e)' : Intact(e, k)'
  <1>1. /\ Len(Unread') = Len(pipe) /\ DOMAIN Unread' = 1 .. Len(pipe)
        /\ \A k \in 1 .. Len(pipe) : Unread'[k] = Unread[k + Len(buf)]
        /\ \A f : HeadsOf(f)' = {k \in 1 .. Len(pipe) : k + Len(buf) \in HeadsOf(f)}
    BY ClearFacts
  <1>2. /\ Len(buf) \in Nat /\ Len(pipe) \in Nat /\ Len(Unread) = Len(buf) + Len(pipe)
        /\ DOMAIN Unread = 1 .. Len(Unread) /\ n \in 1 .. Len(Unread)
    BY UnreadFacts, HeadsFacts
  <1>3. PICK k \in 1 .. Len(pipe) : n = k + Len(buf)
    <2>1. n - Len(buf) \in 1 .. Len(pipe) /\ n = (n - Len(buf)) + Len(buf)
      BY <1>2
    <2>2. QED BY <2>1
  <1>4. k \in HeadsOf(e)'
    BY <1>1, <1>3
  <1>5. LineStart(k)'
    <2>1. CASE k = 1
      BY <2>1 DEF LineStart
    <2>2. CASE k # 1
      <3>1. k - 1 \in 1 .. Len(pipe) /\ (k - 1) + Len(buf) = n - 1 /\ n # 1
        BY <1>2, <1>3, <2>2
      <3>2. Unread[n - 1] = Eol
        BY <3>1 DEF Intact, LineStart
      <3>3. Unread'[k - 1] = Eol
        BY <1>1, <3>1, <3>2
      <3>4. QED BY <3>3 DEF LineStart
    <2>3. QED BY <2>1, <2>2
  <1>6. CASE Whole(e, n)
    <2>1. k + 2 \in 1 .. Len(pipe) /\ k + 1 \in 1 .. Len(pipe)
      BY <1>2, <1>3, <1>6 DEF Whole
    <2>2. (k + 1) + Len(buf) = n + 1 /\ (k + 2) + Len(buf) = n + 2
      BY <1>2, <1>3
    <2>3. Unread'[k + 1] = <<e, 2>> /\ Unread'[k + 2] = Eol
      BY <1>1, <1>6, <2>1, <2>2 DEF Whole
    <2>4. Whole(e, k)'
      BY <1>1, <2>1, <2>3 DEF Whole
    <2>5. QED BY <1>4, <1>5, <2>4 DEF Intact
  <1>7. CASE UnderWay(e, n)
    <2>1. PICK p \in Procs : /\ part[p] > 1 /\ Current(p) = e
                             /\ Len(Unread) = n + part[p] - 2
                             /\ part[p] = 3 => Unread[n + 1] = <<e, 2>>
      BY <1>7 DEF UnderWay
    <2>2. part[p] \in 1 .. 3 /\ part'[p] = part[p] /\ ~killed'
      BY <1>7 DEF TypeOK, UnderWay
    <2>3. Current(p)' = e
      BY <2>1, SameScripts DEF Current
    <2>4. Len(Unread') = k + part'[p] - 2
      BY <1>1, <1>2, <1>3, <2>1, <2>2
    <2>5. part'[p] = 3 => Unread'[k + 1] = <<e, 2>>
      <3>1. CASE part[p] = 3
        <4>1. k + 1 \in 1 .. Len(pipe) /\ (k + 1) + Len(buf) = n + 1
          BY <1>1, <1>2, <1>3, <2>2, <2>4, <3>1
        <4>2. QED BY <1>1, <2>1, <3>1, <4>1
      <3>2. QED BY <2>2, <3>1
    <2>6. UnderWay(e, k)'
      BY <2>1, <2>2, <2>3, <2>4, <2>5 DEF UnderWay
    <2>7. QED BY <1>4, <1>5, <2>6 DEF Intact
  <1>8. QED BY <1>6, <1>7 DEF Intact

LEMMA OneFacts == \A b \in BOOLEAN : One(b) \in 0 .. 1 /\ (~b => One(b) = 0) /\ (b => One(b) = 1)
  BY DEF One

\* A step that pays for what it disturbs keeps the count.
LEMMA HarmSum ==
  ASSUME TypeOK, HarmInv, input' # "failed" => input # "failed", NEW c, NEW x \in Nat,
         2 * torn' + strays' + One(killed') = 2 * torn + strays + One(killed) + x,
         input # "failed" =>
            \/ Harmed' \subseteq Harmed /\ One(Dirty') <= One(Dirty) + x
            \/ Harmed' \subseteq Harmed \cup {c} /\ One(Dirty') + 1 <= One(Dirty) + x
  PROVE  HarmInv'
  <1> SUFFICES ASSUME input' # "failed"
               PROVE  Cardinality(Harmed') + One(Dirty') <= 2 * torn' + strays' + One(killed')
    BY DEF HarmInv
  <1>1. Cardinality(Harmed) + One(Dirty) <= 2 * torn + strays + One(killed)
    BY DEF HarmInv
  <1>2. /\ Cardinality(Harmed) \in Nat
        /\ Harmed' \subseteq Harmed =>
              Cardinality(Harmed') \in Nat /\ Cardinality(Harmed') <= Cardinality(Harmed)
        /\ Harmed' \subseteq Harmed \cup {c} =>
              Cardinality(Harmed') \in Nat /\ Cardinality(Harmed') <= Cardinality(Harmed) + 1
    BY HarmedFinite, CountFacts
  <1>3. One(Dirty) \in Nat /\ One(Dirty') \in Nat /\ One(killed) \in Nat
    BY DEF One
  <1>4. torn \in Nat /\ strays \in Nat
    BY DEF TypeOK
  <1>5. PICK h, g, d, e, s, t :
          /\ h = Cardinality(Harmed) /\ g = Cardinality(Harmed')
          /\ d = One(Dirty) /\ e = One(Dirty')
          /\ s = 2 * torn + strays + One(killed) /\ t = 2 * torn' + strays' + One(killed')
    OBVIOUS
  <1>6. s \in Nat /\ t = s + x
    BY <1>3, <1>4, <1>5
  <1>7. /\ h \in Nat /\ g \in Nat /\ d \in Nat /\ e \in Nat
        /\ (g <= h /\ e <= d + x) \/ (g <= h + 1 /\ e + 1 <= d + x)
        /\ h + d <= s
    BY <1>1, <1>2, <1>3, <1>5
  <1>8. g + e <= t
    BY <1>6, <1>7
  <1>9. QED BY <1>5, <1>8

LEMMA HarmFree ==
  ASSUME TypeOK, HarmInv, input' # "failed" => input # "failed",
         UNCHANGED <<torn, strays, killed>>,
         input # "failed" => Harmed' \subseteq Harmed /\ (Dirty' => Dirty)
  PROVE  HarmInv'
  <1>1. One(killed') = One(killed) /\ One(killed) \in 0 .. 1
    BY OneFacts DEF TypeOK
  <1>2. torn \in Nat /\ strays \in Nat /\ 0 \in Nat
    BY DEF TypeOK
  <1>3. 2 * torn' + strays' + One(killed') = 2 * torn + strays + One(killed) + 0
    BY <1>1, <1>2
  <1>4. input # "failed" => One(Dirty') <= One(Dirty) + 0
    BY DEF One
  <1>5. QED BY <1>2, <1>3, <1>4, HarmSum

\* Nothing is read or written.
LEMMA HarmStill ==
  ASSUME Unread' = Unread, \A e, n : UnderWay(e, n) => UnderWay(e, n)',
         Received \subseteq Received', dropped \subseteq dropped',
         AllEmitted' \ dropped' \subseteq AllEmitted
  PROVE  Harmed' \subseteq Harmed
  <1>1. \A e, n : Intact(e, n) => Intact(e, n)'
    BY SameKeeps DEF Intact
  <1>2. \A e : HeadsOf(e)' = HeadsOf(e)
    BY SameKeeps
  <1>3. Harmed' \subseteq Harmed \cup {}
    BY <1>1, <1>2, HarmStays
  <1>4. QED BY <1>3

LEMMA OneWrites ==
  ASSUME TypeOK, WriterInv, NEW p \in Procs, part[p] > 1
  PROVE  /\ pc[p] = "write" /\ part[p] \in 2 .. 3
         /\ \A q \in Procs : part[q] > 1 => q = p
  <1>1. part[p] \in 1 .. 3
    BY DEF TypeOK
  <1>2. QED BY <1>1 DEF WriterInv

LEMMA UnreadSame ==
  ASSUME UNCHANGED <<buf, pipe>> PROVE Unread' = Unread
  BY DEF Unread

LEMMA HarmLock ==
  ASSUME IInv, NEW p \in Procs, Lock(p) PROVE HarmInv'
  <1>1. UNCHANGED <<keys, outcome, next, part, killed, open, torn, strays, pipe, buf, input, delivered>>
    BY DEF Lock, reader
  <1>2. Unread' = Unread /\ Received' = Received
    BY <1>1, UnreadSame DEF Received
  <1>3. /\ dropped \subseteq dropped'
        /\ AllEmitted' \ dropped' \subseteq AllEmitted
    BY LockFacts DEF IInv
  <1>4. Harmed' \subseteq Harmed
    BY <1>1, <1>2, <1>3, HarmStill, UnderWaySame
  <1>5. Dirty' <=> Dirty
    BY <1>1, <1>2 DEF Dirty
  <1>6. QED BY <1>1, <1>4, <1>5, HarmFree DEF IInv

LEMMA HarmSame ==
  ASSUME IInv, UNCHANGED <<keys, outcome, open, part, torn, strays, killed, pipe, buf, dropped, delivered>>,
         AllEmitted' = AllEmitted,
         UNCHANGED next \/ \A q \in Procs : part[q] = 1,
         input' # "failed" => input # "failed"
  PROVE  HarmInv'
  <1>1. Unread' = Unread /\ Received' = Received
    BY UnreadSame DEF Received
  <1>2. \A e, n : UnderWay(e, n) => UnderWay(e, n)'
    BY <1>1, UnderWaySame, NobodyWrites
  <1>3. Harmed' \subseteq Harmed
    BY <1>1, <1>2, HarmStill
  <1>4. Dirty' <=> Dirty
    BY <1>1 DEF Dirty
  <1>5. QED BY <1>3, <1>4, HarmFree DEF IInv

LEMMA DirtyMeans ==
  ASSUME TypeOK, NEW p \in Procs, part[p] > 1 PROVE ~Dirty
  BY DEF Dirty, TypeOK

\* The first piece of a line is written.
LEMMA HarmBegin ==
  ASSUME IInv, NEW p \in Procs, Write(p), part[p] = 1 PROVE HarmInv'
  <1> PICK c, n : c = Current(p) /\ n = Len(Unread) + 1
    OBVIOUS
  <1>1. /\ UNCHANGED <<keys, outcome, next, killed, open, dropped, torn, strays, buf, input, delivered>>
        /\ ~killed /\ pipe' = Append(pipe, <<c, 1>>) /\ part'[p] = 2
    BY DEF Write, reader, Piece, IInv, TypeOK
  <1>2. /\ next[p] # 3 /\ pc[p] = "write" /\ AllEmitted' = AllEmitted \cup {c}
        /\ \A q \in Procs : part[q] = 1
    BY WriteFacts DEF IInv
  <1>3. c \in Events /\ <<c, 1>> \in Pieces /\ c \notin AllEmitted
    <2>1. TypeOK /\ WriterInv /\ part[p] = 1
      BY DEF IInv
    <2>2. c \in Events /\ c \notin AllEmitted
      BY <1>2, <2>1, CurrentIsEvent, CurrentFollows
    <2>3. QED BY <2>2, PieceIn
  <1>4. /\ Len(Unread) \in Nat /\ DOMAIN Unread = 1 .. Len(Unread)
        /\ Len(Unread') = n /\ n \in HeadsOf(c)'
        /\ \A k \in DOMAIN Unread : Unread'[k] = Unread[k]
    BY <1>1, <1>3, PushFacts, UnreadFacts DEF IInv
  <1>5. Current(p)' = c
    BY <1>1, SameScripts DEF Current
  <1>6. UnderWay(c, n)'
    <2>1. ~killed' /\ part'[p] > 1 /\ Len(Unread') = n + part'[p] - 2 /\ part'[p] # 3
      BY <1>1, <1>4
    <2>2. QED BY <1>5, <2>1 DEF UnderWay
  <1>7. ~Dirty'
    BY <1>1 DEF Dirty
  <1>8. Received' = Received
    BY <1>1 DEF Received
  <1>9. ASSUME NEW e \in AllEmitted, NEW k \in HeadsOf(e), Intact(e, k)
        PROVE  \E m \in HeadsOf(e)' : Intact(e, m)'
    <2>1. Whole(e, k) /\ LineStart(k)
      BY <1>2, <1>9, NobodyWrites DEF Intact
    <2>2. k \in HeadsOf(e)' /\ Whole(e, k)' /\ LineStart(k)'
      BY <1>1, <1>3, <2>1, PushKeeps DEF IInv
    <2>3. QED BY <2>2 DEF Intact
  <1>10. Harmed' \subseteq Harmed \cup {c}
    BY <1>1, <1>2, <1>8, <1>9, HarmStays
  <1>11. CASE Dirty
    <2>1. One(Dirty') + 1 <= One(Dirty) + 0
      BY <1>7, <1>11 DEF One
    <2>2. One(killed') = One(killed) /\ One(killed) \in 0 .. 1 /\ torn \in Nat /\ strays \in Nat
      BY <1>1, OneFacts DEF IInv, TypeOK
    <2>3. 2 * torn' + strays' + One(killed') = 2 * torn + strays + One(killed) + 0 /\ 0 \in Nat
      BY <1>1, <2>2
    <2>4. QED BY <1>1, <1>10, <2>1, <2>3, HarmSum DEF IInv
  <1>12. CASE ~Dirty
    <2>1. Unread = <<>> \/ Unread[Len(Unread)] = Eol
      BY <1>1, <1>2, <1>12, WritingOpen DEF Dirty, IInv
    <2>2. LineStart(n)'
      <3>1. n = 1 \/ Unread'[n - 1] = Eol
        <4>1. CASE Unread = <<>>
          BY <4>1
        <4>2. CASE Unread # <<>> /\ Unread[Len(Unread)] = Eol
          <5>1. Len(Unread) \in DOMAIN Unread /\ n - 1 = Len(Unread)
            BY <1>4, <4>2, UnreadFacts DEF IInv
          <5>2. QED BY <1>4, <4>2, <5>1
        <4>3. QED BY <2>1, <4>1, <4>2
      <3>2. QED BY <3>1 DEF LineStart
    <2>3. Intact(c, n)'
      BY <1>6, <2>2 DEF Intact
    <2>4. c \notin Harmed'
      BY <1>4, <2>3 DEF Harmed
    <2>5. Harmed' \subseteq Harmed
      BY <1>10, <2>4
    <2>6. QED BY <1>1, <1>7, <2>5, HarmFree DEF IInv
  <1>13. QED BY <1>11, <1>12

\* The rest of a line is written.
LEMMA HarmGoOn ==
  ASSUME IInv, NEW p \in Procs, Write(p), part[p] # 1 PROVE HarmInv'
  <1> PICK c, x : c = Current(p) /\ x = Piece(c, part[p])
    OBVIOUS
  <1>1. /\ UNCHANGED <<keys, outcome, next, killed, open, dropped, torn, strays, buf, input, delivered>>
        /\ ~killed /\ pipe' = Append(pipe, x) /\ part[p] \in 2 .. 3
        /\ part[p] = 2 => part'[p] = 3
        /\ part[p] = 3 => part'[p] = 1
    BY DEF Write, reader, IInv, TypeOK
  <1>2. /\ next[p] # 3 /\ AllEmitted' = AllEmitted
        /\ \A q \in Procs : q # p => part[q] = 1
    BY WriteFacts DEF IInv
  <1>3. c \in Events /\ x \in Pieces
    <2>1. c \in Events
      BY <1>2, CurrentIsEvent DEF IInv
    <2>2. part[p] = 2 \/ part[p] = 3
      BY <1>1
    <2>3. x = Eol \/ x = <<c, 2>>
      BY <2>2 DEF Piece
    <2>4. Eol \in Pieces
      BY PieceFacts
    <2>5. QED BY <2>1, <2>3, <2>4, PieceIn
  <1>4. Current(p)' = c /\ Received' = Received
    BY <1>1, SameScripts DEF Current, Received
  <1>5. /\ Len(Unread) \in Nat /\ DOMAIN Unread = 1 .. Len(Unread)
        /\ Len(Unread') = Len(Unread) + 1 /\ DOMAIN Unread' = 1 .. Len(Unread) + 1
        /\ \A k \in DOMAIN Unread : Unread'[k] = Unread[k]
        /\ Unread'[Len(Unread) + 1] = x
    BY <1>1, <1>3, PushFacts, UnreadFacts DEF IInv
  <1>6. ~Dirty'
    <2>1. CASE part[p] = 2
      BY <1>1, <2>1 DEF Dirty
    <2>2. CASE part[p] = 3
      <3>1. x = Eol
        BY <2>2 DEF Piece
      <3>2. QED BY <1>5, <3>1 DEF Dirty
    <2>3. QED BY <1>1, <2>1, <2>2
  <1>7. ASSUME NEW e \in AllEmitted, NEW k \in HeadsOf(e), Intact(e, k)
        PROVE  \E m \in HeadsOf(e)' : Intact(e, m)'
    <2>1. /\ k \in HeadsOf(e)' /\ LineStart(k)' /\ k \in 1 .. Len(Unread)
          /\ Whole(e, k) => Whole(e, k)'
      BY <1>1, <1>3, <1>7, PushKeeps DEF IInv, Intact
    <2>2. CASE Whole(e, k)
      BY <2>1, <2>2 DEF Intact
    <2>3. CASE UnderWay(e, k)
      <3>1. /\ c = e /\ Len(Unread) = k + part[p] - 2
            /\ part[p] = 3 => Unread[k + 1] = <<e, 2>>
        BY <1>2, <2>3 DEF UnderWay
      <3>2. CASE part[p] = 2
        <4>1. x = <<e, 2>> /\ Len(Unread) = k
          BY <1>5, <2>1, <3>1, <3>2 DEF Piece
        <4>2. Unread'[k + 1] = <<e, 2>>
          BY <1>5, <4>1
        <4>3. ~killed' /\ part'[p] = 3 /\ Current(p)' = e /\ Len(Unread') = k + part'[p] - 2
          BY <1>1, <1>4, <1>5, <2>1, <3>1, <3>2, <4>1
        <4>4. UnderWay(e, k)'
          BY <4>2, <4>3 DEF UnderWay
        <4>5. QED BY <2>1, <4>4 DEF Intact
      <3>3. CASE part[p] = 3
        <4>1. x = Eol /\ Len(Unread) = k + 1
          BY <1>5, <2>1, <3>1, <3>3 DEF Piece
        <4>2. Unread'[k + 1] = <<e, 2>> /\ k + 2 \in DOMAIN Unread' /\ Unread'[k + 2] = Eol
          BY <1>5, <2>1, <3>1, <3>3, <4>1
        <4>3. Whole(e, k)'
          BY <4>2 DEF Whole
        <4>4. QED BY <2>1, <4>3 DEF Intact
      <3>4. QED BY <1>1, <3>2, <3>3
    <2>4. QED BY <1>7, <2>2, <2>3 DEF Intact
  <1>8. Harmed' \subseteq Harmed \cup {}
    BY <1>1, <1>2, <1>4, <1>7, HarmStays
  <1>9. QED BY <1>1, <1>6, <1>8, HarmFree DEF IInv

\* Whoever is cut short loses its own event, and may spoil the next.
LEMMA HarmTorn ==
  ASSUME IInv, NEW p \in Procs, WriteFails(p), AllEmitted' \ dropped' \subseteq AllEmitted
  PROVE  HarmInv'
  <1> PICK c : c = Current(p)
    OBVIOUS
  <1>1. /\ UNCHANGED <<keys, outcome, next, killed, open, pipe, strays, buf, input, delivered>>
        /\ dropped \subseteq dropped' /\ part[p] \in 1 .. 3 /\ part'[p] = 1
        /\ \A q \in Procs : q # p => part'[q] = part[q]
        /\ part[p] = 1 => torn' = torn
        /\ part[p] > 1 => torn' = torn + 1
    BY DEF WriteFails, reader, IInv, TypeOK
  <1>2. \A q \in Procs : q # p => part[q] = 1
    BY WriteFacts DEF IInv
  <1>3. Unread' = Unread /\ Received' = Received
    BY <1>1, UnreadSame DEF Received
  <1>4. CASE part[p] = 1
    <2>1. \A q \in Procs : part[q] = 1
      BY <1>2, <1>4
    <2>2. Harmed' \subseteq Harmed
      BY <1>1, <1>3, <2>1, HarmStill, NobodyWrites
    <2>3. Dirty' => Dirty
      BY <1>1, <1>3, <2>1 DEF Dirty
    <2>4. QED BY <1>1, <1>4, <2>2, <2>3, HarmFree DEF IInv
  <1>5. CASE part[p] > 1
    <2>1. \A e, n : Intact(e, n) => e = c \/ Intact(e, n)'
      BY <1>2, <1>3, SameKeeps DEF Intact, UnderWay
    <2>2. \A e : HeadsOf(e)' = HeadsOf(e)
      BY <1>3, SameKeeps
    <2>3. Harmed' \subseteq Harmed \cup {c}
      <3>1. \A e \in AllEmitted : \A n \in HeadsOf(e) :
              Intact(e, n) => e \in {c} \/ e \in Received' \/ \E k \in HeadsOf(e)' : Intact(e, k)'
        BY <2>1, <2>2
      <3>2. QED BY <1>1, <1>3, <3>1, HarmStays
    <2>4. One(Dirty') + 1 <= One(Dirty) + 2
      BY DEF One
    <2>5. One(killed') = One(killed) /\ One(killed) \in 0 .. 1 /\ torn \in Nat /\ strays \in Nat
      BY <1>1, OneFacts DEF IInv, TypeOK
    <2>6. 2 * torn' + strays' + One(killed') = 2 * torn + strays + One(killed) + 2 /\ 2 \in Nat
      BY <1>1, <1>5, <2>5
    <2>7. QED BY <1>1, <2>3, <2>4, <2>6, HarmSum DEF IInv
  <1>6. QED BY <1>1, <1>4, <1>5

\* The end of the process costs the event that is being written.
LEMMA HarmKill ==
  ASSUME IInv, Kill PROVE HarmInv'
  <1>1. /\ UNCHANGED <<keys, outcome, next, part, dropped, pipe, strays, torn, buf, input, delivered>>
        /\ ~open' /\ killed' /\ killed = FALSE
    BY DEF Kill, reader, IInv, WriterInv, TypeOK
  <1>2. AllEmitted' = AllEmitted
    BY EndFacts DEF IInv
  <1>3. Unread' = Unread /\ Received' = Received
    BY <1>1, UnreadSame DEF Received
  <1>4. PICK c : \A p \in Procs : part[p] > 1 => Current(p) = c
    <2>1. CASE \E p \in Procs : part[p] > 1
      <3>1. PICK p \in Procs : part[p] > 1
        BY <2>1
      <3>2. PICK c : c = Current(p)
        OBVIOUS
      <3>3. \A q \in Procs : part[q] > 1 => Current(q) = c
        BY <3>1, <3>2, OneWrites DEF IInv
      <3>4. QED BY <3>3
    <2>2. CASE ~\E p \in Procs : part[p] > 1
      BY <2>2
    <2>3. QED BY <2>1, <2>2
  <1>5. \A e, n : Intact(e, n) => e = c \/ Intact(e, n)'
    BY <1>3, <1>4, SameKeeps DEF Intact, UnderWay
  <1>6. Harmed' \subseteq Harmed \cup {c}
    <2>1. \A e \in AllEmitted : \A n \in HeadsOf(e) :
            Intact(e, n) => e \in {c} \/ e \in Received' \/ \E k \in HeadsOf(e)' : Intact(e, k)'
      BY <1>3, <1>5, SameKeeps
    <2>2. QED BY <1>1, <1>2, <1>3, <2>1, HarmStays
  <1>7. ~Dirty'
    BY <1>1 DEF Dirty
  <1>8. One(Dirty') + 1 <= One(Dirty) + 1
    BY <1>7 DEF One
  <1>9. One(killed') = 1 /\ One(killed) = 0 /\ torn \in Nat /\ strays \in Nat
    BY <1>1 DEF IInv, TypeOK, One
  <1>10. 2 * torn' + strays' + One(killed') = 2 * torn + strays + One(killed) + 1 /\ 1 \in Nat
    <2>1. torn' = torn /\ strays' = strays
      BY <1>1
    <2>2. QED BY <1>9, <2>1
  <1>11. QED BY <1>1, <1>6, <1>8, <1>10, HarmSum DEF IInv

\* What others write spoils the line it falls into, or the next.
LEMMA HarmStray ==
  ASSUME IInv, NEW x \in {Junk, Eol}, Stray(x) PROVE HarmInv'
  <1>1. /\ UNCHANGED <<keys, outcome, next, part, killed, open, torn, dropped, buf, input, delivered>>
        /\ pipe' = Append(pipe, x) /\ strays' = strays + 1
        /\ UNCHANGED producer
    BY DEF Stray, producer, reader
  <1>2. AllEmitted' = AllEmitted /\ Received' = Received
    BY <1>1, WriterSame DEF IInv, Received
  <1>3. x \in Pieces
    BY PieceFacts
  <1>4. \A e : \A n \in HeadsOf(e) :
          /\ n \in HeadsOf(e)'
          /\ LineStart(n) => LineStart(n)'
          /\ Whole(e, n) => Whole(e, n)'
    BY <1>1, <1>3, PushKeeps DEF IInv
  <1>5. One(Dirty) \in 0 .. 1 /\ One(Dirty') \in 0 .. 1 /\ (~Dirty' => One(Dirty') = 0)
    BY DEF One
  <1>6. One(killed') = One(killed) /\ One(killed) \in 0 .. 1 /\ torn \in Nat /\ strays \in Nat
    BY <1>1, OneFacts DEF IInv, TypeOK
  <1>7. 2 * torn' + strays' + One(killed') = 2 * torn + strays + One(killed) + 1 /\ 1 \in Nat
    BY <1>1, <1>6
  <1>8. CASE \A p \in Procs : part[p] = 1
    <2>1. \A e, n : ~UnderWay(e, n)
      BY <1>8, NobodyWrites
    <2>2. \A e \in AllEmitted : \A n \in HeadsOf(e) :
            Intact(e, n) => e \in {} \/ e \in Received' \/ \E k \in HeadsOf(e)' : Intact(e, k)'
      BY <1>4, <2>1 DEF Intact
    <2>3. Harmed' \subseteq Harmed \cup {}
      BY <1>1, <1>2, <2>2, HarmStays
    <2>4. One(Dirty') <= One(Dirty) + 1
      BY <1>5
    <2>5. QED BY <1>1, <1>7, <2>3, <2>4, HarmSum DEF IInv
  <1>9. CASE \E p \in Procs : part[p] # 1
    <2>1. PICK p \in Procs : part[p] > 1
      BY <1>9 DEF IInv, TypeOK
    <2>2. PICK c : c = Current(p)
      OBVIOUS
    <2>3. \A q \in Procs : part[q] > 1 => q = p
      BY <2>1, OneWrites DEF IInv
    <2>4. \A e \in AllEmitted : \A n \in HeadsOf(e) :
            Intact(e, n) => e \in {c} \/ e \in Received' \/ \E k \in HeadsOf(e)' : Intact(e, k)'
      BY <1>4, <2>2, <2>3 DEF Intact, UnderWay
    <2>5. Harmed' \subseteq Harmed \cup {c}
      BY <1>1, <1>2, <2>4, HarmStays
    <2>6. ~Dirty'
      BY <1>1, <2>1 DEF Dirty, IInv, TypeOK
    <2>7. One(Dirty') + 1 <= One(Dirty) + 1
      BY <1>5, <2>6
    <2>8. QED BY <1>1, <1>7, <2>5, <2>7, HarmSum DEF IInv
  <1>10. QED BY <1>8, <1>9

LEMMA ThreeFacts ==
  ASSUME NEW S, NEW s \in Seq(S), Len(s) = 3, NEW x, NEW y, NEW z,
         s[1] = x, s[2] = y, s[3] = z
  PROVE  s = <<x, y, z>>
  OBVIOUS

\* A line that was dealt with while its event was intact has delivered it.
LEMMA IntactIsFound ==
  ASSUME IInv, input # "failed", Found, NEW e \in Events, NEW n \in HeadsOf(e), Intact(e, n),
         n <= Len(buf)
  PROVE  n = 1 /\ e \in decode(Line)
  <1>1. /\ buf \in Seq(Pieces) /\ buf # <<>> /\ Len(buf) \in Nat /\ DOMAIN buf = 1 .. Len(buf)
        /\ \A k \in DOMAIN buf : Unread[k] = buf[k]
        /\ DOMAIN Unread = 1 .. Len(buf) + Len(pipe) /\ Len(pipe) \in Nat
        /\ Len(Unread) = Len(buf) + Len(pipe)
    BY UnreadFacts DEF IInv, Found, HasLine
  <1>2. \A k \in DOMAIN buf : buf[k] = Eol => k = Len(buf)
    BY DEF IInv, ReaderInv
  <1>3. /\ n \in 1 .. Len(buf) /\ Unread[n] = <<e, 1>> /\ n \in DOMAIN buf
        /\ <<e, 1>> # Eol /\ <<e, 2>> # Eol
    BY <1>1, PieceFacts DEF HeadsOf
  <1>4. n = 1
    <2>1. SUFFICES ASSUME n # 1 PROVE FALSE
      OBVIOUS
    <2>2. Unread[n - 1] = Eol
      BY <2>1 DEF Intact, LineStart
    <2>3. n - 1 \in DOMAIN buf /\ n - 1 # Len(buf)
      BY <1>1, <1>3, <2>1
    <2>4. QED BY <1>1, <1>2, <2>2, <2>3
  <1>5. HasLine \/ (input = "eof" /\ pipe = <<>> /\ ~open)
    BY DEF Found, IInv, ReaderInv, TypeOK
  <1>6. CASE Whole(e, n)
    <2>1. 3 \in DOMAIN Unread /\ Unread[2] = <<e, 2>> /\ Unread[3] = Eol
      BY <1>4, <1>6 DEF Whole
    <2>2. HasLine => Len(buf) >= 3
      <3>1. SUFFICES ASSUME HasLine, Len(buf) < 3 PROVE FALSE
        BY <1>1
      <3>2. Len(buf) = 1 \/ Len(buf) = 2
        BY <1>1, <1>3, <3>1
      <3>3. buf[Len(buf)] = Eol
        BY <3>1 DEF HasLine
      <3>4. buf[Len(buf)] = Unread[Len(buf)]
        BY <1>1, <3>2
      <3>5. QED BY <1>3, <1>4, <2>1, <3>2, <3>3, <3>4
    <2>3. Len(buf) >= 3
      BY <1>1, <1>5, <2>1, <2>2
    <2>4. 3 \in DOMAIN buf /\ 2 \in DOMAIN buf /\ 1 \in DOMAIN buf
      BY <1>1, <2>3
    <2>5. Len(buf) = 3 /\ buf[1] = <<e, 1>> /\ buf[2] = <<e, 2>> /\ buf[3] = Eol
      BY <1>1, <1>2, <1>3, <1>4, <2>1, <2>4
    <2>6. buf = <<<<e, 1>>, <<e, 2>>, Eol>>
      <3>1. PICK x, y, z : x = <<e, 1>> /\ y = <<e, 2>> /\ z = Eol
        OBVIOUS
      <3>2. buf \in Seq(Pieces) /\ Len(buf) = 3 /\ buf[1] = x /\ buf[2] = y /\ buf[3] = z
        BY <1>1, <2>5, <3>1
      <3>3. buf = <<x, y, z>>
        BY <3>2, ThreeFacts
      <3>4. QED BY <3>1, <3>3
    <2>7. QED BY <1>4, <2>6, DecodesTo DEF IInv
  <1>7. CASE UnderWay(e, n)
    <2>1. PICK p \in Procs : /\ part[p] > 1 /\ Len(Unread) = n + part[p] - 2
                             /\ part[p] = 3 => Unread[n + 1] = <<e, 2>>
      BY <1>7 DEF UnderWay
    <2>2. pc[p] = "write" /\ part[p] \in 2 .. 3 /\ ~killed
      BY <1>7, <2>1, OneWrites DEF IInv, UnderWay
    <2>3. HasLine
      BY <1>5, <2>2, WritingOpen DEF IInv
    <2>4. buf[Len(buf)] = Eol
      BY <2>3 DEF HasLine
    <2>5. Len(buf) = 1 \/ (Len(buf) = 2 /\ part[p] = 3)
      BY <1>1, <1>3, <1>4, <2>1, <2>2
    <2>6. buf[Len(buf)] = Unread[Len(buf)]
      BY <1>1, <2>5
    <2>7. QED BY <1>3, <1>4, <2>1, <2>4, <2>5, <2>6
  <1>8. QED BY <1>6, <1>7 DEF Intact

LEMMA HarmLine ==
  ASSUME IInv, Empty \/ Deliver \/ Skip PROVE HarmInv'
  <1>1. /\ UNCHANGED <<keys, outcome, next, part, killed, open, torn, strays, dropped, pipe, input>>
        /\ buf' = <<>> /\ Found /\ UNCHANGED producer
    BY DEF Empty, Deliver, Skip, producer
  <1>2. SUFFICES ASSUME input # "failed" PROVE HarmInv'
    BY <1>1 DEF HarmInv
  <1>3. AllEmitted' = AllEmitted
    BY <1>1, WriterSame DEF IInv
  <1>4. Received \subseteq Received' /\ \A e \in decode(Line) : e \in Received'
    <2>1. CASE Empty
      BY <2>1 DEF Empty, Received, decode
    <2>2. CASE Skip
      BY <2>2 DEF Skip, Received
    <2>3. CASE Deliver
      <3>1. PICK c \in decode(Line) : delivered' = Append(delivered, c)
        BY <2>3 DEF Deliver
      <3>2. c \in Events /\ 1 \in HeadsOf(c) /\ buf # <<>>
        BY <1>1, <3>1, DecodeFacts DEF IInv, Found, HasLine
      <3>3. Received' = Received \cup {c}
        BY <1>1, <1>3, <3>1, <3>2, OrderDeliver DEF IInv
      <3>4. \A e \in decode(Line) : e = c
        BY <3>1 DEF decode
      <3>5. QED BY <3>3, <3>4
    <2>4. QED BY <2>1, <2>2, <2>3
  <1>5. \A e \in AllEmitted : \A n \in HeadsOf(e) :
          Intact(e, n) => e \in {} \/ e \in Received' \/ \E k \in HeadsOf(e)' : Intact(e, k)'
    <2> SUFFICES ASSUME NEW e \in AllEmitted, NEW n \in HeadsOf(e), Intact(e, n)
                 PROVE  e \in Received' \/ \E k \in HeadsOf(e)' : Intact(e, k)'
      OBVIOUS
    <2>1. e \in Events /\ n \in 1 .. Len(Unread) /\ Len(buf) \in Nat /\ Len(Unread) \in Nat
      BY HeadsFacts, UnreadFacts DEF IInv, AllEmitted
    <2>2. CASE n <= Len(buf)
      BY <1>1, <1>2, <1>4, <2>1, <2>2, IntactIsFound
    <2>3. CASE n > Len(buf)
      BY <1>1, <2>3, ShiftKeeps DEF IInv
    <2>4. QED BY <2>1, <2>2, <2>3
  <1>6. Harmed' \subseteq Harmed \cup {}
    BY <1>1, <1>3, <1>4, <1>5, HarmStays
  <1>7. Dirty' => Dirty
    <2>1. SUFFICES ASSUME Dirty' PROVE Dirty
      OBVIOUS
    <2>2. /\ Len(Unread') = Len(pipe) /\ Len(pipe) \in Nat /\ Len(buf) \in Nat
          /\ Len(Unread) = Len(buf) + Len(pipe)
          /\ \A n \in 1 .. Len(pipe) : Unread'[n] = Unread[n + Len(buf)]
          /\ pipe \in Seq(Pieces) /\ Unread' = pipe
      <3>1. pipe \in Seq(Pieces)
        BY UnreadFacts DEF IInv
      <3>2. Unread' = pipe
        BY <1>1, <3>1 DEF Unread
      <3>3. QED BY <1>1, <3>1, <3>2, ClearFacts, UnreadFacts DEF IInv
    <2>3. open /\ (\A p \in Procs : part[p] = 1) /\ Unread' # <<>> /\ Unread'[Len(Unread')] # Eol
      BY <1>1, <2>1 DEF Dirty
    <2>4. Len(pipe) \in 1 .. Len(pipe)
      BY <2>2, <2>3
    <2>5. Unread[Len(Unread)] # Eol /\ Unread # <<>>
      <3>1. Unread'[Len(pipe)] = Unread[Len(pipe) + Len(buf)] /\ Len(pipe) + Len(buf) = Len(Unread)
        BY <2>2, <2>4
      <3>2. Len(Unread) # 0
        BY <2>2, <2>4
      <3>3. QED BY <2>2, <2>3, <3>1, <3>2
    <2>6. QED BY <2>3, <2>5 DEF Dirty
  <1>8. QED BY <1>1, <1>6, <1>7, HarmFree DEF IInv

------------------------------------------------------------------------------
(* The boards.                                                             *)

\* A set of positions has a greatest one.
LEMMA GreatestExists ==
  ASSUME NEW L \in Nat, NEW S \in SUBSET (1 .. L), S # {}
  PROVE  \E n \in S : \A m \in S : m <= n
  <1> DEFINE R == OpToRel(<, Nat)
             T == {L - n : n \in S}
  <1>1. IsWellFoundedOn(R, Nat)
    BY NatLessThanWellFounded
  <1>2. \A x \in Nat, y \in Nat : x < y => <<x, y>> \in R
    BY DEF OpToRel
  <1>3. T \subseteq Nat /\ T # {}
    <2>1. \A n \in S : L - n \in Nat
      OBVIOUS
    <2>2. QED BY <2>1
  <1> HIDE DEF R
  <1>4. PICK x \in T : \A y \in T : ~(<<y, x>> \in R)
    BY <1>1, <1>3, WFMin
  <1>5. PICK n \in S : x = L - n
    OBVIOUS
  <1>6. \A m \in S : m <= n
    <2> SUFFICES ASSUME NEW m \in S, m > n PROVE FALSE
      BY SMT
    <2>1. L - m \in T /\ L - m \in Nat /\ x \in Nat /\ L - m < x
      BY <1>5
    <2>2. QED BY <1>2, <1>4, <2>1
  <1>7. QED BY <1>6

Entered(r, d, e) == [Row(r) EXCEPT !.data = d, !.err = e]

LEMMA RowFacts ==
  ASSUME NEW r, NEW d, NEW e
  PROVE  Entered(r, d, e) = [key |-> r, data |-> d, err |-> e, remote |-> FALSE, pending |-> FALSE]
  <1>1. PICK no, none : no = FALSE /\ none = ""
    OBVIOUS
  <1> DEFINE f == [key |-> r, data |-> none, err |-> none, remote |-> no, pending |-> no]
             g == [key |-> r, data |-> d, err |-> none, remote |-> no, pending |-> no]
             h == [key |-> r, data |-> d, err |-> e, remote |-> no, pending |-> no]
  <1>2. Row(r) = f
    BY <1>1 DEF Row
  <1>3. [f EXCEPT !.data = d] = g
    OBVIOUS
  <1>4. [g EXCEPT !.err = e] = h
    OBVIOUS
  <1>5. h = [key |-> r, data |-> d, err |-> e, remote |-> FALSE, pending |-> FALSE]
    BY <1>1
  <1> HIDE DEF f, g, h
  <1>6. [Row(r) EXCEPT !.data = d, !.err = e] = h
    BY <1>2, <1>3, <1>4
  <1>7. QED BY <1>5, <1>6 DEF Entered

LEMMA RowsIn ==
  ASSUME NEW k \in Proper \cup Improper, NEW d \in Texts, NEW e \in Texts,
         NEW m \in BOOLEAN, NEW p \in BOOLEAN
  PROVE  [key |-> k, data |-> d, err |-> e, remote |-> m, pending |-> p] \in Rows
  BY DEF Rows

\* The board of a run before anything is known.
LEMMA BlankFacts ==
  ASSUME RunInv
  PROVE  /\ Blank \in BoardsFor(keys)
         /\ DOMAIN Blank.rows \subseteq DOMAIN keys
         /\ \A n \in DOMAIN Blank.rows :
               /\ Blank.rows[n] = [Row(keys[n]) EXCEPT !.pending = TRUE]
               /\ Blank.rows[n].key = keys[n] /\ Blank.rows[n].pending
         /\ \A r \in DOMAIN Blank.index :
               Blank.index[r] \in DOMAIN Blank.rows /\ keys[Blank.index[r]] = r
         /\ \A n \in DOMAIN Blank.rows : keys[n] \in DOMAIN Blank.index
  <1>1. keys \in Seq(Proper \cup Improper) /\ Len(keys) \in Nat /\ DOMAIN keys = 1 .. Len(keys)
    BY RunsAssumption DEF RunInv
  <1> PICK known : known = {n \in DOMAIN keys : splitKey(keys[n]) # NoKey}
    OBVIOUS
  <1> PICK repos : repos = [n \in known |-> Row(keys[n])]
    OBVIOUS
  <1>2. /\ DOMAIN repos = known /\ known \subseteq 1 .. Len(keys)
        /\ \A n \in known : repos[n] = Row(keys[n]) /\ repos[n].key = keys[n]
    BY <1>1 DEF Row
  <1>3. Blank = NewBoard(repos)
    BY DEF Blank, NewBoardFor
  <1>4. /\ Blank.rows = [n \in known |-> [repos[n] EXCEPT !.pending = TRUE]]
        /\ Blank.index = [key \in {repos[n].key : n \in known} |->
                              CHOOSE n \in known :
                                  /\ repos[n].key = key
                                  /\ \A m \in known : repos[m].key = key => m <= n]
        /\ Blank = [rows |-> Blank.rows, index |-> Blank.index]
    BY <1>2, <1>3 DEF NewBoard
  <1>5. ASSUME NEW n \in known
        PROVE  /\ Blank.rows[n] = [Row(keys[n]) EXCEPT !.pending = TRUE]
               /\ Blank.rows[n].key = keys[n] /\ Blank.rows[n].pending
    <2>1. Blank.rows[n] = [Row(keys[n]) EXCEPT !.pending = TRUE]
      BY <1>2, <1>4
    <2>2. QED BY <2>1 DEF Row
  <1>6. ASSUME NEW r \in DOMAIN Blank.index
        PROVE  Blank.index[r] \in known /\ keys[Blank.index[r]] = r
    <2> PICK same : same = {n \in known : repos[n].key = r}
      OBVIOUS
    <2>1. same # {} /\ same \in SUBSET (1 .. Len(keys))
      BY <1>2, <1>4
    <2>2. \E n \in same : \A m \in same : m <= n
      <3>1. Len(keys) \in Nat
        BY <1>1
      <3>2. QED BY <2>1, <3>1, GreatestExists
    <2>3. \E n \in known : repos[n].key = r /\ \A m \in known : repos[m].key = r => m <= n
      BY <2>2
    <2>4. Blank.index[r] = CHOOSE n \in known :
              repos[n].key = r /\ \A m \in known : repos[m].key = r => m <= n
      BY <1>4
    <2>5. Blank.index[r] \in known /\ repos[Blank.index[r]].key = r
      BY <2>3, <2>4
    <2>6. QED BY <1>2, <2>5
  <1>7. DOMAIN Blank.rows = known
    BY <1>4
  <1>8. \A n \in known : keys[n] \in DOMAIN Blank.index
    BY <1>2, <1>4
  <1>9. Blank \in BoardsFor(keys)
    <2>1. \A n \in known : Blank.rows[n] \in Rows
      <3> SUFFICES ASSUME NEW n \in known PROVE Blank.rows[n] \in Rows
        OBVIOUS
      <3>1. PICK no, yes, none : no = FALSE /\ yes = TRUE /\ none = ""
        OBVIOUS
      <3>2. Blank.rows[n] =
              [key |-> keys[n], data |-> none, err |-> none, remote |-> no, pending |-> yes]
        <4>1. Row(keys[n]) =
                [key |-> keys[n], data |-> none, err |-> none, remote |-> no, pending |-> no]
          BY <3>1 DEF Row
        <4>2. Blank.rows[n] = [Row(keys[n]) EXCEPT !.pending = yes]
          BY <1>5, <3>1
        <4>3. QED BY <4>1, <4>2
      <3>3. keys[n] \in Proper \cup Improper
        BY <1>1, <1>2
      <3>4. none \in Texts
        BY <3>1, TextsAssumption
      <3>5. no \in BOOLEAN /\ yes \in BOOLEAN
        BY <3>1
      <3>6. QED BY <3>2, <3>3, <3>4, <3>5, RowsIn
    <2>2. Blank.rows \in [DOMAIN Blank.rows -> Rows]
      BY <1>4, <1>7, <2>1
    <2>3. BoardsFor(keys) = [rows : [DOMAIN Blank.rows -> Rows], index : {Blank.index}]
      BY DEF BoardsFor, Blank
    <2>4. QED BY <1>4, <2>2, <2>3
  <1>10. QED BY <1>2, <1>4, <1>5, <1>6, <1>7, <1>8, <1>9

LEMMA SaidFacts ==
  ASSUME RunInv, NEW r \in Repos, NEW remote \in BOOLEAN
  PROVE  /\ Said(r, remote) \in Rows /\ Said(r, remote).key = r /\ ~Said(r, remote).pending
         /\ Said(r, remote).data = outcome[r].data /\ Said(r, remote).err = outcome[r].err
  <1>1. outcome[r] \in [data : Texts, err : Texts]
    BY RunsAssumption DEF RunInv
  <1>2. splitKey(r) = r /\ r \in Proper
    BY ReposAssumption DEF splitKey
  <1>3. PICK no : no = FALSE
    OBVIOUS
  <1>4. Said(r, FALSE) = [key |-> r, data |-> outcome[r].data, err |-> outcome[r].err,
                          remote |-> no, pending |-> no]
    <2>1. Said(r, FALSE) = Entered(r, outcome[r].data, outcome[r].err)
      BY DEF Said, Entered
    <2>2. Said(r, FALSE) = [key |-> r, data |-> outcome[r].data, err |-> outcome[r].err,
                            remote |-> FALSE, pending |-> FALSE]
      BY <2>1, RowFacts
    <2>3. QED BY <1>3, <2>2
  <1>5. PICK m \in BOOLEAN : m = (outcome[r].err # "")
    OBVIOUS
  <1>6. Said(r, TRUE) = [key |-> r, data |-> outcome[r].data, err |-> outcome[r].err,
                         remote |-> m, pending |-> no]
    BY <1>2, <1>3, <1>5 DEF Said, ResultOf, RepoDone, Event
  <1>7. no \in BOOLEAN /\ outcome[r].data \in Texts /\ outcome[r].err \in Texts
    BY <1>1, <1>3
  <1>8. remote = FALSE \/ remote = TRUE
    OBVIOUS
  <1>9. PICK x \in BOOLEAN :
          Said(r, remote) = [key |-> r, data |-> outcome[r].data, err |-> outcome[r].err,
                             remote |-> x, pending |-> no]
    BY <1>4, <1>6, <1>7, <1>8
  <1>10. Said(r, remote) \in Rows
    BY <1>2, <1>7, <1>9, RowsIn
  <1>11. QED BY <1>3, <1>9, <1>10

LEMMA BoardsAre ==
  ASSUME NEW board \in BoardsFor(keys)
  PROVE  /\ board = [rows |-> board.rows, index |-> board.index]
         /\ board.index = Blank.index
         /\ board.rows \in [DOMAIN Blank.rows -> Rows] /\ DOMAIN board.rows = DOMAIN Blank.rows
  BY DEF BoardsFor, Blank

LEMMA ShowsBlank ==
  ASSUME RunInv, NEW remote \in BOOLEAN PROVE Shows(Blank, {}, remote)
  BY BlankFacts DEF Shows

\* The board once r's result is entered.
LEMMA ShowsSet ==
  ASSUME RunInv, NEW board, NEW repos \in SUBSET Repos, NEW remote \in BOOLEAN,
         Shows(board, repos, remote), NEW r \in Repos, NEW row, row = Said(r, remote)
  PROVE  Shows(Set(board, row), repos \cup {r}, remote)
  <1>1. row.key = r /\ row \in Rows
    BY SaidFacts
  <1>2. CASE r \notin DOMAIN Blank.index
    <2>1. Set(board, row) = board
      BY <1>1, <1>2, BoardsAre DEF Set, Shows
    <2>2. QED BY <1>2, <2>1 DEF Shows
  <1>3. CASE r \in DOMAIN Blank.index
    <2> PICK rows, index, i : rows = board.rows /\ index = Blank.index /\ i = index[r]
      OBVIOUS
    <2> PICK new : new = [rows EXCEPT ![i] = row]
      OBVIOUS
    <2>1. /\ board = [rows |-> rows, index |-> index] /\ DOMAIN rows = DOMAIN Blank.rows
          /\ rows \in [DOMAIN Blank.rows -> Rows]
      BY BoardsAre DEF Shows
    <2>2. Set(board, row) = [rows |-> new, index |-> index]
      BY <1>1, <1>3, <2>1 DEF Set
    <2>3. i \in DOMAIN rows /\ keys[i] = r
      BY <1>3, <2>1, BlankFacts
    <2>4. new[i] = row /\ DOMAIN new = DOMAIN rows /\ \A n \in DOMAIN rows : n # i => new[n] = rows[n]
      BY <2>3
    <2>5. ASSUME NEW q \in repos \cup {r}, q \in DOMAIN Blank.index
          PROVE  new[Blank.index[q]] = Said(q, remote)
      <3>1. CASE q = r
        BY <2>4, <3>1
      <3>2. CASE q # r
        <4>1. Blank.index[q] \in DOMAIN rows /\ Blank.index[q] # i
          BY <2>1, <2>3, <2>5, <3>2, BlankFacts
        <4>2. rows[Blank.index[q]] = Said(q, remote)
          BY <2>5, <3>2 DEF Shows
        <4>3. QED BY <2>4, <4>1, <4>2
      <3>3. QED BY <3>1, <3>2
    <2>6. ASSUME NEW n \in DOMAIN Blank.rows,
                 \A q \in repos \cup {r} : q \in DOMAIN Blank.index => Blank.index[q] # n
          PROVE  new[n] = Blank.rows[n]
      <3>1. n # i /\ n \in DOMAIN rows
        BY <1>3, <2>1, <2>6
      <3>2. rows[n] = Blank.rows[n]
        BY <2>6 DEF Shows
      <3>3. QED BY <2>4, <3>1, <3>2
    <2> PICK after : after = Set(board, row)
      OBVIOUS
    <2>7. after.rows = new /\ after = [rows |-> new, index |-> Blank.index]
      BY <2>2
    <2>8. after \in BoardsFor(keys)
      <3>1. new \in [DOMAIN Blank.rows -> Rows]
        BY <1>1, <2>1, <2>3
      <3>2. BoardsFor(keys) = [rows : [DOMAIN Blank.rows -> Rows], index : {Blank.index}]
        BY DEF BoardsFor, Blank
      <3>3. QED BY <2>7, <3>1, <3>2
    <2>9. \A q \in repos \cup {r} : q \in DOMAIN Blank.index =>
             after.rows[Blank.index[q]] = Said(q, remote)
      <3>1. after.rows = new
        BY <2>7
      <3>2. QED BY <2>5, <3>1, Zenon
    <2>10. \A n \in DOMAIN Blank.rows :
              (\A q \in repos \cup {r} : q \in DOMAIN Blank.index => Blank.index[q] # n) =>
                  after.rows[n] = Blank.rows[n]
      BY <2>6, <2>7
    <2>11. Shows(after, repos \cup {r}, remote)
      BY <2>8, <2>9, <2>10, Zenon DEF Shows
    <2>12. QED BY <2>11
  <1>4. QED BY <1>2, <1>3

LEMMA BlankSame ==
  ASSUME UNCHANGED keys PROVE Blank' = Blank /\ BoardsFor(keys)' = BoardsFor(keys)
  BY DEF Blank

LEMMA SaidSame ==
  ASSUME UNCHANGED <<keys, outcome>> PROVE \A r, remote : Said(r, remote)' = Said(r, remote)
  BY DEF Said, ResultOf, RepoDone, Event

\* What a board shows does not depend on what else happens.
LEMMA LocalKept ==
  ASSUME RunInv, UNCHANGED <<keys, outcome>>, NEW S,
         {r \in Repos : pc'[r] = "done"} = S, Shows(local', S, FALSE)
  PROVE  Shows(local, {r \in Repos : pc[r] = "done"}, FALSE)'
  <1>1. {r \in Repos : pc[r] = "done"}' = S
    OBVIOUS
  <1>2. /\ Blank' = Blank /\ BoardsFor(keys)' = BoardsFor(keys)
        /\ \A r : Said(r, FALSE)' = Said(r, FALSE)
    BY BlankSame, SaidSame
  <1>3. QED BY <1>1, <1>2 DEF Shows

LEMMA TableKept ==
  ASSUME RunInv, UNCHANGED <<keys, outcome>>, NEW S,
         {r \in Repos : RepoDone(r) \in Received'} = S, Shows(table', S, TRUE)
  PROVE  Shows(table, {r \in Repos : RepoDone(r) \in Received}, TRUE)'
  <1>1. \A r : RepoDone(r)' = RepoDone(r)
    BY SameScripts
  <1>2. {r \in Repos : RepoDone(r) \in Received}' = S
    BY <1>1
  <1>3. QED BY <1>2, BlankSame, SaidSame DEF Shows

LEMMA BoardSame ==
  ASSUME RunInv, BoardInv, UNCHANGED <<keys, outcome, local, table, delivered>>,
         \A r \in Repos : pc'[r] = "done" <=> pc[r] = "done"
  PROVE  BoardInv'
  <1>1. Received' = Received
    BY DEF Received
  <1>2. PICK D, S : /\ D = {r \in Repos : pc[r] = "done"}
                    /\ S = {r \in Repos : RepoDone(r) \in Received}
    OBVIOUS
  <1>3. Shows(local, D, FALSE) /\ (table # NoBoard => Shows(table, S, TRUE) /\ Script(Main)[1] \in Received)
    BY <1>2 DEF BoardInv
  <1>4. {r \in Repos : pc'[r] = "done"} = D /\ Shows(local', D, FALSE)
    BY <1>2, <1>3
  <1>5. Shows(local, {r \in Repos : pc[r] = "done"}, FALSE)'
    BY <1>4, LocalKept
  <1>6. ASSUME table' # NoBoard
        PROVE  /\ Shows(table, {r \in Repos : RepoDone(r) \in Received}, TRUE)'
               /\ (Script(Main)[1] \in Received)'
    <2>1. {r \in Repos : RepoDone(r) \in Received'} = S /\ Shows(table', S, TRUE)
      BY <1>1, <1>2, <1>3, <1>6
    <2>2. Shows(table, {r \in Repos : RepoDone(r) \in Received}, TRUE)'
      BY <2>1, TableKept
    <2>3. QED BY <1>1, <1>3, <1>6, <2>2, SameScripts
  <1>7. QED BY <1>5, <1>6 DEF BoardInv

LEMMA FinishBoard ==
  ASSUME IInv, NEW q \in Repos, Finish(q) PROVE BoardInv'
  <1>1. /\ UNCHANGED <<keys, outcome, table, delivered>>
        /\ \A r \in Repos : pc'[r] = "done" <=> pc[r] = "done" \/ r = q
    BY DEF Finish, reader, IInv, TypeOK, Procs
  <1>2. Received' = Received
    BY <1>1 DEF Received
  <1>3. PICK D, S, row : /\ D = {r \in Repos : pc[r] = "done"}
                         /\ S = {r \in Repos : RepoDone(r) \in Received}
                         /\ row = [Row(q) EXCEPT !.data = outcome[q].data, !.err = outcome[q].err]
    OBVIOUS
  <1>4. Shows(local, D, FALSE) /\ (table # NoBoard => Shows(table, S, TRUE) /\ Script(Main)[1] \in Received)
    BY <1>3 DEF IInv, BoardInv
  <1>5. local' = Set(local, row)
    BY <1>3 DEF Finish
  <1>6. row = Said(q, FALSE)
    BY <1>3 DEF Said
  <1>7. Shows(local', D \cup {q}, FALSE) /\ {r \in Repos : pc'[r] = "done"} = D \cup {q}
    <2>1. {r \in Repos : pc'[r] = "done"} = D \cup {q} /\ D \in SUBSET Repos
      BY <1>1, <1>3
    <2>2. Shows(Set(local, row), D \cup {q}, FALSE)
      BY <1>4, <1>6, <2>1, ShowsSet DEF IInv
    <2>3. QED BY <1>5, <2>1, <2>2
  <1>8. Shows(local, {r \in Repos : pc[r] = "done"}, FALSE)'
    BY <1>1, <1>7, LocalKept DEF IInv
  <1>9. ASSUME table' # NoBoard
        PROVE  /\ Shows(table, {r \in Repos : RepoDone(r) \in Received}, TRUE)'
               /\ (Script(Main)[1] \in Received)'
    <2>1. {r \in Repos : RepoDone(r) \in Received'} = S /\ Shows(table', S, TRUE)
      BY <1>1, <1>2, <1>3, <1>4, <1>9
    <2>2. Shows(table, {r \in Repos : RepoDone(r) \in Received}, TRUE)'
      BY <1>1, <2>1, TableKept DEF IInv
    <2>3. QED BY <1>1, <1>2, <1>4, <1>9, <2>2, SameScripts
  <1>10. QED BY <1>8, <1>9 DEF BoardInv

\* The kind of an event tells who emitted it.
LEMMA KindFacts ==
  ASSUME NEW c \in Events
  PROVE  /\ c.kind = "run_start" <=> c = Script(Main)[1]
         /\ c.kind = "repo_done" <=> \E r \in Repos : c = RepoDone(r)
         /\ \A q, r \in Repos : RepoDone(q) = RepoDone(r) => q = r
  <1>1. PICK p \in Procs, n \in 1 .. 2 : c = Script(p)[n]
    BY EventsAre
  <1>2. (n = 1 \/ n = 2) /\ (p = Main \/ p \in Repos)
    BY DEF Procs
  <1>3. QED BY <1>1, <1>2, ScriptFacts

\* What the board of the reader shows once an event is dealt with.
LEMMA DeliverShows ==
  ASSUME IInv, Deliver, table # NoBoard \/ table' # NoBoard
  PROVE  /\ Shows(table', {r \in Repos : RepoDone(r) \in Received'}, TRUE)
         /\ Script(Main)[1] \in Received' /\ Received \subseteq Received'
         /\ table = NoBoard => Received = {}
         /\ \/ {r \in Repos : RepoDone(r) \in Received'} = {r \in Repos : RepoDone(r) \in Received}
            \/ \E q \in Repos :
                  /\ RepoDone(q) \notin Received
                  /\ {r \in Repos : RepoDone(r) \in Received'} =
                         {r \in Repos : RepoDone(r) \in Received} \cup {q}
  <1>1. PICK c \in decode(Line) : delivered' = Append(delivered, c) /\ fn(c)
    BY DEF Deliver
  <1>2. /\ UNCHANGED <<keys, outcome, pipe>> /\ UNCHANGED producer
        /\ buf' = <<>> /\ buf # <<>>
    BY DEF Deliver, producer, Found, HasLine
  <1>3. c \in Events /\ 1 \in HeadsOf(c)
    BY <1>1, DecodeFacts DEF Deliver, IInv
  <1>4. Received' = Received \cup {c} /\ c \notin Received /\ (c = Script(Main)[1] => Received = {})
    BY <1>1, <1>2, <1>3, WriterSame, OrderDeliver DEF IInv
  <1>5. PICK S, T : /\ S = {r \in Repos : RepoDone(r) \in Received}
                    /\ T = {r \in Repos : RepoDone(r) \in Received'}
    OBVIOUS
  <1>6. table # NoBoard => Shows(table, S, TRUE) /\ Script(Main)[1] \in Received
    BY <1>5 DEF IInv, BoardInv
  <1>7. CASE c.kind = "run_start"
    <2>1. c = Script(Main)[1] /\ c.repos = keys /\ Received = {}
      BY <1>3, <1>4, <1>7, KindFacts, ScriptFacts
    <2>2. table' = Blank
      BY <1>1, <1>7, <2>1 DEF fn, Blank
    <2>3. S = {} /\ T = {}
      BY <1>4, <1>5, <1>7, <2>1, ScriptFacts
    <2>4. Shows(table', T, TRUE)
      BY <2>2, <2>3, ShowsBlank DEF IInv
    <2>5. QED BY <1>4, <1>5, <2>1, <2>3, <2>4
  <1>8. CASE c.kind # "run_start"
    <2>1. table # NoBoard /\ table' = Apply(table, c)
      BY <1>1, <1>8 DEF fn
    <2>2. Shows(table, S, TRUE) /\ Script(Main)[1] \in Received
      BY <1>6, <2>1
    <2>3. CASE c.kind = "repo_done"
      <3>1. PICK q \in Repos : c = RepoDone(q)
        BY <1>3, <2>3, KindFacts
      <3>2. T = S \cup {q} /\ S \in SUBSET Repos
        BY <1>3, <1>4, <1>5, <3>1, KindFacts
      <3>3. ResultOf(c) = Said(q, TRUE)
        BY <3>1 DEF Said
      <3>4. table' = Set(table, ResultOf(c))
        BY <2>1, <2>3 DEF Apply
      <3>5. Shows(Set(table, ResultOf(c)), S \cup {q}, TRUE)
        BY <2>2, <3>2, <3>3, ShowsSet DEF IInv
      <3>6. Shows(table', T, TRUE)
        BY <3>2, <3>4, <3>5
      <3>7. QED BY <1>4, <1>5, <2>1, <2>2, <3>1, <3>2, <3>6
    <2>4. CASE c.kind # "repo_done"
      <3>1. table' = table
        BY <2>1, <2>4 DEF Apply
      <3>2. T = S
        BY <1>4, <1>5, <2>4, ScriptFacts
      <3>3. Shows(table', T, TRUE)
        BY <2>2, <3>1, <3>2
      <3>4. QED BY <1>4, <1>5, <2>1, <2>2, <3>2, <3>3
    <2>5. QED BY <2>3, <2>4
  <1>9. QED BY <1>7, <1>8

LEMMA DeliverBoard ==
  ASSUME IInv, Deliver PROVE BoardInv'
  <1>1. UNCHANGED <<keys, outcome, local, pc>>
    BY DEF Deliver, producer
  <1>2. Shows(local, {r \in Repos : pc[r] = "done"}, FALSE)'
    <2>1. PICK D : D = {r \in Repos : pc[r] = "done"}
      OBVIOUS
    <2>2. {r \in Repos : pc'[r] = "done"} = D /\ Shows(local', D, FALSE)
      BY <1>1, <2>1 DEF IInv, BoardInv
    <2>3. QED BY <1>1, <2>2, LocalKept DEF IInv
  <1>3. ASSUME table' # NoBoard
        PROVE  /\ Shows(table, {r \in Repos : RepoDone(r) \in Received}, TRUE)'
               /\ (Script(Main)[1] \in Received)'
    <2>1. PICK T : T = {r \in Repos : RepoDone(r) \in Received'}
      OBVIOUS
    <2>2. Shows(table', T, TRUE) /\ Script(Main)[1] \in Received'
      BY <1>3, <2>1, DeliverShows
    <2>3. Shows(table, {r \in Repos : RepoDone(r) \in Received}, TRUE)'
      BY <1>1, <2>1, <2>2, TableKept DEF IInv
    <2>4. QED BY <1>1, <2>2, <2>3, SameScripts
  <1>4. QED BY <1>2, <1>3 DEF BoardInv

------------------------------------------------------------------------------
(* Every step keeps the invariant.                                         *)

Kept ==
    WriterInv' /\ OrderInv' /\ ReaderInv' /\ AccountInv' /\ HarmInv' /\ RunInv' /\ BoardInv'

LEMMA RunSame == ASSUME RunInv, UNCHANGED <<keys, outcome>> PROVE RunInv'
  BY DEF RunInv

LEMMA LockKeeps ==
  ASSUME IInv, NEW p \in Procs, Lock(p) PROVE Kept
  <1>1. /\ UNCHANGED <<keys, outcome, next, part, local, killed, open, torn, strays, pipe>>
        /\ UNCHANGED <<buf, input, skipped, warned, delivered, table, rpc, rerr>>
        /\ \A r \in Repos : pc'[r] = "done" <=> pc[r] = "done"
    BY DEF Lock, Emits, reader, IInv, TypeOK, Procs
  <1>2. /\ WriterInv' /\ AllEmitted \subseteq AllEmitted' /\ dropped \subseteq dropped'
        /\ AllEmitted' \ dropped' \subseteq AllEmitted
    BY LockFacts DEF IInv
  <1>3. Unread' = Unread /\ Received' = Received /\ \A e : HeadsOf(e)' = HeadsOf(e)
    BY <1>1, UnreadSame, SameKeeps DEF Received
  <1>4. OrderInv'
    BY <1>1, <1>2, <1>3, OrderSame DEF IInv
  <1>5. ReaderInv'
    BY <1>1, ReaderSame DEF IInv
  <1>6. AccountInv'
    BY <1>1, <1>2, <1>3, AccountKept DEF IInv
  <1>7. HarmInv'
    BY HarmLock
  <1>8. RunInv' /\ BoardInv'
    BY <1>1, RunSame, BoardSame DEF IInv
  <1>9. QED BY <1>2, <1>4, <1>5, <1>6, <1>7, <1>8 DEF Kept

LEMMA WriteKeeps ==
  ASSUME IInv, NEW p \in Procs, Write(p) PROVE Kept
  <1> PICK c, x : c = Current(p) /\ x = Piece(c, part[p])
    OBVIOUS
  <1>1. /\ UNCHANGED <<keys, outcome, next, local, killed, open, torn, dropped, strays>>
        /\ UNCHANGED <<buf, input, skipped, warned, delivered, table, rpc, rerr>>
        /\ \A r \in Repos : pc'[r] = "done" <=> pc[r] = "done"
        /\ pipe' = Append(pipe, x) /\ ~killed /\ pc[p] = "write" /\ part[p] \in 1 .. 3
    BY DEF Write, reader, IInv, TypeOK, Procs
  <1>2. /\ WriterInv' /\ next[p] # 3
        /\ part[p] = 1 => AllEmitted' = AllEmitted \cup {c}
        /\ part[p] # 1 => AllEmitted' = AllEmitted
    BY WriteFacts DEF IInv
  <1>3. c \in Events /\ x \in Pieces /\ (x = <<c, 1>> <=> part[p] = 1)
        /\ (part[p] # 1 => \A e : x # <<e, 1>>)
    <2>1. c \in Events
      BY <1>2, CurrentIsEvent DEF IInv
    <2>2. x = (IF part[p] = 3 THEN Eol ELSE <<c, part[p]>>) /\ (part[p] = 1 \/ part[p] = 2 \/ part[p] = 3)
      BY <1>1 DEF Piece
    <2>3. Eol \in Pieces /\ <<c, 1>> \in Pieces /\ <<c, 2>> \in Pieces
      BY <2>1, PieceIn, PieceFacts
    <2>4. (\A e : <<c, 2>> # <<e, 1>> /\ Eol # <<e, 1>>)
      BY PieceFacts
    <2>5. QED BY <2>1, <2>2, <2>3, <2>4
  <1>4. Received' = Received
    BY <1>1 DEF Received
  <1>5. \A e : HeadsOf(e)' = HeadsOf(e) \cup (IF x = <<e, 1>> THEN {Len(Unread) + 1} ELSE {})
    BY <1>1, <1>3, PushFacts DEF IInv
  <1>6. OrderInv'
    <2>1. CASE part[p] = 1
      <3>1. \A e \in AllEmitted : Follows(e, c)
        BY <1>1, <2>1, CurrentFollows DEF IInv
      <3>2. \A e : x = <<e, 1>> <=> c = e
        BY <1>3, <2>1, PieceFacts
      <3>3. \A e : HeadsOf(e)' = HeadsOf(e) \cup (IF c = e THEN {Len(Unread) + 1} ELSE {})
        BY <1>5, <3>2
      <3>4. QED BY <1>1, <1>2, <1>3, <2>1, <3>1, <3>3, OrderPush DEF IInv
    <2>2. CASE part[p] # 1
      <3>1. \A e : HeadsOf(e)' = HeadsOf(e)
        BY <1>3, <1>5, <2>2
      <3>2. QED BY <1>1, <1>2, <2>2, <3>1, OrderSame DEF IInv
    <2>3. QED BY <2>1, <2>2
  <1>7. ReaderInv'
    <2>1. open
      BY <1>1, WritingOpen DEF IInv
    <2>2. QED BY <1>1, <2>1, ReaderSame DEF IInv
  <1>8. AccountInv'
    <2>1. \A e \in AllEmitted' \ dropped' : e \in AllEmitted \/ HeadsOf(e)' # {}
      BY <1>2, <1>3, <1>5
    <2>2. \A e : HeadsOf(e) # {} => HeadsOf(e)' # {}
      BY <1>5
    <2>3. QED BY <1>1, <1>4, <2>1, <2>2, AccountKept DEF IInv
  <1>9. HarmInv'
    BY HarmBegin, HarmGoOn
  <1>10. RunInv' /\ BoardInv'
    BY <1>1, RunSame, BoardSame DEF IInv
  <1>11. QED BY <1>2, <1>6, <1>7, <1>8, <1>9, <1>10 DEF Kept

LEMMA WriteFailsKeeps ==
  ASSUME IInv, NEW p \in Procs, WriteFails(p) PROVE Kept
  <1>1. /\ UNCHANGED <<keys, outcome, next, local, killed, open, strays, pipe>>
        /\ UNCHANGED <<buf, input, skipped, warned, delivered, table, rpc, rerr>>
        /\ \A r \in Repos : pc'[r] = "done" <=> pc[r] = "done"
        /\ part[p] = 1 => dropped' = dropped \cup {Current(p)}
        /\ part[p] # 1 => dropped' = dropped
    BY DEF WriteFails, reader, IInv, TypeOK, Procs
  <1>2. /\ WriterInv' /\ AllEmitted \subseteq AllEmitted'
        /\ AllEmitted' \ dropped' \subseteq AllEmitted /\ dropped \subseteq dropped'
    BY <1>1, WriteFacts DEF IInv
  <1>3. Unread' = Unread /\ Received' = Received /\ \A e : HeadsOf(e)' = HeadsOf(e)
    BY <1>1, UnreadSame, SameKeeps DEF Received
  <1>4. OrderInv'
    BY <1>1, <1>2, <1>3, OrderSame DEF IInv
  <1>5. ReaderInv'
    BY <1>1, ReaderSame DEF IInv
  <1>6. AccountInv'
    BY <1>1, <1>2, <1>3, AccountKept DEF IInv
  <1>7. HarmInv'
    BY <1>2, HarmTorn
  <1>8. RunInv' /\ BoardInv'
    BY <1>1, RunSame, BoardSame DEF IInv
  <1>9. QED BY <1>2, <1>4, <1>5, <1>6, <1>7, <1>8 DEF Kept

\* What touches neither the stream nor what is known of it.
LEMMA AsideKeeps ==
  ASSUME IInv, UNCHANGED <<keys, outcome, part, torn, strays, dropped, pipe>>,
         UNCHANGED <<buf, delivered, table, skipped>>,
         WriterInv', AllEmitted' = AllEmitted, ReaderInv', BoardInv', HarmInv'
  PROVE  Kept
  <1>1. Unread' = Unread /\ Received' = Received /\ \A e : HeadsOf(e)' = HeadsOf(e)
    BY UnreadSame, SameKeeps DEF Received
  <1>2. OrderInv'
    BY <1>1, OrderSame DEF IInv
  <1>3. AccountInv'
    BY <1>1, AccountKept DEF IInv
  <1>4. RunInv'
    BY RunSame DEF IInv
  <1>5. QED BY <1>2, <1>3, <1>4 DEF Kept

LEMMA UnlockKeeps ==
  ASSUME IInv, NEW p \in Procs, Unlock(p) PROVE Kept
  <1>1. /\ UNCHANGED <<keys, outcome, part, local, killed, open, torn, strays, dropped, pipe>>
        /\ UNCHANGED <<buf, input, skipped, warned, delivered, table, rpc, rerr>>
        /\ \A r \in Repos : pc'[r] = "done" <=> pc[r] = "done"
    BY DEF Unlock, reader, IInv, TypeOK, Procs
  <1>2. WriterInv' /\ AllEmitted' = AllEmitted /\ \A q \in Procs : part[q] = 1
    BY UnlockFacts DEF IInv
  <1>3. ReaderInv'
    BY <1>1, ReaderSame DEF IInv
  <1>4. HarmInv'
    BY <1>1, <1>2, HarmSame
  <1>5. BoardInv'
    BY <1>1, BoardSame DEF IInv
  <1>6. QED BY <1>1, <1>2, <1>3, <1>4, <1>5, AsideKeeps

LEMMA FinishKeeps ==
  ASSUME IInv, NEW r \in Repos, Finish(r) PROVE Kept
  <1>1. /\ UNCHANGED <<keys, outcome, next, part, killed, open, torn, strays, dropped, pipe>>
        /\ UNCHANGED <<buf, input, skipped, warned, delivered, table, rpc, rerr>>
    BY DEF Finish, reader
  <1>2. WriterInv' /\ AllEmitted' = AllEmitted
    BY EndFacts DEF IInv
  <1>3. ReaderInv'
    BY <1>1, ReaderSame DEF IInv
  <1>4. HarmInv'
    BY <1>1, <1>2, HarmSame
  <1>5. BoardInv'
    BY FinishBoard
  <1>6. QED BY <1>1, <1>2, <1>3, <1>4, <1>5, AsideKeeps

LEMMA ExitKeeps ==
  ASSUME IInv, Exit PROVE Kept
  <1>1. /\ UNCHANGED <<keys, outcome, next, part, local, killed, torn, strays, dropped, pipe>>
        /\ UNCHANGED <<buf, input, skipped, warned, delivered, table, rpc, rerr>>
        /\ ~open'
        /\ \A r \in Repos : pc'[r] = "done" <=> pc[r] = "done"
    BY ReposAssumption DEF Exit, reader, IInv, TypeOK, Procs
  <1>2. WriterInv' /\ AllEmitted' = AllEmitted
    BY EndFacts DEF IInv
  <1>3. ReaderInv'
    BY <1>1, ReaderSame DEF IInv
  <1>4. HarmInv'
    <2>1. Unread' = Unread /\ Received' = Received
      BY <1>1, UnreadSame DEF Received
    <2>2. Harmed' \subseteq Harmed
      BY <1>1, <1>2, <2>1, HarmStill, UnderWaySame
    <2>3. ~Dirty'
      BY <1>1 DEF Dirty
    <2>4. QED BY <1>1, <2>2, <2>3, HarmFree DEF IInv
  <1>5. BoardInv'
    BY <1>1, BoardSame DEF IInv
  <1>6. QED BY <1>1, <1>2, <1>3, <1>4, <1>5, AsideKeeps

LEMMA KillKeeps ==
  ASSUME IInv, Kill PROVE Kept
  <1>1. /\ UNCHANGED <<keys, outcome, pc, part, local, torn, strays, dropped, pipe>>
        /\ UNCHANGED <<buf, input, skipped, warned, delivered, table, rpc, rerr>>
        /\ ~open'
    BY DEF Kill, reader
  <1>2. WriterInv' /\ AllEmitted' = AllEmitted
    BY EndFacts DEF IInv
  <1>3. ReaderInv'
    BY <1>1, ReaderSame DEF IInv
  <1>4. BoardInv'
    BY <1>1, BoardSame DEF IInv
  <1>5. QED BY <1>1, <1>2, <1>3, <1>4, HarmKill, AsideKeeps

LEMMA StrayKeeps ==
  ASSUME IInv, NEW x \in {Junk, Eol}, Stray(x) PROVE Kept
  <1>1. /\ UNCHANGED producer /\ UNCHANGED <<keys, outcome, pc, local, open, dropped>>
        /\ UNCHANGED <<buf, input, skipped, warned, delivered, table, rpc, rerr>>
        /\ open /\ pipe' = Append(pipe, x)
    BY DEF Stray, producer, reader
  <1>2. WriterInv' /\ AllEmitted' = AllEmitted
    BY <1>1, WriterSame DEF IInv
  <1>3. Received' = Received /\ \A e : HeadsOf(e)' = HeadsOf(e)
    <2>1. x \in Pieces /\ \A e : x # <<e, 1>>
      BY PieceFacts
    <2>2. QED BY <1>1, <2>1, PushFacts DEF IInv, Received
  <1>4. OrderInv'
    BY <1>1, <1>2, <1>3, OrderSame DEF IInv
  <1>5. ReaderInv'
    BY <1>1, ReaderSame DEF IInv
  <1>6. AccountInv'
    BY <1>1, <1>2, <1>3, AccountKept DEF IInv
  <1>7. RunInv' /\ BoardInv'
    BY <1>1, RunSame, BoardSame DEF IInv
  <1>8. QED BY <1>2, <1>4, <1>5, <1>6, <1>7, HarmStray DEF Kept

LEMMA ScanKeeps ==
  ASSUME IInv, Scan PROVE Kept
  <1>1. /\ UNCHANGED producer /\ UNCHANGED <<keys, outcome, pc, next, part, killed, local, open, dropped>>
        /\ UNCHANGED <<strays, torn, input, skipped, delivered, table>>
    BY DEF Scan, producer
  <1>2. Unread' = Unread
    BY ScanFacts DEF Scan, IInv
  <1>3. WriterInv' /\ AllEmitted' = AllEmitted
    BY <1>1, WriterSame DEF IInv
  <1>4. Received' = Received /\ \A e : HeadsOf(e)' = HeadsOf(e)
    BY <1>1, <1>2, SameKeeps DEF Received
  <1>5. OrderInv'
    BY <1>1, <1>3, <1>4, OrderSame DEF IInv
  <1>6. AccountInv'
    BY <1>1, <1>3, <1>4, AccountKept DEF IInv
  <1>7. HarmInv'
    <2>1. Harmed' \subseteq Harmed
      BY <1>1, <1>2, <1>3, <1>4, HarmStill, UnderWaySame
    <2>2. Dirty' => Dirty
      BY <1>1, <1>2 DEF Dirty
    <2>3. QED BY <1>1, <2>1, <2>2, HarmFree DEF IInv
  <1>8. RunInv' /\ BoardInv'
    BY <1>1, RunSame, BoardSame DEF IInv
  <1>9. QED BY <1>3, <1>5, <1>6, <1>7, <1>8, ScanReader DEF IInv, Kept

LEMMA EndKeeps ==
  ASSUME IInv, ScanEnds \/ ReadReturns \/ Close PROVE Kept
  <1>1. /\ UNCHANGED producer
        /\ UNCHANGED <<keys, outcome, pc, next, part, killed, open, torn, strays, local, dropped, pipe>>
        /\ UNCHANGED <<buf, delivered, table, skipped>>
        /\ input' # "failed" => input # "failed"
    BY DEF ScanEnds, ReadReturns, Close, producer
  <1>2. WriterInv' /\ AllEmitted' = AllEmitted
    BY <1>1, WriterSame DEF IInv
  <1>3. ReaderInv'
    BY EndReader DEF IInv
  <1>4. HarmInv'
    BY <1>1, <1>2, HarmSame
  <1>5. BoardInv'
    BY <1>1, BoardSame DEF IInv
  <1>6. QED BY <1>1, <1>2, <1>3, <1>4, <1>5, AsideKeeps

LEMMA StutterKeeps ==
  ASSUME IInv, UNCHANGED vars PROVE Kept
  <1>1. /\ UNCHANGED producer
        /\ UNCHANGED <<keys, outcome, pc, next, part, killed, open, torn, strays, local, dropped, pipe>>
        /\ UNCHANGED <<buf, delivered, table, input, skipped, warned, rpc, rerr>>
    BY DEF vars, producer, reader
  <1>2. WriterInv' /\ AllEmitted' = AllEmitted
    BY <1>1, WriterSame DEF IInv
  <1>3. ReaderInv'
    BY <1>1, ReaderSame DEF IInv
  <1>4. HarmInv'
    BY <1>1, <1>2, HarmSame
  <1>5. BoardInv'
    BY <1>1, BoardSame DEF IInv
  <1>6. QED BY <1>1, <1>2, <1>3, <1>4, <1>5, AsideKeeps

LEMMA LineKeeps ==
  ASSUME IInv, Empty \/ Deliver \/ Skip PROVE Kept
  <1>1. /\ UNCHANGED producer /\ UNCHANGED <<keys, outcome, pc, local, pipe>>
        /\ buf' = <<>>
    BY DEF Empty, Deliver, Skip, producer
  <1>2. WriterInv' /\ AllEmitted' = AllEmitted
    BY <1>1, WriterSame DEF IInv
  <1>3. OrderInv' /\ BoardInv'
    <2>1. CASE Empty \/ Skip
      <3>1. UNCHANGED <<delivered, table>>
        BY <2>1 DEF Empty, Skip
      <3>2. QED BY <1>1, <1>2, <3>1, OrderClear, BoardSame DEF IInv
    <2>2. CASE Deliver
      <3>1. PICK c \in decode(Line) : delivered' = Append(delivered, c)
        BY <2>2 DEF Deliver
      <3>2. c \in Events /\ 1 \in HeadsOf(c) /\ buf # <<>>
        BY <2>2, <3>1, DecodeFacts DEF Deliver, IInv, Found, HasLine
      <3>3. OrderInv'
        BY <1>1, <1>2, <3>1, <3>2, OrderDeliver DEF IInv
      <3>4. QED BY <2>2, <3>3, DeliverBoard
    <2>3. QED BY <2>1, <2>2
  <1>4. ReaderInv'
    BY LineReader DEF IInv
  <1>5. AccountInv'
    BY <1>2, LineAccount
  <1>6. RunInv'
    BY <1>1, RunSame DEF IInv
  <1>7. QED BY <1>2, <1>3, <1>4, <1>5, <1>6, HarmLine DEF Kept

LEMMA NextKeeps ==
  ASSUME IInv, [Next]_vars PROVE Kept
  <1>1. CASE \E p \in Procs : Emit(p)
    BY <1>1, LockKeeps, WriteKeeps, WriteFailsKeeps, UnlockKeeps DEF Emit
  <1>2. CASE (\E r \in Repos : Finish(r)) \/ Exit \/ Kill
    BY <1>2, FinishKeeps, ExitKeeps, KillKeeps
  <1>3. CASE \E piece \in {Junk, Eol} : Stray(piece)
    BY <1>3, StrayKeeps
  <1>4. CASE Read \/ Close
    BY <1>4, ScanKeeps, EndKeeps, LineKeeps DEF Read
  <1>5. CASE Done \/ UNCHANGED vars
    BY <1>5, StutterKeeps DEF Done
  <1>6. QED BY <1>1, <1>2, <1>3, <1>4, <1>5 DEF Next

------------------------------------------------------------------------------
(* The types.                                                              *)

LEMMA TroubleFacts ==
  ASSUME TypeOK, Trouble PROVE strays + 1 \in 0 .. MaxTroubles
  <1>1. Failures \in Nat
    <2>1. IsFiniteSet({ev \in dropped : ev.err \notin Unencodable})
      BY EventsFinite DEF TypeOK
    <2>2. Cardinality({ev \in dropped : ev.err \notin Unencodable}) \in Nat /\ torn \in Nat
      BY <2>1, FS_CardinalityType DEF TypeOK
    <2>3. QED BY <2>2 DEF Failures
  <1>2. strays \in Nat /\ MaxTroubles \in Nat
    BY BoundsAssumption DEF TypeOK
  <1>3. QED BY <1>1, <1>2 DEF Trouble

LEMMA TypeNext ==
  ASSUME IInv, [Next]_vars PROVE TypeOK'
  <1>1. ReaderInv' /\ BoardInv' /\ WriterInv'
    BY NextKeeps DEF Kept
  <1>2. UNCHANGED <<keys, outcome>>
    <2>1. CASE \E p \in Procs : Emit(p)
      BY <2>1 DEF Emit, Lock, Write, WriteFails, Unlock
    <2>2. CASE (\E r \in Repos : Finish(r)) \/ Exit \/ Kill
      BY <2>2 DEF Finish, Exit, Kill
    <2>3. CASE \E piece \in {Junk, Eol} : Stray(piece)
      BY <2>3 DEF Stray, producer
    <2>4. CASE Read \/ Close
      BY <2>4 DEF Read, Scan, ScanEnds, Empty, Deliver, Skip, ReadReturns, Close, producer
    <2>5. CASE Done \/ UNCHANGED vars
      BY <2>5 DEF Done, vars, producer
    <2>6. QED BY <2>1, <2>2, <2>3, <2>4, <2>5 DEF Next
  <1>3. Events' = Events /\ Pieces' = Pieces /\ Blank' = Blank
    BY <1>2, SameScripts, BlankSame
  <1>4. local' \in BoardsFor(keys)' /\ table' \in BoardsFor(keys)' \cup {NoBoard}
    BY <1>1 DEF BoardInv, Shows
  <1> DEFINE WriterTypes ==
               /\ pc' \in [Procs -> {"emit", "write", "unlock", "returned", "done"}]
               /\ next' \in [Procs -> 1 .. 3] /\ part' \in [Procs -> 1 .. 3]
               /\ mu' \in Procs \cup {NoOne}
               /\ dropped' \subseteq Events /\ torn' \in Nat
               /\ killed' \in BOOLEAN /\ open' \in BOOLEAN
             StreamTypes == pipe' \in Seq(Pieces) /\ Len(pipe') <= Capacity /\ strays' \in 0 .. MaxTroubles
             ReaderTypes ==
               /\ buf' \in Seq(Pieces) /\ input' \in {"open", "eof", "failed"}
               /\ skipped' \in Nat /\ delivered' \in Seq(Events)
               /\ rpc' \in {"read", "returned"}
               /\ summary' \in BOOLEAN /\ rerr' \in BOOLEAN /\ closed' \in BOOLEAN
  <1>5. UNCHANGED producer => WriterTypes
    BY DEF IInv, TypeOK, producer
  <1>6. UNCHANGED <<pipe, strays>> => StreamTypes
    BY DEF IInv, TypeOK
  <1>7. UNCHANGED reader => ReaderTypes
    BY DEF IInv, TypeOK, reader
  <1>8. WriterTypes /\ StreamTypes /\ ReaderTypes
    <2>1. CASE \E p \in Procs : Emit(p)
      <3>1. PICK p \in Procs : Emit(p)
        BY <2>1
      <3>2. pc[p] \in {"emit", "write"} => Current(p) \in Events
        <4>1. pc[p] \in {"emit", "write"} => next[p] # 3
          BY DEF IInv, WriterInv
        <4>2. QED BY <4>1, CurrentIsEvent DEF IInv
      <3>3. ReaderTypes
        BY <1>7, <3>1 DEF Emit, Lock, Write, WriteFails, Unlock
      <3>4. StreamTypes
        <4>1. CASE Lock(p) \/ WriteFails(p) \/ Unlock(p)
          BY <1>6, <4>1 DEF Lock, WriteFails, Unlock
        <4>2. CASE Write(p)
          <5>1. pc[p] = "write" /\ part[p] \in 1 .. 3
            BY <4>2 DEF Write, IInv, TypeOK
          <5>2. part[p] = 1 \/ part[p] = 2 \/ part[p] = 3
            BY <5>1
          <5>3. Piece(Current(p), part[p]) \in Pieces
            BY <3>2, <5>1, <5>2, PieceIn, PieceFacts DEF Piece
          <5>4. /\ pipe' = Append(pipe, Piece(Current(p), part[p]))
                /\ strays' = strays /\ Len(pipe) < Capacity /\ pipe \in Seq(Pieces)
                /\ strays \in 0 .. MaxTroubles
            BY <4>2 DEF Write, IInv, TypeOK
          <5>5. QED BY <5>3, <5>4, BoundsAssumption
        <4>3. QED BY <3>1, <4>1, <4>2 DEF Emit
      <3>5. WriterTypes
        <4>1. CASE Lock(p)
          BY <3>2, <4>1 DEF Lock, Emits, IInv, TypeOK
        <4>2. CASE Write(p)
          BY <4>2 DEF Write, IInv, TypeOK
        <4>3. CASE WriteFails(p)
          BY <3>2, <4>3 DEF WriteFails, IInv, TypeOK
        <4>4. CASE Unlock(p)
          <5>1. next[p] \in 1 .. 2 /\ Len(Script(p)) = 2
            <6>1. pc[p] = "unlock" /\ next[p] \in 1 .. 3 /\ next[p] # 3
              BY <4>4 DEF Unlock, IInv, WriterInv, TypeOK
            <6>2. QED BY <6>1, ScriptFacts
          <5>2. QED BY <4>4, <5>1 DEF Unlock, IInv, TypeOK
        <4>5. QED BY <3>1, <4>1, <4>2, <4>3, <4>4 DEF Emit
      <3>6. QED BY <3>3, <3>4, <3>5
    <2>2. CASE (\E r \in Repos : Finish(r)) \/ Exit \/ Kill
      <3>1. StreamTypes /\ ReaderTypes
        BY <1>6, <1>7, <2>2 DEF Finish, Exit, Kill
      <3>2. WriterTypes
        BY <2>2 DEF Finish, Exit, Kill, IInv, TypeOK, Procs
      <3>3. QED BY <3>1, <3>2
    <2>3. CASE \E piece \in {Junk, Eol} : Stray(piece)
      <3>1. PICK piece \in {Junk, Eol} : Stray(piece)
        BY <2>3
      <3>2. piece \in Pieces /\ strays + 1 \in 0 .. MaxTroubles
        BY <3>1, PieceFacts, TroubleFacts DEF Stray, IInv
      <3>3. /\ pipe' = Append(pipe, piece) /\ strays' = strays + 1
            /\ Len(pipe) < Capacity /\ pipe \in Seq(Pieces)
        BY <3>1 DEF Stray, IInv, TypeOK
      <3>4. StreamTypes
        BY <3>2, <3>3, BoundsAssumption
      <3>5. QED BY <1>5, <1>7, <3>1, <3>4 DEF Stray
    <2>4. CASE Read \/ Close
      <3>1. WriterTypes
        BY <1>5, <2>4 DEF Read, Scan, ScanEnds, Empty, Deliver, Skip, ReadReturns, Close
      <3>2. CASE Scan
        BY <3>1, <3>2, BoundsAssumption DEF Scan, IInv, TypeOK
      <3>3. CASE ScanEnds \/ Empty \/ Skip \/ ReadReturns \/ Close
        <4>1. StreamTypes
          BY <1>6, <3>3 DEF ScanEnds, Empty, Skip, ReadReturns, Close
        <4>2. ReaderTypes
          <5>1. CASE ScanEnds \/ Empty \/ Skip \/ Close
            <6>1. /\ buf \in Seq(Pieces) /\ input \in {"open", "eof", "failed"}
                  /\ skipped \in Nat /\ delivered \in Seq(Events) /\ rpc \in {"read", "returned"}
                  /\ summary \in BOOLEAN /\ rerr \in BOOLEAN /\ closed \in BOOLEAN
              BY DEF IInv, TypeOK
            <6>2. CASE ScanEnds
              BY <6>1, <6>2 DEF ScanEnds
            <6>3. CASE Empty
              BY <6>1, <6>3 DEF Empty
            <6>4. CASE Skip
              BY <6>1, <6>4 DEF Skip
            <6>5. CASE Close
              BY <6>1, <6>5 DEF Close
            <6>6. QED BY <5>1, <6>2, <6>3, <6>4, <6>5
          <5>2. CASE ReadReturns
            <6>1. rerr' \in BOOLEAN /\ summary' \in BOOLEAN
              <7>1. rerr' = (TooLong \/ input = "failed") /\ summary' = (skipped > maxStrayReports)
                BY <5>2 DEF ReadReturns
              <7>2. CASE TooLong \/ input = "failed"
                <8>1. rerr' = TRUE
                  BY <7>1, <7>2
                <8>2. QED BY <7>1, <8>1
              <7>3. CASE ~(TooLong \/ input = "failed")
                <8>1. rerr' = FALSE
                  BY <7>1, <7>3
                <8>2. QED BY <7>1, <8>1
              <7>4. QED BY <7>2, <7>3
            <6>2. UNCHANGED <<buf, input, skipped, delivered, closed>> /\ rpc' = "returned"
              BY <5>2 DEF ReadReturns
            <6>3. QED BY <6>1, <6>2 DEF IInv, TypeOK
          <5>3. QED BY <3>3, <5>1, <5>2
        <4>3. QED BY <3>1, <4>1, <4>2
      <3>4. CASE Deliver
        <4>1. StreamTypes
          BY <1>6, <3>4 DEF Deliver
        <4>2. PICK c \in decode(Line) : delivered' = Append(delivered, c)
          BY <3>4 DEF Deliver
        <4>3. c \in Events
          BY <3>4, <4>2, DecodeFacts DEF Deliver, IInv
        <4>4. ReaderTypes
          BY <3>4, <4>2, <4>3 DEF Deliver, IInv, TypeOK
        <4>5. QED BY <3>1, <4>1, <4>4
      <3>5. QED BY <2>4, <3>2, <3>3, <3>4 DEF Read
    <2>5. CASE Done \/ UNCHANGED vars
      BY <1>5, <1>6, <1>7, <2>5 DEF Done, vars
    <2>6. QED BY <2>1, <2>2, <2>3, <2>4, <2>5 DEF Next
  <1>9. warned' \in 0 .. maxStrayReports
    <2>1. warned' = IF skipped' <= maxStrayReports THEN skipped' ELSE maxStrayReports
      BY <1>1 DEF ReaderInv
    <2>2. QED BY <1>8, <2>1, BoundsAssumption
  <1>10. QED BY <1>3, <1>4, <1>8, <1>9 DEF TypeOK

------------------------------------------------------------------------------
(* The invariant.                                                          *)

LEMMA InitIInv == Init => IInv
  <1> SUFFICES ASSUME Init PROVE IInv
    OBVIOUS
  <1>1. RunInv
    BY DEF Init, RunInv
  <1>2. /\ buf = <<>> /\ pipe = <<>> /\ delivered = <<>> /\ dropped = {} /\ local = Blank
        /\ torn = 0 /\ strays = 0 /\ killed = FALSE /\ open /\ input = "open" /\ table = NoBoard
        /\ skipped = 0 /\ warned = 0 /\ rpc = "read"
        /\ \A p \in Procs : pc[p] = "emit" /\ next[p] = 1 /\ part[p] = 1
        /\ Main \in Procs /\ \A r \in Repos : r \in Procs
    BY DEF Init, Blank, Procs
  <1>3. Unread = <<>> /\ Received = {} /\ \A e : HeadsOf(e) = {}
    BY <1>2 DEF Unread, Received, HeadsOf
  <1>4. AllEmitted = {}
    BY <1>2 DEF AllEmitted, Begun
  <1>5. Shows(Blank, {}, FALSE) /\ Blank \in BoardsFor(keys)
    BY <1>1, ShowsBlank, BlankFacts
  <1>6. TypeOK
    <2>1. /\ pc \in [Procs -> {"emit", "write", "unlock", "returned", "done"}]
          /\ next \in [Procs -> 1 .. 3] /\ part \in [Procs -> 1 .. 3]
      BY DEF Init
    <2>2. mu \in Procs \cup {NoOne} /\ summary = FALSE /\ rerr = FALSE /\ closed = FALSE /\ open = TRUE
      BY DEF Init
    <2>3. /\ pipe \in Seq(Pieces) /\ Len(pipe) <= Capacity /\ buf \in Seq(Pieces)
          /\ delivered \in Seq(Events)
      BY <1>2, BoundsAssumption
    <2>4. strays \in 0 .. MaxTroubles /\ warned \in 0 .. maxStrayReports
      BY <1>2, BoundsAssumption
    <2>5. {killed, open, summary, rerr, closed} \subseteq BOOLEAN
      BY <1>2, <2>2
    <2>6. QED BY <1>2, <1>5, <2>1, <2>2, <2>3, <2>4, <2>5 DEF TypeOK
  <1>7. WriterInv
    BY <1>2 DEF WriterInv
  <1>8. OrderInv
    BY <1>2, <1>3 DEF OrderInv
  <1>9. ReaderInv
    BY <1>2, BoundsAssumption DEF ReaderInv, ReadAll
  <1>10. AccountInv
    BY <1>4 DEF AccountInv
  <1>11. HarmInv
    <2>1. Harmed = {} /\ ~Dirty
      BY <1>3, <1>4 DEF Harmed, Dirty
    <2>2. Cardinality(Harmed) = 0 /\ One(Dirty) = 0 /\ One(killed) = 0
      BY <1>2, <2>1, FS_EmptySet DEF One
    <2>3. QED BY <1>2, <2>2 DEF HarmInv
  <1>12. BoardInv
    <2>1. {r \in Repos : pc[r] = "done"} = {}
      BY <1>2
    <2>2. QED BY <1>2, <1>5, <2>1 DEF BoardInv
  <1>13. QED BY <1>1, <1>6, <1>7, <1>8, <1>9, <1>10, <1>11, <1>12 DEF IInv

\* The inductive invariant holds throughout.
THEOREM Invariance == Spec => []IInv
  <1>1. IInv /\ [Next]_vars => IInv'
    BY NextKeeps, TypeNext DEF Kept, IInv
  <1>2. QED BY InitIInv, <1>1, PTL DEF Spec

\* Boards keep their rows and keys, and pipe, buffer and counters their bounds,
\* for any number of repositories and any capacity.
THEOREM TypeCorrect == Spec => []TypeOK
  <1>1. IInv => TypeOK
    BY DEF IInv
  <1>2. QED BY <1>1, Invariance, PTL

\* Whatever is written in between, cut short or lost, fn is called only with
\* what was emitted, once, and in the order of its goroutine (Emit, Read).
THEOREM WhatIsReadWasSaid == Spec => []Faithful
  <1>1. IInv => Faithful
    <2> SUFFICES ASSUME IInv PROVE Faithful
      OBVIOUS
    <2>1. Received \subseteq UNION {Emitted(p) : p \in Procs}
      BY EmittedAre DEF IInv, OrderInv
    <2>2. \A m, n \in DOMAIN delivered :
            m < n => delivered[m] # delivered[n] /\ ~Before(delivered[n], delivered[m])
      BY DEF IInv, OrderInv, Follows
    <2>3. QED BY <2>1, <2>2 DEF Faithful
  <1>2. QED BY <1>1, Invariance, PTL

LEMMA MissingAre == Missing = AllEmitted \ Received
  BY EmittedAre DEF Missing

LEMMA ReadAllFacts ==
  ASSUME IInv, ReadAll
  PROVE  input = "eof" /\ ~open /\ Unread = <<>> /\ \A e : HeadsOf(e) = {}
  <1>1. buf = <<>> /\ pipe = <<>> /\ input = "eof" /\ ~open
    BY DEF IInv, ReaderInv
  <1>2. Unread = <<>>
    BY <1>1 DEF Unread
  <1>3. QED BY <1>1, <1>2 DEF HeadsOf

\* Whatever the goroutines do at the same time, a reader that has read the
\* whole stream misses no more events than were dropped, two for each write
\* cut short, one for each piece of text from elsewhere and one if the process
\* ended before its time (Emit, Read).
THEOREM LossIsBounded == Spec => []LossBounded
  <1>1. IInv => LossBounded
    <2> SUFFICES ASSUME IInv, ReadAll
                 PROVE  Cardinality(Missing) <= Cardinality(dropped) + 2 * torn + strays
                                                + (IF killed THEN 1 ELSE 0)
      BY DEF LossBounded
    <2>1. Missing \subseteq dropped \cup Harmed
      BY ReadAllFacts, MissingAre DEF Harmed
    <2>2. IsFiniteSet(dropped) /\ IsFiniteSet(Harmed)
      BY EventsFinite, HarmedFinite DEF IInv, TypeOK
    <2>3. /\ IsFiniteSet(dropped \cup Harmed)
          /\ Cardinality(dropped \cup Harmed) <= Cardinality(dropped) + Cardinality(Harmed)
      <3>1. /\ IsFiniteSet(dropped \cup Harmed)
            /\ Cardinality(dropped \cup Harmed) =
                  Cardinality(dropped) + Cardinality(Harmed) - Cardinality(dropped \cap Harmed)
        BY <2>2, FS_Union
      <3>2. IsFiniteSet(dropped \cap Harmed)
        BY <2>2, FS_Intersection
      <3>3. /\ Cardinality(dropped) \in Nat /\ Cardinality(Harmed) \in Nat
            /\ Cardinality(dropped \cap Harmed) \in Nat
        BY <2>2, <3>2, FS_CardinalityType
      <3>4. QED BY <3>1, <3>3
    <2>4. /\ Cardinality(Missing) \in Nat
          /\ Cardinality(Missing) <= Cardinality(dropped \cup Harmed)
      BY <2>1, <2>3, CountFacts
    <2>5. Cardinality(Harmed) + One(Dirty) <= 2 * torn + strays + One(killed)
      BY ReadAllFacts DEF IInv, HarmInv
    <2>6. /\ Cardinality(Harmed) \in Nat /\ Cardinality(dropped) \in Nat
          /\ Cardinality(dropped \cup Harmed) \in Nat
      BY <2>2, <2>3, FS_CardinalityType
    <2>7. One(Dirty) \in Nat /\ One(killed) = (IF killed THEN 1 ELSE 0) /\ torn \in Nat /\ strays \in Nat
      BY DEF One, IInv, TypeOK
    <2>8. QED BY <2>3, <2>4, <2>5, <2>6, <2>7
  <1>2. QED BY <1>1, Invariance, PTL

\* Whatever happens to the stream, a reader that is short of an event of which
\* something was written has failed or has logged a line that it skipped (Read).
THEOREM LossIsTold == Spec => []NoSilentLoss
  <1>1. IInv => NoSilentLoss
    <2> SUFFICES ASSUME IInv, rpc = "returned", ~rerr, NEW e \in Missing \ dropped
                 PROVE  warned > 0
      BY DEF NoSilentLoss
    <2>1. \A f : HeadsOf(f) = {}
      BY ReadAllFacts DEF ReadAll
    <2>2. skipped > 0
      BY <2>1, MissingAre DEF IInv, AccountInv
    <2>3. skipped \in Nat /\ warned = IF skipped <= maxStrayReports THEN skipped ELSE maxStrayReports
      BY DEF IInv, TypeOK, ReaderInv
    <2>4. QED BY <2>2, <2>3, BoundsAssumption
  <1>2. QED BY <1>1, Invariance, PTL

LEMMA ShowsRow ==
  ASSUME RunInv, NEW board, NEW S \in SUBSET Repos, NEW remote \in BOOLEAN,
         Shows(board, S, remote), NEW r, r \in DOMAIN Blank.index
  PROVE  /\ r \in S => board.rows[Blank.index[r]] = Said(r, remote)
         /\ r \notin S => board.rows[Blank.index[r]] = Blank.rows[Blank.index[r]]
         /\ Blank.index[r] \in DOMAIN Blank.rows
  <1>1. Blank.index[r] \in DOMAIN Blank.rows /\ \A q \in DOMAIN Blank.index : keys[Blank.index[q]] = q
    BY BlankFacts
  <1>2. CASE r \in S
    BY <1>1, <1>2 DEF Shows
  <1>3. CASE r \notin S
    <2>1. \A q \in S : q \in DOMAIN Blank.index => Blank.index[q] # Blank.index[r]
      BY <1>1, <1>3
    <2>2. QED BY <1>1, <1>3, <2>1 DEF Shows
  <1>4. QED BY <1>2, <1>3

\* A row that was read off an event is the row of the run, marked as remote.
LEMMA RemoteRow ==
  ASSUME RunInv, NEW r \in Repos
  PROVE  Said(r, TRUE) = [Said(r, FALSE) EXCEPT !.remote = Said(r, FALSE).err # ""]
  <1>1. PICK no : no = FALSE
    OBVIOUS
  <1>2. PICK m : m = (outcome[r].err # "")
    OBVIOUS
  <1>3. Said(r, FALSE) = [key |-> r, data |-> outcome[r].data, err |-> outcome[r].err,
                          remote |-> no, pending |-> no]
    <2>1. Said(r, FALSE) = Entered(r, outcome[r].data, outcome[r].err)
      BY DEF Said, Entered
    <2>2. Said(r, FALSE) = [key |-> r, data |-> outcome[r].data, err |-> outcome[r].err,
                            remote |-> FALSE, pending |-> FALSE]
      BY <2>1, RowFacts
    <2>3. QED BY <1>1, <2>2
  <1>4. Said(r, TRUE) = [key |-> r, data |-> outcome[r].data, err |-> outcome[r].err,
                         remote |-> m, pending |-> no]
    <2>1. splitKey(r) = r
      BY ReposAssumption DEF splitKey
    <2>2. QED BY <1>1, <1>2, <2>1 DEF Said, ResultOf, RepoDone, Event
  <1>5. PICK f, t : f = Said(r, FALSE) /\ t = Said(r, TRUE)
    OBVIOUS
  <1>6. /\ f = [key |-> r, data |-> outcome[r].data, err |-> outcome[r].err,
                remote |-> no, pending |-> no]
        /\ t = [key |-> r, data |-> outcome[r].data, err |-> outcome[r].err,
                remote |-> m, pending |-> no]
    BY <1>3, <1>4, <1>5
  <1>7. [f EXCEPT !.remote = m] = t /\ f.err = outcome[r].err
    BY <1>6
  <1>8. [f EXCEPT !.remote = f.err # ""] = t
    BY <1>2, <1>7
  <1>9. QED BY <1>5, <1>8

LEMMA BlankRow ==
  ASSUME RunInv, NEW n \in DOMAIN Blank.rows
  PROVE  Blank.rows[n] = [Blank.rows[n] EXCEPT !.remote = Blank.rows[n].err # ""]
  <1>1. PICK no, yes, none, key, row :
          no = FALSE /\ yes = TRUE /\ none = "" /\ key = keys[n] /\ row = Blank.rows[n]
    OBVIOUS
  <1>2. row = [key |-> key, data |-> none, err |-> none, remote |-> no, pending |-> yes]
    <2>1. Row(key) = [key |-> key, data |-> none, err |-> none, remote |-> no, pending |-> no]
      BY <1>1 DEF Row
    <2>2. row = [Row(key) EXCEPT !.pending = yes]
      BY <1>1, BlankFacts
    <2>3. QED BY <2>1, <2>2
  <1>3. row = [row EXCEPT !.remote = no] /\ row.err = none
    BY <1>2
  <1>4. no = (row.err # "")
    BY <1>1, <1>3
  <1>5. row = [row EXCEPT !.remote = row.err # ""]
    BY <1>3, <1>4
  <1>6. QED BY <1>1, <1>5

\* Once a stream of a run that was not cut short has been read to its end, the
\* reader's board and the run's agree row by row, but for rows whose repo_done
\* is missing, which still wait (NewBoardFor, Apply, Result).
THEOREM BoardsAgree == Spec => []TablesAgree
  <1>1. IInv => TablesAgree
    <2> SUFFICES ASSUME IInv, ReadAll, ~killed, table # NoBoard, NEW n \in DOMAIN local.rows
                 PROVE  IF local.rows[n].key \in Repos /\ RepoDone(local.rows[n].key) \in Missing
                        THEN table.rows[n].pending
                        ELSE table.rows[n] = [local.rows[n] EXCEPT !.remote = local.rows[n].err # ""]
      BY DEF TablesAgree
    <2>1. \A r \in Repos : pc[r] = "done"
      <3>1. pc[Main] = "done" /\ Main \in Procs
        BY ReadAllFacts DEF IInv, WriterInv, Procs
      <3>2. next[Main] = 3
        BY <3>1 DEF IInv, WriterInv
      <3>3. QED BY <3>2 DEF IInv, WriterInv
    <2>2. PICK S : S = {r \in Repos : RepoDone(r) \in Received}
      OBVIOUS
    <2>3. Shows(local, Repos, FALSE)
      <3>1. {r \in Repos : pc[r] = "done"} = Repos
        BY <2>1
      <3>2. QED BY <3>1 DEF IInv, BoardInv
    <2>4. Shows(table, S, TRUE) /\ S \in SUBSET Repos /\ RunInv
      BY <2>2 DEF IInv, BoardInv
    <2>5. n \in DOMAIN Blank.rows
      BY <2>3, BoardsAre DEF Shows
    <2>6. CASE \E r \in Repos : r \in DOMAIN Blank.index /\ Blank.index[r] = n
      <3>1. PICK r \in Repos : r \in DOMAIN Blank.index /\ Blank.index[r] = n
        BY <2>6
      <3>2. local.rows[n] = Said(r, FALSE) /\ local.rows[n].key = r
        <4>1. local.rows[n] = Said(r, FALSE)
          BY <2>3, <2>4, <3>1, ShowsRow
        <4>2. QED BY <2>4, <4>1, SaidFacts
      <3>3. CASE r \in S
        <4>1. table.rows[n] = Said(r, TRUE)
          BY <2>4, <3>1, <3>3, ShowsRow
        <4>2. RepoDone(r) \notin Missing
          BY <2>2, <3>3, MissingAre
        <4>3. QED BY <2>4, <3>2, <4>1, <4>2, RemoteRow
      <3>4. CASE r \notin S
        <4>1. table.rows[n] = Blank.rows[n] /\ Blank.rows[n].pending
          <5>1. table.rows[n] = Blank.rows[n]
            BY <2>4, <3>1, <3>4, ShowsRow
          <5>2. QED BY <2>4, <2>5, <5>1, BlankFacts
        <4>2. RepoDone(r) \in AllEmitted
          <5>1. r \in Procs /\ next[r] = 3
            BY <2>1 DEF IInv, WriterInv, Procs
          <5>2. RepoDone(r) = Script(r)[2] /\ Begun(r, 2)
            BY <5>1, ScriptFacts DEF Begun
          <5>3. QED BY <5>1, <5>2, EventsAre DEF AllEmitted
        <4>3. RepoDone(r) \in Missing
          BY <2>2, <3>4, <4>2, MissingAre
        <4>4. QED BY <3>1, <3>2, <4>1, <4>3
      <3>5. QED BY <3>3, <3>4
    <2>7. CASE ~\E r \in Repos : r \in DOMAIN Blank.index /\ Blank.index[r] = n
      <3>1. local.rows[n] = Blank.rows[n] /\ table.rows[n] = Blank.rows[n]
        BY <2>3, <2>4, <2>5, <2>7 DEF Shows
      <3>2. Blank.rows[n].pending
        BY <2>4, <2>5, BlankFacts
      <3>3. Blank.rows[n] = [Blank.rows[n] EXCEPT !.remote = Blank.rows[n].err # ""]
        BY <2>4, <2>5, BlankRow
      <3>4. QED BY <3>1, <3>2, <3>3
    <2>8. QED BY <2>6, <2>7
  <1>2. QED BY <1>1, Invariance, PTL

------------------------------------------------------------------------------
(* The table is a Report.                                                  *)

\* What a board shows of a repository, and the set whose outcome it has.
ShownIn(board, r) ==
    IF r \notin DOMAIN board.index THEN NotShown
    ELSE LET row == board.rows[board.index[r]]
         IN  IF row.pending THEN NotShown ELSE [data |-> row.data, err |-> row.err]

Reported == {r \in Repos : RepoDone(r) \in Received}

Value(r, S) == IF r \in DOMAIN Blank.index /\ r \in S THEN outcome[r] ELSE NotShown

LEMMA ShownIs ==
  ASSUME RunInv, NEW board, NEW S \in SUBSET Repos, Shows(board, S, TRUE), NEW r \in Repos
  PROVE  ShownIn(board, r) = Value(r, S)
  <1>1. board.index = Blank.index
    BY BoardsAre DEF Shows
  <1>2. PICK yes : yes = TRUE /\ yes \in BOOLEAN
    OBVIOUS
  <1>3. Shows(board, S, yes)
    BY <1>2
  <1>4. CASE r \notin DOMAIN Blank.index
    BY <1>1, <1>4 DEF ShownIn, Value
  <1>5. CASE r \in DOMAIN Blank.index /\ r \in S
    <2>1. board.rows[Blank.index[r]] = Said(r, yes)
      BY <1>2, <1>3, <1>5, ShowsRow
    <2>2. /\ ~Said(r, yes).pending
          /\ Said(r, yes).data = outcome[r].data /\ Said(r, yes).err = outcome[r].err
      BY <1>2, SaidFacts
    <2>3. ShownIn(board, r) = [data |-> outcome[r].data, err |-> outcome[r].err]
      BY <1>1, <1>5, <2>1, <2>2 DEF ShownIn
    <2>4. outcome[r] \in [data : Texts, err : Texts]
      BY RunsAssumption DEF RunInv
    <2>5. QED BY <1>5, <2>3, <2>4 DEF Value
  <1>6. CASE r \in DOMAIN Blank.index /\ r \notin S
    <2>1. board.rows[Blank.index[r]].pending
      <3>1. Blank.index[r] \in DOMAIN Blank.rows
        BY <1>6, BlankFacts
      <3>2. \A q \in S : q \in DOMAIN Blank.index => Blank.index[q] # Blank.index[r]
        <4>1. \A q \in DOMAIN Blank.index : keys[Blank.index[q]] = q
          BY BlankFacts
        <4>2. QED BY <1>6, <4>1
      <3>3. board.rows[Blank.index[r]] = Blank.rows[Blank.index[r]]
        BY <1>3, <3>1, <3>2 DEF Shows
      <3>4. QED BY <3>1, <3>3, BlankFacts
    <2>2. QED BY <1>1, <1>6, <2>1 DEF ShownIn, Value
  <1>7. QED BY <1>4, <1>5, <1>6

\* What the reader sees before and after a step.
Seen == [r \in Repos |-> Shown(r)]

LEMMA SeenIs ==
  ASSUME IInv
  PROVE  Seen = [r \in Repos |-> IF table = NoBoard THEN NotShown ELSE Value(r, Reported)]
  <1> SUFFICES ASSUME NEW r \in Repos
               PROVE  Shown(r) = IF table = NoBoard THEN NotShown ELSE Value(r, Reported)
    BY DEF Seen
  <1>1. CASE table = NoBoard
    BY <1>1 DEF Shown
  <1>2. CASE table # NoBoard
    <2>1. Shown(r) = ShownIn(table, r)
      BY <1>2 DEF Shown, ShownIn
    <2>2. RunInv /\ Shows(table, Reported, TRUE) /\ Reported \in SUBSET Repos
      BY <1>2 DEF IInv, BoardInv, Reported
    <2>3. QED BY <1>2, <2>1, <2>2, ShownIs
  <1>3. QED BY <1>1, <1>2

\* Delivering an event shows one outcome more, or none.
LEMMA DeliverSettles ==
  ASSUME IInv, IInv', Deliver
  PROVE  \/ Seen' = Seen
         \/ \E q \in Repos : Seen[q] = NotShown /\ Seen' = [Seen EXCEPT ![q] = outcome[q]]
  <1>1. UNCHANGED <<keys, outcome>>
    BY DEF Deliver, producer
  <1>2. CASE table = NoBoard /\ table' = NoBoard
    BY <1>2, SeenIs DEF Seen, Shown
  <1>3. CASE table # NoBoard \/ table' # NoBoard
    <2>1. table' # NoBoard
      <3>1. Shows(table', Reported', TRUE)
        BY <1>1, <1>3, DeliverShows DEF Reported, RepoDone, Event
      <3>2. table' \in BoardsFor(keys)
        BY <3>1 DEF Shows
      <3>3. NoBoard \notin BoardsFor(keys)
        BY RunsAssumption DEF IInv, RunInv
      <3>4. QED BY <3>2, <3>3
    <2>2. PICK S : S = Reported
      OBVIOUS
    <2>3. PICK T : T = Reported'
      OBVIOUS
    <2>4. Seen = [r \in Repos |-> IF table = NoBoard THEN NotShown ELSE Value(r, S)]
      BY <2>2, SeenIs
    <2>5. Seen = [r \in Repos |-> Value(r, S)]
      <3>1. table = NoBoard => S = {}
        BY <1>3, <2>2, DeliverShows DEF Reported
      <3>2. table = NoBoard => \A r \in Repos : Value(r, S) = NotShown
        BY <3>1 DEF Value
      <3>3. QED BY <2>4, <3>2
    <2>6. Seen' = [r \in Repos |-> Value(r, T)]
      <3>1. T \in SUBSET Repos /\ Shows(table', T, TRUE) /\ RunInv
        BY <1>1, <1>3, <2>3, DeliverShows DEF IInv, Reported, RepoDone, Event
      <3>2. \A r \in Repos : ShownIn(table', r) = Value(r, T)
        BY <3>1, ShownIs
      <3>3. Seen' = [r \in Repos |-> ShownIn(table', r)]
        BY <2>1 DEF Seen, Shown, ShownIn
      <3>4. QED BY <3>2, <3>3
    <2>7. T = S \/ \E q \in Repos : q \notin S /\ T = S \cup {q}
      BY <1>1, <1>3, <2>2, <2>3, DeliverShows DEF Reported, RepoDone, Event
    <2>8. CASE T = S
      BY <2>5, <2>6, <2>8
    <2>9. CASE \E q \in Repos : q \notin S /\ T = S \cup {q}
      <3>1. PICK q \in Repos : q \notin S /\ T = S \cup {q}
        BY <2>9
      <3>2. \A r \in Repos : r # q => Value(r, T) = Value(r, S)
        BY <3>1 DEF Value
      <3>3. CASE q \notin DOMAIN Blank.index
        <4>1. Value(q, T) = Value(q, S)
          BY <3>3 DEF Value
        <4>2. QED BY <2>5, <2>6, <3>2, <4>1
      <3>4. CASE q \in DOMAIN Blank.index
        <4>1. Value(q, S) = NotShown /\ Value(q, T) = outcome[q]
          BY <3>1, <3>4 DEF Value
        <4>2. Seen' = [Seen EXCEPT ![q] = outcome[q]]
          BY <2>5, <2>6, <3>2, <4>1
        <4>3. QED BY <2>5, <4>1, <4>2
      <3>5. QED BY <3>3, <3>4
    <2>10. QED BY <2>7, <2>8, <2>9
  <1>4. QED BY <1>2, <1>3

\* Nothing else changes what the reader sees.
LEMMA OthersSettleNothing ==
  ASSUME [Next]_vars, ~Deliver
  PROVE  UNCHANGED <<keys, outcome, table>>
  <1>1. CASE \E p \in Procs : Emit(p)
    BY <1>1 DEF Emit, Lock, Write, WriteFails, Unlock, producer, reader
  <1>2. CASE \E r \in Repos : Finish(r)
    BY <1>2 DEF Finish, reader
  <1>3. CASE Exit \/ Kill \/ \E piece \in {Junk, Eol} : Stray(piece)
    BY <1>3 DEF Exit, Kill, Stray, producer, reader
  <1>4. CASE Read
    BY <1>4 DEF Read, Scan, ScanEnds, Empty, Skip, ReadReturns, producer
  <1>5. CASE Close \/ Done \/ UNCHANGED vars
    BY <1>5 DEF Close, Done, vars, producer, reader
  <1>6. QED BY <1>1, <1>2, <1>3, <1>4, <1>5 DEF Next

\* The table of the process that reads implements a Report, whatever happens
\* to the stream: every row waits until it shows what maintaining its
\* repository amounted to, and does not change after that (Read, Apply).
THEOREM TableIsAReport == Spec => RefinesReport
  <1>1. Init => Reports!Init
    BY DEF Init, Reports!Init, Shown
  <1>2. IInv /\ IInv' /\ [Next]_vars => [Reports!Next]_(Reports!vars)
    <2> SUFFICES ASSUME IInv, IInv', [Next]_vars PROVE [Reports!Next]_(Reports!vars)
      OBVIOUS
    <2>1. CASE ~Deliver
      <3>1. UNCHANGED <<keys, outcome, table>>
        BY <2>1, OthersSettleNothing
      <3>2. QED BY <3>1 DEF Reports!vars, Shown
    <2>2. CASE Deliver
      <3>1. outcome' = outcome
        BY <2>2 DEF Deliver, producer
      <3>2. CASE Seen' = Seen
        BY <3>1, <3>2 DEF Reports!vars, Seen
      <3>3. CASE \E q \in Repos : Seen[q] = NotShown /\ Seen' = [Seen EXCEPT ![q] = outcome[q]]
        BY <3>1, <3>3 DEF Reports!Next, Reports!Settle, Seen
      <3>4. QED BY <2>2, <3>2, <3>3, DeliverSettles
    <2>3. QED BY <2>1, <2>2
  <1>3. QED BY <1>1, <1>2, Invariance, PTL DEF Spec, RefinesReport, Reports!Spec
==============================================================================
