----------------------------- MODULE ModuleChanges ---------------------------
(***************************************************************************)
(* What a task is said to have changed: modules.go, as apply of            *)
(* maintain.go uses it.  go.mod is read before the task and again for the  *)
(* report, of a commit or of a failing test; the two readings are compared *)
(* by two loops over maps, and the changed files are listed with vendor/   *)
(* in place of what is under it.                                           *)
(*                                                                         *)
(* Module paths and file names are numbers, for their order.               *)
(***************************************************************************)
EXTENDS Naturals, Sequences, FiniteSets, Functions

CONSTANTS
    ModulePaths,        \* the module paths, in their order
    Versions,           \* what they may be required in
    Contents,           \* the go.mod's: <<path, version>> for each requirement
    NoFile,             \* no go.mod
    Garbage,            \* a go.mod that does not parse
    Nil,                \* what readGoMod returns for none
    FileLists,          \* what GetChangedFiles may answer
    GoMod,              \* the place of go.mod among the file names
    VendorDir,          \* the place of vendor/
    Vendored,           \* the files under it
    MaxDescribedFiles   \* how many files a failure names

\* What a map of the code answers for a path that it lacks.
NoVersion == ""

ASSUME RequirementsAssumption ==
    /\ ModulePaths \subseteq Nat /\ NoVersion \notin Versions
    /\ Contents \subseteq Seq(ModulePaths \X Versions)
    /\ {NoFile, Garbage, Nil} \cap Contents = {} /\ Garbage \notin {NoFile, Nil}

ASSUME FilesAssumption ==
    /\ \A fs \in FileLists : fs \in Seq(Nat \ {VendorDir}) /\ IsInjective(fs)
    /\ VendorDir \in Nat /\ GoMod \notin Vendored
    /\ MaxDescribedFiles \in Nat

VARIABLES
    goMod,      \* go.mod in the worktree
    head,       \* go.mod as it was when apply began
    before,     \* the first reading
    after,      \* the second
    unread,     \* whether a reading failed on a go.mod that is there (history)
    files,      \* the changed files
    from, to,   \* the requirements of the two readings
    todo,       \* the paths the loop under way has not reached
    changes,    \* the changes found
    report,     \* what the event or the error says
    pc

vars == <<goMod, head, before, after, unread, files, from, to, todo, changes,
          report, pc>>

NoReport == [named |-> <<>>, more |-> 0, modules |-> <<>>, failed |-> FALSE]

Init ==
    /\ goMod \in Contents \cup {NoFile, Garbage}
    /\ head = goMod
    /\ before = Nil /\ after = Nil /\ unread = FALSE
    /\ files = <<>> /\ from = <<>> /\ to = <<>> /\ todo = {} /\ changes = <<>>
    /\ report = NoReport /\ pc = "read"

Goto(a, b) == pc = a /\ pc' = b

------------------------------------------------------------------------------
(* apply, as far as it bears on the report.                                *)

\* A go.mod that cannot be read is as none.
readGoMod(read) ==
    \/ read = (IF goMod = NoFile THEN Nil ELSE goMod) /\ UNCHANGED unread
    \/ goMod # NoFile /\ read = Nil /\ unread' = TRUE

ReadBefore ==
    /\ Goto("read", "task")
    /\ \E b \in {goMod, Nil} : readGoMod(b) /\ before' = b
    /\ UNCHANGED <<goMod, head, after, files, from, to, todo, changes, report>>

\* The task rewrites go.mod or does not, and other files.
RunTask ==
    /\ Goto("task", "test")
    /\ goMod' \in Contents \cup {NoFile, Garbage}
    /\ files' \in {fs \in FileLists : (\E n \in DOMAIN fs : fs[n] = GoMod) <=> goMod' # goMod}
    /\ UNCHANGED <<head, before, after, unread, from, to, todo, changes, report>>

\* The test passes and what there is is committed, or it fails; go.mod is
\* read for the one report or the other.
Test ==
    /\ Goto("test", "before")
    /\ \E a \in {goMod, Nil} : readGoMod(a) /\ after' = a
    /\ \E failed \in BOOLEAN : report' = [report EXCEPT !.failed = failed]
    /\ UNCHANGED <<goMod, head, before, files, from, to, todo, changes>>

------------------------------------------------------------------------------
(* moduleChanges.                                                          *)

\* Each required module's version; of a module listed twice, the later one.
\* There are none where go.mod does not parse, which the callers ask first.
requirements(data) ==
    IF data \in {Nil, Garbage} THEN <<>>
    ELSE [path \in {data[n][1] : n \in DOMAIN data} |->
            data[CHOOSE n \in DOMAIN data :
                    /\ data[n][1] = path
                    /\ \A m \in DOMAIN data : m > n => data[m][1] # path][2]]

VersionIn(reqs, path) == IF path \in DOMAIN reqs THEN reqs[path] ELSE NoVersion

Change(path, v, w) == [path |-> path, from |-> v, to |-> w]

CompareBefore ==
    /\ from' = requirements(before)
    /\ pc = "before"
    /\ pc' = IF before = Garbage THEN "sort" ELSE "after"
    /\ UNCHANGED <<goMod, head, before, after, unread, files, to, todo, changes, report>>

CompareAfter ==
    /\ to' = requirements(after)
    /\ pc = "after"
    /\ IF after = Garbage THEN pc' = "sort" /\ UNCHANGED todo
                        ELSE pc' = "to" /\ todo' = DOMAIN to'
    /\ UNCHANGED <<goMod, head, before, after, unread, files, from, changes, report>>

\* Mutant: a module that is new has not moved.
LoopToKnown ==
    /\ pc = "to"
    /\ \E path \in todo :
          /\ todo' = todo \ {path}
          /\ changes' = IF path \notin DOMAIN from \/ from[path] = to[path] THEN changes
                        ELSE Append(changes, Change(path, from[path], to[path]))
    /\ UNCHANGED <<goMod, head, before, after, unread, files, from, to, report, pc>>

\* One iteration over the requirements after, in any order.
LoopTo ==
    /\ pc = "to"
    /\ \E path \in todo :
          /\ todo' = todo \ {path}
          /\ changes' = IF VersionIn(from, path) = to[path] THEN changes
                        ELSE Append(changes, Change(path, VersionIn(from, path), to[path]))
    /\ UNCHANGED <<goMod, head, before, after, unread, files, from, to, report, pc>>

EndTo ==
    /\ todo = {} /\ Goto("to", "from")
    /\ todo' = DOMAIN from
    /\ UNCHANGED <<goMod, head, before, after, unread, files, from, to, changes, report>>

\* One iteration over the requirements before.
LoopFrom ==
    /\ pc = "from"
    /\ \E path \in todo :
          /\ todo' = todo \ {path}
          /\ changes' = IF path \in DOMAIN to THEN changes
                        ELSE Append(changes, Change(path, from[path], NoVersion))
    /\ UNCHANGED <<goMod, head, before, after, unread, files, from, to, report, pc>>

EndFrom ==
    /\ todo = {} /\ Goto("from", "sort")
    /\ UNCHANGED <<goMod, head, before, after, unread, files, from, to, todo, changes, report>>

------------------------------------------------------------------------------
(* The report.                                                             *)

\* slices.Sort and slices.SortFunc: s in the order of key, the place of an
\* entry being the number of those that do not come after it.
Place(key, n) ==
    Cardinality({m \in DOMAIN key : key[m] < key[n] \/ (key[m] = key[n] /\ m <= n)})

Sort(s, key) == [k \in DOMAIN s |-> s[CHOOSE n \in DOMAIN s : Place(key, n) = k]]

\* The files of fs that are not under vendor/, and vendor/ if there are others.
withVendorDir(fs) ==
    LET out[n \in 0 .. Len(fs)] ==
            IF n = 0 THEN <<>>
            ELSE IF fs[n] \in Vendored THEN out[n - 1] ELSE Append(out[n - 1], fs[n])
        kept == out[Len(fs)]
    IN  IF Len(kept) = Len(fs) THEN kept ELSE Append(kept, VendorDir)

\* Mutant: vendor/ comes last.
collapseVendorUnsorted(fs) == withVendorDir(Sort(fs, fs))

\* vendor/ once in place of every file under it.
collapseVendor(fs) == LET out == withVendorDir(fs) IN Sort(out, out)

\* Mutant: the rest is counted whether or not there is one.
describedAll(fs) == [named |-> fs, more |-> Len(fs) - MaxDescribedFiles]

\* What describeChanges names of the files, and how many it counts.
described(fs) ==
    IF Len(fs) > MaxDescribedFiles
    THEN [named |-> SubSeq(fs, 1, MaxDescribedFiles), more |-> Len(fs) - MaxDescribedFiles]
    ELSE [named |-> fs, more |-> 0]

\* The changes are sorted by path; a failure names some files and counts the
\* rest, a commit names all.
Report ==
    /\ Goto("sort", "done")
    /\ LET fs == collapseVendor(files)
           said == IF report.failed THEN described(fs) ELSE [named |-> fs, more |-> 0]
       IN report' = [named |-> said.named, more |-> said.more, failed |-> report.failed,
                     modules |-> Sort(changes, [n \in DOMAIN changes |-> changes[n].path])]
    /\ UNCHANGED <<goMod, head, before, after, unread, files, from, to, todo, changes>>

Done == pc = "done" /\ UNCHANGED vars

Next ==
    \/ ReadBefore \/ RunTask \/ Test
    \/ CompareBefore \/ CompareAfter \/ LoopTo \/ EndTo \/ LoopFrom \/ EndFrom
    \/ Report \/ Done

Spec == Init /\ [][Next]_vars

------------------------------------------------------------------------------
(* Properties.                                                             *)

Moves ==
    [path : ModulePaths, from : Versions \cup {NoVersion}, to : Versions \cup {NoVersion}]

TypeOK ==
    /\ {goMod, head} \subseteq Contents \cup {NoFile, Garbage}
    /\ {before, after} \subseteq Contents \cup {Nil, Garbage}
    /\ unread \in BOOLEAN
    /\ files \in FileLists \cup {<<>>}
    /\ DOMAIN from \subseteq ModulePaths /\ DOMAIN to \subseteq ModulePaths
    /\ todo \subseteq ModulePaths
    /\ changes \in Seq(Moves)
    /\ report.named \in Seq(Nat) /\ report.more \in Nat /\ report.failed \in BOOLEAN

\* The version a go.mod requires of a module, "" for none: of several, the
\* last one listed.
Version(content, path) ==
    LET at == {n \in DOMAIN content : content[n][1] = path}
    IN IF content = NoFile \/ at = {} THEN NoVersion
       ELSE content[CHOOSE n \in at : \A m \in at : m <= n][2]

Increasing(s, Key(_)) == \A m, n \in DOMAIN s : m < n => Key(s[m]) < Key(s[n])

Known == ~unread /\ Garbage \notin {head, goMod}

\* What is reported turns the requirements the last commit had into those the
\* worktree has, in whatever order the maps were gone through: no module that
\* moved is missing, none that stayed is listed, each once and in the order of
\* the paths, and one added or removed says so by an empty version (lines
\* 33-67).  Where a side was read and does not parse, nothing is said to have
\* moved, however many modules the other side requires (lines 69-72).
SaysWhatMoved ==
    /\ pc = "done" /\ Garbage \in {before, after} => report.modules = <<>>
    /\ pc = "done" /\ Known =>
        /\ Increasing(report.modules, LAMBDA c : c.path)
        /\ \A n \in DOMAIN report.modules :
              report.modules[n].from # report.modules[n].to
        /\ \A path \in ModulePaths :
              LET said == {n \in DOMAIN report.modules : report.modules[n].path = path}
                  was == Version(head, path)
                  is == Version(goMod, path)
              IN IF was = is THEN said = {}
                 ELSE \E n \in said : report.modules[n] = Change(path, was, is)

\* The report is of every changed file and of nothing else: in order, vendor/
\* once exactly where something under it changed, and what a failure does not
\* name it counts (lines 91-117, 127-138).
FilesExact ==
    pc = "done" =>
        LET changed == Range(files)
            shown == (changed \ Vendored)
                     \cup (IF changed \cap Vendored = {} THEN {} ELSE {VendorDir})
        IN /\ Increasing(report.named, LAMBDA f : f)
           /\ Range(report.named) \subseteq shown
           /\ Cardinality(shown) = Len(report.named) + report.more
           /\ \A f \in shown \ Range(report.named) :
                 \A n \in DOMAIN report.named : report.named[n] < f
           /\ report.more > 0 => report.failed /\ Len(report.named) = MaxDescribedFiles

==============================================================================
