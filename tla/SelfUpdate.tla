------------------------------ MODULE SelfUpdate -----------------------------
(***************************************************************************)
(* Updater.Update of selfupdate/selfupdate.go, called by the processes of  *)
(* one binary on one machine, while versions are pushed, a module proxy    *)
(* answers with what it has cached, and the developer builds and installs. *)
(*                                                                         *)
(* Every run of the go toolchain is an action; what Update does between    *)
(* two of them belongs to the action before.  Versions are numbered in the *)
(* order they are pushed.                                                  *)
(***************************************************************************)
EXTENDS Naturals, Sequences

CONSTANTS
    Procs,      \* the processes
    Setups,     \* the Updaters and the machines they run on, see Setup
    Nowhere,    \* no file, the empty path
    MaxVersion, \* bound: versions pushed
    MaxBuilds   \* bound: builds the developer puts into place by hand

Versions == 1 .. MaxVersion
NoVersion == 0

\* What the toolchain stamps into a binary: a version, one that lies ahead of a
\* version and behind the next, as a prerelease and a commit that no tag names
\* do, a version and "+dirty", "(devel)", or nothing.
Build(kind, v) == [kind |-> kind, version |-> v]
Published(v) == Build("published", v)
Absent == Build("absent", NoVersion)
Devel == Build("devel", NoVersion)
Unversioned == Build("none", NoVersion)
Builds ==
    [kind : {"published", "ahead", "dirty"}, version : Versions]
        \cup {Devel, Unversioned, Absent}

\* What the toolchain fetches: the module, another it requires, and a newer
\* toolchain where the module needs one, which only the proxy has.
Modules == {"module", "dependency", "toolchain"}

\* The variables hold sets of modules, {} where they are unset.
Setup ==
    [module : {"", "tool", "tool/v2"},  \* Module, but for what comes before
     direct : BOOLEAN,                  \* Direct
     toolchain : BOOLEAN,               \* whether go is on PATH
     path : {<<>>, <<"gobin">>, <<"early", "gobin">>, <<"gobin", "early">>},
     files : [{"gobin", "early"} -> Builds],    \* what is there at first
     link : BOOLEAN,                    \* early has a link to gobin's file
     GOPRIVATE : SUBSET Modules, GONOPROXY : SUBSET Modules,
     GONOSUMDB : SUBSET Modules,
     secret : SUBSET Modules]           \* those no proxy has

ASSUME SetupsAssumption ==
    /\ Setups \subseteq Setup
    /\ \A s \in Setups : \A d \in {"gobin", "early"} : s.files[d].version <= 1

ASSUME BoundsAssumption ==
    /\ MaxVersion \in Nat \ {0} /\ MaxBuilds \in Nat

ASSUME NowhereAssumption ==
    Nowhere \notin {"gobin", "early"} /\ Nowhere # <<"gobin", "tool">>

VARIABLES
    setup,
    latest,     \* the latest version in the repository
    cached,     \* the one the proxy answers with
    files,      \* directory -> the build in it, by the binary's name
    pc,         \* process -> "off", or what its Update does next
    current,    \* process -> the build it runs, Updater.Current
    out,        \* process -> Outcome and error, as far as it has come
    wrote,      \* process -> the version its Update has installed (history)
    since,      \* process -> what was the latest when it started (history)
    builds

machine == <<setup, latest, cached, files, builds>>
vars == <<machine, pc, current, out, wrote, since>>

NoOutcome ==
    [latest |-> NoVersion, updated |-> FALSE, reason |-> FALSE, err |-> FALSE,
     installed |-> Nowhere, shadowed |-> Nowhere]

Init ==
    /\ setup \in Setups
    /\ latest = 1 /\ cached = 1
    /\ files = setup.files
    /\ pc = [p \in Procs |-> "off"]
    /\ current = [p \in Procs |-> Absent]
    /\ out = [p \in Procs |-> NoOutcome]
    /\ wrote = [p \in Procs |-> NoVersion]
    /\ since = [p \in Procs |-> NoVersion]
    /\ builds = 0

------------------------------------------------------------------------------
(* The machine.                                                            *)

\* The file a directory has, links followed: where it is, and the build.
Place(d) == IF d = "early" /\ setup.link THEN "gobin" ELSE d
File(d) == files[Place(d)]

\* The binary go install builds: the last element that is no major version.
Binary == "tool"

\* The first directory of PATH that has the binary of that name.
LookPath(file) ==
    LET Found == {m \in DOMAIN setup.path :
                     file = Binary /\ File(setup.path[m]) # Absent}
    IN IF Found = {} THEN Nowhere
       ELSE setup.path[CHOOSE m \in Found : \A k \in Found : m <= k]

\* A shell runs what PATH finds, or else the installed binary by its path.
Started == LET d == LookPath(Binary) IN IF d = Nowhere THEN "gobin" ELSE d

\* The modules for which the toolchain goes past the proxy, or past the
\* checksum database, in the machine's own environment.
Bypassed(key) == IF setup[key] # {} THEN setup[key] ELSE setup.GOPRIVATE

------------------------------------------------------------------------------
(* The helpers of selfupdate.go.                                           *)

local(build) == build.kind \in {"devel", "dirty"}

\* Mutant: GOPRIVATE is not carried across.
patternsAsSet(key) == setup[key]

patterns(key) == IF setup[key] # {} THEN setup[key] ELSE setup.GOPRIVATE

\* Bypassed in the environment the toolchain is given.
env(key) ==
    IF setup.direct THEN {"module"} \cup patterns(key) ELSE Bypassed(key)

name == IF setup.module = "tool/v2" THEN "v2" ELSE setup.module

\* Mutant: files are compared by their names.
samePath(d, e) == d = e

sameFile(d, e) == Place(d) = Place(e)

\* What runs in place of the binary just installed.
shadowing(installed) ==
    LET found == LookPath(name)
    IN IF \/ found = Nowhere \/ installed = Nowhere
          \/ sameFile(found, installed[1])
       THEN Nowhere ELSE found

------------------------------------------------------------------------------
(* Update.                                                                 *)

Goto(p, from, to) == pc[p] = from /\ pc' = [pc EXCEPT ![p] = to]

\* Update returns what it has come to.
Returns(p, outcome) ==
    /\ out' = [out EXCEPT ![p] = outcome]
    /\ pc' = [pc EXCEPT ![p] = "returned"]

\* A process starts and calls Update.
Start(p) ==
    /\ File(Started) # Absent
    /\ Goto(p, "off", "check")
    /\ current' = [current EXCEPT ![p] = File(Started)]
    /\ since' = [since EXCEPT ![p] = latest]
    /\ UNCHANGED <<machine, out, wrote>>

Failed == [NoOutcome EXCEPT !.err = TRUE]
Because == [NoOutcome EXCEPT !.reason = TRUE]

Check(p) ==
    /\ pc[p] = "check"
    /\ IF setup.module = "" THEN Returns(p, Failed)
       ELSE IF current[p] = Unversioned \/ local(current[p])
            THEN Returns(p, Because)
       ELSE IF ~setup.toolchain THEN Returns(p, Failed)
       ELSE Goto(p, "check", "resolve") /\ UNCHANGED out
    /\ UNCHANGED <<machine, current, wrote, since>>

\* Mutant: the toolchain is asked in the machine's own environment.
AnswerOfProxy == IF "module" \in Bypassed("GONOPROXY") THEN latest ELSE cached

\* The version go list finds: the repository's own, or the proxy's.
Answer == IF "module" \in env("GONOPROXY") THEN latest ELSE cached

ResolveWorks(p) ==
    /\ pc[p] = "resolve"
    /\ "module" \in setup.secret => "module" \in env("GONOPROXY")
    /\ LET asked == [NoOutcome EXCEPT !.latest = Answer]
       IN IF Published(Answer) = current[p]
          THEN Returns(p, [asked EXCEPT !.reason = TRUE])
          ELSE /\ Goto(p, "resolve", "install")
               /\ out' = [out EXCEPT ![p] = asked]
    /\ UNCHANGED <<machine, current, wrote, since>>

\* The toolchain fails, or names no version.
ResolveFails(p) ==
    /\ pc[p] = "resolve"
    /\ Returns(p, Failed)
    /\ UNCHANGED <<machine, current, wrote, since>>

\* go install puts the version in place if it can fetch all it needs.
Installs(p, version) ==
    /\ Goto(p, "install", "installed")
    /\ setup.secret \subseteq env("GONOPROXY") \cap env("GONOSUMDB")
    /\ "toolchain" \notin env("GONOPROXY")
    /\ files' = [files EXCEPT !["gobin"] = Published(version)]
    /\ wrote' = [wrote EXCEPT ![p] = version]
    /\ UNCHANGED <<setup, latest, cached, builds, current, out, since>>

\* Mutant: "latest" is installed, whatever that is now.
InstallLatest(p) == Installs(p, Answer)

\* The version installed is the one that was compared.
InstallWorks(p) == Installs(p, out[p].latest)

InstallReturns(p) ==
    /\ Goto(p, "installed", "locate")
    /\ UNCHANGED <<machine, current, out, wrote, since>>

\* Mutant: the error of the toolchain is not looked at.
InstallErrIgnored(p) ==
    /\ pc[p] \in {"install", "installed"}
    /\ pc' = [pc EXCEPT ![p] = "locate"]
    /\ UNCHANGED <<machine, current, out, wrote, since>>

\* The toolchain fails, or is killed by its context, which may come after it
\* has put the version in place.
InstallFails(p) ==
    /\ pc[p] \in {"install", "installed"}
    /\ Returns(p, [out[p] EXCEPT !.err = TRUE])
    /\ UNCHANGED <<machine, current, wrote, since>>

\* The toolchain says where it installs to, unless the context is done.
Locate(p) ==
    /\ pc[p] = "locate"
    /\ \E installed \in {<<"gobin", name>>, Nowhere} :
          Returns(p, [out[p] EXCEPT !.updated = TRUE, !.installed = installed,
                                    !.shadowed = shadowing(installed)])
    /\ UNCHANGED <<machine, current, wrote, since>>

\* The process ends, of its own or not; one whose go install goes on without
\* it is one that has not ended yet.
Exit(p) ==
    /\ pc[p] # "off"
    /\ pc' = [pc EXCEPT ![p] = "off"]
    /\ current' = [current EXCEPT ![p] = Absent]
    /\ out' = [out EXCEPT ![p] = NoOutcome]
    /\ wrote' = [wrote EXCEPT ![p] = NoVersion]
    /\ since' = [since EXCEPT ![p] = NoVersion]
    /\ UNCHANGED machine

------------------------------------------------------------------------------
(* The rest of the world.                                                  *)

Push ==
    /\ latest < MaxVersion
    /\ latest' = latest + 1
    /\ UNCHANGED <<setup, cached, files, builds, pc, current, out, wrote, since>>

\* The proxy's answer expires.
Refresh ==
    /\ cached # latest
    /\ cached' = latest
    /\ UNCHANGED <<setup, latest, files, builds, pc, current, out, wrote, since>>

\* What the developer puts into place: a worktree's build, a commit or a
\* prerelease ahead of the latest version, or any version by its name.
ByHand ==
    {Devel, Build("dirty", latest), Build("ahead", latest)}
        \cup {Published(v) : v \in 1 .. latest}

BuildByHand ==
    /\ builds < MaxBuilds
    /\ \E b \in ByHand : files' = [files EXCEPT !["gobin"] = b]
    /\ builds' = builds + 1
    /\ UNCHANGED <<setup, latest, cached, pc, current, out, wrote, since>>

\* Whatever is in place cannot be run.
Done ==
    /\ \A p \in Procs : pc[p] = "off"
    /\ File(Started) = Absent
    /\ UNCHANGED vars

Calls(p) ==
    \/ Start(p) \/ Check(p) \/ ResolveWorks(p) \/ ResolveFails(p)
    \/ InstallWorks(p) \/ InstallReturns(p) \/ InstallFails(p) \/ Locate(p)

Next ==
    \/ \E p \in Procs : Calls(p) \/ Exit(p)
    \/ Push \/ Refresh \/ BuildByHand \/ Done

Spec == Init /\ [][Next]_vars

\* The binary is used again and again, every call returns and the process ends;
\* the proxy's answer expires; and an update tried over and over gets through.
FairSpec ==
    /\ Spec
    /\ WF_vars(Refresh)
    /\ \A p \in Procs : WF_vars(Calls(p) \/ Exit(p))
    /\ SF_vars(\E p \in Procs : Check(p))
    /\ SF_vars(\E p \in Procs : ResolveWorks(p))
    /\ SF_vars(\E p \in Procs : InstallWorks(p))

------------------------------------------------------------------------------
(* Properties.                                                             *)

TypeOK ==
    /\ setup \in Setups
    /\ latest \in Versions /\ cached \in 1 .. latest
    /\ files \in [{"gobin", "early"} -> Builds]
    /\ pc \in [Procs -> {"off", "check", "resolve", "install", "installed", "locate",
                       "returned"}]
    /\ current \in [Procs -> Builds]
    /\ wrote \in [Procs -> Versions \cup {NoVersion}]
    /\ since \in [Procs -> Versions \cup {NoVersion}]
    /\ builds \in 0 .. MaxBuilds
    /\ out \in [Procs -> [latest : Versions \cup {NoVersion},
                          updated : BOOLEAN, reason : BOOLEAN, err : BOOLEAN,
                          installed : {Nowhere, <<"gobin", name>>},
                          shadowed : {Nowhere, "gobin", "early"}]]

Returned(p) == pc[p] = "returned"

\* The Outcome is what happened (lines 67-85): exactly one of an error, a
\* reason and an installed version; what is said to be installed has been; and
\* where a reason is given nothing was, nor by a process that is a local build,
\* or of no version.  An error says nothing of this: the version may be in
\* place all the same, but its place is not named.
OutcomeTrue ==
    \A p \in Procs : Returned(p) =>
        LET o == out[p]
        IN /\ o.err <=> ~o.reason /\ ~o.updated
           /\ o.reason => ~o.updated
           /\ o.updated => wrote[p] # NoVersion /\ wrote[p] = o.latest
           /\ wrote[p] # NoVersion =>
                 ~o.reason /\ current[p].kind \in {"published", "ahead"}
           /\ ~o.updated => o.installed = Nowhere /\ o.shadowed = Nowhere

\* "The version installed is the one that was compared against and not a newer
\* one that landed in between" (lines 208-210).
Pinned ==
    \A p \in Procs :
        wrote[p] # NoVersion =>
            wrote[p] = out[p].latest /\ Published(wrote[p]) # current[p]

\* A process that asks the repository itself neither installs nor calls
\* itself current with a version older than the latest at its start, whatever
\* is pushed, cached and installed meanwhile (lines 51-56).  So a published
\* version gives way to a newer one only; a build ahead of the latest version
\* gives way to that version, which is older (line 152 asks for equality).
DirectFresh ==
    \A p \in Procs :
        "module" \in env("GONOPROXY") =>
            /\ NoVersion # out[p].latest => out[p].latest >= since[p]
            /\ NoVersion # wrote[p] =>
                  /\ wrote[p] >= since[p]
                  /\ wrote[p] >= current[p].version
                  /\ wrote[p] = current[p].version => current[p].kind = "ahead"

\* What Outcome says of the PATH is what the next start will find: with
\* nothing shadowing it, the file that was installed; otherwise another file,
\* links taken into account (lines 276-289).
SaysWhatRuns ==
    \A p \in Procs :
        LET o == out[p]
        IN Returned(p) /\ o.installed = <<"gobin", Binary>> =>
              o.shadowed = Nowhere <=> Place(Started) = "gobin"

\* The machine has what the module needs.
Able ==
    /\ setup.module # "" /\ setup.toolchain
    /\ setup.secret \subseteq Bypassed("GONOPROXY") \cap Bypassed("GONOSUMDB")
    /\ "toolchain" \notin Bypassed("GONOPROXY")

\* Once nothing is pushed any more, what is started is the latest version, or
\* at least what is installed where another build comes first on PATH, and
\* this lasts: a stale answer, a failed attempt and a process that installs an
\* older version after a newer one are made up for, and going direct takes
\* away nothing the machine exempts or has exempted (lines 58-62, 246-251).
\* A local build, and one of no version, stays.
Converges ==
    Able => <>[](\/ File(Started).kind \notin {"published", "ahead"}
                 \/ Published(latest) \in {File(Started), files["gobin"]})

==============================================================================
