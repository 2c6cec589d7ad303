---------------------------- MODULE MCSelfUpdate -----------------------------
(***************************************************************************)
(* A plain machine with every PATH and kind of build, and machines that    *)
(* lack something, or keep modules from the proxy in the ways Go allows.   *)
(***************************************************************************)
EXTENDS SelfUpdate

Have(gobin, early) == [gobin |-> gobin, early |-> early]

Plain ==
    [module |-> "tool", direct |-> FALSE, toolchain |-> TRUE,
     path |-> <<"gobin">>, link |-> FALSE, files |-> Have(Published(1), Absent),
     GOPRIVATE |-> {}, GONOPROXY |-> {}, GONOSUMDB |-> {}, secret |-> {}]

Shadowed ==
    [Plain EXCEPT !.path = <<"early", "gobin">>,
                  !.files = Have(Build("dirty", 1), Published(1))]

PrivateDependency ==
    [Plain EXCEPT !.GOPRIVATE = {"dependency"}, !.secret = {"dependency"}]

\* GONOPROXY set beside GOPRIVATE, which then counts for the database only.
PrivateModule ==
    [Plain EXCEPT !.GOPRIVATE = {"module"}, !.GONOPROXY = {"module", "dependency"},
                  !.secret = {"module"}]

MCSetups ==
    {[s EXCEPT !.direct = d] : d \in BOOLEAN,
        s \in {Plain, Shadowed, [Shadowed EXCEPT !.link = TRUE],
               [Shadowed EXCEPT !.path = <<"gobin", "early">>],
               PrivateDependency, PrivateModule}}
    \cup {[Plain EXCEPT !.files = Have(b, Absent)] :
             b \in {Build("dirty", 1), Devel, Unversioned, Absent}}
    \cup {[Plain EXCEPT !.direct = d, !.files = Have(Build("ahead", 1), Absent)] :
             d \in BOOLEAN}
    \cup {[Plain EXCEPT !.path = <<>>], [Plain EXCEPT !.toolchain = FALSE],
          [Plain EXCEPT !.module = ""], [Plain EXCEPT !.module = "tool/v2"],
          \* a dependency nothing on the machine gives access to
          [PrivateDependency EXCEPT !.GOPRIVATE = {}]}

==============================================================================
