---------------------------- MODULE MCEventStream ----------------------------
(***************************************************************************)
(* Two repositories, announced in either order beside a key that is none,  *)
(* or one of them not at all.                                              *)
(***************************************************************************)
EXTENDS EventStream, TLC

CONSTANTS a, b, nokey

Pushed == [data |-> "pushed", err |-> ""]
Failed(msg) == [data |-> "", err |-> msg]

MCRuns ==
    {[keys |-> <<b, nokey, a>>, outcome |-> (a :> Pushed) @@ (b :> Failed("failed"))],
     [keys |-> <<b, a>>, outcome |-> (a :> Failed("long")) @@ (b :> Pushed)],
     [keys |-> <<a>>, outcome |-> (a :> Failed("raw")) @@ (b :> Failed("failed"))]}
==============================================================================
