------------------------------ MODULE MCRunner -------------------------------
(***************************************************************************)
(* Two tasks, the second of which says what its commit amounted to in two  *)
(* names; code that is healthy in two ways or broken, and documentation    *)
(* the linter accepts or not.                                              *)
(***************************************************************************)
EXTENDS Runner

MCTasks == <<"fmt", "update">>

MCDescribe == [fmt |-> <<>>, update |-> <<"readme", "makefile">>]

MCSpecs ==
    {[description |-> "A thing", topics |-> None, lintInTests |-> TRUE],
     [description |-> None, topics |-> "go", lintInTests |-> FALSE]}

==============================================================================
