----------------------------- MODULE MCLintPool ------------------------------
(***************************************************************************)
(* Three repositories, side by side or with one that waits on another, and *)
(* tasks of every kind.                                                    *)
(***************************************************************************)
EXTENDS LintPool

MCOrders == {[a |-> {}, b |-> {}, c |-> {"a"}],
             [a |-> {}, b |-> {}, c |-> {}]}

MCSequences == {<<"plain">>, <<"lint">>, <<"measure">>}
==============================================================================
