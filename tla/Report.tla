-------------------------------- MODULE Report -------------------------------
(***************************************************************************)
(* What a table drawn from events promises its reader: every row is        *)
(* pending until it shows what maintaining its repository amounted to, and *)
(* it never changes after that.                                            *)
(***************************************************************************)
CONSTANTS Repos, Pending

VARIABLES
    truth,      \* repository -> what maintaining it amounts to; unchanged
    shown       \* repository -> what the table shows

vars == <<truth, shown>>

Init == shown = [r \in Repos |-> Pending]

Settle(r) ==
    /\ shown[r] = Pending
    /\ shown' = [shown EXCEPT ![r] = truth[r]]
    /\ UNCHANGED truth

Next == \E r \in Repos : Settle(r)

Spec == Init /\ [][Next]_vars
==============================================================================
