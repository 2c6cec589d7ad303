------------------------------- MODULE TopoOrder -----------------------------
(***************************************************************************)
(* What depgraph.Run promises, without goroutines, locks or counters: each *)
(* key is begun once and only after everything it waits on has finished,   *)
(* any number of keys may be under way, and Run returns when all are done. *)
(***************************************************************************)
VARIABLES
    keys, waits,    \* the keys, and those each of them waits on; unchanged
    begun, finished, returned

vars == <<keys, waits, begun, finished, returned>>

Init == begun = {} /\ finished = {} /\ returned = FALSE

Begin(k) ==
    /\ k \notin begun
    /\ waits[k] \subseteq finished
    /\ begun' = begun \cup {k}
    /\ UNCHANGED <<keys, waits, finished, returned>>

Finish(k) ==
    /\ k \in begun \ finished
    /\ finished' = finished \cup {k}
    /\ UNCHANGED <<keys, waits, begun, returned>>

Return ==
    /\ ~returned
    /\ finished = keys
    /\ returned' = TRUE
    /\ UNCHANGED <<keys, waits, begun, finished>>

Next == (\E k \in keys : Begin(k) \/ Finish(k)) \/ Return

Spec == Init /\ [][Next]_vars
==============================================================================
