-------------------------------- MODULE Upkeep -------------------------------
(***************************************************************************)
(* What keeping a repository up promises to those who share its remote,    *)
(* whatever the calls of Update go through: a call delivers at most once a *)
(* tree that passes the tests, never over a push it has not taken in, and  *)
(* does nothing more but return; beyond that it gives a repository without *)
(* a module one, once.  A call that reports a push has made it, one that   *)
(* reports that nothing had to be pushed has delivered nothing; one that   *)
(* fails or is killed may have delivered or not.                           *)
(***************************************************************************)
CONSTANTS
    Trees,      \* what a commit may hold
    Bare        \* the trees without a module

VARIABLES
    sound,      \* the trees that pass the repository's tests
    remote,     \* the tree of the remote's last commit
    unseen,     \* whether someone else pushed and no call has taken it in
    running,    \* whether a call is under way
    delivered,  \* whether that call has delivered
    result      \* what the latest call reported

vars == <<sound, remote, unseen, running, delivered, result>>

Init ==
    /\ sound \subseteq Trees \ Bare
    /\ remote \in Trees
    /\ unseen = FALSE
    /\ running = FALSE /\ delivered = FALSE /\ result = "none"

Start ==
    /\ ~running
    /\ running' = TRUE /\ result' = "none"
    /\ UNCHANGED <<sound, remote, unseen, delivered>>

\* The call takes in what others have pushed.
Pull ==
    /\ running /\ ~delivered
    /\ unseen' = FALSE
    /\ UNCHANGED <<sound, remote, running, delivered, result>>

Initialise ==
    /\ running /\ ~delivered /\ ~unseen
    /\ remote \in Bare /\ remote' \in Trees \ Bare
    /\ UNCHANGED <<sound, unseen, running, delivered, result>>

Deliver ==
    /\ running /\ ~delivered /\ ~unseen
    /\ remote' \in sound
    /\ delivered' = TRUE
    /\ UNCHANGED <<sound, unseen, running, result>>

\* The call ends, with what is known of it.
End(how) ==
    /\ running /\ running' = FALSE
    /\ delivered' = FALSE
    /\ result' = how
    /\ UNCHANGED <<sound, remote, unseen>>

Return ==
    \/ delivered /\ End("pushed")
    \/ ~delivered /\ End("unchanged")
    \/ End("failed")

Die == End("none")

\* Someone else pushes, as they like.
Other ==
    /\ remote' \in Trees \ Bare
    /\ unseen' = TRUE
    /\ UNCHANGED <<sound, running, delivered, result>>

Next ==
    \/ Start \/ Pull \/ Initialise \/ Deliver \/ Return \/ Die \/ Other

Spec == Init /\ [][Next]_vars
==============================================================================
