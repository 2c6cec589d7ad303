CONSTANTS
    Procs = {"p", "q"}
    Setups <- MCSetups
    Nowhere = Nowhere
    MaxVersion = 2
    MaxBuilds = 1
SPECIFICATION FairSpec
INVARIANTS
    OutcomeTrue
    Pinned
    DirectFresh
    SaysWhatRuns
PROPERTIES
    Converges
