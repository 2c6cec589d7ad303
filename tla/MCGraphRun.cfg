CONSTANTS
    Names <- MCNames
    Graphs <- MCGraphs
    NoOne = NoOne
SPECIFICATION FairSpec
INVARIANTS
    DependencyOrder
    StartedOnce
    RaceFree
    SendNeverBlocks
    Complete
PROPERTIES
    RefinesTopoOrder
    Termination
