CONSTANTS
    Repos = {"a", "b", "c"}
    Orders <- MCOrders
    Sequences <- MCSequences
    NoOne = NoOne
SPECIFICATION FairSpec
INVARIANTS
    OneLinter
    HeldToLint
PROPERTIES
    AllMaintained
    OthersGoOn
CHECK_DEADLOCK FALSE
