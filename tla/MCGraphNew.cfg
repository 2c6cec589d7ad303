CONSTANTS
    Names <- MCNames
    Inputs <- MCInputs
SPECIFICATION FairSpec
INVARIANTS
    GraphHoldsDeps
    StuckIsTheCycle
    AcceptsExactlyAcyclic
PROPERTIES
    Termination
