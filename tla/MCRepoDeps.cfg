CONSTANTS
    Elements <- MCElements
    Lower <- MCLower
    Sets <- MCSets
    GoMods <- MCGoMods
SPECIFICATION Spec
INVARIANTS
    EdgesExact
    GapsExact
