CONSTANTS
    Tasks <- MCTasks
    Describe <- MCDescribe
    Specs <- MCSpecs
    None = None
    Inert = {"doc"}
    Codes = {"none", "good", "better", "broken"}
    NoModule = "none"
    Healthy = {"good", "better"}
    Docs = {"tidy", "messy"}
    Lintable = {"tidy"}
    TestsWrite = FALSE
    MaxRuns = 2
    MaxOthers = 1
SPECIFICATION FairSpec
INVARIANTS
    NoDamage
    StartsClean
    CoverageOfHead
    ResultAccurate
    StepsInOrder
PROPERTIES
    Returns
    RefinesUpkeep
