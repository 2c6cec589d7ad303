CONSTANTS
    Tasks <- MCTasks
    Describe <- MCDescribe
    Specs <- MCSpecs
    None = None
    Inert = {"doc"}
    Codes = {"none", "good", "better", "broken"}
    NoModule = "none"
    Healthy = {"good", "better"}
    Docs = {"tidy", "messy"}
    Lintable = {"tidy"}
    TestsWrite = FALSE
    MaxRuns = 2
    MaxOthers = 0
SPECIFICATION Spec
INVARIANTS
    UpToDate
