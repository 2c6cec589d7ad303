CONSTANTS
    Tasks <- MCTasks
    Describe <- MCDescribe
    Specs <- MCSpecs
    None = None
    Inert = {"doc"}
    Codes = {"none", "good", "better", "broken"}
    NoModule = "none"
    Healthy = {"good", "better"}
    Docs = {"tidy", "messy"}
    Lintable = {"tidy"}
    TestsWrite = TRUE
    MaxRuns = 1
    MaxOthers = 0
SPECIFICATION Spec
INVARIANTS
    FilesAreTheCommits
