CONSTANTS
    a = a
    b = b
    nokey = nokey
    Main = Main
    NoOne = NoOne
    NoKey = NoKey
    NoBoard = NoBoard
    NotShown = NotShown
    Proper = {a, b}
    Improper = {nokey}
    Texts = {"", "pushed", "failed", "long", "raw"}
    Repos = {a, b}
    Runs <- MCRuns
    Unencodable = {"raw"}
    Oversize = {"long"}
    maxStrayReports = 1
    Capacity = 2
    MaxTroubles = 2
SPECIFICATION FairSpec
INVARIANTS
    TypeOK
    Faithful
    LossBounded
    NoSilentLoss
    TablesAgree
PROPERTIES
    RefinesReport
    RunEnds
    ReadEnds
