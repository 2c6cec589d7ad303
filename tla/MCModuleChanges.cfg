CONSTANTS
    ModulePaths <- MCModulePaths
    Versions <- MCVersions
    Contents <- MCContents
    NoFile = NoFile
    Garbage = Garbage
    Nil = Nil
    FileLists <- MCFileLists
    GoMod = 1
    VendorDir = 2
    Vendored <- MCVendored
    MaxDescribedFiles = 2
SPECIFICATION Spec
INVARIANTS
    TypeOK
    SaysWhatMoved
    FilesExact
