SPECIFICATION Spec
CONSTANTS
    Procs = {"p", "q"}
    ModelFiles <- MCModelFiles
    Versions = {"v1", "v2"}
    SameCacheDir = TRUE
    NoManifest = none
    Torn = torn
    MaxCommands = 3
    MaxMishaps = 1
INVARIANT FilesWholeAlone
PROPERTIES EnsuredIsWhole EnsureEnds
CHECK_DEADLOCK FALSE
