SPECIFICATION Spec
CONSTANTS
    Within <- MCWithin
    StartsWith <- MCStarts
    Files <- MCFiles
    Hidden <- MCHidden
    Skipped = {}
    ServerSide <- MCServer
    Noise = {"main"}
    Shadows <- MCShadows
    IdlRepos = {"idl"}
    IdlMethods <- MCIdl
    Short <- MCShort
    Packages <- MCPackages
    Aliases <- MCAliases
    Links <- MCLinks
    Absent = absent
    Repos <- MCRepos
    TextsOf <- MCTextsOf
    Untracked <- MCUntracked
    AbsPath <- MCAbsPath
    MaxUserSteps = 0
    MaxBuilds = 1
    MaxUpdates = 0
    MaxMishaps = 0
INVARIANT HitsReachTheGraph
CHECK_DEADLOCK FALSE
