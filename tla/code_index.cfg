SPECIFICATION Spec
CONSTANTS
    Within <- MCWithin
    StartsWith <- MCStarts
    Files <- MCFiles
    Hidden <- MCHidden
    Skipped = {}
    ServerSide <- MCServer
    Noise = {"main"}
    Shadows <- MCShadows
    IdlRepos = {"idl"}
    IdlMethods <- MCIdl
    Short <- MCShort
    Packages <- MCPackages
    Aliases <- MCAliases
    Links <- MCLinks
    Absent = absent
    Repos <- MCRepos
    TextsOf <- MCTextsOf
    Untracked <- MCUntracked
    AbsPath <- MCAbsPath
    MaxUserSteps = 1
    MaxBuilds = 2
    MaxUpdates = 1
    MaxMishaps = 1
INVARIANTS TypeOK BuildMirrorsDisk UpdateMirrorsChanges CallersAgree LinksAreFound
PROPERTY UpdateLosesOnlyItsOwn
CHECK_DEADLOCK FALSE
