SPECIFICATION Spec
CONSTANTS
    Root = "c"
    MaxDepth = 2
    MaxChars = 3
    Jobs <- MCJobs
    Sources <- MCSources
    Underscored = {"_h"}
    Graphs <- MCGraphs
    Calls <- MCCalls
    Crates <- MCCrates
INVARIANTS WalksAreShortest SccsAreCycles NamesAreExact RankingIsExact ChunksCover SurfaceIsSound
CHECK_DEADLOCK FALSE
