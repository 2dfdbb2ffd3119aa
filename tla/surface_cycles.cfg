SPECIFICATION Spec
CONSTANTS
    Root = "c"
    MaxDepth = 2
    MaxChars = 3
    Jobs <- NoJobs
    Underscored = {"_h"}
    Graphs = {}
    Calls = {}
    Sources = {}
    Crates <- CyclicCrates
INVARIANT CyclesAreBroken
CHECK_DEADLOCK FALSE
