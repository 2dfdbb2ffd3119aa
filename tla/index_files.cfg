SPECIFICATION Spec
CONSTANTS
    Procs = {"p", "q"}
    Files = {"f", "g"}
    Texts <- MCTexts
    SizeOf <- MCSizeOf
    ChunksIn <- MCChunks
    Missing = missing
    FirstText = "fn"
    MaxEdits = 1
    MaxOpens = 3
    MaxMishaps = 1
INVARIANTS TypeOK OneGeneration ExactWhenCalm
PROPERTY OpensEnd
CHECK_DEADLOCK FALSE
