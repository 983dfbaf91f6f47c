CONSTANTS
    Chunks = 3
    InCap = 1
    OutCap = 1
    MaxOut = 2
SPECIFICATION FairSpec
INVARIANTS
    OkMeansDrained
    EofMeansAll
PROPERTIES
    StreamEnds
CHECK_DEADLOCK FALSE
