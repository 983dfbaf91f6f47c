CONSTANTS
    c1 = c1
    c2 = c2
    c3 = c3
    Calls = {c1, c2}
    Paths = {"f", "g"}
    Sections <- TwoCalls
    Sudo = {c2}
    MaxSpins = 2
    Strangers = {"g"}
    MayAge = TRUE
    Nobody = Nobody
SPECIFICATION FairSpec
INVARIANTS
    ReportsAreTrue
    LostOnlyIfStolen
    NoLeftovers
PROPERTIES
    ReplacedWhole
    CallsEnd
CHECK_DEADLOCK FALSE
