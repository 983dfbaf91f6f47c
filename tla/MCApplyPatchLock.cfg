CONSTANTS
    c1 = c1
    c2 = c2
    c3 = c3
    Calls = {c1, c2, c3}
    Paths = {"f"}
    Sections <- ThreeUpdates
    Sudo = {}
    MaxSpins = 2
    Strangers = {}
    MayAge = FALSE
    Nobody = Nobody
SPECIFICATION Spec
INVARIANT AppliedEditsKept
CHECK_DEADLOCK FALSE
