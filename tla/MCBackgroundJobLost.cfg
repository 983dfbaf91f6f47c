CONSTANTS
    Checkers = {k1}
    Detached = {}
    SuShell = FALSE
    MaxCrashes = 0
SPECIFICATION Spec
CHECK_DEADLOCK FALSE
PROPERTIES
    LostMeansUnknown
