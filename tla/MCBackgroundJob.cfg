CONSTANTS
    Checkers = {k1, k2}
    Detached = {k1}
    SuShell = TRUE
    MaxCrashes = 1
SPECIFICATION FairSpec
CHECK_DEADLOCK FALSE
INVARIANTS
    OutcomeIsTrue
    DiskKeepsJob
PROPERTIES
    TerminalForever
    ExitIsNoticed
