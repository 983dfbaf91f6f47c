CONSTANTS
    Vias = {"raw", "sftp", "scp", "rsync"}
SPECIFICATION Spec
INVARIANTS
    OldNeverLost
    ResultIsTrue
PROPERTIES
    OthersUntouched
