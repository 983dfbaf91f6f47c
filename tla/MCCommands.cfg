CONSTANTS
    Cmds = {c1, c2, b1}
    Launches = {b1}
    Droppable = {c2}
    Slots = 2
    SuConfigured = TRUE
    MaxFaults = 1
SPECIFICATION FairSpec
INVARIANTS
    NoReplay
    SuShellsSound
PROPERTIES
    CommandsFinish
CHECK_DEADLOCK FALSE
