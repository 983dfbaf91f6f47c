CONSTANTS
    Tasks = {r, t1}
    Recovery = r
    MaxAttempts = 2
    MaxFaults = 2
    UseJump = TRUE
    HasElevation = FALSE
    NoTask = NoTask
SPECIFICATION FairSpec
INVARIANTS
    OneConnectOwner
    RouteBeliefs
PROPERTIES
    HealthyRouteSurvives
    ImplementsRoute
    WaitersWake
    RouteRecovers
    ShutdownQuiesces
