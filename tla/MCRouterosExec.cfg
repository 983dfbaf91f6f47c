CONSTANTS
    Reqs = {r1, r2}
    Slots = 2
    MaxFaults = 1
    NoReq = NoReq
SPECIFICATION FairSpec
INVARIANTS
    AnswersAreTrue
    ChannelsOwned
PROPERTIES
    ImplementsAtMostOnce
    OnlyUnresolvedRetires
    RequestsSettle
