\* Three subscriptions of up to four updates (a burst may add a few more).
CONSTANTS
    Environments <- MCEnvironments
    Requests <- MCRequests
    RandomSizes <- MCRandomSizes
    RandomBids <- MCRandomBids
    MaxSubscriptions = 3
    MaxUpdates = 4
SPECIFICATION FairSpec
INVARIANTS
    InOrder
    NothingLeftRunning
    HonoursRequest
PROPERTIES
    AbortStops
CHECK_DEADLOCK FALSE
