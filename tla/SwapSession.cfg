\* Two swaps, or one whose request is repeated; sockets fail, timers run out.
CONSTANTS
    MaxSwaps = 2
    MaxRequests = 2
    MaxEvents = 2
SPECIFICATION FairSpec
INVARIANTS
    OneAuctionPerSignature
    OutcomeIsOfThisSwap
    SubscriberIsUpToDate
PROPERTIES
    WatchEnds
    OutcomeIsShown
CHECK_DEADLOCK FALSE
