\* One auction that may try two candidates, with a restart, lost results and a
\* geyser stream that fails, repeats and is resubscribed.
CONSTANTS
    s1 = s1
    s2 = s2
    user = user
    NoHint = NoHint
    Searchers = {s1, s2}
    Hints = {h1}
    Bids = {1, 2}
    Reimbursement = 1
    BidLists <- MCBooks
    InitialEscrow = 6
    MaxCandidates = 2
    MaxRestarts = 1
    Lossy = TRUE
    Forks = FALSE
    UserOf <- OwnUser
    MaxRepeats = 1
SPECIFICATION DFairSpec
INVARIANTS
    WonMeansSettled
    ConfirmedOnce
PROPERTIES
    ImplementsAuctionEvents
    SettlementIsAnnounced
CHECK_DEADLOCK FALSE
