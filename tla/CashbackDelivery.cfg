\* Two users' auctions against the same searchers, with lost results and a
\* geyser stream that fails, repeats and is resubscribed.
CONSTANTS
    s1 = s1
    s2 = s2
    user = user
    NoHint = NoHint
    Searchers = {s1}
    Hints = {h1, h2}
    Bids = {1, 2}
    Reimbursement = 1
    BidLists <- MCSingleBook
    InitialEscrow = 6
    MaxCandidates = 1
    MaxRestarts = 0
    Lossy = TRUE
    Forks = FALSE
    UserOf <- OwnUser
    MaxRepeats = 1
SPECIFICATION DSpec
SYMMETRY HintSymmetry
INVARIANTS
    ConfirmedMeansSettled
    HistoryIsOfItsAuction
CHECK_DEADLOCK FALSE
