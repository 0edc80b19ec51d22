\* Two auctions of one user won by one searcher with equal bids, no faults.
CONSTANTS
    s1 = s1
    s2 = s2
    user = user
    NoHint = NoHint
    Searchers = {s1, s2}
    Hints = {h1, h2}
    Bids = {1, 2}
    Reimbursement = 1
    BidLists <- MCSingleBook
    InitialEscrow = 6
    MaxCandidates = 1
    MaxRestarts = 0
    Lossy = FALSE
    Forks = FALSE
    UserOf <- CommonUser
    MaxRepeats = 0
SPECIFICATION DSpec
INVARIANT ConfirmedMeansSettled
CHECK_DEADLOCK FALSE
