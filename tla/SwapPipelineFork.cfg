\* One auction whose processed block may be abandoned.
CONSTANTS
    s1 = s1
    s2 = s2
    Searchers = {s1, s2}
    Hints = {h1}
    Bids = {1, 2}
    Reimbursement = 1
    BidLists <- MCLongBooks
    InitialEscrow = 3
    MaxCandidates = 3
    MaxRestarts = 0
    Lossy = FALSE
    Forks = TRUE
SPECIFICATION Spec
INVARIANT WonMeansSettled
CHECK_DEADLOCK FALSE
