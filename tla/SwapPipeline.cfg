\* One auction with more bids than the three candidates tried, lost results, one
\* restart; the relay's own steps are fair.
CONSTANTS
    s1 = s1
    s2 = s2
    Searchers = {s1, s2}
    Hints = {h1}
    Bids = {1, 2}
    Reimbursement = 1
    BidLists <- MCLongBooks
    InitialEscrow = 3
    MaxCandidates = 3
    MaxRestarts = 1
    Lossy = TRUE
    Forks = TRUE
SPECIFICATION FairSpec
INVARIANTS
    BetterBidsRefusedFirst
    NoWinnerIsFinal
    SettlementIsReported
PROPERTIES
    AuctionConcludes
    VerdictStands
CHECK_DEADLOCK FALSE
