\* Two sockets, two keys, one auction: every interleaving of their handlers.
CONSTANTS
    s1 = s1
    s2 = s2
    Nobody = Nobody
    Hints = {h1}
    Sockets = {1, 2}
    Searchers = {s1, s2}
    Allowlist = {s1, s2}
    KeysOf <- MCKeysOf
    Amounts = {1, 2}
    MaxAuths = 2
    MaxBids = 2
    MaxClock = 1
SPECIFICATION FairSpec
INVARIANTS
    SessionsConsistent
    AcceptedBidStands
    ResultsStayPrivate
    ResolvedBestFirst
PROPERTIES
    BidsAreAnswered
CHECK_DEADLOCK FALSE
