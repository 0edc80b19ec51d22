\* Three pages join the waitlist at once.  Two wallets, one of them watch-only;
\* a few edits and one swap.
CONSTANTS
    p1 = p1
    p2 = p2
    p3 = p3
    laptop = laptop
    phone = phone
    ann = ann
    bad = bad
    Pages = {p1, p2, p3}
    BrowserOf <- MCBrowserOf
    AddressOf <- MCAddressOf
    Addresses = {ann}
    Names = {"Ann"}
    MaxSubmits = 3
    w1 = w1
    w2 = w2
    Wallets = {w1, w2}
    CanSign = {w1}
    Decimals <- MCDecimals
    DisplayDecimals <- MCDisplayDecimals
    Prices = {3, 7}
    RtseBps = 120
    WonBids <- MCWonBids
    SampleLimit = 3
    BucketRanges <- MCBucketRanges
    Holdings <- MCHoldings
    TypedAmounts = {0, 37, 137}
    TypedSlippages = {5, 9900, 20000}
    Environments <- MCEnvironments
    SolFeeReserve = 3
    SlippageMin = 10
    SlippageMax = 5000
    AutoFloorBps = 300
    MaxEdits = 3
    MaxSwaps = 1
SPECIFICATION SiteSpec
INVARIANTS
    QuoteFollowsForm
    PreparedFromItsQuote
    PromisedIsListed
PROPERTIES
    FlipKeepsTheDeal
    QuoteComes
CHECK_DEADLOCK FALSE
