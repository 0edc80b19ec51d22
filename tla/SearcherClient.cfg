\* Two bids on one hint or on two; the application, a bot, connects once.
\* Two bots share a keypair; an earlier bid may still settle.
CONSTANTS
    Hints = {h1, h2}
    MaxConns = 3
    MaxBids = 2
    BidsPerHint = 2
    Reuse = FALSE
    b1 = b1
    b2 = b2
    Bots = {b1, b2}
    ThisBot = b1
    SeedBots = {b2}
    EscrowTarget = 4
    AirdropMin = 8
    TopUp = 20
    EscrowRent = 2
    Fee = 1
    Wallets = {0, 9}
    Debits = {3}
    MaxSpent = 3
SPECIFICATION BotSpec
INVARIANTS
    AckIsForThisBid
    OneConnection
    KeepsTrying
PROPERTIES
    ConnectsFunded
    EverySubmitSettles
CHECK_DEADLOCK FALSE
