SPECIFICATION Spec
CONSTANTS
    s1 = s1
    s2 = s2
    relay = relay
    user = user
    h1 = h1
    h2 = h2
    NoConfig = NoConfig
    Wallets <- MCWallets
    Searchers = {s1, s2}
    Relays = {relay}
    Users = {user}
    Treasuries = {relay, s2}
    Hints = {h1, h2}
    Amounts = {4}
    Bids = {1, 2}
    MaxSigned = 3
    MaxFees = 1
    FeeChoices = {4, 8, 9}
    MAX_BPS = 8
    U64_MAX = 15
    SIGNATURE_FEE = 1
    TX_FEE_REIMBURSEMENT = 2
    CONFIG_RENT = 1
    ESCROW_RENT = 1
    HINT_RENT = 1
    AuditedBps = 4
    InitialLamports <- MCLamports
INVARIANTS
    EscrowRentExempt
    HintSettledOnce
    LamportsConserved
PROPERTIES
    AuditPasses
    ImplementsLedger
CHECK_DEADLOCK FALSE
SYMMETRY HintSymmetry
