--------------------------- MODULE FlowbackProgram ---------------------------
(***************************************************************************)
(* The on-chain program (anchor/flowback/programs/flowback): protocol      *)
(* configuration, per-searcher escrow accounts, and the settlement of an   *)
(* auction out of the winner's escrow.  One action is one transaction that *)
(* lands.  A transaction is atomic: a failing instruction reverts every    *)
(* write and leaves only the runtime's signature fee (RejectedTransaction).*)
(*                                                                         *)
(* The Solana runtime is external: signature fees, the system transfer,    *)
(* rent-exempt minimums and the Ed25519 precompile are modelled from how   *)
(* the program uses them.                                                  *)
(***************************************************************************)
EXTENDS Naturals, FiniteSets, FiniteSetsExt

CONSTANTS
    Wallets,        \* system accounts: searchers, relay, users, treasuries
    Searchers,      \* wallets that may open an escrow
    Relays,         \* wallets that submit settlements (any caller may)
    Users,          \* wallets a settlement may name as the user
    Treasuries,     \* wallets a configuration may name as the treasury
    Hints,          \* auction hint ids (16 raw bytes on chain)
    Amounts,        \* amounts deposited and withdrawn (u64)
    Bids,           \* bid amounts (u64)
    FeeChoices,     \* protocol_fee_bps arguments (u16)
    MAX_BPS,        \* 10_000 in constants.rs
    U64_MAX,        \* 2^64 - 1
    SIGNATURE_FEE,  \* runtime fee per signature, precompile signatures included
    TX_FEE_REIMBURSEMENT,   \* constants.rs: 10_000 lamports
    CONFIG_RENT, ESCROW_RENT, HINT_RENT,    \* rent-exempt minimums
    MaxSigned,      \* bound: commitments signed in a behaviour
    MaxFees,        \* bound: no rejection once this much was collected in fees
    InitialLamports,\* [Wallets -> Nat]
    NoConfig        \* the ProtocolConfig account before `initialize`

\* Accounts are addressed by 32-byte keys, so there are finitely many.
ASSUME WalletRoles ==
    /\ IsFiniteSet(Wallets)
    /\ Searchers \subseteq Wallets
    /\ Relays \subseteq Wallets
    /\ Users \subseteq Wallets
    /\ Treasuries \subseteq Wallets

ASSUME AmountsAreNaturals ==
    /\ U64_MAX \in Nat
    /\ Amounts \subseteq 0..U64_MAX
    /\ Bids \subseteq 0..U64_MAX
    /\ MaxSigned \in Nat
    /\ MaxFees \in Nat
    /\ FeeChoices \subseteq Nat
    /\ MAX_BPS \in Nat \ {0}
    /\ SIGNATURE_FEE \in Nat
    /\ CONFIG_RENT \in Nat
    /\ ESCROW_RENT \in Nat
    /\ HINT_RENT \in Nat
    /\ InitialLamports \in [Wallets -> Nat]

\* constants.rs:22-31: one transaction signature and one precompile signature.
ASSUME FeeCoversBothSignatures == TX_FEE_REIMBURSEMENT = 2 * SIGNATURE_FEE

VARIABLES
    lamports,       \* balance of every wallet
    config,         \* the ProtocolConfig account
    escrows,        \* searchers whose SearcherEscrow account exists
    escrowLamports, \* balance of every escrow account, rent included
    usedHints,      \* hints whose UsedHint account exists
    signed,         \* bid commitments searchers have signed, off chain
    settled,        \* history: one record per successful settlement
    feesCollected   \* history: lamports the runtime has taken as fees

vars == <<lamports, config, escrows, escrowLamports, usedHints,
          signed, settled, feesCollected>>

Commitments == [searcher : Searchers, hint : Hints, bid : Bids]

ProtocolConfig ==
    [authority : Wallets, treasury : Treasuries, protocol_fee_bps : 0..MAX_BPS,
     paused : BOOLEAN, total_cashback_paid : Nat, total_swaps_processed : Nat]

ASSUME NoConfigIsNoRecord == NoConfig \notin ProtocolConfig

\* CashbackSettled, with the instruction's other arguments and the fee in force.
Settlements ==
    [hint : Hints, searcher : Searchers, user : Users, relay : Relays,
     treasury : Treasuries, bid_amount : Bids, user_cashback : Nat,
     protocol_fee : Nat, bps : Nat]

-----------------------------------------------------------------------------
\* Operators of the settlement handler.

\* u64 arithmetic is checked: an overflow fails the instruction.
FitsU64(n) == n <= U64_MAX

ProtocolFee(bid, bps) == (bid * bps) \div MAX_BPS

\* Variant: the fee is deducted and the share is rounded down as well.
UserShareRoundedDown(bid, bps) == (bid * (MAX_BPS - bps)) \div MAX_BPS

UserShare(bid, bps) == bid - ProtocolFee(bid, bps)

\* Variant: the Ed25519 precompile signature is not reimbursed.
ReimbursementOneSignature == HINT_RENT + SIGNATURE_FEE

\* tx fee, and the UsedHint rent the relay paid through `init`
Reimbursement == HINT_RENT + TX_FEE_REIMBURSEMENT

TotalDebit(bid) == bid + Reimbursement

\* One `**info.try_borrow_mut_lamports()? = info.lamports() + amount`: the
\* balance is read afresh, so the three credits of a settlement compose even
\* when two of the accounts are the same wallet.
Credit(balances, w, amount) == [balances EXCEPT ![w] = @ + amount]
Debit(balances, w, amount) == [balances EXCEPT ![w] = @ - amount]

ValidFeeBps(bps) == bps <= MAX_BPS

Reconfigured(c, bps, treasury, paused) ==
    [c EXCEPT !.protocol_fee_bps = bps, !.treasury = treasury, !.paused = paused]

\* Step 8 of the handler.
Counted(c, share) ==
    [c EXCEPT !.total_cashback_paid = @ + share, !.total_swaps_processed = @ + 1]

\* Variant: the replay marker is declared init_if_needed.
HintIsFreshIfNeeded(hint) == TRUE

\* `init` on the UsedHint account fails when it exists.
HintIsFresh(hint) == hint \notin usedHints

\* The fee payer is charged before anything runs.
CanPay(w, amount) == lamports[w] >= amount
CollectFee(signatures) == feesCollected' = feesCollected + signatures * SIGNATURE_FEE

\* Variant: the amount is missing from the signed message.
CommitmentMatchesAnyBid(ed25519, searcher, hint, bid) ==
    /\ ed25519.searcher = searcher
    /\ ed25519.hint = hint

\* The commitment verified at instruction 0 is the escrow owner's and names
\* exactly this hint and this bid (build_bid_message): the user is not in it.
CommitmentMatches(ed25519, searcher, hint, bid) ==
    /\ ed25519.searcher = searcher
    /\ ed25519.hint = hint
    /\ ed25519.bid = bid

\* Variant: the escrow's own rent is forgotten.
EscrowCoversWithoutRent(searcher, bid) ==
    escrowLamports[searcher] >= TotalDebit(bid)

EscrowCovers(searcher, bid) ==
    escrowLamports[searcher] >= TotalDebit(bid) + ESCROW_RENT

-----------------------------------------------------------------------------
Init ==
    /\ lamports = InitialLamports
    /\ config = NoConfig
    /\ escrows = {}
    /\ escrowLamports = [s \in Searchers |-> 0]
    /\ usedHints = {}
    /\ signed = {}
    /\ settled = {}
    /\ feesCollected = 0

Initialize(authority, bps, treasury, paused) ==
    /\ config = NoConfig
    /\ CanPay(authority, SIGNATURE_FEE + CONFIG_RENT)
    /\ ValidFeeBps(bps)
    /\ config' = [authority |-> authority, treasury |-> treasury,
                  protocol_fee_bps |-> bps, paused |-> paused,
                  total_cashback_paid |-> 0, total_swaps_processed |-> 0]
    /\ lamports' = Debit(lamports, authority, SIGNATURE_FEE + CONFIG_RENT)
    /\ CollectFee(1)
    /\ UNCHANGED <<escrows, escrowLamports, usedHints, signed, settled>>

UpdateConfig(authority, bps, treasury, paused) ==
    /\ config # NoConfig
    /\ authority = config.authority
    /\ CanPay(authority, SIGNATURE_FEE)
    /\ ValidFeeBps(bps)
    /\ config' = Reconfigured(config, bps, treasury, paused)
    /\ lamports' = Debit(lamports, authority, SIGNATURE_FEE)
    /\ CollectFee(1)
    /\ UNCHANGED <<escrows, escrowLamports, usedHints, signed, settled>>

EscrowInit(searcher) ==
    /\ searcher \notin escrows
    /\ CanPay(searcher, SIGNATURE_FEE + ESCROW_RENT)
    /\ escrows' = escrows \cup {searcher}
    /\ escrowLamports' = Credit(escrowLamports, searcher, ESCROW_RENT)
    /\ lamports' = Debit(lamports, searcher, SIGNATURE_FEE + ESCROW_RENT)
    /\ CollectFee(1)
    /\ UNCHANGED <<config, usedHints, signed, settled>>

EscrowDeposit(searcher, amount) ==
    /\ searcher \in escrows
    /\ amount > 0
    /\ CanPay(searcher, SIGNATURE_FEE + amount)
    /\ escrowLamports' = Credit(escrowLamports, searcher, amount)
    /\ lamports' = Debit(lamports, searcher, SIGNATURE_FEE + amount)
    /\ CollectFee(1)
    /\ UNCHANGED <<config, escrows, usedHints, signed, settled>>

EscrowWithdraw(searcher, amount) ==
    /\ searcher \in escrows
    /\ CanPay(searcher, SIGNATURE_FEE)
    /\ amount > 0
    /\ escrowLamports[searcher] >= amount                   \* InsufficientEscrow
    /\ escrowLamports[searcher] - amount >= ESCROW_RENT     \* RentBreach
    /\ escrowLamports' = Debit(escrowLamports, searcher, amount)
    /\ lamports' = Credit(Debit(lamports, searcher, SIGNATURE_FEE), searcher, amount)
    /\ FitsU64(lamports'[searcher])
    /\ CollectFee(1)
    /\ UNCHANGED <<config, escrows, usedHints, signed, settled>>

\* Off chain: a searcher signs `flowback-bid:<hint>:<bid>`.  It may sign several
\* bids for one hint, before or after funding the escrow.
SignBidCommitment(searcher, hint, bid) ==
    /\ Cardinality(signed) < MaxSigned
    /\ signed' = signed \cup {[searcher |-> searcher, hint |-> hint, bid |-> bid]}
    /\ UNCHANGED <<lamports, config, escrows, escrowLamports,
                   usedHints, settled, feesCollected>>

\* [Ed25519 verify, settle_from_escrow] signed by `relay` as fee payer; `ed25519`
\* is the commitment the precompile accepted at instruction 0.
SettleFromEscrow(relay, searcher, user, treasury, hint, bid, ed25519) ==
    LET fee == ProtocolFee(bid, config.protocol_fee_bps)
        share == UserShare(bid, config.protocol_fee_bps)
        upfront == 2 * SIGNATURE_FEE + HINT_RENT
    IN
    \* account constraints
    /\ searcher \in escrows
    /\ config # NoConfig
    /\ treasury = config.treasury
    /\ HintIsFresh(hint)
    /\ CanPay(relay, upfront)
    \* handler
    /\ ~config.paused
    /\ config.protocol_fee_bps <= MAX_BPS
    /\ bid > 0
    /\ CommitmentMatches(ed25519, searcher, hint, bid)
    /\ FitsU64(bid * config.protocol_fee_bps)
    /\ FitsU64(TotalDebit(bid))
    /\ EscrowCovers(searcher, bid)
    /\ FitsU64(config.total_cashback_paid + share)
    /\ FitsU64(config.total_swaps_processed + 1)
    /\ usedHints' = usedHints \cup {hint}
    /\ escrowLamports' = Debit(escrowLamports, searcher, TotalDebit(bid))
    /\ lamports' = Credit(Credit(Credit(Debit(lamports, relay, upfront),
                          user, share), treasury, fee), relay, Reimbursement)
    /\ \A w \in {user, treasury, relay} : FitsU64(lamports'[w])
    /\ config' = Counted(config, share)
    /\ settled' = settled \cup
         {[hint |-> hint, searcher |-> searcher, user |-> user, relay |-> relay,
           treasury |-> treasury, bid_amount |-> bid, user_cashback |-> share,
           protocol_fee |-> fee, bps |-> config.protocol_fee_bps]}
    /\ CollectFee(2)
    /\ UNCHANGED <<escrows, signed>>

\* Any transaction of one or two signatures that lands and fails, for any of the
\* FlowbackError reasons, a failed constraint or an unusable instruction 0.
RejectedTransaction(payer, signatures) ==
    /\ feesCollected < MaxFees
    /\ CanPay(payer, signatures * SIGNATURE_FEE)
    /\ lamports' = Debit(lamports, payer, signatures * SIGNATURE_FEE)
    /\ CollectFee(signatures)
    /\ UNCHANGED <<config, escrows, escrowLamports, usedHints,
                   signed, settled>>

Next ==
    \/ \E w \in Wallets, bps \in FeeChoices, t \in Treasuries, p \in BOOLEAN :
          Initialize(w, bps, t, p) \/ UpdateConfig(w, bps, t, p)
    \/ \E s \in Searchers : EscrowInit(s)
    \/ \E s \in Searchers, a \in Amounts : EscrowDeposit(s, a) \/ EscrowWithdraw(s, a)
    \/ \E s \in Searchers, h \in Hints, b \in Bids : SignBidCommitment(s, h, b)
    \/ \E r \in Relays, s \in Searchers, u \in Users, t \in Treasuries,
          h \in Hints, b \in Bids, e \in signed :
             SettleFromEscrow(r, s, u, t, h, b, e)
    \/ \E w \in Wallets, n \in {1, 2} : RejectedTransaction(w, n)

Spec == Init /\ [][Next]_vars

-----------------------------------------------------------------------------
\* Every account has the shape the program gives it; the configured fee never
\* exceeds MAX_BPS (initialize.rs:26, update_config.rs:21).
TypeOK ==
    /\ lamports \in [Wallets -> Nat]
    /\ config \in ProtocolConfig \cup {NoConfig}
    /\ escrows \subseteq Searchers
    /\ escrowLamports \in [Searchers -> Nat]
    /\ usedHints \subseteq Hints
    /\ signed \subseteq Commitments
    /\ settled \subseteq Settlements
    /\ feesCollected \in Nat

\* No lamport appears or vanishes: wallets, escrows, the rent locked in the
\* config and UsedHint accounts and the runtime's fees add up to the initial
\* supply, whichever wallets a settlement's user, treasury and relay are.
LamportsConserved ==
    LET Total(balances) == MapThenSumSet(LAMBDA w : balances[w], DOMAIN balances)
    IN Total(InitialLamports)
         = Total(lamports) + Total(escrowLamports) + feesCollected
           + HINT_RENT * Cardinality(usedHints)
           + (IF config = NoConfig THEN 0 ELSE CONFIG_RENT)

\* An open escrow never drops below its rent-exempt minimum, by withdrawal or by
\* settlement (escrow_withdraw.rs:28, settle_from_escrow.rs:120), so the runtime
\* never reclaims the account; an escrow that is not open holds nothing.
EscrowRentExempt ==
    \A s \in Searchers : IF s \in escrows THEN escrowLamports[s] >= ESCROW_RENT
                                           ELSE escrowLamports[s] = 0

\* An auction settles at most once, whatever number of searchers and amounts were
\* signed for its hint: UsedHint exists exactly for the hints that settled.
HintSettledOnce ==
    /\ usedHints = {x.hint : x \in settled}
    /\ \A x, y \in settled : x.hint = y.hint => x = y

\* Money leaves an escrow only under a commitment its owner signed for that hint
\* and that very amount.
SettledAsSigned ==
    \A x \in settled :
        [searcher |-> x.searcher, hint |-> x.hint, bid |-> x.bid_amount] \in signed

\* The split is exact and its rounding is in the user's favour, at the fee in
\* force when the settlement landed (settle_from_escrow.rs:92-99).
SplitFavoursUser ==
    \A x \in settled :
        /\ x.user_cashback + x.protocol_fee = x.bid_amount
        /\ x.user_cashback * MAX_BPS >= x.bid_amount * (MAX_BPS - x.bps)

\* A settlement costs its relay nothing net: fees and UsedHint rent come back
\* exactly (settle_from_escrow.rs:101-104, tests/test_escrow.rs:98-105).
RelayMadeWhole ==
    [][\A x \in settled' \ settled :
          x.relay \notin {x.user, x.treasury} =>
              lamports'[x.relay] = lamports[x.relay]]_vars

\* An escrow balance falls only when a settlement takes its bid and its
\* reimbursement, or when the owner receives the whole difference.
EscrowDebitsAccounted ==
    [][\A s \in Searchers : escrowLamports'[s] < escrowLamports[s] =>
          LET debit == escrowLamports[s] - escrowLamports'[s] IN
          \/ \E x \in settled' \ settled :
                /\ x.searcher = s
                /\ debit = x.bid_amount + HINT_RENT + TX_FEE_REIMBURSEMENT
          \/ lamports'[s] + SIGNATURE_FEE = lamports[s] + debit]_vars

\* The program implements the promise of CashbackLedger.
available == [s \in Searchers |->
    IF s \in escrows THEN escrowLamports[s] - ESCROW_RENT ELSE 0]
honoured == {[searcher |-> x.searcher, hint |-> x.hint, bid |-> x.bid_amount] :
                x \in settled}
Ledger == INSTANCE CashbackLedger WITH
    Reimbursement <- HINT_RENT + TX_FEE_REIMBURSEMENT,
    promised <- signed
\* Money in escrow leaves it only as CashbackLedger allows.
ImplementsLedger == Ledger!Spec
=============================================================================
