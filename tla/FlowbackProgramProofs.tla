----------------------- MODULE FlowbackProgramProofs ------------------------
(***************************************************************************)
(* Proofs about FlowbackProgram, for every set of wallets, searchers and   *)
(* hints, every amount, fee and rent.                                      *)
(***************************************************************************)
EXTENDS SettlementAudit, FiniteSetTheorems, WellFoundedInduction, TLAPS

USE DEF FitsU64, CanPay, CollectFee, Credit, Debit

-----------------------------------------------------------------------------
\* The fee and the user's share of a bid are both naturals, they add up to the
\* bid, and the user's share is at least the exact proportion.
LEMMA SplitIsExact ==
    ASSUME NEW bid \in Nat, NEW bps \in 0..MAX_BPS
    PROVE  /\ ProtocolFee(bid, bps) \in Nat
           /\ UserShare(bid, bps) \in Nat
           /\ UserShare(bid, bps) + ProtocolFee(bid, bps) = bid
           /\ UserShare(bid, bps) * MAX_BPS >= bid * (MAX_BPS - bps)
<1> DEFINE fee == (bid * bps) \div MAX_BPS
<1>1. MAX_BPS \in Nat \ {0} /\ bps \in Nat /\ bps <= MAX_BPS
  BY AmountsAreNaturals
<1>2. bid * bps \in Nat /\ bid * bps <= bid * MAX_BPS
  BY <1>1
<1>3. fee \in Nat /\ fee * MAX_BPS <= bid * bps
  BY <1>1, <1>2
<1>4. fee <= bid
  <2>1. SUFFICES ASSUME fee > bid PROVE FALSE
    BY <1>3
  <2>2. fee >= bid + 1
    BY <2>1, <1>3
  <2>3. fee * MAX_BPS >= (bid + 1) * MAX_BPS
    BY <2>2, <1>1, <1>3
  <2>4. (bid + 1) * MAX_BPS = bid * MAX_BPS + MAX_BPS
    BY <1>1
  <2>5. QED
    BY <2>3, <2>4, <1>1, <1>2, <1>3
<1>5. (bid - fee) * MAX_BPS >= bid * (MAX_BPS - bps)
  <2>1. (bid - fee) * MAX_BPS = bid * MAX_BPS - fee * MAX_BPS
    BY <1>1, <1>3
  <2>2. bid * (MAX_BPS - bps) = bid * MAX_BPS - bid * bps
    BY <1>1
  <2>3. QED
    BY <2>1, <2>2, <1>1, <1>2, <1>3
<1>6. QED
  BY <1>3, <1>4, <1>5 DEF ProtocolFee, UserShare

LEMMA ReimbursementIsNat == Reimbursement \in Nat /\ SIGNATURE_FEE \in Nat
BY AmountsAreNaturals, FeeCoversBothSignatures DEF Reimbursement

\* Reconfiguring and counting a settlement change the fields they name and no
\* other, and keep the account well typed.
LEMMA ReconfiguredFields ==
    ASSUME NEW c \in ProtocolConfig, NEW bps \in 0..MAX_BPS, NEW t \in Treasuries,
           NEW p \in BOOLEAN
    PROVE  /\ Reconfigured(c, bps, t, p) \in ProtocolConfig
           /\ Reconfigured(c, bps, t, p).total_swaps_processed = c.total_swaps_processed
<1> DEFINE c1 == [c EXCEPT !.protocol_fee_bps = bps]
           c2 == [c1 EXCEPT !.treasury = t]
           c3 == [c2 EXCEPT !.paused = p]
<1>1. c1 \in ProtocolConfig /\ c1.total_swaps_processed = c.total_swaps_processed
  BY DEF ProtocolConfig
<1> HIDE DEF c1
<1>2. c2 \in ProtocolConfig /\ c2.total_swaps_processed = c.total_swaps_processed
  BY <1>1 DEF ProtocolConfig
<1> HIDE DEF c2
<1>3. c3 \in ProtocolConfig /\ c3.total_swaps_processed = c.total_swaps_processed
  BY <1>2 DEF ProtocolConfig
<1>4. QED
  BY <1>3, Zenon DEF Reconfigured, c1, c2

LEMMA CountedFields ==
    ASSUME NEW c \in ProtocolConfig, NEW share \in Nat
    PROVE  /\ Counted(c, share) \in ProtocolConfig
           /\ Counted(c, share).total_swaps_processed = c.total_swaps_processed + 1
<1> DEFINE c1 == [c EXCEPT !.total_cashback_paid = @ + share]
           c2 == [c1 EXCEPT !.total_swaps_processed = @ + 1]
<1>1. c1 \in ProtocolConfig /\ c1.total_swaps_processed = c.total_swaps_processed
  BY DEF ProtocolConfig
<1> HIDE DEF c1
<1>2. c2 \in ProtocolConfig /\ c2.total_swaps_processed = c.total_swaps_processed + 1
  BY <1>1 DEF ProtocolConfig
<1>3. QED
  BY <1>2, Zenon DEF Counted, c1

\* A new settlement record has the type of the log.
LEMMA SettlementRecordType ==
    ASSUME TypeOK, NEW relay \in Relays, NEW searcher \in Searchers, NEW user \in Users,
           NEW treasury \in Treasuries, NEW hint \in Hints, NEW bid \in Bids,
           NEW ed25519 \in signed,
           SettleFromEscrow(relay, searcher, user, treasury, hint, bid, ed25519)
    PROVE  /\ config \in ProtocolConfig
           /\ bid \in Nat
           /\ config.protocol_fee_bps \in 0..MAX_BPS
           /\ ProtocolFee(bid, config.protocol_fee_bps) \in Nat
           /\ UserShare(bid, config.protocol_fee_bps) \in Nat
           /\ settled' \subseteq Settlements
<1>1. config \in ProtocolConfig
  BY DEF SettleFromEscrow, TypeOK
<1>2. bid \in Nat /\ config.protocol_fee_bps \in 0..MAX_BPS
  BY <1>1, AmountsAreNaturals DEF ProtocolConfig
<1>3. /\ ProtocolFee(bid, config.protocol_fee_bps) \in Nat
      /\ UserShare(bid, config.protocol_fee_bps) \in Nat
  BY <1>2, SplitIsExact
<1>4. settled' \subseteq Settlements
  BY <1>2, <1>3 DEF SettleFromEscrow, TypeOK, Settlements
<1>5. QED
  BY <1>1, <1>2, <1>3, <1>4

-----------------------------------------------------------------------------
\* Every reachable state has the types of TypeOK: no balance goes negative and
\* no configuration carries a fee above MAX_BPS.
THEOREM TypeCorrect == Spec => []TypeOK
<1> USE AmountsAreNaturals, WalletRoles, ReimbursementIsNat
<1>1. Init => TypeOK
  BY DEF Init, TypeOK
<1>2. TypeOK /\ [Next]_vars => TypeOK'
  <2> SUFFICES ASSUME TypeOK, [Next]_vars PROVE TypeOK'
    OBVIOUS
  <2>1. ASSUME NEW w \in Wallets, NEW bps \in FeeChoices, NEW t \in Treasuries,
               NEW p \in BOOLEAN, Initialize(w, bps, t, p)
        PROVE  TypeOK'
    BY <2>1 DEF Initialize, TypeOK, ProtocolConfig, ValidFeeBps
  <2>2. ASSUME NEW w \in Wallets, NEW bps \in FeeChoices, NEW t \in Treasuries,
               NEW p \in BOOLEAN, UpdateConfig(w, bps, t, p)
        PROVE  TypeOK'
    <3>1. config' \in ProtocolConfig
      BY <2>2, ReconfiguredFields DEF UpdateConfig, TypeOK, ValidFeeBps
    <3>2. QED
      BY <2>2, <3>1 DEF UpdateConfig, TypeOK
  <2>3. ASSUME NEW s \in Searchers, EscrowInit(s) PROVE TypeOK'
    BY <2>3 DEF EscrowInit, TypeOK
  <2>4. ASSUME NEW s \in Searchers, NEW a \in Amounts, EscrowDeposit(s, a) PROVE TypeOK'
    BY <2>4 DEF EscrowDeposit, TypeOK
  <2>5. ASSUME NEW s \in Searchers, NEW a \in Amounts, EscrowWithdraw(s, a) PROVE TypeOK'
    BY <2>5 DEF EscrowWithdraw, TypeOK
  <2>6. ASSUME NEW s \in Searchers, NEW h \in Hints, NEW b \in Bids,
               SignBidCommitment(s, h, b)
        PROVE  TypeOK'
    BY <2>6 DEF SignBidCommitment, TypeOK, Commitments
  <2>7. ASSUME NEW r \in Relays, NEW s \in Searchers, NEW u \in Users,
               NEW t \in Treasuries, NEW h \in Hints, NEW b \in Bids, NEW e \in signed,
               SettleFromEscrow(r, s, u, t, h, b, e)
        PROVE  TypeOK'
    <3> DEFINE fee == ProtocolFee(b, config.protocol_fee_bps)
               share == UserShare(b, config.protocol_fee_bps)
    <3>1. /\ config \in ProtocolConfig /\ b \in Nat /\ fee \in Nat /\ share \in Nat
          /\ settled' \subseteq Settlements
      BY <2>7, SettlementRecordType
    <3> HIDE DEF fee, share
    <3>2. lamports' \in [Wallets -> Nat]
      BY <2>7, <3>1 DEF SettleFromEscrow, TypeOK, fee, share
    <3>3. config' \in ProtocolConfig
      BY <2>7, <3>1, CountedFields DEF SettleFromEscrow, share
    <3>4. escrowLamports' \in [Searchers -> Nat]
      BY <2>7, <3>1 DEF SettleFromEscrow, TypeOK, EscrowCovers, TotalDebit
    <3>5. QED
      BY <2>7, <3>1, <3>2, <3>3, <3>4 DEF SettleFromEscrow, TypeOK
  <2>8. ASSUME NEW w \in Wallets, NEW n \in {1, 2}, RejectedTransaction(w, n) PROVE TypeOK'
    BY <2>8 DEF RejectedTransaction, TypeOK
  <2>9. CASE UNCHANGED vars
    BY <2>9 DEF vars, TypeOK
  <2>10. QED
    BY <2>1, <2>2, <2>3, <2>4, <2>5, <2>6, <2>7, <2>8, <2>9 DEF Next
<1>3. QED
  BY <1>1, <1>2, PTL DEF Spec

-----------------------------------------------------------------------------
\* total_swaps_processed (settle_from_escrow.rs, step 8) is the number of
\* settlements made, which are finitely many; none precede the configuration.
SwapsCounted ==
    /\ IsFiniteSet(settled)
    /\ IF config = NoConfig THEN settled = {}
                            ELSE config.total_swaps_processed = Cardinality(settled)

\* The inductive invariant.  HintSettledOnce needs no help; SettledAsSigned
\* needs that signatures are never withdrawn; SwapsCounted needs HintSettledOnce,
\* which makes every new record really new.
IInv == /\ TypeOK
        /\ EscrowRentExempt
        /\ HintSettledOnce
        /\ SettledAsSigned
        /\ SplitFavoursUser
        /\ SwapsCounted

LEMMA InitIInv == Init => IInv
<1> SUFFICES ASSUME Init PROVE IInv
  OBVIOUS
<1>1. TypeOK
  BY AmountsAreNaturals, WalletRoles DEF Init, TypeOK
<1>2. SwapsCounted
  BY FS_EmptySet DEF Init, SwapsCounted
<1>3. QED
  BY <1>1, <1>2 DEF Init, IInv, EscrowRentExempt, HintSettledOnce, SettledAsSigned,
     SplitFavoursUser

\* A settlement adds exactly one record, for a hint not settled before, and
\* keeps the log's part of the invariant.
LEMMA SettlementIsNew ==
    ASSUME IInv, NEW relay \in Relays, NEW searcher \in Searchers, NEW user \in Users,
           NEW treasury \in Treasuries, NEW hint \in Hints, NEW bid \in Bids,
           NEW ed25519 \in signed,
           SettleFromEscrow(relay, searcher, user, treasury, hint, bid, ed25519)
    PROVE  /\ \E x \in Settlements :
                /\ x \notin settled
                /\ settled' = settled \cup {x}
                /\ x.hint = hint /\ x.searcher = searcher /\ x.bid_amount = bid
                /\ x.user = user /\ x.treasury = treasury /\ x.relay = relay
           /\ HintSettledOnce'
           /\ SettledAsSigned'
           /\ SplitFavoursUser'
           /\ SwapsCounted'
<1> DEFINE bps == config.protocol_fee_bps
           fee == ProtocolFee(bid, bps)
           share == UserShare(bid, bps)
           x == [hint |-> hint, searcher |-> searcher, user |-> user, relay |-> relay,
                 treasury |-> treasury, bid_amount |-> bid, user_cashback |-> share,
                 protocol_fee |-> fee, bps |-> bps]
<1>1. /\ config \in ProtocolConfig /\ bid \in Nat /\ bps \in 0..MAX_BPS
      /\ fee \in Nat /\ share \in Nat /\ settled' \subseteq Settlements
  BY SettlementRecordType DEF IInv
<1>2. settled' = settled \cup {x} /\ usedHints' = usedHints \cup {hint}
  BY DEF SettleFromEscrow
<1>3. hint \notin usedHints
  BY DEF SettleFromEscrow, HintIsFresh
<1>4. share + fee = bid /\ share * MAX_BPS >= bid * (MAX_BPS - bps)
  BY <1>1, SplitIsExact
<1> HIDE DEF fee, share, bps
<1>5. x \in Settlements /\ x \notin settled
  BY <1>1, <1>2, <1>3 DEF IInv, HintSettledOnce
<1>x. /\ x.hint = hint /\ x.searcher = searcher /\ x.bid_amount = bid
      /\ x.user = user /\ x.treasury = treasury /\ x.relay = relay
      /\ x.user_cashback = share /\ x.protocol_fee = fee /\ x.bps = bps
  OBVIOUS
<1> HIDE DEF x
<1>6. HintSettledOnce'
  <2>1. usedHints' = {y.hint : y \in settled'}
    BY <1>2, <1>x DEF IInv, HintSettledOnce
  <2>2. ASSUME NEW y \in settled', NEW z \in settled', y.hint = z.hint PROVE y = z
    <3>1. \A w \in settled : w.hint # hint
      BY <1>3 DEF IInv, HintSettledOnce
    <3>2. QED
      BY <2>2, <3>1, <1>2, <1>x DEF IInv, HintSettledOnce
  <2>3. QED
    BY <2>1, <2>2 DEF HintSettledOnce
<1>7. SettledAsSigned'
  <2>1. ed25519 \in Commitments
    BY DEF IInv, TypeOK
  <2>2. ed25519 = [searcher |-> searcher, hint |-> hint, bid |-> bid]
    BY <2>1 DEF SettleFromEscrow, CommitmentMatches, Commitments
  <2>3. signed' = signed
    BY DEF SettleFromEscrow
  <2>4. QED
    BY <2>2, <2>3, <1>2, <1>x DEF IInv, SettledAsSigned
<1>8. SplitFavoursUser'
  BY <1>2, <1>4, <1>x DEF IInv, SplitFavoursUser
<1>9. SwapsCounted'
  <2>1. config # NoConfig /\ config' = Counted(config, share)
    BY DEF SettleFromEscrow, share, bps
  <2>2. config' # NoConfig
        /\ config'.total_swaps_processed = config.total_swaps_processed + 1
    BY <2>1, <1>1, CountedFields, NoConfigIsNoRecord
  <2>3. IsFiniteSet(settled') /\ Cardinality(settled') = Cardinality(settled) + 1
    BY <1>2, <1>5, FS_AddElement DEF IInv, SwapsCounted
  <2>4. QED
    BY <2>1, <2>2, <2>3 DEF IInv, SwapsCounted
<1>10. QED
  BY <1>2, <1>5, <1>x, <1>6, <1>7, <1>8, <1>9

\* No other transaction touches the log, the hints or a signature already given.
LEMMA StepIInv == IInv /\ [Next]_vars /\ TypeOK' => IInv'
<1> SUFFICES ASSUME IInv, [Next]_vars, TypeOK' PROVE IInv'
  OBVIOUS
<1> USE AmountsAreNaturals, WalletRoles, ReimbursementIsNat
<1> DEFINE LogKept ==
      /\ usedHints' = usedHints /\ settled' = settled /\ signed \subseteq signed'
<1>log. ASSUME LogKept PROVE HintSettledOnce' /\ SettledAsSigned' /\ SplitFavoursUser'
  BY <1>log DEF IInv, HintSettledOnce, SettledAsSigned, SplitFavoursUser
<1>1. ASSUME NEW w \in Wallets, NEW bps \in FeeChoices, NEW t \in Treasuries,
             NEW p \in BOOLEAN, Initialize(w, bps, t, p)
      PROVE  IInv'
  <2>1. LogKept
    BY <1>1 DEF Initialize
  <2>2. EscrowRentExempt'
    BY <1>1 DEF Initialize, IInv, EscrowRentExempt
  <2>3. config' # NoConfig /\ config'.total_swaps_processed = 0
    <3>1. config' \in ProtocolConfig
      BY <1>1 DEF Initialize, ProtocolConfig, ValidFeeBps
    <3>2. QED
      BY <1>1, <3>1, NoConfigIsNoRecord DEF Initialize
  <2>4. SwapsCounted'
    BY <1>1, <2>3, FS_EmptySet DEF Initialize, IInv, SwapsCounted
  <2>5. QED
    BY <2>1, <2>2, <2>4, <1>log DEF IInv
<1>2. ASSUME NEW w \in Wallets, NEW bps \in FeeChoices, NEW t \in Treasuries,
             NEW p \in BOOLEAN, UpdateConfig(w, bps, t, p)
      PROVE  IInv'
  <2>1. LogKept
    BY <1>2 DEF UpdateConfig
  <2>2. EscrowRentExempt'
    BY <1>2 DEF UpdateConfig, IInv, EscrowRentExempt
  <2>3. /\ config \in ProtocolConfig /\ config' \in ProtocolConfig
        /\ config'.total_swaps_processed = config.total_swaps_processed
    BY <1>2, ReconfiguredFields DEF UpdateConfig, IInv, TypeOK, ValidFeeBps
  <2>4. SwapsCounted'
    BY <1>2, <2>3, NoConfigIsNoRecord DEF UpdateConfig, IInv, SwapsCounted
  <2>5. QED
    BY <2>1, <2>2, <2>4, <1>log DEF IInv
<1>3. ASSUME NEW s \in Searchers, EscrowInit(s) PROVE IInv'
  <2>1. LogKept
    BY <1>3 DEF EscrowInit
  <2>2. EscrowRentExempt'
    BY <1>3 DEF EscrowInit, IInv, EscrowRentExempt, TypeOK
  <2>3. SwapsCounted'
    BY <1>3 DEF EscrowInit, IInv, SwapsCounted
  <2>4. QED
    BY <2>1, <2>2, <2>3, <1>log DEF IInv
<1>4. ASSUME NEW s \in Searchers, NEW a \in Amounts, EscrowDeposit(s, a) PROVE IInv'
  <2>1. LogKept
    BY <1>4 DEF EscrowDeposit
  <2>2. EscrowRentExempt'
    BY <1>4 DEF EscrowDeposit, IInv, EscrowRentExempt, TypeOK
  <2>3. SwapsCounted'
    BY <1>4 DEF EscrowDeposit, IInv, SwapsCounted
  <2>4. QED
    BY <2>1, <2>2, <2>3, <1>log DEF IInv
<1>5. ASSUME NEW s \in Searchers, NEW a \in Amounts, EscrowWithdraw(s, a) PROVE IInv'
  <2>1. LogKept
    BY <1>5 DEF EscrowWithdraw
  <2>2. EscrowRentExempt'
    BY <1>5 DEF EscrowWithdraw, IInv, EscrowRentExempt, TypeOK
  <2>3. SwapsCounted'
    BY <1>5 DEF EscrowWithdraw, IInv, SwapsCounted
  <2>4. QED
    BY <2>1, <2>2, <2>3, <1>log DEF IInv
<1>6. ASSUME NEW s \in Searchers, NEW h \in Hints, NEW b \in Bids,
             SignBidCommitment(s, h, b)
      PROVE  IInv'
  <2>1. LogKept
    BY <1>6 DEF SignBidCommitment
  <2>2. EscrowRentExempt' /\ SwapsCounted'
    BY <1>6 DEF SignBidCommitment, IInv, EscrowRentExempt, SwapsCounted
  <2>3. QED
    BY <2>1, <2>2, <1>log DEF IInv
<1>7. ASSUME NEW r \in Relays, NEW s \in Searchers, NEW u \in Users,
             NEW t \in Treasuries, NEW h \in Hints, NEW b \in Bids, NEW e \in signed,
             SettleFromEscrow(r, s, u, t, h, b, e)
      PROVE  IInv'
  <2>1. HintSettledOnce' /\ SettledAsSigned' /\ SplitFavoursUser' /\ SwapsCounted'
    BY <1>7, SettlementIsNew
  <2>2. EscrowRentExempt'
    BY <1>7 DEF SettleFromEscrow, IInv, EscrowRentExempt, TypeOK, EscrowCovers, TotalDebit
  <2>3. QED
    BY <2>1, <2>2 DEF IInv
<1>8. ASSUME NEW w \in Wallets, NEW n \in {1, 2}, RejectedTransaction(w, n) PROVE IInv'
  <2>1. LogKept
    BY <1>8 DEF RejectedTransaction
  <2>2. EscrowRentExempt' /\ SwapsCounted'
    BY <1>8 DEF RejectedTransaction, IInv, EscrowRentExempt, SwapsCounted
  <2>3. QED
    BY <2>1, <2>2, <1>log DEF IInv
<1>9. CASE UNCHANGED vars
  <2>1. LogKept
    BY <1>9 DEF vars
  <2>2. EscrowRentExempt' /\ SwapsCounted'
    BY <1>9 DEF vars, IInv, EscrowRentExempt, SwapsCounted
  <2>3. QED
    BY <2>1, <2>2, <1>log DEF IInv
<1>10. QED
  BY <1>1, <1>2, <1>3, <1>4, <1>5, <1>6, <1>7, <1>8, <1>9 DEF Next

LEMMA AlwaysIInv == Spec => []IInv
<1>1. QED
  BY TypeCorrect, InitIInv, StepIInv, PTL DEF Spec

\* No sequence of withdrawals and settlements takes an open escrow below its
\* rent-exempt minimum.
THEOREM EscrowStaysRentExempt == Spec => []EscrowRentExempt
<1>1. IInv => EscrowRentExempt
  BY DEF IInv
<1>2. QED
  BY <1>1, AlwaysIInv, PTL

\* A hint settles at most once, over all searchers, amounts and relays.
THEOREM AtMostOneSettlementPerHint == Spec => []HintSettledOnce
<1>1. IInv => HintSettledOnce
  BY DEF IInv
<1>2. QED
  BY <1>1, AlwaysIInv, PTL

\* Every settlement is one its searcher signed, for that hint and that amount.
THEOREM OnlySignedBidsSettle == Spec => []SettledAsSigned
<1>1. IInv => SettledAsSigned
  BY DEF IInv
<1>2. QED
  BY <1>1, AlwaysIInv, PTL

\* The on-chain counter of swaps is exact: no settlement is counted twice, and no
\* reconfiguration resets or loses the count.
THEOREM EverySwapIsCounted == Spec => []SwapsCounted
<1>1. IInv => SwapsCounted
  BY DEF IInv
<1>2. QED
  BY <1>1, AlwaysIInv, PTL

\* The user never loses to rounding, whatever the fee in force.
THEOREM UserKeepsShare == Spec => []SplitFavoursUser
<1>1. IInv => SplitFavoursUser
  BY DEF IInv
<1>2. QED
  BY <1>1, AlwaysIInv, PTL

-----------------------------------------------------------------------------
\* Only a settlement writes to the log, and only a settlement, a deposit, a
\* withdrawal or the opening of an escrow changes an escrow's balance.
LEMMA WhoWritesWhat ==
    ASSUME [Next]_vars
    PROVE  \/ UNCHANGED <<settled, escrows, escrowLamports>>
           \/ \E s \in Searchers : EscrowInit(s)
           \/ \E s \in Searchers, a \in Amounts : EscrowDeposit(s, a)
           \/ \E s \in Searchers, a \in Amounts : EscrowWithdraw(s, a)
           \/ \E r \in Relays, s \in Searchers, u \in Users, t \in Treasuries,
                 h \in Hints, b \in Bids, e \in signed :
                    SettleFromEscrow(r, s, u, t, h, b, e)
BY DEF Next, vars, Initialize, UpdateConfig, SignBidCommitment, RejectedTransaction

\* A relay that is neither the user nor the treasury ends a settlement with the
\* balance it began with: what it pays up front (two signature fees and the
\* UsedHint rent) is exactly the reimbursement.
THEOREM SettlementIsFreeForRelay == Spec => RelayMadeWhole
<1>1. ASSUME IInv, [Next]_vars, NEW x \in settled' \ settled,
             x.relay \notin {x.user, x.treasury}
      PROVE  lamports'[x.relay] = lamports[x.relay]
  <2>1. PICK r \in Relays, s \in Searchers, u \in Users, t \in Treasuries,
             h \in Hints, b \in Bids, e \in signed :
                SettleFromEscrow(r, s, u, t, h, b, e)
    BY <1>1, WhoWritesWhat DEF EscrowInit, EscrowDeposit, EscrowWithdraw
  <2>2. x.relay = r /\ x.user = u /\ x.treasury = t
    BY <1>1, <2>1, SettlementIsNew
  <2>3. /\ r \in Wallets /\ u \in Wallets /\ t \in Wallets
        /\ lamports \in [Wallets -> Nat]
    BY <1>1, WalletRoles DEF IInv, TypeOK
  <2>4. /\ config \in ProtocolConfig /\ b \in Nat
        /\ ProtocolFee(b, config.protocol_fee_bps) \in Nat
        /\ UserShare(b, config.protocol_fee_bps) \in Nat
    BY <1>1, <2>1, SettlementRecordType DEF IInv
  <2>5. lamports'[r] = lamports[r] - (2 * SIGNATURE_FEE + HINT_RENT) + Reimbursement
    BY <2>1, <2>2, <2>3, <2>4, <1>1, AmountsAreNaturals, ReimbursementIsNat
       DEF SettleFromEscrow
  <2>6. QED
    BY <2>2, <2>3, <2>5, AmountsAreNaturals, FeeCoversBothSignatures DEF Reimbursement
<1>2. IInv /\ [Next]_vars =>
        [\A x \in settled' \ settled :
            x.relay \notin {x.user, x.treasury} =>
                lamports'[x.relay] = lamports[x.relay]]_vars
  BY <1>1
<1>3. QED
  BY <1>2, AlwaysIInv, PTL DEF Spec, RelayMadeWhole

\* Nothing but a signed bid with its reimbursement, or the owner's own
\* withdrawal in full, lowers an escrow.
THEOREM EscrowDebitsAreAccounted == Spec => EscrowDebitsAccounted
<1> DEFINE Accounted == \A s \in Searchers : escrowLamports'[s] < escrowLamports[s] =>
          LET debit == escrowLamports[s] - escrowLamports'[s] IN
          \/ \E x \in settled' \ settled :
                /\ x.searcher = s
                /\ debit = x.bid_amount + HINT_RENT + TX_FEE_REIMBURSEMENT
          \/ lamports'[s] + SIGNATURE_FEE = lamports[s] + debit
<1>1. ASSUME IInv, [Next]_vars, NEW s \in Searchers,
             escrowLamports'[s] < escrowLamports[s]
      PROVE  LET debit == escrowLamports[s] - escrowLamports'[s] IN
             \/ \E x \in settled' \ settled :
                   /\ x.searcher = s
                   /\ debit = x.bid_amount + HINT_RENT + TX_FEE_REIMBURSEMENT
             \/ lamports'[s] + SIGNATURE_FEE = lamports[s] + debit
  <2> USE AmountsAreNaturals, WalletRoles
  <2>1. /\ lamports \in [Wallets -> Nat] /\ escrowLamports \in [Searchers -> Nat]
        /\ s \in Wallets
    BY <1>1 DEF IInv, TypeOK
  <2>2. ~ UNCHANGED <<settled, escrows, escrowLamports>>
    BY <1>1, <2>1
  <2>3. ASSUME NEW z \in Searchers, EscrowInit(z) PROVE FALSE
    BY <1>1, <2>1, <2>3 DEF EscrowInit
  <2>4. ASSUME NEW z \in Searchers, NEW a \in Amounts, EscrowDeposit(z, a) PROVE FALSE
    BY <1>1, <2>1, <2>4 DEF EscrowDeposit
  <2>5. ASSUME NEW z \in Searchers, NEW a \in Amounts, EscrowWithdraw(z, a)
        PROVE  lamports'[s] + SIGNATURE_FEE
                 = lamports[s] + (escrowLamports[s] - escrowLamports'[s])
    BY <1>1, <2>1, <2>5 DEF EscrowWithdraw
  <2>6. ASSUME NEW r \in Relays, NEW z \in Searchers, NEW u \in Users,
               NEW t \in Treasuries, NEW h \in Hints, NEW b \in Bids, NEW e \in signed,
               SettleFromEscrow(r, z, u, t, h, b, e)
        PROVE  \E x \in settled' \ settled :
                   /\ x.searcher = s
                   /\ escrowLamports[s] - escrowLamports'[s]
                        = x.bid_amount + HINT_RENT + TX_FEE_REIMBURSEMENT
    <3>1. PICK x \in Settlements :
             x \notin settled /\ settled' = settled \cup {x}
             /\ x.searcher = z /\ x.bid_amount = b
      BY <1>1, <2>6, SettlementIsNew
    <3>2. z = s /\ b \in Nat
      BY <1>1, <2>1, <2>6, ReimbursementIsNat DEF SettleFromEscrow, TotalDebit
    <3>3. escrowLamports[s] - escrowLamports'[s] = b + HINT_RENT + TX_FEE_REIMBURSEMENT
      BY <2>1, <2>6, <3>2, FeeCoversBothSignatures
         DEF SettleFromEscrow, TotalDebit, Reimbursement
    <3>4. QED
      BY <3>1, <3>2, <3>3
  <2>7. QED
    BY <1>1, <2>2, <2>3, <2>4, <2>5, <2>6, WhoWritesWhat
<1>2. IInv /\ [Next]_vars => [Accounted]_vars
  BY <1>1
<1>3. QED
  BY <1>2, AlwaysIInv, PTL DEF Spec, EscrowDebitsAccounted

-----------------------------------------------------------------------------
\* The refinement mapping is a function into the naturals.
LEMMA AvailableType == IInv => available \in [Searchers -> Nat]
BY AmountsAreNaturals DEF IInv, TypeOK, EscrowRentExempt, available

\* A change of one escrow's balance, the set of escrows being the same, changes
\* that searcher's available lamports by as much and nobody else's.
LEMMA AvailableFollowsBalance ==
    ASSUME IInv, IInv', NEW s \in escrows, NEW n \in Nat, escrows' = escrows,
           escrowLamports' = [escrowLamports EXCEPT ![s] = n]
    PROVE  /\ available' = [available EXCEPT ![s] = available'[s]]
           /\ available'[s] \in Nat
           /\ available[s] = escrowLamports[s] - ESCROW_RENT
           /\ available'[s] = n - ESCROW_RENT
<1>1. available \in [Searchers -> Nat] /\ available' \in [Searchers -> Nat]
  BY AmountsAreNaturals DEF IInv, TypeOK, EscrowRentExempt, available
<1>2. escrows \subseteq Searchers /\ escrowLamports \in [Searchers -> Nat]
  BY DEF IInv, TypeOK
<1>3. \A z \in Searchers : z # s => available'[z] = available[z]
  BY <1>2 DEF available
<1>4. available[s] = escrowLamports[s] - ESCROW_RENT /\ available'[s] = n - ESCROW_RENT
  BY <1>2 DEF available
<1>5. QED
  BY <1>1, <1>2, <1>3, <1>4

\* The program implements CashbackLedger: every transaction is a step of the
\* abstract ledger or leaves it unchanged.
THEOREM ProgramImplementsLedger == Spec => ImplementsLedger
<1>1. Init => Ledger!Init
  BY DEF Init, Ledger!Init, available, honoured
<1>2. ASSUME IInv, IInv', [Next]_vars
      PROVE  [Ledger!Next]_<<available, signed, honoured>>
  <2> USE AmountsAreNaturals, ReimbursementIsNat
  <2>0. escrows \subseteq Searchers /\ escrowLamports \in [Searchers -> Nat]
    BY <1>2 DEF IInv, TypeOK
  <2>1. ASSUME NEW w \in Wallets, NEW bps \in FeeChoices, NEW t \in Treasuries,
               NEW p \in BOOLEAN, Initialize(w, bps, t, p) \/ UpdateConfig(w, bps, t, p)
        PROVE  UNCHANGED <<available, signed, honoured>>
    BY <2>1 DEF Initialize, UpdateConfig, available, honoured
  <2>2. ASSUME NEW s \in Searchers, EscrowInit(s)
        PROVE  UNCHANGED <<available, signed, honoured>>
    <3>1. \A z \in Searchers : available'[z] = available[z]
      BY <1>2, <2>0, <2>2 DEF EscrowInit, available, IInv, EscrowRentExempt
    <3>2. available' = available
      BY <3>1 DEF available
    <3>3. QED
      BY <2>2, <3>2 DEF EscrowInit, honoured
  <2>3. ASSUME NEW s \in Searchers, NEW a \in Amounts, EscrowDeposit(s, a)
        PROVE  Ledger!Deposit(s)
    <3>1. /\ s \in escrows /\ escrows' = escrows /\ a \in Nat /\ a > 0
          /\ escrowLamports' = [escrowLamports EXCEPT ![s] = escrowLamports[s] + a]
          /\ signed' = signed /\ honoured' = honoured
      BY <2>3 DEF EscrowDeposit, honoured
    <3> DEFINE n == escrowLamports[s] + a
    <3>n. n \in Nat /\ escrowLamports' = [escrowLamports EXCEPT ![s] = n]
      BY <2>0, <3>1
    <3> HIDE DEF n
    <3>f. /\ available' = [available EXCEPT ![s] = available'[s]]
          /\ available'[s] \in Nat
          /\ available[s] = escrowLamports[s] - ESCROW_RENT
          /\ available'[s] = n - ESCROW_RENT
      BY <1>2, <3>1, <3>n, AvailableFollowsBalance
    <3>2. /\ available' = [available EXCEPT ![s] = available'[s]]
          /\ available'[s] \in Nat
          /\ available'[s] = available[s] + a
      BY <2>0, <3>1, <3>f DEF n
    <3>3. available[s] \in Nat
      BY <1>2, AvailableType
    <3>4. QED
      BY <3>1, <3>2, <3>3 DEF Ledger!Deposit
  <2>4. ASSUME NEW s \in Searchers, NEW a \in Amounts, EscrowWithdraw(s, a)
        PROVE  Ledger!Withdraw(s)
    <3>1. /\ s \in escrows /\ escrows' = escrows /\ a \in Nat /\ a > 0
          /\ escrowLamports[s] - a \in Nat
          /\ escrowLamports' = [escrowLamports EXCEPT ![s] = escrowLamports[s] - a]
          /\ signed' = signed /\ honoured' = honoured
      BY <2>0, <2>4 DEF EscrowWithdraw, honoured
    <3> DEFINE n == escrowLamports[s] - a
    <3>n. n \in Nat /\ escrowLamports' = [escrowLamports EXCEPT ![s] = n]
      BY <2>0, <3>1
    <3> HIDE DEF n
    <3>f. /\ available' = [available EXCEPT ![s] = available'[s]]
          /\ available'[s] \in Nat
          /\ available[s] = escrowLamports[s] - ESCROW_RENT
          /\ available'[s] = n - ESCROW_RENT
      BY <1>2, <3>1, <3>n, AvailableFollowsBalance
    <3>2. /\ available' = [available EXCEPT ![s] = available'[s]]
          /\ available'[s] \in Nat
          /\ available'[s] = available[s] - a
      BY <2>0, <3>1, <3>f DEF n
    <3>3. available[s] \in Nat
      BY <1>2, AvailableType
    <3>4. QED
      BY <3>1, <3>2, <3>3 DEF Ledger!Withdraw
  <2>5. ASSUME NEW s \in Searchers, NEW h \in Hints, NEW b \in Bids,
               SignBidCommitment(s, h, b)
        PROVE  \E c \in Commitments : Ledger!Promise(c)
    BY <2>5 DEF SignBidCommitment, Commitments, Ledger!Promise, available, honoured
  <2>6. ASSUME NEW r \in Relays, NEW s \in Searchers, NEW u \in Users,
               NEW t \in Treasuries, NEW h \in Hints, NEW b \in Bids, NEW e \in signed,
               SettleFromEscrow(r, s, u, t, h, b, e)
        PROVE  \E c \in Commitments : Ledger!Honour(c)
    <3> DEFINE c == [searcher |-> s, hint |-> h, bid |-> b]
    <3>1. c \in Commitments /\ b \in Nat /\ c.bid = b /\ c.searcher = s /\ c.hint = h
      BY DEF Commitments
    <3>2. PICK x \in Settlements :
             /\ settled' = settled \cup {x}
             /\ x.hint = h /\ x.searcher = s /\ x.bid_amount = b
      BY <1>2, <2>6, SettlementIsNew
    <3>3. honoured' = honoured \cup {c}
      BY <3>2 DEF honoured
    <3>4. c \in signed /\ signed' = signed
      BY <1>2, <2>6, <3>2 DEF IInv, SettledAsSigned, SettleFromEscrow
    <3>5. \A d \in honoured : d.hint # c.hint
      BY <1>2, <2>6, <3>1 DEF SettleFromEscrow, HintIsFresh, IInv, HintSettledOnce, honoured
    <3>6. /\ s \in escrows /\ escrows' = escrows
          /\ escrowLamports[s] >= TotalDebit(b) + ESCROW_RENT
          /\ escrowLamports' = [escrowLamports EXCEPT ![s] = escrowLamports[s] - TotalDebit(b)]
      BY <2>6 DEF SettleFromEscrow, EscrowCovers
    <3>7. TotalDebit(b) = b + (HINT_RENT + TX_FEE_REIMBURSEMENT) /\ TotalDebit(b) \in Nat
      BY <3>1 DEF TotalDebit, Reimbursement
    <3>8. escrowLamports[s] \in Nat /\ escrowLamports[s] - TotalDebit(b) \in Nat
      BY <2>0, <3>6, <3>7
    <3> DEFINE n == escrowLamports[s] - TotalDebit(b)
    <3>n. n \in Nat /\ escrowLamports' = [escrowLamports EXCEPT ![s] = n]
      BY <3>6, <3>8
    <3> HIDE DEF n
    <3>f. /\ available' = [available EXCEPT ![s] = available'[s]]
          /\ available[s] = escrowLamports[s] - ESCROW_RENT
          /\ available'[s] = n - ESCROW_RENT
      BY <1>2, <3>6, <3>n, AvailableFollowsBalance
    <3>9. /\ available' = [available EXCEPT ![s] = available'[s]]
          /\ available'[s] = available[s] - TotalDebit(b)
          /\ available[s] >= TotalDebit(b)
      BY <3>6, <3>7, <3>8, <3>f DEF n
    <3>10. Ledger!Honour(c)
      BY <3>1, <3>3, <3>4, <3>5, <3>7, <3>9 DEF Ledger!Honour
    <3>11. QED
      BY <3>1, <3>10
  <2>7. ASSUME NEW w \in Wallets, NEW n \in {1, 2}, RejectedTransaction(w, n)
        PROVE  UNCHANGED <<available, signed, honoured>>
    BY <2>7 DEF RejectedTransaction, available, honoured
  <2>8. CASE UNCHANGED vars
    BY <2>8 DEF vars, available, honoured
  <2>9. QED
    BY <1>2, <2>1, <2>2, <2>3, <2>4, <2>5, <2>6, <2>7, <2>8
       DEF Next, Ledger!Next, Ledger!Commitments, Commitments
<1>3. QED
  BY <1>1, <1>2, AlwaysIInv, PTL DEF Spec, ImplementsLedger, Ledger!Spec

-----------------------------------------------------------------------------
HIDE DEF FitsU64, CanPay, CollectFee, Credit, Debit

\* Induction over the naturals, for a set instead of a predicate: a set with no
\* least missing number misses none.
LEMMA NatSetInduction ==
    ASSUME NEW T \in SUBSET Nat, 0 \in T, \A n \in T : n + 1 \in T
    PROVE  T = Nat
<1> DEFINE Rel == OpToRel(<, Nat)
           U == Nat \ T
<1>1. IsWellFoundedOn(Rel, Nat)
  BY NatLessThanWellFounded
<1>2. \A m, n \in Nat : <<m, n>> \in Rel <=> m < n
  BY DEF OpToRel
<1> HIDE DEF Rel, U
<1>3. SUFFICES ASSUME U # {} PROVE FALSE
  BY DEF U
<1>4. U \subseteq Nat
  BY DEF U
<1>5. PICK x \in U : \A y \in U : ~(<<y, x>> \in Rel)
  BY <1>1, <1>3, <1>4, WFMin
<1>6. x \in Nat /\ x # 0 /\ x - 1 \in Nat /\ x - 1 < x
  BY <1>5 DEF U
<1>7. x - 1 \in T
  BY <1>2, <1>5, <1>6 DEF U
<1>8. (x - 1) + 1 \in T
  BY <1>7
<1>9. (x - 1) + 1 = x
  BY <1>6
<1> QED
  BY <1>5, <1>8, <1>9 DEF U

\* Induction over the subsets of a finite set: what holds of a set whenever it
\* holds of the set with any one element removed holds of all of them.
LEMMA SubsetInduction ==
    ASSUME NEW D, IsFiniteSet(D), NEW P \in SUBSET SUBSET D, {} \in P,
           \A s \in SUBSET D : s # {} /\ (\A x \in s : s \ {x} \in P) => s \in P
    PROVE  P = SUBSET D
<1> DEFINE T == {n \in Nat : \A s \in SUBSET D : Cardinality(s) = n => s \in P}
<1>1. ASSUME NEW s \in SUBSET D
      PROVE  /\ IsFiniteSet(s) /\ Cardinality(s) \in Nat
             /\ Cardinality(s) = 0 <=> s = {}
             /\ \A x \in s : /\ s \ {x} \in SUBSET D
                             /\ Cardinality(s \ {x}) = Cardinality(s) - 1
  <2>1. IsFiniteSet(s)
    BY FS_Subset
  <2>2. QED
    BY <2>1, FS_CardinalityType, FS_EmptySet, FS_RemoveElement
<1>2. 0 \in T
  BY <1>1
<1>3. ASSUME NEW n \in T PROVE n + 1 \in T
  <2>1. ASSUME NEW s \in SUBSET D, Cardinality(s) = n + 1 PROVE s \in P
    <3>1. s # {}
      BY <1>1, <2>1
    <3>2. ASSUME NEW x \in s PROVE s \ {x} \in P
      <4>1. s \ {x} \in SUBSET D /\ Cardinality(s \ {x}) = n
        BY <1>1, <2>1
      <4>2. QED
        BY <4>1
    <3>3. QED
      BY <3>1, <3>2
  <2>2. QED
    BY <2>1
<1> HIDE DEF T
<1>4. T = Nat
  BY <1>2, <1>3, NatSetInduction DEF T
<1>5. QED
  BY <1>1, <1>4 DEF T

-----------------------------------------------------------------------------
\* The sum of a function over the subsets of its domain, as MapThenSumSet
\* computes it: it takes the elements in the order CHOOSE gives them.
Chosen(s) == CHOOSE x \in s : TRUE

SumStep(f, D, g) ==
    [s \in SUBSET D |-> IF s = {} THEN 0 ELSE f[Chosen(s)] + g[s \ {Chosen(s)}]]

SumOver(f, D) == CHOOSE g : g = SumStep(f, D, g)

LEMMA TotalIsSum ==
    ASSUME NEW f, NEW D
    PROVE  MapThenSumSet(LAMBDA w : f[w], D) = SumOver(f, D)[D]
BY DEF MapThenSumSet, MapThenFoldSet, SumOver, SumStep, Chosen

\* The recursion of SumOver has a solution when the domain is finite.
LEMMA SumExists ==
    ASSUME NEW D, IsFiniteSet(D), NEW f
    PROVE  \E g : g = SumStep(f, D, g)
<1> DEFINE Step(g) == [s \in SUBSET D |->
                         IF s = {} THEN 0 ELSE f[Chosen(s)] + g[s \ {Chosen(s)}]]
           Solves(g, n) == \A s \in SUBSET D : Cardinality(s) <= n => g[s] = Step(g)[s]
           T == {n \in Nat : \E g : Solves(g, n)}
<1>1. ASSUME NEW s \in SUBSET D, s # {}
      PROVE  /\ s \ {Chosen(s)} \in SUBSET D
             /\ Cardinality(s) \in Nat
             /\ Cardinality(s \ {Chosen(s)}) = Cardinality(s) - 1
  <2>1. Chosen(s) \in s /\ IsFiniteSet(s)
    BY <1>1, FS_Subset DEF Chosen
  <2>2. QED
    BY <2>1, FS_CardinalityType, FS_RemoveElement
<1>2. \A s \in SUBSET D : Cardinality(s) \in Nat /\ (Cardinality(s) = 0 => s = {})
  BY FS_Subset, FS_CardinalityType, FS_EmptySet
<1>3. 0 \in T
  <2> DEFINE g == [s \in SUBSET D |-> 0]
  <2>1. Solves(g, 0)
    BY <1>2
  <2>2. QED
    BY <2>1
<1>4. ASSUME NEW n \in T PROVE n + 1 \in T
  <2>1. PICK g : Solves(g, n)
    BY <1>4
  <2> DEFINE h == Step(g)
  <2>2. ASSUME NEW s \in SUBSET D, Cardinality(s) <= n + 1 PROVE h[s] = Step(h)[s]
    <3>1. CASE s = {}
      BY <3>1
    <3>2. CASE s # {}
      <4> DEFINE r == s \ {Chosen(s)}
      <4>1. r \in SUBSET D /\ Cardinality(r) <= n
        BY <1>1, <2>2, <3>2
      <4>2. g[r] = h[r]
        BY <2>1, <4>1
      <4>3. h[s] = f[Chosen(s)] + g[r]
        BY <3>2
      <4> HIDE DEF h
      <4>4. Step(h)[s] = f[Chosen(s)] + h[r]
        BY <3>2
      <4>5. QED
        BY <4>2, <4>3, <4>4
    <3>3. QED
      BY <3>1, <3>2
  <2>3. n + 1 \in Nat
    BY <1>4
  <2> HIDE DEF h
  <2>4. Solves(h, n + 1)
    BY <2>2
  <2>5. QED
    BY <2>3, <2>4
<1>5. Cardinality(D) \in T
  <2> HIDE DEF T
  <2>1. T = Nat
    BY <1>3, <1>4, NatSetInduction DEF T
  <2>2. QED
    BY <2>1, FS_CardinalityType
<1>6. PICK g : Solves(g, Cardinality(D))
  BY <1>5
<1>7. \A s \in SUBSET D : g[s] = Step(g)[s]
  BY <1>6, FS_Subset
<1> DEFINE h == [s \in SUBSET D |-> g[s]]
<1>8. h = Step(h)
  <2>1. ASSUME NEW s \in SUBSET D PROVE h[s] = Step(h)[s]
    <3>1. CASE s = {}
      BY <1>7, <3>1
    <3>2. CASE s # {}
      BY <1>1, <1>7, <3>2
    <3>3. QED
      BY <3>1, <3>2
  <2>2. QED
    BY <2>1
<1>9. QED
  BY <1>8 DEF SumStep

LEMMA SumUnfolds ==
    ASSUME NEW D, IsFiniteSet(D), NEW f, NEW s \in SUBSET D
    PROVE  SumOver(f, D)[s] = IF s = {} THEN 0
                              ELSE f[Chosen(s)] + SumOver(f, D)[s \ {Chosen(s)}]
<1> DEFINE S == SumOver(f, D)
<1>1. \E g : g = SumStep(f, D, g)
  BY SumExists
<1>2. S = SumStep(f, D, S)
  BY <1>1 DEF SumOver
<1> HIDE DEF S
<1>3. S[s] = IF s = {} THEN 0 ELSE f[Chosen(s)] + S[s \ {Chosen(s)}]
  BY <1>2 DEF SumStep
<1>4. QED
  BY <1>3 DEF S

LEMMA SumIsInt ==
    ASSUME NEW D, IsFiniteSet(D), NEW f \in [D -> Int]
    PROVE  \A s \in SUBSET D : SumOver(f, D)[s] \in Int
<1> DEFINE S == SumOver(f, D)
           P == {s \in SUBSET D : S[s] \in Int}
<1>1. \A s \in SUBSET D : S[s] = IF s = {} THEN 0
                                 ELSE f[Chosen(s)] + S[s \ {Chosen(s)}]
  BY SumUnfolds
<1> HIDE DEF S
<1>2. {} \in P
  <2>1. S[{}] = 0
    BY <1>1
  <2>2. QED
    BY <2>1
<1>3. ASSUME NEW s \in SUBSET D, s # {}, \A x \in s : s \ {x} \in P PROVE s \in P
  <2>1. Chosen(s) \in s
    BY <1>3 DEF Chosen
  <2>2. S[s] = f[Chosen(s)] + S[s \ {Chosen(s)}]
    BY <1>1, <1>3
  <2>3. f[Chosen(s)] \in Int /\ S[s \ {Chosen(s)}] \in Int
    BY <1>3, <2>1
  <2>4. S[s] \in Int
    BY <2>2, <2>3
  <2>5. QED
    BY <2>4
<1>4. P \in SUBSET SUBSET D
  OBVIOUS
<1> HIDE DEF P
<1>5. P = SUBSET D
  BY <1>2, <1>3, <1>4, SubsetInduction
<1>6. QED
  BY <1>5 DEF P, S

\* A sum of integers is an integer, and any element may be taken out first.
LEMMA SumTakesOutAny ==
    ASSUME NEW D, IsFiniteSet(D), NEW f \in [D -> Int]
    PROVE  \A s \in SUBSET D : \A x \in s :
              SumOver(f, D)[s] = f[x] + SumOver(f, D)[s \ {x}]
<1> DEFINE S == SumOver(f, D)
           P == {s \in SUBSET D : \A x \in s : S[s] = f[x] + S[s \ {x}]}
<1>0. \A s \in SUBSET D : S[s] \in Int
  BY SumIsInt
<1>1. \A s \in SUBSET D : S[s] = IF s = {} THEN 0
                                 ELSE f[Chosen(s)] + S[s \ {Chosen(s)}]
  BY SumUnfolds
<1> HIDE DEF S
<1>2. {} \in P
  BY <1>1
<1>3. ASSUME NEW s \in SUBSET D, s # {}, \A x \in s : s \ {x} \in P PROVE s \in P
  <2> DEFINE y == Chosen(s)
  <2>1. y \in s
    BY <1>3 DEF Chosen
  <2>2. S[s] = f[y] + S[s \ {y}]
    BY <1>1, <1>3
  <2> HIDE DEF y
  <2>3. ASSUME NEW x \in s, x # y PROVE S[s] = f[x] + S[s \ {x}]
    <3>1. S[s \ {y}] = f[x] + S[(s \ {y}) \ {x}]
      BY <1>3, <2>1, <2>3
    <3>2. S[s \ {x}] = f[y] + S[(s \ {x}) \ {y}]
      BY <1>3, <2>1, <2>3
    <3>3. (s \ {y}) \ {x} = (s \ {x}) \ {y}
      OBVIOUS
    <3> DEFINE rest == S[(s \ {x}) \ {y}]
    <3>4. rest \in Int
      BY <1>0
    <3> HIDE DEF rest
    <3>5. f[x] \in Int /\ f[y] \in Int
      BY <2>1
    <3>6. S[s] = f[y] + (f[x] + rest) /\ S[s \ {x}] = f[y] + rest
      BY <2>2, <3>1, <3>2, <3>3 DEF rest
    <3>7. QED
      BY <3>4, <3>5, <3>6
  <2>4. QED
    BY <2>2, <2>3
<1>4. P \in SUBSET SUBSET D
  OBVIOUS
<1> HIDE DEF P
<1>5. P = SUBSET D
  BY <1>2, <1>3, <1>4, SubsetInduction
<1>6. QED
  BY <1>5 DEF P, S

\* Two functions that agree on a set have the same sum over it.
LEMMA SumDependsOnElements ==
    ASSUME NEW D, IsFiniteSet(D), NEW f, NEW g, NEW r \in SUBSET D,
           \A w \in r : f[w] = g[w]
    PROVE  SumOver(f, D)[r] = SumOver(g, D)[r]
<1> DEFINE F == SumOver(f, D)
           G == SumOver(g, D)
           P == {s \in SUBSET D : s \subseteq r => F[s] = G[s]}
<1>1. \A s \in SUBSET D :
         /\ F[s] = IF s = {} THEN 0 ELSE f[Chosen(s)] + F[s \ {Chosen(s)}]
         /\ G[s] = IF s = {} THEN 0 ELSE g[Chosen(s)] + G[s \ {Chosen(s)}]
  BY SumUnfolds
<1> HIDE DEF F, G
<1>2. {} \in P
  BY <1>1
<1>3. ASSUME NEW s \in SUBSET D, s # {}, \A x \in s : s \ {x} \in P PROVE s \in P
  <2>1. Chosen(s) \in s
    BY <1>3 DEF Chosen
  <2>2. s \subseteq r => F[s \ {Chosen(s)}] = G[s \ {Chosen(s)}]
    BY <1>3, <2>1
  <2>3. QED
    BY <1>1, <1>3, <2>1, <2>2
<1>4. P \in SUBSET SUBSET D
  OBVIOUS
<1> HIDE DEF P
<1>5. P = SUBSET D
  BY <1>2, <1>3, <1>4, SubsetInduction
<1>6. QED
  BY <1>5 DEF P, F, G

\* The total of a set of accounts, as LamportsConserved writes it.
TotalOf(balances) == MapThenSumSet(LAMBDA w : balances[w], DOMAIN balances)

LEMMA TotalIsInt ==
    ASSUME NEW D, IsFiniteSet(D), NEW f \in [D -> Int]
    PROVE  TotalOf(f) \in Int
<1>1. TotalOf(f) = SumOver(f, D)[D]
  BY TotalIsSum DEF TotalOf
<1>2. QED
  BY <1>1, SumIsInt

\* Changing one account's balance changes the total by as much.
LEMMA TotalAfterUpdate ==
    ASSUME NEW D, IsFiniteSet(D), NEW f \in [D -> Int], NEW w \in D, NEW n \in Int
    PROVE  /\ TotalOf(f) \in Int
           /\ TotalOf([f EXCEPT ![w] = n]) = TotalOf(f) - f[w] + n
<1> DEFINE g == [f EXCEPT ![w] = n]
           F == SumOver(f, D)
           G == SumOver(g, D)
<1>1. g \in [D -> Int] /\ g[w] = n /\ \A v \in D \ {w} : f[v] = g[v]
  OBVIOUS
<1> HIDE DEF g
<1>2. TotalOf(f) = F[D] /\ TotalOf(g) = G[D]
  <2>1. DOMAIN f = D /\ DOMAIN g = D
    BY <1>1
  <2>2. QED
    BY <2>1, TotalIsSum DEF TotalOf
<1>3. F[D] \in Int /\ F[D \ {w}] \in Int
  BY SumIsInt
<1>4. F[D] = f[w] + F[D \ {w}]
  BY SumTakesOutAny
<1>5. G[D] = g[w] + G[D \ {w}]
  <2> HIDE DEF F
  <2>1. \A s \in SUBSET D : \A x \in s : G[s] = g[x] + G[s \ {x}]
    BY <1>1, SumTakesOutAny
  <2> HIDE DEF G
  <2>2. QED
    BY <2>1
<1>6. F[D \ {w}] = G[D \ {w}]
  BY <1>1, SumDependsOnElements
<1>7. f[w] \in Int
  OBVIOUS
<1> HIDE DEF F, G
<1>8. QED
  BY <1>1, <1>2, <1>3, <1>4, <1>5, <1>6, <1>7 DEF g

\* A total of zeros is zero.
LEMMA TotalOfZeros ==
    ASSUME NEW D, IsFiniteSet(D)
    PROVE  TotalOf([d \in D |-> 0]) = 0
<1> DEFINE z == [d \in D |-> 0]
           Z == SumOver(z, D)
           P == {s \in SUBSET D : Z[s] = 0}
<1>0. \A d \in D : z[d] = 0
  OBVIOUS
<1>d. DOMAIN z = D
  OBVIOUS
<1> HIDE DEF z
<1>1. \A s \in SUBSET D :
         Z[s] = IF s = {} THEN 0 ELSE z[Chosen(s)] + Z[s \ {Chosen(s)}]
  BY SumUnfolds
<1> HIDE DEF Z
<1>2. {} \in P
  BY <1>1
<1>3. ASSUME NEW s \in SUBSET D, s # {}, \A x \in s : s \ {x} \in P PROVE s \in P
  <2>1. Chosen(s) \in s
    BY <1>3 DEF Chosen
  <2>2. Z[s \ {Chosen(s)}] = 0 /\ z[Chosen(s)] = 0
    BY <1>0, <1>3, <2>1
  <2>3. Z[s] = z[Chosen(s)] + Z[s \ {Chosen(s)}]
    BY <1>1, <1>3
  <2>4. Z[s] = 0
    BY <2>2, <2>3
  <2>5. QED
    BY <2>4
<1>4. P \in SUBSET SUBSET D
  OBVIOUS
<1> HIDE DEF P
<1>5. P = SUBSET D
  BY <1>2, <1>3, <1>4, SubsetInduction
<1>6. TotalOf(z) = Z[D]
  BY <1>d, TotalIsSum DEF TotalOf, Z
<1>7. QED
  BY <1>5, <1>6 DEF P, z

-----------------------------------------------------------------------------
\* A credit or a debit of one account changes the total by its amount.
LEMMA TotalAfterTransfer ==
    ASSUME NEW D, IsFiniteSet(D), NEW f \in [D -> Int], NEW w \in D, NEW amount \in Nat
    PROVE  /\ TotalOf(f) \in Int
           /\ Credit(f, w, amount) \in [D -> Int]
           /\ Debit(f, w, amount) \in [D -> Int]
           /\ TotalOf(Credit(f, w, amount)) = TotalOf(f) + amount
           /\ TotalOf(Debit(f, w, amount)) = TotalOf(f) - amount
<1>1. f[w] \in Int /\ f[w] + amount \in Int /\ f[w] - amount \in Int
  OBVIOUS
<1>2. TotalOf(f) \in Int
  BY <1>1, TotalAfterUpdate
<1>3. TotalOf(Credit(f, w, amount)) = TotalOf(f) + amount
  <2>1. TotalOf([f EXCEPT ![w] = f[w] + amount]) = TotalOf(f) - f[w] + (f[w] + amount)
    BY <1>1, TotalAfterUpdate
  <2>2. Credit(f, w, amount) = [f EXCEPT ![w] = f[w] + amount]
    BY DEF Credit
  <2>3. QED
    BY <1>1, <1>2, <2>1, <2>2
<1>4. TotalOf(Debit(f, w, amount)) = TotalOf(f) - amount
  <2>1. TotalOf([f EXCEPT ![w] = f[w] - amount]) = TotalOf(f) - f[w] + (f[w] - amount)
    BY <1>1, TotalAfterUpdate
  <2>2. Debit(f, w, amount) = [f EXCEPT ![w] = f[w] - amount]
    BY DEF Debit
  <2>3. QED
    BY <1>1, <1>2, <2>1, <2>2
<1>5. Credit(f, w, amount) \in [D -> Int] /\ Debit(f, w, amount) \in [D -> Int]
  BY DEF Credit, Debit
<1>6. QED
  BY <1>2, <1>3, <1>4, <1>5

\* Where the lamports are: wallets, escrows, the fees taken, and the rent locked in
\* the UsedHint accounts and in the configuration.
Locked == IF config = NoConfig THEN 0 ELSE CONFIG_RENT
Supply == TotalOf(lamports) + TotalOf(escrowLamports) + feesCollected
            + HINT_RENT * Cardinality(usedHints) + Locked

\* What a step must do to conserve the supply: the changes of its parts cancel.
ConservedInv == IsFiniteSet(usedHints) /\ TotalOf(InitialLamports) = Supply

LEMMA ConservedMeansConserved == ConservedInv => LamportsConserved
BY DEF ConservedInv, LamportsConserved, Supply, Locked, TotalOf

LEMMA SupplyParts ==
    ASSUME TypeOK, ConservedInv
    PROVE  /\ IsFiniteSet(Wallets) /\ IsFiniteSet(Searchers)
           /\ lamports \in [Wallets -> Int] /\ escrowLamports \in [Searchers -> Int]
           /\ feesCollected \in Int /\ SIGNATURE_FEE \in Nat
           /\ CONFIG_RENT \in Nat /\ ESCROW_RENT \in Nat /\ HINT_RENT \in Nat
           /\ Cardinality(usedHints) \in Nat
<1>1. IsFiniteSet(Wallets) /\ IsFiniteSet(Searchers)
  BY WalletRoles, FS_Subset
<1>2. lamports \in [Wallets -> Int] /\ escrowLamports \in [Searchers -> Int]
  BY DEF TypeOK
<1>3. QED
  BY <1>1, <1>2, AmountsAreNaturals, FS_CardinalityType DEF TypeOK, ConservedInv

LEMMA InitConserved == Init => ConservedInv
<1> SUFFICES ASSUME Init PROVE ConservedInv
  OBVIOUS
<1>1. IsFiniteSet(Wallets) /\ IsFiniteSet(Searchers)
  BY WalletRoles, FS_Subset
<1>2. TotalOf(escrowLamports) = 0
  BY <1>1, TotalOfZeros DEF Init
<1>3. TotalOf(lamports) \in Int
  <2>1. lamports \in [Wallets -> Int]
    BY AmountsAreNaturals DEF Init
  <2>2. QED
    BY <1>1, <2>1, TotalIsInt
<1>4. IsFiniteSet(usedHints) /\ Cardinality(usedHints) = 0
  BY FS_EmptySet DEF Init
<1>5. HINT_RENT * 0 = 0
  BY AmountsAreNaturals
<1>6. feesCollected = 0 /\ Locked = 0 /\ lamports = InitialLamports
  BY DEF Init, Locked
<1>7. QED
  BY <1>2, <1>3, <1>4, <1>5, <1>6 DEF ConservedInv, Supply

\* The changes of the four sums a transaction makes, none of which opens an account
\* for a hint; `rent` is what it locks in the configuration.
LEMMA BalancedIsConserved ==
    ASSUME TypeOK, ConservedInv, NEW dl \in Int, NEW de \in Int, NEW df \in Int,
           NEW dr \in Int, dl + de + df + dr = 0,
           TotalOf(lamports') = TotalOf(lamports) + dl,
           TotalOf(escrowLamports') = TotalOf(escrowLamports) + de,
           feesCollected' = feesCollected + df,
           Locked' = Locked + dr,
           usedHints' = usedHints,
           TotalOf(lamports) \in Int, TotalOf(escrowLamports) \in Int
    PROVE  ConservedInv'
<1> DEFINE rent == HINT_RENT * Cardinality(usedHints)
<1>1. rent \in Int /\ feesCollected \in Int
  BY SupplyParts
<1>2. Locked \in Int
  BY SupplyParts DEF Locked
<1>3. rent' = rent
  OBVIOUS
<1> HIDE DEF rent
<1>4. TotalOf(InitialLamports) = TotalOf(lamports) + TotalOf(escrowLamports)
                                   + feesCollected + rent + Locked
  BY DEF ConservedInv, Supply, rent
<1>5. TotalOf(InitialLamports) = TotalOf(lamports') + TotalOf(escrowLamports')
                                   + feesCollected' + rent + Locked'
  BY <1>1, <1>2, <1>4
<1>6. IsFiniteSet(usedHints')
  BY DEF ConservedInv
<1>7. QED
  BY <1>3, <1>5, <1>6 DEF ConservedInv, Supply, rent

\* A settlement: what the relay, the user and the treasury receive, less what the
\* relay paid, is what the escrow lost less the fees and the new account's rent.
LEMMA SettlementConserves ==
    ASSUME TypeOK, ConservedInv, NEW relay \in Relays, NEW searcher \in Searchers,
           NEW user \in Users, NEW treasury \in Treasuries, NEW hint \in Hints,
           NEW bid \in Bids, NEW ed25519 \in signed,
           SettleFromEscrow(relay, searcher, user, treasury, hint, bid, ed25519)
    PROVE  ConservedInv'
<1> DEFINE fee == ProtocolFee(bid, config.protocol_fee_bps)
           share == UserShare(bid, config.protocol_fee_bps)
           upfront == 2 * SIGNATURE_FEE + HINT_RENT
           l1 == Debit(lamports, relay, upfront)
           l2 == Credit(l1, user, share)
           l3 == Credit(l2, treasury, fee)
           l4 == Credit(l3, relay, Reimbursement)
<1>0. /\ relay \in Wallets /\ user \in Wallets /\ treasury \in Wallets
      /\ IsFiniteSet(Wallets) /\ IsFiniteSet(Searchers)
      /\ lamports \in [Wallets -> Int] /\ escrowLamports \in [Searchers -> Int]
      /\ SIGNATURE_FEE \in Nat /\ HINT_RENT \in Nat /\ feesCollected \in Int
      /\ CONFIG_RENT \in Nat /\ Cardinality(usedHints) \in Nat
  BY WalletRoles, SupplyParts
<1>1. /\ bid \in Nat /\ fee \in Nat /\ share \in Nat /\ share + fee = bid
      /\ config \in ProtocolConfig
  BY SettlementRecordType, SplitIsExact
<1>2. /\ lamports' = l4
      /\ escrowLamports' = Debit(escrowLamports, searcher, TotalDebit(bid))
      /\ usedHints' = usedHints \cup {hint} /\ hint \notin usedHints
      /\ config' = Counted(config, share) /\ config # NoConfig
      /\ feesCollected' = feesCollected + 2 * SIGNATURE_FEE
  BY DEF SettleFromEscrow, HintIsFresh, CollectFee
<1> HIDE DEF fee, share
<1>3. upfront \in Nat /\ Reimbursement \in Nat
      /\ TotalDebit(bid) = bid + Reimbursement /\ Reimbursement = upfront
  BY <1>0, <1>1, FeeCoversBothSignatures DEF Reimbursement, TotalDebit
<1> HIDE DEF upfront
<1>4. l1 \in [Wallets -> Int] /\ TotalOf(l1) = TotalOf(lamports) - upfront
      /\ TotalOf(lamports) \in Int
  BY <1>0, <1>3, TotalAfterTransfer
<1> HIDE DEF l1
<1>5. l2 \in [Wallets -> Int] /\ TotalOf(l2) = TotalOf(l1) + share
  BY <1>0, <1>1, <1>4, TotalAfterTransfer
<1> HIDE DEF l2
<1>6. l3 \in [Wallets -> Int] /\ TotalOf(l3) = TotalOf(l2) + fee
  BY <1>0, <1>1, <1>5, TotalAfterTransfer
<1> HIDE DEF l3
<1>7. TotalOf(l4) = TotalOf(l3) + Reimbursement
  BY <1>0, <1>3, <1>6, TotalAfterTransfer
<1> HIDE DEF l4
<1>8. TotalOf(lamports') = TotalOf(lamports) + bid
  BY <1>1, <1>2, <1>3, <1>4, <1>5, <1>6, <1>7
<1>9. /\ TotalOf(escrowLamports) \in Int
      /\ TotalOf(escrowLamports') = TotalOf(escrowLamports) - (bid + upfront)
  <2>1. TotalDebit(bid) \in Nat
    BY <1>1, <1>3
  <2>2. QED
    BY <1>0, <1>2, <1>3, <2>1, TotalAfterTransfer
<1>10. /\ IsFiniteSet(usedHints')
       /\ HINT_RENT * Cardinality(usedHints')
            = HINT_RENT * Cardinality(usedHints) + HINT_RENT
  <2>1. /\ IsFiniteSet(usedHints')
        /\ Cardinality(usedHints') = Cardinality(usedHints) + 1
    BY <1>2, FS_AddElement DEF ConservedInv
  <2>2. HINT_RENT * (Cardinality(usedHints) + 1)
          = HINT_RENT * Cardinality(usedHints) + HINT_RENT
    BY <1>0
  <2>3. QED
    BY <2>1, <2>2
<1>11. Locked' = Locked /\ Locked \in Int
  <2>1. config' # NoConfig
    BY <1>1, <1>2, CountedFields, NoConfigIsNoRecord
  <2>2. QED
    BY <1>0, <1>2, <2>1 DEF Locked
<1> DEFINE rent == HINT_RENT * Cardinality(usedHints)
<1>12. rent \in Int
  BY <1>0
<1> HIDE DEF rent
<1>13. TotalOf(InitialLamports) = TotalOf(lamports) + TotalOf(escrowLamports)
                                    + feesCollected + rent + Locked
  BY DEF ConservedInv, Supply, rent
<1>14. TotalOf(InitialLamports) = TotalOf(lamports') + TotalOf(escrowLamports')
                                    + feesCollected' + (rent + HINT_RENT) + Locked'
  BY <1>0, <1>1, <1>2, <1>4, <1>8, <1>9, <1>11, <1>12, <1>13 DEF upfront
<1>15. QED
  BY <1>10, <1>14 DEF ConservedInv, Supply, rent

\* Every transaction conserves the supply, a rejected one too: its fee is collected.
LEMMA StepConserves == TypeOK /\ ConservedInv /\ [Next]_vars => ConservedInv'
<1> SUFFICES ASSUME TypeOK, ConservedInv, [Next]_vars PROVE ConservedInv'
  OBVIOUS
<1>0. /\ IsFiniteSet(Wallets) /\ IsFiniteSet(Searchers) /\ Searchers \subseteq Wallets
      /\ lamports \in [Wallets -> Int] /\ escrowLamports \in [Searchers -> Int]
      /\ SIGNATURE_FEE \in Nat /\ CONFIG_RENT \in Nat /\ ESCROW_RENT \in Nat
      /\ Amounts \subseteq Nat /\ feesCollected \in Int
  BY SupplyParts, WalletRoles, AmountsAreNaturals
<1>t. TotalOf(lamports) \in Int /\ TotalOf(escrowLamports) \in Int
  BY <1>0, TotalIsInt
<1>l. Locked \in Int /\ (config' = config => Locked' = Locked)
  BY <1>0 DEF Locked
<1>fee. ASSUME NEW w \in Wallets, NEW n \in Nat,
               lamports' = Debit(lamports, w, n), feesCollected' = feesCollected + n,
               usedHints' = usedHints, escrowLamports' = escrowLamports, config' = config
        PROVE  ConservedInv'
  <2>1. TotalOf(lamports') = TotalOf(lamports) - n
    BY <1>0, <1>fee, TotalAfterTransfer
  <2>2. TotalOf(lamports') = TotalOf(lamports) + (-n)
    BY <1>t, <2>1
  <2>3. TotalOf(escrowLamports') = TotalOf(escrowLamports) + 0
    BY <1>t, <1>fee
  <2>4. Locked' = Locked + 0 /\ (-n) + 0 + n + 0 = 0
    BY <1>l, <1>fee
  <2>5. QED
    BY <1>t, <1>fee, <2>2, <2>3, <2>4, BalancedIsConserved
\* A searcher's transaction: n out of its wallet (or -n into it) besides the fee.
<1>escrow. ASSUME NEW s \in Searchers, NEW n \in Int,
                  TotalOf(lamports') = TotalOf(lamports) - (SIGNATURE_FEE + n),
                  TotalOf(escrowLamports') = TotalOf(escrowLamports) + n,
                  feesCollected' = feesCollected + SIGNATURE_FEE,
                  usedHints' = usedHints, config' = config
           PROVE  ConservedInv'
  <2>1. TotalOf(lamports') = TotalOf(lamports) + (-(SIGNATURE_FEE + n))
    BY <1>0, <1>t, <1>escrow
  <2>2. Locked' = Locked + 0 /\ (-(SIGNATURE_FEE + n)) + n + SIGNATURE_FEE + 0 = 0
    BY <1>0, <1>l, <1>escrow
  <2>3. -(SIGNATURE_FEE + n) \in Int /\ SIGNATURE_FEE \in Int
    BY <1>0
  <2>4. QED
    BY <1>t, <1>escrow, <2>1, <2>2, <2>3, BalancedIsConserved
<1>1. ASSUME NEW w \in Wallets, NEW bps \in FeeChoices, NEW t \in Treasuries,
             NEW p \in BOOLEAN, Initialize(w, bps, t, p)
      PROVE  ConservedInv'
  <2> DEFINE cost == SIGNATURE_FEE + CONFIG_RENT
  <2>1. /\ config = NoConfig /\ config' \in ProtocolConfig
        /\ lamports' = Debit(lamports, w, cost)
        /\ feesCollected' = feesCollected + SIGNATURE_FEE
        /\ usedHints' = usedHints /\ escrowLamports' = escrowLamports
    BY <1>0, <1>1, AmountsAreNaturals, WalletRoles
       DEF Initialize, ProtocolConfig, ValidFeeBps, CollectFee
  <2>2. Locked = 0 /\ Locked' = Locked + CONFIG_RENT
    BY <1>0, <2>1, NoConfigIsNoRecord DEF Locked
  <2>3. cost \in Nat /\ -cost \in Int /\ CONFIG_RENT \in Int /\ SIGNATURE_FEE \in Int
    BY <1>0
  <2>4. TotalOf(lamports') = TotalOf(lamports) - cost
    <3> HIDE DEF cost
    <3>1. QED
      BY <1>0, <2>1, <2>3, TotalAfterTransfer
  <2>5. TotalOf(lamports') = TotalOf(lamports) + (-cost)
    BY <1>t, <2>3, <2>4
  <2>6. TotalOf(escrowLamports') = TotalOf(escrowLamports) + 0
    BY <1>t, <2>1
  <2>7. (-cost) + 0 + SIGNATURE_FEE + CONFIG_RENT = 0
    BY <1>0
  <2> HIDE DEF cost
  <2>8. QED
    BY <1>t, <2>1, <2>2, <2>3, <2>5, <2>6, <2>7, BalancedIsConserved
<1>2. ASSUME NEW w \in Wallets, NEW bps \in FeeChoices, NEW t \in Treasuries,
             NEW p \in BOOLEAN, UpdateConfig(w, bps, t, p)
      PROVE  ConservedInv'
  <2>1. /\ config # NoConfig /\ config' \in ProtocolConfig
        /\ lamports' = Debit(lamports, w, SIGNATURE_FEE)
        /\ feesCollected' = feesCollected + SIGNATURE_FEE
        /\ usedHints' = usedHints /\ escrowLamports' = escrowLamports
    BY <1>0, <1>2, ReconfiguredFields, AmountsAreNaturals
       DEF UpdateConfig, TypeOK, ValidFeeBps, CollectFee
  <2>2. Locked' = Locked + 0
    BY <1>0, <2>1, NoConfigIsNoRecord DEF Locked
  <2>3. TotalOf(lamports') = TotalOf(lamports) + (-SIGNATURE_FEE)
    <3>1. TotalOf(lamports') = TotalOf(lamports) - SIGNATURE_FEE
      BY <1>0, <2>1, TotalAfterTransfer
    <3>2. QED
      BY <1>0, <1>t, <3>1
  <2>4. TotalOf(escrowLamports') = TotalOf(escrowLamports) + 0
    BY <1>t, <2>1
  <2>5. /\ -SIGNATURE_FEE \in Int /\ SIGNATURE_FEE \in Int
        /\ (-SIGNATURE_FEE) + 0 + SIGNATURE_FEE + 0 = 0
    BY <1>0
  <2>6. QED
    BY <1>t, <2>1, <2>2, <2>3, <2>4, <2>5, BalancedIsConserved
<1>3. ASSUME NEW s \in Searchers, EscrowInit(s) PROVE ConservedInv'
  <2>1. /\ lamports' = Debit(lamports, s, SIGNATURE_FEE + ESCROW_RENT)
        /\ escrowLamports' = Credit(escrowLamports, s, ESCROW_RENT)
        /\ feesCollected' = feesCollected + SIGNATURE_FEE
        /\ usedHints' = usedHints /\ config' = config
    BY <1>0, <1>3 DEF EscrowInit, CollectFee
  <2>2. s \in Wallets /\ SIGNATURE_FEE + ESCROW_RENT \in Nat
    BY <1>0
  <2>3. TotalOf(lamports') = TotalOf(lamports) - (SIGNATURE_FEE + ESCROW_RENT)
    BY <1>0, <2>1, <2>2, TotalAfterTransfer
  <2>4. TotalOf(escrowLamports') = TotalOf(escrowLamports) + ESCROW_RENT
    BY <1>0, <2>1, TotalAfterTransfer
  <2>5. QED
    BY <1>0, <1>escrow, <2>1, <2>3, <2>4
<1>4. ASSUME NEW s \in Searchers, NEW a \in Amounts, EscrowDeposit(s, a)
      PROVE  ConservedInv'
  <2>1. /\ lamports' = Debit(lamports, s, SIGNATURE_FEE + a)
        /\ escrowLamports' = Credit(escrowLamports, s, a)
        /\ feesCollected' = feesCollected + SIGNATURE_FEE
        /\ usedHints' = usedHints /\ config' = config
    BY <1>0, <1>4 DEF EscrowDeposit, CollectFee
  <2>2. s \in Wallets /\ a \in Nat /\ SIGNATURE_FEE + a \in Nat
    BY <1>0
  <2>3. TotalOf(lamports') = TotalOf(lamports) - (SIGNATURE_FEE + a)
    BY <1>0, <2>1, <2>2, TotalAfterTransfer
  <2>4. TotalOf(escrowLamports') = TotalOf(escrowLamports) + a
    BY <1>0, <2>1, <2>2, TotalAfterTransfer
  <2>5. QED
    BY <1>escrow, <2>1, <2>2, <2>3, <2>4
<1>5. ASSUME NEW s \in Searchers, NEW a \in Amounts, EscrowWithdraw(s, a)
      PROVE  ConservedInv'
  <2> DEFINE paid == Debit(lamports, s, SIGNATURE_FEE)
  <2>1. /\ lamports' = Credit(paid, s, a)
        /\ escrowLamports' = Debit(escrowLamports, s, a)
        /\ feesCollected' = feesCollected + SIGNATURE_FEE
        /\ usedHints' = usedHints /\ config' = config
    BY <1>0, <1>5 DEF EscrowWithdraw, CollectFee
  <2>2. s \in Wallets /\ a \in Nat /\ -a \in Int
    BY <1>0
  <2>3. paid \in [Wallets -> Int] /\ TotalOf(paid) = TotalOf(lamports) - SIGNATURE_FEE
    BY <1>0, <2>2, TotalAfterTransfer
  <2> HIDE DEF paid
  <2>4. TotalOf(lamports') = TotalOf(paid) + a
    BY <1>0, <2>1, <2>2, <2>3, TotalAfterTransfer
  <2>5. TotalOf(escrowLamports') = TotalOf(escrowLamports) - a
    BY <1>0, <2>1, <2>2, TotalAfterTransfer
  <2>6. /\ TotalOf(lamports') = TotalOf(lamports) - (SIGNATURE_FEE + (-a))
        /\ TotalOf(escrowLamports') = TotalOf(escrowLamports) + (-a)
    BY <1>0, <1>t, <2>2, <2>3, <2>4, <2>5
  <2>7. QED
    BY <1>escrow, <2>1, <2>2, <2>6
<1>6. ASSUME NEW r \in Relays, NEW s \in Searchers, NEW u \in Users,
             NEW t \in Treasuries, NEW h \in Hints, NEW b \in Bids, NEW e \in signed,
             SettleFromEscrow(r, s, u, t, h, b, e)
      PROVE  ConservedInv'
  BY <1>6, SettlementConserves
<1>7. ASSUME NEW w \in Wallets, NEW n \in {1, 2}, RejectedTransaction(w, n)
      PROVE  ConservedInv'
  <2>1. n * SIGNATURE_FEE \in Nat
    BY <1>0
  <2>2. QED
    BY <1>7, <1>fee, <2>1 DEF RejectedTransaction, CollectFee
<1>8. CASE UNCHANGED <<lamports, config, escrowLamports, usedHints, feesCollected>>
  BY <1>8 DEF ConservedInv, Supply, Locked
<1>9. ASSUME NEW s \in Searchers, NEW h \in Hints, NEW b \in Bids,
             SignBidCommitment(s, h, b)
      PROVE  UNCHANGED <<lamports, config, escrowLamports, usedHints, feesCollected>>
  BY <1>9 DEF SignBidCommitment
<1>10. CASE UNCHANGED vars
  BY <1>8, <1>10 DEF vars
<1>11. QED
  BY <1>1, <1>2, <1>3, <1>4, <1>5, <1>6, <1>7, <1>8, <1>9, <1>10 DEF Next

\* Lamports are conserved through every sequence of transactions, whichever wallets
\* a settlement's user, treasury and relay are, and however many wallets there are.
THEOREM LamportsConservedAlways == Spec => []LamportsConserved
<1>1. QED
  BY TypeCorrect, InitConserved, StepConserves, ConservedMeansConserved, PTL DEF Spec

-----------------------------------------------------------------------------
\* Three accounts are distinct when there are three of them.
LEMMA ThreeAreDistinct ==
    ASSUME NEW a, NEW b, NEW c, Cardinality({a, b, c}) = 3
    PROVE  a # b /\ a # c /\ b # c
<1>1. ASSUME NEW u, NEW v PROVE Cardinality({u, v}) # 3
  <2>1. IsFiniteSet({u}) /\ Cardinality({u}) = 1
    BY FS_Singleton
  <2>2. CASE u = v
    BY <2>1, <2>2
  <2>3. CASE u # v
    <3>1. Cardinality({u} \cup {v}) = Cardinality({u}) + 1
      BY <2>1, <2>3, FS_AddElement
    <3>2. {u} \cup {v} = {u, v}
      OBVIOUS
    <3> QED
      BY <2>1, <3>1, <3>2
  <2> QED
    BY <2>2, <2>3
<1>2. /\ a = b => {a, b, c} = {a, c}
      /\ a = c => {a, b, c} = {a, b}
      /\ b = c => {a, b, c} = {a, b}
  OBVIOUS
<1> QED
  BY <1>1, <1>2

\* What a settlement between three different wallets does to each account.
LEMMA SettlementChanges ==
    ASSUME IInv, NEW relay \in Relays, NEW searcher \in Searchers, NEW user \in Users,
           NEW treasury \in Treasuries, NEW hint \in Hints, NEW bid \in Bids,
           NEW ed25519 \in signed,
           SettleFromEscrow(relay, searcher, user, treasury, hint, bid, ed25519),
           relay # user, relay # treasury, user # treasury
    PROVE  LET fee == ProtocolFee(bid, config.protocol_fee_bps)
               share == UserShare(bid, config.protocol_fee_bps)
           IN  /\ lamports'[relay] = lamports[relay]
               /\ lamports'[user] = lamports[user] + share
               /\ lamports'[treasury] = lamports[treasury] + fee
               /\ escrowLamports'[searcher]
                    = escrowLamports[searcher] - (bid + HINT_RENT + TX_FEE_REIMBURSEMENT)
               /\ escrowLamports[searcher] > 0
<1> DEFINE fee == ProtocolFee(bid, config.protocol_fee_bps)
           share == UserShare(bid, config.protocol_fee_bps)
<1> USE DEF Credit, Debit
<1>1. /\ relay \in Wallets /\ user \in Wallets /\ treasury \in Wallets
      /\ lamports \in [Wallets -> Nat] /\ escrowLamports \in [Searchers -> Nat]
      /\ SIGNATURE_FEE \in Nat /\ HINT_RENT \in Nat /\ ESCROW_RENT \in Nat
  BY WalletRoles, AmountsAreNaturals DEF IInv, TypeOK
<1>2. bid \in Nat /\ fee \in Nat /\ share \in Nat
  BY SettlementRecordType DEF IInv
<1> HIDE DEF fee, share
<1>3. Reimbursement = 2 * SIGNATURE_FEE + HINT_RENT /\ Reimbursement \in Nat
      /\ TotalDebit(bid) = bid + HINT_RENT + TX_FEE_REIMBURSEMENT
  BY <1>1, <1>2, FeeCoversBothSignatures DEF Reimbursement, TotalDebit
<1>4. /\ lamports'[relay] = lamports[relay] - (2 * SIGNATURE_FEE + HINT_RENT) + Reimbursement
      /\ lamports'[user] = lamports[user] + share
      /\ lamports'[treasury] = lamports[treasury] + fee
  BY <1>1, <1>2, <1>3 DEF SettleFromEscrow, fee, share
<1>5. /\ escrowLamports'[searcher] = escrowLamports[searcher] - TotalDebit(bid)
      /\ escrowLamports[searcher] >= TotalDebit(bid) + ESCROW_RENT /\ bid > 0
  BY <1>1, <1>2, <1>3 DEF SettleFromEscrow, EscrowCovers
<1>6. escrowLamports[searcher] > 0
  BY <1>1, <1>2, <1>3, <1>5, FeeCoversBothSignatures
<1> QED
  BY <1>1, <1>3, <1>4, <1>5, <1>6 DEF fee, share

\* The operator's audit accepts every settlement it is made for: no account but
\* the winner's escrow loses, and nothing but the bid and the reimbursement.
THEOREM AuditAlwaysPasses == Spec => AuditPasses
<1>1. ASSUME IInv, [Next]_vars, NEW x \in settled' \ settled, Auditable(x)
      PROVE  Audit(x)
  <2>1. PICK r \in Relays, s \in Searchers, u \in Users, t \in Treasuries,
             h \in Hints, b \in Bids, e \in signed :
                SettleFromEscrow(r, s, u, t, h, b, e)
    BY <1>1, WhoWritesWhat DEF EscrowInit, EscrowDeposit, EscrowWithdraw
  <2> DEFINE fee == ProtocolFee(b, config.protocol_fee_bps)
             share == UserShare(b, config.protocol_fee_bps)
             taken == b + HINT_RENT + TX_FEE_REIMBURSEMENT
  <2>2. settled' = settled \cup
         {[hint |-> h, searcher |-> s, user |-> u, relay |-> r,
           treasury |-> t, bid_amount |-> b, user_cashback |-> share,
           protocol_fee |-> fee, bps |-> config.protocol_fee_bps]}
    BY <2>1 DEF SettleFromEscrow
  <2>3. /\ x.searcher = s /\ x.user = u /\ x.relay = r /\ x.treasury = t
        /\ x.bid_amount = b /\ x.user_cashback = share /\ x.protocol_fee = fee
        /\ x.bps = config.protocol_fee_bps
    <3> HIDE DEF share, fee
    <3> QED
      BY <1>1, <2>2
  <2>4. /\ r \in Wallets /\ u \in Wallets /\ t \in Wallets
        /\ Escrow \notin Wallets /\ UsedHint \notin Wallets /\ Escrow # UsedHint
    BY WalletRoles, AuditAssumption DEF Escrow, UsedHint
  <2>5. r # u /\ r # t /\ u # t
    BY <1>1, <2>3, ThreeAreDistinct DEF Auditable
  <2>6. /\ b \in Nat /\ fee \in Nat /\ share \in Nat
        /\ config.protocol_fee_bps = AuditedBps
        /\ fee > 0 /\ share > 0 /\ lamports[u] > 0 /\ lamports[t] > 0
    BY <1>1, <2>1, <2>3, SettlementRecordType DEF Auditable, IInv
  <2>7. /\ lamports'[r] = lamports[r] /\ lamports'[u] = lamports[u] + share
        /\ lamports'[t] = lamports[t] + fee
        /\ escrowLamports'[s] = escrowLamports[s] - taken
        /\ escrowLamports[s] > 0
    BY <1>1, <2>1, <2>5, SettlementChanges
  <2>8. /\ lamports \in [Wallets -> Nat] /\ escrowLamports[s] \in Nat
        /\ HINT_RENT \in Nat /\ taken \in Nat /\ taken > 0
    <3>1. b > 0
      BY <2>1 DEF SettleFromEscrow
    <3> QED
      BY <1>1, <2>6, <3>1, AmountsAreNaturals, FeeCoversBothSignatures DEF IInv, TypeOK
  <2>9. /\ fee = (b * AuditedBps) \div MAX_BPS /\ share = b - fee
    BY <2>6 DEF ProtocolFee, UserShare
  <2> HIDE DEF fee, share, taken
  <2>10. AccountKeys(x) = {r, u, t, Escrow, UsedHint}
    BY <2>3 DEF AccountKeys
  <2>11. /\ Pre(x)[r] = lamports[r] /\ Post(x)[r] = lamports'[r]
         /\ Pre(x)[u] = lamports[u] /\ Post(x)[u] = lamports'[u]
         /\ Pre(x)[t] = lamports[t] /\ Post(x)[t] = lamports'[t]
         /\ Pre(x)[Escrow] = escrowLamports[s] /\ Post(x)[Escrow] = escrowLamports'[s]
         /\ Pre(x)[UsedHint] = 0 /\ Post(x)[UsedHint] = HINT_RENT
    BY <2>3, <2>4, <2>10 DEF Pre, Post
  <2>12. /\ Changes(x)[r] = 0 /\ Changes(x)[u] = share /\ Changes(x)[t] = fee
         /\ Changes(x)[Escrow] = -taken /\ Changes(x)[UsedHint] = HINT_RENT
    <3>1. lamports[r] \in Nat /\ lamports[u] \in Nat /\ lamports[t] \in Nat
      BY <2>4, <2>8
    <3>2. \A a \in AccountKeys(x) : Changes(x)[a] = Post(x)[a] - Pre(x)[a]
      BY DEF Changes
    <3>3. /\ Changes(x)[r] = lamports[r] - lamports[r]
          /\ Changes(x)[u] = (lamports[u] + share) - lamports[u]
          /\ Changes(x)[t] = (lamports[t] + fee) - lamports[t]
          /\ Changes(x)[Escrow] = (escrowLamports[s] - taken) - escrowLamports[s]
          /\ Changes(x)[UsedHint] = HINT_RENT - 0
      BY <2>7, <2>10, <2>11, <3>2
    <3> QED
      BY <2>6, <2>8, <3>1, <3>3
  <2>13. Decreasing(x) = {Escrow}
    BY <2>3, <2>4, <2>6, <2>8, <2>10, <2>12 DEF Decreasing
  <2>14. u \in Increasing(x) /\ t \in Increasing(x)
    BY <2>3, <2>5, <2>6, <2>10, <2>12 DEF Increasing
  <2>15. \A fresh \in Fresh(x) : fresh = UsedHint
    BY <2>4, <2>6, <2>7, <2>8, <2>10, <2>11 DEF Fresh
  <2>16. -Changes(x)[Escrow] = b + HINT_RENT + TX_FEE_REIMBURSEMENT
    BY <2>8, <2>12 DEF taken
  <2> QED
    BY <2>3, <2>9, <2>10, <2>11, <2>12, <2>13, <2>14, <2>15, <2>16 DEF Audit
<1>2. IInv /\ [Next]_vars => [\A x \in settled' \ settled : Auditable(x) => Audit(x)]_vars
  BY <1>1
<1> QED
  BY <1>2, AlwaysIInv, PTL DEF Spec, AuditPasses
=============================================================================
