-------------------------- MODULE SettlementAudit ---------------------------
(***************************************************************************)
(* scripts/verify-reimbursement.ts: the operator's audit of a settlement,  *)
(* from the balances before and after its transaction.                     *)
(***************************************************************************)
EXTENDS FlowbackProgram, Integers

CONSTANTS AuditedBps    \* PROTOCOL_FEE_BPS of the script

\* The accounts of the transaction whose balance it can change; those the
\* program owns are no wallets.
Escrow == "escrow"
UsedHint == "usedHint"

ASSUME AuditAssumption ==
    /\ AuditedBps \in 0..MAX_BPS
    /\ Escrow \notin Wallets /\ UsedHint \notin Wallets

AccountKeys(x) == {x.relay, x.user, x.treasury, Escrow, UsedHint}

\* meta.preBalances.
Pre(x) ==
    [a \in AccountKeys(x) |->
        CASE a = Escrow -> escrowLamports[x.searcher]
          [] a = UsedHint -> 0
          [] OTHER -> lamports[a]]

\* meta.postBalances.
Post(x) ==
    [a \in AccountKeys(x) |->
        CASE a = Escrow -> escrowLamports'[x.searcher]
          [] a = UsedHint -> HINT_RENT
          [] OTHER -> lamports'[a]]

Changes(x) == [a \in AccountKeys(x) |-> Post(x)[a] - Pre(x)[a]]

Decreasing(x) == {a \in AccountKeys(x) \ {x.relay} : Changes(x)[a] < 0}
Increasing(x) == {a \in AccountKeys(x) \ {x.relay} : Changes(x)[a] > 0}

\* Accounts the transaction created, as far as the balances tell.
Fresh(x) == {a \in AccountKeys(x) : Pre(x)[a] = 0 /\ Post(x)[a] > 0}

\* The audit prints no failed line, told the bid; it takes any fresh account
\* for the UsedHint, and the first one there is.
Audit(x) ==
    LET expectedFee == (x.bid_amount * AuditedBps) \div MAX_BPS
        expectedUser == x.bid_amount - expectedFee
    IN  /\ Changes(x)[x.relay] = 0
        /\ \E escrow \in AccountKeys(x) :
            /\ Decreasing(x) = {escrow}
            /\ \A fresh \in Fresh(x) :
                -Changes(x)[escrow] = x.bid_amount + Post(x)[fresh] + TX_FEE_REIMBURSEMENT
        /\ \E a \in Increasing(x) : Changes(x)[a] = expectedUser
        /\ \E a \in Increasing(x) : Changes(x)[a] = expectedFee

\* What the audit presumes and does not test: the fee it was written for, none
\* of the parts of the bid rounded to nothing, three different wallets, and
\* two of them in use before.
Auditable(x) ==
    /\ x.bps = AuditedBps
    /\ x.user_cashback > 0 /\ x.protocol_fee > 0
    /\ Cardinality({x.relay, x.user, x.treasury}) = 3
    /\ lamports[x.user] > 0 /\ lamports[x.treasury] > 0

\* A settlement touches nothing but what it should: the relay ends where it
\* began, the winner's escrow alone is debited, by the bid, the marker's rent
\* and the fees, and user and treasury receive exactly their parts.
AuditPasses == [][\A x \in settled' \ settled : Auditable(x) => Audit(x)]_vars
=============================================================================
