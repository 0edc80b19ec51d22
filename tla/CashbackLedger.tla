--------------------------- MODULE CashbackLedger ---------------------------
(***************************************************************************)
(* What the FlowBack program promises a searcher, with no wallet, account, *)
(* fee or pause in sight: money put in escrow leaves it only on the        *)
(* searcher's own withdrawal or to honour one bid commitment the searcher  *)
(* signed, and at most one commitment is honoured for any auction hint.    *)
(***************************************************************************)
EXTENDS Naturals

CONSTANTS
    Searchers,      \* the searchers that may hold an escrow
    Hints,          \* auction hint ids
    Bids,           \* bid amounts a commitment may name
    Reimbursement   \* what a settlement returns to the relay on top of the bid

Commitments == [searcher : Searchers, hint : Hints, bid : Bids]

VARIABLES
    available,  \* withdrawable lamports of each searcher's escrow
    promised,   \* bid commitments signed so far
    honoured    \* bid commitments paid so far

Init ==
    /\ available = [s \in Searchers |-> 0]
    /\ promised = {}
    /\ honoured = {}

Promise(c) ==
    /\ promised' = promised \cup {c}
    /\ UNCHANGED <<available, honoured>>

Deposit(s) ==
    /\ available'[s] \in Nat /\ available'[s] > available[s]
    /\ available' = [available EXCEPT ![s] = available'[s]]
    /\ UNCHANGED <<promised, honoured>>

Withdraw(s) ==
    /\ available'[s] \in Nat /\ available'[s] < available[s]
    /\ available' = [available EXCEPT ![s] = available'[s]]
    /\ UNCHANGED <<promised, honoured>>

Honour(c) ==
    /\ c \in promised
    /\ \A d \in honoured : d.hint # c.hint
    /\ available[c.searcher] >= c.bid + Reimbursement
    /\ available' = [available EXCEPT ![c.searcher] = @ - (c.bid + Reimbursement)]
    /\ honoured' = honoured \cup {c}
    /\ UNCHANGED promised

Next ==
    \/ \E c \in Commitments : Promise(c) \/ Honour(c)
    \/ \E s \in Searchers : Deposit(s) \/ Withdraw(s)

Spec == Init /\ [][Next]_<<available, promised, honoured>>
=============================================================================
