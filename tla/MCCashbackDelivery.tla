------------------------- MODULE MCCashbackDelivery -------------------------
(***************************************************************************)
(* CashbackDelivery for two auctions, with one user each or a common one.  *)
(***************************************************************************)
EXTENDS CashbackDelivery, TLC

CONSTANTS s1, s2, user

Bid(s, n) == [searcher |-> s, bid |-> n]

\* Nobody bids, two searchers compete, or one bids the same amount twice.
MCBooks == {<<>>, <<Bid(s1, 2), Bid(s2, 1)>>, <<Bid(s1, 2), Bid(s1, 2)>>}
MCSingleBook == {<<>>, <<Bid(s1, 2)>>}

OwnUser == [h \in Hints |-> h]
CommonUser == [h \in Hints |-> user]

HintSymmetry == Permutations(Hints)
=============================================================================
