--------------------------- MODULE MCSwapPipeline ---------------------------
(***************************************************************************)
(* SwapPipeline on small order books.                                      *)
(***************************************************************************)
EXTENDS SwapPipeline, TLC

CONSTANTS s1, s2

Bid(s, n) == [searcher |-> s, bid |-> n]

\* No bid, one bid, or more bids than candidates, one searcher bidding twice.
MCLongBooks == {<<>>, <<Bid(s1, 2)>>, <<Bid(s1, 2), Bid(s2, 2), Bid(s1, 1), Bid(s2, 1)>>}

=============================================================================
