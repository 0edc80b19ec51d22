---------------------------- MODULE MCWebClient ----------------------------
(* Swaps of a few raw units: SOL with two decimals, USDC with one. *)
EXTENDS WebClient, TLC

CONSTANTS w1, w2, p1, p2, p3, laptop, phone, ann, bad

\* Two pages in one browser, one in another; an address with two spellings,
\* and a text that is none.
MCBrowserOf == p1 :> laptop @@ p2 :> laptop @@ p3 :> phone
MCAddressOf == [ann |-> ann, Ann |-> ann, bad |-> bad]

MCDecimals == [SOL |-> 2, USDC |-> 1]
MCDisplayDecimals == [SOL |-> 1, USDC |-> 0]

MCHoldings == [SOL |-> {103}, USDC |-> {3}]

\* One bucket of one pair has a history, of an even number of bids.
MCWonBids ==
    [t \in Tokens |-> [b \in {"small", "medium", "large", "whale"} |->
        IF t = "SOL" /\ b = "medium" THEN <<NoBid, 4, 2, 9>> ELSE <<>>]]
MCBucketRanges == [b \in {"small", "medium", "large", "whale"} |-> {7}]

Env(jupiter, jito, cashback, limited, fork) ==
    [mockJupiter |-> jupiter, mockJito |-> jito, mockCashback |-> cashback,
     limited |-> limited, fork |-> fork]

\* Production, a mainnet fork, and all mocks.
MCEnvironments ==
    {Env(FALSE, FALSE, FALSE, TRUE, FALSE), Env(FALSE, TRUE, FALSE, FALSE, TRUE),
     Env(TRUE, TRUE, TRUE, FALSE, FALSE)}
=============================================================================
