--------------------------- MODULE AuctionManager ---------------------------
(***************************************************************************)
(* AuctionManager (auction/manager.ts): sealed-bid auctions, each open for *)
(* one window, whose bids are sorted and handed to the waiting             *)
(* finalizeAuction when the window closes.  All methods are synchronous,   *)
(* so each is one step; who calls them when is the matter of the modules   *)
(* that use this one.                                                      *)
(***************************************************************************)
EXTENDS Integers, Sequences, FiniteSets

CONSTANT Hints

VARIABLES
    auction,    \* "none" before startAuction, "open", "gone" once resolved
    book,       \* the bids pushed so far, in order
    resolved    \* what the promise of startAuction resolved with

manager == <<auction, book, resolved>>

Unresolved == [open |-> TRUE]

ManagerInit ==
    /\ auction = [h \in Hints |-> "none"]
    /\ book = [h \in Hints |-> <<>>]
    /\ resolved = [h \in Hints |-> Unresolved]

AmountOnly(b, c) == b.bid > c.bid

\* The comparator of closeAuction: the higher bid, then the earlier one.
Better(b, c) ==
    b.bid > c.bid \/ (b.bid = c.bid /\ b.receivedAt < c.receivedAt)

\* Array.prototype.sort is stable: equal bids keep the order they came in.
Before(bids, i, j) ==
    Better(bids[i], bids[j]) \/ (~Better(bids[j], bids[i]) /\ i < j)

Position(bids, i) == 1 + Cardinality({j \in DOMAIN bids : Before(bids, j, i)})

Sorted(bids) ==
    [p \in DOMAIN bids |-> bids[CHOOSE i \in DOMAIN bids : Position(bids, i) = p]]

StartAuction(h) ==
    /\ auction[h] = "none"
    /\ auction' = [auction EXCEPT ![h] = "open"]
    /\ UNCHANGED <<book, resolved>>

\* submitBid throws unless the auction is there and open.
AcceptsAnyBid(h) == TRUE

AcceptsBids(h) == auction[h] = "open"

SubmitBid(h, bid) ==
    /\ AcceptsBids(h)
    /\ book' = [book EXCEPT ![h] = Append(@, bid)]
    /\ UNCHANGED <<auction, resolved>>

CloseAuction(h) ==
    /\ auction[h] = "open"
    /\ auction' = [auction EXCEPT ![h] = "gone"]
    /\ resolved' = [resolved EXCEPT ![h] = Sorted(book[h])]
    /\ UNCHANGED book
=============================================================================
