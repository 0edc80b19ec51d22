---------------------------- MODULE AuctionEvents ----------------------------
(***************************************************************************)
(* What the user of an auction may be told about it, and in which order:   *)
(* the promise the relay (CashbackDelivery) keeps and the swap card        *)
(* (SwapSession) is written against.  Types as in ws/user.ts.              *)
(***************************************************************************)
CONSTANT Auctions

VARIABLE emitted    \* the kinds of event emitted for each auction so far

EventTypes ==
    {"bundle_submitted", "cashback_confirmed", "fallback_executed", "auction_failed"}

\* A fallback is all there is to an auction without bids.  A failure ends the
\* submission of bundles, but cashback may come before it, when the settlement
\* outran its result, or after it, when the bundle landed late.
MayEmit(h, type) ==
    CASE type = "bundle_submitted" ->
            emitted[h] \cap {"fallback_executed", "auction_failed"} = {}
      [] type = "fallback_executed" -> emitted[h] = {}
      [] type = "auction_failed" ->
            emitted[h] \cap {"fallback_executed", "auction_failed"} = {}
      [] type = "cashback_confirmed" ->
            emitted[h] \cap {"fallback_executed", "cashback_confirmed"} = {}

EventsInit == emitted = [h \in Auctions |-> {}]

Emit(h, type) ==
    /\ MayEmit(h, type)
    /\ emitted' = [emitted EXCEPT ![h] = @ \cup {type}]

EventsNext == \E h \in Auctions, type \in EventTypes : Emit(h, type)

EventsSpec == EventsInit /\ [][EventsNext]_emitted
=============================================================================
