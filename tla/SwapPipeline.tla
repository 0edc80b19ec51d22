---------------------------- MODULE SwapPipeline ----------------------------
(***************************************************************************)
(* The relay's life of a swap after its auction closes: finalizeAuction    *)
(* (services/intent.service.ts) drives orchestrateSwap                     *)
(* (bundle/orchestrator.ts), which walks the best bids, hands one bundle   *)
(* at a time to the Jito block engine and waits on the result stream       *)
(* (bundle/submitter.ts); the verdict goes to the searchers, to the user   *)
(* and to the auctions table.                                              *)
(*                                                                         *)
(* Every await is a step boundary: several auctions run at once, a bundle  *)
(* may land before the relay hears it was accepted, results may be lost or *)
(* come after the 30 s deadline, a searcher may empty its escrow, and the  *)
(* relay may restart.  The chain is the abstract CashbackLedger, which the *)
(* FlowBack program implements (module FlowbackProgramProofs).             *)
(*                                                                         *)
(* MOCK_JITO is off: the mock submits the four transactions one by one and *)
(* reports every bundle landed.                                            *)
(***************************************************************************)
EXTENDS Integers, Sequences

CONSTANTS
    Searchers, Hints, Bids, Reimbursement,  \* as in CashbackLedger
    BidLists,       \* closed order books: sequences of bids, best first
    InitialEscrow,  \* what each searcher has deposited
    MaxCandidates,  \* DEFAULT_MAX_CANDIDATES
    MaxRestarts,    \* bound on relay restarts
    Lossy,          \* whether the result stream may drop messages
    Forks           \* whether a processed block may still be abandoned

BidRecords == [searcher : Searchers, bid : Bids]

ASSUME PipelineAssumption ==
    /\ Bids \subseteq Nat \ {0} /\ Reimbursement \in Nat /\ InitialEscrow \in Nat
    /\ MaxCandidates \in Nat \ {0} /\ MaxRestarts \in Nat
    /\ Lossy \in BOOLEAN /\ Forks \in BOOLEAN
    /\ BidLists \subseteq Seq(BidRecords)

VARIABLES
    pc,         \* where finalizeAuction stands for each hint
    bids,       \* the order book AuctionManager resolved the auction with
    attempt,    \* candidate in hand, counted from 1
    verdict,    \* OrchestrateResult: its status and the winning candidate (0: none)
    told,       \* hints whose bidders were sent an auction_result
    events,     \* status events emitted to the user of each hint
    rows,       \* the auctions table
    resolvers,  \* pendingByBundleId: bundles somebody waits for
    bundle,     \* block engine: state of each bundle handed over
    results,    \* block engine: results on their way to the relay, in order
    available, promised, honoured,  \* the chain, see CashbackLedger
    restarts

relay == <<pc, bids, attempt, verdict, told, events, rows, resolvers>>
engine == <<bundle, results>>
chain == <<available, promised, honoured>>
vars == <<relay, engine, chain, restarts>>

Ledger == INSTANCE CashbackLedger

Attempts == 1..MaxCandidates
Bundles == Hints \X Attempts

NoVerdict == [status |-> "none", winner |-> 0]
Verdict(status, winner) == [status |-> status, winner |-> winner]
NoRow == [status |-> "none", winner |-> 0]

\* The candidates orchestrateSwap considers: bids.slice(0, maxCandidates).
Candidates(h) == {i \in Attempts : i <= Len(bids[h])}

\* What the settle transaction of a bundle collects on the chain.
Commitment(b) ==
    LET won == bids[b[1]][b[2]]
    IN  [searcher |-> won.searcher, hint |-> b[1], bid |-> won.bid]

Refused == {"rejected", "dropped"}

Init ==
    /\ pc = [h \in Hints |-> "open"]
    /\ bids = [h \in Hints |-> <<>>]
    /\ attempt = [h \in Hints |-> 0]
    /\ verdict = [h \in Hints |-> NoVerdict]
    /\ told = {}
    /\ events = [h \in Hints |-> {}]
    /\ rows = [h \in Hints |-> NoRow]
    /\ resolvers = {}
    /\ bundle = [b \in Bundles |-> "unsent"]
    /\ results = <<>>
    /\ available = [s \in Searchers |-> InitialEscrow]
    /\ promised = {}
    /\ honoured = {}
    /\ restarts = 0

----------------------------------------------------------------------------
(* The relay *)

\* toAuctionStatus.
AuctionStatus(status, totalBids) ==
    CASE status = "landed" -> "won"
      [] status = "fallback" -> IF totalBids = 0 THEN "no_bids" ELSE "fallback"
      [] OTHER -> "failed"

\* What finalizeAuction tells the user when orchestration is over; a landed
\* bundle is announced by the indexer instead.
FinalEvents(status) ==
    CASE status = "landed" -> {}
      [] status = "fallback" -> {"fallback_executed"}
      [] OTHER -> {"auction_failed"}

\* orchestrateSwap returned (or threw: status "error"): finalizeAuction runs
\* on to the insert of persistAuction without yielding.
Conclude(h, v) ==
    /\ verdict' = [verdict EXCEPT ![h] = v]
    /\ told' = IF v.status = "error" THEN told ELSE told \cup {h}
    /\ events' = [events EXCEPT ![h] = @ \cup FinalEvents(v.status)]
    /\ pc' = [pc EXCEPT ![h] = "persisting"]

NextCandidateOrFallback(h) ==
    \/ /\ attempt[h] + 1 \in Candidates(h)
       /\ attempt' = [attempt EXCEPT ![h] = @ + 1]
       /\ pc' = [pc EXCEPT ![h] = "building"]
       /\ UNCHANGED <<verdict, told, events>>
    \/ /\ attempt[h] + 1 \notin Candidates(h)
       /\ pc' = [pc EXCEPT ![h] = "fallback"]
       /\ UNCHANGED <<attempt, verdict, told, events>>

\* The candidate in hand is out: on to the next one, or give up.
NextCandidate(h) ==
    \/ /\ attempt[h] + 1 \in Candidates(h)
       /\ attempt' = [attempt EXCEPT ![h] = @ + 1]
       /\ pc' = [pc EXCEPT ![h] = "building"]
       /\ UNCHANGED <<verdict, told, events>>
    \/ /\ attempt[h] + 1 \notin Candidates(h)
       /\ Conclude(h, Verdict("no_valid_winner", 0))
       /\ UNCHANGED attempt

\* The auction's timer fires and its promise resolves with the sorted bids;
\* each carries a commitment its searcher signed.
CloseAuction(h) ==
    /\ pc[h] = "open"
    /\ \E book \in BidLists :
        /\ bids' = [bids EXCEPT ![h] = book]
        /\ promised' = promised \cup
            {[searcher |-> book[i].searcher, hint |-> h, bid |-> book[i].bid] :
                i \in DOMAIN book}
        /\ IF book = <<>>
           THEN pc' = [pc EXCEPT ![h] = "fallback"] /\ UNCHANGED attempt
           ELSE /\ pc' = [pc EXCEPT ![h] = "building"]
                /\ attempt' = [attempt EXCEPT ![h] = 1]
    /\ UNCHANGED <<verdict, told, events, rows, resolvers, engine, available,
                   honoured, restarts>>

\* executeFallbackSwap: the RPC node takes the user's transaction or throws.
FallbackSwap(h) ==
    /\ pc[h] = "fallback"
    /\ \E status \in {"fallback", "error"} : Conclude(h, Verdict(status, 0))
    /\ UNCHANGED <<bids, attempt, rows, resolvers, engine, chain, restarts>>

\* buildJitoBundle throws a BundleValidationError: tier-2 simulation failed or
\* timed out, or the settle transaction could not be built.
SkipCandidate(h) ==
    /\ pc[h] = "building"
    /\ NextCandidate(h)
    /\ UNCHANGED <<bids, rows, resolvers, engine, chain, restarts>>

\* The bundle is built and sendBundle is under way.
SubmitBundle(h) ==
    /\ pc[h] = "building"
    /\ pc' = [pc EXCEPT ![h] = "submitting"]
    /\ bundle' = [bundle EXCEPT ![<<h, attempt[h]>>] = "sent"]
    /\ UNCHANGED <<bids, attempt, verdict, told, events, rows, resolvers,
                   results, chain, restarts>>

\* sendBundle returns the UUID: emit bundle_submitted, then wait for a result.
SendBundleReturns(h) ==
    /\ pc[h] = "submitting"
    /\ bundle[<<h, attempt[h]>>] # "sent"
    /\ pc' = [pc EXCEPT ![h] = "waiting"]
    /\ events' = [events EXCEPT ![h] = @ \cup {"bundle_submitted"}]
    /\ resolvers' = resolvers \cup {<<h, attempt[h]>>}
    /\ UNCHANGED <<bids, attempt, verdict, told, rows, engine, chain, restarts>>

\* sendBundle fails, whether or not the engine got the bundle.
SendBundleThrows(h) ==
    /\ pc[h] = "submitting"
    /\ Conclude(h, Verdict("error", 0))
    /\ UNCHANGED <<bids, attempt, rows, resolvers, engine, chain, restarts>>

OutcomeAcceptedLands(state) ==
    CASE state \in {"accepted", "processed", "finalized"} -> "landed"
      [] OTHER -> "failed"

OutcomeAcceptedFails(state) ==
    IF state \in {"processed", "finalized"} THEN "landed" ELSE "failed"

\* handleBundleResult: how a result resolves the wait, if it does.
Outcome(state) ==
    CASE state \in {"processed", "finalized"} -> "landed"
      [] state \in Refused -> "failed"
      [] OTHER -> "waiting"

HandleBundleResult ==
    /\ results # <<>>
    /\ results' = Tail(results)
    /\ LET b == Head(results).bundle
           outcome == Outcome(Head(results).state)
       IN  \/ /\ b \notin resolvers \/ outcome = "waiting"
              /\ UNCHANGED relay
           \/ /\ b \in resolvers /\ outcome = "landed"
              /\ resolvers' = resolvers \ {b}
              /\ Conclude(b[1], Verdict("landed", b[2]))
              /\ UNCHANGED <<bids, attempt, rows>>
           \/ /\ b \in resolvers /\ outcome = "failed"
              /\ resolvers' = resolvers \ {b}
              /\ NextCandidate(b[1])
              /\ UNCHANGED <<bids, rows>>
    /\ UNCHANGED <<bundle, chain, restarts>>

AfterTimeoutNextCandidate(h) == NextCandidate(h)

AfterTimeoutNoWinner(h) ==
    /\ Conclude(h, Verdict("timeout", 0))
    /\ UNCHANGED attempt

\* What a result wait that ran out of time leads to.
AfterTimeout(h) ==
    /\ Conclude(h, Verdict("timeout", attempt[h]))
    /\ UNCHANGED attempt

NoResultTimeout(h) == FALSE /\ UNCHANGED vars

ResultTimeoutKeepsResolver(h) ==
    /\ pc[h] = "waiting"
    /\ AfterTimeout(h)
    /\ UNCHANGED <<bids, rows, resolvers, engine, chain, restarts>>

\* WAIT_TIMEOUT_MS passed without a terminal result.
ResultTimeout(h) ==
    /\ pc[h] = "waiting"
    /\ resolvers' = resolvers \ {<<h, attempt[h]>>}
    /\ AfterTimeout(h)
    /\ UNCHANGED <<bids, rows, engine, chain, restarts>>

\* persistAuction: the insert succeeds or its error is logged.
PersistAuction(h) ==
    /\ pc[h] = "persisting"
    /\ pc' = [pc EXCEPT ![h] = "done"]
    /\ \/ rows' = [rows EXCEPT ![h] =
            [status |-> AuctionStatus(verdict[h].status, Len(bids[h])),
             winner |-> verdict[h].winner]]
       \/ UNCHANGED rows
    /\ UNCHANGED <<bids, attempt, verdict, told, events, resolvers, engine,
                   chain, restarts>>

\* The process restarts: every auction under way is forgotten.
Restart ==
    /\ restarts < MaxRestarts
    /\ restarts' = restarts + 1
    /\ pc' = [h \in Hints |-> IF pc[h] \in {"open", "done"} THEN pc[h] ELSE "lost"]
    /\ resolvers' = {}
    /\ results' = <<>>
    /\ UNCHANGED <<bids, attempt, verdict, told, events, rows, bundle, chain>>

----------------------------------------------------------------------------
(* The block engine, the validators and the searchers *)

Publish(b, state) ==
    /\ bundle' = [bundle EXCEPT ![b] = state]
    /\ results' = Append(results, [bundle |-> b, state |-> state])

AcceptBundle(b) ==
    /\ bundle[b] = "sent"
    /\ Publish(b, "accepted")
    /\ UNCHANGED <<relay, chain, restarts>>

\* Rejected by the engine, or dropped once its blockhash has expired.
RefuseBundle(b) ==
    /\ \/ bundle[b] = "sent" /\ Publish(b, "rejected")
       \/ bundle[b] = "accepted" /\ Publish(b, "dropped")
    /\ UNCHANGED <<relay, chain, restarts>>

\* A bundle lands as a whole, so only if its settlement succeeds.
LandBundle(b) ==
    /\ bundle[b] = "accepted"
    /\ Ledger!Honour(Commitment(b))
    /\ Publish(b, "processed")
    /\ UNCHANGED <<relay, restarts>>

FinalizeBundle(b) ==
    /\ bundle[b] = "processed"
    /\ Publish(b, "finalized")
    /\ UNCHANGED <<relay, chain, restarts>>

\* The fork holding the bundle is abandoned and its effects with it.
AbandonFork(b) ==
    /\ Forks
    /\ bundle[b] = "processed"
    /\ Publish(b, "dropped")
    /\ honoured' = honoured \ {Commitment(b)}
    /\ available' = [available EXCEPT
            ![Commitment(b).searcher] = @ + Commitment(b).bid + Reimbursement]
    /\ UNCHANGED <<relay, promised, restarts>>

LoseResult ==
    /\ Lossy
    /\ results # <<>>
    /\ results' = Tail(results)
    /\ UNCHANGED <<relay, bundle, chain, restarts>>

\* A searcher empties its escrow, whatever it has promised.
WithdrawEscrow(s) ==
    /\ available[s] > 0
    /\ available' = [available EXCEPT ![s] = 0]
    /\ UNCHANGED <<relay, engine, promised, honoured, restarts>>

----------------------------------------------------------------------------
Relay(h) ==
    \/ CloseAuction(h) \/ FallbackSwap(h) \/ SkipCandidate(h) \/ SubmitBundle(h)
    \/ SendBundleReturns(h) \/ SendBundleThrows(h) \/ ResultTimeout(h)
    \/ PersistAuction(h)

Engine(b) ==
    AcceptBundle(b) \/ RefuseBundle(b) \/ LandBundle(b) \/ FinalizeBundle(b) \/ AbandonFork(b)

Next ==
    \/ \E h \in Hints : Relay(h)
    \/ HandleBundleResult
    \/ Restart
    \/ \E b \in Bundles : Engine(b)
    \/ LoseResult
    \/ \E s \in Searchers : WithdrawEscrow(s)

Spec == Init /\ [][Next]_vars

\* The relay's own steps are taken when they can be: the event loop runs every
\* continuation, timers fire, and each awaited call returns or throws.
Fairness == \A h \in Hints : WF_vars(Relay(h))

FairSpec == Spec /\ Fairness

----------------------------------------------------------------------------
(* Properties *)

BundleStates == {"unsent", "sent", "accepted", "processed", "finalized"} \cup Refused

\* Type correctness of the pipeline: what each table of the relay, the block
\* engine and the chain may hold.
TypeOK ==
    /\ pc \in [Hints -> {"open", "fallback", "building", "submitting", "waiting",
                         "persisting", "done", "lost"}]
    /\ bids \in [Hints -> Seq(BidRecords)]
    /\ attempt \in [Hints -> 0..MaxCandidates]
    /\ verdict \in [Hints -> [status : {"none", "landed", "timeout", "fallback",
                              "no_valid_winner", "error"}, winner : 0..MaxCandidates]]
    /\ told \subseteq Hints
    /\ events \in [Hints -> SUBSET {"bundle_submitted", "fallback_executed", "auction_failed"}]
    /\ rows \in [Hints -> [status : {"none", "won", "no_bids", "fallback", "failed"},
                           winner : 0..MaxCandidates]]
    /\ resolvers \subseteq Bundles
    /\ bundle \in [Bundles -> BundleStates]
    /\ results \in Seq([bundle : Bundles, state : BundleStates])
    /\ available \in [Searchers -> Nat]
    /\ promised \subseteq Ledger!Commitments
    /\ honoured \subseteq promised
    /\ restarts \in 0..MaxRestarts

\* orchestrateSwap turns to a lower bid only when every higher one was skipped
\* or refused by the block engine: at no time can two bundles of one swap land.
\* The state is well typed throughout.
BetterBidsRefusedFirst ==
    /\ TypeOK
    /\ \A h \in Hints : \A i, j \in Attempts :
          j < i /\ bundle[<<h, i>>] # "unsent"
              => bundle[<<h, j>>] \in {"unsent"} \cup Refused

\* A row "won" (toAuctionStatus of "landed // bundle confirmed on-chain",
\* bundle/orchestrator.ts:23) names the bid the chain collected, whatever the
\* order of landing, results and persistence.  Holds only while no processed
\* block is abandoned.
WonMeansSettled ==
    \A h \in Hints : rows[h].status = "won" =>
        /\ rows[h].winner \in Candidates(h)
        /\ Commitment(<<h, rows[h].winner>>) \in honoured

\* Once the bidders are told that nobody won, no bundle of the swap can land any
\* more: neither the user nor a searcher is charged for it afterwards.
NoWinnerIsFinal ==
    \A h \in Hints : h \in told /\ verdict[h].winner = 0 =>
        \A i \in Attempts : bundle[<<h, i>>] \in {"unsent"} \cup Refused

\* A settlement on the chain is one the relay submitted and did not see refused:
\* it is either still being waited for, reported landed or timed out with that
\* candidate as the winner, or lost to an error or a restart.
SettlementIsReported ==
    \A h \in Hints : \A i \in Attempts :
        bundle[<<h, i>>] \in {"processed", "finalized"} =>
            \/ attempt[h] = i /\ pc[h] \in {"submitting", "waiting", "lost"}
            \/ verdict[h].winner = i
            \/ verdict[h].status = "error"

\* A verdict is given once, and no bundle of the auction is sent after it.
VerdictStands ==
    [][\A h \in Hints : verdict[h] # NoVerdict =>
        /\ verdict'[h] = verdict[h]
        /\ \A i \in Attempts : bundle[<<h, i>>] = "unsent" => bundle'[<<h, i>>] = "unsent"]_vars

\* Every auction that closes is concluded: the wait for a result is bounded and
\* finalizeAuction always reaches persistAuction, unless the relay restarts.
AuctionConcludes ==
    \A h \in Hints : pc[h] # "open" ~> pc[h] \in {"done", "lost"}
=============================================================================
