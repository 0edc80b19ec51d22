# FlowBack: TLA+ models and proofs

FlowBack returns MEV to the users whose swaps create it.  A user's swap intent
reaches a relay, the relay auctions the right to back-run it, the winning
searcher's bundle is sent to Jito, and an on-chain program moves the winning bid
out of the searcher's escrow to the user.  This directory holds TLA+ models of
that system, translated from its source, the TLC configurations that check them,
and TLAPS proofs of the safety properties they show to hold.

## 1. Inventory

| Component | Source | State it keeps | Operations |
|---|---|---|---|
| On-chain program | `anchor/flowback/programs/flowback/src` | `ProtocolConfig`, one `SearcherEscrow` per searcher, one `UsedHint` per settled hint, wallet balances | `initialize`, `update_config`, `escrow_init`, `escrow_deposit`, `escrow_withdraw`, `settle_from_escrow` |
| Auction manager | `relay/src/auction` | open auctions and their bids, a window timer each | start, submit bid, close |
| Searcher gateway | `relay/src/ws/searcher.ts` | registry of the live session of each searcher, per-socket auth data | auth, bid, broadcast, result, close |
| Intent service | `relay/src/services/intent.service.ts`, `prepare.service.ts`, `prepare-store.ts` | one-shot prepared swaps with a TTL | prepare, submit intent, finalize, persist |
| Orchestrator and bundle submitter | `relay/src/bundle` | candidates, in-flight bundles, pending result resolvers | build, submit, poll, stream results, fall back |
| Cashback indexer | `relay/src/indexer/cashback.ts`, `services/pending-cashback.ts` | subscription, pending cashback entries, `cashback_events` rows | reconnect loop, handle event, register, take, expire |
| Event streams | `relay/src/geyser` | push/pull queue with waiters, the stream or timers that feed it | subscribe, push, end, fail, next, return, abort |
| User status gateway | `relay/src/ws/user.ts` | per-hint event buffers, subscribers | subscribe, unsubscribe, emit, expire |
| Quotes and estimates | `relay/src/services/quote.service.ts`, `rate-limit.ts` | none of its own; reads `auctions` | quote, estimate, refuse |
| Waitlist | `relay/src/services/waitlist.service.ts`, `client/.../hero.tsx` | `waitlist_signups`, each browser's storage | look up, insert, update, show |
| History | `relay/src/services/history.service.ts` | none | paged read |
| Searcher SDK | `sdk/src` | one WebSocket, pending bid acks, reconnect counter | connect, auth, bid, disconnect, reconnect |
| Web client | `client/src` | the form with its quote, balances and pending flip; the swap under way, auction watch, status timeout, toasts | swap card actions, effects and timers |
| Relay HTTP layer, database, Jupiter client | `relay/src/index.ts`, `controllers`, `db`, `jupiter` | tables, connections | routes, queries, quotes |
| Bots and scripts | `seed-bot`, `scripts` | the escrow and wallet on chain | fund and connect a searcher, audit a settlement, drive a demonstration |
| Documentation site | `docs` | none | none |

### How the parts interact

1. The swap card asks the relay to *prepare* a transaction; the relay keeps the
   prepared swap for a while under a `prepareId`.  The user signs and the card
   *submits the intent*, which takes the prepared swap, once, and starts an
   auction.  The card then watches the auction over a status socket.
2. Starting an auction *broadcasts a hint* to the registered searchers.  The SDK
   answers with *bids*; each carries a commitment signed for one hint and one
   amount.  The window's timer closes the auction and hands the sorted book to
   `finalizeAuction`, which has been waiting for it.
3. `finalizeAuction` has the *orchestrator* try the best bids, one bundle at a
   time.  Just before a bundle is sent its settlement is *registered* in the
   pending-cashback registry.  The verdict goes to the searchers
   (`auction_result`), the user (status events) and the `auctions` table.
4. The bundle's settle transaction runs the *program*, whose `CashbackSettled` log
   reaches the *indexer* through the geyser stream, independently of step 3.  The
   indexer takes the registry's entry, tells the user, and stores a row.

5. Before all that the card's *form* asks the relay for a quote, debounced, whenever it
   changes; what the user signs is prepared from the quote on display.

Everything inside the relay shares one event loop: code between two awaits is
atomic, and every await is a point where sockets close, timers fire and other
handlers run.

### What is hard, and what makes each component correct

| Component | Hard behaviour | Correct when |
|---|---|---|
| On-chain program | any order of legal instructions by mutually distrustful parties, aliasing of accounts, u64 boundaries, rounding | money leaves an escrow only by its owner's withdrawal or for a bid its owner signed, at most once per hint; nothing is created or lost; the relay is made whole |
| Orchestrator, submitter | bundles that land before they are acknowledged, results lost or later than the 30 s deadline, `sendBundle` failing after delivery, relay restarts, escrows emptied in between, abandoned forks | two bundles of a swap can never both land, a verdict is given once and agrees with the chain |
| Cashback indexer | a stream that fails, repeats and skips; entries that expire; awaits between look-ups | a notice is about the auction it names and comes once; the history files nothing under the wrong auction |
| Searcher gateway, auction manager | handlers suspended while sockets close, authenticate or are replaced and auctions close | only the holder of a key acts under it; an acknowledged bid stands |
| Searcher SDK | drops, reconnects, timers and acknowledgements racing each other | an answer settles the bid it is about; every promise settles; one connection at a time |
| Event streams | a consumer that waits or does not, timers, stream errors and the abort between any two awaits | values come in order, once; nothing keeps running that nobody listens to; the loop ends |
| Bots | two processes with one keypair, confirmations that do not say whether a transaction failed, settlements meanwhile | a bot that connects has a funded escrow, or somebody spent it |
| Swap form | quotes that arrive late, edits within the debounce, a flip that reads a quote and types it later, wallets that change | the quote shown is the form's; what is signed is what was asked for; the form never hangs |
| Waitlist | two requests look an address up before either inserts it | a page that says "joined" is right |
| Swap session | repeated requests, events before the subscription, sockets that die silently, late statuses | one auction per signature; the outcome shown is this swap's; the card never waits for ever |

`PROJECT.json` lists the individual hazards at the lines where they bite.

## 2. Modules

    CashbackLedger  <--(refines)--  FlowbackProgram  <--EXTENDS--  SettlementAudit
         ^                                                            ^-- FlowbackProgramProofs
         | INSTANCE (the chain)
    SwapPipeline  <--EXTENDS--  CashbackDelivery  --(refines)-->  AuctionEvents
                                   ^-- SettlementProofs             ^ INSTANCE (the relay)
                                                                 SwapSession  <-- SwapSessionProofs
    AuctionManager  <--EXTENDS--  SearcherGateway  <-- SearcherGatewayProofs
    SearcherClient  <--EXTENDS--  SearcherBot  <-- SearcherClientProofs
    AsyncQueue  <--INSTANCE--  GeyserStream  --EXTENDS-->  MockEvents
                                 ^-- GeyserStreamProofs
    TokenAmounts  <--EXTENDS--  RelayApi  <--EXTENDS--  SwapForm  <--EXTENDS--  WebClient
                                                                                  ^ |
                                                              WebClientProofs ----+ | INSTANCE
                                                    WaitlistProofs  -->  Waitlist <-+

Two abstract specifications tie the parts together.  `CashbackLedger` is what the
program promises; the relay's model uses it as its chain, and the program is proved
to implement it.  `AuctionEvents` is what the user of an auction may be told, and in
which order; the relay's model implements it, and the client's model takes any
behaviour of it as its input.

**FlowbackProgram.**  One action per instruction, each a transaction that lands;
`RejectedTransaction` is one that lands and fails, and leaves only its fee.
`SettleFromEscrow` has the account constraints and the handler's checks in order.
`ed25519` is the commitment the precompile verified at instruction 0: searchers sign
commitments off chain (`SignBidCommitment`), any number for a hint.  `lamports`,
`escrowLamports` and the three rents make up the whole supply.  `settled` and
`feesCollected` are history.  `u64` arithmetic is checked in the code, so an overflow
is a failed guard (`FitsU64`).

**SettlementAudit** is `scripts/verify-reimbursement.ts`: what the operator's audit
concludes from the balances before and after a settlement, as an expression over a step
of the program.  `Auditable` spells out what the script presumes.

**SwapPipeline.**  `pc[h]` is where `finalizeAuction` stands for hint `h`; an action
runs from one await to the next.  `SubmitBundle`/`SendBundleReturns`/`SendBundleThrows`
are the three sides of `sendBundle`.  `HandleBundleResult` is the submitter's stream
callback and continues straight into the orchestrator's next step;
`ResultTimeout` is the 30 s timer.  `bundle` and `results` are the external block
engine; `LandBundle` is `CashbackLedger!Honour`, since a bundle lands as a whole or
not at all.

**CashbackDelivery** extends it by the registry (`pending`, keyed by user, searcher
and bid as in the code), the geyser subscription (`streaming`, `stream`) and the
indexer, whose `handleEvent` is split at its two queries.  `RegisterAndSubmit` is
`SubmitBundle` with `onBeforeBundleSubmit`; `ConfirmOnChain` is `FinalizeBundle`
feeding the stream.

**AsyncQueue** is the push/pull queue; calls of `next()` are numbered, and `outcome[n]`
is what the promise of the n-th settles with.  **MockEvents** is what the mock source
yields for a request (filters, sizes and ranges of bytes, the `CashbackSettled` log line
and its decoding).  **GeyserStream** puts the indexer's loop (`phase`) on top of either
source: connect, the first write, `data`, `end`, `error` and `close` of a Yellowstone
stream, or the mock's three timers, each a callback that may run between any two awaits.
A timer that pushes several updates leaves the rest in `burst`, which runs to its end
before anything else.

**AuctionManager** holds the synchronous methods; **SearcherGateway** extends it by
sockets and the registry.  `handleAuth` is `ReceiveAuth`, `AuthVerified` and
`AuthUpserted`, `handleBid` is `ReceiveBid` and `FinishBid`, split at their awaits.
`ws.end` runs the close handler before it returns, so `End` unregisters.

**SearcherClient** is `FlowbackSearcher`: the states of each WebSocket, the handlers
set on it, `pendingBidAcks` and the reconnect timers (a counter, since the code keeps
no handle to them).  After `ws.close()` a socket still receives until its close event:
one that had sent its auth message is "leaving", and an `auth_ok` that comes then attaches
the handlers all the same, so that its close is handled.  `alive` turns false when an error event nobody handles ends the
process.  **SearcherBot** extends it by what both bots do first: airdrop, open the
escrow, top it up, connect.  A transaction is simulated, sent and confirmed, three steps
between which the other bot and earlier settlements change the chain.  When the bot
connects, the chain's variables are dropped (`StartClient`): nothing reads them after.

**SwapSession** follows a user from click to outcome: `handleAction` split at its
awaits (`step`), the prepared-swap store, `/intent` requests, `UserStatusEmitter`, the
status sockets and the page's cashback toasts.  `clearAuctionWatch` (`Cleared`) on a
socket that is still connecting aborts it, which fires its error event later.

**TokenAmounts** has the conversions between decimal texts and raw amounts; a text is
the number it denotes, and cutting digits off is a remainder.  **RelayApi** is `/quote`
and `/prepare` as operators that return the *set* of answers a request may get: the
parsers, the limiter, Jupiter's two calls, and the estimate with its bucket, confidence
and fallback.  **SwapForm** is the card's form: `direction`, `amountIn`, `slippage` and
`wallet` with the effect React runs when they change (`QuoteEffect`, one step with the
change), the debounced fetches, the flip's timer, the balance look-ups, and
`handleAction` up to the intent, where SwapSession takes over.  **Waitlist** is the
landing page's dialog, the browsers' storage and the relay's select and write, which are
two steps.  **WebClient** composes a visit: the waitlist, then the swap page; the
waitlist's variables are dropped when the page is left.

In each module a definition that is a *variant*, a plausible wrong version of the code,
stands just before the one it varies.  Variants appear in no specification; each shows
that some property would notice the mistake (`PROJECT.json`, "mutants").

## 3. Runs

| Run | Module, specification | Checks | Distinct states |
|---|---|---|---|
| `program` | MCFlowbackProgram, `Spec` | rent exemption, one settlement per hint, conservation of lamports, the audit passes, refinement of CashbackLedger | 1,285,000 |
| `pipeline` | MCSwapPipeline, `FairSpec` | better bids first, no winner is final, settlements are reported, verdicts stand, auctions conclude | 20,600 |
| `delivery` | MCCashbackDelivery, `DSpec` | two users' auctions side by side: notices and history are of the right auction | 3,030,000 |
| `delivery_restart` | MCCashbackDelivery, `DFairSpec` | one auction with two candidates and a restart: a won row is settled, one notice per settlement, refinement of AuctionEvents, settlements are announced | 235,000 |
| `gateway` | MCSearcherGateway, `FairSpec` | registry and sockets agree, accepted bids stand, results stay private, books are sorted, bids are answered | 310,000 |
| `client` | MCSearcherBot, `BotSpec` | a bot connects funded, answers settle the right bid, one connection, it keeps trying, every promise settles | 112,000 |
| `session` | MCSwapSession, `FairSpec` | one auction per signature, the outcome is this swap's, subscribers are up to date, the watch ends, outcomes are shown | 324,000 |
| `events` | MCGeyserStream, `FairSpec` | delivery in order, nothing left running, updates answer the request, the abort ends the loop | 277,000 |
| `form` | MCWebClient, `SiteSpec` | the quote is the form's, the signed swap is its quote's, a flip keeps the deal, the form comes to rest, the waitlist's promise | 383,000 |
| `pipeline_fork_won`, `delivery_same_user`, `client_disconnect` | | one statement of the code's own comments each, which the code does not keep | section 5 |

Deadlock is not checked: in every model the system may really come to rest (all auctions
over, every searcher gone, the loop stopped, the bounded supply of sockets, bids or edits
used up).

### Bounds, and why they are enough

- `program`: two searchers, two hints, bids 1 and 2, three signed commitments. A
  rejected transaction changes nothing but its payer's balance, so `MaxFees` lets it
  happen only before the first transaction that succeeds. Two hints and three
  commitments allow a second searcher's and a second amount's commitment for a hint that
  has settled. The relay's wallet and a searcher's are the possible treasuries, so the
  credit of the fee may go where the reimbursement goes, or to another wallet that pays
  fees. The user's wallet is nobody else's here: that the user may be the treasury or
  the relay is left to the theorems, of which `LamportsConservedAlways` sums over
  whichever accounts coincide. `MAX_BPS` is 8 so that 4 of 8 makes a bid of 1 round; fee
  9 is out of range. `U64_MAX` 15 makes `bid * bps` overflow (2 * 8). `InitialLamports`
  leaves the second searcher short of a full escrow. Hints are interchangeable, hence
  the symmetry. `AuditedBps` is one of the fees a configuration may have, so that some
  settlements are the audit's and others not.
- `pipeline`: a book of four bids against three candidates, so the cut-off and the end
  of the list are both met, with two bids of each searcher, equal bids, escrows too small
  for two settlements, lost results, abandoned forks and one restart.  Auctions share
  only the escrows, which `WithdrawEscrow` covers, so one hint suffices here.
- `delivery`: two auctions, because attribution goes wrong only between two; a searcher
  that bids the same in both.  `delivery_restart`: one auction with two candidates,
  among them two equal bids of one searcher, whose registry entries have the same key.
  One repeated settlement per run is enough to find an entry already taken.
- `gateway`: two sockets, two searchers, one of which can sign with both keys; two auth
  messages and two bids give every overlap of two suspended handlers; two clock values
  order or equate the arrival of two bids.
- `client`: three sockets are a connection and two reconnects; two bids on one hint or
  on two. The application connects once (see section 5 for connecting again, which the
  theorems about the client allow). Two bots share the keypair, one of each kind; the
  wallet starts empty or with exactly `EnoughToStart`, the escrow absent, empty or full,
  and one settlement may debit it meanwhile. A fee less in the wallet, and
  `ConnectsFunded` fails (section 5).
- `session`: two swaps, two requests (of two swaps, or one request repeated), two
  events per auction, which is the longest sequence that is not a repetition of a shape
  already met: progress and an outcome, or an outcome and a late cashback.
- `events`: three subscriptions are one that fails, one that follows, and one more to
  tell "the latest" from "the next"; four updates fill the buffer, drain it and leave
  the consumer waiting.  Requests name a program filter, several filters, an account
  filter with ranges of bytes, and none.
- `form`: two tokens of two and one decimals, shown with one and none, so that every
  conversion cuts something off; two prices, so that a late quote differs; amounts that
  are nothing, have a digit too many, and fit; slippages below, above and beyond the
  clamp.  Three edits are what a flip during a stale quote needs.  Three pages in two
  browsers, and an address with two spellings, join at once.

### Fairness

Fairness is assumed only for steps the program's own scheduling provides, or, where a
property is about delivery, for the named environment steps it is conditional on.

- SwapPipeline: weak fairness of each auction's relay steps.  The event loop runs every
  continuation, the window timer and the 30 s timer fire, and each awaited call returns
  or throws.  The last is an assumption on the libraries: `sendBundle` and
  `sendTransaction` have no deadline of their own.  Nothing is assumed of the block
  engine: `AuctionConcludes` holds because the wait is bounded.
- CashbackDelivery: the indexer's loop, and the confirmation of processed bundles when
  no fork is abandoned.  `SettlementIsAnnounced` is conditional on `calm`: the stream,
  the entry and the relay last.  `calm` is chosen in the initial state, so one run
  has both kinds of behaviour.
- SearcherGateway: a suspended `handleBid` is resumed.
- SearcherClient: the five-second timer of each `submitBid` fires.
- SwapSession: the card's timer fires; in `calm` behaviours, where it does not, sockets
  open, subscribe and receive.  Each property names the kind it is about.
- GeyserStream: a callback that has begun to push goes on, and the loop's continuation
  runs.  The streams and timers themselves are not fair: `AbortStops` holds although no
  further update may come.
- WebClient: the debounce's and the flip's timers fire, and a quote request is answered
  or fails.  The user is not fair.

## 4. Proofs

Every invariant and action property that a passing run checks is also a theorem: the run
shows it on a small instance, the theorem for every value of the constants, that is for
any number of wallets, searchers, auctions, bids, candidates, sockets, swaps, pages,
subscriptions and processes, and any amounts, fees, decimals and prices.

| Module | Theorem | Statement |
|---|---|---|
| `FlowbackProgramProofs` | `TypeCorrect` | `Spec => []TypeOK` |
| | `EscrowStaysRentExempt` | `Spec => []EscrowRentExempt` |
| | `AtMostOneSettlementPerHint` | `Spec => []HintSettledOnce` |
| | `OnlySignedBidsSettle` | `Spec => []SettledAsSigned` |
| | `EverySwapIsCounted` | `Spec => []SwapsCounted`: `total_swaps_processed` is the number of settlements |
| | `UserKeepsShare` | `Spec => []SplitFavoursUser` |
| | `SettlementIsFreeForRelay` | `Spec => RelayMadeWhole` |
| | `EscrowDebitsAreAccounted` | `Spec => EscrowDebitsAccounted` |
| | `LamportsConservedAlways` | `Spec => []LamportsConserved` |
| | `AuditAlwaysPasses` | `Spec => AuditPasses` |
| | `ProgramImplementsLedger` | `Spec => ImplementsLedger` |
| `SettlementProofs` | `BetterBidsRefusedFirstAlways` | `Spec => []BetterBidsRefusedFirst` |
| | `NoWinnerIsFinalAlways` | `Spec => []NoWinnerIsFinal` |
| | `SettlementIsReportedAlways` | `Spec => []SettlementIsReported` |
| | `VerdictStandsAlways` | `Spec => VerdictStands` |
| | `WonMeansSettledAlways` | `Spec => []WonMeansSettled`, if `~Forks` |
| | `DeliveryRunsThePipeline` | `DSpec => Spec` |
| | `HistoryIsOfItsAuctionAlways` | `DSpec => []HistoryIsOfItsAuction`, if `OneAuctionPerUser` |
| | `ConfirmedOnceAlways` | `DSpec => []ConfirmedOnce`, if `OneAuctionPerUser` |
| | `ConfirmedMeansSettledAlways` | `DSpec => []ConfirmedMeansSettled`, if `OneAuctionPerUser` |
| | `DeliveryImplementsAuctionEvents` | `DSpec => ImplementsAuctionEvents`, if `OneAuctionPerUser` |
| `SearcherGatewayProofs` | `SessionsConsistentAlways` | `Spec => []SessionsConsistent` |
| | `ResolvedBestFirstAlways` | `Spec => []ResolvedBestFirst` |
| | `AcceptedBidStandsAlways` | `Spec => []AcceptedBidStands` |
| | `ResultsStayPrivateAlways` | `Spec => []ResultsStayPrivate` |
| `SearcherClientProofs` | `AckIsForThisBidAlways` | `Spec => []AckIsForThisBid` |
| | `OneConnectionAlways` | `Spec => []OneConnection` |
| | `KeepsTryingAlways` | `Spec => []KeepsTrying` |
| | `ConnectsFundedAlways` | `BotSpec => ConnectsFunded`, if `AmpleFunds` |
| | `BotRunsTheClient` | `BotSpec => Spec` |
| `SwapSessionProofs` | `SignatureStartsOneAuction` | `Spec => []OneAuctionPerSignature` |
| | `OutcomeShownIsOfThisSwap` | `Spec => []OutcomeIsOfThisSwap` |
| | `SubscriberUpToDateAlways` | `Spec => []SubscriberIsUpToDate` |
| `GeyserStreamProofs` | `NthCallGetsNthValue` | an `AsyncQueue` of any values: `[]InOrder` |
| | `EverySubscriptionInOrder` | `Spec => []InOrder` |
| | `NothingLeftRunningAlways` | `Spec => []NothingLeftRunning` |
| | `HonoursRequestAlways` | `Spec => []HonoursRequest` |
| `WaitlistProofs` | `WaitlistKeepsItsPromise` | `Spec => []PromisedIsListed` |
| `WebClientProofs` | `QuoteFollowsFormAlways` | `SiteSpec => []QuoteFollowsForm` |
| | `PreparedFromItsQuoteAlways` | `SiteSpec => []PreparedFromItsQuote` |
| | `FlipKeepsTheDealAlways` | `SiteSpec => FlipKeepsTheDeal` |
| | `SiteKeepsItsPromise` | `SiteSpec => []PromisedIsListed` |

### Assumptions

Each is named where the constants are declared, and TLC evaluates it in the runs.  Most
say that a number is a natural and a role a set of the right kind.  Those that say more:

- Program: the set of wallets is finite (`WalletRoles`; their sum is the supply);
  `MAX_BPS` is positive; the reimbursement constant is two signature fees
  (`FeeCoversBothSignatures`, stated in `constants.rs`: `SettlementIsFreeForRelay` is
  false without it, the other theorems take from it only that the constant is a
  natural); the escrow and the marker account are nobody's wallet (`AuditAssumption`:
  they are program addresses).
- Form: the slippage's least and greatest values and the automatic one are in order and
  within what the relay accepts (`SwapFormAssumption`).
- Mock source: a request consists of sequences of names and filters
  (`IsSubscribeRequest`).
- Client: no hint is 0, which stands for "none" (`ClientAssumption`).

Four theorems have a hypothesis of their own, each because the property is false without
it.  `~Forks`: run `pipeline_fork_won`.  `OneAuctionPerUser`: run
`delivery_same_user`, where two auctions of one user share a registry key.  `AmpleFunds`:
the wallet can pay for opening and funding the escrow and for one failed transaction of
every process (`EnoughToStart`), or for no transaction at all, or the bots see to it by
an airdrop; section 5 has the counterexample.

### The arguments

**The program.**  `TypeOK` is inductive by itself: that balances stay naturals follows
from the guards, and the split from `SplitIsExact`.  None of the other invariants is, on
its own: that a settlement adds a record which was not there yet (`SettlementIsNew`)
needs `HintSettledOnce`, and the exact count needs that in turn; the split and the
signatures need the types of the configuration and of the commitments; rent exemption
needs those of the balances.  The inductive invariant `IInv` is therefore their
conjunction.  `StepIInv` goes through the actions; every other action than
`SettleFromEscrow` leaves the log alone, and only `EscrowWithdraw` and `SettleFromEscrow`
lower an escrow, both under a guard that keeps its rent.  The action properties and the
refinement use `IInv` in the first state of a step.  The refinement mapping subtracts
the rent from an open escrow; opening an escrow is a stutter of the ledger, since its
available balance stays 0.

Conservation is about sums over finite sets.  `ConservedInv` states the supply as one
equation; lemmas say what crediting or debiting one member does to a sum.  Those and all
other facts that need induction over data are proved by well-foundedness: a set of
naturals without the property has a least member (`NatSetInduction`), and a set of finite
subsets likewise by cardinality (`SubsetInduction`).  A settlement credits up to three wallets that may
coincide, one after the other, so each credit is a step of its own.  For the audit, three
accounts are distinct when their set has three members; the audit's arithmetic is then
that of `SettleFromEscrow`.

**Auctions and bundles.**  `PipelineInv` says where the relay stands with each auction.
`InOrderSent`: a bundle is sent for the candidate in hand only, and those before it are
`Out`, that is never sent or given up by the engine.  `InHand` ties `pc`, the resolver
and the bundle of that candidate together; `Judged` says what each verdict implies for
the bundles; `Awaited`, that a result saying "refused" is published after the engine gave
the bundle up.  `BetterBidsRefusedFirst` and `NoWinnerIsFinal` are then immediate, and a
step that changes a verdict contradicts `Judged`.  `SettledInv` adds, without forks, that
a bundle reported processed stays so.

The indexer only adds steps (`DeliveryRunsThePipeline`), so all of this holds of
`DSpec`.  `DeliveryInv`: an entry of the registry is that of a bundle that was sent
(`RegisteredInv`), the stream carries finalized settlements only (`StreamInv`), and what
was told has no entry any more (`ToldInv`, with `StoredInv` for the rows).  With an
auction per user a key names one auction, and `take` hands it out once.  For the
refinement, `EventsInv` relates the events a user was sent to `pc` and the verdict, and
`DeliveryInv` says that a cashback is announced only when its bundle was submitted and
not before.

**Sessions and books.**  `SessionInv`: wherever a key appears, on a socket, in a suspended
`handleAuth` or in the registry, its holder has proved it (`proved`), and an open socket
with a key is the registered one, because `register` ends the one it replaces and
`ws.end` unregisters at once.  `BookInv` and `AnswersInv` follow a bid from `handleBid`'s await
into the book and to its answer.  The sort is a count: a bid's position is one more than
the number of bids before it.  The comparator with the stability of the sort is a strict
total order, so positions are one-to-one and, by a pigeonhole argument on finite sets,
onto.

**The SDK and the bots.**  Each socket is on its way to `auth_ok`, in use, or done with;
each scheduled reconnect was left behind by an attached socket that closed, so there are at
most as many timers as those (`SocketInv`).  While connect was called once (`OnceInv`),
one socket is on its way or one reconnect to come, not both.  `BidInv`: an entry of
`pendingBidAcks` belongs to a pending call on that hint, an answer under way is the
relay's answer to a bid.  For the bots, `FundingInv` says that until the escrow is funded the wallet
can pay for what is left to do, with a fee for every process that may still open the
escrow and one for a deposit, or it can pay for nothing and no transaction is on its way,
or every bot is yet to ask for its airdrop.  Each failed opening takes its process out of
that count, which is why the bound is tight.

**A user's swaps.**  One auction per signature is not inductive: a request that is being
verified has already taken its entry.  `TakenOnce` therefore speaks of verified and
started requests alike and adds that what was taken is in the store no more; `KnownSwaps`
says that a swap yet to be started has no entry and no request, so that no entry comes
back.  The second theorem needs five more parts.  `WatchInv`: the auction a swap watches
is the one started for it, and a swap watches nothing before its answer.  `StreamInv`:
only the socket of the swap being watched can still deliver, because `clearAuctionWatch`
closes it whenever the card goes on to anything else.  `EventInv`: what is buffered or
sent was emitted for the auction watched.  `NoticeInv` and `ToastInv` then follow the
outcome to the card; an announced auction belongs to a swap that is over, hence no second
toast for it, which uses the first theorem's invariant: two swaps never watch one auction.
For `SubscriberIsUpToDate`, `UpToDateInv` adds that a buffer is a suffix of its auction's
log, and that a socket is sent nothing before it has subscribed.

**The event streams.**  `QueueInv` fixes the buffer, the waiters and every promise as
functions of how many values were accepted and how many calls were made; at most one of
buffer and waiters is not empty.  `StreamQueueInv` carries it through the loop: a new
subscription begins with an empty queue, a push adds one value to those the queue is
about.  `NothingLeftRunning` is inductive as it stands.

For `HonoursRequest`, the account data is first shown to satisfy its filters, by
induction on their number: `BuildAccountData` is the function that writes one filter
after the other (`DataIsWritten`), and a filter written later either leaves an earlier
one's bytes alone or, the filters being consistent, repeats them (`WrittenStep`).
`HonoursInv` then says that whatever is accepted fits the request and is of no later slot
than the timer's, and that what is left of a slot's events (`burst`) is of the slot
just over, with nothing of a later one accepted yet.

**The form.**  `FormInv` adds to `QuoteFollowsForm` what the quote on display is an
answer to (`QuoteInv`), that the direction does not change while a flip is pending, so
the deal it read is still the form's (`FlipInv`), and that a swap under way carries the
form's request (`SwapInv`).  That a conversion there and back loses nothing rests on
powers of ten being positive and dividing one another (`PowerOfTen`, by induction).  A
step of the site is a step of the form, of the waitlist, or neither.

**The waitlist.**  The unique column gives one row per address; rows are never deleted,
so an answer that was shown stays true (`ResultsListed`); `ToldOnce` says that only the
browser of the one insert knows the answer that goes with it.  `WebClientProofs` carries
the result over to the composition: a step of the site is a step of the waitlist, leaves it
alone, or begins it anew.

### Only model-checked

Liveness, since fairness and ENABLED are outside the proof system's reach:
`AuctionConcludes`, `SettlementIsAnnounced`, `BidsAreAnswered`, `EverySubmitSettles`,
`WatchEnds`, `OutcomeIsShown`, `AbortStops` and `QuoteComes`.

## 5. What the code does not keep

Runs that end in a counterexample, each quoting the statement it refutes in
`PROJECT.json`:

- `pipeline_fork_won`: a row is "won", "confirmed on-chain", when a block that was only
  processed has been abandoned (`submitter.ts:153`).  In `delivery_restart`, without
  forks, the same statement holds.
- `delivery_same_user`: two auctions of one user won by one searcher at the same price
  share a registry key, and the first settlement is announced for the second auction
  (`pending-cashback.ts:33`).  With a user per auction the statement holds (`delivery`).
- `client_disconnect`: a scheduled reconnect fires after `disconnect()`
  (`sdk/src/client.ts:247`).

Other divergences the models contain and no run is spent on.  Relay:

- When orchestration throws, searchers are sent no `auction_result`
  (`intent.service.ts:266`; `docs/content/docs/how-it-works.mdx:37` promises one to all).
- `no_valid_winner` is also the status when Jito refused every bundle, not only when all
  failed simulation (`orchestrator.ts:136`, its comment at 24).
- If the indexer outruns `persistAuction`, the history row is stored without its auction
  and is not linked later (`indexer/cashback.ts:156`).
- Of two sessions of a searcher the older may register last and end the newer
  (`ws/searcher.ts:69`); a socket that closes while `handleAuth` awaits is registered
  after it closed (`ws/searcher.ts:203`).  `SessionsConsistent` says what holds all the
  same.
- An abort that comes while `subscribe()` is awaited is heard only with the next update
  or the end of the stream (`indexer/cashback.ts:67`); when the first write of a request
  fails, its stream stays open and nobody holds it (`yellowstone-source.ts:66`).
- `minOutputAmount` of a request is never enforced (`relay/README.md:57`); what protects
  the user is the threshold Jupiter computes when the swap is prepared.
- With MOCK_JUPITER the threshold is computed from the input amount.
- `quote.service.ts`'s comment says an estimate without history is null; the code returns
  a fallback with sample size 0.  A Jupiter that cannot be reached gives 500, not 502.
- Of two joins of one address at once the slower insert is answered 500; a name given in
  one of two updates may be overwritten by the other's.

SDK and bots:

- A second bid on a hint orphans the first, whose promise times out though the relay
  answered (`sdk/src/client.ts:94`), and the first bid's timer deletes the second's entry.
  `AckIsForThisBid` is therefore stated for the only bid on a hint.
- A reconnect attempt that fails before `auth_ok` is the last (`sdk/src/client.ts:248`);
  `KeepsTrying` is stated for attempts that got as far.
- After `disconnect()` and `connect()` the close event of the old socket clears the new
  connection's state (`sdk/src/client.ts:234`); the `client` run connects once.
- The bots ignore `confirmTransaction`'s `err`, so a transaction that failed on chain
  passes for confirmed (`scripts/searcher-bot.ts:70`).  `ConnectsFunded` therefore needs
  `AmpleFunds`: with one fee less than `EnoughToStart` in the wallet (8 in the run), the
  fee of another process's failed attempt to open the escrow makes the deposit fail
  unnoticed, and the bot connects with an escrow that can pay for nothing.  The 4 and 10
  SOL the scripts airdrop are ample; `seed-bot` checks its wallet nowhere.
- `verify-reimbursement.ts` takes any account that was empty for the `UsedHint`, and its
  informational conservation line expects half of the fee to leave
  the accounts, where all of it does; `AuditPasses` is stated
  for settlements between wallets in use.
- `send-intent.ts` does not treat `auction_failed` as the end of an auction.

Web client:

- A second flip within 350 ms reads the quote of before the first, in the wrong token's
  decimals (`swap-card.tsx:513`); `FlipKeepsTheDeal` is about flips that read a quote of
  the direction they leave.
- During the debounce a quote passes the button's guard if its raw input amount is the
  form's, although the slippage has changed since, to Auto for example
  (`swap-card.tsx:580`).
- The balances of a wallet that is no longer connected may overwrite the new one's
  (`swap-card.tsx:445`).
- The card may show a failure although the bundle lands later (`swap-card.tsx:687`);
  `AuctionEvents` allows cashback after `auction_failed`.
- Storage that is full or denied makes the landing page show an error to somebody who
  has joined; what is stored does not include the name.

## 6. Not modelled, and assumptions

- *History* (`history.service.ts`): a paged read of a join, which changes no state.  Rows
  with equal timestamps have no defined order across pages.
- *Rendering*: the landing page's diagram, the navigation bar, themes and the wallet
  dialog hold no state a swap depends on.
- *Scripts that run once*: `send-intent`, `demo-setup` and `init-protocol` are straight
  sequences of calls into the modelled parts.
- *Start-up, routing, connection pools, the database driver* and transaction building:
  their calls succeed or fail nondeterministically where a caller's control depends on it.
- *The documentation site*: text.  The violation runs quote comments in the code; where
  the code departs from the site, section 5 says so.
- MOCK_JITO replaces the block engine for demonstrations; SwapPipeline has it off.
- Malformed WebSocket messages, which change no state.
- The hosted rate limiter's counters: it may refuse any request.
- The SDK's application is taken to have registered `onError`.
- Delays are not timed; a timer may fire at any moment its handle allows, which includes
  every real timing.

## 7. What remains

The order in which more could be added:

1. A sealed-bid auction as the abstract specification of SearcherGateway, proved to be
   implemented by it.
2. That SwapPipeline's books are those SearcherGateway resolves auctions with: the sorted
   book is assumed of `BidLists` and proved of the gateway.
3. What holds of several auctions of one user: `ConfirmedMeansSettled` up to the auctions
   that share a key.
4. The instruction order and account list of the settle transaction builder, against the
   program's constraints.
