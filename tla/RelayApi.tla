------------------------------ MODULE RelayApi ------------------------------
(***************************************************************************)
(* GET /quote and POST /prepare: which answers a request may get.  The     *)
(* controllers check the request, the services ask Jupiter                 *)
(* (relay/src/jupiter/client.ts), the quote carries an estimate from the   *)
(* auctions table, and a prepared swap is assembled from Jupiter's         *)
(* instructions.  Jupiter's price at the moment it is asked, whether it,   *)
(* the database and the node answer, and what the hosted rate limiter      *)
(* decides are open choices.                                               *)
(*                                                                         *)
(* Amounts are raw; slippage is in basis points, 0 asking Jupiter to       *)
(* choose ("rtse").                                                        *)
(***************************************************************************)
EXTENDS TokenAmounts, Sequences, FiniteSets

LOCAL INSTANCE TLC

CONSTANTS
    Prices,         \* raw SOL for a raw unit of USDC
    RtseBps,        \* the slippage Jupiter chooses
    WonBids,        \* auctions.winningBidLamports of the won auctions of each
                    \* input token and bucket, the latest first
    SampleLimit,    \* CASHBACK_SAMPLE_LIMIT
    BucketRanges    \* estimates of each bucket without history

ASSUME RelayApiAssumption ==
    /\ Prices \subseteq Nat \ {0} /\ RtseBps \in 1..10000
    /\ SampleLimit \in Nat \ {0}

MAX_SLIPPAGE_BPS == 10000
NoBid == -1

Refusal(code) == [status |-> code]

\* createRateLimit: without a key every request passes.
RateLimited(env) == IF env.limited THEN {Refusal(429)} ELSE {}

\* The middleware comes first, then the controller's parser.
Answers(env, valid, served) == RateLimited(env) \cup IF valid THEN served ELSE {Refusal(400)}

----------------------------------------------------------------------------
(* Jupiter *)

AfterSlippage(amount, bps) == (amount * (10000 - bps)) \div 10000

\* What /build answers: the threshold is what the transaction enforces.
JupiterBuild(p, price) ==
    LET out == IF p.inputMint = "USDC" THEN p.amount * price ELSE p.amount \div price
        bps == IF p.slippageBps > 0 THEN p.slippageBps ELSE RtseBps
    IN  [inputMint |-> p.inputMint, outputMint |-> p.outputMint, inAmount |-> p.amount,
         outAmount |-> out, otherAmountThreshold |-> AfterSlippage(out, bps),
         slippageBps |-> bps]

\* MOCK_JUPITER: 1% is lost, and the threshold is taken from the input.
MockQuote(p) ==
    [inputMint |-> p.inputMint, outputMint |-> p.outputMint, inAmount |-> p.amount,
     outAmount |-> (p.amount * 99) \div 100,
     otherAmountThreshold |-> AfterSlippage(p.amount, p.slippageBps),
     slippageBps |-> p.slippageBps]

MockBuild(p) == [MockQuote(p) EXCEPT !.otherAmountThreshold = (p.amount * 98) \div 100]

JupiterQuotes(env, p) ==
    IF env.mockJupiter THEN {MockQuote(p)} ELSE {JupiterBuild(p, price) : price \in Prices}

JupiterBuilds(env, p) ==
    IF env.mockJupiter THEN {MockBuild(p)} ELSE {JupiterBuild(p, price) : price \in Prices}

\* An error status of Jupiter is a 502; a failed connection, to Jupiter, the
\* database or the node, a 500.
Outages(env) == IF env.mockJupiter THEN {Refusal(500)} ELSE {Refusal(500), Refusal(502)}

----------------------------------------------------------------------------
(* Quotes *)

OneSol == PowerOfTen[Decimals["SOL"]]

BucketFor(amount) ==
    CASE amount < OneSol -> "small"
      [] amount >= OneSol /\ amount < 10 * OneSol -> "medium"
      [] amount >= 10 * OneSol /\ amount < 100 * OneSol -> "large"
      [] OTHER -> "whale"

Estimate(lamports, sampleSize) == [lamports |-> lamports, sampleSize |-> sampleSize]

FallbackEstimates(bucket) == {Estimate(n, 0) : n \in BucketRanges[bucket]}

\* The latest won auctions of the pair and bucket that name a winning bid.
SampledBids(inputMint, bucket) ==
    LET won == WonBids[inputMint][bucket]
        latest == IF Len(won) > SampleLimit THEN SubSeq(won, 1, SampleLimit) ELSE won
    IN  SelectSeq(latest, LAMBDA b : b # NoBid)

\* The middle bid, or half the sum of the two middle ones.
Median(bids) ==
    LET ordered == SortSeq(bids, LAMBDA a, b : a < b)
        mid == Len(bids) \div 2
    IN  IF Len(bids) % 2 = 1 THEN ordered[mid + 1]
        ELSE (ordered[mid] + ordered[mid + 1]) \div 2

CashbackEstimates(env, p) ==
    LET bucket == BucketFor(p.amount)
        bids == SampledBids(p.inputMint, bucket)
    IN  IF env.mockCashback \/ bids = <<>> THEN FallbackEstimates(bucket)
        ELSE {Estimate(Median(bids), Len(bids))}

\* parseQuoteQuery.
ValidQuoteQuery(p) == p.amount > 0 /\ p.slippageBps \in 0..MAX_SLIPPAGE_BPS

QuoteAnswers(env, p) ==
    Answers(env, ValidQuoteQuery(p),
        Outages(env) \cup
        {[status |-> 200, quote |-> q, cashbackEstimate |-> e] :
            q \in JupiterQuotes(env, p), e \in CashbackEstimates(env, p)})

----------------------------------------------------------------------------
(* Prepared swaps *)

\* MOCK_JITO: Jupiter is told not to wrap (wrapAndUnwrapSol=false) and
\* prepareSwap does it.
RelayWraps(env, mint) == env.mockJito /\ mint = "SOL"
JupiterWraps(env, mint) == ~env.mockJito /\ ~env.mockJupiter /\ mint = "SOL"

If(condition, instruction) == IF condition THEN <<instruction>> ELSE <<>>

\* The order of the user's transaction; the guard account keeps Jito bundles
\* from placing anything before the swap, and a memo cannot carry it.
Instructions(env, r) ==
    If(JupiterWraps(env, r.inputMint), "wrap") \o
    If(RelayWraps(env, r.inputMint), "wrap") \o
    <<IF env.mockJupiter THEN "memo" ELSE "guarded swap">> \o
    If(JupiterWraps(env, r.outputMint), "unwrap") \o
    If(RelayWraps(env, r.outputMint), "unwrap")

\* parsePrepareBody, and prepareSwap's own checks.
ValidPrepareBody(r) ==
    /\ r.inputAmount > 0 /\ r.minOutputAmount >= 0
    /\ r.maxSlippageBps \in 0..MAX_SLIPPAGE_BPS

\* The entry put in the store; its transaction enforces Jupiter's threshold.
PreparedSwap(env, r, build) ==
    [request |-> r, enforced |-> build.otherAmountThreshold,
     instructions |-> Instructions(env, r)]

PrepareAnswers(env, r) ==
    Answers(env, ValidPrepareBody(r),
        Outages(env) \cup
        {[status |-> 200, swap |-> PreparedSwap(env, r, build)] :
            build \in JupiterBuilds(env,
                [inputMint |-> r.inputMint, outputMint |-> r.outputMint,
                 amount |-> r.inputAmount, slippageBps |-> r.maxSlippageBps])})
=============================================================================
