------------------------------ MODULE SwapForm ------------------------------
(***************************************************************************)
(* The form of the swap card (client/src/components/flowback/              *)
(* swap-card.tsx) up to the intent: what the user types, flips and         *)
(* chooses, the debounced quote for it, the balances behind "Max", and the *)
(* swap prepared, signed and simulated from the quote shown.  The relay's  *)
(* answers are those of RelayApi; what follows the intent is module        *)
(* SwapSession.                                                            *)
(*                                                                         *)
(* A render, its effects and the cleanup of the effects before them are    *)
(* one step with the state change that causes them.                        *)
(***************************************************************************)
EXTENDS RelayApi

CONSTANTS
    Wallets,
    CanSign,        \* wallets with a signTransaction
    Holdings,       \* what a wallet may hold of each token, raw
    TypedAmounts,   \* numbers the user types, as decimal texts
    TypedSlippages, \* in basis points
    Environments,   \* [mockJupiter, mockJito, mockCashback, limited, fork]
    SolFeeReserve,  \* SOL_FEE_RESERVE_LAMPORTS
    SlippageMin, SlippageMax, AutoFloorBps,
    MaxEdits,       \* bound on what the user does to the form
    MaxSwaps        \* bound on presses of the button that pass its guards

ASSUME SwapFormAssumption ==
    /\ CanSign \subseteq Wallets
    /\ Holdings \in [Tokens -> SUBSET Nat]
    /\ TypedAmounts \subseteq Nat /\ TypedSlippages \subseteq Nat
    /\ Environments \subseteq [mockJupiter : BOOLEAN, mockJito : BOOLEAN,
                               mockCashback : BOOLEAN, limited : BOOLEAN, fork : BOOLEAN]
    /\ {SolFeeReserve, MaxEdits, MaxSwaps} \subseteq Nat
    /\ SlippageMin \in 1..SlippageMax
    /\ SlippageMax \in 1..MAX_SLIPPAGE_BPS /\ AutoFloorBps \in 0..MAX_SLIPPAGE_BPS

VARIABLES
    env,        \* how relay and client are deployed
    wallet,     \* publicKey
    direction, amountIn, slippage,
    flip,       \* what the pending flip will type, and the deal it was read from
    quoteState, \* with the parameters it answers, which the card does not keep
    debounce,   \* the quote effect's timer is running
    fetches,    \* its requests in flight
    balances,
    lookups,    \* wallets whose balances are being read
    swap,       \* handleAction
    status,     \* what the card says
    edits, swaps

form == <<wallet, direction, amountIn, slippage, flip>>
quoting == <<quoteState, debounce, fetches>>
funds == <<balances, lookups>>
action == <<swap, status, swaps>>
vars == <<env, form, quoting, funds, action, edits>>

NoWallet == "no wallet"
AutoSlippage == -1
AUTO_SLIPPAGE_BPS == 0
NoFlip == [amount |-> NoAmount, deal |-> <<>>, pending |-> FALSE]
Idle == [status |-> "idle"]
NoBalances == [loading |-> FALSE, values |-> [t \in Tokens |-> 0]]
NotSwapping == [stage |-> "idle"]

inputToken == InputTokenForDirection(direction)
outputToken == OutputTokenForDirection(direction)
amountRaw == DecimalToRawAmount(amountIn, Decimals[inputToken])
slippageBps == IF slippage = AutoSlippage THEN AUTO_SLIPPAGE_BPS ELSE slippage

\* What the quote effect depends on, and asks for.
Params == [inputMint |-> inputToken, outputMint |-> outputToken,
           amount |-> amountRaw, slippageBps |-> slippageBps]

Init ==
    /\ env \in Environments
    /\ wallet = NoWallet
    /\ direction = "buy"
    /\ amountIn = PowerOfTen[Digits]
    /\ slippage = AutoSlippage
    /\ flip = NoFlip
    /\ quoteState = Idle
    /\ debounce = TRUE
    /\ fetches = {}
    /\ balances = NoBalances
    /\ lookups = {}
    /\ swap = NotSwapping
    /\ status = "none"
    /\ edits = 0 /\ swaps = 0

----------------------------------------------------------------------------
(* Quotes *)

RunEffect(aborted) ==
    IF Params' = Params THEN UNCHANGED quoting
    ELSE /\ fetches' = fetches \ aborted
         /\ debounce' = (amountRaw' # NoAmount)
         /\ quoteState' = IF amountRaw' = NoAmount THEN Idle ELSE quoteState

NothingAborted == RunEffect({})

\* The effect on [amountRaw, mints, slippageBps]: its cleanup stops the timer
\* and aborts the request.
QuoteEffect == RunEffect(fetches)

DebounceFires ==
    /\ debounce
    /\ debounce' = FALSE
    /\ fetches' = fetches \cup {Params}
    /\ quoteState' = [status |-> "loading"]
    /\ UNCHANGED <<env, form, funds, action, edits>>

Ready(p, a) ==
    [status |-> "ready", of |-> p, quote |-> a.quote, cashbackEstimate |-> a.cashbackEstimate]
QuoteError(p) == [status |-> "error", of |-> p]

FailureUnseen(p, a) == IF a.status = 200 THEN Ready(p, a) ELSE quoteState
Answered(p, a) == IF a.status = 200 THEN Ready(p, a) ELSE QuoteError(p)

\* relayFetch: the relay's answer, or the browser's error when it does not come.
Fetched(answers) == answers \cup {Refusal(0)}

QuoteArrives ==
    /\ \E p \in fetches :
        /\ fetches' = fetches \ {p}
        /\ \E a \in Fetched(QuoteAnswers(env, p)) : quoteState' = Answered(p, a)
    /\ UNCHANGED <<env, form, debounce, funds, action, edits>>

----------------------------------------------------------------------------
(* The form *)

Edit == edits < MaxEdits /\ edits' = edits + 1 /\ UNCHANGED <<env, swap, swaps>>

Typed(amount) == amountIn' = amount /\ status' = "none"

TypeAmount ==
    /\ Edit
    /\ \E text \in TypedAmounts : Typed(SanitizeDecimalInput(text, Decimals[inputToken]))
    /\ UNCHANGED <<wallet, direction, slippage, flip, funds>>
    /\ QuoteEffect

\* getSpendableAmountRaw.
Spendable(token) ==
    IF token = "SOL" /\ balances.values[token] < SolFeeReserve THEN 0
    ELSE balances.values[token] - IF token = "SOL" THEN SolFeeReserve ELSE 0

\* canUseMax, setMaxAmount.
SetMax ==
    /\ Edit
    /\ ~balances.loading /\ Spendable(inputToken) > 0
    /\ Typed(RawToDecimalAmount(Spendable(inputToken), Decimals[inputToken], Decimals[inputToken]))
    /\ UNCHANGED <<wallet, direction, slippage, flip, funds>>
    /\ QuoteEffect

ClampSlippage(bps) ==
    CASE bps < SlippageMin -> SlippageMin
      [] bps > SlippageMax -> SlippageMax
      [] OTHER -> bps

SetSlippage ==
    /\ Edit
    /\ slippage' \in {AutoSlippage} \cup {ClampSlippage(bps) : bps \in TypedSlippages}
    /\ UNCHANGED <<wallet, direction, amountIn, flip, funds, status>>
    /\ QuoteEffect

\* quoteDisplay: the output of the quote shown, as the card displays it.
QuoteDisplay ==
    IF quoteState.status = "ready"
    THEN FormatRawTokenAmount(quoteState.quote.outAmount, outputToken)
    ELSE NoAmount

\* All its digits, for the flip.
FlippedAmount ==
    IF quoteState.status = "ready"
    THEN RawToDecimalAmount(quoteState.quote.outAmount, Decimals[outputToken], Decimals[outputToken])
    ELSE NoAmount

\* flipTokens, while no flip is pending.  The deal: a quote of this direction.
StartFlip ==
    /\ Edit
    /\ ~flip.pending
    /\ flip' = [amount |-> FlippedAmount, pending |-> TRUE,
                deal |-> IF quoteState.status = "ready" /\ quoteState.of.inputMint = inputToken
                         THEN quoteState.quote ELSE <<>>]
    /\ UNCHANGED <<wallet, direction, amountIn, slippage, quoting, funds, status>>

\* 260 ms later; what was typed meanwhile is overwritten.
FlipFires ==
    /\ flip.pending
    /\ flip' = NoFlip
    /\ direction' = IF direction = "buy" THEN "sell" ELSE "buy"
    /\ Typed(flip.amount)
    /\ UNCHANGED <<env, wallet, slippage, funds, swap, swaps, edits>>
    /\ QuoteEffect

----------------------------------------------------------------------------
(* Balances *)

\* refreshBalances.
Refresh(w) ==
    /\ lookups' = lookups \cup {w}
    /\ balances' = [balances EXCEPT !.loading = TRUE]

Connect ==
    /\ Edit
    /\ wallet' \in Wallets \ {wallet}
    /\ Refresh(wallet')
    /\ UNCHANGED <<direction, amountIn, slippage, flip, quoting, status>>

Disconnect ==
    /\ Edit
    /\ wallet # NoWallet
    /\ wallet' = NoWallet
    /\ balances' = NoBalances
    /\ UNCHANGED <<direction, amountIn, slippage, flip, quoting, lookups, status>>

\* The answer of a lookup, whichever wallet is connected by then; a read that
\* failed leaves no balance, which Spendable takes for none.
BalancesArrive ==
    /\ \E w \in lookups : lookups' = lookups \ {w}
    /\ \E v \in [Tokens -> UNION {Holdings[t] : t \in Tokens} \cup {0}] :
        /\ \A t \in Tokens : v[t] \in Holdings[t] \cup {0}
        /\ balances' = [loading |-> FALSE, values |-> v]
    /\ UNCHANGED <<env, form, quoting, action, edits>>

----------------------------------------------------------------------------
(* The swap *)

Says(tone) == status' = tone

NeverStale == FALSE

\* The quote's amount must be the form's; nothing else of it is compared.
QuoteIsStale == quoteState.quote.inAmount # amountRaw

\* Auto takes the slippage Jupiter chose for the quote, on a fork at least the floor.
ExecSlippageBps ==
    CASE slippage # AutoSlippage -> slippageBps
      [] env.fork /\ quoteState.quote.slippageBps < AutoFloorBps -> AutoFloorBps
      [] OTHER -> quoteState.quote.slippageBps

\* handleAction past its guards, up to prepareSwap.
Press ==
    /\ wallet \in CanSign
    /\ amountRaw # NoAmount
    /\ quoteState.status = "ready"
    /\ swap.stage = "idle"
    /\ swaps < MaxSwaps /\ swaps' = swaps + 1
    /\ IF QuoteIsStale
       THEN Says("stale") /\ UNCHANGED swap
       ELSE /\ Says("preparing")
            /\ swap' = [stage |-> "preparing", form |-> Params, atRest |-> ~debounce,
                        quote |-> quoteState.quote, prepared |-> <<>>,
                        request |->
                            [user |-> wallet,
                             inputMint |-> inputToken, outputMint |-> outputToken,
                             inputAmount |-> quoteState.quote.inAmount,
                             minOutputAmount |-> quoteState.quote.otherAmountThreshold,
                             maxSlippageBps |-> ExecSlippageBps]]
    /\ UNCHANGED <<env, form, quoting, funds, edits>>

Ongoing(stage) ==
    /\ swap.stage = stage
    /\ UNCHANGED <<env, form, quoting, funds, swaps, edits>>

\* The catch of handleAction.
GiveUp(message) == swap' = NotSwapping /\ Says(message)

\* getErrorMessage for a request the relay refused.
RefusalMessage(code) == IF code = 502 THEN "Jupiter unavailable" ELSE "relay error"

PrepareArrives ==
    /\ Ongoing("preparing")
    /\ \E a \in Fetched(PrepareAnswers(env, swap.request)) :
        IF a.status = 200
        THEN /\ swap' = [swap EXCEPT !.stage = "signing", !.prepared = a.swap]
             /\ Says("approve")
        ELSE GiveUp(RefusalMessage(a.status))

\* The wallet signs, or the user rejects.
Sign ==
    /\ Ongoing("signing")
    /\ \/ swap' = [swap EXCEPT !.stage = "simulating"] /\ Says("simulating")
       \/ GiveUp("rejected")

\* Jupiter's 6025 and the token program's 1 are a lack of funds, 6001 is the
\* enforced threshold.
SimulationErrors ==
    {"insufficient balance", "simulation failed"}
        \cup IF env.mockJupiter THEN {} ELSE {"price moved"}

Simulate ==
    /\ Ongoing("simulating")
    /\ \/ swap' = [swap EXCEPT !.stage = "submitted"] /\ Says("submitting")
       \/ \E message \in SimulationErrors : GiveUp(message)

\* The intent is refused, or its auction ends, or its watch does; after an
\* outcome the balances of the wallet that pressed are read again.
SwapEnds ==
    /\ swap.stage = "submitted"
    /\ \/ GiveUp("error") /\ UNCHANGED funds
       \/ GiveUp("outcome") /\ Refresh(swap.request.user)
    /\ UNCHANGED <<env, form, quoting, swaps, edits>>

----------------------------------------------------------------------------
Next ==
    \/ DebounceFires \/ QuoteArrives
    \/ TypeAmount \/ SetMax \/ SetSlippage \/ StartFlip \/ FlipFires
    \/ Connect \/ Disconnect \/ BalancesArrive
    \/ Press \/ PrepareArrives \/ Sign \/ Simulate \/ SwapEnds

Spec == Init /\ [][Next]_vars

----------------------------------------------------------------------------
\* The quote shown follows the form: without an amount there is none, only
\* what the form asks for is in flight, which the relay accepts, and once the
\* timer has run out what is shown answers exactly the tokens, the amount and
\* the slippage of the form.
QuoteFollowsForm ==
    /\ \A p \in fetches : ValidQuoteQuery(p)
    /\ amountRaw = NoAmount => quoteState = Idle /\ ~debounce
    /\ fetches \subseteq {Params}
    /\ debounce => fetches = {}
    /\ ~debounce /\ amountRaw # NoAmount =>
        \/ quoteState.status = "loading" /\ fetches = {Params}
        \/ quoteState.status \in {"ready", "error"} /\ quoteState.of = Params /\ fetches = {}

\* What the user is asked to sign is the swap on the form when the button was
\* pressed: its amount of its token, and, unless the form had changed so
\* lately that no new quote was asked for, at the slippage quoted; native SOL
\* is wrapped exactly once, by Jupiter's instructions or by the relay's.  The
\* relay never has a reason to find the request malformed.
PreparedFromItsQuote ==
    /\ swap.stage # "idle" => ValidPrepareBody(swap.request)
    /\ swap.stage \in {"signing", "simulating", "submitted"} =>
        LET r == swap.prepared.request
            wraps == {i \in DOMAIN swap.prepared.instructions :
                        swap.prepared.instructions[i] = "wrap"}
        IN  /\ r.inputMint = swap.form.inputMint /\ r.outputMint = swap.form.outputMint
            /\ r.inputAmount = swap.form.amount
            /\ swap.atRest =>
                /\ swap.quote.inputMint = r.inputMint /\ swap.quote.outputMint = r.outputMint
                /\ ~env.fork => r.maxSlippageBps = swap.quote.slippageBps
            /\ env.mockJupiter /\ ~env.mockJito => wraps = {}
            /\ ~env.mockJupiter \/ env.mockJito =>
                Cardinality(wraps) = IF r.inputMint = "SOL" THEN 1 ELSE 0

\* A flip offers what the quote promised, to the last raw unit, for the token
\* it was to be paid with.
FlipKeepsTheDeal ==
    [][FlipFires /\ flip.deal # <<>> =>
        /\ inputToken' = flip.deal.outputMint /\ outputToken' = flip.deal.inputMint
        /\ amountRaw' = flip.deal.outAmount]_vars

\* Nothing of the form is under way.
AtRest == ~flip.pending /\ ~debounce /\ fetches = {} /\ quoteState.status # "loading"
=============================================================================
