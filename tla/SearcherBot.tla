----------------------------- MODULE SearcherBot -----------------------------
(***************************************************************************)
(* The searcher bots (scripts/searcher-bot.ts, seed-bot/src/index.ts):     *)
(* fund the escrow on chain, then run the SDK client.  Several processes   *)
(* may be started with one keypair; this is the one whose client           *)
(* SearcherClient describes (ThisBot) and the others up to their connect.  *)
(* Settlements of bids won before the start may debit the escrow meanwhile.*)
(*                                                                         *)
(* The chain is as in FlowbackProgram, reduced to one searcher.            *)
(* sendRawTransaction simulates first and throws if that fails;            *)
(* confirmTransaction resolves for a transaction that landed, even if it   *)
(* failed, and throws if it was not seen to land in time.                  *)
(***************************************************************************)
EXTENDS SearcherClient

CONSTANTS
    Bots, ThisBot,
    SeedBots,       \* those of seed-bot
    EscrowTarget,   \* ESCROW_TARGET_LAMPORTS, ESCROW_DEPOSIT
    AirdropMin,     \* what airdropIfLow wants in the wallet
    TopUp,
    EscrowRent, Fee,
    Wallets,        \* what the wallet may hold at the start
    Debits,         \* what a settlement still to land may debit
    MaxSpent        \* bound on their sum

ASSUME BotAssumption ==
    /\ IsFiniteSet(Bots) /\ ThisBot \in Bots /\ SeedBots \subseteq Bots
    /\ {EscrowTarget, AirdropMin, TopUp, EscrowRent, Fee, MaxSpent} \subseteq Nat
    /\ Wallets \subseteq Nat /\ Debits \subseteq Nat \ {0}

VARIABLES
    at,         \* where each bot stands in main
    need,       \* what it is about to deposit
    wallet, open, escrow, \* the wallet's lamports, the escrow account and its
    spent       \* debited since the start

chain == <<wallet, open, escrow>>
funding == <<at, need, chain, spent>>
botVars == <<vars, funding>>

BotInit ==
    /\ Init
    /\ at = [b \in Bots |-> "starting"]
    /\ need = [b \in Bots |-> 0]
    /\ wallet \in Wallets
    /\ open \in BOOLEAN
    /\ escrow \in IF open THEN {EscrowRent, EscrowRent + EscrowTarget} ELSE {0}
    /\ spent = 0

Go(b, from, to) == at[b] = from /\ at' = [at EXCEPT ![b] = to]

----------------------------------------------------------------------------
\* A transaction that lands and fails costs its fee.
FailsOnChain == wallet' = wallet - Fee /\ UNCHANGED <<open, escrow>>

CanInit == ~open /\ wallet >= EscrowRent + Fee
InitOnChain ==
    IF CanInit
    THEN wallet' = wallet - EscrowRent - Fee /\ open' = TRUE /\ escrow' = escrow + EscrowRent
    ELSE wallet >= Fee /\ FailsOnChain

CanDeposit(amount) == open /\ wallet >= amount + Fee
DepositOnChain(amount) ==
    IF CanDeposit(amount)
    THEN wallet' = wallet - amount - Fee /\ escrow' = escrow + amount /\ UNCHANGED open
    ELSE wallet >= Fee /\ FailsOnChain

\* A settlement of an earlier bid.
SettlementDebits ==
    /\ \E d \in Debits :
        /\ open /\ escrow - d >= EscrowRent
        /\ spent + d <= MaxSpent
        /\ escrow' = escrow - d
        /\ spent' = spent + d
    /\ UNCHANGED <<vars, at, need, wallet, open>>

----------------------------------------------------------------------------
\* The seed bot takes its wallet as it is.
StartSeedBot(b) ==
    /\ b \in SeedBots
    /\ Go(b, "starting", "checking")
    /\ UNCHANGED <<vars, need, chain, spent>>

AirdropIfLow(b) ==
    /\ b \notin SeedBots
    /\ \/ Go(b, "starting", "checking") /\ wallet >= AirdropMin /\ UNCHANGED wallet
       \/ Go(b, "starting", "checking") /\ wallet < AirdropMin /\ wallet' = wallet + TopUp
       \/ Go(b, "starting", "fatal") /\ wallet < AirdropMin /\ UNCHANGED wallet
    /\ UNCHANGED <<vars, need, open, escrow, spent>>

CheckEscrow(b) ==
    /\ Go(b, "checking", IF open THEN "reading" ELSE "opening")
    /\ UNCHANGED <<vars, need, chain, spent>>

\* buildEscrowInitTx; the simulation sees a wallet or an escrow that moved on.
SendInit(b) ==
    /\ Go(b, "opening", IF CanInit THEN "confirming open" ELSE "fatal")
    /\ UNCHANGED <<vars, need, chain, spent>>

\* The transaction lands and is confirmed, whatever it did.
InitLands(b) ==
    /\ Go(b, "confirming open", "reading")
    /\ InitOnChain
    /\ UNCHANGED <<vars, need, spent>>

UsableWithRent == escrow
Usable == IF escrow > EscrowRent THEN escrow - EscrowRent ELSE 0

ReadBalance(b) ==
    /\ Go(b, "reading", IF Usable < EscrowTarget THEN "depositing" ELSE "funded")
    /\ need' = [need EXCEPT ![b] = IF Usable < EscrowTarget THEN EscrowTarget - Usable ELSE 0]
    /\ UNCHANGED <<vars, chain, spent>>

SendDeposit(b) ==
    /\ Go(b, "depositing", IF CanDeposit(need[b]) THEN "confirming deposit" ELSE "fatal")
    /\ UNCHANGED <<vars, need, chain, spent>>

DepositLands(b) ==
    /\ Go(b, "confirming deposit", "funded")
    /\ DepositOnChain(need[b])
    /\ UNCHANGED <<vars, need, spent>>

\* confirmTransaction throws, and main ends the process; the transaction has
\* landed all the same, or never will.
NotConfirmed(b) ==
    /\ \/ Go(b, "confirming open", "fatal") /\ (InitOnChain \/ UNCHANGED chain)
       \/ Go(b, "confirming deposit", "fatal") /\ (DepositOnChain(need[b]) \/ UNCHANGED chain)
    /\ UNCHANGED <<vars, need, spent>>

\* main reaches searcher.connect().  The chain and the other bots are not
\* followed any further: their state is dropped.
StartClient ==
    /\ at[ThisBot] = "funded" /\ Connect
    /\ at' = [b \in Bots |-> "dropped"]
    /\ need' = [b \in Bots |-> 0]
    /\ wallet' = 0 /\ open' = TRUE /\ escrow' = 0 /\ spent' = 0

\* From then on hints are answered with submitBid, and what it rejects with
\* is only logged.
RunClient == connects > 0 /\ Next /\ UNCHANGED funding

BotNext ==
    \/ \E b \in Bots :
        \/ StartSeedBot(b) \/ AirdropIfLow(b) \/ CheckEscrow(b) \/ SendInit(b) \/ InitLands(b)
        \/ ReadBalance(b) \/ SendDeposit(b) \/ DepositLands(b) \/ NotConfirmed(b)
    \/ SettlementDebits
    \/ StartClient \/ RunClient

BotSpec ==
    /\ BotInit /\ [][BotNext]_botVars
    \* The five seconds of every ack timer pass.
    /\ \A i \in BidCalls : WF_botVars(alive /\ AckTimeout(i) /\ UNCHANGED funding)

\* What the wallet must hold to open and fund an escrow with every process
\* paying for its attempt to open it.
EnoughToStart == EscrowRent + EscrowTarget + (Cardinality(Bots) + 1) * Fee

\* The airdrop is more than enough, as 4 and 10 SOL are for a target of 2.  A
\* seed bot takes the wallet as it is: it can pay for everything or nothing.
AmpleFunds ==
    /\ TopUp >= EnoughToStart
    /\ \/ SeedBots = {} /\ AirdropMin >= EnoughToStart
       \/ \A w \in Wallets : w < Fee \/ w >= EnoughToStart

\* A bot that connects has an escrow that can pay for EscrowTarget in bids,
\* less what earlier bids have cost since: whichever of the processes opened
\* and funded it, and although a failed transaction passes for a confirmed
\* one.  Holds with AmpleFunds: with a wallet a fee short of that, the failure
\* of another process's transaction makes a deposit fail unnoticed.
ConnectsFunded ==
    [][StartClient => open /\ escrow + spent >= EscrowRent + EscrowTarget]_botVars
=============================================================================
