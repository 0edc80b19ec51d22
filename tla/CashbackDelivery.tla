-------------------------- MODULE CashbackDelivery --------------------------
(***************************************************************************)
(* From a settlement on the chain to the user's cashback notice and to the *)
(* cashback history.  The relay registers each bundle it is about to       *)
(* submit (services/pending-cashback.ts); the indexer                      *)
(* (indexer/cashback.ts) reads CashbackSettled logs from the geyser stream *)
(* one at a time, takes the registry's entry for (user, searcher, bid) and *)
(* stores a cashback_events row linked to the auction's row.               *)
(*                                                                         *)
(* The steps of SwapPipeline run beside it: SubmitBundle registers, the    *)
(* confirmation of a bundle feeds the stream, a restart empties what the   *)
(* relay keeps in memory.                                                  *)
(***************************************************************************)
EXTENDS SwapPipeline

CONSTANTS
    UserOf,         \* the user behind each hint
    NoHint,         \* no entry, no auction id
    MaxRepeats      \* bound on settlements the stream delivers again

ASSUME DeliveryAssumption == NoHint \notin Hints /\ MaxRepeats \in Nat

VARIABLES
    pending,    \* PendingCashbackRegistry.entries
    streaming,  \* the geyser subscription is up
    stream,     \* updates queued for the indexer
    current,    \* the event handleEvent is working on, if any
    confirmed,  \* cashback_confirmed events emitted, in order
    history,    \* the cashback_events table
    repeats,
    calm        \* no fault of the stream, the registry or the relay will happen

delivery == <<pending, streaming, stream, current, confirmed, history, repeats, calm>>
allVars == <<vars, delivery>>

Users == {UserOf[h] : h \in Hints}
Keys == Users \X Searchers \X Bids

\* CashbackSettled names no hint; the signature is the settle transaction's.
Event(b) ==
    [user |-> UserOf[b[1]], searcher |-> Commitment(b).searcher,
     bid |-> Commitment(b).bid, signature |-> b]

KeyWithoutUser(e) == <<CHOOSE u \in Users : TRUE, e.searcher, e.bid>>

\* makeKey of the settlement a bundle or an event stands for.
Key(e) == <<e.user, e.searcher, e.bid>>

NoEvent == [phase |-> "idle"]

Idle == current = NoEvent

DInit ==
    /\ Init
    /\ pending = [k \in Keys |-> NoHint]
    /\ streaming = TRUE
    /\ stream = <<>>
    /\ current = NoEvent
    /\ confirmed = <<>>
    /\ history = {}
    /\ repeats = 0
    /\ calm \in IF Lossy THEN BOOLEAN ELSE {TRUE}

----------------------------------------------------------------------------
NotRegistered(b) == pending

\* register: a new entry replaces the old one of the same key.
Registered(b) == [pending EXCEPT ![Key(Event(b))] = b[1]]

TakenLeft(e) == pending

\* take: the entry is handed out once.
Taken(e) == [pending EXCEPT ![Key(e)] = NoHint]

\* onBeforeBundleSubmit, then sendBundle.
RegisterAndSubmit(h) ==
    /\ SubmitBundle(h)
    /\ pending' = Registered(<<h, attempt[h]>>)
    /\ UNCHANGED <<streaming, stream, current, confirmed, history, repeats, calm>>

\* The settlement is confirmed: the subscription, if there is one, sends it.
ConfirmOnChain(b) ==
    /\ FinalizeBundle(b)
    /\ stream' = IF streaming THEN Append(stream, Event(b)) ELSE stream
    /\ UNCHANGED <<pending, streaming, current, confirmed, history, repeats, calm>>

\* A new subscription repeats a settlement it or an earlier one delivered.
RepeatOnChain(b) ==
    /\ streaming
    /\ bundle[b] = "finalized"
    /\ repeats < MaxRepeats
    /\ repeats' = repeats + 1
    /\ stream' = Append(stream, Event(b))
    /\ UNCHANGED <<vars, pending, streaming, current, confirmed, history, calm>>

\* The stream fails or ends; what is queued is still drained.
StreamDown ==
    /\ ~calm
    /\ streaming
    /\ streaming' = FALSE
    /\ UNCHANGED <<vars, pending, stream, current, confirmed, history, repeats, calm>>

\* runIndexer subscribes again once the queue is drained and the backoff over.
Resubscribe ==
    /\ ~streaming
    /\ stream = <<>> /\ Idle
    /\ streaming' = TRUE
    /\ UNCHANGED <<vars, pending, stream, current, confirmed, history, repeats, calm>>

\* handleUpdate and handleEvent up to the first query: take the entry and tell
\* the user.
TakePending ==
    /\ Idle
    /\ stream # <<>>
    /\ stream' = Tail(stream)
    /\ LET e == Head(stream)
           hint == pending[Key(e)]
       IN  /\ pending' = Taken(e)
           /\ confirmed' = IF hint = NoHint THEN confirmed
                           ELSE Append(confirmed, [hint |-> hint, signature |-> e.signature])
           /\ current' = [phase |-> "resolving", signature |-> e.signature, hint |-> hint]
    /\ UNCHANGED <<vars, streaming, history, repeats, calm>>

\* resolveAuctionId: the auction's row, if persistAuction has written it.
AuctionIdOf(hint) ==
    IF hint # NoHint /\ rows[hint] # NoRow THEN hint ELSE NoHint

ResolveAuctionId ==
    /\ ~Idle /\ current.phase = "resolving"
    /\ \/ current' = [phase |-> "inserting", signature |-> current.signature,
                      hint |-> AuctionIdOf(current.hint)]
       \/ current' = NoEvent    \* the query failed
    /\ UNCHANGED <<vars, pending, streaming, stream, confirmed, history, repeats, calm>>

\* The signature column is unique.
ConflictsWithNothing(signature) == FALSE

AlreadyStored(signature) == \E r \in history : r.signature = signature

\* The insert, with onConflictDoNothing; a failure is logged.
StoreCashbackEvent ==
    /\ ~Idle /\ current.phase = "inserting"
    /\ current' = NoEvent
    /\ \/ /\ ~AlreadyStored(current.signature)
          /\ history' = history \cup
                {[signature |-> current.signature, auction |-> current.hint]}
       \/ UNCHANGED history
    /\ UNCHANGED <<vars, pending, streaming, stream, confirmed, repeats, calm>>

\* ENTRY_TTL_MS after the registration, by which time the auction is over.
ExpirePending(k) ==
    /\ ~calm
    /\ pending[k] # NoHint
    /\ pc[pending[k]] = "done"
    /\ pending' = [pending EXCEPT ![k] = NoHint]
    /\ UNCHANGED <<vars, streaming, stream, current, confirmed, history, repeats, calm>>

RestartRelay ==
    /\ ~calm
    /\ Restart
    /\ pending' = [k \in Keys |-> NoHint]
    /\ streaming' = FALSE
    /\ stream' = <<>>
    /\ current' = NoEvent
    /\ UNCHANGED <<confirmed, history, repeats, calm>>

PipelineStep ==
    /\ \/ \E h \in Hints :
            \/ CloseAuction(h) \/ FallbackSwap(h) \/ SkipCandidate(h)
            \/ SendBundleReturns(h) \/ SendBundleThrows(h) \/ ResultTimeout(h)
            \/ PersistAuction(h)
       \/ HandleBundleResult
       \/ \E b \in Bundles : AcceptBundle(b) \/ RefuseBundle(b) \/ LandBundle(b)
       \/ LoseResult
       \/ \E s \in Searchers : WithdrawEscrow(s)
    /\ UNCHANGED delivery

Indexer == TakePending \/ ResolveAuctionId \/ StoreCashbackEvent \/ Resubscribe

DNext ==
    \/ PipelineStep
    \/ \E h \in Hints : RegisterAndSubmit(h)
    \/ \E b \in Bundles : ConfirmOnChain(b) \/ RepeatOnChain(b)
    \/ StreamDown
    \/ Indexer
    \/ \E k \in Keys : ExpirePending(k)
    \/ RestartRelay

DSpec == DInit /\ [][DNext]_allVars

\* The indexer's loop runs whenever it has work, and a processed bundle is
\* confirmed in the end (no forks).
DFairness ==
    /\ WF_allVars(Indexer)
    /\ \A b \in Bundles : WF_allVars(ConfirmOnChain(b))

DFairSpec == DSpec /\ DFairness

----------------------------------------------------------------------------
(* Properties *)

Confirmations == {confirmed[i] : i \in DOMAIN confirmed}

\* Type correctness of the delivery path: registry, stream, event in hand,
\* notices and history.
DTypeOK ==
    /\ pending \in [Keys -> Hints \cup {NoHint}]
    /\ streaming \in BOOLEAN
    /\ stream \in Seq([user : Users, searcher : Searchers, bid : Bids, signature : Bundles])
    /\ Idle \/ current \in [phase : {"resolving", "inserting"}, signature : Bundles,
                            hint : Hints \cup {NoHint}]
    /\ confirmed \in Seq([hint : Hints, signature : Bundles])
    /\ history \subseteq [signature : Bundles, auction : Hints \cup {NoHint}]
    /\ repeats \in 0..MaxRepeats
    /\ calm \in BOOLEAN

\* A user is told "cashback confirmed" for an auction only when that auction's
\* own settlement is on the chain, never because of somebody else's.
ConfirmedMeansSettled ==
    \A c \in Confirmations :
        c.hint = c.signature[1] /\ Commitment(c.signature) \in honoured

\* A settlement is announced at most once, however often the stream delivers it.
ConfirmedOnce ==
    \A i, j \in DOMAIN confirmed :
        confirmed[i].signature = confirmed[j].signature => i = j

\* The history holds each settlement once and never files it under another
\* user's auction; all that is kept of a settlement is well typed.
HistoryIsOfItsAuction ==
    /\ DTypeOK
    /\ \A r \in history : r.auction \in {NoHint, r.signature[1]}
    /\ \A q, r \in history : q.signature = r.signature => q = r

\* Whatever is lost, repeated or delayed, the events the user of an auction is
\* sent obey the protocol its swap card is written against.
Emitted == [h \in Hints |->
    events[h] \cup (IF \E c \in Confirmations : c.hint = h
                    THEN {"cashback_confirmed"} ELSE {})]

UserEvents == INSTANCE AuctionEvents WITH Auctions <- Hints, emitted <- Emitted

ImplementsAuctionEvents == UserEvents!EventsSpec

\* As long as the stream, the registry entry and the relay last, every settlement
\* reaches its user: the entry is in place before the stream can deliver the log,
\* whatever the order in which the bundle lands, sendBundle returns or throws and
\* its result arrives, is lost or comes too late.
SettlementIsAnnounced ==
    \A b \in Bundles : calm /\ bundle[b] = "processed" ~>
        \E c \in Confirmations : c = [hint |-> b[1], signature |-> b]
=============================================================================
