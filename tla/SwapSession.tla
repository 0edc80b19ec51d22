---------------------------- MODULE SwapSession ----------------------------
(***************************************************************************)
(* A user's swaps, from the click on the swap card to the outcome it       *)
(* shows: the card (client/src/components/flowback/swap-card.tsx), the     *)
(* prepared-swap store and the /intent handler (services/prepare-store.ts, *)
(* prepare.service.ts, intent.service.ts), the status events               *)
(* (ws/user.ts) and the browser's status socket.                           *)
(*                                                                         *)
(* What the relay emits about an auction is any behaviour of               *)
(* AuctionEvents, which module CashbackDelivery shows the relay implements.*)
(* The n-th swap has the n-th prepareId and the n-th status socket.        *)
(***************************************************************************)
EXTENDS Integers, Sequences, SequencesExt

CONSTANTS
    MaxSwaps,       \* bound on clicks
    MaxRequests,    \* bound on /intent requests that reach the relay
    MaxEvents       \* bound on events per auction

ASSUME SessionAssumption == {MaxSwaps, MaxRequests, MaxEvents} \subseteq Nat \ {0}

Swaps == 1..MaxSwaps
Auctions == 1..MaxRequests  \* an auction is named after the request it serves
Nothing == 0

VARIABLES
    step,       \* where handleAction stands; "idle" means not swapping
    swap,       \* swaps started so far
    notice,     \* what the card says
    toasts,     \* auctions whose cashback the page announces
    watched,    \* the auction each status socket subscribes to
    stream,     \* state of each status socket
    handled,    \* events of each socket the card has handled
    store,      \* PreparedSwapStore.entries
    request,    \* /intent requests
    log,        \* events emitted for each auction
    buffer,     \* UserStatusEmitter.buffer
    subscribers,\* UserStatusEmitter.subscribers
    sent,       \* events the relay sent on each status socket
    calm        \* nothing fails and no TTL or timeout runs out

card == <<step, swap, notice, toasts, watched, stream, handled>>
intents == <<store, request>>
emitter == <<log, buffer, subscribers, sent>>
session == <<card, intents, emitter>>
vars == <<session, calm>>

Emitted == [h \in Auctions |-> ToSet(log[h])]
Events == INSTANCE AuctionEvents WITH emitted <- Emitted

Outcomes == Events!EventTypes \ {"bundle_submitted"}
NoRequest == [swap |-> Nothing, state |-> "none"]
Says(kind) == [kind |-> kind, auction |-> Nothing]
SaysOf(kind, h) == [kind |-> kind, auction |-> h]

Init ==
    /\ step = "idle"
    /\ swap = 0
    /\ notice = Says("none")
    /\ toasts = <<>>
    /\ watched = [k \in Swaps |-> Nothing]
    /\ stream = [k \in Swaps |-> "none"]
    /\ handled = [k \in Swaps |-> 0]
    /\ store = {}
    /\ request = [h \in Auctions |-> NoRequest]
    /\ log = [h \in Auctions |-> <<>>]
    /\ buffer = [h \in Auctions |-> <<>>]
    /\ subscribers = [h \in Auctions |-> {}]
    /\ sent = [k \in Swaps |-> <<>>]
    /\ calm \in BOOLEAN

----------------------------------------------------------------------------
(* The swap card *)

ClearedTimerOnly == stream

\* clearAuctionWatch: the current status socket is closed; one that is still
\* connecting is aborted, which fires its error event.
Cleared ==
    [k \in Swaps |->
        IF k # swap THEN stream[k]
        ELSE CASE stream[k] = "connecting" -> "aborting"
               [] stream[k] = "open" -> "closed"
               [] OTHER -> stream[k]]

\* The watch is over, and with it the swap, as far as the card goes.
Finish(message) ==
    /\ stream' = Cleared
    /\ step' = "idle"
    /\ notice' = message

\* handleAction up to prepareSwap.
StartSwap ==
    /\ step = "idle"
    /\ swap < MaxSwaps
    /\ swap' = swap + 1
    /\ stream' = Cleared
    /\ step' = "preparing"
    /\ notice' = Says("info")
    /\ UNCHANGED <<toasts, watched, handled, intents, emitter>>

\* An awaited call of handleAction throws: preparation, the wallet, the
\* simulation, or a refused /intent request.
Fail ==
    /\ \/ step \in {"preparing", "signing"}
       \/ /\ step = "submitting"
          /\ ~calm \/ \E h \in Auctions : request[h] = [swap |-> swap, state |-> "refused"]
    /\ Finish(Says("error"))
    /\ UNCHANGED <<swap, toasts, watched, handled, intents, emitter>>

\* prepareSwap: the relay puts the entry and the answer arrives, or not.
Prepare ==
    /\ step = "preparing"
    /\ store' = store \cup {swap}
    /\ \/ /\ step' = "signing"
          /\ UNCHANGED <<swap, notice, toasts, watched, stream, handled>>
       \/ /\ ~calm
          /\ Finish(Says("error"))
          /\ UNCHANGED <<swap, toasts, watched, handled>>
    /\ UNCHANGED <<request, emitter>>

PostIntent ==
    \E h \in Auctions :
        /\ request[h] = NoRequest
        /\ \A g \in Auctions : g < h => request[g] # NoRequest
        /\ request' = [request EXCEPT ![h] = [swap |-> swap, state |-> "sent"]]

\* The user signed and the simulation passed.
Submit ==
    /\ step = "signing"
    /\ step' = "submitting"
    /\ PostIntent
    /\ UNCHANGED <<swap, notice, toasts, watched, stream, handled, store, emitter>>

\* A connection that broke makes the user agent post the request again.
Repost ==
    /\ ~calm
    /\ step = "submitting"
    /\ PostIntent
    /\ UNCHANGED <<card, store, emitter>>

\* submitIntent answers with the auction: watch it, for STATUS_TIMEOUT_MS.
Watch(h) ==
    /\ step = "submitting"
    /\ request[h] = [swap |-> swap, state |-> "started"]
    /\ step' = "watching"
    /\ watched' = [watched EXCEPT ![swap] = h]
    /\ stream' = [stream EXCEPT ![swap] = "connecting"]
    /\ UNCHANGED <<swap, notice, toasts, handled, intents, emitter>>

StatusEventTypes ==
    {"bundle_submitted", "cashback_confirmed", "fallback_executed", "auction_failed"}

\* parseStatusEvent: what is none of these is dropped.
ParseStatusEvent(type) == IF type \in StatusEventTypes THEN type ELSE "null"

\* SwapPage's onCashback.
OnCashback(h) == toasts' = Append(toasts, h)

\* The next event on an open socket: progress, or an outcome.
ReceiveEvent(k) ==
    /\ stream[k] = "open"
    /\ handled[k] < Len(sent[k])
    /\ handled' = [handled EXCEPT ![k] = @ + 1]
    /\ LET type == ParseStatusEvent(sent[k][handled[k] + 1])
       IN  \/ /\ type \notin Outcomes
              /\ notice' = IF type = "bundle_submitted" THEN Says("info") ELSE notice
              /\ UNCHANGED <<stream, step, toasts>>
           \/ /\ type \in Outcomes
              /\ Finish(SaysOf(type, watched[k]))
              /\ IF type = "cashback_confirmed" THEN OnCashback(watched[k]) ELSE UNCHANGED toasts
    /\ UNCHANGED <<swap, watched, intents, emitter>>

TimerArmedWhileConnected == step = "watching" /\ stream[swap] # "closed"

\* statusTimeoutRef is set with the watch and cleared with it.
TimerArmed == step = "watching"

StatusTimeout ==
    /\ ~calm
    /\ TimerArmed
    /\ Finish(Says("pending"))
    /\ UNCHANGED <<swap, toasts, watched, handled, intents, emitter>>

\* A toast goes when its eight seconds are over, or when it is clicked away.
DismissToast ==
    /\ toasts # <<>>
    /\ \E i \in DOMAIN toasts : toasts' = RemoveAt(toasts, i)
    /\ UNCHANGED <<step, swap, notice, watched, stream, handled, intents, emitter>>

----------------------------------------------------------------------------
(* The status socket *)

StreamOpens(k) ==
    /\ stream[k] = "connecting"
    /\ stream' = [stream EXCEPT ![k] = "open"]
    /\ UNCHANGED <<step, swap, notice, toasts, watched, handled, intents, emitter>>

\* The socket fails, and the card says so, or closes without an error event,
\* which nobody listens to; the card goes on swapping.
StreamFails(k) ==
    /\ \/ ~calm /\ stream[k] \in {"connecting", "open"}
       \/ stream[k] = "aborting"
    /\ stream' = [stream EXCEPT ![k] = "closed"]
    /\ \/ notice' = Says("disconnected")
       \/ stream[k] = "open" /\ UNCHANGED notice
    /\ UNCHANGED <<step, swap, toasts, watched, handled, intents, emitter>>

----------------------------------------------------------------------------
(* The relay *)

TakenKept(k) == store

\* take: a prepared swap is handed out once.
Taken(k) == store \ {k}

\* What the controller answers, once it does: the auction, or a refusal, of which
\* only the wording differs.
Answer(h, state) == request' = [request EXCEPT ![h].state = state]

\* submitIntent up to verifyUserSignature.  The entry is gone even when the
\* wallet changed the message and the request is refused.
TakePrepared(h) ==
    /\ request[h].state = "sent"
    /\ store' = Taken(request[h].swap)
    /\ \E state \in {"verifying", "refused"} :
        /\ state = "verifying" => request[h].swap \in store
        /\ Answer(h, state)
    /\ UNCHANGED <<card, emitter>>

\* The signature is good: startAuction; or it is not.
StartAuction(h) ==
    /\ request[h].state = "verifying"
    /\ \E state \in {"started", "refused"} : Answer(h, state)
    /\ UNCHANGED <<card, store, emitter>>

ExpirePrepared(k) ==
    /\ ~calm
    /\ k \in store
    /\ store' = store \ {k}
    /\ UNCHANGED <<card, request, emitter>>

\* pushBuffer: a buffer for each auction.
Buffered(h, type) == [buffer EXCEPT ![h] = Append(@, type)]

\* emit: buffer the event and send it to whoever has subscribed.
Emit(h, type) ==
    /\ request[h].state = "started"
    /\ Len(log[h]) < MaxEvents
    /\ log' = [log EXCEPT ![h] = Append(@, type)]
    /\ Events!Emit(h, type)
    /\ buffer' = Buffered(h, type)
    /\ sent' = [k \in Swaps |->
                    IF k \in subscribers[h] THEN Append(sent[k], type) ELSE sent[k]]
    /\ UNCHANGED <<card, intents, subscribers>>

\* BUFFER_TTL_MS after the last event of the auction.
ExpireBuffer(h) ==
    /\ ~calm
    /\ buffer[h] # <<>>
    /\ buffer' = [buffer EXCEPT ![h] = <<>>]
    /\ UNCHANGED <<card, intents, log, subscribers, sent>>

ReplayNothing(h) == <<>>

\* What a new subscriber is sent first.
Replay(h) == buffer[h]

\* The subscribe message the card sent on open arrives.
Subscribe(k) ==
    /\ stream[k] = "open"
    /\ k \notin subscribers[watched[k]]
    /\ subscribers' = [subscribers EXCEPT ![watched[k]] = @ \cup {k}]
    /\ sent' = [sent EXCEPT ![k] = @ \o Replay(watched[k])]
    /\ UNCHANGED <<card, intents, log, buffer>>

\* The relay's close handler runs some time after the browser's.
Unsubscribe(k) ==
    /\ stream[k] = "closed"
    /\ \E h \in Auctions :
        /\ k \in subscribers[h]
        /\ subscribers' = [subscribers EXCEPT ![h] = @ \ {k}]
    /\ UNCHANGED <<card, intents, log, buffer, sent>>

----------------------------------------------------------------------------
Step ==
    \/ StartSwap \/ Fail \/ Prepare \/ Submit \/ Repost \/ StatusTimeout \/ DismissToast
    \/ \E h \in Auctions :
        \/ Watch(h) \/ TakePrepared(h) \/ StartAuction(h) \/ ExpireBuffer(h)
        \/ \E type \in Events!EventTypes : Emit(h, type)
    \/ \E k \in Swaps :
        \/ StreamOpens(k) \/ StreamFails(k) \/ ReceiveEvent(k)
        \/ Subscribe(k) \/ Unsubscribe(k) \/ ExpirePrepared(k)

Next == Step /\ UNCHANGED calm

Spec == Init /\ [][Next]_vars

\* The card's timer fires; sockets open, and what is sent on them arrives.
Fairness ==
    /\ WF_session(StatusTimeout)
    /\ \A k \in Swaps :
        /\ WF_session(StreamOpens(k)) /\ WF_session(Subscribe(k))
        /\ WF_session(ReceiveEvent(k))

FairSpec == Spec /\ Fairness

----------------------------------------------------------------------------
(* Properties *)

\* Type correctness of the card, its sockets, the store and the emitter.
TypeOK ==
    /\ step \in {"idle", "preparing", "signing", "submitting", "watching"}
    /\ swap \in 0..MaxSwaps
    /\ notice \in [kind : {"none", "info", "error", "pending", "disconnected"} \cup Outcomes,
                   auction : Auctions \cup {Nothing}]
    /\ ToSet(toasts) \subseteq Auctions
    /\ watched \in [Swaps -> Auctions \cup {Nothing}]
    /\ stream \in [Swaps -> {"none", "connecting", "open", "aborting", "closed"}]
    /\ \A k \in Swaps : handled[k] \in 0..Len(sent[k])
    /\ store \subseteq Swaps
    /\ request \in [Auctions -> [swap : Swaps \cup {Nothing},
            state : {"none", "sent", "verifying", "started", "refused"}]]
    /\ \A h \in Auctions : ToSet(buffer[h]) \subseteq Emitted[h]
    /\ subscribers \in [Auctions -> SUBSET Swaps]
    /\ calm \in BOOLEAN

\* A swap the user signed once is auctioned at most once, however often its
\* request is delivered and however the deliveries interleave.
OneAuctionPerSignature ==
    \A g, h \in Auctions :
        /\ request[g].state = "started" /\ request[h].state = "started"
        /\ request[g].swap = request[h].swap
        => g = h

\* The outcome on the card is one the relay emitted for the auction of the
\* user's latest swap, never that of an earlier one whose status came late; and
\* a cashback is announced once, if it was confirmed.
OutcomeIsOfThisSwap ==
    /\ notice.kind \in Outcomes =>
        /\ notice.auction = watched[swap]
        /\ notice.kind \in Emitted[notice.auction]
    /\ IsInjective(toasts)
    /\ \A h \in ToSet(toasts) : "cashback_confirmed" \in Emitted[h]

\* A subscriber was sent the events of its auction in order, with none missing
\* in between or repeated, and all those the relay still holds.
SubscriberIsUpToDate ==
    \A h \in Auctions : \A k \in subscribers[h] :
        stream[k] = "open" => IsSuffix(sent[k], log[h]) /\ IsSuffix(buffer[h], sent[k])

\* The card never swaps forever once the intent is submitted, even if the
\* status socket dies without a word.
WatchEnds == ~calm /\ step = "watching" ~> step # "watching"

\* An outcome reaches the card that waits for it, although the relay may emit
\* it before the card has subscribed, unless something fails or is slow.
OutcomeIsShown ==
    calm /\ step = "watching" /\ Emitted[watched[swap]] \cap Outcomes # {}
        ~> notice.kind \in Outcomes
=============================================================================
