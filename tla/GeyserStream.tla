---------------------------- MODULE GeyserStream ----------------------------
(***************************************************************************)
(* The cashback indexer's subscription loop (relay/src/indexer/            *)
(* cashback.ts) over a geyser source: the Yellowstone stream               *)
(* (geyser/yellowstone-source.ts) or the in-process mock                   *)
(* (geyser/mock-source.ts), each feeding an AsyncQueue.                    *)
(*                                                                         *)
(* Callbacks (timers, stream events, the abort) run between any two awaits *)
(* of the loop; burst is the rest of a timer callback that pushes several  *)
(* updates, and runs to its end first.  The queue variables are those of   *)
(* the latest subscription.                                                *)
(***************************************************************************)
EXTENDS MockEvents

CONSTANTS
    Environments,       \* settings createGeyserSource may be started with
    Requests,           \* what a consumer of the mock may subscribe to
    MaxSubscriptions,   \* bound on subscriptions opened
    MaxUpdates          \* bound on updates per subscription

ASSUME GeyserAssumption ==
    /\ {MaxSubscriptions, MaxUpdates} \subseteq Nat \ {0}
    /\ RandomSizes \subseteq Nat
    /\ \A r \in Requests : IsSubscribeRequest(r)

VARIABLES
    source,     \* which GeyserSource was created
    request,
    buffered, waiters, closed, calls, outcome, accepted,    \* AsyncQueue
    phase,      \* where runIndexer stands
    attempt,    \* number of the latest subscription
    running,    \* subscriptions whose stream or timers are live
    abandoned,  \* subscriptions whose first write failed
    slot,       \* the mock subscription's slot
    burst,
    aborted,
    late        \* the abort came while no listener was attached

queue == <<buffered, waiters, closed, calls, outcome, accepted>>
loop == <<phase, attempt, abandoned>>
config == <<source, request>>
vars == <<config, queue, loop, running, slot, burst, aborted, late>>

\* The sources choose the values pushed.
Q == INSTANCE AsyncQueue WITH Values <- {}

----------------------------------------------------------------------------
(* Starting *)

\* GEYSER_SOURCE is "mock" by default; a source that cannot be created stops
\* the relay.
CreateGeyserSource(env) ==
    CASE env.kind = "yellowstone" /\ env.endpoint -> "yellowstone"
      [] env.kind \in {"mock", "unset"} -> "mock"
      [] OTHER -> "none"

Init ==
    /\ \E env \in Environments : source = CreateGeyserSource(env)
    /\ source # "none"
    /\ request \in IF source = "mock" THEN Requests ELSE {ProgramTxRequest}
    /\ Q!QueueInit
    /\ phase = "subscribing"
    /\ attempt = 0
    /\ running = {}
    /\ abandoned = {}
    /\ slot = 0
    /\ burst = <<>>
    /\ aborted = FALSE
    /\ late = FALSE

----------------------------------------------------------------------------
(* The subscription loop *)

\* The updates of a new subscription come through a queue of its own.
NewQueue ==
    /\ buffered' = <<>> /\ waiters' = <<>> /\ closed' = "no"
    /\ calls' = 0 /\ outcome' = <<>> /\ accepted' = <<>>

\* The mock subscribes at once; Yellowstone has connected and must still write
\* the request.
Subscribe ==
    /\ phase = "subscribing"
    /\ attempt' = attempt + 1
    /\ running' = running \cup {attempt + 1}
    /\ NewQueue
    /\ slot' = 0
    /\ phase' = IF source = "mock" THEN "asking" ELSE "writing"
    /\ UNCHANGED <<config, abandoned, burst, aborted, late>>

\* The loop ends for good or waits for its backoff.
Leave == phase' = IF aborted THEN "stopped" ELSE "backoff"

ConnectFails ==
    /\ phase = "subscribing"
    /\ source = "yellowstone"
    /\ Leave
    /\ UNCHANGED <<config, queue, attempt, abandoned, running, slot, burst, aborted, late>>

Written ==
    /\ phase = "writing"
    /\ phase' = "asking"
    /\ UNCHANGED <<config, queue, attempt, abandoned, running, slot, burst, aborted, late>>

\* subscribe() throws, and nobody holds the stream to close it.
WriteFails ==
    /\ phase = "writing"
    /\ abandoned' = abandoned \cup {attempt}
    /\ Leave
    /\ UNCHANGED <<config, queue, attempt, running, slot, burst, aborted, late>>

\* for await asks for the next update.
Ask ==
    /\ phase = "asking"
    /\ Q!NextCall
    /\ phase' = "awaiting"
    /\ UNCHANGED <<config, attempt, abandoned, running, slot, burst, aborted, late>>

CloseQueueOnly == Q!End /\ UNCHANGED running

\* close(): end the queue, stop the timers or the stream.
CloseSubscription ==
    /\ Q!End
    /\ running' = running \ {attempt}

\* Whether handleUpdate has something to await.
IsSettlement(update) ==
    /\ update.kind = "transaction"
    /\ DecodeCashbackSettled(update.logs) # NoEvent

\* An update arrived: handle it, unless the indexer was told to stop.
TakeUpdate ==
    /\ phase = "awaiting"
    /\ outcome[calls].type = "value"
    /\ ~aborted
    /\ phase' = IF IsSettlement(outcome[calls].value) THEN "handling" ELSE "asking"
    /\ UNCHANGED <<config, queue, attempt, abandoned, running, slot, burst, aborted, late>>

HandleEnds ==
    /\ phase = "handling"
    /\ phase' = "asking"
    /\ UNCHANGED <<config, queue, attempt, abandoned, running, slot, burst, aborted, late>>

\* The queue ended or failed, or an update came after the abort: close, and
\* wait or stop.
LeaveLoop ==
    /\ phase = "awaiting"
    /\ \/ outcome[calls].type \in {"ended", "failed"}
       \/ outcome[calls].type = "value" /\ aborted
    /\ CloseSubscription
    /\ Leave
    /\ UNCHANGED <<config, attempt, abandoned, slot, burst, aborted, late>>

\* The backoff is over, or was cut short by the abort.
Reconnect ==
    /\ phase = "backoff"
    /\ \/ aborted /\ phase' = "stopped"
       \/ ~aborted /\ attempt < MaxSubscriptions /\ phase' = "subscribing"
    /\ UNCHANGED <<config, queue, attempt, abandoned, running, slot, burst, aborted, late>>

Listening == phase \in {"asking", "awaiting", "handling"}

AbortUnheard ==
    /\ ~aborted
    /\ aborted' = TRUE
    /\ late' = ~Listening
    /\ UNCHANGED <<config, queue, loop, running, slot, burst>>

\* The function startCashbackIndexer returned: close the subscription, if the
\* loop has one.
Abort ==
    /\ ~aborted
    /\ aborted' = TRUE
    /\ late' = (phase \in {"subscribing", "writing"})
    /\ IF Listening THEN CloseSubscription ELSE UNCHANGED <<queue, running>>
    /\ UNCHANGED <<config, loop, slot, burst>>

----------------------------------------------------------------------------
(* The sources *)

Producing ==
    /\ attempt \in running
    /\ phase \in {"writing", "asking", "awaiting", "handling"}
    /\ Len(accepted) < MaxUpdates

\* What the validator sends: a transaction of the program, which settles or not.
StreamData ==
    /\ source = "yellowstone"
    /\ Producing
    /\ \E update \in {TransactionUpdate("flowback", 0, <<TextLog>>)}
                     \cup {CashbackUpdate(0, e) : e \in CashbackEvents} : Q!Push(update)
    /\ UNCHANGED <<config, loop, running, slot, burst, aborted, late>>

\* The stream's error, end or close event.
StreamDown ==
    /\ source = "yellowstone"
    /\ attempt \in running
    /\ phase \in {"writing", "asking", "awaiting", "handling"}
    /\ Q!Fail \/ Q!End
    /\ running' = running \ {attempt}
    /\ UNCHANGED <<config, loop, slot, burst, aborted, late>>

\* The mock's intra-slot timer.
IntraslotTick ==
    /\ source = "mock"
    /\ Producing
    /\ \E update \in IntraslotEvents(request, slot) : Q!Push(update)
    /\ UNCHANGED <<config, loop, running, slot, burst, aborted, late>>

\* The mock's slot timer pushes a slot's events one after the other.
SlotTick ==
    /\ source = "mock"
    /\ Producing
    /\ burst' = SlotBoundaryEvents(request, slot)
    /\ slot' = slot + 1
    /\ UNCHANGED <<config, queue, loop, running, aborted, late>>

PushBurst ==
    /\ burst # <<>>
    /\ Q!Push(Head(burst))
    /\ burst' = Tail(burst)
    /\ UNCHANGED <<config, loop, running, slot, aborted, late>>

\* A synthetic settlement, on a timer or by injectCashbackSettled.
CashbackTick ==
    /\ source = "mock"
    /\ Producing
    /\ \E e \in CashbackEvents : Q!Push(CashbackUpdate(slot, e))
    /\ UNCHANGED <<config, loop, running, slot, burst, aborted, late>>

----------------------------------------------------------------------------
Indexer ==
    \/ Subscribe \/ ConnectFails \/ Written \/ WriteFails \/ Ask \/ TakeUpdate
    \/ HandleEnds \/ LeaveLoop \/ Reconnect

Next ==
    \/ PushBurst
    \/ /\ burst = <<>>
       /\ Indexer \/ Abort \/ StreamData \/ StreamDown \/ IntraslotTick \/ SlotTick \/ CashbackTick

Spec == Init /\ [][Next]_vars

\* A callback runs to its end, and what the loop awaits comes about: the
\* subscription, the write, handleEvent's queries and the delay.
FairSpec == Spec /\ WF_vars(PushBurst) /\ WF_vars(burst = <<>> /\ Indexer)

----------------------------------------------------------------------------
(* Properties *)

\* The queue of every subscription keeps AsyncQueue's promise, whatever the
\* interleaving of timers, stream events, the abort and the loop.
InOrder == Q!InOrder

\* No stream and no timer outlives its subscription, however it ended, except
\* that of a stream whose first write failed.
NothingLeftRunning ==
    running \subseteq abandoned \cup (IF phase \in {"subscribing", "backoff", "stopped"}
                                      THEN {} ELSE {attempt})

\* The abort stops the loop, also when it waits for an update or for its
\* backoff; one that comes while the loop is subscribing is not heard.
AbortStops == aborted /\ ~late ~> phase = "stopped"

\* "honor the SubscribeRequest the way real geyser would"
\* (geyser/mock-events.ts:17): the update answers a filter of the request, and
\* account data has the size and the bytes its filters ask for, if any data can.
Consistent(filters) ==
    \A i, j \in DOMAIN filters :
        /\ filters[i].datasize \in {NoSize, filters[j].datasize} \/ filters[j].datasize = NoSize
        /\ filters[j].datasize # NoSize =>
            filters[i].memcmp.offset + Len(filters[i].memcmp.bytes) <= filters[j].datasize
        /\ \A p \in DOMAIN filters[i].memcmp.bytes, q \in DOMAIN filters[j].memcmp.bytes :
            filters[i].memcmp.offset + p = filters[j].memcmp.offset + q =>
                filters[i].memcmp.bytes[p] = filters[j].memcmp.bytes[q]

Satisfies(data, f) ==
    /\ f.datasize # NoSize => Len(data) = f.datasize
    /\ \A p \in DOMAIN f.memcmp.bytes :
        f.memcmp.offset + p \in DOMAIN data /\ data[f.memcmp.offset + p] = f.memcmp.bytes[p]

Answers(update) ==
    CASE update.kind = "transaction" ->
            update.filter \in ToSet(request.transactions) \/ IsSettlement(update)
      [] update.kind = "transactionStatus" -> update.filter \in ToSet(request.transactionsStatus)
      [] update.kind = "account" ->
            \E a \in ToSet(request.accounts) :
                /\ update.filter = a.name
                /\ update.pubkey \in a.account \/ a.account = {} \/ Malformed \in a.account
                /\ Consistent(a.filters) => \A i \in DOMAIN a.filters : Satisfies(update.data, a.filters[i])
      [] update.kind = "slot" -> update.filter \in ToSet(request.slots) \/ request.slots = <<>>
      [] update.kind = "block" -> update.filter \in ToSet(request.blocks)
      [] update.kind = "blockMeta" -> update.filter \in ToSet(request.blocksMeta)

HonoursRequest ==
    /\ \A i \in DOMAIN accepted :
        Answers(accepted[i]) \/ \A kind \in Kinds : request[kind] = <<>>
    /\ \A i, j \in DOMAIN accepted : i < j => accepted[i].slot <= accepted[j].slot
=============================================================================
