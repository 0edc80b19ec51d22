------------------------- MODULE SwapSessionProofs -------------------------
(***************************************************************************)
(* A signed swap is auctioned at most once, the outcome shown is that of   *)
(* the latest swap, and a subscriber misses nothing, for any number of     *)
(* swaps, sockets, events and deliveries of a request.                     *)
(*                                                                         *)
(* An entry of the store is put there once, before any request for it      *)
(* exists, and the request that takes it is the only one to get past the   *)
(* store.  Only the socket of the swap being watched can still deliver,    *)
(* and a buffer is the end of its auction's log.                           *)
(***************************************************************************)
EXTENDS SwapSession, SequenceTheorems, TLAPS

\* Requests that have taken the entry of their swap.
HasTaken(h) == request[h].state \in {"verifying", "started"}

SessionType ==
    /\ swap \in 0..MaxSwaps
    /\ request \in [Auctions -> [swap : Swaps \cup {Nothing},
            state : {"none", "sent", "verifying", "started", "refused"}]]

\* Entries and requests are for swaps that were started, and the one being
\* prepared has neither.
KnownSwaps ==
    /\ store \subseteq 1..swap
    /\ step # "idle" => swap \in Swaps
    /\ \A h \in Auctions : request[h].state # "none" => request[h].swap \in 1..swap
    /\ step = "preparing" =>
        /\ swap \notin store
        /\ \A h \in Auctions : request[h].state # "none" => request[h].swap # swap

TakenOnce ==
    /\ \A h \in Auctions : HasTaken(h) => request[h].swap \notin store
    /\ \A g, h \in Auctions :
        HasTaken(g) /\ HasTaken(h) /\ request[g].swap = request[h].swap => g = h

SessionInv == SessionType /\ KnownSwaps /\ TakenOnce

\* A fresh card has neither entries nor requests.
LEMMA SessionInvInit == Init => SessionInv
  BY SessionAssumption
  DEF Init, SessionInv, SessionType, KnownSwaps, TakenOnce, HasTaken, NoRequest, Nothing,
      Swaps, Auctions

\* Steps of the card, the sockets and the emitter that start no swap touch
\* neither the store nor the requests.
Quiet ==
    /\ swap' = swap /\ store' = store /\ request' = request
    /\ step' \in {step, "idle"} \/ (step = "submitting" /\ step' = "watching")

LEMMA QuietStep == SessionInv /\ Quiet => SessionInv'
  BY DEF Quiet, SessionInv, SessionType, KnownSwaps, TakenOnce, HasTaken

\* The next swap is one nobody has seen yet.
LEMMA StartSwapKeepsInv ==
    ASSUME SessionInv, StartSwap
    PROVE  SessionInv'
<1>1. SessionType'
  BY SessionAssumption DEF SessionInv, SessionType, StartSwap, intents
<1>2. /\ swap' = swap + 1 /\ swap' \in Swaps /\ swap \in Nat
      /\ store' = store /\ request' = request
  BY SessionAssumption DEF SessionInv, SessionType, StartSwap, intents, Swaps
<1>3. KnownSwaps'
  BY <1>2 DEF SessionInv, KnownSwaps
<1>4. TakenOnce'
  BY <1>2 DEF SessionInv, TakenOnce, HasTaken
<1> QED
  BY <1>1, <1>3, <1>4 DEF SessionInv

\* The entry of the swap being prepared is put when nobody has asked for it.
LEMMA PrepareKeepsInv ==
    ASSUME SessionInv, Prepare
    PROVE  SessionInv'
<1>1. /\ step = "preparing" /\ step' \in {"signing", "idle"}
      /\ store' = store \cup {swap} /\ swap' = swap /\ request' = request
  BY DEF Prepare, Finish
<1>2. SessionType'
  BY <1>1 DEF SessionInv, SessionType
<1>3. KnownSwaps'
  BY <1>1, SessionAssumption DEF SessionInv, SessionType, KnownSwaps, Swaps
<1>4. TakenOnce'
  BY <1>1 DEF SessionInv, KnownSwaps, TakenOnce, HasTaken
<1> QED
  BY <1>2, <1>3, <1>4 DEF SessionInv

\* A request for the current swap has taken nothing yet.
LEMMA PostKeepsInv ==
    ASSUME SessionInv, PostIntent, swap' = swap, store' = store,
           step \in {"signing", "submitting"}, step' = "submitting"
    PROVE  SessionInv'
<1>1. PICK h \in Auctions :
        /\ request[h] = NoRequest
        /\ request' = [request EXCEPT ![h] = [swap |-> swap, state |-> "sent"]]
  BY DEF PostIntent
<1>2. swap \in Swaps /\ swap \in 1..swap
  BY SessionAssumption DEF SessionInv, KnownSwaps, Swaps
<1>3. /\ request'[h].state = "sent" /\ request'[h].swap = swap
      /\ \A g \in Auctions : g # h => request'[g] = request[g]
  BY <1>1 DEF SessionInv, SessionType
<1>4. SessionType'
  BY <1>1, <1>2 DEF SessionInv, SessionType
<1>5. KnownSwaps'
  BY <1>2, <1>3 DEF SessionInv, KnownSwaps
<1>6. TakenOnce'
  BY <1>3 DEF SessionInv, TakenOnce, HasTaken
<1> QED
  BY <1>4, <1>5, <1>6 DEF SessionInv

\* Whoever takes an entry was not preceded, or the entry would be gone.
LEMMA TakeKeepsInv ==
    ASSUME SessionInv, NEW h \in Auctions, TakePrepared(h)
    PROVE  SessionInv'
<1>1. PICK state \in {"verifying", "refused"} :
        /\ state = "verifying" => request[h].swap \in store
        /\ request' = [request EXCEPT ![h].state = state]
  BY DEF TakePrepared, Answer
<1>2. /\ request[h].state = "sent"
      /\ store' = store \ {request[h].swap}
      /\ step' = step /\ swap' = swap
  BY DEF TakePrepared, Taken, card
<1>3. /\ request'[h].state = state /\ request'[h].swap = request[h].swap
      /\ \A g \in Auctions : g # h => request'[g] = request[g]
  BY <1>1 DEF SessionInv, SessionType
<1>4. SessionType'
  BY <1>1, <1>2 DEF SessionInv, SessionType
<1>5. KnownSwaps'
  BY <1>2, <1>3 DEF SessionInv, KnownSwaps
<1>6. TakenOnce'
  BY <1>1, <1>2, <1>3 DEF SessionInv, TakenOnce, HasTaken
<1> QED
  BY <1>4, <1>5, <1>6 DEF SessionInv

\* An auction starts for a request that has taken its entry.
LEMMA StartAuctionKeepsInv ==
    ASSUME SessionInv, NEW h \in Auctions, StartAuction(h)
    PROVE  SessionInv'
<1>1. PICK state \in {"started", "refused"} :
        request' = [request EXCEPT ![h].state = state]
  BY DEF StartAuction, Answer
<1>2. /\ request[h].state = "verifying"
      /\ store' = store /\ step' = step /\ swap' = swap
  BY DEF StartAuction, card
<1>3. /\ request'[h].state = state /\ request'[h].swap = request[h].swap
      /\ \A g \in Auctions : g # h => request'[g] = request[g]
  BY <1>1 DEF SessionInv, SessionType
<1>4. SessionType'
  BY <1>1, <1>2 DEF SessionInv, SessionType
<1>5. KnownSwaps'
  BY <1>2, <1>3 DEF SessionInv, KnownSwaps
<1>6. TakenOnce'
  BY <1>2, <1>3 DEF SessionInv, TakenOnce, HasTaken
<1> QED
  BY <1>4, <1>5, <1>6 DEF SessionInv

\* An entry that expires is taken by nobody.
LEMMA ExpireKeepsInv ==
    ASSUME SessionInv, NEW k \in Swaps, ExpirePrepared(k)
    PROVE  SessionInv'
<1>1. store' = store \ {k} /\ request' = request /\ step' = step /\ swap' = swap
  BY DEF ExpirePrepared, card
<1> QED
  BY <1>1 DEF SessionInv, SessionType, KnownSwaps, TakenOnce, HasTaken

\* The invariant holds of every step.
LEMMA SessionInvNext == SessionInv /\ [Next]_vars => SessionInv'
<1> SUFFICES ASSUME SessionInv, [Next]_vars
             PROVE  SessionInv'
  OBVIOUS
<1>1. CASE UNCHANGED vars
  <2>1. Quiet
    BY <1>1 DEF Quiet, vars, session, card, intents
  <2> QED
    BY <2>1, QuietStep
<1>2. CASE StartSwap
  BY <1>2, StartSwapKeepsInv
<1>3. CASE Fail \/ StatusTimeout
  <2>1. Quiet
    BY <1>3 DEF Quiet, Fail, StatusTimeout, Finish, intents
  <2> QED
    BY <2>1, QuietStep
<1>4. CASE Prepare
  BY <1>4, PrepareKeepsInv
<1>5. CASE Submit \/ Repost
  BY <1>5, PostKeepsInv DEF Submit, Repost, card
<1>6. CASE DismissToast
  <2>1. Quiet
    BY <1>6 DEF Quiet, DismissToast, intents
  <2> QED
    BY <2>1, QuietStep
<1>7. ASSUME NEW h \in Auctions,
             \/ Watch(h) \/ TakePrepared(h) \/ StartAuction(h) \/ ExpireBuffer(h)
             \/ \E type \in Events!EventTypes : Emit(h, type)
      PROVE  SessionInv'
  <2>1. CASE Watch(h)
    <3>1. Quiet
      BY <2>1 DEF Quiet, Watch, intents
    <3> QED
      BY <3>1, QuietStep
  <2>2. CASE TakePrepared(h)
    BY <2>2, TakeKeepsInv
  <2>3. CASE StartAuction(h)
    BY <2>3, StartAuctionKeepsInv
  <2>4. CASE ExpireBuffer(h)
    <3>1. Quiet
      BY <2>4 DEF Quiet, ExpireBuffer, card, intents
    <3> QED
      BY <3>1, QuietStep
  <2>5. ASSUME NEW type \in Events!EventTypes, Emit(h, type)
        PROVE  SessionInv'
    <3>1. Quiet
      BY <2>5 DEF Quiet, Emit, card, intents
    <3> QED
      BY <3>1, QuietStep
  <2> QED
    BY <1>7, <2>1, <2>2, <2>3, <2>4, <2>5
<1>8. ASSUME NEW k \in Swaps,
             \/ StreamOpens(k) \/ StreamFails(k) \/ ReceiveEvent(k)
             \/ Subscribe(k) \/ Unsubscribe(k) \/ ExpirePrepared(k)
      PROVE  SessionInv'
  <2>1. CASE StreamOpens(k) \/ StreamFails(k)
    <3>1. Quiet
      BY <2>1 DEF Quiet, StreamOpens, StreamFails, intents
    <3> QED
      BY <3>1, QuietStep
  <2>2. CASE ReceiveEvent(k)
    <3>1. Quiet
      BY <2>2 DEF Quiet, ReceiveEvent, Finish, intents
    <3> QED
      BY <3>1, QuietStep
  <2>3. CASE Subscribe(k) \/ Unsubscribe(k)
    <3>1. Quiet
      BY <2>3 DEF Quiet, Subscribe, Unsubscribe, card, intents
    <3> QED
      BY <3>1, QuietStep
  <2>4. CASE ExpirePrepared(k)
    BY <2>4, ExpireKeepsInv
  <2> QED
    BY <1>8, <2>1, <2>2, <2>3, <2>4
<1> QED
  BY <1>1, <1>2, <1>3, <1>4, <1>5, <1>6, <1>7, <1>8 DEF Next, Step

\* A swap the user signed once is auctioned at most once (submitIntent and
\* PreparedSwapStore.take), however often its request is delivered.
THEOREM SignatureStartsOneAuction == Spec => []OneAuctionPerSignature
<1>1. SessionInv => OneAuctionPerSignature
  BY DEF SessionInv, TakenOnce, HasTaken, OneAuctionPerSignature
<1> QED
  BY <1>1, SessionInvInit, SessionInvNext, PTL DEF Spec

----------------------------------------------------------------------------
(* The outcome shown *)

Types == Events!EventTypes

StatusType ==
    /\ watched \in [Swaps -> Auctions \cup {Nothing}]
    /\ stream \in [Swaps -> {"none", "connecting", "open", "aborting", "closed"}]
    /\ handled \in [Swaps -> Nat]
    /\ log \in [Auctions -> Seq(Types)]
    /\ buffer \in [Auctions -> Seq(Types)]
    /\ sent \in [Swaps -> Seq(Types)]
    /\ subscribers \in [Auctions -> SUBSET Swaps]
    /\ toasts \in Seq(Auctions)

\* A swap watches the auction that was started for it, from the answer on.
WatchInv ==
    /\ \A k \in Swaps : watched[k] # Nothing =>
        /\ k <= swap
        /\ request[watched[k]].state = "started" /\ request[watched[k]].swap = k
    /\ step \in {"preparing", "signing", "submitting"} => watched[swap] = Nothing
    /\ step = "watching" => watched[swap] # Nothing

\* Only the socket of the swap being watched can still deliver events.
StreamInv ==
    \A k \in Swaps : stream[k] \in {"connecting", "open"} => k = swap /\ step = "watching"

Within(types, type) == \E i \in DOMAIN types : types[i] = type

Logged(h, type) == Within(log[h], type)

\* What is buffered or sent was emitted, for the auction that is watched.
EventInv ==
    /\ \A h \in Auctions : \A i \in DOMAIN buffer[h] : Logged(h, buffer[h][i])
    /\ \A k \in Swaps : \A i \in DOMAIN sent[k] :
        watched[k] # Nothing /\ Logged(watched[k], sent[k][i])
    /\ \A h \in Auctions : \A k \in subscribers[h] : watched[k] = h

NoticeInv ==
    notice.kind \in Outcomes =>
        /\ step = "idle" /\ swap \in Swaps
        /\ notice.auction = watched[swap] /\ notice.auction # Nothing
        /\ Logged(notice.auction, notice.kind)

\* An announced auction is that of a swap that is over.
ToastInv ==
    /\ \A i, j \in DOMAIN toasts : toasts[i] = toasts[j] => i = j
    /\ \A i \in DOMAIN toasts :
        /\ Logged(toasts[i], "cashback_confirmed")
        /\ \E k \in Swaps : watched[k] = toasts[i] /\ (k = swap => step = "idle")

StatusInv ==
    /\ SessionInv /\ StatusType
    /\ WatchInv /\ StreamInv /\ EventInv /\ NoticeInv /\ ToastInv

\* Nothing was watched, sent or shown yet.
LEMMA StatusInvInit == Init => StatusInv
<1> SUFFICES ASSUME Init PROVE StatusInv
  OBVIOUS
<1>1. SessionInv
  BY SessionInvInit
<1>2. StatusType
  BY DEF Init, StatusType
<1>3. WatchInv /\ StreamInv
  BY DEF Init, WatchInv, StreamInv
<1>4. EventInv
  BY DEF Init, EventInv
<1>5. NoticeInv
  BY DEF Init, NoticeInv, Says, Outcomes, Events!EventTypes
<1>6. ToastInv
  BY DEF Init, ToastInv
<1> QED
  BY <1>1, <1>2, <1>3, <1>4, <1>5, <1>6 DEF StatusInv

\* Clearing the watch leaves no socket that could deliver.
LEMMA ClearedTypes ==
    ASSUME StatusInv
    PROVE  /\ Cleared \in [Swaps -> {"none", "connecting", "open", "aborting", "closed"}]
           /\ \A k \in Swaps : Cleared[k] \notin {"connecting", "open"}
  BY DEF StatusInv, StatusType, StreamInv, Cleared

\* What is announced are auctions.
LEMMA ToastsAreAuctions ==
    ASSUME StatusInv
    PROVE  \A i \in DOMAIN toasts : toasts[i] \in Auctions /\ toasts[i] # Nothing
<1>1. toasts \in Seq(Auctions)
  BY DEF StatusInv, StatusType
<1>2. \A i \in DOMAIN toasts : toasts[i] \in Auctions
  BY <1>1
<1> QED
  BY <1>2 DEF Auctions, Nothing

\* A step that leaves the relay's events, the watches and the toasts alone and
\* whose message is no outcome.
LEMMA CardStep ==
    ASSUME StatusInv, SessionInv',
           UNCHANGED <<log, buffer, sent, subscribers, watched, handled, toasts>>,
           stream' = Cleared, swap' = swap, step' = "idle",
           notice'.kind \notin Outcomes,
           \A h \in Auctions : request[h].state = "started" => request'[h] = request[h]
    PROVE  StatusInv'
<1>1. StatusType'
  BY ClearedTypes DEF StatusInv, StatusType
<1>2. WatchInv'
  BY DEF StatusInv, StatusType, WatchInv
<1>3. StreamInv'
  BY ClearedTypes DEF StreamInv
<1>4. EventInv'
  BY DEF StatusInv, EventInv, Logged
<1>5. NoticeInv'
  BY DEF NoticeInv, Outcomes
<1>6. ToastInv'
  BY DEF StatusInv, ToastInv, Logged
<1> QED
  BY <1>1, <1>2, <1>3, <1>4, <1>5, <1>6 DEF StatusInv

\* A step of the card before the intent, or of the relay before the auction.
LEMMA EarlyStep ==
    ASSUME StatusInv, SessionInv',
           UNCHANGED <<log, buffer, sent, subscribers, watched, handled, toasts, notice>>,
           stream' = stream, swap' = swap,
           \/ step' = step
           \/ step \in {"preparing", "signing"} /\ step' \in {"signing", "submitting"},
           \A h \in Auctions : request[h].state = "started" => request'[h] = request[h]
    PROVE  StatusInv'
<1>1. StatusType'
  BY DEF StatusInv, StatusType
<1>2. WatchInv'
  BY DEF StatusInv, StatusType, WatchInv
<1>3. StreamInv'
  BY DEF StatusInv, StreamInv
<1>4. EventInv'
  BY DEF StatusInv, EventInv, Logged
<1>5. NoticeInv'
  BY DEF StatusInv, NoticeInv, Outcomes, Logged
<1>6. ToastInv'
  BY DEF StatusInv, ToastInv, Logged
<1> QED
  BY <1>1, <1>2, <1>3, <1>4, <1>5, <1>6 DEF StatusInv

\* A new swap watches nothing yet.
LEMMA StartSwapKeepsStatus ==
    ASSUME StatusInv, SessionInv', StartSwap
    PROVE  StatusInv'
<1>1. /\ swap' = swap + 1 /\ swap \in Nat /\ swap' \in Swaps /\ step = "idle"
      /\ step' = "preparing" /\ notice' = Says("info") /\ stream' = Cleared
      /\ UNCHANGED <<toasts, watched, handled, request, log, buffer, subscribers, sent>>
  BY SessionAssumption
  DEF StatusInv, SessionInv, SessionType, StartSwap, intents, emitter, Swaps
<1>2. StatusType'
  BY <1>1, ClearedTypes DEF StatusInv, StatusType
<1>3. WatchInv'
  BY <1>1 DEF StatusInv, WatchInv, Swaps
<1>4. StreamInv'
  BY <1>1, ClearedTypes DEF StreamInv
<1>5. EventInv'
  BY <1>1 DEF StatusInv, EventInv, Logged
<1>6. NoticeInv'
  BY <1>1 DEF NoticeInv, Says, Outcomes, Events!EventTypes
<1>7. ToastInv'
  <2>1. \A k \in Swaps : watched[k] # Nothing => k # swap'
    BY <1>1 DEF StatusInv, WatchInv, Swaps
  <2>2. \A i \in DOMAIN toasts : toasts[i] # Nothing
    BY ToastsAreAuctions
  <2>3. \A i \in DOMAIN toasts : \E k \in Swaps :
            watched[k] = toasts[i] /\ (k = swap' => step' = "idle")
    BY <2>1, <2>2 DEF StatusInv, ToastInv
  <2>4. toasts' = toasts /\ watched' = watched /\ log' = log
    BY <1>1
  <2>5. \A i \in DOMAIN toasts : Logged(toasts[i], "cashback_confirmed")'
    BY <2>4 DEF StatusInv, ToastInv, Logged
  <2> QED
    BY <2>3, <2>4, <2>5 DEF StatusInv, ToastInv
<1> QED
  BY <1>2, <1>3, <1>4, <1>5, <1>6, <1>7 DEF StatusInv

\* The auction that the answer names is watched by this swap alone, whose
\* socket has received nothing.
LEMMA WatchKeepsStatus ==
    ASSUME StatusInv, SessionInv', NEW h \in Auctions, Watch(h)
    PROVE  StatusInv'
<1>1. /\ step = "submitting" /\ swap \in Swaps
      /\ request[h].state = "started" /\ request[h].swap = swap
      /\ step' = "watching" /\ swap' = swap
      /\ watched' = [watched EXCEPT ![swap] = h]
      /\ stream' = [stream EXCEPT ![swap] = "connecting"]
      /\ UNCHANGED <<notice, toasts, handled, request, log, buffer, subscribers, sent>>
  BY DEF StatusInv, SessionInv, KnownSwaps, Watch, intents, emitter
<1>2. /\ watched[swap] = Nothing /\ watched'[swap] = h /\ h # Nothing
      /\ \A k \in Swaps : k # swap => watched'[k] = watched[k]
      /\ \A k \in Swaps : k # swap => stream'[k] = stream[k]
  BY <1>1 DEF StatusInv, StatusType, WatchInv, Auctions, Nothing
<1>3. StatusType'
  BY <1>1 DEF StatusInv, StatusType
<1>4. WatchInv'
  BY <1>1, <1>2, SessionAssumption DEF StatusInv, WatchInv, Swaps
<1>5. StreamInv'
  BY <1>1, <1>2 DEF StatusInv, StreamInv
<1>6. EventInv'
  <2>1. \A i \in DOMAIN sent[swap] : FALSE
    BY <1>1, <1>2 DEF StatusInv, EventInv
  <2>2. \A g \in Auctions : swap \notin subscribers[g]
    BY <1>1, <1>2 DEF StatusInv, EventInv, Auctions, Nothing
  <2>3. sent' = sent /\ log' = log /\ buffer' = buffer /\ subscribers' = subscribers
    BY <1>1
  <2>4. \A k \in Swaps : \A i \in DOMAIN sent[k] : k # swap
    BY <2>1
  <2>5. ASSUME NEW k \in Swaps, NEW i \in DOMAIN sent[k]
        PROVE  watched'[k] # Nothing /\ Logged(watched'[k], sent[k][i])
    <3>1. watched'[k] = watched[k]
      BY <1>2, <2>4
    <3> QED
      BY <3>1 DEF StatusInv, EventInv
  <2>6. ASSUME NEW g \in Auctions, NEW k \in subscribers[g]
        PROVE  watched'[k] = g
    <3>1. k \in Swaps /\ k # swap
      BY <2>2 DEF StatusInv, StatusType
    <3> QED
      BY <3>1, <1>2 DEF StatusInv, EventInv
  <2> QED
    BY <2>3, <2>5, <2>6 DEF StatusInv, EventInv, Logged
<1>7. NoticeInv'
  BY <1>1 DEF StatusInv, NoticeInv, Outcomes
<1>8. ToastInv'
  <2>1. \A i \in DOMAIN toasts : toasts[i] # Nothing
    BY ToastsAreAuctions
  <2>2. \A i \in DOMAIN toasts : \E k \in Swaps :
            watched'[k] = toasts[i] /\ (k = swap' => step' = "idle")
    BY <1>1, <1>2, <2>1 DEF StatusInv, ToastInv
  <2> QED
    BY <1>1, <2>2 DEF StatusInv, ToastInv, Logged
<1> QED
  BY <1>3, <1>4, <1>5, <1>6, <1>7, <1>8 DEF StatusInv

\* A socket that opens, fails or is subscribed keeps to the swap it is for.
LEMMA SocketKeepsStatus ==
    ASSUME StatusInv, SessionInv', NEW k \in Swaps, StreamOpens(k) \/ StreamFails(k)
    PROVE  StatusInv'
<1>1. /\ UNCHANGED <<step, swap, toasts, watched, handled, request, log, buffer,
                     subscribers, sent>>
      /\ notice' = notice \/ notice' = Says("disconnected")
      /\ \/ stream[k] = "connecting" /\ stream' = [stream EXCEPT ![k] = "open"]
         \/ stream' = [stream EXCEPT ![k] = "closed"]
  BY DEF StreamOpens, StreamFails, intents, emitter
<1>2. StatusType'
  BY <1>1 DEF StatusInv, StatusType
<1>3. WatchInv'
  BY <1>1 DEF StatusInv, WatchInv
<1>4. StreamInv'
  BY <1>1 DEF StatusInv, StatusType, StreamInv
<1>5. EventInv'
  BY <1>1 DEF StatusInv, EventInv, Logged
<1>6. NoticeInv'
  BY <1>1 DEF StatusInv, NoticeInv, Says, Outcomes, Events!EventTypes, Logged
<1>7. ToastInv'
  BY <1>1 DEF StatusInv, ToastInv, Logged
<1> QED
  BY <1>2, <1>3, <1>4, <1>5, <1>6, <1>7 DEF StatusInv

\* Dismissing a toast keeps the others, in order.
LEMMA RemovedAt ==
    ASSUME NEW S, NEW s \in Seq(S), NEW i \in 1..Len(s)
    PROVE  /\ RemoveAt(s, i) \in Seq(S)
           /\ Len(RemoveAt(s, i)) = Len(s) - 1
           /\ \A j \in 1..(Len(s) - 1) : RemoveAt(s, i)[j] = s[IF j < i THEN j ELSE j + 1]
<1>1. /\ SubSeq(s, 1, i - 1) \in Seq(S) /\ Len(SubSeq(s, 1, i - 1)) = i - 1
      /\ \A j \in 1..(i - 1) : SubSeq(s, 1, i - 1)[j] = s[j]
  OBVIOUS
<1>2. /\ SubSeq(s, i + 1, Len(s)) \in Seq(S) /\ Len(SubSeq(s, i + 1, Len(s))) = Len(s) - i
      /\ \A j \in 1..(Len(s) - i) : SubSeq(s, i + 1, Len(s))[j] = s[i + j]
  OBVIOUS
<1> DEFINE front == SubSeq(s, 1, i - 1)
           back == SubSeq(s, i + 1, Len(s))
<1>3. /\ front \o back \in Seq(S)
      /\ Len(front \o back) = Len(front) + Len(back)
      /\ \A j \in 1..(Len(front) + Len(back)) :
            (front \o back)[j] = IF j <= Len(front) THEN front[j] ELSE back[j - Len(front)]
  BY <1>1, <1>2, ConcatProperties
<1>4. RemoveAt(s, i) = front \o back
  BY DEF RemoveAt
<1> HIDE DEF front, back
<1>5. Len(front) = i - 1 /\ Len(back) = Len(s) - i /\ Len(s) \in Nat
  BY <1>1, <1>2 DEF front, back
<1>6. ASSUME NEW j \in 1..(Len(s) - 1)
      PROVE  (front \o back)[j] = s[IF j < i THEN j ELSE j + 1]
  <2>1. CASE j < i
    BY <1>1, <1>3, <1>5, <2>1 DEF front
  <2>2. CASE ~(j < i)
    BY <1>2, <1>3, <1>5, <2>2 DEF back
  <2> QED
    BY <2>1, <2>2
<1>7. Len(RemoveAt(s, i)) = Len(s) - 1
  <2>1. Len(RemoveAt(s, i)) = Len(front) + Len(back)
    BY <1>3, <1>4, Zenon
  <2>2. Len(front) + Len(back) = Len(s) - 1
    BY <1>5
  <2> QED
    BY <2>1, <2>2
<1>8. RemoveAt(s, i) \in Seq(S)
  BY <1>3, <1>4
<1> QED
  BY <1>4, <1>6, <1>7, <1>8

LEMMA DismissKeepsStatus ==
    ASSUME StatusInv, SessionInv', DismissToast
    PROVE  StatusInv'
<1>1. /\ UNCHANGED <<step, swap, notice, watched, stream, handled, request, log, buffer,
                     subscribers, sent>>
      /\ toasts \in Seq(Auctions)
  BY DEF StatusInv, StatusType, DismissToast, intents, emitter
<1>2. PICK i \in 1..Len(toasts) : toasts' = RemoveAt(toasts, i)
  BY <1>1 DEF DismissToast
<1>3. /\ toasts' \in Seq(Auctions) /\ Len(toasts') = Len(toasts) - 1
      /\ \A j \in 1..Len(toasts') : toasts'[j] = toasts[IF j < i THEN j ELSE j + 1]
  BY <1>1, <1>2, RemovedAt
<1>4. StatusType'
  BY <1>1, <1>3 DEF StatusInv, StatusType
<1>5. WatchInv' /\ StreamInv'
  BY <1>1 DEF StatusInv, WatchInv, StreamInv
<1>6. EventInv' /\ NoticeInv'
  BY <1>1 DEF StatusInv, EventInv, NoticeInv, Logged, Outcomes
<1>7. ToastInv'
  <2>1. \A j \in DOMAIN toasts' : \E n \in DOMAIN toasts : toasts'[j] = toasts[n]
    BY <1>1, <1>3
  <2>2. \A j, m \in DOMAIN toasts' : toasts'[j] = toasts'[m] => j = m
    BY <1>1, <1>3 DEF StatusInv, ToastInv
  <2>3. log' = log /\ watched' = watched /\ swap' = swap /\ step' = step
    BY <1>1
  <2> QED
    BY <2>1, <2>2, <2>3 DEF StatusInv, ToastInv, Logged
<1> QED
  BY <1>4, <1>5, <1>6, <1>7 DEF StatusInv

\* An event comes on the socket of the swap that is watched: it was emitted for
\* its auction, which no toast has announced.
LEMMA ReceiveKeepsStatus ==
    ASSUME StatusInv, SessionInv', NEW k \in Swaps, ReceiveEvent(k)
    PROVE  StatusInv'
<1> DEFINE n == handled[k] + 1
           type == ParseStatusEvent(sent[k][n])
<1>1. /\ k = swap /\ step = "watching" /\ watched[k] # Nothing /\ watched[k] \in Auctions
      /\ n \in DOMAIN sent[k] /\ n \in Nat
  BY DEF StatusInv, StatusType, StreamInv, WatchInv, ReceiveEvent
<1>2. sent[k][n] \in Types
  BY <1>1 DEF StatusInv, StatusType
<1>3. type = sent[k][n]
  BY <1>2 DEF Types, Events!EventTypes, ParseStatusEvent, StatusEventTypes
<1>4. Logged(watched[k], type)
  BY <1>1, <1>3 DEF StatusInv, EventInv
<1>5. /\ UNCHANGED <<swap, watched, request, log, buffer, subscribers, sent>>
      /\ handled' = [handled EXCEPT ![k] = n]
  BY DEF ReceiveEvent, intents, emitter
<1>6. handled' \in [Swaps -> Nat]
  BY <1>1, <1>5 DEF StatusInv, StatusType
<1>7. EventInv'
  BY <1>5 DEF StatusInv, EventInv, Logged
<1>8. CASE /\ type \notin Outcomes /\ UNCHANGED <<stream, step, toasts>>
           /\ notice' = IF type = "bundle_submitted" THEN Says("info") ELSE notice
  <2>1. StatusType'
    BY <1>5, <1>6, <1>8 DEF StatusInv, StatusType
  <2>2. WatchInv' /\ StreamInv'
    BY <1>5, <1>8 DEF StatusInv, WatchInv, StreamInv
  <2>3. NoticeInv'
    BY <1>5, <1>8 DEF StatusInv, NoticeInv, Logged, Says, Outcomes, Events!EventTypes
  <2>4. ToastInv'
    BY <1>5, <1>8 DEF StatusInv, ToastInv, Logged
  <2> QED
    BY <1>7, <2>1, <2>2, <2>3, <2>4 DEF StatusInv
<1>9. CASE /\ type \in Outcomes /\ Finish(SaysOf(type, watched[k]))
           /\ IF type = "cashback_confirmed" THEN OnCashback(watched[k]) ELSE UNCHANGED toasts
  <2>1. stream' = Cleared /\ step' = "idle" /\ notice' = SaysOf(type, watched[k])
    BY <1>9 DEF Finish
  <2>2. \/ toasts' = toasts
        \/ type = "cashback_confirmed" /\ toasts' = Append(toasts, watched[k])
    <3> HIDE DEF type
    <3>1. CASE type = "cashback_confirmed"
      BY <1>9, <3>1 DEF OnCashback
    <3>2. CASE type # "cashback_confirmed"
      BY <1>9, <3>2
    <3> QED
      BY <3>1, <3>2
  <2>3. toasts \in Seq(Auctions)
    BY DEF StatusInv, StatusType
  <2>4. toasts' \in Seq(Auctions)
    BY <1>1, <2>2, <2>3
  <2>5. StatusType'
    BY <1>5, <1>6, <2>1, <2>4, ClearedTypes DEF StatusInv, StatusType
  <2>6. WatchInv'
    BY <1>5, <2>1 DEF StatusInv, WatchInv
  <2>7. StreamInv'
    BY <2>1, ClearedTypes DEF StreamInv
  <2>8. NoticeInv'
    BY <1>1, <1>4, <1>5, <2>1 DEF NoticeInv, SaysOf, Logged
  <2>9. ToastInv'
    <3>1. \A i \in DOMAIN toasts : toasts[i] # watched[k]
      BY <1>1 DEF StatusInv, WatchInv, ToastInv
    <3>2. \A i \in DOMAIN toasts : \E j \in Swaps : watched[j] = toasts[i]
      BY DEF StatusInv, ToastInv
    <3>3. CASE toasts' = toasts
      BY <1>5, <2>1, <3>2, <3>3 DEF StatusInv, ToastInv, Logged
    <3>4. CASE type = "cashback_confirmed" /\ toasts' = Append(toasts, watched[k])
      <4>1. /\ DOMAIN toasts' = 1..(Len(toasts) + 1) /\ DOMAIN toasts = 1..Len(toasts)
            /\ Len(toasts) \in Nat
            /\ toasts'[Len(toasts) + 1] = watched[k]
            /\ \A i \in DOMAIN toasts : toasts'[i] = toasts[i]
        BY <1>1, <2>3, <3>4
      <4>2. \A i, j \in DOMAIN toasts' : toasts'[i] = toasts'[j] => i = j
        BY <3>1, <4>1 DEF StatusInv, ToastInv
      <4>3. log' = log /\ watched' = watched /\ step' = "idle"
        BY <1>5, <2>1
      <4>4. \A i \in DOMAIN toasts' : Logged(toasts'[i], "cashback_confirmed")
        BY <1>4, <3>4, <4>1 DEF StatusInv, ToastInv
      <4>5. \A i \in DOMAIN toasts' : \E j \in Swaps : watched[j] = toasts'[i]
        BY <1>1, <3>2, <4>1
      <4> QED
        BY <4>2, <4>3, <4>4, <4>5 DEF ToastInv, Logged
    <3> QED
      BY <2>2, <3>3, <3>4
  <2> QED
    BY <1>7, <2>5, <2>6, <2>7, <2>8, <2>9 DEF StatusInv
<1> QED
  BY <1>8, <1>9 DEF ReceiveEvent

\* Steps of the emitter and of the sockets' subscriptions.
LEMMA EmitKeepsStatus ==
    ASSUME StatusInv, SessionInv', NEW h \in Auctions, NEW type \in Types, Emit(h, type)
    PROVE  StatusInv'
<1>1. /\ UNCHANGED <<step, swap, notice, toasts, watched, stream, handled, request, subscribers>>
      /\ log' = [log EXCEPT ![h] = Append(@, type)]
      /\ buffer' = [buffer EXCEPT ![h] = Append(@, type)]
      /\ sent' = [k \in Swaps |->
                    IF k \in subscribers[h] THEN Append(sent[k], type) ELSE sent[k]]
  BY DEF Emit, Buffered, card, intents
<1>2. StatusType'
  <2>1. log' \in [Auctions -> Seq(Types)] /\ buffer' \in [Auctions -> Seq(Types)]
    BY <1>1 DEF StatusInv, StatusType
  <2>2. sent' \in [Swaps -> Seq(Types)]
    BY <1>1 DEF StatusInv, StatusType
  <2> QED
    BY <1>1, <2>1, <2>2 DEF StatusInv, StatusType
<1>3. WatchInv' /\ StreamInv'
  BY <1>1 DEF StatusInv, WatchInv, StreamInv
<1>4. /\ \A g \in Auctions : \A t : Logged(g, t) => Within(log'[g], t)
      /\ Within(log'[h], type)
  <2>1. /\ log'[h] = Append(log[h], type) /\ log[h] \in Seq(Types)
        /\ \A g \in Auctions : g # h => log'[g] = log[g]
    BY <1>1 DEF StatusInv, StatusType
  <2>2. /\ DOMAIN log[h] = 1..Len(log[h]) /\ Len(log[h]) \in Nat
        /\ DOMAIN log'[h] = 1..(Len(log[h]) + 1)
        /\ log'[h][Len(log[h]) + 1] = type
        /\ \A i \in DOMAIN log[h] : log'[h][i] = log[h][i]
    BY <2>1
  <2>3. \A i \in DOMAIN log[h] : i \in DOMAIN log'[h]
    BY <2>2
  <2> QED
    BY <2>1, <2>2, <2>3 DEF Logged, Within
<1>5. EventInv'
  <2>1. ASSUME NEW g \in Auctions, NEW i \in DOMAIN buffer'[g]
        PROVE  Within(log'[g], buffer'[g][i])
    <3>1. buffer[g] \in Seq(Types) /\ buffer \in [Auctions -> Seq(Types)]
      BY DEF StatusInv, StatusType
    <3>2. CASE i \in DOMAIN buffer[g] /\ buffer'[g][i] = buffer[g][i]
      BY <1>4, <3>2 DEF StatusInv, EventInv
    <3>3. CASE ~(i \in DOMAIN buffer[g] /\ buffer'[g][i] = buffer[g][i])
      <4>1. g = h /\ buffer'[g] = Append(buffer[g], type)
        BY <1>1, <3>1, <3>3
      <4>2. i = Len(buffer[g]) + 1
        BY <3>1, <3>3, <4>1
      <4>3. buffer'[g][i] = type
        BY <3>1, <4>1, <4>2
      <4> QED
        BY <1>4, <4>1, <4>3
    <3> QED
      BY <3>2, <3>3
  <2>2. ASSUME NEW k \in Swaps, NEW i \in DOMAIN sent'[k]
        PROVE  watched[k] # Nothing /\ Within(log'[watched[k]], sent'[k][i])
    <3>1. sent[k] \in Seq(Types) /\ watched[k] \in Auctions \cup {Nothing}
      BY DEF StatusInv, StatusType
    <3>2. CASE i \in DOMAIN sent[k] /\ sent'[k][i] = sent[k][i]
      <4>1. watched[k] # Nothing /\ Logged(watched[k], sent[k][i])
        BY <3>2 DEF StatusInv, EventInv
      <4> QED
        BY <1>4, <3>1, <3>2, <4>1
    <3>3. CASE ~(i \in DOMAIN sent[k] /\ sent'[k][i] = sent[k][i])
      <4>1. k \in subscribers[h] /\ sent'[k] = Append(sent[k], type)
        BY <1>1, <3>3
      <4>2. watched[k] = h /\ h # Nothing
        BY <4>1 DEF StatusInv, EventInv, Auctions, Nothing
      <4>3. i = Len(sent[k]) + 1
        BY <3>1, <3>3, <4>1
      <4>4. sent'[k][i] = type
        BY <3>1, <4>1, <4>3
      <4> QED
        BY <1>4, <4>2, <4>4
    <3> QED
      BY <3>2, <3>3
  <2>3. /\ \A g \in Auctions : \A k \in subscribers[g] : watched[k] = g
        /\ subscribers' = subscribers /\ watched' = watched
    BY <1>1 DEF StatusInv, EventInv
  <2> QED
    BY <2>1, <2>2, <2>3 DEF EventInv, Logged
<1>6. NoticeInv'
  <2>1. CASE notice.kind \in Outcomes
    <3>1. /\ step = "idle" /\ swap \in Swaps
          /\ notice.auction = watched[swap] /\ notice.auction # Nothing
          /\ Logged(notice.auction, notice.kind)
      BY <2>1 DEF StatusInv, NoticeInv
    <3>2. notice.auction \in Auctions
      BY <3>1 DEF StatusInv, StatusType
    <3>3. Within(log'[notice.auction], notice.kind)
      BY <1>4, <3>1, <3>2
    <3> QED
      BY <1>1, <3>1, <3>3 DEF NoticeInv, Logged
  <2>2. CASE notice.kind \notin Outcomes
    BY <1>1, <2>2 DEF NoticeInv, Outcomes
  <2> QED
    BY <2>1, <2>2
<1>7. ToastInv'
  <2>1. \A i \in DOMAIN toasts : Within(log'[toasts[i]], "cashback_confirmed")
    BY <1>4, ToastsAreAuctions DEF StatusInv, ToastInv
  <2>2. toasts' = toasts /\ watched' = watched /\ swap' = swap /\ step' = step
    BY <1>1
  <2> QED
    BY <2>1, <2>2 DEF StatusInv, ToastInv, Logged
<1> QED
  BY <1>2, <1>3, <1>5, <1>6, <1>7 DEF StatusInv

\* A buffer that expires, a subscription and its end change what is buffered,
\* sent and subscribed, and nothing on the card.
LEMMA EmitterStep ==
    ASSUME StatusInv, SessionInv',
           UNCHANGED <<step, swap, notice, toasts, watched, stream, handled, log>>,
           request' = request,
           buffer' \in [Auctions -> Seq(Types)], sent' \in [Swaps -> Seq(Types)],
           subscribers' \in [Auctions -> SUBSET Swaps],
           \A h \in Auctions : buffer'[h] \in {buffer[h], <<>>},
           \A k \in Swaps : \A i \in DOMAIN sent'[k] :
                watched[k] # Nothing /\ Logged(watched[k], sent'[k][i]),
           \A h \in Auctions : \A k \in subscribers'[h] : watched[k] = h
    PROVE  StatusInv'
<1>1. StatusType'
  BY DEF StatusInv, StatusType
<1>2. WatchInv' /\ StreamInv'
  BY DEF StatusInv, WatchInv, StreamInv
<1>3. EventInv'
  BY DEF StatusInv, EventInv, Logged
<1>4. NoticeInv' /\ ToastInv'
  BY DEF StatusInv, NoticeInv, ToastInv, Logged, Outcomes
<1> QED
  BY <1>1, <1>2, <1>3, <1>4 DEF StatusInv

LEMMA SubscriptionsKeepStatus ==
    ASSUME StatusInv, SessionInv',
           \/ \E h \in Auctions : ExpireBuffer(h)
           \/ \E k \in Swaps : Subscribe(k) \/ Unsubscribe(k)
    PROVE  StatusInv'
<1>1. ASSUME NEW h \in Auctions, ExpireBuffer(h)
      PROVE  StatusInv'
  <2>1. /\ UNCHANGED <<step, swap, notice, toasts, watched, stream, handled, log>>
        /\ request' = request /\ sent' = sent /\ subscribers' = subscribers
        /\ buffer' = [buffer EXCEPT ![h] = <<>>]
    BY <1>1 DEF ExpireBuffer, card, intents
  <2>2. /\ buffer' \in [Auctions -> Seq(Types)]
        /\ \A g \in Auctions : buffer'[g] \in {buffer[g], <<>>}
    BY <2>1 DEF StatusInv, StatusType
  <2> QED
    BY <2>1, <2>2, EmitterStep DEF StatusInv, StatusType, EventInv
<1>2. ASSUME NEW k \in Swaps, Subscribe(k)
      PROVE  StatusInv'
  <2>1. /\ UNCHANGED <<step, swap, notice, toasts, watched, stream, handled, log>>
        /\ request' = request /\ buffer' = buffer
        /\ stream[k] = "open"
        /\ subscribers' = [subscribers EXCEPT ![watched[k]] = @ \cup {k}]
        /\ sent' = [sent EXCEPT ![k] = @ \o buffer[watched[k]]]
    BY <1>2 DEF Subscribe, Replay, card, intents
  <2>2. watched[k] # Nothing /\ watched[k] \in Auctions
    BY <2>1 DEF StatusInv, StatusType, StreamInv, WatchInv
  <2>3. sent[k] \in Seq(Types) /\ buffer[watched[k]] \in Seq(Types)
    BY <2>2 DEF StatusInv, StatusType
  <2>4. /\ sent[k] \o buffer[watched[k]] \in Seq(Types)
        /\ \A i \in DOMAIN (sent[k] \o buffer[watched[k]]) :
            \/ i \in DOMAIN sent[k] /\ (sent[k] \o buffer[watched[k]])[i] = sent[k][i]
            \/ \E j \in DOMAIN buffer[watched[k]] :
                (sent[k] \o buffer[watched[k]])[i] = buffer[watched[k]][j]
    <3> DEFINE s == sent[k]
               b == buffer[watched[k]]
    <3>1. s \in Seq(Types) /\ b \in Seq(Types)
      BY <2>3
    <3> HIDE DEF s, b
    <3>2. /\ s \o b \in Seq(Types)
          /\ \A i \in DOMAIN (s \o b) :
                \/ i \in DOMAIN s /\ (s \o b)[i] = s[i]
                \/ \E j \in DOMAIN b : (s \o b)[i] = b[j]
      BY <3>1, ConcatProperties
    <3> QED
      BY <3>2 DEF s, b
  <2>5. \A j \in Swaps : \A i \in DOMAIN sent'[j] :
            watched[j] # Nothing /\ Logged(watched[j], sent'[j][i])
    BY <2>1, <2>2, <2>4 DEF StatusInv, StatusType, EventInv
  <2>6. sent' \in [Swaps -> Seq(Types)] /\ subscribers' \in [Auctions -> SUBSET Swaps]
    BY <2>1, <2>2, <2>4 DEF StatusInv, StatusType
  <2>7. \A h \in Auctions : \A j \in subscribers'[h] : watched[j] = h
    BY <2>1, <2>2 DEF StatusInv, StatusType, EventInv
  <2>8. buffer' \in [Auctions -> Seq(Types)]
    BY <2>1 DEF StatusInv, StatusType
  <2> QED
    BY <2>1, <2>5, <2>6, <2>7, <2>8, EmitterStep
<1>3. ASSUME NEW k \in Swaps, Unsubscribe(k)
      PROVE  StatusInv'
  <2>1. PICK h \in Auctions : subscribers' = [subscribers EXCEPT ![h] = @ \ {k}]
    BY <1>3 DEF Unsubscribe
  <2>2. /\ UNCHANGED <<step, swap, notice, toasts, watched, stream, handled, log>>
        /\ request' = request /\ buffer' = buffer /\ sent' = sent
    BY <1>3 DEF Unsubscribe, card, intents
  <2>3. /\ subscribers' \in [Auctions -> SUBSET Swaps]
        /\ \A g \in Auctions : \A j \in subscribers'[g] : watched[j] = g
    BY <2>1 DEF StatusInv, StatusType, EventInv
  <2> QED
    BY <2>2, <2>3, EmitterStep DEF StatusInv, StatusType, EventInv
<1> QED
  BY <1>1, <1>2, <1>3

LEMMA StatusInvNext == StatusInv /\ [Next]_vars => StatusInv'
<1> SUFFICES ASSUME StatusInv, [Next]_vars PROVE StatusInv'
  OBVIOUS
<1>1. SessionInv'
  BY SessionInvNext DEF StatusInv
<1>2. CASE UNCHANGED vars
  BY <1>1, <1>2, EarlyStep DEF vars, session, card, intents, emitter
<1>3. CASE StartSwap
  BY <1>1, <1>3, StartSwapKeepsStatus
<1>4. \A kind \in {"error", "pending"} : Says(kind).kind \notin Outcomes
  BY DEF Says, Outcomes, Events!EventTypes
<1>5. CASE Fail \/ StatusTimeout
  <2>1. \E kind \in {"error", "pending"} : Finish(Says(kind))
    BY <1>5 DEF Fail, StatusTimeout
  <2>2. UNCHANGED <<swap, toasts, watched, handled, intents, emitter>>
    BY <1>5 DEF Fail, StatusTimeout
  <2> QED
    BY <1>1, <1>4, <2>1, <2>2, CardStep DEF Finish, intents, emitter
<1>6. CASE Prepare
  <2>1. /\ step = "preparing"
        /\ UNCHANGED <<swap, toasts, watched, handled, request, log, buffer, subscribers, sent>>
    BY <1>6 DEF Prepare, emitter
  <2>2. CASE step' = "signing" /\ UNCHANGED <<notice, stream>>
    BY <1>1, <2>1, <2>2, EarlyStep
  <2>3. CASE Finish(Says("error"))
    BY <1>1, <1>4, <2>1, <2>3, CardStep DEF Finish
  <2> QED
    BY <1>6, <2>2, <2>3 DEF Prepare
<1>7. CASE Submit \/ Repost
  <2>1. /\ UNCHANGED <<swap, notice, toasts, watched, stream, handled, log, buffer,
                       subscribers, sent>>
        /\ \/ step' = step
           \/ step = "signing" /\ step' = "submitting"
        /\ PostIntent
    BY <1>7 DEF Submit, Repost, card, emitter
  <2>2. \A h \in Auctions : request[h].state = "started" => request'[h] = request[h]
    BY <2>1 DEF PostIntent, NoRequest, StatusInv, SessionInv, SessionType
  <2> QED
    BY <1>1, <2>1, <2>2, EarlyStep
<1>8. CASE DismissToast
  BY <1>1, <1>8, DismissKeepsStatus
<1>9. ASSUME NEW h \in Auctions,
             \/ Watch(h) \/ TakePrepared(h) \/ StartAuction(h) \/ ExpireBuffer(h)
             \/ \E type \in Events!EventTypes : Emit(h, type)
      PROVE  StatusInv'
  <2>1. CASE Watch(h)
    BY <1>1, <2>1, WatchKeepsStatus
  <2>2. CASE TakePrepared(h) \/ StartAuction(h)
    <3>1. UNCHANGED <<card, emitter>> /\ request[h].state \in {"sent", "verifying"}
      BY <2>2 DEF TakePrepared, StartAuction
    <3>2. \A g \in Auctions : g # h => request'[g] = request[g]
      BY <2>2 DEF TakePrepared, StartAuction, Answer, StatusInv, SessionInv, SessionType
    <3> QED
      BY <1>1, <3>1, <3>2, EarlyStep DEF card, emitter
  <2>3. CASE ExpireBuffer(h)
    BY <1>1, <2>3, SubscriptionsKeepStatus
  <2>4. CASE \E type \in Events!EventTypes : Emit(h, type)
    BY <1>1, <2>4, EmitKeepsStatus DEF Types
  <2> QED
    BY <1>9, <2>1, <2>2, <2>3, <2>4
<1>10. ASSUME NEW k \in Swaps,
              \/ StreamOpens(k) \/ StreamFails(k) \/ ReceiveEvent(k)
              \/ Subscribe(k) \/ Unsubscribe(k) \/ ExpirePrepared(k)
       PROVE  StatusInv'
  <2>1. CASE StreamOpens(k) \/ StreamFails(k)
    BY <1>1, <2>1, SocketKeepsStatus
  <2>2. CASE ReceiveEvent(k)
    BY <1>1, <2>2, ReceiveKeepsStatus
  <2>3. CASE Subscribe(k) \/ Unsubscribe(k)
    BY <1>1, <2>3, SubscriptionsKeepStatus
  <2>4. CASE ExpirePrepared(k)
    BY <1>1, <2>4, EarlyStep DEF ExpirePrepared, card, emitter
  <2> QED
    BY <1>10, <2>1, <2>2, <2>3, <2>4
<1> QED
  BY <1>2, <1>3, <1>5, <1>6, <1>7, <1>8, <1>9, <1>10 DEF Next, Step

\* The outcome on the card is one that was emitted for the auction of the latest
\* swap (handleAction, openStatusStream and UserStatusEmitter), and a cashback is
\* announced once, if it was confirmed.
THEOREM OutcomeShownIsOfThisSwap == Spec => []OutcomeIsOfThisSwap
<1>1. StatusInv => OutcomeIsOfThisSwap
  <2> SUFFICES ASSUME StatusInv PROVE OutcomeIsOfThisSwap
    OBVIOUS
  <2>1. \A h \in Auctions : \A t : Logged(h, t) => t \in Emitted[h]
    BY DEF Logged, Within, Emitted, ToSet
  <2>2. ASSUME notice.kind \in Outcomes
        PROVE  notice.auction = watched[swap] /\ notice.kind \in Emitted[notice.auction]
    <3>1. /\ swap \in Swaps /\ notice.auction = watched[swap] /\ notice.auction # Nothing
          /\ Logged(notice.auction, notice.kind)
      BY <2>2 DEF StatusInv, NoticeInv
    <3>2. notice.auction \in Auctions
      BY <3>1 DEF StatusInv, StatusType
    <3> QED
      BY <2>1, <3>1, <3>2
  <2>3. IsInjective(toasts)
    BY DEF StatusInv, ToastInv, IsInjective
  <2>4. \A h \in ToSet(toasts) : "cashback_confirmed" \in Emitted[h]
    <3>1. \A i \in DOMAIN toasts : "cashback_confirmed" \in Emitted[toasts[i]]
      BY <2>1, ToastsAreAuctions DEF StatusInv, ToastInv
    <3> QED
      BY <3>1 DEF ToSet
  <2> QED
    BY <2>2, <2>3, <2>4 DEF OutcomeIsOfThisSwap
<1> QED
  BY <1>1, StatusInvInit, StatusInvNext, PTL DEF Spec

----------------------------------------------------------------------------
(* What a subscriber was sent *)

\* A suffix, element by element.
LEMMA SuffixElements ==
    ASSUME NEW S, NEW s \in Seq(S), NEW t \in Seq(S)
    PROVE  IsSuffix(s, t) <=>
             /\ Len(s) <= Len(t)
             /\ \A i \in 1..Len(s) : s[i] = t[Len(t) - Len(s) + i]
<1>1. Len(s) \in Nat /\ Len(t) \in Nat
  OBVIOUS
<1>2. ASSUME NEW u \in Seq(S)
      PROVE  /\ Reverse(u) \in Seq(S) /\ Len(Reverse(u)) = Len(u)
             /\ \A i \in 1..Len(u) : Reverse(u)[i] = u[Len(u) - i + 1]
  <2>1. \A i \in 1..Len(u) : u[Len(u) - i + 1] \in S
    BY <1>2
  <2>2. Reverse(u) \in [1..Len(u) -> S] /\ Len(u) \in Nat
    BY <1>2, <2>1 DEF Reverse
  <2> QED
    BY <2>2 DEF Reverse
<1> DEFINE r == Reverse(s)
           q == Reverse(t)
<1>3. /\ r \in Seq(S) /\ Len(r) = Len(s)
      /\ \A i \in 1..Len(s) : r[i] = s[Len(s) - i + 1]
  BY <1>2
<1>4. /\ q \in Seq(S) /\ Len(q) = Len(t)
      /\ \A i \in 1..Len(t) : q[i] = t[Len(t) - i + 1]
  BY <1>2
<1>5. IsSuffix(s, t) <=> Len(r) <= Len(q) /\ SubSeq(r, 1, Len(r)) = SubSeq(q, 1, Len(r))
  BY DEF IsSuffix, IsPrefix
<1> HIDE DEF r, q
<1>6. ASSUME Len(s) <= Len(t)
      PROVE  SubSeq(r, 1, Len(r)) = SubSeq(q, 1, Len(r)) <=>
                \A i \in 1..Len(s) : r[i] = q[i]
  BY <1>1, <1>3, <1>4, <1>6
<1>7. ASSUME Len(s) <= Len(t)
      PROVE  (\A i \in 1..Len(s) : r[i] = q[i]) <=>
                \A i \in 1..Len(s) : s[i] = t[Len(t) - Len(s) + i]
  <2>1. ASSUME \A i \in 1..Len(s) : r[i] = q[i], NEW i \in 1..Len(s)
        PROVE  s[i] = t[Len(t) - Len(s) + i]
    <3>1. Len(s) - i + 1 \in 1..Len(s) /\ Len(s) - i + 1 \in 1..Len(t)
      BY <1>1, <1>7
    <3>2. r[Len(s) - i + 1] = q[Len(s) - i + 1]
      BY <2>1, <3>1
    <3>3. /\ Len(s) - (Len(s) - i + 1) + 1 = i
          /\ Len(t) - (Len(s) - i + 1) + 1 = Len(t) - Len(s) + i
      BY <1>1
    <3> QED
      BY <1>3, <1>4, <3>1, <3>2, <3>3
  <2>2. ASSUME \A i \in 1..Len(s) : s[i] = t[Len(t) - Len(s) + i], NEW i \in 1..Len(s)
        PROVE  r[i] = q[i]
    <3>1. Len(s) - i + 1 \in 1..Len(s) /\ i \in 1..Len(t)
      BY <1>1, <1>7
    <3>2. s[Len(s) - i + 1] = t[Len(t) - Len(s) + (Len(s) - i + 1)]
      BY <2>2, <3>1
    <3>3. Len(t) - Len(s) + (Len(s) - i + 1) = Len(t) - i + 1
      BY <1>1
    <3> QED
      BY <1>3, <1>4, <3>1, <3>2, <3>3
  <2> QED
    BY <2>1, <2>2
<1> QED
  BY <1>3, <1>4, <1>5, <1>6, <1>7

LEMMA EmptySuffix ==
    ASSUME NEW S, NEW t \in Seq(S)
    PROVE  IsSuffix(<<>>, t) /\ IsSuffix(t, t)
<1> DEFINE e == <<>>
<1>1. e \in Seq(S) /\ Len(e) = 0 /\ Len(t) \in Nat
  OBVIOUS
<1> HIDE DEF e
<1>2. IsSuffix(e, t)
  <2>1. Len(e) <= Len(t) /\ \A i \in 1..Len(e) : FALSE
    BY <1>1
  <2> QED
    BY <1>1, <2>1, SuffixElements
<1>3. \A i \in 1..Len(t) : Len(t) - Len(t) + i = i
  BY <1>1
<1>4. IsSuffix(t, t)
  BY <1>1, <1>3, SuffixElements
<1> QED
  BY <1>2, <1>4 DEF e

LEMMA SuffixGrows ==
    ASSUME NEW S, NEW s \in Seq(S), NEW t \in Seq(S), NEW e \in S, IsSuffix(s, t)
    PROVE  IsSuffix(Append(s, e), Append(t, e))
<1>1. /\ Len(s) \in Nat /\ Len(t) \in Nat /\ Len(s) <= Len(t)
      /\ \A i \in 1..Len(s) : s[i] = t[Len(t) - Len(s) + i]
  BY SuffixElements
<1> DEFINE s2 == Append(s, e)
           t2 == Append(t, e)
<1>2. /\ s2 \in Seq(S) /\ Len(s2) = Len(s) + 1 /\ s2[Len(s) + 1] = e
      /\ \A i \in 1..Len(s) : s2[i] = s[i]
  BY <1>1
<1>3. /\ t2 \in Seq(S) /\ Len(t2) = Len(t) + 1 /\ t2[Len(t) + 1] = e
      /\ \A i \in 1..Len(t) : t2[i] = t[i]
  BY <1>1
<1> HIDE DEF s2, t2
<1>4. ASSUME NEW i \in 1..Len(s2)
      PROVE  s2[i] = t2[Len(t2) - Len(s2) + i]
  <2>1. Len(t2) - Len(s2) + i = Len(t) - Len(s) + i
    BY <1>1, <1>2, <1>3
  <2>2. CASE i \in 1..Len(s)
    <3>1. Len(t) - Len(s) + i \in 1..Len(t)
      BY <1>1, <2>2
    <3> QED
      BY <1>1, <1>2, <1>3, <2>1, <2>2, <3>1
  <2>3. CASE i = Len(s) + 1
    <3>1. Len(t) - Len(s) + i = Len(t) + 1
      BY <1>1, <2>3
    <3> QED
      BY <1>2, <1>3, <2>1, <2>3, <3>1
  <2> QED
    BY <1>1, <1>2, <2>2, <2>3
<1>5. Len(s2) <= Len(t2)
  BY <1>1, <1>2, <1>3
<1>6. IsSuffix(s2, t2)
  BY <1>2, <1>3, <1>4, <1>5, SuffixElements
<1> QED
  BY <1>6 DEF s2, t2

\* The buffer holds the latest events of its auction, and a socket is sent
\* nothing before it has subscribed.
UpToDateInv ==
    /\ \A h \in Auctions : IsSuffix(buffer[h], log[h])
    /\ \A k \in Swaps : stream[k] = "connecting" =>
        sent[k] = <<>> /\ \A h \in Auctions : k \notin subscribers[h]
    /\ \A k \in Swaps : stream[k] = "open" /\ k \notin subscribers[watched[k]] =>
        sent[k] = <<>>
    /\ SubscriberIsUpToDate

LEMMA UpToDateInit ==
    ASSUME Init
    PROVE  UpToDateInv
<1>1. \A t \in Seq({}) : IsSuffix(t, t)
  BY EmptySuffix
<1>2. IsSuffix(<<>>, <<>>)
  BY <1>1, EmptySeq
<1> QED
  BY <1>2 DEF Init, UpToDateInv, SubscriberIsUpToDate

\* Steps of the card, and sockets that close.
LEMMA CardKeepsUpToDate ==
    ASSUME StatusInv, UpToDateInv,
           UNCHANGED <<log, buffer, subscribers, sent>>,
           \A k \in Swaps : stream'[k] \in {"connecting", "open"} =>
                stream'[k] = stream[k] /\ watched'[k] = watched[k]
    PROVE  UpToDateInv'
<1>1. SubscriberIsUpToDate'
  BY DEF StatusInv, StatusType, UpToDateInv, SubscriberIsUpToDate
<1> QED
  BY <1>1 DEF UpToDateInv

LEMMA SocketKeepsUpToDate ==
    ASSUME StatusInv, UpToDateInv, NEW k \in Swaps,
           StreamOpens(k) \/ StreamFails(k) \/ ReceiveEvent(k)
    PROVE  UpToDateInv'
<1>1. UNCHANGED <<log, buffer, subscribers, sent, watched>>
  BY DEF StreamOpens, StreamFails, ReceiveEvent, emitter
<1>2. CASE StreamOpens(k)
  <2>1. stream[k] = "connecting" /\ stream' = [stream EXCEPT ![k] = "open"]
    BY <1>2 DEF StreamOpens
  <2>2. /\ sent[k] = <<>> /\ \A h \in Auctions : k \notin subscribers[h]
        /\ \A j \in Swaps : j # k => stream'[j] = stream[j]
        /\ stream'[k] = "open"
    BY <2>1 DEF StatusInv, StatusType, UpToDateInv
  <2>3. SubscriberIsUpToDate'
    BY <1>1, <2>2 DEF StatusInv, StatusType, UpToDateInv, SubscriberIsUpToDate
  <2> QED
    BY <1>1, <2>2, <2>3 DEF UpToDateInv
<1>3. CASE StreamFails(k)
  <2>1. stream' = [stream EXCEPT ![k] = "closed"]
    BY <1>3 DEF StreamFails
  <2>2. \A j \in Swaps : stream'[j] \in {"connecting", "open"} => stream'[j] = stream[j]
    BY <2>1 DEF StatusInv, StatusType
  <2> QED
    BY <1>1, <2>2, CardKeepsUpToDate
<1>4. CASE ReceiveEvent(k)
  <2>1. stream' = stream \/ stream' = Cleared
    BY <1>4 DEF ReceiveEvent, Finish
  <2>2. \A j \in Swaps : stream'[j] \in {"connecting", "open"} => stream'[j] = stream[j]
    BY <2>1, ClearedTypes
  <2> QED
    BY <1>1, <2>2, CardKeepsUpToDate
<1> QED
  BY <1>2, <1>3, <1>4

\* The socket of a watch that begins has no subscription yet.
LEMMA WatchKeepsUpToDate ==
    ASSUME StatusInv, UpToDateInv, NEW h \in Auctions, Watch(h)
    PROVE  UpToDateInv'
<1>1. /\ UNCHANGED <<log, buffer, subscribers, sent>>
      /\ step = "submitting" /\ swap \in Swaps
      /\ watched' = [watched EXCEPT ![swap] = h]
      /\ stream' = [stream EXCEPT ![swap] = "connecting"]
  BY DEF Watch, emitter, StatusInv, SessionInv, KnownSwaps
<1>2. watched[swap] = Nothing
  BY <1>1 DEF StatusInv, WatchInv
<1>3. \A g \in Auctions : swap \notin subscribers[g]
  BY <1>2 DEF StatusInv, EventInv, Auctions, Nothing
<1>4. sent[swap] = <<>>
  <2>1. \A i \in DOMAIN sent[swap] : FALSE
    BY <1>1, <1>2 DEF StatusInv, EventInv
  <2>2. sent[swap] \in Seq(Types)
    BY <1>1 DEF StatusInv, StatusType
  <2>3. Len(sent[swap]) = 0
    <3>1. DOMAIN sent[swap] = 1..Len(sent[swap]) /\ Len(sent[swap]) \in Nat
      BY <2>2
    <3> QED
      BY <2>1, <3>1
  <2> QED
    BY <2>2, <2>3, EmptySeq
<1>5. /\ \A k \in Swaps : k # swap => stream'[k] = stream[k] /\ watched'[k] = watched[k]
      /\ stream'[swap] = "connecting"
  BY <1>1 DEF StatusInv, StatusType
<1>6. SubscriberIsUpToDate'
  BY <1>1, <1>3, <1>5 DEF StatusInv, StatusType, UpToDateInv, SubscriberIsUpToDate
<1> QED
  BY <1>1, <1>3, <1>4, <1>5, <1>6 DEF UpToDateInv

\* An event goes to the log, the buffer and every subscriber at once.
LEMMA EmitKeepsUpToDate ==
    ASSUME StatusInv, UpToDateInv, NEW h \in Auctions, NEW type \in Types, Emit(h, type)
    PROVE  UpToDateInv'
<1>1. /\ UNCHANGED <<watched, stream, subscribers>>
      /\ log' = [log EXCEPT ![h] = Append(@, type)]
      /\ buffer' = [buffer EXCEPT ![h] = Append(@, type)]
      /\ sent' = [k \in Swaps |->
                    IF k \in subscribers[h] THEN Append(sent[k], type) ELSE sent[k]]
  BY DEF Emit, Buffered, card
<1>2. /\ log \in [Auctions -> Seq(Types)] /\ buffer \in [Auctions -> Seq(Types)]
      /\ sent \in [Swaps -> Seq(Types)] /\ subscribers \in [Auctions -> SUBSET Swaps]
      /\ watched \in [Swaps -> Auctions \cup {Nothing}]
  BY DEF StatusInv, StatusType
<1>3. /\ log'[h] = Append(log[h], type) /\ buffer'[h] = Append(buffer[h], type)
      /\ \A g \in Auctions : g # h => log'[g] = log[g] /\ buffer'[g] = buffer[g]
      /\ \A k \in Swaps :
            sent'[k] = IF k \in subscribers[h] THEN Append(sent[k], type) ELSE sent[k]
  BY <1>1, <1>2
<1>4. IsSuffix(buffer'[h], log'[h])
  <2>1. IsSuffix(buffer[h], log[h]) /\ log[h] \in Seq(Types) /\ buffer[h] \in Seq(Types)
    BY <1>2 DEF UpToDateInv
  <2> QED
    BY <1>3, <2>1, SuffixGrows
<1>5. \A g \in Auctions : IsSuffix(buffer'[g], log'[g])
  BY <1>3, <1>4 DEF UpToDateInv
<1>6. ASSUME NEW g \in Auctions, NEW k \in subscribers[g], stream[k] = "open"
      PROVE  IsSuffix(sent'[k], log'[g]) /\ IsSuffix(buffer'[g], sent'[k])
  <2>1. k \in Swaps /\ watched[k] = g
    BY <1>2 DEF StatusInv, EventInv
  <2>2. IsSuffix(sent[k], log[g]) /\ IsSuffix(buffer[g], sent[k])
    BY <1>6 DEF UpToDateInv, SubscriberIsUpToDate
  <2>3. CASE g = h
    <3>1. sent'[k] = Append(sent[k], type)
      BY <1>3, <2>1, <2>3
    <3>2. sent[k] \in Seq(Types) /\ log[h] \in Seq(Types) /\ buffer[h] \in Seq(Types)
      BY <1>2, <2>1
    <3>3. IsSuffix(Append(sent[k], type), Append(log[h], type))
      BY <2>2, <2>3, <3>2, SuffixGrows
    <3>4. IsSuffix(Append(buffer[h], type), Append(sent[k], type))
      BY <2>2, <2>3, <3>2, SuffixGrows
    <3> QED
      BY <1>3, <2>3, <3>1, <3>3, <3>4
  <2>4. CASE g # h
    <3>1. k \notin subscribers[h]
      BY <2>1, <2>4 DEF StatusInv, EventInv
    <3> QED
      BY <1>3, <2>1, <2>2, <2>4, <3>1
  <2> QED
    BY <2>3, <2>4
<1>7. SubscriberIsUpToDate'
  BY <1>1, <1>6 DEF SubscriberIsUpToDate
<1>8. ASSUME NEW k \in Swaps, stream[k] = "connecting"
      PROVE  sent'[k] = <<>> /\ \A g \in Auctions : k \notin subscribers[g]
  BY <1>3, <1>8 DEF UpToDateInv
<1>9. ASSUME NEW k \in Swaps, stream[k] = "open", k \notin subscribers[watched[k]]
      PROVE  sent'[k] = <<>>
  <2>1. k \notin subscribers[h]
    BY <1>9 DEF StatusInv, EventInv
  <2>2. sent[k] = <<>>
    BY <1>9 DEF UpToDateInv
  <2> QED
    BY <1>3, <2>1, <2>2
<1> QED
  BY <1>1, <1>5, <1>7, <1>8, <1>9 DEF UpToDateInv

LEMMA SubscriptionsKeepUpToDate ==
    ASSUME StatusInv, UpToDateInv,
           \/ \E h \in Auctions : ExpireBuffer(h)
           \/ \E k \in Swaps : Subscribe(k) \/ Unsubscribe(k)
    PROVE  UpToDateInv'
<1>1. /\ log \in [Auctions -> Seq(Types)] /\ buffer \in [Auctions -> Seq(Types)]
      /\ sent \in [Swaps -> Seq(Types)] /\ subscribers \in [Auctions -> SUBSET Swaps]
      /\ watched \in [Swaps -> Auctions \cup {Nothing}]
  BY DEF StatusInv, StatusType
<1>2. UNCHANGED <<log, watched, stream>>
  BY DEF ExpireBuffer, Subscribe, Unsubscribe, card
<1>3. ASSUME NEW h \in Auctions, ExpireBuffer(h)
      PROVE  UpToDateInv'
  <2>1. buffer' = [buffer EXCEPT ![h] = <<>>] /\ UNCHANGED <<subscribers, sent>>
    BY <1>3 DEF ExpireBuffer
  <2>2. \A g \in Auctions : buffer'[g] = buffer[g] \/ buffer'[g] = <<>>
    BY <1>1, <2>1
  <2>3. \A g \in Auctions : IsSuffix(buffer'[g], log[g])
    BY <1>1, <2>2, EmptySuffix DEF UpToDateInv
  <2>4. ASSUME NEW g \in Auctions, NEW k \in subscribers[g], stream[k] = "open"
        PROVE  IsSuffix(sent[k], log[g]) /\ IsSuffix(buffer'[g], sent[k])
    <3>1. IsSuffix(sent[k], log[g]) /\ IsSuffix(buffer[g], sent[k])
      BY <2>4 DEF UpToDateInv, SubscriberIsUpToDate
    <3>2. k \in Swaps /\ sent[k] \in Seq(Types)
      BY <1>1
    <3>3. IsSuffix(<<>>, sent[k])
      BY <3>2, EmptySuffix
    <3> QED
      BY <2>2, <3>1, <3>3
  <2>5. SubscriberIsUpToDate'
    BY <1>2, <2>1, <2>4 DEF SubscriberIsUpToDate
  <2> QED
    BY <1>2, <2>1, <2>3, <2>5 DEF UpToDateInv
<1>4. ASSUME NEW k \in Swaps, Subscribe(k)
      PROVE  UpToDateInv'
  <2>1. /\ stream[k] = "open" /\ k \notin subscribers[watched[k]] /\ buffer' = buffer
        /\ subscribers' = [subscribers EXCEPT ![watched[k]] = @ \cup {k}]
        /\ sent' = [sent EXCEPT ![k] = @ \o buffer[watched[k]]]
    BY <1>4 DEF Subscribe, Replay
  <2>2. PICK h \in Auctions : h = watched[k]
    BY <1>1, <2>1 DEF StatusInv, StreamInv, WatchInv
  <2>3. sent[k] = <<>> /\ buffer[h] \in Seq(Types)
    BY <1>1, <2>1, <2>2 DEF UpToDateInv
  <2>4. sent'[k] = buffer[h]
    BY <1>1, <2>1, <2>2, <2>3
  <2>5. /\ \A j \in Swaps : j # k => sent'[j] = sent[j]
        /\ \A g \in Auctions : g # h => subscribers'[g] = subscribers[g]
        /\ subscribers'[h] = subscribers[h] \cup {k}
    BY <1>1, <2>1, <2>2
  <2>6. IsSuffix(buffer[h], log[h]) /\ IsSuffix(buffer[h], buffer[h])
    BY <2>3, EmptySuffix DEF UpToDateInv
  <2>7. ASSUME NEW g \in Auctions, NEW j \in subscribers'[g], stream[j] = "open"
        PROVE  IsSuffix(sent'[j], log[g]) /\ IsSuffix(buffer[g], sent'[j])
    <3>1. CASE j = k
      <4>1. g = h
        BY <2>2, <2>5, <3>1 DEF StatusInv, EventInv
      <4> QED
        BY <2>4, <2>6, <3>1, <4>1
    <3>2. CASE j # k
      <4>1. j \in subscribers[g]
        BY <2>5, <2>7, <3>2
      <4>2. j \in Swaps
        BY <1>1, <4>1
      <4> QED
        BY <2>5, <2>7, <3>2, <4>1, <4>2 DEF UpToDateInv, SubscriberIsUpToDate
    <3> QED
      BY <3>1, <3>2
  <2>8. SubscriberIsUpToDate'
    BY <1>2, <2>1, <2>7 DEF SubscriberIsUpToDate
  <2>9. \A j \in Swaps : stream[j] = "connecting" =>
            sent'[j] = <<>> /\ \A g \in Auctions : j \notin subscribers'[g]
    BY <2>1, <2>5 DEF UpToDateInv
  <2>10. \A j \in Swaps : stream[j] = "open" /\ j \notin subscribers'[watched[j]] =>
            sent'[j] = <<>>
    <3>1. ASSUME NEW j \in Swaps, stream[j] = "open", j \notin subscribers'[watched[j]]
          PROVE  sent'[j] = <<>>
      <4>1. j # k
        BY <2>2, <2>5, <3>1
      <4>2. watched[j] \in Auctions
        BY <1>1, <3>1 DEF StatusInv, StreamInv, WatchInv
      <4>3. j \notin subscribers[watched[j]]
        BY <2>5, <3>1, <4>2
      <4> QED
        BY <2>5, <3>1, <4>1, <4>3 DEF UpToDateInv
    <3> QED
      BY <3>1
  <2> QED
    BY <1>2, <2>1, <2>8, <2>9, <2>10 DEF UpToDateInv
<1>5. ASSUME NEW k \in Swaps, Unsubscribe(k)
      PROVE  UpToDateInv'
  <2>1. PICK h \in Auctions : subscribers' = [subscribers EXCEPT ![h] = @ \ {k}]
    BY <1>5 DEF Unsubscribe
  <2>2. stream[k] = "closed" /\ UNCHANGED <<buffer, sent>>
    BY <1>5 DEF Unsubscribe
  <2>3. \A g \in Auctions : \A j \in Swaps :
            j # k => (j \in subscribers'[g] <=> j \in subscribers[g])
    BY <1>1, <2>1
  <2>4. \A g \in Auctions : subscribers'[g] \subseteq Swaps
    BY <1>1, <2>1
  <2>5. SubscriberIsUpToDate'
    BY <1>2, <2>2, <2>3, <2>4 DEF UpToDateInv, SubscriberIsUpToDate
  <2>6. \A j \in Swaps : stream[j] = "open" => j # k /\ watched[j] \in Auctions
    BY <1>1, <2>2 DEF StatusInv, StreamInv, WatchInv
  <2> QED
    BY <1>2, <2>2, <2>3, <2>5, <2>6 DEF UpToDateInv
<1> QED
  BY <1>3, <1>4, <1>5

LEMMA UpToDateNext == StatusInv /\ UpToDateInv /\ [Next]_vars => UpToDateInv'
<1> SUFFICES ASSUME StatusInv, UpToDateInv, [Next]_vars PROVE UpToDateInv'
  OBVIOUS
<1>1. CASE UNCHANGED vars
  BY <1>1, CardKeepsUpToDate DEF vars, session, card, emitter
<1>2. CASE \/ StartSwap \/ Fail \/ Prepare \/ Submit \/ Repost \/ StatusTimeout \/ DismissToast
           \/ \E h \in Auctions : TakePrepared(h) \/ StartAuction(h)
           \/ \E k \in Swaps : ExpirePrepared(k)
  <2>1. UNCHANGED <<log, buffer, subscribers, sent, watched>>
    BY <1>2 DEF StartSwap, Fail, Prepare, Submit, Repost, StatusTimeout, DismissToast,
                TakePrepared, StartAuction, ExpirePrepared, card, intents, emitter
  <2>2. stream' = stream \/ stream' = Cleared
    BY <1>2 DEF StartSwap, Fail, Prepare, Submit, Repost, StatusTimeout, DismissToast,
                TakePrepared, StartAuction, ExpirePrepared, Finish, card
  <2>3. \A k \in Swaps : stream'[k] \in {"connecting", "open"} => stream'[k] = stream[k]
    BY <2>2, ClearedTypes
  <2> QED
    BY <2>1, <2>3, CardKeepsUpToDate
<1>3. ASSUME NEW h \in Auctions,
             Watch(h) \/ ExpireBuffer(h) \/ \E type \in Types : Emit(h, type)
      PROVE  UpToDateInv'
  BY <1>3, WatchKeepsUpToDate, SubscriptionsKeepUpToDate, EmitKeepsUpToDate
<1>4. ASSUME NEW k \in Swaps,
             \/ StreamOpens(k) \/ StreamFails(k) \/ ReceiveEvent(k)
             \/ Subscribe(k) \/ Unsubscribe(k)
      PROVE  UpToDateInv'
  BY <1>4, SocketKeepsUpToDate, SubscriptionsKeepUpToDate
<1> QED
  BY <1>1, <1>2, <1>3, <1>4 DEF Next, Step, Types

\* For any number of swaps, sockets and events: a socket that is open and
\* subscribed was sent the events of its auction in order, none missing in
\* between or repeated, and all that UserStatusEmitter still holds.
THEOREM SubscriberUpToDateAlways == Spec => []SubscriberIsUpToDate
<1>1. Init => StatusInv /\ UpToDateInv
  BY StatusInvInit, UpToDateInit
<1>2. StatusInv /\ UpToDateInv /\ [Next]_vars => (StatusInv /\ UpToDateInv)'
  BY StatusInvNext, UpToDateNext
<1>3. UpToDateInv => SubscriberIsUpToDate
  BY DEF UpToDateInv
<1> QED
  BY <1>1, <1>2, <1>3, PTL DEF Spec
=============================================================================
