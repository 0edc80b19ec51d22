--------------------------- MODULE SearcherClient ---------------------------
(***************************************************************************)
(* FlowbackSearcher, the WebSocket client of the searcher SDK              *)
(* (sdk/src/client.ts): connect, authenticate, submit bids and match the   *)
(* relay's acks to them, reconnect when the connection drops.              *)
(*                                                                         *)
(* The application may call connect, submitBid and disconnect at any time, *)
(* and is taken to have registered onError: without it every error event   *)
(* the client emits would end the process.                                 *)
(*                                                                         *)
(* The transport and the relay answer, or do not.  The close event of a    *)
(* socket comes some time after ws.close().                                *)
(***************************************************************************)
EXTENDS Integers, FiniteSets

CONSTANTS
    Hints,
    MaxConns,       \* bound on WebSockets ever created
    MaxBids,        \* bound on submitBid calls
    BidsPerHint,    \* how often the application bids on one hint
    Reuse           \* whether it calls connect again after disconnect

ASSUME ClientAssumption ==
    /\ {MaxConns, MaxBids, BidsPerHint} \subseteq Nat \ {0}
    /\ Reuse \in BOOLEAN
    /\ 0 \notin Hints

Conns == 1..MaxConns
BidCalls == 1..MaxBids
None == 0

VARIABLES
    ws,         \* this.ws
    socket,     \* state of each WebSocket
    handlers,   \* openAndAuth's handlers on each socket
    attached,   \* sockets with the message, error and close handlers
    explicitlyClosed,
    connects,   \* calls of connect under way or over
    timers,     \* reconnects scheduled by handleClose
    acks,       \* pendingBidAcks
    promise,    \* what each submitBid call returned
    sentOn,     \* the hint and socket of each call's bid message
    answered,   \* bids the relay has answered, and how
    replies,    \* answers on their way
    alive       \* no error event went unhandled

connection == <<ws, socket, handlers, attached, explicitlyClosed, connects, timers>>
bidding == <<acks, promise, sentOn, answered, replies>>
vars == <<connection, bidding, alive>>

NoBid == [hint |-> None, conn |-> None]

Init ==
    /\ ws = None
    /\ socket = [c \in Conns |-> "unused"]
    /\ handlers = [c \in Conns |-> "awaited"]
    /\ attached = {}
    /\ explicitlyClosed = FALSE
    /\ connects = 0
    /\ timers = 0
    /\ acks = [h \in Hints |-> None]
    /\ promise = [i \in BidCalls |-> "none"]
    /\ sentOn = [i \in BidCalls |-> NoBid]
    /\ answered = [i \in BidCalls |-> "no"]
    /\ replies = {}
    /\ alive = TRUE

----------------------------------------------------------------------------
(* Connecting *)

Unused == {c \in Conns : socket[c] = "unused"}
NextSocket == CHOOSE c \in Unused : \A d \in Unused : c <= d

\* openAndAuth up to the signer: a new WebSocket becomes this.ws.
OpenSocket ==
    /\ Unused # {}
    /\ ws' = NextSocket
    /\ socket' = [socket EXCEPT ![NextSocket] = "connecting"]

Connect ==
    /\ connects = 0 \/ (Reuse /\ explicitlyClosed)
    /\ connects' = connects + 1
    /\ explicitlyClosed' = FALSE
    /\ OpenSocket
    /\ UNCHANGED <<handlers, attached, timers, bidding, alive>>

ReconnectRepeats ==
    /\ timers > 0
    /\ OpenSocket
    /\ UNCHANGED <<handlers, attached, explicitlyClosed, connects, timers, bidding, alive>>

\* The reconnect timer of handleClose fires.
Reconnect ==
    /\ timers > 0
    /\ timers' = timers - 1
    /\ OpenSocket
    /\ UNCHANGED <<handlers, attached, explicitlyClosed, connects, bidding, alive>>

\* buildAuthMessage resolved: handlers and the auth timer are set.
AuthMessageBuilt(c) ==
    /\ socket[c] # "unused"
    /\ handlers[c] = "awaited"
    /\ handlers' = [handlers EXCEPT ![c] = "set"]
    /\ UNCHANGED <<ws, socket, attached, explicitlyClosed, connects, timers, bidding, alive>>

\* The handshake is done; the auth message goes out if somebody listens.
TransportOpens(c) ==
    /\ socket[c] = "connecting"
    /\ socket' = [socket EXCEPT ![c] = IF handlers[c] = "set" THEN "authenticating" ELSE "open"]
    /\ UNCHANGED <<ws, handlers, attached, explicitlyClosed, connects, timers, bidding, alive>>

\* The handshake fails or is aborted by ws.close(): openAndAuth rejects, or
\* nobody handles the error event and the process ends.
TransportFails(c) ==
    /\ socket[c] \in {"connecting", "aborting"}
    /\ socket' = [socket EXCEPT ![c] = "closed"]
    /\ alive' = (handlers[c] = "set")
    /\ UNCHANGED <<ws, handlers, attached, explicitlyClosed, connects, timers, bidding>>

\* The answer to the auth message may come after ws.close() ("leaving").
AwaitsAuth(c) == socket[c] \in {"authenticating", "leaving"}

\* auth_ok: the handlers are attached, and the client is connected unless it
\* is leaving.
AuthOk(c) ==
    /\ AwaitsAuth(c)
    /\ socket' = [socket EXCEPT ![c] = IF @ = "leaving" THEN "closing" ELSE "ready"]
    /\ attached' = attached \cup {c}
    /\ UNCHANGED <<ws, handlers, explicitlyClosed, connects, timers, bidding, alive>>

\* What ws.close() does to a socket.
Closing(state) ==
    CASE state = "connecting" -> "aborting"
      [] state = "authenticating" -> "leaving"
      [] state \in {"open", "ready", "abandoned"} -> "closing"
      [] OTHER -> state

\* No auth_ok within AUTH_TIMEOUT_MS: the handlers go, then the socket.
AuthTimeout(c) ==
    /\ handlers[c] = "set"
    /\ socket[c] \in {"connecting", "open"} \/ AwaitsAuth(c)
    /\ handlers' = [handlers EXCEPT ![c] = "removed"]
    /\ socket' = [socket EXCEPT ![c] = IF @ = "connecting" THEN "aborting" ELSE "closing"]
    /\ UNCHANGED <<ws, attached, explicitlyClosed, connects, timers, bidding, alive>>

\* Another reply than auth_ok: openAndAuth rejects and does not close the socket.
AuthRefused(c) ==
    /\ AwaitsAuth(c)
    /\ socket' = [socket EXCEPT ![c] = IF @ = "leaving" THEN "closing" ELSE "abandoned"]
    /\ UNCHANGED <<ws, handlers, attached, explicitlyClosed, connects, timers, bidding, alive>>

Disconnect ==
    /\ connects > 0 /\ ~explicitlyClosed
    /\ explicitlyClosed' = TRUE
    /\ ws' = None
    /\ socket' = [c \in Conns |-> IF c = ws THEN Closing(socket[c]) ELSE socket[c]]
    /\ UNCHANGED <<handlers, attached, connects, timers, bidding, alive>>

\* The acks handleClose rejects.
Listed == {acks[h] : h \in Hints} \ {None}

NewTimersOnce == IF explicitlyClosed \/ Cardinality(attached) > 1 THEN 0 ELSE 1

\* handleClose schedules a reconnect unless the application has closed.
NewTimers == IF explicitlyClosed THEN 0 ELSE 1

\* handleClose, or no handler at all before auth_ok.
TransportCloses(c) ==
    /\ socket[c] \in {"open", "authenticating", "ready", "abandoned", "leaving", "closing"}
    /\ socket' = [socket EXCEPT ![c] = "closed"]
    /\ IF c \in attached
       THEN /\ ws' = None
            /\ promise' = [i \in BidCalls |-> IF i \in Listed THEN "closed" ELSE promise[i]]
            /\ acks' = [h \in Hints |-> None]
            /\ timers' = timers + NewTimers
       ELSE UNCHANGED <<ws, promise, acks, timers>>
    /\ UNCHANGED <<handlers, attached, explicitlyClosed, connects, sentOn,
                   answered, replies, alive>>

----------------------------------------------------------------------------
(* Bidding *)

Bids(h) == {i \in BidCalls : sentOn[i].hint = h}

CanSend == ws # None /\ socket[ws] \in {"open", "authenticating", "ready", "abandoned"}

\* submitBid on an open socket: the bid is sent and its ack awaited.
SubmitBid(i, h) ==
    /\ promise[i] = "none"
    /\ \A j \in BidCalls : j < i => promise[j] # "none"
    /\ Cardinality(Bids(h)) < BidsPerHint
    /\ CanSend
    /\ promise' = [promise EXCEPT ![i] = "pending"]
    /\ acks' = [acks EXCEPT ![h] = i]
    /\ sentOn' = [sentOn EXCEPT ![i] = [hint |-> h, conn |-> ws]]
    /\ UNCHANGED <<connection, answered, replies, alive>>

\* The relay answers a bid it received on a connection it authenticated.
RelayAnswers(i, verdict) ==
    /\ promise[i] # "none" /\ answered[i] = "no"
    /\ sentOn[i].conn \in attached
    /\ socket[sentOn[i].conn] \in {"ready", "closing"}
    /\ answered' = [answered EXCEPT ![i] = verdict]
    /\ replies' = replies \cup {[conn |-> sentOn[i].conn, hint |-> sentOn[i].hint,
                                 verdict |-> verdict, bid |-> i]}
    /\ UNCHANGED <<connection, acks, promise, sentOn, alive>>

OldestAck(h) == IF Listed = {} THEN None ELSE CHOOSE i \in Listed : \A j \in Listed : i <= j

\* pendingBidAcks.get(hintId).
AckOf(h) == acks[h]

\* handleMessage on bid_accepted or bid_rejected.
ReceiveReply(r) ==
    /\ socket[r.conn] \in {"ready", "closing"}
    /\ replies' = replies \ {r}
    /\ LET i == AckOf(r.hint)
       IN  IF i = None THEN UNCHANGED <<promise, acks>>
           ELSE /\ promise' = [promise EXCEPT ![i] = r.verdict]
                /\ acks' = [acks EXCEPT ![r.hint] = None]
    /\ UNCHANGED <<connection, sentOn, answered, alive>>

AckTimeoutIfListed(i) ==
    /\ promise[i] = "pending"
    /\ acks[sentOn[i].hint] = i
    /\ promise' = [promise EXCEPT ![i] = "timeout"]
    /\ acks' = [acks EXCEPT ![sentOn[i].hint] = None]
    /\ UNCHANGED <<connection, sentOn, answered, replies, alive>>

\* BID_ACK_TIMEOUT_MS passed for this call; the entry of its hint is deleted.
AckTimeout(i) ==
    /\ promise[i] = "pending"
    /\ promise' = [promise EXCEPT ![i] = "timeout"]
    /\ acks' = [acks EXCEPT ![sentOn[i].hint] = None]
    /\ UNCHANGED <<connection, sentOn, answered, replies, alive>>

----------------------------------------------------------------------------
Next ==
    /\ alive
    /\ \/ Connect \/ Reconnect \/ Disconnect
       \/ \E c \in Conns :
            \/ AuthMessageBuilt(c) \/ TransportOpens(c) \/ TransportFails(c)
            \/ AuthOk(c) \/ AuthTimeout(c) \/ AuthRefused(c) \/ TransportCloses(c)
       \/ \E i \in BidCalls :
            \/ \E h \in Hints : SubmitBid(i, h)
            \/ \E verdict \in {"accepted", "rejected"} : RelayAnswers(i, verdict)
            \/ AckTimeout(i)
       \/ \E r \in replies : ReceiveReply(r)

Spec == Init /\ [][Next]_vars

\* The five seconds of every ack timer pass.
FairSpec == Spec /\ \A i \in BidCalls : WF_vars(alive /\ AckTimeout(i))

----------------------------------------------------------------------------
(* Properties *)

Ready == {c \in Conns : socket[c] = "ready"}

\* Type correctness of the client's state.
TypeOK ==
    /\ ws \in Conns \cup {None}
    /\ socket \in [Conns -> {"unused", "connecting", "open", "authenticating", "ready",
                             "abandoned", "aborting", "leaving", "closing", "closed"}]
    /\ handlers \in [Conns -> {"awaited", "set", "removed"}]
    /\ attached \subseteq Conns
    /\ explicitlyClosed \in BOOLEAN
    /\ timers \in 0..MaxConns
    /\ acks \in [Hints -> BidCalls \cup {None}]
    /\ promise \in [BidCalls -> {"none", "pending", "accepted", "rejected", "timeout", "closed"}]
    /\ answered \in [BidCalls -> {"no", "accepted", "rejected"}]
    /\ \A i \in BidCalls : promise[i] # "none" =>
            sentOn[i] \in [hint : Hints, conn : Conns]

\* The only bid on its hint.
Single(i) == Bids(sentOn[i].hint) = {i}

\* submitBid resolves only if the relay accepted that very bid, and reports a
\* rejection only if it rejected it, across drops and reconnects and among the
\* bids on other hints.  pendingBidAcks is keyed by hint, so this takes an
\* application that bids once on it.
AckIsForThisBid ==
    \A i \in BidCalls :
        Single(i) /\ promise[i] \in {"accepted", "rejected"} => answered[i] = promise[i]

\* An application that connects once never has two authenticated connections,
\* however often its connection drops and whenever it disconnects.  The state
\* is well typed, no more timers than sockets included.
OneConnection == TypeOK /\ (connects <= 1 => Cardinality(Ready) <= 1)

\* Every promise submitBid returned is settled, even when a later bid on the
\* same hint took its place in pendingBidAcks or the connection is gone.
EverySubmitSettles ==
    \A i \in BidCalls : promise[i] = "pending" ~> (promise[i] # "pending" \/ ~alive)

\* "After this, onDisconnect fires once and no reconnect is attempted"
\* (sdk/src/client.ts:64).
NoReconnectAfterDisconnect ==
    [][explicitlyClosed => Unused' = Unused \/ connects' # connects]_vars

\* "After auth, the SDK auto-reconnects on drops with exponential backoff
\* (1 s to 30 s cap)" (docs/content/docs/how-it-works.mdx:119): a client that
\* was connected and not told to stop is connected or on its way, as long as
\* each of its attempts got as far as auth_ok (no later attempt is scheduled
\* after one that did not, sdk/src/client.ts:248).
KeepsTrying ==
    /\ attached # {} /\ ~explicitlyClosed
    /\ \A c \in Conns : socket[c] \in {"closed", "abandoned"} => c \in attached
    => timers > 0 \/ \E c \in Conns : socket[c] \notin {"unused", "closed"}
=============================================================================
