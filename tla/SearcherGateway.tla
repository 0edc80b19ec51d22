--------------------------- MODULE SearcherGateway ---------------------------
(***************************************************************************)
(* The /searcher WebSocket endpoint (ws/searcher.ts) with the registry of  *)
(* authenticated connections and the AuctionManager it feeds.              *)
(*                                                                         *)
(* handleAuth and handleBid await between their checks and their effects,  *)
(* so a socket may close, authenticate twice or be replaced, and an        *)
(* auction may close, while one of them is suspended.  ws.end runs the     *)
(* close handler before it returns.  A socket's number is its age.         *)
(***************************************************************************)
EXTENDS AuctionManager

CONSTANTS
    Sockets,        \* connections, numbered in the order they open
    Searchers, Nobody,
    Allowlist,      \* SEARCHER_ALLOWLIST, or all of Searchers
    KeysOf,         \* the keys the peer of each socket can sign with
    Amounts,        \* userCashbackLamports a bid may name
    MaxAuths,       \* bound on auth messages
    MaxBids,        \* bound on bid messages
    MaxClock        \* bound on Date.now()

ASSUME GatewayAssumption ==
    /\ Sockets \subseteq Nat /\ 0 \notin Sockets
    /\ Nobody \notin Searchers /\ Allowlist \subseteq Searchers
    /\ KeysOf \in [Sockets -> SUBSET Searchers]
    /\ Amounts \subseteq Int /\ {MaxAuths, MaxBids, MaxClock} \subseteq Nat

NoSocket == 0

VARIABLES
    open,       \* sockets that are connected
    seen,       \* sockets that have ever connected
    pubkey,     \* SearcherSocketData.pubkey; authenticated unless Nobody
    connections,\* SearcherWsRegistry.connections
    auths,      \* handleAuth calls suspended at an await
    proved,     \* <<socket, searcher>> whose auth message was verified
    authCount,
    pendingBids,\* handleBid calls awaiting validateBidCommitment
    answer,     \* reply to each bid message
    bidCount,
    clock,      \* Date.now()
    hinted,     \* sockets each hint was broadcast to
    results     \* auction_result messages: bid answered, socket, won

sockets == <<open, seen, pubkey, connections, auths, proved, authCount>>
bidding == <<pendingBids, answer, bidCount, clock>>
outcomes == <<hinted, results>>
vars == <<manager, sockets, bidding, outcomes>>

BidIds == 1..MaxBids

BidRecords == [id : BidIds, hint : Hints, socket : Sockets, searcher : Searchers,
               signer : Searchers, bid : Amounts, receivedAt : 0..MaxClock]

Init ==
    /\ ManagerInit
    /\ open = {} /\ seen = {}
    /\ pubkey = [w \in Sockets |-> Nobody]
    /\ connections = [s \in Searchers |-> NoSocket]
    /\ auths = {} /\ proved = {}
    /\ authCount = 0
    /\ pendingBids = {}
    /\ answer = [i \in BidIds |-> "none"]
    /\ bidCount = 0
    /\ clock = 0
    /\ hinted = [h \in Hints |-> {}]
    /\ results = {}

----------------------------------------------------------------------------
(* Connections *)

Authenticated(w) == pubkey[w] # Nobody

\* unregister(pubkey, ws) in the close handler.
Unregistered(conns, w) ==
    [s \in Searchers |->
        IF s = pubkey[w] /\ conns[s] = w THEN NoSocket ELSE conns[s]]

\* The close handler, run when the peer leaves and by ws.end.
End(w) ==
    /\ open' = open \ {w}
    /\ connections' = IF w \in open THEN Unregistered(connections, w) ELSE connections

RegisterKeepsOld(w, s) ==
    /\ open' = open
    /\ connections' = [connections EXCEPT ![s] = w]

\* register: the socket that held the key is ended, if it is still connected.
Register(w, s) ==
    LET old == connections[s]
        replaces == old \notin {NoSocket, w}
    IN  /\ open' = IF replaces THEN open \ {old} ELSE open
        /\ connections' =
             [(IF replaces /\ old \in open THEN Unregistered(connections, old)
               ELSE connections) EXCEPT ![s] = w]

OpenSocket(w) ==
    /\ w \notin seen
    /\ \A v \in Sockets : v < w => v \in seen
    /\ seen' = seen \cup {w}
    /\ open' = open \cup {w}
    /\ UNCHANGED <<manager, pubkey, connections, auths, proved, authCount,
                   bidding, outcomes>>

CloseSocket(w) ==
    /\ w \in open
    /\ End(w)
    /\ UNCHANGED <<manager, seen, pubkey, auths, proved, authCount, bidding, outcomes>>

\* handleAuth up to verifyAuthMessage.
ReceiveAuth(w, s) ==
    /\ w \in open
    /\ authCount < MaxAuths
    /\ authCount' = authCount + 1
    /\ IF Authenticated(w) \/ s \notin Allowlist
       THEN End(w) /\ UNCHANGED auths
       ELSE /\ auths' = auths \cup {[socket |-> w, searcher |-> s, phase |-> "verifying"]}
            /\ UNCHANGED <<open, connections>>
    /\ UNCHANGED <<manager, seen, pubkey, proved, bidding, outcomes>>

\* verifyAuthMessage: a fresh timestamp signed with the key.
Signed(a) == a.searcher \in KeysOf[a.socket]

\* verifyAuthMessage returned; a valid message may still be stale.
AuthVerified(a) ==
    /\ a.phase = "verifying"
    /\ \/ /\ Signed(a)
          /\ auths' = (auths \ {a}) \cup {[a EXCEPT !.phase = "upserting"]}
          /\ proved' = proved \cup
                (IF a.searcher \in KeysOf[a.socket] THEN {<<a.socket, a.searcher>>} ELSE {})
          /\ UNCHANGED <<open, connections>>
       \/ /\ auths' = auths \ {a}
          /\ End(a.socket)
          /\ UNCHANGED proved
    /\ UNCHANGED <<manager, seen, pubkey, authCount, bidding, outcomes>>

\* upsertSearcher returned, or threw: the socket is authenticated and
\* registered, whatever has become of it in the meantime.
AuthUpserted(a) ==
    /\ a.phase = "upserting"
    /\ auths' = auths \ {a}
    /\ \/ /\ pubkey' = [pubkey EXCEPT ![a.socket] = a.searcher]
          /\ Register(a.socket, a.searcher)
       \/ End(a.socket) /\ UNCHANGED pubkey
    /\ UNCHANGED <<manager, seen, proved, authCount, bidding, outcomes>>

----------------------------------------------------------------------------
(* Bids *)

\* handleBid up to validateBidCommitment.  Signer is the key the commitment is
\* signed with; receivedAt is stamped here.
ReceiveBid(w, h, amount, signer) ==
    /\ w \in open
    /\ signer \in KeysOf[w]
    /\ bidCount < MaxBids
    /\ bidCount' = bidCount + 1
    /\ \/ /\ ~Authenticated(w)
          /\ End(w)
          /\ answer' = [answer EXCEPT ![bidCount'] = "ended"]
          /\ UNCHANGED pendingBids
       \/ /\ Authenticated(w) /\ auction[h] # "open"
          /\ answer' = [answer EXCEPT ![bidCount'] = "rejected"]
          /\ UNCHANGED <<pendingBids, open, connections>>
       \/ /\ Authenticated(w) /\ auction[h] = "open"
          /\ pendingBids' = pendingBids \cup
                {[id |-> bidCount', hint |-> h, socket |-> w, searcher |-> pubkey[w],
                  signer |-> signer, bid |-> amount, receivedAt |-> clock]}
          /\ UNCHANGED <<answer, open, connections>>
    /\ UNCHANGED <<manager, seen, pubkey, auths, proved, authCount, clock, outcomes>>

\* validateBidCommitment: the signature is the bidder's own.
CommitmentValid(b) == b.signer = b.searcher

FinishBidUncaught(b) ==
    /\ pendingBids' = pendingBids \ {b}
    /\ \/ /\ CommitmentValid(b) /\ SubmitBid(b.hint, b)
          /\ answer' = [answer EXCEPT ![b.id] = "accepted"]
       \/ /\ ~(CommitmentValid(b) /\ AcceptsBids(b.hint))
          /\ UNCHANGED <<answer, manager>>
    /\ UNCHANGED <<sockets, bidCount, clock, outcomes>>

\* validateBidCommitment returned: submitBid, unless the auction has closed.
FinishBid(b) ==
    /\ pendingBids' = pendingBids \ {b}
    /\ \/ /\ CommitmentValid(b) /\ SubmitBid(b.hint, b)
          /\ answer' = [answer EXCEPT ![b.id] = "accepted"]
       \/ /\ ~(CommitmentValid(b) /\ AcceptsBids(b.hint))
          /\ answer' = [answer EXCEPT ![b.id] = "rejected"]
          /\ UNCHANGED manager
    /\ UNCHANGED <<sockets, bidCount, clock, outcomes>>

----------------------------------------------------------------------------
(* Auctions *)

\* startAuction broadcasts the hint to every registered connection.
BroadcastHint(h) ==
    /\ StartAuction(h)
    /\ hinted' = [hinted EXCEPT ![h] = {connections[s] : s \in Searchers} \cap open]
    /\ UNCHANGED <<sockets, bidding, results>>

ResolveAuction(h) ==
    /\ CloseAuction(h)
    /\ UNCHANGED <<sockets, bidding, outcomes>>

EverySocket(b) == open

\* sendAuctionResult looks the bidder's connection up again.
ResultSockets(b) == {connections[b.searcher]} \cap open

\* The pipeline is over: the result goes to the connection of every bid.
SendAuctionResult(h) ==
    /\ auction[h] = "gone"
    /\ \A r \in results : r.hint # h
    /\ \E winner \in {resolved[h][i].searcher : i \in DOMAIN resolved[h]} \cup {Nobody} :
        results' = results \cup UNION
            {{[hint |-> h, socket |-> w, yours |-> b, won |-> b.searcher = winner] :
                w \in ResultSockets(b)} :
                    b \in {resolved[h][i] : i \in DOMAIN resolved[h]}}
    /\ UNCHANGED <<manager, sockets, bidding, hinted>>

Tick ==
    /\ clock < MaxClock
    /\ clock' = clock + 1
    /\ UNCHANGED <<manager, sockets, pendingBids, answer, bidCount, outcomes>>

----------------------------------------------------------------------------
Next ==
    \/ \E w \in Sockets :
        \/ OpenSocket(w) \/ CloseSocket(w)
        \/ \E s \in Searchers : ReceiveAuth(w, s)
        \/ \E h \in Hints, amount \in Amounts, signer \in Searchers :
                ReceiveBid(w, h, amount, signer)
    \/ \E a \in auths : AuthVerified(a) \/ AuthUpserted(a)
    \/ \E b \in pendingBids : FinishBid(b)
    \/ \E h \in Hints : BroadcastHint(h) \/ ResolveAuction(h) \/ SendAuctionResult(h)
    \/ Tick

Spec == Init /\ [][Next]_vars

\* Suspended handlers are resumed: validateBidCommitment always settles.
FairSpec == Spec /\ WF_vars(\E b \in pendingBids : FinishBid(b))

----------------------------------------------------------------------------
(* Properties *)

\* Type correctness of sockets, registry, suspended handlers and auctions.
TypeOK ==
    /\ open \subseteq seen /\ seen \subseteq Sockets
    /\ pubkey \in [Sockets -> Searchers \cup {Nobody}]
    /\ connections \in [Searchers -> Sockets \cup {NoSocket}]
    /\ auths \subseteq [socket : Sockets, searcher : Searchers,
                        phase : {"verifying", "upserting"}]
    /\ proved \subseteq Sockets \X Searchers
    /\ pendingBids \subseteq BidRecords
    /\ answer \in [BidIds -> {"none", "accepted", "rejected", "ended"}]
    /\ auction \in [Hints -> {"none", "open", "gone"}]
    /\ \A h \in Hints : \A i \in DOMAIN book[h] : book[h][i] \in BidRecords

\* Only the holder of a key is registered under it, bids under it, or has its
\* key on an open socket - whatever else was authenticated on that socket.
KeysAreProved ==
    /\ \A s \in Searchers : connections[s] # NoSocket => <<connections[s], s>> \in proved
    /\ \A w \in open : pubkey[w] # Nobody => <<w, pubkey[w]>> \in proved
    /\ \A h \in Hints : \A i \in DOMAIN book[h] :
        <<book[h][i].socket, book[h][i].searcher>> \in proved

\* An open authenticated socket is the registered one, so it gets hints and
\* results: replacing a session ends the old one.
AuthenticatedIsRegistered ==
    \A w \in open : pubkey[w] # Nobody => connections[pubkey[w]] = w

\* The relay's view of its sessions is consistent, however the handlers of
\* several sockets interleave: well typed, every key proved, and one open
\* session, the registered one, for each key.
SessionsConsistent == TypeOK /\ KeysAreProved /\ AuthenticatedIsRegistered

\* "bid_accepted" is a promise: the bid stands in the book its auction resolved
\* with, though the auction may close while the signature is being checked.
AcceptedBidStands ==
    \A i \in BidIds : answer[i] = "accepted" =>
        \E h \in Hints :
            IF auction[h] = "gone"
            THEN \E p \in DOMAIN resolved[h] : resolved[h][p].id = i
            ELSE \E p \in DOMAIN book[h] : book[h][p].id = i

\* The order book is what finalizeAuction may act on: every bid once, best
\* first, the earlier of two equal bids first.
ResolvedBestFirst ==
    \A h \in Hints : auction[h] = "gone" =>
        /\ Len(resolved[h]) = Len(book[h])
        /\ {resolved[h][p] : p \in DOMAIN resolved[h]} = {book[h][p] : p \in DOMAIN book[h]}
        /\ \A p, q \in DOMAIN resolved[h] : p < q =>
            \/ resolved[h][p].bid > resolved[h][q].bid
            \/ /\ resolved[h][p].bid = resolved[h][q].bid
               /\ resolved[h][p].receivedAt <= resolved[h][q].receivedAt

\* A result, which quotes the bid, is sent only to a holder of the bidder's key
\* although sockets come and go between the bid and the result.
ResultsStayPrivate ==
    \A r \in results : <<r.socket, r.yours.searcher>> \in proved

\* Every bid message is answered, also when its auction closes or its socket
\* goes before the signature has been checked.
BidsAreAnswered ==
    \A i \in BidIds : bidCount >= i ~> answer[i] # "none"
=============================================================================
