----------------------- MODULE SearcherGatewayProofs -----------------------
(***************************************************************************)
(* The searchers' sessions and the order book, for any number of sockets,  *)
(* keys, auctions and bids.                                                *)
(*                                                                         *)
(* The sort of closeAuction is a count: a bid's position is one more than  *)
(* the number of bids before it, and the order in which the comparator and *)
(* the stability of the sort put two bids is a strict total one, so that   *)
(* positions are the numbers from one to the length of the book.           *)
(***************************************************************************)
EXTENDS SearcherGateway, FiniteSetTheorems, SequenceTheorems, TLAPS

----------------------------------------------------------------------------
(* Sorting the book *)

\* What the comparator looks at.
Comparable(bids) ==
    /\ DOMAIN bids = 1..Len(bids) /\ Len(bids) \in Nat
    /\ \A i \in DOMAIN bids : bids[i].bid \in Int /\ bids[i].receivedAt \in Int

\* No two bids share a place, and the order has no cycles.
LEMMA BeforeIsTotal ==
    ASSUME NEW bids, Comparable(bids)
    PROVE  /\ \A i \in DOMAIN bids : ~Before(bids, i, i)
           /\ \A i, j \in DOMAIN bids : i # j => Before(bids, i, j) \/ Before(bids, j, i)
           /\ \A i, j, k \in DOMAIN bids :
                Before(bids, i, j) /\ Before(bids, j, k) => Before(bids, i, k)
  BY DEF Comparable, Before, Better

\* The bids before a given one.
Ahead(bids, i) == {j \in DOMAIN bids : Before(bids, j, i)}

LEMMA PositionInRange ==
    ASSUME NEW bids, Comparable(bids), NEW i \in DOMAIN bids
    PROVE  /\ IsFiniteSet(Ahead(bids, i)) /\ Cardinality(Ahead(bids, i)) \in Nat
           /\ Position(bids, i) = 1 + Cardinality(Ahead(bids, i))
           /\ Position(bids, i) \in DOMAIN bids
<1>1. IsFiniteSet(DOMAIN bids) /\ Cardinality(DOMAIN bids) = Len(bids) /\ Len(bids) \in Nat
  <2>1. PICK n \in Nat : n = Len(bids) /\ DOMAIN bids = 1..n
    BY DEF Comparable
  <2>2. IsFiniteSet(1..n) /\ Cardinality(1..n) = IF 1 > n THEN 0 ELSE n - 1 + 1
    BY FS_Interval
  <2> QED
    BY <2>1, <2>2
<1>2. /\ IsFiniteSet(DOMAIN bids \ {i})
      /\ Cardinality(DOMAIN bids \ {i}) = Len(bids) - 1
  BY <1>1, FS_RemoveElement
<1>3. Ahead(bids, i) \in SUBSET (DOMAIN bids \ {i})
  BY BeforeIsTotal DEF Ahead
<1>4. /\ IsFiniteSet(Ahead(bids, i))
      /\ Cardinality(Ahead(bids, i)) <= Len(bids) - 1
      /\ Cardinality(Ahead(bids, i)) \in Nat
  BY <1>2, <1>3, FS_Subset, FS_CardinalityType
<1>5. Position(bids, i) = 1 + Cardinality(Ahead(bids, i))
  BY DEF Position, Ahead
<1> QED
  BY <1>1, <1>4, <1>5 DEF Comparable

\* A bid's position is above those of the bids before it.
LEMMA PositionGrows ==
    ASSUME NEW bids, Comparable(bids), NEW i \in DOMAIN bids, NEW j \in DOMAIN bids,
           Before(bids, i, j)
    PROVE  Position(bids, i) < Position(bids, j)
<1>1. Ahead(bids, i) \cup {i} \in SUBSET Ahead(bids, j)
  BY BeforeIsTotal DEF Ahead
<1>2. i \notin Ahead(bids, i)
  BY BeforeIsTotal DEF Ahead
<1>3. Cardinality(Ahead(bids, i) \cup {i}) = Cardinality(Ahead(bids, i)) + 1
  BY <1>2, PositionInRange, FS_AddElement
<1>4. Cardinality(Ahead(bids, i)) + 1 <= Cardinality(Ahead(bids, j))
  BY <1>1, <1>3, PositionInRange, FS_Subset
<1> QED
  BY <1>4, PositionInRange

\* Every place is taken.
LEMMA EveryPositionTaken ==
    ASSUME NEW bids, Comparable(bids)
    PROVE  \A p \in DOMAIN bids : \E i \in DOMAIN bids : Position(bids, i) = p
<1> DEFINE f == [i \in DOMAIN bids |-> Position(bids, i)]
<1>1. f \in [DOMAIN bids -> DOMAIN bids]
  BY PositionInRange
<1>2. \A i, j \in DOMAIN bids : f[i] = f[j] => i = j
  <2> SUFFICES ASSUME NEW i \in DOMAIN bids, NEW j \in DOMAIN bids, i # j
               PROVE  Position(bids, i) # Position(bids, j)
    OBVIOUS
  <2>1. Position(bids, i) \in Int /\ Position(bids, j) \in Int
    BY PositionInRange
  <2>2. Position(bids, i) < Position(bids, j) \/ Position(bids, j) < Position(bids, i)
    BY BeforeIsTotal, PositionGrows
  <2> QED
    BY <2>1, <2>2
<1>3. f \in Injection(DOMAIN bids, DOMAIN bids)
  BY <1>1, <1>2 DEF Injection, IsInjective
<1>4. IsFiniteSet(DOMAIN bids)
  BY FS_Interval DEF Comparable
<1>5. f \in Surjection(DOMAIN bids, DOMAIN bids)
  BY <1>3, <1>4, FS_Injection
<1>6. \A p \in DOMAIN bids : \E i \in DOMAIN bids : f[i] = p
  BY <1>5 DEF Surjection
<1> QED
  BY <1>6

\* What closeAuction resolves with: the bids of the book, best first.
LEMMA SortedIsOrdered ==
    ASSUME NEW bids, Comparable(bids)
    PROVE  /\ DOMAIN Sorted(bids) = DOMAIN bids
           /\ {Sorted(bids)[p] : p \in DOMAIN bids} = {bids[i] : i \in DOMAIN bids}
           /\ \A p, q \in DOMAIN bids : p < q =>
                \/ Sorted(bids)[p].bid > Sorted(bids)[q].bid
                \/ /\ Sorted(bids)[p].bid = Sorted(bids)[q].bid
                   /\ Sorted(bids)[p].receivedAt <= Sorted(bids)[q].receivedAt
<1> DEFINE at(p) == CHOOSE i \in DOMAIN bids : Position(bids, i) = p
<1>1. \A p \in DOMAIN bids : at(p) \in DOMAIN bids /\ Position(bids, at(p)) = p
  BY EveryPositionTaken
<1>2. DOMAIN Sorted(bids) = DOMAIN bids /\ \A p \in DOMAIN bids : Sorted(bids)[p] = bids[at(p)]
  BY DEF Sorted
<1>3. \A i \in DOMAIN bids : Position(bids, i) \in DOMAIN bids /\ at(Position(bids, i)) = i
  <2> SUFFICES ASSUME NEW i \in DOMAIN bids
               PROVE  Position(bids, i) \in DOMAIN bids /\ at(Position(bids, i)) = i
    OBVIOUS
  <2>1. PICK p \in DOMAIN bids : p = Position(bids, i)
    BY PositionInRange
  <2>2. PICK j \in DOMAIN bids : j = at(p) /\ Position(bids, j) = p
    BY <1>1
  <2>3. p \in Int
    BY DEF Comparable
  <2>4. i = j
    BY <2>1, <2>2, <2>3, BeforeIsTotal, PositionGrows
  <2> QED
    BY <2>1, <2>2, <2>4
<1> HIDE DEF at
<1>4. {Sorted(bids)[p] : p \in DOMAIN bids} = {bids[i] : i \in DOMAIN bids}
  BY <1>1, <1>2, <1>3
<1>5. ASSUME NEW p \in DOMAIN bids, NEW q \in DOMAIN bids, p < q
      PROVE  \/ Sorted(bids)[p].bid > Sorted(bids)[q].bid
             \/ /\ Sorted(bids)[p].bid = Sorted(bids)[q].bid
                /\ Sorted(bids)[p].receivedAt <= Sorted(bids)[q].receivedAt
  <2>1. PICK i \in DOMAIN bids : i = at(p) /\ Position(bids, i) = p
    BY <1>1
  <2>2. PICK j \in DOMAIN bids : j = at(q) /\ Position(bids, j) = q
    BY <1>1
  <2>3. p \in Int /\ q \in Int
    BY DEF Comparable
  <2>4. ~Before(bids, j, i) /\ i # j
    BY <1>5, <2>1, <2>2, <2>3, PositionGrows
  <2>5. Before(bids, i, j)
    BY <2>4, BeforeIsTotal
  <2>6. /\ bids[i].bid \in Int /\ bids[i].receivedAt \in Int
        /\ bids[j].bid \in Int /\ bids[j].receivedAt \in Int
    BY DEF Comparable
  <2>7. \/ bids[i].bid > bids[j].bid
        \/ bids[i].bid = bids[j].bid /\ bids[i].receivedAt <= bids[j].receivedAt
    BY <2>5, <2>6 DEF Before, Better
  <2> QED
    BY <1>2, <2>1, <2>2, <2>7
<1> QED
  BY <1>2, <1>4, <1>5

----------------------------------------------------------------------------
(* The invariant *)

\* Sockets and registry: a key is on a socket, under way to it or registered
\* for it only if the socket's peer proved it; register ends the socket it
\* replaces, so an open one is the registered one.
SessionInv ==
    /\ open \subseteq seen /\ seen \subseteq Sockets
    /\ pubkey \in [Sockets -> Searchers \cup {Nobody}]
    /\ connections \in [Searchers -> Sockets \cup {NoSocket}]
    /\ auths \subseteq [socket : Sockets, searcher : Searchers,
                        phase : {"verifying", "upserting"}]
    /\ proved \subseteq Sockets \X Searchers
    /\ \A a \in auths : a.socket \in seen
    /\ \A w \in Sockets : pubkey[w] # Nobody => w \in seen
    /\ \A a \in auths : a.phase = "upserting" => <<a.socket, a.searcher>> \in proved
    /\ \A s \in Searchers : connections[s] # NoSocket => <<connections[s], s>> \in proved
    /\ \A w \in Sockets : pubkey[w] # Nobody => <<w, pubkey[w]>> \in proved
    /\ AuthenticatedIsRegistered

\* Bids under way and in the book are of a key the bidding socket proved.
BidderProved(b) == <<b.socket, b.searcher>> \in proved

\* An accepted bid is in a book, and a book that was closed stays as it was.
BookInv ==
    /\ auction \in [Hints -> {"none", "open", "gone"}]
    /\ book \in [Hints -> Seq(BidRecords)]
    /\ DOMAIN resolved = Hints
    /\ \A h \in Hints : auction[h] = "gone" => resolved[h] = Sorted(book[h])
    /\ \A h \in Hints : \A p \in DOMAIN book[h] : BidderProved(book[h][p])

AnswersInv ==
    /\ clock \in 0..MaxClock /\ bidCount \in 0..MaxBids
    /\ answer \in [BidIds -> {"none", "accepted", "rejected", "ended"}]
    /\ pendingBids \subseteq BidRecords
    /\ \A b \in pendingBids : BidderProved(b)
    /\ \A i \in BidIds : answer[i] = "accepted" =>
        \E h \in Hints : \E p \in DOMAIN book[h] : book[h][p].id = i

GatewayInv == SessionInv /\ BookInv /\ AnswersInv /\ ResultsStayPrivate

----------------------------------------------------------------------------
(* Sessions *)

\* Ending a socket takes it off the registry and no other.
LEMMA EndKeepsOthers ==
    ASSUME SessionInv, NEW w \in Sockets, End(w)
    PROVE  /\ open' \subseteq open
           /\ connections' \in [Searchers -> Sockets \cup {NoSocket}]
           /\ \A s \in Searchers : connections'[s] \in {connections[s], NoSocket}
           /\ \A v \in open' : pubkey[v] # Nobody => connections'[pubkey[v]] = v
<1>1. /\ open' \subseteq open /\ w \notin open'
      /\ connections' \in [Searchers -> Sockets \cup {NoSocket}]
      /\ \A s \in Searchers :
            \/ connections'[s] = connections[s]
            \/ connections[s] = w /\ connections'[s] = NoSocket
  BY DEF SessionInv, End, Unregistered
<1>2. ASSUME NEW v \in open', pubkey[v] # Nobody
      PROVE  connections'[pubkey[v]] = v
  <2>1. v \in open /\ v # w /\ pubkey[v] \in Searchers /\ connections[pubkey[v]] = v
    BY <1>1, <1>2 DEF SessionInv, AuthenticatedIsRegistered
  <2> QED
    BY <1>1, <2>1
<1> QED
  BY <1>1, <1>2

\* Registering a socket ends the one it replaces.
LEMMA RegisterEndsOld ==
    ASSUME SessionInv, NEW w \in Sockets, NEW s \in Searchers, Register(w, s),
           pubkey' = [pubkey EXCEPT ![w] = s]
    PROVE  /\ open' \subseteq open
           /\ connections' \in [Searchers -> Sockets \cup {NoSocket}]
           /\ \A t \in Searchers :
                \/ connections'[t] \in {connections[t], NoSocket}
                \/ t = s /\ connections'[t] = w
           /\ \A v \in open' : pubkey'[v] # Nobody => connections'[pubkey'[v]] = v
<1>1. PICK old \in Sockets \cup {NoSocket} : old = connections[s]
  BY DEF SessionInv
<1>2. /\ open' \subseteq open
      /\ old \notin {NoSocket, w} => old \notin open'
      /\ connections' \in [Searchers -> Sockets \cup {NoSocket}]
      /\ connections'[s] = w
      /\ \A t \in Searchers \ {s} :
            \/ connections'[t] = connections[t]
            \/ /\ old \notin {NoSocket, w} /\ connections[t] = old
               /\ connections'[t] = NoSocket
  BY <1>1 DEF SessionInv, Register, Unregistered
<1>3. ASSUME NEW v \in open', pubkey'[v] # Nobody
      PROVE  connections'[pubkey'[v]] = v
  <2>1. v \in open /\ v \in Sockets
    BY <1>2 DEF SessionInv
  <2>2. CASE v = w
    BY <1>2, <2>1, <2>2 DEF SessionInv
  <2>3. CASE v # w
    <3>1. /\ pubkey'[v] = pubkey[v] /\ pubkey[v] \in Searchers
          /\ connections[pubkey[v]] = v
      BY <1>3, <2>1, <2>3 DEF SessionInv, AuthenticatedIsRegistered
    <3>2. pubkey[v] # s
      BY <1>1, <1>2, <1>3, <2>1, <2>3, <3>1, GatewayAssumption DEF NoSocket
    <3>3. connections'[pubkey[v]] = v
      BY <1>2, <1>3, <3>1, <3>2
    <3> QED
      BY <3>1, <3>3
  <2> QED
    BY <2>2, <2>3
<1> QED
  BY <1>2, <1>3

\* A step that ends sockets and changes nothing else about the sessions.
LEMMA EndKeepsSessions ==
    ASSUME SessionInv, NEW w \in Sockets, End(w),
           UNCHANGED <<seen, pubkey, auths, proved>>
    PROVE  SessionInv'
<1>1. /\ open' \subseteq open
      /\ connections' \in [Searchers -> Sockets \cup {NoSocket}]
      /\ \A s \in Searchers : connections'[s] \in {connections[s], NoSocket}
      /\ \A v \in open' : pubkey[v] # Nobody => connections'[pubkey[v]] = v
  BY EndKeepsOthers
<1> QED
  BY <1>1 DEF SessionInv, AuthenticatedIsRegistered

LEMMA SessionsUntouched ==
    ASSUME SessionInv, UNCHANGED sockets
    PROVE  SessionInv'
  BY DEF SessionInv, AuthenticatedIsRegistered, sockets

LEMMA OpenSocketKeeps ==
    ASSUME SessionInv, NEW w \in Sockets, OpenSocket(w)
    PROVE  SessionInv'
  BY DEF SessionInv, AuthenticatedIsRegistered, OpenSocket

LEMMA ReceiveAuthKeeps ==
    ASSUME SessionInv, NEW w \in Sockets, NEW s \in Searchers, ReceiveAuth(w, s)
    PROVE  SessionInv'
<1>1. CASE End(w) /\ UNCHANGED auths
  BY <1>1, EndKeepsSessions DEF ReceiveAuth
<1>2. CASE /\ auths' = auths \cup {[socket |-> w, searcher |-> s, phase |-> "verifying"]}
           /\ UNCHANGED <<open, connections>>
  BY <1>2 DEF ReceiveAuth, SessionInv, AuthenticatedIsRegistered
<1> QED
  BY <1>1, <1>2 DEF ReceiveAuth

LEMMA AuthVerifiedKeeps ==
    ASSUME SessionInv, NEW a \in auths, AuthVerified(a)
    PROVE  SessionInv'
<1>1. a.socket \in Sockets /\ a.searcher \in Searchers
  BY DEF SessionInv
<1>2. CASE /\ Signed(a)
           /\ auths' = (auths \ {a}) \cup {[a EXCEPT !.phase = "upserting"]}
           /\ proved' = proved \cup
                (IF a.searcher \in KeysOf[a.socket] THEN {<<a.socket, a.searcher>>} ELSE {})
           /\ UNCHANGED <<open, connections>>
  <2>1. proved' = proved \cup {<<a.socket, a.searcher>>}
    BY <1>2 DEF Signed
  <2>2. PICK c : c = [a EXCEPT !.phase = "upserting"]
    OBVIOUS
  <2>3. /\ c \in [socket : Sockets, searcher : Searchers, phase : {"verifying", "upserting"}]
        /\ c.socket = a.socket /\ c.searcher = a.searcher
    BY <2>2 DEF SessionInv
  <2>4. auths' = (auths \ {a}) \cup {c}
    BY <1>2, <2>2
  <2>5. \A b \in auths' : b.phase = "upserting" => <<b.socket, b.searcher>> \in proved'
    BY <2>1, <2>3, <2>4 DEF SessionInv
  <2> QED
    BY <1>1, <1>2, <2>1, <2>3, <2>4, <2>5
    DEF AuthVerified, SessionInv, AuthenticatedIsRegistered
<1>3. CASE /\ auths' = auths \ {a}
           /\ End(a.socket)
           /\ UNCHANGED proved
  <2>1. /\ open' \subseteq open
        /\ connections' \in [Searchers -> Sockets \cup {NoSocket}]
        /\ \A s \in Searchers : connections'[s] \in {connections[s], NoSocket}
        /\ \A v \in open' : pubkey[v] # Nobody => connections'[pubkey[v]] = v
    BY <1>1, <1>3, EndKeepsOthers
  <2> QED
    BY <1>3, <2>1 DEF AuthVerified, SessionInv, AuthenticatedIsRegistered
<1> QED
  BY <1>2, <1>3 DEF AuthVerified

LEMMA AuthUpsertedKeeps ==
    ASSUME SessionInv, NEW a \in auths, AuthUpserted(a)
    PROVE  SessionInv'
<1>1. /\ a.socket \in Sockets /\ a.searcher \in Searchers /\ a.socket \in seen
      /\ <<a.socket, a.searcher>> \in proved
  BY DEF SessionInv, AuthUpserted
<1>2. auths' = auths \ {a} /\ UNCHANGED <<seen, proved>>
  BY DEF AuthUpserted
<1>3. CASE End(a.socket) /\ UNCHANGED pubkey
  <2>1. /\ open' \subseteq open
        /\ connections' \in [Searchers -> Sockets \cup {NoSocket}]
        /\ \A s \in Searchers : connections'[s] \in {connections[s], NoSocket}
        /\ \A v \in open' : pubkey[v] # Nobody => connections'[pubkey[v]] = v
    BY <1>1, <1>3, EndKeepsOthers
  <2> QED
    BY <1>2, <1>3, <2>1 DEF SessionInv, AuthenticatedIsRegistered
<1>4. CASE /\ pubkey' = [pubkey EXCEPT ![a.socket] = a.searcher]
           /\ Register(a.socket, a.searcher)
  <2>1. /\ open' \subseteq open
        /\ connections' \in [Searchers -> Sockets \cup {NoSocket}]
        /\ \A t \in Searchers :
                \/ connections'[t] \in {connections[t], NoSocket}
                \/ t = a.searcher /\ connections'[t] = a.socket
        /\ \A v \in open' : pubkey'[v] # Nobody => connections'[pubkey'[v]] = v
    BY <1>1, <1>4, RegisterEndsOld
  <2>2. /\ pubkey' \in [Sockets -> Searchers \cup {Nobody}]
        /\ \A w \in Sockets : pubkey'[w] # Nobody => w \in seen /\ <<w, pubkey'[w]>> \in proved
    BY <1>1, <1>4 DEF SessionInv
  <2>3. \A s \in Searchers : connections'[s] # NoSocket => <<connections'[s], s>> \in proved
    BY <1>1, <2>1 DEF SessionInv
  <2> QED
    BY <1>2, <2>1, <2>2, <2>3 DEF SessionInv, AuthenticatedIsRegistered
<1> QED
  BY <1>3, <1>4 DEF AuthUpserted

----------------------------------------------------------------------------
(* Bids *)

\* What was proved once stays proved.
LEMMA ProvedGrows == Next => proved \subseteq proved'
<1> SUFFICES ASSUME Next, proved' # proved PROVE proved \subseteq proved'
  OBVIOUS
<1>1. PICK a \in auths : AuthVerified(a)
  BY DEF Next, OpenSocket, CloseSocket, ReceiveAuth, ReceiveBid, AuthUpserted, FinishBid,
     BroadcastHint, ResolveAuction, SendAuctionResult, Tick, sockets
<1> QED
  BY <1>1 DEF AuthVerified

\* Steps that leave the auctions, or the bids under way, alone.
LEMMA BookUntouched ==
    ASSUME BookInv, UNCHANGED manager, proved \subseteq proved'
    PROVE  BookInv'
<1>1. \A h \in Hints : \A p \in DOMAIN book[h] :
        <<book[h][p].socket, book[h][p].searcher>> \in proved'
  BY DEF BookInv, BidderProved
<1> QED
  BY <1>1 DEF BookInv, BidderProved, manager

LEMMA AnswersUntouched ==
    ASSUME AnswersInv, UNCHANGED <<book, bidding>>, proved \subseteq proved'
    PROVE  AnswersInv'
  BY DEF AnswersInv, BidderProved, bidding

LEMMA ResultsUntouched ==
    ASSUME ResultsStayPrivate, UNCHANGED results, proved \subseteq proved'
    PROVE  ResultsStayPrivate'
  BY DEF ResultsStayPrivate

\* A bid is taken from a socket whose key was proved.
LEMMA ReceiveBidKeeps ==
    ASSUME GatewayInv, NEW w \in Sockets, NEW h \in Hints, NEW amount \in Amounts,
           NEW signer \in Searchers, ReceiveBid(w, h, amount, signer)
    PROVE  GatewayInv'
<1>1. UNCHANGED <<manager, seen, pubkey, auths, proved, clock, results>>
  BY DEF ReceiveBid, outcomes
<1>2. PICK id \in BidIds : id = bidCount + 1 /\ bidCount' = id
  BY GatewayAssumption DEF ReceiveBid, GatewayInv, AnswersInv, BidIds
<1>3. SessionInv'
  <2>1. CASE End(w)
    BY <1>1, <2>1, EndKeepsSessions DEF GatewayInv
  <2>2. CASE UNCHANGED <<open, connections>>
    BY <1>1, <2>2 DEF GatewayInv, SessionInv, AuthenticatedIsRegistered
  <2> QED
    BY <2>1, <2>2 DEF ReceiveBid
<1>4. BookInv' /\ ResultsStayPrivate'
  BY <1>1, BookUntouched, ResultsUntouched DEF GatewayInv
<1>5. AnswersInv'
  <2>1. bidCount' \in 0..MaxBids /\ clock' \in 0..MaxClock /\ book' = book
    BY <1>1, <1>2 DEF GatewayInv, AnswersInv, BidIds, manager
  <2>2. CASE answer' = [answer EXCEPT ![id] = "ended"] /\ UNCHANGED pendingBids
    BY <1>1, <1>2, <2>1, <2>2 DEF GatewayInv, AnswersInv, BidderProved
  <2>3. CASE answer' = [answer EXCEPT ![id] = "rejected"] /\ UNCHANGED pendingBids
    BY <1>1, <1>2, <2>1, <2>3 DEF GatewayInv, AnswersInv, BidderProved
  <2>4. CASE /\ Authenticated(w) /\ answer' = answer
             /\ pendingBids' = pendingBids \cup
                  {[id |-> id, hint |-> h, socket |-> w, searcher |-> pubkey[w],
                    signer |-> signer, bid |-> amount, receivedAt |-> clock]}
    <3>1. pubkey[w] \in Searchers /\ <<w, pubkey[w]>> \in proved
      BY <2>4 DEF GatewayInv, SessionInv, Authenticated
    <3>2. PICK b : b = [id |-> id, hint |-> h, socket |-> w, searcher |-> pubkey[w],
                        signer |-> signer, bid |-> amount, receivedAt |-> clock]
      OBVIOUS
    <3>3. b \in BidRecords /\ BidderProved(b)
      BY <3>1, <3>2 DEF BidRecords, BidderProved, GatewayInv, AnswersInv
    <3>4. pendingBids' = pendingBids \cup {b}
      BY <2>4, <3>2
    <3>5. \A c \in pendingBids' : c \in BidRecords /\ BidderProved(c)
      BY <3>3, <3>4 DEF GatewayInv, AnswersInv
    <3> QED
      BY <1>1, <2>1, <2>4, <3>5 DEF GatewayInv, AnswersInv, BidderProved
  <2> QED
    BY <1>2, <2>2, <2>3, <2>4 DEF ReceiveBid
<1> QED
  BY <1>3, <1>4, <1>5 DEF GatewayInv

\* An answer "accepted" is given together with the place in the book.
LEMMA FinishBidKeeps ==
    ASSUME GatewayInv, NEW b \in pendingBids, FinishBid(b)
    PROVE  GatewayInv'
<1>1. UNCHANGED <<sockets, bidCount, clock, results>> /\ pendingBids' = pendingBids \ {b}
  BY DEF FinishBid, outcomes
<1>2. b \in BidRecords /\ BidderProved(b) /\ b.hint \in Hints /\ b.id \in BidIds
  BY DEF GatewayInv, AnswersInv, BidRecords
<1>3. PICK h \in Hints, i \in BidIds : h = b.hint /\ i = b.id
  BY <1>2
<1>4. SessionInv' /\ ResultsStayPrivate'
  BY <1>1, SessionsUntouched, ResultsUntouched DEF GatewayInv, sockets
<1>5. CASE /\ SubmitBid(h, b)
           /\ answer' = [answer EXCEPT ![i] = "accepted"]
  <2>1. auction[h] = "open" /\ UNCHANGED <<auction, resolved>>
    BY <1>5 DEF SubmitBid, AcceptsBids
  <2>2. /\ book[h] \in Seq(BidRecords) /\ Len(book[h]) \in Nat
        /\ DOMAIN book[h] = 1..Len(book[h])
    BY DEF GatewayInv, BookInv
  <2>3. /\ \A g \in Hints : book'[g] = IF g = h THEN Append(book[h], b) ELSE book[g]
        /\ DOMAIN book' = Hints /\ book' = [g \in Hints |-> book'[g]]
    BY <1>5 DEF SubmitBid, GatewayInv, BookInv
  <2>4. /\ book'[h] \in Seq(BidRecords) /\ DOMAIN book'[h] = 1..(Len(book[h]) + 1)
        /\ \A p \in DOMAIN book[h] : book'[h][p] = book[h][p] /\ p \in DOMAIN book'[h]
        /\ book'[h][Len(book[h]) + 1] = b /\ Len(book[h]) + 1 \in DOMAIN book'[h]
    <3>1. book'[h] = Append(book[h], b)
      BY <2>3
    <3> HIDE DEF BidRecords
    <3> QED
      BY <1>2, <2>2, <3>1, AppendProperties, ElementOfSeq
  <2>5. BookInv'
    <3>1. book' \in [Hints -> Seq(BidRecords)]
      BY <2>3, <2>4 DEF GatewayInv, BookInv
    <3>2. \A g \in Hints : \A p \in DOMAIN book'[g] : BidderProved(book'[g][p])
      <4>1. \A p \in DOMAIN book'[h] : BidderProved(book'[h][p])
        BY <1>2, <2>2, <2>4 DEF GatewayInv, BookInv
      <4> QED
        BY <2>3, <4>1 DEF GatewayInv, BookInv
    <3>3. \A g \in Hints : auction'[g] = "gone" => resolved'[g] = Sorted(book'[g])
      BY <2>1, <2>3 DEF GatewayInv, BookInv
    <3> QED
      BY <1>1, <2>1, <3>1, <3>2, <3>3 DEF GatewayInv, BookInv, BidderProved, sockets
  <2>6. AnswersInv'
    <3>1. answer' \in [BidIds -> {"none", "accepted", "rejected", "ended"}]
      BY <1>5 DEF GatewayInv, AnswersInv
    <3>2. ASSUME NEW j \in BidIds, answer'[j] = "accepted"
          PROVE  \E g \in Hints : \E p \in DOMAIN book'[g] : book'[g][p].id = j
      <4>1. CASE j = i
        BY <1>3, <2>4, <4>1
      <4>2. CASE j # i
        <5>1. answer[j] = "accepted"
          BY <1>5, <3>2, <4>2 DEF GatewayInv, AnswersInv
        <5>2. PICK g \in Hints : \E p \in DOMAIN book[g] : book[g][p].id = j
          BY <5>1 DEF GatewayInv, AnswersInv
        <5> QED
          BY <2>3, <2>4, <5>2
      <4> QED
        BY <4>1, <4>2
    <3> QED
      BY <1>1, <3>1, <3>2 DEF GatewayInv, AnswersInv, BidderProved, sockets
  <2> QED
    BY <1>4, <2>5, <2>6 DEF GatewayInv
<1>6. CASE /\ answer' = [answer EXCEPT ![i] = "rejected"]
           /\ UNCHANGED manager
  <2>1. BookInv'
    BY <1>1, <1>6, BookUntouched DEF GatewayInv, sockets
  <2>2. AnswersInv'
    BY <1>1, <1>6 DEF GatewayInv, AnswersInv, BidderProved, sockets, manager
  <2> QED
    BY <1>4, <2>1, <2>2 DEF GatewayInv
<1> QED
  BY <1>3, <1>5, <1>6 DEF FinishBid

----------------------------------------------------------------------------
(* Auctions *)

LEMMA BroadcastHintKeeps ==
    ASSUME GatewayInv, NEW h \in Hints, BroadcastHint(h)
    PROVE  GatewayInv'
<1>1. UNCHANGED <<sockets, bidding, results, book, resolved>>
  BY DEF BroadcastHint, StartAuction
<1>2. \A g \in Hints : auction'[g] = IF g = h THEN "open" ELSE auction[g]
  BY DEF BroadcastHint, StartAuction, GatewayInv, BookInv
<1>3. SessionInv' /\ AnswersInv' /\ ResultsStayPrivate'
  BY <1>1, SessionsUntouched, AnswersUntouched, ResultsUntouched DEF GatewayInv, sockets
<1>4. BookInv'
  BY <1>1, <1>2
  DEF GatewayInv, BookInv, BidderProved, sockets, BroadcastHint, StartAuction
<1> QED
  BY <1>3, <1>4 DEF GatewayInv

LEMMA ResolveAuctionKeeps ==
    ASSUME GatewayInv, NEW h \in Hints, ResolveAuction(h)
    PROVE  GatewayInv'
<1>1. UNCHANGED <<sockets, bidding, results, book>>
  BY DEF ResolveAuction, CloseAuction, outcomes
<1>2. /\ auction[h] = "open"
      /\ \A g \in Hints : auction'[g] = IF g = h THEN "gone" ELSE auction[g]
      /\ \A g \in Hints : resolved'[g] = IF g = h THEN Sorted(book[h]) ELSE resolved[g]
      /\ DOMAIN resolved' = Hints
  BY DEF ResolveAuction, CloseAuction, GatewayInv, BookInv
<1>3. SessionInv' /\ AnswersInv' /\ ResultsStayPrivate'
  BY <1>1, SessionsUntouched, AnswersUntouched, ResultsUntouched DEF GatewayInv, sockets
<1>4. \A g \in Hints : auction'[g] = "gone" => resolved'[g] = Sorted(book[g])
  BY <1>2 DEF GatewayInv, BookInv
<1>5. auction' \in [Hints -> {"none", "open", "gone"}]
  BY DEF ResolveAuction, CloseAuction, GatewayInv, BookInv
<1>6. BookInv'
  BY <1>1, <1>2, <1>4, <1>5 DEF GatewayInv, BookInv, BidderProved, sockets
<1> QED
  BY <1>3, <1>6 DEF GatewayInv

\* The bids of a book are what the comparator takes.
LEMMA BookIsComparable ==
    ASSUME BookInv, NEW h \in Hints
    PROVE  /\ Comparable(book[h])
           /\ \A p \in DOMAIN book[h] : book[h][p] \in BidRecords
<1>1. /\ book[h] \in Seq(BidRecords) /\ Len(book[h]) \in Nat
      /\ DOMAIN book[h] = 1..Len(book[h])
  BY DEF BookInv
<1>2. \A p \in DOMAIN book[h] : book[h][p] \in BidRecords
  BY <1>1
<1>3. \A p \in DOMAIN book[h] : book[h][p].bid \in Int /\ book[h][p].receivedAt \in Int
  <2> SUFFICES ASSUME NEW b \in BidRecords PROVE b.bid \in Int /\ b.receivedAt \in Int
    BY <1>2
  <2>1. b.bid \in Amounts /\ b.receivedAt \in 0..MaxClock
    BY DEF BidRecords
  <2>2. Amounts \subseteq Int
    BY GatewayAssumption
  <2>3. b.bid \in Int
    BY <2>1, <2>2
  <2>4. b.receivedAt \in Int
    BY <2>1
  <2> QED
    BY <2>3, <2>4
<1> QED
  BY <1>1, <1>2, <1>3 DEF Comparable

\* A result goes to a socket that is registered for the bidder's key.
LEMMA SendAuctionResultKeeps ==
    ASSUME GatewayInv, NEW h \in Hints, SendAuctionResult(h)
    PROVE  GatewayInv'
<1>1. UNCHANGED <<manager, sockets, bidding>>
  BY DEF SendAuctionResult
<1>2. SessionInv' /\ BookInv' /\ AnswersInv'
  BY <1>1, SessionsUntouched, BookUntouched, AnswersUntouched
  DEF GatewayInv, sockets, manager
<1>3. ASSUME NEW b \in {resolved[h][i] : i \in DOMAIN resolved[h]}
      PROVE  b.searcher \in Searchers
  <2>1. resolved[h] = Sorted(book[h])
    BY DEF SendAuctionResult, GatewayInv, BookInv
  <2>2. Comparable(book[h]) /\ \A p \in DOMAIN book[h] : book[h][p] \in BidRecords
    BY BookIsComparable DEF GatewayInv
  <2>3. b \in {book[h][p] : p \in DOMAIN book[h]}
    BY <2>1, <2>2, SortedIsOrdered
  <2> QED
    BY <2>2, <2>3 DEF BidRecords
<1>4. ASSUME NEW r \in results', r \notin results
      PROVE  <<r.socket, r.yours.searcher>> \in proved
  <2>1. PICK b \in {resolved[h][i] : i \in DOMAIN resolved[h]} :
            \E w \in ResultSockets(b) : r.socket = w /\ r.yours = b
    BY <1>4 DEF SendAuctionResult
  <2>2. PICK w \in ResultSockets(b) : r.socket = w /\ r.yours = b
    BY <2>1
  <2>3. b.searcher \in Searchers
    BY <1>3
  <2>4. w = connections[b.searcher] /\ w \in Sockets
    BY <2>2 DEF ResultSockets, GatewayInv, SessionInv
  <2>5. w # NoSocket
    BY <2>4, GatewayAssumption DEF NoSocket
  <2> QED
    BY <2>2, <2>3, <2>4, <2>5 DEF GatewayInv, SessionInv
<1>5. ResultsStayPrivate'
  BY <1>1, <1>4 DEF GatewayInv, ResultsStayPrivate, sockets
<1> QED
  BY <1>2, <1>5 DEF GatewayInv

LEMMA TickKeeps ==
    ASSUME GatewayInv, Tick
    PROVE  GatewayInv'
<1>1. UNCHANGED <<manager, sockets, pendingBids, answer, bidCount, results>>
  BY DEF Tick, outcomes
<1>2. SessionInv' /\ BookInv' /\ ResultsStayPrivate'
  BY <1>1, SessionsUntouched, BookUntouched, ResultsUntouched DEF GatewayInv, sockets
<1>3. clock' \in 0..MaxClock
  BY GatewayAssumption DEF Tick, GatewayInv, AnswersInv
<1>4. AnswersInv'
  BY <1>1, <1>3 DEF GatewayInv, AnswersInv, BidderProved, sockets, manager
<1> QED
  BY <1>2, <1>4 DEF GatewayInv

\* Steps of the sessions alone.
LEMMA SessionStepKeeps ==
    ASSUME GatewayInv, Next, SessionInv', UNCHANGED <<manager, bidding, results>>
    PROVE  GatewayInv'
<1>1. proved \subseteq proved'
  BY ProvedGrows
<1> QED
  BY <1>1, BookUntouched, AnswersUntouched, ResultsUntouched DEF GatewayInv, manager

----------------------------------------------------------------------------
(* The invariant holds *)

LEMMA GatewayInvInit == Init => GatewayInv
<1> SUFFICES ASSUME Init PROVE GatewayInv
  OBVIOUS
<1>1. SessionInv
  BY DEF Init, SessionInv, AuthenticatedIsRegistered
<1>2. BookInv
  <2>1. \A h \in Hints : book[h] = <<>> /\ book[h] \in Seq(BidRecords)
    BY EmptySeq DEF Init, ManagerInit
  <2> QED
    BY <2>1 DEF Init, ManagerInit, BookInv
<1>3. AnswersInv
  BY GatewayAssumption DEF Init, AnswersInv
<1>4. ResultsStayPrivate
  BY DEF Init, ResultsStayPrivate
<1> QED
  BY <1>1, <1>2, <1>3, <1>4 DEF GatewayInv

LEMMA GatewayInvNext == GatewayInv /\ [Next]_vars => GatewayInv'
<1> SUFFICES ASSUME GatewayInv, [Next]_vars PROVE GatewayInv'
  OBVIOUS
<1>1. CASE UNCHANGED vars
  BY <1>1, SessionsUntouched, BookUntouched, AnswersUntouched, ResultsUntouched
  DEF vars, GatewayInv, sockets, manager, outcomes
<1>2. ASSUME NEW w \in Sockets, OpenSocket(w) \/ CloseSocket(w), Next
      PROVE  GatewayInv'
  <2>1. SessionInv'
    BY <1>2, OpenSocketKeeps, EndKeepsSessions DEF CloseSocket, GatewayInv
  <2> QED
    BY <1>2, <2>1, SessionStepKeeps DEF OpenSocket, CloseSocket, outcomes
<1>3. ASSUME NEW w \in Sockets, NEW s \in Searchers, ReceiveAuth(w, s), Next
      PROVE  GatewayInv'
  <2>1. SessionInv'
    BY <1>3, ReceiveAuthKeeps DEF GatewayInv
  <2> QED
    BY <1>3, <2>1, SessionStepKeeps DEF ReceiveAuth, outcomes
<1>4. ASSUME NEW a \in auths, AuthVerified(a) \/ AuthUpserted(a), Next
      PROVE  GatewayInv'
  <2>1. SessionInv'
    BY <1>4, AuthVerifiedKeeps, AuthUpsertedKeeps DEF GatewayInv
  <2> QED
    BY <1>4, <2>1, SessionStepKeeps DEF AuthVerified, AuthUpserted, outcomes
<1>5. ASSUME NEW w \in Sockets, NEW h \in Hints, NEW amount \in Amounts,
             NEW signer \in Searchers, ReceiveBid(w, h, amount, signer)
      PROVE  GatewayInv'
  BY <1>5, ReceiveBidKeeps
<1>6. ASSUME NEW b \in pendingBids, FinishBid(b) PROVE GatewayInv'
  BY <1>6, FinishBidKeeps
<1>7. ASSUME NEW h \in Hints, BroadcastHint(h) \/ ResolveAuction(h) \/ SendAuctionResult(h)
      PROVE  GatewayInv'
  BY <1>7, BroadcastHintKeeps, ResolveAuctionKeeps, SendAuctionResultKeeps
<1>8. CASE Tick
  BY <1>8, TickKeeps
<1> QED
  BY <1>1, <1>2, <1>3, <1>4, <1>5, <1>6, <1>7, <1>8 DEF Next

LEMMA GatewayInvariance == Spec => []GatewayInv
  BY GatewayInvInit, GatewayInvNext, PTL DEF Spec

\* Only the holder of a key is registered, bids or stands in a book under it,
\* and an open session is the registered one, however the handlers of several
\* sockets interleave (ws/searcher.ts, handleAuth and SearcherWsRegistry).
THEOREM SessionsConsistentAlways == Spec => []SessionsConsistent
<1>1. GatewayInv => SessionsConsistent
  <2> SUFFICES ASSUME GatewayInv PROVE SessionsConsistent
    OBVIOUS
  <2>1. \A h \in Hints : \A i \in DOMAIN book[h] :
            book[h][i] \in BidRecords /\ <<book[h][i].socket, book[h][i].searcher>> \in proved
    BY BookIsComparable DEF GatewayInv, BookInv, BidderProved
  <2>2. TypeOK
    BY <2>1 DEF GatewayInv, SessionInv, BookInv, AnswersInv, TypeOK
  <2>3. KeysAreProved
    BY <2>1 DEF GatewayInv, SessionInv, KeysAreProved
  <2> QED
    BY <2>2, <2>3 DEF SessionsConsistent, GatewayInv, SessionInv
<1> QED
  BY <1>1, GatewayInvariance, PTL

\* The order book an auction resolves with is the one that was bid, best first
\* and the earlier of equal bids first (auction/manager.ts, closeAuction).
THEOREM ResolvedBestFirstAlways == Spec => []ResolvedBestFirst
<1>1. GatewayInv => ResolvedBestFirst
  <2> SUFFICES ASSUME GatewayInv, NEW h \in Hints, auction[h] = "gone"
               PROVE  /\ Len(resolved[h]) = Len(book[h])
                      /\ {resolved[h][p] : p \in DOMAIN resolved[h]} =
                            {book[h][p] : p \in DOMAIN book[h]}
                      /\ \A p, q \in DOMAIN resolved[h] : p < q =>
                            \/ resolved[h][p].bid > resolved[h][q].bid
                            \/ /\ resolved[h][p].bid = resolved[h][q].bid
                               /\ resolved[h][p].receivedAt <= resolved[h][q].receivedAt
    BY DEF ResolvedBestFirst
  <2>1. resolved[h] = Sorted(book[h]) /\ Comparable(book[h])
    BY BookIsComparable DEF GatewayInv, BookInv
  <2>2. DOMAIN resolved[h] = 1..Len(book[h]) /\ Len(book[h]) \in Nat
    BY <2>1, SortedIsOrdered DEF Comparable
  <2>3. Len(resolved[h]) = Len(book[h])
    BY <2>1, <2>2 DEF Sorted
  <2>4. /\ DOMAIN resolved[h] = DOMAIN book[h]
        /\ {resolved[h][p] : p \in DOMAIN book[h]} = {book[h][p] : p \in DOMAIN book[h]}
        /\ \A p, q \in DOMAIN book[h] : p < q =>
              \/ resolved[h][p].bid > resolved[h][q].bid
              \/ /\ resolved[h][p].bid = resolved[h][q].bid
                 /\ resolved[h][p].receivedAt <= resolved[h][q].receivedAt
    BY <2>1, SortedIsOrdered
  <2> QED
    BY <2>3, <2>4
<1> QED
  BY <1>1, GatewayInvariance, PTL

\* A bid that was answered "bid_accepted" is in the book its auction resolves
\* with, though the auction may close while the signature is being checked
\* (ws/searcher.ts, handleBid).
THEOREM AcceptedBidStandsAlways == Spec => []AcceptedBidStands
<1>1. GatewayInv => AcceptedBidStands
  <2> SUFFICES ASSUME GatewayInv, NEW i \in BidIds, answer[i] = "accepted"
               PROVE  \E h \in Hints :
                        IF auction[h] = "gone"
                        THEN \E p \in DOMAIN resolved[h] : resolved[h][p].id = i
                        ELSE \E p \in DOMAIN book[h] : book[h][p].id = i
    BY DEF AcceptedBidStands
  <2>1. PICK h \in Hints : \E p \in DOMAIN book[h] : book[h][p].id = i
    BY DEF GatewayInv, AnswersInv
  <2>2. CASE auction[h] = "gone"
    <3>1. resolved[h] = Sorted(book[h]) /\ Comparable(book[h])
      BY <2>2, BookIsComparable DEF GatewayInv, BookInv
    <3>2. DOMAIN resolved[h] = DOMAIN book[h]
      BY <3>1, SortedIsOrdered
    <3>3. PICK p \in DOMAIN book[h] : book[h][p].id = i
      BY <2>1
    <3>4. book[h][p] \in {resolved[h][q] : q \in DOMAIN book[h]}
      BY <3>1, SortedIsOrdered
    <3> QED
      BY <2>2, <3>2, <3>3, <3>4
  <2>3. CASE auction[h] # "gone"
    BY <2>1, <2>3
  <2> QED
    BY <2>2, <2>3
<1> QED
  BY <1>1, GatewayInvariance, PTL

\* A result, which quotes the bid, reaches only a holder of the bidder's key
\* (sendAuctionResult).
THEOREM ResultsStayPrivateAlways == Spec => []ResultsStayPrivate
<1>1. GatewayInv => ResultsStayPrivate
  BY DEF GatewayInv
<1> QED
  BY <1>1, GatewayInvariance, PTL
=============================================================================
