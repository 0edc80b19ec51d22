------------------------ MODULE SearcherClientProofs ------------------------
(***************************************************************************)
(* The searcher SDK's client, for any number of sockets, hints and bids,   *)
(* and the bots, for any number of processes and any amounts.              *)
(*                                                                         *)
(* A socket is either on its way to auth_ok, in use, or done with; every   *)
(* scheduled reconnect was left behind by a socket that was attached and   *)
(* closed.  An entry of pendingBidAcks is that of a pending call on its    *)
(* hint, and an answer under way is the relay's answer to a bid.           *)
(*                                                                         *)
(* A bot that deposits needs what the escrow lacks; until the escrow is    *)
(* funded the wallet can pay for it and for every failed transaction.      *)
(***************************************************************************)
EXTENDS SearcherBot, FiniteSetTheorems, TLAPS

SocketStates == {"unused", "connecting", "open", "authenticating", "ready",
                 "abandoned", "aborting", "leaving", "closing", "closed"}

\* Attached sockets that closed.
Gone == {c \in attached : socket[c] = "closed"}

\* WebSockets are created one after the other, get their handlers at auth_ok
\* and schedule at most one reconnect each.
SocketInv ==
    /\ ws \in Conns \cup {None}
    /\ socket \in [Conns -> SocketStates]
    /\ handlers \in [Conns -> {"awaited", "set", "removed"}]
    /\ attached \subseteq Conns
    /\ explicitlyClosed \in BOOLEAN
    /\ connects \in Nat
    /\ timers \in Nat /\ timers <= Cardinality(Gone)
    /\ \E n \in Conns \cup {MaxConns + 1} :
        \A c \in Conns : socket[c] = "unused" <=> c >= n
    /\ \A c \in attached : socket[c] \in {"ready", "closing", "closed"}

\* Sockets that are authenticated or may still be.
Trying == {c \in Conns : socket[c] \in {"connecting", "open", "authenticating", "ready"}}

\* Until connect is called again, there is one socket on its way, or one
\* reconnect to come, or neither.
OnceInv ==
    /\ connects = 0 => timers = 0 /\ \A c \in Conns : socket[c] = "unused"
    /\ connects <= 1 =>
        /\ ~explicitlyClosed => \A c \in attached : socket[c] # "closing"
        /\ ~explicitlyClosed => \A c \in Conns : socket[c] # "leaving"
        /\ \A c, d \in Trying : c = d
        /\ timers <= 1
        /\ timers > 0 => Trying = {}

BidStates == {"none", "pending", "accepted", "rejected", "timeout", "closed"}
Verdicts == {"accepted", "rejected"}

\* A bid is answered after it was sent, and the answer names its hint.
BidInv ==
    /\ acks \in [Hints -> BidCalls \cup {None}]
    /\ promise \in [BidCalls -> BidStates]
    /\ answered \in [BidCalls -> {"no"} \cup Verdicts]
    /\ DOMAIN sentOn = BidCalls
    /\ \A i \in BidCalls :
        IF promise[i] = "none" THEN sentOn[i] = NoBid
        ELSE sentOn[i] \in [hint : Hints, conn : Conns]
    /\ \A h \in Hints : acks[h] # None =>
        promise[acks[h]] = "pending" /\ sentOn[acks[h]].hint = h
    /\ \A r \in replies :
        /\ r.bid \in BidCalls /\ promise[r.bid] # "none"
        /\ r.hint = sentOn[r.bid].hint
        /\ r.verdict \in Verdicts /\ r.verdict = answered[r.bid]
    /\ AckIsForThisBid

ClientInv == SocketInv /\ OnceInv /\ KeepsTrying /\ BidInv

Connection == SocketInv /\ OnceInv /\ KeepsTrying

----------------------------------------------------------------------------
(* Connections *)

LEMMA GoneIsFinite ==
    ASSUME attached \subseteq Conns
    PROVE  IsFiniteSet(Gone) /\ Cardinality(Gone) \in Nat
<1>1. MaxConns \in Int
  BY ClientAssumption
<1>2. IsFiniteSet(Conns)
  BY <1>1, FS_Interval DEF Conns
<1>3. Gone \in SUBSET Conns
  BY DEF Gone
<1> QED
  BY <1>2, <1>3, FS_Subset, FS_CardinalityType

\* Steps on sockets that leave the attached ones that closed as they were.
LEMMA SocketsMove ==
    ASSUME SocketInv,
           ws' \in Conns \cup {None}, socket' \in [Conns -> SocketStates],
           handlers' \in [Conns -> {"awaited", "set", "removed"}],
           attached' \subseteq Conns, explicitlyClosed' \in BOOLEAN, connects' \in Nat,
           timers' \in Nat, timers' <= timers,
           \E n \in Conns \cup {MaxConns + 1} :
                \A c \in Conns : socket'[c] = "unused" <=> c >= n,
           \A c \in attached' : socket'[c] \in {"ready", "closing", "closed"},
           Gone' = Gone
    PROVE  SocketInv'
<1>1. /\ timers <= Cardinality(Gone) /\ Cardinality(Gone) \in Nat /\ timers \in Nat
  BY GoneIsFinite DEF SocketInv
<1>2. timers' <= Cardinality(Gone)
  BY <1>1
<1>3. Cardinality(Gone)' = Cardinality(Gone)
  OBVIOUS
<1> QED
  BY <1>2, <1>3 DEF SocketInv

\* A socket before auth_ok goes one step further.
LEMMA MoveKeeps ==
    ASSUME Connection, NEW c \in Conns,
           socket[c] \notin {"unused", "closed"}, c \notin attached,
           socket' \in [Conns -> SocketStates], socket'[c] \notin {"unused", "leaving"},
           \A d \in Conns : d # c => socket'[d] = socket[d],
           handlers' \in [Conns -> {"awaited", "set", "removed"}],
           attached \subseteq attached',
           \A d \in attached' :
                \/ d \in attached
                \/ d = c /\ socket'[c] = IF socket[c] = "leaving" THEN "closing" ELSE "ready",
           c \in Trying' => c \in Trying,
           UNCHANGED <<ws, explicitlyClosed, connects, timers>>
    PROVE  Connection'
<1>1. /\ attached' \subseteq Conns
      /\ \A d \in Conns : socket'[d] = IF d = c THEN socket'[c] ELSE socket[d]
  BY DEF Connection, SocketInv
<1>2. \A d \in attached' : socket'[d] \in {"ready", "closing", "closed"}
  BY <1>1 DEF Connection, SocketInv
<1>3. Gone' = Gone
  BY <1>1 DEF Gone
<1>4. \E n \in Conns \cup {MaxConns + 1} :
        \A d \in Conns : socket'[d] = "unused" <=> d >= n
  <2>1. PICK n \in Conns \cup {MaxConns + 1} :
          \A d \in Conns : socket[d] = "unused" <=> d >= n
    BY DEF Connection, SocketInv
  <2> QED
    BY <1>1, <2>1
<1>5. timers \in Nat /\ timers' = timers
  BY DEF Connection, SocketInv
<1>6. SocketInv'
  BY <1>1, <1>2, <1>3, <1>4, <1>5, SocketsMove DEF Connection, SocketInv
<1>7. connects # 0 /\ Trying' \subseteq Trying
  BY <1>1 DEF Connection, OnceInv, Trying
<1>8. ~explicitlyClosed /\ connects <= 1 =>
        /\ \A d \in attached' : socket'[d] # "closing"
        /\ \A d \in Conns : socket'[d] # "leaving"
  BY <1>1 DEF Connection, OnceInv
<1>9. OnceInv'
  BY <1>7, <1>8 DEF Connection, OnceInv
<1>10. KeepsTrying'
  <2>1. CASE socket'[c] \in {"closed", "abandoned"}
    BY <1>1, <2>1 DEF KeepsTrying
  <2>2. CASE socket'[c] \notin {"closed", "abandoned"}
    BY <1>1, <2>2 DEF KeepsTrying
  <2> QED
    BY <2>1, <2>2
<1> QED
  BY <1>6, <1>9, <1>10 DEF Connection

LEMMA HandshakeKeeps ==
    ASSUME Connection, NEW c \in Conns,
           TransportOpens(c) \/ TransportFails(c) \/ AuthOk(c) \/ AuthTimeout(c) \/ AuthRefused(c)
    PROVE  Connection'
<1>1. UNCHANGED <<ws, explicitlyClosed, connects, timers>>
  BY DEF TransportOpens, TransportFails, AuthOk, AuthTimeout, AuthRefused
<1>2. socket[c] \in {"connecting", "aborting", "open", "authenticating", "leaving"}
  BY DEF TransportOpens, TransportFails, AuthOk, AuthTimeout, AuthRefused, AwaitsAuth
<1>3. c \notin attached
  BY <1>2 DEF Connection, SocketInv
<1>4. handlers' \in [Conns -> {"awaited", "set", "removed"}]
  BY DEF TransportOpens, TransportFails, AuthOk, AuthTimeout, AuthRefused, Connection, SocketInv
<1>5. CASE TransportOpens(c)
  <2>1. PICK st \in {"authenticating", "open"} : socket' = [socket EXCEPT ![c] = st]
    BY <1>5 DEF TransportOpens
  <2>2. /\ socket' \in [Conns -> SocketStates] /\ socket'[c] = st
        /\ \A d \in Conns : d # c => socket'[d] = socket[d]
    BY <2>1 DEF Connection, SocketInv, SocketStates
  <2>3. attached' = attached /\ c \in Trying
    BY <1>5 DEF TransportOpens, Trying
  <2>4. socket[c] \notin {"unused", "closed"} /\ socket'[c] \notin {"unused", "leaving"}
    BY <1>2, <2>2
  <2>5. \A d \in attached' : d \in attached
    BY <2>3
  <2>6. attached \subseteq attached' /\ (c \in Trying' => c \in Trying)
    BY <2>3
  <2>7. UNCHANGED <<ws, explicitlyClosed, connects, timers>> /\ c \notin attached
    BY <1>1, <1>3
  <2> QED
    BY <1>4, <2>2, <2>4, <2>5, <2>6, <2>7, MoveKeeps
<1>6. CASE TransportFails(c) \/ AuthTimeout(c) \/ AuthRefused(c)
  <2>2. PICK st \in {"closed", "aborting", "closing", "abandoned"} :
          socket' = [socket EXCEPT ![c] = st]
    BY <1>6 DEF TransportFails, AuthTimeout, AuthRefused
  <2>3. /\ socket' \in [Conns -> SocketStates] /\ socket'[c] = st
        /\ \A d \in Conns : d # c => socket'[d] = socket[d]
    BY <2>2 DEF Connection, SocketInv, SocketStates
  <2>4. attached' = attached /\ c \notin Trying'
    BY <1>6, <2>3 DEF TransportFails, AuthTimeout, AuthRefused, Trying
  <2> QED
    BY <1>1, <1>2, <1>3, <1>4, <2>3, <2>4, MoveKeeps
<1>7. CASE AuthOk(c)
  <2>1. /\ socket' \in [Conns -> SocketStates]
        /\ socket'[c] = IF socket[c] = "leaving" THEN "closing" ELSE "ready"
        /\ \A d \in Conns : d # c => socket'[d] = socket[d]
    BY <1>7 DEF AuthOk, Connection, SocketInv, SocketStates
  <2>2. attached' = attached \cup {c} /\ (c \in Trying' => c \in Trying)
    BY <1>7, <2>1 DEF AuthOk, AwaitsAuth, Trying
  <2> QED
    BY <1>1, <1>2, <1>3, <1>4, <2>1, <2>2, MoveKeeps
<1> QED
  BY <1>5, <1>6, <1>7

LEMMA AuthMessageKeeps ==
    ASSUME Connection, NEW c \in Conns, AuthMessageBuilt(c)
    PROVE  Connection'
<1>1. /\ UNCHANGED <<ws, socket, attached, explicitlyClosed, connects, timers>>
      /\ handlers' = [handlers EXCEPT ![c] = "set"]
  BY DEF AuthMessageBuilt
<1>2. Gone' = Gone /\ Trying' = Trying
  BY <1>1 DEF Gone, Trying
<1>3. SocketInv'
  BY <1>1, <1>2, SocketsMove DEF Connection, SocketInv
<1>4. OnceInv' /\ KeepsTrying'
  BY <1>1, <1>2 DEF Connection, OnceInv, KeepsTrying
<1> QED
  BY <1>3, <1>4 DEF Connection

\* The next WebSocket is the first that does not exist yet.
LEMMA NextSocketOpens ==
    ASSUME SocketInv, OpenSocket,
           UNCHANGED <<handlers, attached>>, explicitlyClosed' \in BOOLEAN,
           connects' \in Nat, timers' \in Nat, timers' <= timers
    PROVE  /\ SocketInv'
           /\ Trying' = Trying \cup {NextSocket}
           /\ NextSocket \in Conns /\ socket'[NextSocket] = "connecting"
<1>1. PICK n \in Conns \cup {MaxConns + 1} :
        \A c \in Conns : socket[c] = "unused" <=> c >= n
  BY DEF SocketInv
<1>2. MaxConns \in Nat /\ Conns \subseteq Nat /\ n \in Nat
  <2>1. MaxConns \in Nat
    BY ClientAssumption
  <2> QED
    BY <2>1 DEF Conns
<1>3. PICK u \in Conns : socket[u] = "unused"
  BY DEF OpenSocket, Unused
<1>4. n \in Conns
  BY <1>1, <1>2, <1>3 DEF Conns
<1>5. n \in Unused /\ \A d \in Unused : n <= d
  BY <1>1, <1>2, <1>4 DEF Unused
<1>6. NextSocket \in Unused /\ \A d \in Unused : NextSocket <= d
  BY <1>5 DEF NextSocket
<1>7. NextSocket = n
  BY <1>2, <1>5, <1>6 DEF Unused
<1>8. ws' = n /\ socket' = [socket EXCEPT ![n] = "connecting"]
  BY <1>7 DEF OpenSocket
<1>9. /\ socket' \in [Conns -> SocketStates] /\ socket'[n] = "connecting"
      /\ \A d \in Conns : d # n => socket'[d] = socket[d]
  BY <1>4, <1>8 DEF SocketInv, SocketStates
<1>10. \A c \in Conns : socket'[c] = "unused" <=> c >= n + 1
  BY <1>1, <1>2, <1>9
<1>11. n + 1 \in Conns \cup {MaxConns + 1}
  BY <1>2, <1>4 DEF Conns
<1>12. n \notin attached /\ socket[n] = "unused"
  BY <1>5 DEF SocketInv, Unused
<1>13. Gone' = Gone
  BY <1>9, <1>12 DEF Gone, SocketInv
<1>14. Trying' = Trying \cup {n}
  BY <1>4, <1>9, <1>12 DEF Trying
<1>15. \A c \in attached' : socket'[c] \in {"ready", "closing", "closed"}
  BY <1>9, <1>12 DEF SocketInv
<1>16. SocketInv'
  BY <1>4, <1>8, <1>9, <1>10, <1>11, <1>13, <1>15, SocketsMove DEF SocketInv
<1> QED
  BY <1>4, <1>7, <1>9, <1>14, <1>16

LEMMA OpenKeeps ==
    ASSUME Connection, Connect \/ Reconnect
    PROVE  Connection'
<1>1. OpenSocket /\ UNCHANGED <<handlers, attached>>
  BY DEF Connect, Reconnect
<1>2. /\ connects \in Nat /\ timers \in Nat /\ explicitlyClosed \in BOOLEAN
      /\ \A c \in attached : c \in Conns /\ socket[c] \in {"ready", "closing", "closed"}
  BY DEF Connection, SocketInv
<1>3. /\ explicitlyClosed' \in BOOLEAN
      /\ connects' \in Nat /\ timers' \in Nat /\ timers' <= timers
  <2>1. CASE Connect
    <3>1. explicitlyClosed' = FALSE /\ connects' = connects + 1 /\ timers' = timers
      BY <2>1 DEF Connect
    <3>2. explicitlyClosed' \in BOOLEAN
      BY <3>1
    <3>3. connects' \in Nat /\ timers' \in Nat /\ timers' <= timers
      BY <1>2, <3>1
    <3> QED
      BY <3>2, <3>3
  <2>2. CASE Reconnect
    <3>1. /\ UNCHANGED <<explicitlyClosed, connects>>
          /\ timers > 0 /\ timers' = timers - 1
      BY <2>2 DEF Reconnect
    <3>2. connects' \in Nat /\ timers' \in Nat /\ timers' <= timers
      BY <1>2, <3>1
    <3> QED
      BY <1>2, <3>1, <3>2
  <2> QED
    BY <2>1, <2>2
<1>4. /\ SocketInv' /\ Trying' = Trying \cup {NextSocket}
      /\ NextSocket \in Conns /\ socket'[NextSocket] = "connecting"
  BY <1>1, <1>3, NextSocketOpens DEF Connection
<1>5. KeepsTrying'
  BY <1>4 DEF KeepsTrying
<1>6. CASE Connect
  <2>1. connects' = connects + 1 /\ timers' = timers
    BY <1>6 DEF Connect
  <2>2. connects' # 0
    BY <1>2, <2>1
  <2>3. CASE connects = 0
    <3>1. timers' = 0 /\ Trying = {} /\ attached' = {}
      BY <1>1, <1>2, <2>1, <2>3 DEF Connection, OnceInv, Trying
    <3>2. \A c \in Conns : socket'[c] # "leaving"
      BY <1>1, <2>3 DEF OpenSocket, Connection, SocketInv, OnceInv
    <3> QED
      BY <1>4, <1>5, <2>2, <3>1, <3>2 DEF Connection, OnceInv
  <2>4. CASE connects # 0
    <3>1. ~(connects' <= 1)
      BY <1>2, <2>1, <2>4
    <3> QED
      BY <1>4, <1>5, <2>2, <3>1 DEF Connection, OnceInv
  <2> QED
    BY <2>3, <2>4
<1>7. CASE Reconnect
  <2>1. /\ timers > 0 /\ timers' = timers - 1
        /\ UNCHANGED <<explicitlyClosed, connects>>
    BY <1>7 DEF Reconnect
  <2>2. connects # 0
    BY <1>2, <2>1 DEF Connection, OnceInv
  <2>3. connects <= 1 => timers' = 0 /\ Trying' = {NextSocket}
    BY <1>2, <1>4, <2>1 DEF Connection, OnceInv
  <2>4. /\ \A c \in attached : socket'[c] = "closing" => socket[c] = "closing"
        /\ \A c \in Conns : socket'[c] = "leaving" => socket[c] = "leaving"
    BY <1>1, <1>2, <1>4 DEF OpenSocket, Connection, SocketInv
  <2>5. OnceInv'
    BY <1>1, <2>1, <2>2, <2>3, <2>4 DEF Connection, OnceInv
  <2> QED
    BY <1>4, <1>5, <2>5 DEF Connection
<1> QED
  BY <1>6, <1>7

LEMMA DisconnectKeeps ==
    ASSUME Connection, Disconnect
    PROVE  Connection'
<1>1. /\ UNCHANGED <<handlers, attached, connects, timers>>
      /\ connects > 0 /\ ws' = None /\ explicitlyClosed' = TRUE
      /\ \A c \in Conns : socket'[c] = IF c = ws THEN Closing(socket[c]) ELSE socket[c]
      /\ DOMAIN socket' = Conns
      /\ socket' = [c \in Conns |-> socket'[c]]
  BY DEF Disconnect
<1>2. \A state \in SocketStates :
        /\ Closing(state) \in SocketStates
        /\ state = "unused" <=> Closing(state) = "unused"
        /\ state = "closed" <=> Closing(state) = "closed"
        /\ state \in {"ready", "closing", "closed"} => Closing(state) \in {"closing", "closed"}
        /\ Closing(state) \notin {"connecting", "open", "authenticating", "ready"}
  BY DEF Closing, SocketStates
<1>3. socket \in [Conns -> SocketStates] /\ attached \subseteq Conns /\ timers \in Nat
  BY DEF Connection, SocketInv
<1>4. socket' \in [Conns -> SocketStates]
  <2>1. \A c \in Conns : socket'[c] \in SocketStates
    BY <1>1, <1>2, <1>3
  <2> QED
    BY <1>1, <2>1
<1>5. Gone' = Gone /\ Trying' \subseteq Trying
  BY <1>1, <1>2, <1>3 DEF Gone, Trying
<1>6. \A c \in attached' : socket'[c] \in {"ready", "closing", "closed"}
  BY <1>1, <1>2, <1>3 DEF Connection, SocketInv
<1>7. \E n \in Conns \cup {MaxConns + 1} :
        \A c \in Conns : socket'[c] = "unused" <=> c >= n
  <2>1. PICK n \in Conns \cup {MaxConns + 1} :
          \A c \in Conns : socket[c] = "unused" <=> c >= n
    BY DEF Connection, SocketInv
  <2>2. \A c \in Conns : socket'[c] = "unused" <=> socket[c] = "unused"
    BY <1>1, <1>2, <1>3
  <2> QED
    BY <2>1, <2>2
<1>8. SocketInv'
  BY <1>1, <1>3, <1>4, <1>5, <1>6, <1>7, SocketsMove DEF Connection, SocketInv
<1>9. OnceInv' /\ KeepsTrying'
  BY <1>1, <1>5 DEF Connection, SocketInv, OnceInv, KeepsTrying
<1> QED
  BY <1>8, <1>9 DEF Connection

\* handleClose schedules one reconnect for a socket that closed.
LEMMA CloseKeeps ==
    ASSUME Connection, NEW c \in Conns, TransportCloses(c)
    PROVE  Connection'
<1>1. /\ UNCHANGED <<handlers, attached, explicitlyClosed, connects>>
      /\ socket[c] \in {"open", "authenticating", "ready", "abandoned", "leaving", "closing"}
      /\ socket' = [socket EXCEPT ![c] = "closed"]
  BY DEF TransportCloses
<1>2. /\ socket' \in [Conns -> SocketStates] /\ socket'[c] = "closed"
      /\ \A d \in Conns : d # c => socket'[d] = socket[d]
  BY <1>1 DEF Connection, SocketInv, SocketStates
<1>3. Trying' \subseteq Trying /\ c \notin Trying'
  BY <1>2 DEF Trying
<1>4. CASE c \notin attached
  <2>1. UNCHANGED <<ws, explicitlyClosed, connects, timers>>
    BY <1>1, <1>4 DEF TransportCloses
  <2>2. /\ handlers' \in [Conns -> {"awaited", "set", "removed"}]
        /\ attached \subseteq attached' /\ \A d \in attached' : d \in attached
    BY <1>1 DEF Connection, SocketInv
  <2>3. socket[c] \notin {"unused", "closed"} /\ socket'[c] \notin {"unused", "leaving"}
    BY <1>1, <1>2
  <2> QED
    BY <1>2, <1>3, <1>4, <2>1, <2>2, <2>3, MoveKeeps
<1>5. CASE c \in attached
  <2>1. ws' = None /\ timers' = timers + NewTimers
    BY <1>5 DEF TransportCloses
  <2>2. /\ timers \in Nat /\ explicitlyClosed \in BOOLEAN /\ connects \in Nat
        /\ attached \subseteq Conns /\ socket[c] \in {"ready", "closing"}
        /\ timers <= Cardinality(Gone)
    BY <1>1, <1>5 DEF Connection, SocketInv
  <2>3. NewTimers = IF explicitlyClosed THEN 0 ELSE 1
    BY DEF NewTimers
  <2>4. Gone' = Gone \cup {c} /\ c \notin Gone
    BY <1>1, <1>2, <1>5, <2>2 DEF Gone
  <2>5. Cardinality(Gone') = Cardinality(Gone) + 1 /\ Cardinality(Gone) \in Nat
    BY <2>2, <2>4, GoneIsFinite, FS_AddElement
  <2>6. timers' \in Nat /\ timers' <= Cardinality(Gone)'
    BY <2>1, <2>2, <2>3, <2>5
  <2>7. \E n \in Conns \cup {MaxConns + 1} :
          \A d \in Conns : socket'[d] = "unused" <=> d >= n
    <3>1. PICK n \in Conns \cup {MaxConns + 1} :
            \A d \in Conns : socket[d] = "unused" <=> d >= n
      BY DEF Connection, SocketInv
    <3>2. \A d \in Conns : socket'[d] = "unused" <=> socket[d] = "unused"
      BY <1>1, <1>2
    <3> QED
      BY <3>1, <3>2
  <2>8. \A d \in attached' : socket'[d] \in {"ready", "closing", "closed"}
    BY <1>1, <1>2, <2>2 DEF Connection, SocketInv
  <2>9. SocketInv'
    <3>1. /\ ws' \in Conns \cup {None} /\ attached' \subseteq Conns
          /\ explicitlyClosed' \in BOOLEAN /\ connects' \in Nat
          /\ handlers' \in [Conns -> {"awaited", "set", "removed"}]
      BY <1>1, <2>1, <2>2 DEF Connection, SocketInv
    <3> QED
      BY <1>2, <2>6, <2>7, <2>8, <3>1 DEF SocketInv
  <2>10. connects # 0
    BY <1>1 DEF Connection, OnceInv
  <2>11. ASSUME connects <= 1, ~explicitlyClosed
         PROVE  timers' = 1 /\ Trying' = {}
    <3>1. c \in Trying
      BY <1>5, <2>2, <2>11 DEF Connection, OnceInv, Trying
    <3>2. Trying = {c} /\ timers = 0
      BY <2>2, <2>11, <3>1 DEF Connection, OnceInv
    <3> QED
      BY <1>3, <2>1, <2>3, <2>11, <3>2
  <2>12. /\ \A d \in attached' : socket'[d] = "closing" => socket[d] = "closing" /\ d \in attached
         /\ \A d \in Conns : socket'[d] = "leaving" => socket[d] = "leaving"
    BY <1>1, <1>2, <2>2
  <2>13. OnceInv'
    <3>1. CASE explicitlyClosed
      <4>1. timers' = timers /\ explicitlyClosed'
        BY <1>1, <2>1, <2>2, <2>3, <3>1
      <4> QED
        BY <1>1, <1>3, <2>10, <4>1 DEF Connection, OnceInv
    <3>2. CASE ~explicitlyClosed
      BY <1>1, <2>10, <2>11, <2>12, <3>2 DEF Connection, OnceInv
    <3> QED
      BY <3>1, <3>2
  <2>14. KeepsTrying'
    <3>1. ~explicitlyClosed => timers' > 0
      BY <2>1, <2>2, <2>3
    <3> QED
      BY <1>1, <3>1 DEF KeepsTrying
  <2> QED
    BY <2>9, <2>13, <2>14 DEF Connection
<1> QED
  BY <1>4, <1>5

\* A step of the connections leaves the state of the others alone.
LEMMA ConnectionKept ==
    ASSUME Connection, UNCHANGED connection
    PROVE  Connection'
<1>1. UNCHANGED <<ws, socket, handlers, attached, explicitlyClosed, connects, timers>>
  BY DEF connection
<1>2. Gone' = Gone /\ Trying' = Trying
  BY <1>1 DEF Gone, Trying
<1>3. SocketInv'
  BY <1>1, <1>2, SocketsMove DEF Connection, SocketInv
<1>4. OnceInv' /\ KeepsTrying'
  BY <1>1, <1>2 DEF Connection, OnceInv, KeepsTrying
<1> QED
  BY <1>3, <1>4 DEF Connection

LEMMA ConnectionPreserved ==
    ASSUME Connection, Next
    PROVE  Connection'
<1>1. CASE Connect \/ Reconnect
  BY <1>1, OpenKeeps
<1>2. CASE Disconnect
  BY <1>2, DisconnectKeeps
<1>3. ASSUME NEW c \in Conns,
             \/ TransportOpens(c) \/ TransportFails(c)
             \/ AuthOk(c) \/ AuthTimeout(c) \/ AuthRefused(c)
      PROVE  Connection'
  BY <1>3, HandshakeKeeps
<1>4. ASSUME NEW c \in Conns, AuthMessageBuilt(c)
      PROVE  Connection'
  BY <1>4, AuthMessageKeeps
<1>5. ASSUME NEW c \in Conns, TransportCloses(c)
      PROVE  Connection'
  BY <1>5, CloseKeeps
<1>6. CASE \E i \in BidCalls :
             \/ \E h \in Hints : SubmitBid(i, h)
             \/ \E verdict \in {"accepted", "rejected"} : RelayAnswers(i, verdict)
             \/ AckTimeout(i)
  <2>1. UNCHANGED connection
    BY <1>6 DEF SubmitBid, RelayAnswers, AckTimeout
  <2> QED
    BY <2>1, ConnectionKept
<1>7. ASSUME NEW r \in replies, ReceiveReply(r)
      PROVE  Connection'
  <2>1. UNCHANGED connection
    BY <1>7 DEF ReceiveReply
  <2> QED
    BY <2>1, ConnectionKept
<1> QED
  BY <1>1, <1>2, <1>3, <1>4, <1>5, <1>6, <1>7 DEF Next

LEMMA ConnectionInit ==
    ASSUME Init
    PROVE  Connection
<1>1. MaxConns \in Nat \ {0}
  BY ClientAssumption
<1>2. Gone = {} /\ Trying = {}
  BY DEF Init, Gone, Trying
<1>3. Cardinality(Gone) = 0
  BY <1>2, FS_EmptySet
<1>4. 1 \in Conns /\ \A c \in Conns : c >= 1
  BY <1>1 DEF Conns
<1>5. \E n \in Conns \cup {MaxConns + 1} :
        \A c \in Conns : socket[c] = "unused" <=> c >= n
  BY <1>4 DEF Init
<1>6. SocketInv
  <2>1. timers \in Nat /\ timers <= Cardinality(Gone) /\ connects \in Nat
    BY <1>3 DEF Init
  <2>2. /\ ws \in Conns \cup {None} /\ explicitlyClosed \in BOOLEAN
        /\ socket \in [Conns -> SocketStates]
        /\ handlers \in [Conns -> {"awaited", "set", "removed"}]
    BY DEF Init, SocketStates
  <2>3. attached = {}
    BY DEF Init
  <2> QED
    BY <1>5, <2>1, <2>2, <2>3 DEF SocketInv
<1>7. OnceInv /\ KeepsTrying
  BY <1>2 DEF Init, OnceInv, KeepsTrying
<1> QED
  BY <1>6, <1>7 DEF Connection

----------------------------------------------------------------------------
(* Bids and their answers *)

\* A bid that is alone on its hint after a step was alone before it.
LEMMA SingleBefore ==
    ASSUME BidInv, NEW i \in BidCalls, promise[i] # "none",
           \A j \in BidCalls : promise[j] # "none" => sentOn'[j] = sentOn[j],
           Single(i)'
    PROVE  Single(i)
<1>1. sentOn'[i] = sentOn[i] /\ sentOn[i].hint \in Hints
  BY DEF BidInv
<1>2. \A j \in BidCalls : promise[j] = "none" => sentOn[j].hint \notin Hints
  BY ClientAssumption DEF BidInv, NoBid, None
<1>3. Bids(sentOn[i].hint) \subseteq Bids(sentOn[i].hint)'
  BY <1>1, <1>2 DEF Bids
<1>4. Bids(sentOn[i].hint)' = {i}
  BY DEF Single
<1>5. i \in Bids(sentOn[i].hint)
  BY DEF Bids
<1> QED
  BY <1>3, <1>4, <1>5 DEF Single

LEMMA SubmitKeeps ==
    ASSUME BidInv, SocketInv, NEW i \in BidCalls, NEW h \in Hints, SubmitBid(i, h)
    PROVE  BidInv'
<1>1. /\ promise[i] = "none" /\ ws \in Conns /\ h # None /\ i # None
  BY ClientAssumption DEF SubmitBid, CanSend, SocketInv, None, BidCalls
<1>2. /\ promise' = [promise EXCEPT ![i] = "pending"]
      /\ acks' = [acks EXCEPT ![h] = i]
      /\ sentOn' = [sentOn EXCEPT ![i] = [hint |-> h, conn |-> ws]]
      /\ UNCHANGED <<answered, replies>>
  BY DEF SubmitBid
<1>3. /\ acks' \in [Hints -> BidCalls \cup {None}]
      /\ promise' \in [BidCalls -> BidStates]
      /\ answered' \in [BidCalls -> {"no"} \cup Verdicts]
      /\ DOMAIN sentOn' = BidCalls
  BY <1>2 DEF BidInv, BidStates
<1>4. /\ promise'[i] = "pending" /\ sentOn'[i] = [hint |-> h, conn |-> ws]
      /\ \A j \in BidCalls : j # i => promise'[j] = promise[j] /\ sentOn'[j] = sentOn[j]
      /\ acks'[h] = i
      /\ \A g \in Hints : g # h => acks'[g] = acks[g]
  BY <1>2 DEF BidInv
<1>5. \A j \in BidCalls :
        IF promise'[j] = "none" THEN sentOn'[j] = NoBid
        ELSE sentOn'[j] \in [hint : Hints, conn : Conns]
  BY <1>1, <1>4 DEF BidInv
<1>6. \A g \in Hints : acks'[g] # None =>
        promise'[acks'[g]] = "pending" /\ sentOn'[acks'[g]].hint = g
  <2>1. ASSUME NEW g \in Hints, acks'[g] # None, g # h
        PROVE  promise'[acks'[g]] = "pending" /\ sentOn'[acks'[g]].hint = g
    <3>1. /\ acks'[g] = acks[g] /\ acks[g] \in BidCalls
          /\ promise[acks[g]] = "pending" /\ sentOn[acks[g]].hint = g
      BY <1>4, <2>1 DEF BidInv
    <3>2. acks[g] # i
      BY <1>1, <3>1
    <3> QED
      BY <1>4, <3>1, <3>2
  <2> QED
    BY <1>4, <2>1
<1>7. \A r \in replies' :
        /\ r.bid \in BidCalls /\ promise'[r.bid] # "none"
        /\ r.hint = sentOn'[r.bid].hint
        /\ r.verdict \in Verdicts /\ r.verdict = answered'[r.bid]
  BY <1>1, <1>2, <1>4 DEF BidInv
<1>8. AckIsForThisBid'
  <2>1. ASSUME NEW j \in BidCalls, Single(j)', promise'[j] \in {"accepted", "rejected"}
        PROVE  answered'[j] = promise'[j]
    <3>1. j # i /\ promise[j] = promise'[j]
      BY <1>4, <2>1
    <3>2. \A k \in BidCalls : promise[k] # "none" => sentOn'[k] = sentOn[k]
      BY <1>1, <1>4
    <3>3. Single(j)
      BY <2>1, <3>1, <3>2, SingleBefore
    <3> QED
      BY <1>2, <2>1, <3>1, <3>3 DEF BidInv, AckIsForThisBid
  <2> QED
    BY <2>1 DEF AckIsForThisBid
<1> QED
  BY <1>3, <1>5, <1>6, <1>7, <1>8 DEF BidInv

\* Steps that settle pending bids, each with a failure of its own or with the
\* answer under way to the only bid on its hint.
LEMMA SettleKeeps ==
    ASSUME BidInv, UNCHANGED <<sentOn, answered>>,
           promise' \in [BidCalls -> BidStates], acks' \in [Hints -> BidCalls \cup {None}],
           replies' \subseteq replies,
           \A j \in BidCalls : promise[j] = "none" <=> promise'[j] = "none",
           \A h \in Hints : acks'[h] # None =>
                acks'[h] = acks[h] /\ promise'[acks[h]] = "pending",
           \A j \in BidCalls :
                \/ promise'[j] = promise[j]
                \/ promise'[j] \in {"timeout", "closed"}
                \/ Single(j) => promise'[j] = answered[j]
    PROVE  BidInv'
<1>1. \A j \in BidCalls :
        IF promise'[j] = "none" THEN sentOn'[j] = NoBid
        ELSE sentOn'[j] \in [hint : Hints, conn : Conns]
  BY DEF BidInv
<1>2. \A h \in Hints : acks'[h] # None =>
        promise'[acks'[h]] = "pending" /\ sentOn'[acks'[h]].hint = h
  BY DEF BidInv
<1>3. \A r \in replies' :
        /\ r.bid \in BidCalls /\ promise'[r.bid] # "none"
        /\ r.hint = sentOn'[r.bid].hint
        /\ r.verdict \in Verdicts /\ r.verdict = answered'[r.bid]
  BY DEF BidInv
<1>4. AckIsForThisBid'
  <2>1. \A j \in BidCalls : Single(j)' = Single(j)
    BY DEF Single, Bids
  <2>2. ASSUME NEW j \in BidCalls, Single(j), promise'[j] \in {"accepted", "rejected"}
        PROVE  answered'[j] = promise'[j]
    BY <2>2 DEF BidInv, AckIsForThisBid
  <2> QED
    BY <2>1, <2>2 DEF AckIsForThisBid
<1> QED
  BY <1>1, <1>2, <1>3, <1>4 DEF BidInv

LEMMA AnswerKeeps ==
    ASSUME BidInv, NEW i \in BidCalls, NEW verdict \in Verdicts, RelayAnswers(i, verdict)
    PROVE  BidInv'
<1>1. /\ promise[i] # "none" /\ answered[i] = "no"
      /\ answered' = [answered EXCEPT ![i] = verdict]
      /\ replies' = replies \cup {[conn |-> sentOn[i].conn, hint |-> sentOn[i].hint,
                                   verdict |-> verdict, bid |-> i]}
      /\ UNCHANGED <<acks, promise, sentOn>>
  BY DEF RelayAnswers
<1>2. /\ answered' \in [BidCalls -> {"no"} \cup Verdicts]
      /\ answered'[i] = verdict
      /\ \A j \in BidCalls : j # i => answered'[j] = answered[j]
  BY <1>1 DEF BidInv
<1>3. \A r \in replies' :
        /\ r.bid \in BidCalls /\ promise'[r.bid] # "none"
        /\ r.hint = sentOn'[r.bid].hint
        /\ r.verdict \in Verdicts /\ r.verdict = answered'[r.bid]
  <2>1. ASSUME NEW r \in replies
        PROVE  /\ r.bid \in BidCalls /\ promise[r.bid] # "none"
               /\ r.hint = sentOn[r.bid].hint
               /\ r.verdict \in Verdicts /\ r.verdict = answered'[r.bid]
    <3>1. /\ r.bid \in BidCalls /\ promise[r.bid] # "none"
          /\ r.hint = sentOn[r.bid].hint
          /\ r.verdict \in Verdicts /\ r.verdict = answered[r.bid]
      BY DEF BidInv
    <3>2. r.bid # i
      BY <1>1, <3>1 DEF Verdicts
    <3> QED
      BY <1>2, <3>1, <3>2
  <2> QED
    BY <1>1, <1>2, <2>1
<1>4. AckIsForThisBid'
  <2>1. \A j \in BidCalls : Single(j)' = Single(j)
    BY <1>1 DEF Single, Bids
  <2>2. ASSUME NEW j \in BidCalls, Single(j), promise[j] \in {"accepted", "rejected"}
        PROVE  answered'[j] = promise[j]
    <3>1. answered[j] = promise[j]
      BY <2>2 DEF BidInv, AckIsForThisBid
    <3> QED
      BY <1>1, <1>2, <2>2, <3>1
  <2> QED
    BY <1>1, <2>1, <2>2 DEF AckIsForThisBid
<1>5. /\ \A j \in BidCalls :
           IF promise'[j] = "none" THEN sentOn'[j] = NoBid
           ELSE sentOn'[j] \in [hint : Hints, conn : Conns]
      /\ \A h \in Hints : acks'[h] # None =>
           promise'[acks'[h]] = "pending" /\ sentOn'[acks'[h]].hint = h
      /\ acks' \in [Hints -> BidCalls \cup {None}]
      /\ promise' \in [BidCalls -> BidStates]
      /\ DOMAIN sentOn' = BidCalls
  BY <1>1 DEF BidInv
<1> QED
  BY <1>2, <1>3, <1>4, <1>5 DEF BidInv

\* The entry of a hint is the call that bid on it, so the answer settles it.
LEMMA ReceiveKeeps ==
    ASSUME BidInv, NEW r \in replies, ReceiveReply(r)
    PROVE  BidInv'
<1>1. /\ r.bid \in BidCalls /\ promise[r.bid] # "none"
      /\ r.hint = sentOn[r.bid].hint /\ sentOn[r.bid].hint \in Hints
      /\ r.verdict \in Verdicts /\ r.verdict = answered[r.bid]
  BY DEF BidInv
<1>2. UNCHANGED <<sentOn, answered>> /\ replies' \subseteq replies
  BY DEF ReceiveReply
<1>3. CASE acks[r.hint] = None
  <2>1. UNCHANGED <<promise, acks>>
    BY <1>3 DEF ReceiveReply, AckOf
  <2> QED
    BY <1>2, <2>1, SettleKeeps DEF BidInv
<1>4. CASE acks[r.hint] # None
  <2>1. PICK i \in BidCalls : i = acks[r.hint]
    BY <1>1, <1>4 DEF BidInv
  <2>2. promise[i] = "pending" /\ sentOn[i].hint = r.hint
    BY <1>1, <1>4, <2>1 DEF BidInv
  <2>3. /\ promise' = [promise EXCEPT ![i] = r.verdict]
        /\ acks' = [acks EXCEPT ![r.hint] = None]
    BY <1>4, <2>1 DEF ReceiveReply, AckOf
  <2>4. Single(i) => r.bid = i
    BY <1>1, <2>2 DEF Single, Bids
  <2>5. /\ promise' \in [BidCalls -> BidStates] /\ promise'[i] = r.verdict
        /\ \A j \in BidCalls : j # i => promise'[j] = promise[j]
        /\ acks' \in [Hints -> BidCalls \cup {None}] /\ acks'[r.hint] = None
        /\ \A g \in Hints : g # r.hint => acks'[g] = acks[g]
    BY <1>1, <2>3 DEF BidInv, BidStates, Verdicts
  <2>6. \A j \in BidCalls : promise[j] = "none" <=> promise'[j] = "none"
    BY <1>1, <2>2, <2>5 DEF Verdicts
  <2>7. \A h \in Hints : acks'[h] # None =>
          acks'[h] = acks[h] /\ promise'[acks[h]] = "pending"
    <3>1. ASSUME NEW h \in Hints, acks'[h] # None
          PROVE  acks'[h] = acks[h] /\ promise'[acks[h]] = "pending"
      <4>1. h # r.hint /\ acks'[h] = acks[h]
        BY <2>5, <3>1
      <4>2. acks[h] \in BidCalls /\ promise[acks[h]] = "pending" /\ sentOn[acks[h]].hint = h
        BY <3>1, <4>1 DEF BidInv
      <4>3. acks[h] # i
        BY <2>2, <4>1, <4>2
      <4> QED
        BY <2>5, <4>1, <4>2, <4>3
    <3> QED
      BY <3>1
  <2>8. \A j \in BidCalls :
          \/ promise'[j] = promise[j]
          \/ promise'[j] \in {"timeout", "closed"}
          \/ Single(j) => promise'[j] = answered[j]
    BY <1>1, <2>4, <2>5
  <2> QED
    BY <1>2, <2>5, <2>6, <2>7, <2>8, SettleKeeps
<1> QED
  BY <1>3, <1>4

LEMMA TimeoutKeeps ==
    ASSUME BidInv, NEW i \in BidCalls, AckTimeout(i)
    PROVE  BidInv'
<1>1. /\ promise[i] = "pending"
      /\ promise' = [promise EXCEPT ![i] = "timeout"]
      /\ acks' = [acks EXCEPT ![sentOn[i].hint] = None]
      /\ UNCHANGED <<sentOn, answered, replies>>
  BY DEF AckTimeout
<1>2. sentOn[i].hint \in Hints
  BY <1>1 DEF BidInv
<1>3. /\ promise' \in [BidCalls -> BidStates] /\ promise'[i] = "timeout"
      /\ \A j \in BidCalls : j # i => promise'[j] = promise[j]
      /\ acks' \in [Hints -> BidCalls \cup {None}] /\ acks'[sentOn[i].hint] = None
      /\ \A g \in Hints : g # sentOn[i].hint => acks'[g] = acks[g]
  BY <1>1, <1>2 DEF BidInv, BidStates
<1>4. \A j \in BidCalls : promise[j] = "none" <=> promise'[j] = "none"
  BY <1>1, <1>3
<1>5. \A h \in Hints : acks'[h] # None =>
        acks'[h] = acks[h] /\ promise'[acks[h]] = "pending"
  <2>1. ASSUME NEW h \in Hints, acks'[h] # None
        PROVE  acks'[h] = acks[h] /\ promise'[acks[h]] = "pending"
    <3>1. h # sentOn[i].hint /\ acks'[h] = acks[h]
      BY <1>3, <2>1
    <3>2. acks[h] \in BidCalls /\ promise[acks[h]] = "pending" /\ sentOn[acks[h]].hint = h
      BY <2>1, <3>1 DEF BidInv
    <3>3. acks[h] # i
      BY <3>1, <3>2
    <3> QED
      BY <1>3, <3>1, <3>2, <3>3
  <2> QED
    BY <2>1
<1>6. \A j \in BidCalls :
        \/ promise'[j] = promise[j]
        \/ promise'[j] \in {"timeout", "closed"}
        \/ Single(j) => promise'[j] = answered[j]
  BY <1>3
<1> QED
  BY <1>1, <1>3, <1>4, <1>5, <1>6, SettleKeeps

\* handleClose settles the listed bids, all of which are pending.
LEMMA CloseKeepsBids ==
    ASSUME BidInv, NEW c \in Conns, TransportCloses(c)
    PROVE  BidInv'
<1>1. UNCHANGED <<sentOn, answered, replies>>
  BY DEF TransportCloses
<1>2. CASE c \notin attached
  <2>1. UNCHANGED <<promise, acks>>
    BY <1>2 DEF TransportCloses
  <2> QED
    BY <1>1, <2>1, SettleKeeps DEF BidInv
<1>3. CASE c \in attached
  <2>1. /\ promise' = [i \in BidCalls |-> IF i \in Listed THEN "closed" ELSE promise[i]]
        /\ acks' = [h \in Hints |-> None]
    BY <1>3 DEF TransportCloses
  <2>2. \A i \in Listed : i \in BidCalls /\ promise[i] = "pending"
    BY DEF Listed, BidInv
  <2>3. /\ promise' \in [BidCalls -> BidStates]
        /\ acks' \in [Hints -> BidCalls \cup {None}]
    BY <2>1 DEF BidInv, BidStates
  <2>4. \A j \in BidCalls : promise[j] = "none" <=> promise'[j] = "none"
    BY <2>1, <2>2
  <2>5. \A j \in BidCalls : promise'[j] = promise[j] \/ promise'[j] \in {"timeout", "closed"}
    BY <2>1
  <2> QED
    BY <1>1, <2>1, <2>3, <2>4, <2>5, SettleKeeps
<1> QED
  BY <1>2, <1>3

LEMMA BidsPreserved ==
    ASSUME BidInv, SocketInv, Next
    PROVE  BidInv'
<1>1. CASE UNCHANGED bidding
  <2>1. UNCHANGED <<acks, promise, sentOn, answered, replies>>
    BY <1>1 DEF bidding
  <2> QED
    BY <2>1, SettleKeeps DEF BidInv
<1>2. CASE Connect \/ Reconnect \/ Disconnect
  <2>1. UNCHANGED bidding
    BY <1>2 DEF Connect, Reconnect, Disconnect
  <2> QED
    BY <1>1, <2>1
<1>3. ASSUME NEW c \in Conns,
             \/ AuthMessageBuilt(c) \/ TransportOpens(c) \/ TransportFails(c)
             \/ AuthOk(c) \/ AuthTimeout(c) \/ AuthRefused(c)
      PROVE  BidInv'
  <2>1. UNCHANGED bidding
    BY <1>3 DEF AuthMessageBuilt, TransportOpens, TransportFails, AuthOk, AuthTimeout,
                AuthRefused
  <2> QED
    BY <1>1, <2>1
<1>4. ASSUME NEW c \in Conns, TransportCloses(c)
      PROVE  BidInv'
  BY <1>4, CloseKeepsBids
<1>5. ASSUME NEW i \in BidCalls, NEW h \in Hints, SubmitBid(i, h)
      PROVE  BidInv'
  BY <1>5, SubmitKeeps
<1>6. ASSUME NEW i \in BidCalls, NEW verdict \in Verdicts, RelayAnswers(i, verdict)
      PROVE  BidInv'
  BY <1>6, AnswerKeeps
<1>7. ASSUME NEW i \in BidCalls, AckTimeout(i)
      PROVE  BidInv'
  BY <1>7, TimeoutKeeps
<1>8. ASSUME NEW r \in replies, ReceiveReply(r)
      PROVE  BidInv'
  BY <1>8, ReceiveKeeps
<1> QED
  BY <1>2, <1>3, <1>4, <1>5, <1>6, <1>7, <1>8 DEF Next, Verdicts

LEMMA BidsInit ==
    ASSUME Init
    PROVE  BidInv
BY DEF Init, BidInv, BidStates, AckIsForThisBid

----------------------------------------------------------------------------
(* The client *)

LEMMA ClientInvAlways == Spec => []ClientInv
<1>1. Init => ClientInv
  BY ConnectionInit, BidsInit DEF ClientInv, Connection
<1>2. ClientInv /\ [Next]_vars => ClientInv'
  <2> SUFFICES ASSUME ClientInv, [Next]_vars
               PROVE  ClientInv'
    OBVIOUS
  <2>1. Connection /\ BidInv /\ SocketInv
    BY DEF ClientInv, Connection
  <2>2. CASE Next
    BY <2>1, <2>2, ConnectionPreserved, BidsPreserved DEF ClientInv, Connection
  <2>3. CASE UNCHANGED vars
    <3>1. UNCHANGED connection /\ UNCHANGED <<acks, promise, sentOn, answered, replies>>
      BY <2>3 DEF vars, bidding
    <3>2. Connection'
      BY <2>1, <3>1, ConnectionKept
    <3>3. BidInv'
      BY <2>1, <3>1, SettleKeeps DEF BidInv
    <3> QED
      BY <3>2, <3>3 DEF ClientInv, Connection
  <2> QED
    BY <2>2, <2>3
<1> QED
  BY <1>1, <1>2, PTL DEF Spec

LEMMA OneSocketReady ==
    ASSUME ClientInv
    PROVE  OneConnection
<1>1. TypeOK
  <2>1. MaxConns \in Nat
    BY ClientAssumption
  <2>2. IsFiniteSet(Conns) /\ Cardinality(Conns) = MaxConns
    BY <2>1, FS_Interval DEF Conns
  <2>3. Gone \subseteq Conns /\ timers \in Nat /\ timers <= Cardinality(Gone)
    BY DEF ClientInv, SocketInv, Gone
  <2>4. Cardinality(Gone) \in Nat /\ Cardinality(Gone) <= MaxConns
    BY <2>2, <2>3, FS_Subset, FS_CardinalityType
  <2>5. timers \in 0..MaxConns
    BY <2>1, <2>3, <2>4
  <2>6. /\ acks \in [Hints -> BidCalls \cup {None}]
        /\ promise \in [BidCalls -> {"none", "pending", "accepted", "rejected", "timeout", "closed"}]
        /\ answered \in [BidCalls -> {"no", "accepted", "rejected"}]
        /\ \A i \in BidCalls : promise[i] # "none" =>
                sentOn[i] \in [hint : Hints, conn : Conns]
    BY DEF ClientInv, BidInv, BidStates, Verdicts
  <2> QED
    BY <2>5, <2>6 DEF TypeOK, ClientInv, SocketInv, SocketStates
<1>2. ASSUME connects <= 1
      PROVE  Cardinality(Ready) <= 1
  <2>1. \A c, d \in Ready : c = d
    BY <1>2 DEF ClientInv, OnceInv, Trying, Ready
  <2>2. CASE Ready = {}
    BY <2>2, FS_EmptySet
  <2>3. CASE Ready # {}
    <3>1. PICK c \in Ready : TRUE
      BY <2>3
    <3>2. Ready = {c}
      BY <2>1, <3>1
    <3> QED
      BY <3>2, FS_Singleton
  <2> QED
    BY <2>2, <2>3
<1> QED
  BY <1>1, <1>2 DEF OneConnection

\* For any number of sockets, bids and hints: submitBid settles with the
\* relay's verdict on that very bid, or with a failure of its own, when the
\* application bids once on the hint.
THEOREM AckIsForThisBidAlways == Spec => []AckIsForThisBid
<1>1. ClientInv => AckIsForThisBid
  BY DEF ClientInv, BidInv
<1> QED
  BY <1>1, ClientInvAlways, PTL

\* For any number of drops and reconnects: an application that calls connect
\* once never has two authenticated sockets, however its calls, the timers and
\* the close events interleave.
THEOREM OneConnectionAlways == Spec => []OneConnection
<1>1. ClientInv => OneConnection
  BY OneSocketReady
<1> QED
  BY <1>1, ClientInvAlways, PTL

\* For any number of drops and reconnects: a client that was connected, whose
\* attempts all got as far as auth_ok and that was not told to stop has a
\* socket or a reconnect scheduled.
THEOREM KeepsTryingAlways == Spec => []KeepsTrying
<1>1. ClientInv => KeepsTrying
  BY DEF ClientInv
<1> QED
  BY <1>1, ClientInvAlways, PTL

----------------------------------------------------------------------------
(* The bots *)

\* A bot from start to connect.
BotSteps == {"starting", "checking", "opening", "confirming open", "reading",
             "depositing", "confirming deposit", "funded", "fatal"}
Confirming == {"confirming open", "confirming deposit"}
AfterOpening == {"reading", "depositing", "confirming deposit", "funded"}

\* Bots that may still pay for an attempt to open the escrow.
MayOpen == {b \in Bots : at[b] \in {"starting", "checking", "opening", "confirming open"}}

\* What the escrow has, or had and paid for bids.
Funded == open /\ escrow + spent >= EscrowRent + EscrowTarget

\* The wallet can pay for what is left to do ...
CanPayForAll ==
    wallet >= (IF open THEN 0 ELSE EscrowRent) + EscrowTarget
              + (Cardinality(MayOpen) + 1) * Fee
\* ... or for nothing, and then no transaction is on its way ...
CanPayForNothing == wallet < Fee /\ \A b \in Bots : at[b] \notin Confirming
\* ... or every bot is going to see to it.
YetToAirdrop ==
    /\ SeedBots = {} /\ AirdropMin >= EnoughToStart
    /\ \A b \in Bots : at[b] \in {"starting", "fatal"}

ChainInv ==
    /\ wallet \in Nat /\ escrow \in Nat /\ spent \in Nat /\ open \in BOOLEAN
    /\ IF open THEN escrow >= EscrowRent ELSE escrow = 0 /\ spent = 0

StepInv ==
    /\ at \in [Bots -> BotSteps]
    /\ need \in [Bots -> Nat]
    /\ \A b \in Bots : at[b] \in AfterOpening => open
    /\ \A b \in Bots : at[b] \in {"depositing", "confirming deposit"} =>
        need[b] \in 1..EscrowTarget
        /\ escrow + spent + need[b] >= EscrowRent + EscrowTarget
    /\ \A b \in Bots : at[b] = "funded" => Funded

Means == Funded \/ CanPayForAll \/ CanPayForNothing \/ YetToAirdrop

\* Until this bot connects.
Live == ChainInv /\ StepInv /\ Means

FundingInv ==
    \/ at = [b \in Bots |-> "dropped"] /\ escrow = 0 /\ open
    \/ Live

LEMMA FeesAreNaturals ==
    /\ EscrowTarget \in Nat /\ AirdropMin \in Nat /\ TopUp \in Nat
    /\ EscrowRent \in Nat /\ Fee \in Nat /\ ThisBot \in Bots
    /\ Cardinality(Bots) \in Nat /\ IsFiniteSet(Bots)
    /\ Wallets \subseteq Nat /\ Debits \subseteq Nat \ {0}
BY BotAssumption, FS_CardinalityType

\* The fees of k + 1 transactions.
FeesOf(k) == (k + 1) * Fee

LEMMA FeesGrow ==
    ASSUME NEW k \in Nat, NEW m \in Nat
    PROVE  /\ FeesOf(k) \in Nat /\ FeesOf(k) >= Fee
           /\ k <= m => FeesOf(k) <= FeesOf(m)
           /\ FeesOf(k + 1) = FeesOf(k) + Fee
<1>1. Fee \in Nat
  BY FeesAreNaturals
<1>2. (k + 1) * Fee \in Nat /\ (k + 1) * Fee = k * Fee + Fee /\ k * Fee \in Nat
  BY <1>1
<1>3. (k + 1 + 1) * Fee = (k + 1) * Fee + Fee
  BY <1>1
<1>4. ASSUME k <= m PROVE FeesOf(k) <= FeesOf(m)
  <2>1. m - k \in Nat /\ (m - k) * Fee \in Nat
    BY <1>1, <1>4
  <2>2. (m + 1) * Fee = (k + 1) * Fee + (m - k) * Fee
    BY <1>1
  <2> QED
    BY <2>1, <2>2, <1>2, <1>1 DEF FeesOf
<1> QED
  BY <1>1, <1>2, <1>3, <1>4 DEF FeesOf

BeforeOpening == {"starting", "checking", "opening", "confirming open"}

\* When a bot moves on, the number of those that may still open the escrow
\* does not grow, and falls by one when it is past that.
LEMMA MayOpenFalls ==
    ASSUME at \in [Bots -> BotSteps], NEW b \in Bots, NEW to \in BotSteps,
           at' = [at EXCEPT ![b] = to]
    PROVE  /\ Cardinality(MayOpen) \in Nat /\ Cardinality(MayOpen') \in Nat
           /\ at[b] \in BeforeOpening \/ to \notin BeforeOpening =>
                Cardinality(MayOpen') <= Cardinality(MayOpen)
           /\ at[b] \in BeforeOpening /\ to \notin BeforeOpening =>
                Cardinality(MayOpen) = Cardinality(MayOpen') + 1
<1>1. IsFiniteSet(Bots)
  BY FeesAreNaturals
<1>2. MayOpen \subseteq Bots /\ MayOpen' \subseteq Bots
  BY DEF MayOpen
<1>3. IsFiniteSet(MayOpen) /\ IsFiniteSet(MayOpen')
  BY <1>1, <1>2, FS_Subset
<1>4. Cardinality(MayOpen) \in Nat /\ Cardinality(MayOpen') \in Nat
  BY <1>3, FS_CardinalityType
<1>5. ASSUME at[b] \in BeforeOpening \/ to \notin BeforeOpening
      PROVE  MayOpen' \subseteq MayOpen
  BY <1>5 DEF MayOpen, BeforeOpening
<1>6. ASSUME at[b] \in BeforeOpening \/ to \notin BeforeOpening
      PROVE  Cardinality(MayOpen') <= Cardinality(MayOpen)
  BY <1>5, <1>6, <1>3, FS_Subset
<1>7. ASSUME at[b] \in BeforeOpening, to \notin BeforeOpening
      PROVE  Cardinality(MayOpen) = Cardinality(MayOpen') + 1
  <2>1. MayOpen' = MayOpen \ {b} /\ b \in MayOpen
    BY <1>7 DEF MayOpen, BeforeOpening
  <2>2. Cardinality(MayOpen \ {b}) = Cardinality(MayOpen) - 1
    BY <2>1, <1>3, FS_RemoveElement
  <2> QED
    BY <2>1, <2>2, <1>4
<1> QED
  BY <1>4, <1>6, <1>7

\* What has reached a goal stays there when it does not fall.
LEMMA FundedStays ==
    ASSUME ChainInv, open => open',
           NEW left \in Nat, escrow' = left, NEW paid \in Nat, spent' = paid,
           left + paid >= escrow + spent
    PROVE  /\ Funded => Funded'
           /\ \A n \in Nat : escrow + spent + n >= EscrowRent + EscrowTarget
                => left + paid + n >= EscrowRent + EscrowTarget
<1>1. escrow \in Nat /\ spent \in Nat
  BY DEF ChainInv
<1>2. Funded => Funded'
  BY <1>1, FeesAreNaturals DEF Funded
<1>3. ASSUME NEW n \in Nat, escrow + spent + n >= EscrowRent + EscrowTarget
      PROVE  left + paid + n >= EscrowRent + EscrowTarget
  BY <1>1, <1>3, FeesAreNaturals
<1> QED
  BY <1>2, <1>3

\* A bot that moves on keeps StepInv when what the escrow has, or had and
\* paid, does not fall.
LEMMA StepsKept ==
    ASSUME StepInv, ChainInv, NEW b \in Bots, NEW to \in BotSteps,
           at' = [at EXCEPT ![b] = to],
           NEW amount \in Nat, need' = [need EXCEPT ![b] = amount],
           open => open',
           NEW left \in Nat, escrow' = left, NEW paid \in Nat, spent' = paid,
           left + paid >= escrow + spent,
           to \in AfterOpening => open',
           to \in {"depositing", "confirming deposit"} =>
                amount \in 1..EscrowTarget
                /\ left + paid + amount >= EscrowRent + EscrowTarget,
           to = "funded" => open' /\ left + paid >= EscrowRent + EscrowTarget
    PROVE  StepInv' /\ (Funded => Funded')
<1>0. at \in [Bots -> BotSteps] /\ need \in [Bots -> Nat]
  BY DEF StepInv
<1> USE FeesAreNaturals, <1>0
<1>1. /\ at' \in [Bots -> BotSteps] /\ need' \in [Bots -> Nat]
      /\ \A c \in Bots : at'[c] = IF c = b THEN to ELSE at[c]
      /\ \A c \in Bots : need'[c] = IF c = b THEN amount ELSE need[c]
  BY DEF StepInv
<1>2. \A c \in Bots : at'[c] \in AfterOpening => open'
  BY <1>1 DEF StepInv
<1>3. /\ Funded => Funded'
      /\ \A n \in Nat : escrow + spent + n >= EscrowRent + EscrowTarget
            => left + paid + n >= EscrowRent + EscrowTarget
  BY FundedStays, Zenon
<1>4. \A c \in Bots : at'[c] = "funded" => Funded'
  BY <1>1, <1>3 DEF StepInv, Funded
<1>5. ASSUME NEW c \in Bots, at'[c] \in {"depositing", "confirming deposit"}
      PROVE  need'[c] \in 1..EscrowTarget
             /\ escrow' + spent' + need'[c] >= EscrowRent + EscrowTarget
  <2>1. CASE c = b
    BY <2>1, <1>5, <1>1
  <2>2. CASE c # b
    <3>1. need'[c] = need[c] /\ need[c] \in 1..EscrowTarget
          /\ escrow + spent + need[c] >= EscrowRent + EscrowTarget
      BY <2>2, <1>5, <1>1 DEF StepInv
    <3>2. need[c] \in Nat
      BY <3>1
    <3> QED
      BY <3>1, <3>2, <1>3, Zenon
  <2> QED
    BY <2>1, <2>2
<1> QED
  BY <1>1, <1>2, <1>3, <1>4, <1>5 DEF StepInv

\* A bot that only moves on.
LEMMA MoveKeepsMeans ==
    ASSUME StepInv, ChainInv, Means, NEW b \in Bots, NEW to \in BotSteps,
           at' = [at EXCEPT ![b] = to], UNCHANGED <<chain, spent>>,
           at[b] \in BeforeOpening \/ to \notin BeforeOpening,
           to \in Confirming => wallet >= Fee,
           at[b] # "fatal",
           at[b] # "starting" \/ to = "fatal"
           \/ b \in SeedBots \/ wallet >= AirdropMin
    PROVE  Means'
<1> USE FeesAreNaturals
<1>1. at \in [Bots -> BotSteps]
      /\ \A c \in Bots : at'[c] = IF c = b THEN to ELSE at[c]
  BY DEF StepInv
<1>2. UNCHANGED <<wallet, open, escrow, spent>>
  BY DEF chain
<1>3. /\ Cardinality(MayOpen) \in Nat /\ Cardinality(MayOpen') \in Nat
      /\ Cardinality(MayOpen') <= Cardinality(MayOpen)
  BY <1>1, MayOpenFalls
<1>4. /\ FeesOf(Cardinality(MayOpen)) \in Nat /\ FeesOf(Cardinality(MayOpen')) \in Nat
      /\ FeesOf(Cardinality(MayOpen')) <= FeesOf(Cardinality(MayOpen))
  BY <1>3, FeesGrow
<1>5. CASE Funded
  BY <1>5, <1>2 DEF Funded, Means
<1>6. CASE CanPayForAll
  <2>1. CanPayForAll'
    BY <1>6, <1>4, <1>2 DEF CanPayForAll, ChainInv, FeesOf
  <2> QED
    BY <2>1 DEF Means
<1>7. CASE CanPayForNothing
  <2>1. to \notin Confirming
    BY <1>7 DEF CanPayForNothing, ChainInv
  <2>2. CanPayForNothing'
    BY <2>1, <1>7, <1>1, <1>2 DEF CanPayForNothing
  <2> QED
    BY <2>2 DEF Means
<1>8. CASE YetToAirdrop
  <2>1. CASE to = "fatal"
    <3>1. YetToAirdrop'
      BY <2>1, <1>8, <1>1 DEF YetToAirdrop
    <3> QED
      BY <3>1 DEF Means
  <2>2. CASE to # "fatal" /\ at[b] = "starting"
    <3>1. wallet >= EnoughToStart /\ EnoughToStart = EscrowRent + EscrowTarget + FeesOf(Cardinality(Bots))
      BY <2>2, <1>8, BotAssumption DEF YetToAirdrop, EnoughToStart, FeesOf, ChainInv
    <3>2. MayOpen' \subseteq Bots
      BY DEF MayOpen
    <3>3. Cardinality(MayOpen') <= Cardinality(Bots)
      BY <3>2, FS_Subset
    <3>4. FeesOf(Cardinality(MayOpen')) <= FeesOf(Cardinality(Bots)) /\ FeesOf(Cardinality(Bots)) \in Nat
      BY <3>3, <1>3, FeesGrow
    <3>5. CanPayForAll'
      BY <3>1, <3>4, <1>4, <1>2 DEF CanPayForAll, ChainInv, FeesOf
    <3> QED
      BY <3>5 DEF Means
  <2>3. CASE to # "fatal" /\ at[b] # "starting"
    <3>1. at[b] = "fatal"
      BY <2>3, <1>8 DEF YetToAirdrop
    <3> QED
      BY <3>1, <2>3, <1>8, <1>1 DEF BeforeOpening, YetToAirdrop, Means
  <2> QED
    BY <2>1, <2>2, <2>3
<1> QED
  BY <1>5, <1>6, <1>7, <1>8 DEF Means

LEMMA EscrowIsNat ==
    ChainInv => escrow \in Nat /\ spent \in Nat /\ escrow + spent >= escrow + spent
BY DEF ChainInv

\* A bot that moves on without touching the chain.
LEMMA MoveOn ==
    ASSUME Live, NEW b \in Bots, NEW to \in BotSteps, at[b] # "fatal",
           at' = [at EXCEPT ![b] = to],
           NEW amount \in Nat, need' = [need EXCEPT ![b] = amount],
           UNCHANGED <<chain, spent>>,
           at[b] \in BeforeOpening \/ to \notin BeforeOpening,
           to \in Confirming => wallet >= Fee,
           at[b] # "starting" \/ to = "fatal"
           \/ b \in SeedBots \/ wallet >= AirdropMin,
           to \in AfterOpening => open,
           to \in {"depositing", "confirming deposit"} =>
                amount \in 1..EscrowTarget
                /\ escrow + spent + amount >= EscrowRent + EscrowTarget,
           to = "funded" => open /\ escrow + spent >= EscrowRent + EscrowTarget
    PROVE  Live'
<1>1. StepInv /\ ChainInv /\ Means
  BY DEF Live
<1>2. wallet' = wallet /\ open' = open /\ escrow' = escrow /\ spent' = spent
  BY DEF chain
<1>3. escrow \in Nat /\ spent \in Nat /\ escrow + spent >= escrow + spent
  BY <1>1, EscrowIsNat
<1>4. ChainInv'
  BY <1>1, <1>2 DEF ChainInv
<1>5. StepInv'
  BY <1>1, <1>2, <1>3, StepsKept, Zenon
<1>6. Means'
  BY <1>1, MoveKeepsMeans, Zenon
<1> QED
  BY <1>4, <1>5, <1>6 DEF Live

LEMMA NeedKept ==
    ASSUME Live, NEW b \in Bots
    PROVE  need[b] \in Nat /\ need = [need EXCEPT ![b] = need[b]]
BY DEF Live, StepInv

LEMMA StartKeeps ==
    ASSUME AmpleFunds, Live, NEW b \in Bots, StartSeedBot(b) \/ AirdropIfLow(b)
    PROVE  Live'
<1> USE FeesAreNaturals
<1>1. CASE /\ at[b] = "starting" /\ at' = [at EXCEPT ![b] = "checking"]
           /\ b \in SeedBots \/ wallet >= AirdropMin
           /\ UNCHANGED <<need, chain, spent>>
  <2>1. "checking" \in BotSteps /\ "checking" \notin Confirming /\ "checking" \notin AfterOpening
        /\ at[b] \in BeforeOpening /\ at[b] # "fatal"
        /\ "checking" \notin {"depositing", "confirming deposit"} /\ "checking" # "funded"
    BY <1>1 DEF BotSteps, Confirming, AfterOpening, BeforeOpening
  <2>2. need[b] \in Nat /\ need' = [need EXCEPT ![b] = need[b]]
    BY <1>1, NeedKept, Zenon
  <2> QED
    BY <1>1, <2>1, <2>2, MoveOn, Zenon
<1>2. CASE /\ at[b] = "starting" /\ at' = [at EXCEPT ![b] = "fatal"]
           /\ UNCHANGED <<need, chain, spent>>
  <2>1. "fatal" \in BotSteps /\ "fatal" \notin Confirming /\ "fatal" \notin AfterOpening
        /\ at[b] \in BeforeOpening /\ at[b] # "fatal"
        /\ "fatal" \notin {"depositing", "confirming deposit"} /\ "fatal" # "funded"
    BY <1>2 DEF BotSteps, Confirming, AfterOpening, BeforeOpening
  <2>2. need[b] \in Nat /\ need' = [need EXCEPT ![b] = need[b]]
    BY <1>2, NeedKept, Zenon
  <2> QED
    BY <1>2, <2>1, <2>2, MoveOn, Zenon
<1>3. CASE /\ AmpleFunds
           /\ at[b] = "starting" /\ at' = [at EXCEPT ![b] = "checking"]
           /\ wallet' = wallet + TopUp /\ UNCHANGED <<need, open, escrow, spent>>
  <2>1. ChainInv /\ StepInv /\ at \in [Bots -> BotSteps] /\ "checking" \in BotSteps
    BY DEF Live, StepInv, BotSteps
  <2>2. ChainInv'
    BY <1>3, <2>1 DEF ChainInv
  <2>3. StepInv'
    <3>1. at' \in [Bots -> BotSteps]
          /\ \A c \in Bots : at'[c] = IF c = b THEN "checking" ELSE at[c]
      BY <1>3, <2>1
    <3>2. Funded' <=> Funded
      BY <1>3 DEF Funded
    <3> QED
      BY <1>3, <3>1, <3>2, <2>1 DEF StepInv, AfterOpening
  <2>4. MayOpen' \subseteq Bots /\ IsFiniteSet(Bots)
    BY DEF MayOpen
  <2>5. Cardinality(MayOpen') <= Cardinality(Bots) /\ Cardinality(MayOpen') \in Nat
    BY <2>4, FS_Subset, FS_CardinalityType
  <2>6. /\ FeesOf(Cardinality(MayOpen')) <= FeesOf(Cardinality(Bots))
        /\ FeesOf(Cardinality(Bots)) \in Nat /\ FeesOf(Cardinality(MayOpen')) \in Nat
    BY <2>5, FeesGrow
  <2>7. TopUp >= EscrowRent + EscrowTarget + FeesOf(Cardinality(Bots))
    BY <1>3, BotAssumption DEF AmpleFunds, EnoughToStart, FeesOf
  <2>8. CanPayForAll'
    BY <2>1, <2>6, <2>7, <1>3 DEF CanPayForAll, FeesOf, ChainInv
  <2> QED
    BY <2>2, <2>3, <2>8 DEF Live, Means
<1> QED
  BY <1>1, <1>2, <1>3 DEF StartSeedBot, AirdropIfLow, Go, chain

\* A simulation that succeeds has seen the fee in the wallet.
LEMMA SimulationPaysFee ==
    ASSUME ChainInv
    PROVE  /\ CanInit => wallet >= Fee
           /\ \A amount \in Nat : CanDeposit(amount) => wallet >= Fee
BY FeesAreNaturals DEF ChainInv, CanInit, CanDeposit

LEMMA CheckKeeps ==
    ASSUME Live, NEW b \in Bots, CheckEscrow(b) \/ SendInit(b)
    PROVE  Live'
<1> USE FeesAreNaturals
<1>1. PICK to \in {"reading", "opening", "confirming open", "fatal"} :
        /\ at[b] \in {"checking", "opening"} /\ at' = [at EXCEPT ![b] = to]
        /\ UNCHANGED <<need, chain, spent>>
        /\ to = "reading" => open
        /\ to = "confirming open" => CanInit
  BY DEF CheckEscrow, SendInit, Go
<1>2. to = "confirming open" => wallet >= Fee
  BY <1>1, SimulationPaysFee, Zenon DEF Live
<1>3. to \in BotSteps /\ (to \in AfterOpening => to = "reading")
      /\ (to \in Confirming => to = "confirming open")
      /\ to \notin {"depositing", "confirming deposit"} /\ to # "funded"
      /\ at[b] \in BeforeOpening /\ at[b] # "fatal" /\ at[b] # "starting"
  BY <1>1 DEF BotSteps, Confirming, AfterOpening, BeforeOpening
<1>4. need[b] \in Nat /\ need' = [need EXCEPT ![b] = need[b]]
  BY <1>1, NeedKept, Zenon
<1> QED
  BY <1>1, <1>2, <1>3, <1>4, MoveOn, Zenon

\* With an open escrow, what is needed is within the target and enough.
LEMMA NeedIsEnough ==
    ASSUME ChainInv, open, Usable < EscrowTarget
    PROVE  /\ EscrowTarget - Usable \in 1..EscrowTarget
           /\ escrow + spent + (EscrowTarget - Usable) >= EscrowRent + EscrowTarget
BY FeesAreNaturals DEF ChainInv, Usable

LEMMA UsableIsFunded ==
    ASSUME ChainInv, open, ~(Usable < EscrowTarget)
    PROVE  escrow + spent >= EscrowRent + EscrowTarget
BY FeesAreNaturals DEF ChainInv, Usable

LEMMA ReadKeeps ==
    ASSUME Live, NEW b \in Bots, ReadBalance(b)
    PROVE  Live'
<1>1. ChainInv /\ StepInv /\ open /\ at[b] = "reading"
  BY DEF Live, StepInv, ReadBalance, Go, AfterOpening
<1>2. UNCHANGED <<chain, spent>>
  BY DEF ReadBalance
<1>3. /\ "reading" \notin BeforeOpening /\ "depositing" \in BotSteps /\ "funded" \in BotSteps
      /\ "depositing" \notin BeforeOpening /\ "funded" \notin BeforeOpening
      /\ "depositing" \notin Confirming /\ "funded" \notin Confirming
      /\ "funded" \notin {"depositing", "confirming deposit"} /\ "depositing" # "funded"
      /\ "reading" # "fatal" /\ "reading" # "starting" /\ 0 \in Nat
  BY DEF BeforeOpening, BotSteps, Confirming
<1>4. CASE Usable < EscrowTarget
  <2>1. /\ EscrowTarget - Usable \in 1..EscrowTarget
        /\ escrow + spent + (EscrowTarget - Usable) >= EscrowRent + EscrowTarget
    BY <1>1, <1>4, NeedIsEnough
  <2>2. EscrowTarget - Usable \in Nat
    BY <2>1, FeesAreNaturals
  <2>3. /\ at' = [at EXCEPT ![b] = "depositing"]
        /\ need' = [need EXCEPT ![b] = EscrowTarget - Usable]
    BY <1>4 DEF ReadBalance, Go
  <2> QED
    BY <1>1, <1>2, <1>3, <2>1, <2>2, <2>3, MoveOn, Zenon
<1>5. CASE ~(Usable < EscrowTarget)
  <2>1. escrow + spent >= EscrowRent + EscrowTarget
    BY <1>1, <1>5, UsableIsFunded
  <2>2. at' = [at EXCEPT ![b] = "funded"] /\ need' = [need EXCEPT ![b] = 0]
    BY <1>5 DEF ReadBalance, Go
  <2> QED
    BY <1>1, <1>2, <1>3, <2>1, <2>2, MoveOn, Zenon
<1> QED
  BY <1>4, <1>5

LEMMA SendDepositKeeps ==
    ASSUME Live, NEW b \in Bots, SendDeposit(b)
    PROVE  Live'
<1> USE FeesAreNaturals
<1>1. PICK to \in {"confirming deposit", "fatal"} :
        /\ at[b] = "depositing" /\ at' = [at EXCEPT ![b] = to]
        /\ UNCHANGED <<need, chain, spent>>
        /\ to = "confirming deposit" => CanDeposit(need[b])
  BY DEF SendDeposit, Go
<1>2. /\ need[b] \in 1..EscrowTarget /\ open
      /\ escrow + spent + need[b] >= EscrowRent + EscrowTarget
  BY <1>1 DEF Live, StepInv, AfterOpening
<1>3. to = "confirming deposit" => wallet >= Fee
  <2>1. need[b] \in Nat
    BY NeedKept, Zenon
  <2> QED
    BY <1>1, <2>1, SimulationPaysFee, Zenon DEF Live
<1>4. to \in BotSteps /\ to \notin BeforeOpening /\ to # "funded"
      /\ (to \in Confirming => to = "confirming deposit")
      /\ at[b] # "fatal" /\ at[b] # "starting"
  BY <1>1 DEF BotSteps, Confirming, BeforeOpening
<1>5. need[b] \in Nat /\ need' = [need EXCEPT ![b] = need[b]]
  BY <1>1, NeedKept, Zenon
<1> QED
  BY <1>1, <1>2, <1>3, <1>4, <1>5, MoveOn, Zenon

\* A bot whose transaction is on its way either has funded company or a
\* wallet that can pay for it all.
LEMMA MeansWhileConfirming ==
    ASSUME Means, NEW b \in Bots, at[b] \in Confirming
    PROVE  Funded \/ CanPayForAll
BY DEF Means, CanPayForNothing, YetToAirdrop, Confirming

\* What a landing that ends the attempt to open the escrow leaves in the wallet.
LEMMA OpeningLeavesMeans ==
    ASSUME ChainInv, CanPayForAll, InitOnChain, NEW k \in Nat, NEW m \in Nat,
           k = Cardinality(MayOpen), m = Cardinality(MayOpen'), k = m + 1,
           UNCHANGED spent
    PROVE  /\ CanPayForAll' /\ ChainInv'
           /\ open' = TRUE /\ escrow' \in {escrow, escrow + EscrowRent}
<1> USE FeesAreNaturals
<1>1. /\ FeesOf(m) \in Nat /\ FeesOf(m) >= Fee /\ FeesOf(k) = FeesOf(m) + Fee
      /\ FeesOf(k) \in Nat
  BY FeesGrow
<1>2. /\ wallet >= (IF open THEN 0 ELSE EscrowRent) + EscrowTarget + FeesOf(k)
      /\ CanPayForAll' <=> wallet' >= (IF open' THEN 0 ELSE EscrowRent) + EscrowTarget + FeesOf(m)
  BY DEF CanPayForAll, FeesOf
<1>m. 0 + EscrowTarget + FeesOf(m) = EscrowTarget + FeesOf(m)
  BY <1>1
<1>3. CASE open
  <2>1. wallet' = wallet - Fee /\ open' = open /\ escrow' = escrow
    BY <1>3 DEF InitOnChain, CanInit, FailsOnChain
  <2>2. wallet - Fee >= EscrowTarget + FeesOf(m) /\ wallet - Fee \in Nat
    BY <1>1, <1>2, <1>3 DEF ChainInv
  <2>3. CanPayForAll'
    <3>1. (IF open' THEN 0 ELSE EscrowRent) = 0 /\ wallet' = wallet - Fee
      BY <2>1, <1>3
    <3> QED
      BY <1>2, <1>m, <2>2, <3>1, Zenon
  <2> QED
    BY <1>3, <2>1, <2>2, <2>3 DEF ChainInv
<1>4. CASE ~open
  <2>1. wallet >= EscrowRent + EscrowTarget + FeesOf(k)
    BY <1>2, <1>4
  <2>2. CanInit
    BY <1>1, <2>1, <1>4 DEF ChainInv, CanInit
  <2>3. /\ wallet' = wallet - EscrowRent - Fee /\ open' = TRUE
        /\ escrow' = escrow + EscrowRent
    BY <2>2 DEF InitOnChain
  <2>4. wallet - EscrowRent - Fee >= EscrowTarget + FeesOf(m) /\ wallet - EscrowRent - Fee \in Nat
    BY <1>1, <2>1 DEF ChainInv
  <2>5. CanPayForAll'
    <3>1. (IF open' THEN 0 ELSE EscrowRent) = 0 /\ wallet' = wallet - EscrowRent - Fee
      BY <2>3
    <3> QED
      BY <1>2, <1>m, <2>4, <3>1, Zenon
  <2> QED
    BY <2>3, <2>4, <2>5, <1>4 DEF ChainInv
<1> QED
  BY <1>3, <1>4 DEF ChainInv

LEMMA OpeningKeepsEscrow ==
    ASSUME ChainInv, NEW left \in {escrow, escrow + EscrowRent}
    PROVE  left \in Nat /\ left + spent >= escrow + spent
BY FeesAreNaturals DEF ChainInv

\* The escrow of somebody who is funded is open, and another attempt fails.
LEMMA OpeningFails ==
    ASSUME ChainInv, Funded, InitOnChain, UNCHANGED spent
    PROVE  open' = TRUE /\ escrow' = escrow /\ ChainInv'
BY FeesAreNaturals DEF ChainInv, Funded, InitOnChain, CanInit, FailsOnChain

\* An attempt to open the escrow has landed.
LEMMA InitLandsKeeps ==
    ASSUME Live, NEW b \in Bots, at[b] = "confirming open",
           NEW to \in {"reading", "fatal"}, at' = [at EXCEPT ![b] = to],
           InitOnChain, UNCHANGED <<need, spent>>
    PROVE  Live'
<1> USE FeesAreNaturals
<1>1. StepInv /\ ChainInv /\ at \in [Bots -> BotSteps] /\ to \in BotSteps
      /\ at[b] \in BeforeOpening /\ to \notin BeforeOpening
  BY DEF Live, StepInv, BotSteps, BeforeOpening
<1>2. Funded \/ CanPayForAll
  BY MeansWhileConfirming DEF Live, Confirming
<1>3. /\ Cardinality(MayOpen) \in Nat /\ Cardinality(MayOpen') \in Nat
      /\ Cardinality(MayOpen) = Cardinality(MayOpen') + 1
  BY <1>1, MayOpenFalls
<1>4. /\ open' = TRUE /\ ChainInv' /\ escrow' \in {escrow, escrow + EscrowRent}
      /\ CanPayForAll => CanPayForAll'
  <2>1. CASE CanPayForAll
    BY <1>3, <1>1, <2>1, OpeningLeavesMeans, Zenon
  <2>2. CASE Funded /\ ~CanPayForAll
    BY <1>1, <2>2, OpeningFails
  <2> QED
    BY <1>2, <2>1, <2>2, Zenon
<1>5. PICK left \in Nat : escrow' = left /\ left + spent >= escrow + spent
  BY <1>4, <1>1, OpeningKeepsEscrow, Zenon
<1>6. spent \in Nat /\ spent' = spent
  BY <1>1, EscrowIsNat
<1>7. need[b] \in Nat /\ need' = [need EXCEPT ![b] = need[b]]
  BY NeedKept, Zenon
<1>8. to \notin {"depositing", "confirming deposit"} /\ to # "funded"
  OBVIOUS
<1>9. StepInv' /\ (Funded => Funded')
  BY <1>1, <1>4, <1>5, <1>6, <1>7, <1>8, StepsKept, Zenon
<1> QED
  BY <1>2, <1>4, <1>9, Zenon DEF Live, Means

LEMMA OpenEscrowHasRent ==
    ChainInv /\ open => /\ escrow >= EscrowRent /\ EscrowRent \in Nat
                       /\ escrow \in Nat /\ open \in BOOLEAN
                       /\ \A left \in Nat : left >= escrow => left >= EscrowRent
BY FeesAreNaturals DEF ChainInv

\* A deposit has landed, failed or not.
LEMMA DepositFunds ==
    ASSUME ChainInv, Funded \/ CanPayForAll, open, NEW amount \in 1..EscrowTarget,
           escrow + spent + amount >= EscrowRent + EscrowTarget,
           Cardinality(MayOpen) \in Nat, DepositOnChain(amount)
    PROVE  \E left \in Nat :
            /\ escrow' = left /\ left + spent >= escrow + spent
            /\ left + spent >= EscrowRent + EscrowTarget
            /\ open' = open /\ wallet' \in Nat /\ left >= escrow
<1> USE FeesAreNaturals
<1>1. CASE CanDeposit(amount)
  <2>1. escrow' = escrow + amount /\ wallet' = wallet - amount - Fee /\ open' = open
    BY <1>1 DEF DepositOnChain
  <2>2. escrow + amount \in Nat /\ wallet - amount - Fee \in Nat
        /\ escrow + amount + spent >= escrow + spent
        /\ escrow + amount + spent >= EscrowRent + EscrowTarget
        /\ escrow + amount >= escrow
    BY <1>1 DEF CanDeposit, ChainInv
  <2> QED
    BY <2>1, <2>2, Zenon
<1>2. CASE ~CanDeposit(amount)
  <2>1. escrow' = escrow /\ wallet' = wallet - Fee /\ open' = open /\ wallet >= Fee
    BY <1>2 DEF DepositOnChain, FailsOnChain
  <2>2. FeesOf(Cardinality(MayOpen)) \in Nat /\ FeesOf(Cardinality(MayOpen)) >= Fee
    BY FeesGrow
  <2>3. wallet < amount + Fee
    BY <1>2 DEF CanDeposit, ChainInv
  <2>4. ~CanPayForAll
    BY <2>2, <2>3 DEF CanPayForAll, FeesOf, ChainInv
  <2>5. escrow + spent >= EscrowRent + EscrowTarget
    BY <2>4 DEF Funded
  <2>6. escrow \in Nat /\ wallet - Fee \in Nat
        /\ escrow + spent >= escrow + spent /\ escrow >= escrow
    BY <2>1 DEF ChainInv
  <2> QED
    BY <2>1, <2>5, <2>6, Zenon
<1> QED
  BY <1>1, <1>2

LEMMA DepositLandsKeeps ==
    ASSUME Live, NEW b \in Bots, at[b] = "confirming deposit",
           NEW to \in {"funded", "fatal"}, at' = [at EXCEPT ![b] = to],
           DepositOnChain(need[b]), UNCHANGED <<need, spent>>
    PROVE  Live'
<1>1. StepInv /\ ChainInv /\ to \in BotSteps /\ to \notin AfterOpening \ {"funded"}
      /\ at \in [Bots -> BotSteps]
  BY DEF Live, StepInv, BotSteps, AfterOpening
<1>2. Funded \/ CanPayForAll
  BY MeansWhileConfirming DEF Live, Confirming
<1>3. /\ need[b] \in 1..EscrowTarget /\ open
      /\ escrow + spent + need[b] >= EscrowRent + EscrowTarget
  BY <1>1 DEF StepInv, AfterOpening
<1>4. Cardinality(MayOpen) \in Nat
  BY <1>1, MayOpenFalls
<1>5. PICK left \in Nat :
        /\ escrow' = left /\ left + spent >= escrow + spent
        /\ left + spent >= EscrowRent + EscrowTarget
        /\ open' = open /\ wallet' \in Nat /\ left >= escrow
  BY <1>1, <1>2, <1>3, <1>4, DepositFunds, Zenon
<1>6. spent \in Nat /\ spent' = spent
  BY <1>1, EscrowIsNat
<1>7. need[b] \in Nat /\ need' = [need EXCEPT ![b] = need[b]]
  BY NeedKept, Zenon
<1>8. to \notin {"depositing", "confirming deposit"}
  OBVIOUS
<1>9. StepInv'
  BY <1>1, <1>3, <1>5, <1>6, <1>7, <1>8, StepsKept, Zenon
<1>10. Funded'
  BY <1>3, <1>5, <1>6, Zenon DEF Funded
<1>11. ChainInv'
  <2>1. escrow >= EscrowRent /\ EscrowRent \in Nat /\ escrow \in Nat /\ open \in BOOLEAN
    BY <1>1, <1>3, OpenEscrowHasRent, Zenon
  <2>3. left >= EscrowRent
    BY <1>1, <1>3, <1>5, OpenEscrowHasRent, Zenon
  <2> QED
    BY <1>3, <1>5, <1>6, <2>1, <2>3, Zenon DEF ChainInv
<1> QED
  BY <1>9, <1>10, <1>11 DEF Live, Means

LEMMA NotConfirmedKeeps ==
    ASSUME Live, NEW b \in Bots, NotConfirmed(b)
    PROVE  Live'
<1>1. at[b] \in Confirming /\ at' = [at EXCEPT ![b] = "fatal"] /\ UNCHANGED <<need, spent>>
  BY DEF NotConfirmed, Go, Confirming
<1>2. CASE UNCHANGED chain
  <2>1. "fatal" \in BotSteps /\ "fatal" \notin Confirming /\ "fatal" \notin AfterOpening
        /\ "fatal" \notin BeforeOpening
        /\ "fatal" \notin {"depositing", "confirming deposit"} /\ "fatal" # "funded"
        /\ at[b] # "fatal" /\ at[b] # "starting"
    BY <1>1 DEF BotSteps, Confirming, AfterOpening, BeforeOpening
  <2>2. need[b] \in Nat /\ need' = [need EXCEPT ![b] = need[b]]
    BY <1>1, NeedKept, Zenon
  <2>3. UNCHANGED <<chain, spent>>
    BY <1>1, <1>2
  <2> QED
    BY <1>1, <2>1, <2>2, <2>3, MoveOn, Zenon
<1>3. CASE at[b] = "confirming open" /\ InitOnChain
  BY <1>1, <1>3, InitLandsKeeps
<1>4. CASE at[b] = "confirming deposit" /\ DepositOnChain(need[b])
  BY <1>1, <1>4, DepositLandsKeeps
<1> QED
  BY <1>2, <1>3, <1>4 DEF NotConfirmed, Go

LEMMA DebitKeeps ==
    ASSUME Live, SettlementDebits
    PROVE  Live'
<1> USE FeesAreNaturals
<1>1. PICK d \in Debits : /\ open /\ escrow - d >= EscrowRent
                          /\ escrow' = escrow - d /\ spent' = spent + d
  BY DEF SettlementDebits
<1>2. ChainInv /\ StepInv /\ UNCHANGED <<at, need, wallet, open>>
  BY DEF Live, SettlementDebits
<1>3. escrow - d \in Nat /\ spent + d \in Nat /\ (escrow - d) + (spent + d) = escrow + spent
      /\ escrow - d >= EscrowRent
  BY <1>1, <1>2 DEF ChainInv
<1>4. ChainInv'
  BY <1>1, <1>2, <1>3 DEF ChainInv
<1>5. escrow' + spent' = escrow + spent
  BY <1>1, <1>3, Zenon
<1>6. Funded' <=> Funded
  BY <1>2, <1>5, Zenon DEF Funded
<1>7. StepInv'
  <2>1. \A c \in Bots : escrow' + spent' + need'[c] = escrow + spent + need[c]
    BY <1>2, <1>5, Zenon
  <2> QED
    BY <1>2, <1>6, <2>1, Zenon DEF StepInv
<1>8. CanPayForAll' = CanPayForAll /\ CanPayForNothing' = CanPayForNothing
      /\ YetToAirdrop' = YetToAirdrop
  BY <1>2 DEF CanPayForAll, CanPayForNothing, YetToAirdrop, MayOpen
<1> QED
  BY <1>4, <1>6, <1>7, <1>8 DEF Live, Means

LEMMA FundingInit ==
    ASSUME AmpleFunds, BotInit
    PROVE  Live
<1> USE FeesAreNaturals
<1>1. /\ at = [b \in Bots |-> "starting"] /\ need = [b \in Bots |-> 0] /\ spent = 0
      /\ wallet \in Nat /\ wallet \in Wallets /\ open \in BOOLEAN
      /\ escrow \in IF open THEN {EscrowRent, EscrowRent + EscrowTarget} ELSE {0}
  BY DEF BotInit
<1>2. ChainInv
  BY <1>1 DEF ChainInv
<1>3. StepInv
  BY <1>1 DEF StepInv, BotSteps, AfterOpening
<1>4. MayOpen = Bots
  BY <1>1 DEF MayOpen
<1>5. EnoughToStart = EscrowRent + EscrowTarget + FeesOf(Cardinality(Bots))
      /\ FeesOf(Cardinality(Bots)) \in Nat
  BY FeesGrow, BotAssumption DEF EnoughToStart, FeesOf
<1>6. CASE wallet >= EnoughToStart
  <2>1. CanPayForAll
    BY <1>1, <1>4, <1>5, <1>6 DEF CanPayForAll, FeesOf
  <2> QED
    BY <1>2, <1>3, <2>1 DEF Live, Means
<1>7. CASE wallet < Fee
  <2>1. CanPayForNothing
    BY <1>1, <1>7 DEF CanPayForNothing, Confirming
  <2> QED
    BY <1>2, <1>3, <2>1 DEF Live, Means
<1>8. CASE SeedBots = {} /\ AirdropMin >= EnoughToStart
  <2>1. YetToAirdrop
    BY <1>1, <1>8 DEF YetToAirdrop
  <2> QED
    BY <1>2, <1>3, <2>1 DEF Live, Means
<1> QED
  BY <1>1, <1>6, <1>7, <1>8 DEF AmpleFunds

\* After this bot has connected nothing is left to happen to the chain.
LEMMA DroppedStays ==
    ASSUME at = [b \in Bots |-> "dropped"], escrow = 0, open, [BotNext]_botVars
    PROVE  UNCHANGED funding
<1> USE FeesAreNaturals
<1>1. \A b \in Bots : at[b] = "dropped"
  OBVIOUS
<1>2. ASSUME NEW b \in Bots,
             \/ StartSeedBot(b) \/ AirdropIfLow(b) \/ CheckEscrow(b) \/ SendInit(b)
             \/ InitLands(b) \/ ReadBalance(b) \/ SendDeposit(b) \/ DepositLands(b)
             \/ NotConfirmed(b)
      PROVE  FALSE
  BY <1>1, <1>2, Zenon DEF StartSeedBot, AirdropIfLow, CheckEscrow, SendInit, InitLands,
     ReadBalance, SendDeposit, DepositLands, NotConfirmed, Go
<1>3. ~SettlementDebits
  <2>1. ASSUME NEW d \in Debits, escrow - d >= EscrowRent PROVE FALSE
    BY <2>1
  <2> QED
    BY <2>1 DEF SettlementDebits
<1>4. ~StartClient
  BY <1>1 DEF StartClient
<1> QED
  BY <1>2, <1>3, <1>4 DEF BotNext, RunClient, botVars

LEMMA FundingStep ==
    ASSUME AmpleFunds, FundingInv, [BotNext]_botVars
    PROVE  FundingInv'
<1>1. CASE at = [b \in Bots |-> "dropped"] /\ escrow = 0 /\ open
  <2>1. UNCHANGED funding
    BY <1>1, DroppedStays
  <2> QED
    BY <1>1, <2>1, Zenon DEF FundingInv, funding, chain
<1>2. CASE Live /\ UNCHANGED funding
  <2>1. UNCHANGED <<at, need, wallet, open, escrow, spent>>
    BY <1>2 DEF funding, chain
  <2>2. Live'
    BY <1>2, <2>1 DEF Live, ChainInv, StepInv, Means, Funded, CanPayForAll,
       CanPayForNothing, YetToAirdrop, MayOpen
  <2> QED
    BY <2>2 DEF FundingInv
<1>3. CASE Live /\ StartClient
  BY <1>3 DEF StartClient, FundingInv
<1>4. CASE Live /\ SettlementDebits
  BY <1>4, DebitKeeps DEF FundingInv
<1>5. ASSUME Live, NEW b \in Bots,
             \/ StartSeedBot(b) \/ AirdropIfLow(b) \/ CheckEscrow(b) \/ SendInit(b)
             \/ InitLands(b) \/ ReadBalance(b) \/ SendDeposit(b) \/ DepositLands(b)
             \/ NotConfirmed(b)
      PROVE  Live'
  <2>1. CASE InitLands(b)
    <3>1. at[b] = "confirming open" /\ at' = [at EXCEPT ![b] = "reading"]
          /\ InitOnChain /\ UNCHANGED <<need, spent>>
      BY <2>1 DEF InitLands, Go
    <3> QED
      BY <3>1, <1>5, InitLandsKeeps
  <2>2. CASE DepositLands(b)
    <3>1. at[b] = "confirming deposit" /\ at' = [at EXCEPT ![b] = "funded"]
          /\ DepositOnChain(need[b]) /\ UNCHANGED <<need, spent>>
      BY <2>2 DEF DepositLands, Go
    <3> QED
      BY <3>1, <1>5, DepositLandsKeeps
  <2> QED
    BY <1>5, <2>1, <2>2, StartKeeps, CheckKeeps, ReadKeeps, SendDepositKeeps,
       NotConfirmedKeeps, Zenon
<1>6. UNCHANGED botVars \/ RunClient => UNCHANGED funding
  BY DEF botVars, RunClient
<1> QED
  BY <1>1, <1>2, <1>3, <1>4, <1>5, <1>6 DEF FundingInv, BotNext

\* For any number of processes with one keypair, any wallet that can pay for
\* all of it or for nothing, and settlements of earlier bids at any time: the
\* bot that connects has a funded escrow, although neither it nor the others
\* notice a transaction that failed.
THEOREM ConnectsFundedAlways ==
    ASSUME AmpleFunds
    PROVE  BotSpec => ConnectsFunded
<1>1. BotInit => FundingInv
  BY FundingInit DEF FundingInv
<1>2. FundingInv /\ [BotNext]_botVars => FundingInv'
  BY FundingStep
<1>3. FundingInv /\ [BotNext]_botVars
      => [StartClient => open /\ escrow + spent >= EscrowRent + EscrowTarget]_botVars
  <2> SUFFICES ASSUME FundingInv, StartClient
               PROVE  open /\ escrow + spent >= EscrowRent + EscrowTarget
    BY DEF BotNext
  <2>1. at[ThisBot] = "funded" /\ ThisBot \in Bots
    BY FeesAreNaturals DEF StartClient
  <2>2. Live
    BY <2>1 DEF FundingInv
  <2> QED
    BY <2>1, <2>2 DEF Live, StepInv, Funded
<1> QED
  BY <1>1, <1>2, <1>3, PTL DEF BotSpec, ConnectsFunded

\* The client does nothing before its bot connects.
LaunchInv ==
    /\ at \in [Bots -> BotSteps \cup {"dropped"}]
    /\ at[ThisBot] # "dropped" => alive /\ connects = 0

\* What a bot does before it connects.
BotAction(b) ==
    \/ StartSeedBot(b) \/ AirdropIfLow(b) \/ CheckEscrow(b) \/ SendInit(b)
    \/ InitLands(b) \/ ReadBalance(b) \/ SendDeposit(b) \/ DepositLands(b)
    \/ NotConfirmed(b)

LEMMA BotActionMoves ==
    ASSUME NEW b \in Bots, BotAction(b)
    PROVE  /\ UNCHANGED vars
           /\ \E from, to \in BotSteps : Go(b, from, to)
<1>1. {"starting", "checking", "opening", "confirming open", "reading", "depositing",
       "confirming deposit", "funded", "fatal"} \subseteq BotSteps
  BY DEF BotSteps
<1>2. UNCHANGED vars
  BY Zenon DEF BotAction, StartSeedBot, AirdropIfLow, CheckEscrow, SendInit, InitLands,
     ReadBalance, SendDeposit, DepositLands, NotConfirmed
<1>3. CASE StartSeedBot(b) \/ AirdropIfLow(b)
  BY <1>1, <1>3 DEF StartSeedBot, AirdropIfLow
<1>4. CASE CheckEscrow(b) \/ SendInit(b) \/ InitLands(b)
  BY <1>1, <1>4 DEF CheckEscrow, SendInit, InitLands
<1>5. CASE ReadBalance(b) \/ SendDeposit(b) \/ DepositLands(b) \/ NotConfirmed(b)
  BY <1>1, <1>5 DEF ReadBalance, SendDeposit, DepositLands, NotConfirmed
<1> QED
  BY <1>2, <1>3, <1>4, <1>5 DEF BotAction

\* A bot's behaviours are behaviours of the SDK's client, so what holds of the
\* client holds of the bot.
THEOREM BotRunsTheClient == BotSpec => Spec
<1>1. BotInit => Init /\ LaunchInv
  BY DEF BotInit, Init, LaunchInv, BotSteps
<1>2. LaunchInv /\ [BotNext]_botVars => [Next]_vars /\ LaunchInv'
  <2> SUFFICES ASSUME LaunchInv, [BotNext]_botVars PROVE [Next]_vars /\ LaunchInv'
    OBVIOUS
  <2>0. ThisBot \in Bots
    BY FeesAreNaturals
  <2>1. ASSUME NEW b \in Bots, BotAction(b) PROVE UNCHANGED vars /\ LaunchInv'
    <3>1. UNCHANGED vars
      BY <2>1, BotActionMoves
    <3>2. PICK from, to \in BotSteps : at[b] = from /\ at' = [at EXCEPT ![b] = to]
      BY <2>1, BotActionMoves DEF Go
    <3>3. UNCHANGED <<alive, connects>>
      BY <3>1 DEF vars, connection
    <3>4. "dropped" \notin BotSteps
      BY DEF BotSteps
    <3> QED
      BY <2>0, <3>1, <3>2, <3>3, <3>4 DEF LaunchInv
  <2>2. CASE SettlementDebits \/ UNCHANGED botVars
    <3>1. UNCHANGED <<vars, at>>
      BY <2>2 DEF SettlementDebits, botVars, funding
    <3> QED
      BY <3>1 DEF LaunchInv, vars, connection
  <2>3. CASE StartClient
    <3>1. at[ThisBot] # "dropped" /\ Connect /\ at' = [b \in Bots |-> "dropped"]
      BY <2>3 DEF StartClient
    <3> QED
      BY <2>0, <3>1 DEF LaunchInv, Next
  <2>4. CASE RunClient
    <3>1. Next /\ connects > 0 /\ at' = at
      BY <2>4 DEF RunClient, funding
    <3>2. at[ThisBot] = "dropped"
      BY <3>1 DEF LaunchInv
    <3> QED
      BY <3>1, <3>2 DEF LaunchInv
  <2> QED
    BY <2>1, <2>2, <2>3, <2>4 DEF BotNext, BotAction
<1> QED
  BY <1>1, <1>2, PTL DEF BotSpec, Spec
=============================================================================
