----------------------------- MODULE SdkProofs -----------------------------
(***************************************************************************)
(* Two parts of the client SDKs.  The pool of the JavaScript client, for   *)
(* any number of connections, messages and subscriptions: a message        *)
(* reaches the user once, a connection has one socket, and an open one has *)
(* the subscriptions.  The HTTP clients of the Rust SDK, for any number of *)
(* urls, versions and crashes: the types, for any number of tasks that     *)
(* share the cache file, and that the cache file of one task is whole.     *)
(***************************************************************************)
EXTENDS WebSocketPool, ResilientHttp, FiniteSetTheorems, FunctionTheorems, TLAPS

USE ZenonT(30)

-----------------------------------------------------------------------------
(* Deduplication *)

Count(m) == delivered[m] + reported[m]

Awaited(m) == \E c \in Conns : <<c, m>> \in hashing

\* Every copy of the message has been received and its key has been read.
Settled(m) == ~Awaited(m) /\ \A c \in Conns : m \notin feed[c]

MessageOK(m) ==
    /\ Count(m) <= 1
    /\ Count(m) = 1 => m \in cache \/ Settled(m)
    /\ m \in cache /\ ~isShutdown => Count(m) = 1
    /\ ~isShutdown /\ ~Awaited(m) /\ (\E c \in Conns : m \notin feed[c]) => Count(m) = 1

MessageShape ==
    /\ delivered \in [Messages -> Nat] /\ reported \in [Messages -> Nat]
    /\ feed \in [Conns -> SUBSET Messages]

MessageInv == MessageShape /\ \A m \in Messages : MessageOK(m)

\* Nothing has arrived at first.
LEMMA InitMessages == Init => MessageInv
  BY SMT DEF Init, MessageInv, MessageShape, MessageOK, Count, Awaited, Settled

\* A step that is not about messages; it may shut the pool down.
LEMMA OtherMessages ==
    ASSUME MessageInv, UNCHANGED msgvars, isShutdown => isShutdown'
    PROVE  MessageInv'
  BY DEF MessageInv, MessageShape, MessageOK, Count, Awaited, Settled, msgvars

\* dedupeHandler on a copy that was still to be received or awaited.
LEMMA DedupeCounts ==
    ASSUME MessageInv, NEW m \in Messages, ~Settled(m), Dedupe(m)
    PROVE  /\ delivered' \in [Messages -> Nat] /\ reported' \in [Messages -> Nat]
           /\ m \in cache' /\ cache \subseteq cache'
           /\ delivered'[m] + reported'[m] <= 1
           /\ ~isShutdown => delivered'[m] + reported'[m] = 1
           /\ \A n \in Messages : n # m => /\ delivered'[n] = delivered[n]
                                           /\ reported'[n] = reported[n]
                                           /\ n \in cache' <=> n \in cache
<1> USE DEF MessageInv
<1>0. /\ delivered \in [Messages -> Nat] /\ reported \in [Messages -> Nat]
      /\ delivered[m] \in Nat /\ reported[m] \in Nat
  BY DEF MessageShape
<1>1. MessageOK(m)
  OBVIOUS
<1>2. CASE m \in cache
  BY <1>0, <1>1, <1>2 DEF Dedupe, MessageOK, Count
<1>3. CASE m \notin cache
  <2>1. delivered[m] = 0 /\ reported[m] = 0
    BY <1>0, <1>1, <1>3, SMT DEF MessageOK, Count
  <2>2. CASE IsErrorMessage(m)
    BY <1>0, <1>3, <2>1, <2>2, SMT DEF Dedupe, emitPoolError
  <2>3. CASE ~IsErrorMessage(m)
    BY <1>0, <1>3, <2>1, <2>3, SMT DEF Dedupe
  <2> QED
    BY <2>2, <2>3
<1> QED
  BY <1>2, <1>3

\* A message is received.
LEMMA MessageKeeps ==
    ASSUME MessageInv, NEW c \in Conns, NEW k \in Sockets, NEW m \in Messages, Message(c, k, m)
    PROVE  MessageInv'
<1>1. /\ m \in feed[c] /\ feed' = [feed EXCEPT ![c] = @ \ {m}] /\ feed \in [Conns -> SUBSET Messages]
      /\ isShutdown' = isShutdown
  BY DEF Message, MessageInv, MessageShape
<1>2. /\ feed' \in [Conns -> SUBSET Messages]
      /\ \A n \in Messages, d \in Conns : n # m => (n \in feed'[d] <=> n \in feed[d])
      /\ \A d \in Conns : feed'[d] \subseteq feed[d]
      /\ m \notin feed'[c]
  BY <1>1
<1>3. ~Settled(m)
  BY <1>1 DEF Settled
<1>4. CASE m \in Blobs
  <2>1. hashing' = hashing \cup {<<c, m>>} /\ UNCHANGED <<cache, delivered, reported>>
    BY <1>4 DEF Message
  <2>2. ASSUME NEW n \in Messages PROVE MessageOK(n)'
    <3>1. MessageOK(n)
      BY DEF MessageInv
    <3>2. CASE n = m
      <4>1. Awaited(m)'
        BY <2>1 DEF Awaited
      <4>2. Count(m) = 1 => m \in cache
        BY <1>3, <3>1, <3>2 DEF MessageOK
      <4> QED
        BY <1>1, <2>1, <3>1, <3>2, <4>1, <4>2 DEF MessageOK, Count
    <3>3. CASE n # m
      <4>1. Awaited(n)' <=> Awaited(n)
        BY <2>1, <3>3 DEF Awaited
      <4> QED
        BY <1>1, <1>2, <2>1, <3>1, <3>3, <4>1 DEF MessageOK, Count, Settled
    <3> QED
      BY <3>2, <3>3
  <2>3. MessageShape'
    BY <1>2, <2>1 DEF MessageInv, MessageShape
  <2> QED
    BY <2>2, <2>3 DEF MessageInv
<1>5. CASE m \notin Blobs
  <2>1. Dedupe(m) /\ hashing' = hashing
    BY <1>5 DEF Message
  <2>2. /\ delivered' \in [Messages -> Nat] /\ reported' \in [Messages -> Nat]
        /\ m \in cache' /\ cache \subseteq cache'
        /\ delivered'[m] + reported'[m] <= 1
        /\ ~isShutdown => delivered'[m] + reported'[m] = 1
        /\ \A n \in Messages : n # m => /\ delivered'[n] = delivered[n]
                                        /\ reported'[n] = reported[n]
                                        /\ n \in cache' <=> n \in cache
    BY <1>3, <2>1, DedupeCounts
  <2>3. ASSUME NEW n \in Messages PROVE MessageOK(n)'
    <3>1. MessageOK(n) /\ (Awaited(n)' <=> Awaited(n))
      BY <2>1 DEF MessageInv, Awaited
    <3>2. CASE n = m
      BY <1>1, <2>2, <3>2 DEF MessageOK, Count
    <3>3. CASE n # m
      BY <1>1, <1>2, <2>2, <3>1, <3>3 DEF MessageOK, Count, Settled
    <3> QED
      BY <3>2, <3>3
  <2>4. MessageShape'
    BY <1>2, <2>2 DEF MessageShape
  <2> QED
    BY <2>3, <2>4 DEF MessageInv
<1> QED
  BY <1>4, <1>5

\* The key of a binary message has been read.
LEMMA KeyReadyKeeps ==
    ASSUME MessageInv, NEW c \in Conns, NEW m \in Messages, KeyReady(c, m)
    PROVE  MessageInv'
<1>1. /\ <<c, m>> \in hashing /\ hashing' = hashing \ {<<c, m>>}
      /\ UNCHANGED <<isShutdown, feed>> /\ Dedupe(m)
  BY DEF KeyReady
<1>2. ~Settled(m)
  BY <1>1 DEF Settled, Awaited
<1>3. /\ delivered' \in [Messages -> Nat] /\ reported' \in [Messages -> Nat]
      /\ m \in cache' /\ cache \subseteq cache'
      /\ delivered'[m] + reported'[m] <= 1
      /\ ~isShutdown => delivered'[m] + reported'[m] = 1
      /\ \A n \in Messages : n # m => /\ delivered'[n] = delivered[n]
                                      /\ reported'[n] = reported[n]
                                      /\ n \in cache' <=> n \in cache
  BY <1>1, <1>2, DedupeCounts
<1>4. ASSUME NEW n \in Messages PROVE MessageOK(n)'
  <2>1. MessageOK(n)
    BY DEF MessageInv
  <2>2. CASE n = m
    BY <1>1, <1>3, <2>2 DEF MessageOK, Count
  <2>3. CASE n # m
    <3>1. Awaited(n)' <=> Awaited(n)
      BY <1>1, <2>3 DEF Awaited
    <3> QED
      BY <1>1, <1>3, <2>1, <2>3, <3>1 DEF MessageOK, Count, Settled
  <2> QED
    BY <2>2, <2>3
<1>5. MessageShape'
  BY <1>1, <1>3 DEF MessageInv, MessageShape
<1> QED
  BY <1>4, <1>5 DEF MessageInv

\* The cache forgets a key only when every copy is settled.
LEMMA ExpireKeeps ==
    ASSUME MessageInv, NEW m \in Messages, Expire(m)
    PROVE  MessageInv'
<1>1. /\ Settled(m) /\ cache' = cache \ {m}
      /\ UNCHANGED <<isShutdown, feed, hashing, delivered, reported>>
  BY DEF Expire, Settled, Awaited
<1>2. ASSUME NEW n \in Messages PROVE MessageOK(n)'
  <2>1. MessageOK(n) /\ (Settled(n)' <=> Settled(n)) /\ (Awaited(n)' <=> Awaited(n))
    BY <1>1 DEF MessageInv, Settled, Awaited
  <2> QED
    BY <1>1, <2>1 DEF MessageOK, Count
<1> QED
  BY <1>1, <1>2 DEF MessageInv, MessageShape

\* Every step of the pool keeps the invariant on messages.
LEMMA NextMessages == MessageInv /\ [Next]_vars => MessageInv'
<1> SUFFICES ASSUME MessageInv, [Next]_vars PROVE MessageInv'
  OBVIOUS
<1>1. CASE Abort \/ Poll \/ CreateReturns \/ UserShutsDown \/ CheckConnectionStates
  BY <1>1, OtherMessages, SMT
     DEF Abort, Poll, CreateReturns, UserShutsDown, CheckConnectionStates, Shutdown, Running
<1>2. ASSUME NEW c \in Conns,
             HeartbeatTimeout(c) \/ RetryTimeout(c) \/ \E k \in Sockets : Open(c, k) \/ Close(c, k)
      PROVE  MessageInv'
  <2>1. CASE HeartbeatTimeout(c) \/ RetryTimeout(c)
    BY <2>1, OtherMessages, SMT DEF HeartbeatTimeout, RetryTimeout
  <2>2. ASSUME NEW k \in Sockets, Open(c, k) PROVE UNCHANGED <<msgvars, isShutdown>>
    BY <2>2 DEF Open
  <2>3. ASSUME NEW k \in Sockets, Close(c, k) PROVE UNCHANGED <<msgvars, isShutdown>>
    BY <2>3 DEF Close
  <2> QED
    BY <1>2, <2>1, <2>2, <2>3, OtherMessages
<1>3. ASSUME NEW c \in Conns, NEW k \in Sockets, NEW m \in Messages, Message(c, k, m)
      PROVE  MessageInv'
  BY <1>3, MessageKeeps
<1>4. ASSUME NEW c \in Conns, NEW m \in Blobs, KeyReady(c, m) PROVE MessageInv'
  <2>1. m \in Messages
    BY DEF Messages
  <2> QED
    BY <1>4, <2>1, KeyReadyKeeps
<1>5. ASSUME NEW m \in Messages, Expire(m) PROVE MessageInv'
  BY <1>5, ExpireKeeps
<1>6. ASSUME NEW id \in SubIds, addSubscription(id) \/ removeSubscription(id) PROVE MessageInv'
  BY <1>6, OtherMessages DEF addSubscription, removeSubscription
<1>7. CASE UNCHANGED vars
  BY <1>7, OtherMessages DEF vars
<1> QED
  BY <1>1, <1>2, <1>3, <1>4, <1>5, <1>6, <1>7 DEF Next

\* A message that arrives on any number of connections reaches the listeners or
\* the error handler exactly once, whatever the order in which the keys of its
\* copies are read (dedupeHandler of WebSocketPool).
THEOREM MessagesOnce == Spec => []EachMessageOnce
<1>1. MessageInv => EachMessageOnce
  BY DEF MessageInv, EachMessageOnce, MessageOK, Count, Awaited
<1> QED
  BY <1>1, InitMessages, NextMessages, PTL DEF Spec

-----------------------------------------------------------------------------
(* Sockets *)

Stages == {"connecting", "open", "closing", "closed"}

\* The sockets of a connection, the one it uses, whether the user closed it,
\* what the server has, and what it should have.
ConnOK(s, w, closed, srv, subs) ==
    /\ s \in [Sockets -> Stages] /\ w \in Sockets \cup {None}
    /\ DOMAIN srv = Sockets
    /\ \A i, j \in Sockets : s[i] # "closed" /\ s[j] # "closed" => i = j
    /\ w # None => s[w] # "closed" /\ ~closed
    /\ w = None /\ ~closed => \A i \in Sockets : s[i] = "closed"
    /\ closed => \A i \in Sockets : s[i] \in {"closing", "closed"}
    /\ \A i \in Sockets : s[i] \in {"connecting", "closed"} => srv[i] = {}
    /\ ~ListenerThrows /\ w # None /\ s[w] = "open" => srv[w] = subs

ConnInv(c) == ConnOK(socket[c], wsClient[c], wsUserClosed[c], server[c], subscriptions)

SocketShape ==
    /\ DOMAIN socket = Conns /\ DOMAIN wsClient = Conns
    /\ DOMAIN wsUserClosed = Conns /\ DOMAIN server = Conns

SocketInv ==
    /\ SocketShape
    /\ \A c \in Conns : (wsUserClosed[c] <=> isShutdown) /\ ConnInv(c)

\* What send does to the sockets' subscriptions.
SentOn(s, w, srv, ids) == IF w # None /\ s[w] = "open" THEN [srv EXCEPT ![w] = @ \cup ids] ELSE srv

\* The "open" event, whether or not the subscriptions are sent.
LEMMA ConnOpens ==
    ASSUME NEW s, NEW w, NEW closed, NEW srv, NEW subs, ConnOK(s, w, closed, srv, subs),
           NEW k \in Sockets, s[k] = "connecting",
           NEW t, t = [s EXCEPT ![k] = "open"],
           NEW to, to = srv \/ to = SentOn(t, w, srv, subs),
           ~closed /\ ~ListenerThrows => to = SentOn(t, w, srv, subs)
    PROVE  ConnOK(t, w, closed, to, subs)
<1>1. None \notin Sockets
  BY PoolAssumption DEF PoolAssumption
<1> QED
  BY <1>1, SMT DEF ConnOK, SentOn, Stages

\* The "close" event; handleReconnect lets go of the socket.
LEMMA ConnCloses ==
    ASSUME NEW s, NEW w, NEW closed, NEW srv, NEW subs, ConnOK(s, w, closed, srv, subs),
           NEW k \in Sockets, s[k] # "closed",
           NEW t, t = [s EXCEPT ![k] = "closed"],
           NEW to, to = [srv EXCEPT ![k] = {}],
           NEW x, x = IF closed THEN w ELSE None
    PROVE  ConnOK(t, x, closed, to, subs)
  BY PoolAssumption DEF ConnOK, Stages, PoolAssumption

\* The heartbeat timer terminates the socket.
LEMMA ConnTerminates ==
    ASSUME NEW s, NEW w, NEW closed, NEW srv, NEW subs, ConnOK(s, w, closed, srv, subs),
           w # None, NEW t, t = [s EXCEPT ![w] = IF @ = "closed" THEN @ ELSE "closing"]
    PROVE  ConnOK(t, w, closed, srv, subs)
  BY PoolAssumption DEF ConnOK, Stages, PoolAssumption

\* startWebSocket.
LEMMA ConnStarts ==
    ASSUME NEW s, NEW w, NEW closed, NEW srv, NEW subs, ConnOK(s, w, closed, srv, subs),
           w = None, ~closed, NEW k \in Sockets, NEW t, t = [s EXCEPT ![k] = "connecting"]
    PROVE  ConnOK(t, k, closed, srv, subs)
  BY PoolAssumption DEF ConnOK, Stages, PoolAssumption

\* What closeWebSocket does to the sockets.
ClosingOf(s, w) == [k \in Sockets |-> IF k = w /\ s[k] # "closed" THEN "closing" ELSE s[k]]

\* shutdown.
LEMMA ConnShuts ==
    ASSUME NEW s, NEW w, NEW closed, NEW srv, NEW subs, ConnOK(s, w, closed, srv, subs),
           NEW shut, shut
    PROVE  ConnOK(ClosingOf(s, w), None, shut, srv, {})
  BY PoolAssumption DEF ConnOK, ClosingOf, Stages, PoolAssumption

\* addSubscription.
LEMMA ConnSubscribes ==
    ASSUME NEW s, NEW w, NEW closed, NEW srv, NEW subs, ConnOK(s, w, closed, srv, subs),
           NEW id, NEW to, to = SentOn(s, w, srv, {id})
    PROVE  ConnOK(s, w, closed, to, subs \cup {id})
  BY PoolAssumption DEF ConnOK, SentOn, Stages, PoolAssumption

\* removeSubscription.
LEMMA ConnUnsubscribes ==
    ASSUME NEW s, NEW w, NEW closed, NEW srv, NEW subs, ConnOK(s, w, closed, srv, subs),
           NEW id, NEW to,
           to = [k \in Sockets |-> IF (w # None /\ s[w] = "open") /\ k = w THEN srv[k] \ {id} ELSE srv[k]]
    PROVE  ConnOK(s, w, closed, to, subs \ {id})
  BY PoolAssumption DEF ConnOK, Stages, PoolAssumption

\* A step that is not about sockets and subscriptions.
LEMMA OtherSockets ==
    ASSUME SocketInv,
           UNCHANGED <<socket, wsClient, wsUserClosed, server, subscriptions, isShutdown>>
    PROVE  SocketInv'
  BY DEF SocketInv, SocketShape, ConnInv

\* A step of one connection.
LEMMA OneConnection ==
    ASSUME SocketInv, NEW c \in Conns, SocketShape', ConnInv(c)',
           UNCHANGED <<wsUserClosed, subscriptions, isShutdown>>,
           \A d \in Conns \ {c} : /\ socket'[d] = socket[d] /\ wsClient'[d] = wsClient[d]
                                  /\ server'[d] = server[d]
    PROVE  SocketInv'
  BY DEF SocketInv, ConnInv

\* Every connection begins with its first socket.
LEMMA InitSockets == Init => SocketInv
<1> SUFFICES ASSUME Init PROVE SocketInv
  OBVIOUS
<1>1. 1 \in Sockets /\ None \notin Sockets
  BY PoolAssumption, SMT DEF PoolAssumption, Sockets
<1>2. ASSUME NEW c \in Conns PROVE ConnInv(c) /\ ~wsUserClosed[c]
  BY <1>1 DEF Init, ConnInv, ConnOK, Stages
<1> QED
  BY <1>2 DEF Init, SocketInv, SocketShape

\* The "open" event, with onReconnect.
LEMMA OpenStep ==
    ASSUME SocketInv, NEW c \in Conns, NEW k \in Sockets, Open(c, k)
    PROVE  SocketInv'
<1> DEFINE t == [socket[c] EXCEPT ![k] = "open"]
<1>1. PICK to \in OnReconnect(c, t) : server' = [server EXCEPT ![c] = to]
  BY DEF Open
<1>2. /\ socket[c][k] = "connecting" /\ socket' = [socket EXCEPT ![c] = t]
      /\ UNCHANGED <<wsClient, wsUserClosed, subscriptions, isShutdown>>
  BY DEF Open
<1>3. /\ to = server[c] \/ to = SentOn(t, wsClient[c], server[c], subscriptions)
      /\ ~wsUserClosed[c] /\ ~ListenerThrows => to = SentOn(t, wsClient[c], server[c], subscriptions)
  BY <1>1 DEF OnReconnect, Sent, SentOn, SocketInv
<1>4. ConnOK(socket[c], wsClient[c], wsUserClosed[c], server[c], subscriptions)
  BY DEF SocketInv, ConnInv
<1>5. ConnOK(t, wsClient[c], wsUserClosed[c], to, subscriptions)
  BY <1>2, <1>3, <1>4, ConnOpens
<1>6. ConnInv(c)' /\ SocketShape'
  BY <1>1, <1>2, <1>5 DEF ConnInv, SocketInv, SocketShape
<1> QED
  BY <1>1, <1>2, <1>6, OneConnection DEF SocketInv, SocketShape

\* The "close" event, with handleReconnect.
LEMMA CloseStep ==
    ASSUME SocketInv, NEW c \in Conns, NEW k \in Sockets, Close(c, k)
    PROVE  SocketInv'
<1> DEFINE t == [socket[c] EXCEPT ![k] = "closed"]
           to == [server[c] EXCEPT ![k] = {}]
           x == IF wsUserClosed[c] THEN wsClient[c] ELSE None
<1>1. /\ socket[c][k] # "closed" /\ server' = [server EXCEPT ![c] = to]
      /\ UNCHANGED <<subscriptions, isShutdown>>
  BY DEF Close
<1>2. HandleReconnect(c, t)
  BY DEF Close
<1>3. socket' = [socket EXCEPT ![c] = t] /\ UNCHANGED wsUserClosed
  BY <1>2 DEF HandleReconnect
<1>4. /\ wsClient'[c] = x /\ DOMAIN wsClient' = Conns
      /\ \A d \in Conns \ {c} : wsClient'[d] = wsClient[d]
  BY <1>2 DEF HandleReconnect, SocketInv, SocketShape
<1>5. ConnOK(socket[c], wsClient[c], wsUserClosed[c], server[c], subscriptions)
  BY DEF SocketInv, ConnInv
<1>6. ConnOK(t, x, wsUserClosed[c], to, subscriptions)
  BY <1>1, <1>5, ConnCloses, SMT
<1>7. ConnInv(c)' /\ SocketShape'
  BY <1>1, <1>3, <1>4, <1>6 DEF ConnInv, SocketInv, SocketShape
<1> QED
  BY <1>1, <1>3, <1>4, <1>7, OneConnection DEF SocketInv, SocketShape

\* The heartbeat timer.
LEMMA HeartbeatStep ==
    ASSUME SocketInv, NEW c \in Conns, HeartbeatTimeout(c)
    PROVE  SocketInv'
<1>1. UNCHANGED <<wsClient, wsUserClosed, server, subscriptions, isShutdown>>
  BY DEF HeartbeatTimeout
<1>2. CASE wsClient[c] = None
  BY <1>1, <1>2, OtherSockets DEF HeartbeatTimeout
<1>3. CASE wsClient[c] # None
  <2> DEFINE t == [socket[c] EXCEPT ![wsClient[c]] = IF @ = "closed" THEN @ ELSE "closing"]
  <2>1. socket' = [socket EXCEPT ![c] = t]
    BY <1>3 DEF HeartbeatTimeout
  <2>2. ConnOK(socket[c], wsClient[c], wsUserClosed[c], server[c], subscriptions)
    BY DEF SocketInv, ConnInv
  <2>3. ConnOK(t, wsClient[c], wsUserClosed[c], server[c], subscriptions)
    BY <1>3, <2>2, ConnTerminates
  <2>4. ConnInv(c)' /\ SocketShape'
    BY <1>1, <2>1, <2>3 DEF ConnInv, SocketInv, SocketShape
  <2> QED
    BY <1>1, <2>1, <2>4, OneConnection DEF SocketInv, SocketShape
<1> QED
  BY <1>2, <1>3

\* The retry timer, whether or not the new socket can be created.
LEMMA RetryStep ==
    ASSUME SocketInv, NEW c \in Conns, RetryTimeout(c)
    PROVE  SocketInv'
<1>1. UNCHANGED <<wsUserClosed, server, subscriptions, isShutdown>>
  BY DEF RetryTimeout, NewSocket, HandleReconnect
<1>2. ConnOK(socket[c], wsClient[c], wsUserClosed[c], server[c], subscriptions)
  BY DEF SocketInv, ConnInv
<1>3. CASE UNCHANGED <<socket, wsClient>>
  BY <1>1, <1>3, OtherSockets
<1>4. CASE ~wsUserClosed[c] /\ wsClient[c] = None /\ HandleReconnect(c, socket[c])
  <2>1. socket' = [socket EXCEPT ![c] = socket[c]] /\ wsClient' = [wsClient EXCEPT ![c] = None]
    BY <1>4 DEF HandleReconnect
  <2>2. SocketShape' /\ \A d \in Conns : socket'[d] = socket[d] /\ wsClient'[d] = wsClient[d]
    BY <1>1, <1>4, <2>1 DEF SocketInv, SocketShape
  <2>3. ConnInv(c)'
    BY <1>1, <1>2, <2>2 DEF ConnInv
  <2> QED
    BY <1>1, <2>2, <2>3, OneConnection
<1>5. CASE /\ ~wsUserClosed[c] /\ wsClient[c] = None /\ \E k \in Sockets : socket[c][k] = "closed"
           /\ socket' = [socket EXCEPT ![c][FreeSocket(c)] = "connecting"]
           /\ wsClient' = [wsClient EXCEPT ![c] = FreeSocket(c)]
  <2>1. PICK k : k = FreeSocket(c)
    OBVIOUS
  <2>2. k \in Sockets
    BY <1>5, <2>1 DEF FreeSocket
  <2> DEFINE t == [socket[c] EXCEPT ![k] = "connecting"]
  <2>3. socket' = [socket EXCEPT ![c] = t] /\ wsClient' = [wsClient EXCEPT ![c] = k]
    BY <1>5, <2>1
  <2>4. ConnOK(t, k, wsUserClosed[c], server[c], subscriptions)
    BY <1>2, <1>5, <2>2, ConnStarts
  <2>5. ConnInv(c)' /\ SocketShape'
    BY <1>1, <2>3, <2>4 DEF ConnInv, SocketInv, SocketShape
  <2> QED
    BY <1>1, <2>3, <2>5, OneConnection DEF SocketInv, SocketShape
<1> QED
  BY <1>3, <1>4, <1>5 DEF RetryTimeout, NewSocket

\* shutdown of the pool.
LEMMA ShutdownStep ==
    ASSUME SocketInv, Shutdown
    PROVE  SocketInv'
<1>1. /\ isShutdown' /\ wsUserClosed' = [c \in Conns |-> TRUE]
      /\ socket' = [c \in Conns |-> closeWebSocket(c)] /\ wsClient' = [c \in Conns |-> None]
      /\ subscriptions' = {} /\ server' = server
  BY DEF Shutdown
<1>2. ASSUME NEW c \in Conns PROVE ConnInv(c)'
  <2>1. ConnOK(socket[c], wsClient[c], wsUserClosed[c], server[c], subscriptions)
    BY DEF SocketInv, ConnInv
  <2>2. wsUserClosed'[c]
    BY <1>1
  <2>3. ConnOK(ClosingOf(socket[c], wsClient[c]), None, wsUserClosed'[c], server[c], {})
    BY <2>1, <2>2, ConnShuts
  <2>4. socket'[c] = ClosingOf(socket[c], wsClient[c])
    BY <1>1 DEF closeWebSocket, ClosingOf
  <2> QED
    BY <1>1, <2>3, <2>4 DEF ConnInv
<1> QED
  BY <1>1, <1>2 DEF SocketInv, SocketShape

\* A subscription is added or removed on every open connection and in the map.
LEMMA SubscriptionStep ==
    ASSUME SocketInv, NEW id \in SubIds, addSubscription(id) \/ removeSubscription(id)
    PROVE  SocketInv'
<1>1. UNCHANGED <<socket, wsClient, wsUserClosed, isShutdown>>
  BY DEF addSubscription, removeSubscription, rwsvars
<1>2. ASSUME NEW c \in Conns PROVE ConnInv(c)'
  <2>1. ConnOK(socket[c], wsClient[c], wsUserClosed[c], server[c], subscriptions)
    BY DEF SocketInv, ConnInv
  <2>2. CASE addSubscription(id)
    <3>1. server'[c] = SentOn(socket[c], wsClient[c], server[c], {id})
      BY <2>2 DEF addSubscription, SendRequest, Sent, SentOn
    <3>2. ConnOK(socket[c], wsClient[c], wsUserClosed[c], server'[c], subscriptions \cup {id})
      BY <2>1, <3>1, ConnSubscribes
    <3> QED
      BY <1>1, <2>2, <3>2 DEF ConnInv, addSubscription
  <2>3. CASE removeSubscription(id)
    <3>1. server'[c] = [k \in Sockets |->
                          IF (wsClient[c] # None /\ socket[c][wsClient[c]] = "open") /\ k = wsClient[c]
                          THEN server[c][k] \ {id} ELSE server[c][k]]
      BY <2>3 DEF removeSubscription, isConnected
    <3>2. ConnOK(socket[c], wsClient[c], wsUserClosed[c], server'[c], subscriptions \ {id})
      BY <2>1, <3>1, ConnUnsubscribes
    <3> QED
      BY <1>1, <2>3, <3>2 DEF ConnInv, removeSubscription
  <2> QED
    BY <2>2, <2>3
<1>3. DOMAIN server' = Conns
  BY DEF addSubscription, removeSubscription, SendRequest
<1> QED
  BY <1>1, <1>2, <1>3 DEF SocketInv, SocketShape

\* Every step of the pool keeps the invariant on sockets.
LEMMA NextSockets == SocketInv /\ [Next]_vars => SocketInv'
<1> SUFFICES ASSUME SocketInv, [Next]_vars PROVE SocketInv'
  OBVIOUS
<1> DEFINE untouched == UNCHANGED <<socket, wsClient, wsUserClosed, server, subscriptions, isShutdown>>
<1>1. CASE Abort \/ Poll \/ CreateReturns \/ UserShutsDown \/ CheckConnectionStates
  <2>1. Shutdown \/ untouched
    BY <1>1 DEF Abort, Poll, CreateReturns, UserShutsDown, CheckConnectionStates, Running, rwsvars
  <2> QED
    BY <2>1, ShutdownStep, OtherSockets
<1>2. ASSUME NEW c \in Conns,
             HeartbeatTimeout(c) \/ RetryTimeout(c) \/ \E k \in Sockets : Open(c, k) \/ Close(c, k)
      PROVE  SocketInv'
  BY <1>2, HeartbeatStep, RetryStep, OpenStep, CloseStep
<1>3. CASE \/ \E c \in Conns, k \in Sockets, m \in Messages : Message(c, k, m)
           \/ \E c \in Conns, m \in Blobs : KeyReady(c, m)
           \/ \E m \in Messages : Expire(m)
           \/ UNCHANGED vars
  <2>1. untouched
    BY <1>3 DEF Message, KeyReady, Expire, vars, rwsvars
  <2> QED
    BY <2>1, OtherSockets
<1>4. ASSUME NEW id \in SubIds, addSubscription(id) \/ removeSubscription(id) PROVE SocketInv'
  BY <1>4, SubscriptionStep
<1> QED
  BY <1>1, <1>2, <1>3, <1>4 DEF Next

\* A connection never has two sockets, in whatever order the heartbeat timeout,
\* the close event and the retry timer come (startWebSocket, handleReconnect of
\* ResilientWebSocket).
THEOREM SocketsSingle == Spec => []OneSocket
<1>1. SocketInv => OneSocket
  <2> SUFFICES ASSUME SocketInv, NEW c \in Conns
               PROVE  Cardinality({k \in Sockets : socket[c][k] # "closed"}) <= 1
    BY DEF OneSocket
  <2> DEFINE S == {k \in Sockets : socket[c][k] # "closed"}
  <2>1. S = {} \/ \E k \in Sockets : S = {k}
    BY SMT DEF SocketInv, ConnInv, ConnOK
  <2>2. S = {} => Cardinality(S) = 0
    BY FS_EmptySet
  <2>3. \A k \in Sockets : Cardinality({k}) = 1
    BY FS_Singleton
  <2> QED
    BY <2>1, <2>2, <2>3, SMT
<1> QED
  BY <1>1, InitSockets, NextSockets, PTL DEF Spec

\* Unless a reconnect listener throws, an open connection has exactly the
\* subscriptions of the user (addSubscription, removeSubscription, onReconnect
\* of WebSocketPool).
THEOREM PoolRestores ==
    ASSUME ListenerThrows = FALSE
    PROVE  Spec => []SubscriptionsRestored
<1>1. SocketInv => SubscriptionsRestored
  BY DEF SocketInv, ConnInv, ConnOK, SubscriptionsRestored, isConnected
<1> QED
  BY <1>1, InitSockets, NextSockets, PTL DEF Spec

\* Both together: every connection is one socket, and while no reconnect listener
\* throws it carries the subscriptions of the user whenever it is open
\* (startWebSocket, onReconnect, addSubscription).
THEOREM ConnectionsKept ==
    ASSUME ListenerThrows = FALSE
    PROVE  Spec => []ConnectionsServe
<1> QED
  BY SocketsSingle, PoolRestores, PTL DEF ConnectionsServe

\* After shutdown nothing is delivered or reported.
LEMMA SilentStep ==
    ASSUME MessageInv, isShutdown, [Next]_vars
    PROVE  delivered' = delivered /\ reported' = reported
<1>1. ASSUME NEW m \in Messages, Dedupe(m) PROVE delivered' = delivered /\ reported' = reported
  BY <1>1 DEF Dedupe, emitPoolError, MessageInv, MessageShape
<1>2. ASSUME NEW c \in Conns, NEW k \in Sockets, NEW m \in Messages, Message(c, k, m)
      PROVE  delivered' = delivered /\ reported' = reported
  BY <1>1, <1>2 DEF Message
<1>3. ASSUME NEW c \in Conns, NEW m \in Blobs, KeyReady(c, m)
      PROVE  delivered' = delivered /\ reported' = reported
  BY <1>1, <1>3 DEF KeyReady, Messages
<1>4. ASSUME NEW m \in Messages, Expire(m) PROVE delivered' = delivered /\ reported' = reported
  BY <1>4 DEF Expire
<1>5. CASE UNCHANGED msgvars
  BY <1>5 DEF msgvars
<1>6. ASSUME \/ Abort \/ Poll \/ CreateReturns \/ UserShutsDown \/ CheckConnectionStates
             \/ UNCHANGED vars \/ \E id \in SubIds : addSubscription(id) \/ removeSubscription(id)
      PROVE  UNCHANGED msgvars
  BY <1>6 DEF Abort, Poll, CreateReturns, UserShutsDown, CheckConnectionStates, Running, Shutdown,
              addSubscription, removeSubscription, vars
<1>7. ASSUME NEW c \in Conns, HeartbeatTimeout(c) \/ RetryTimeout(c)
      PROVE  UNCHANGED msgvars
  BY <1>7 DEF HeartbeatTimeout, RetryTimeout
<1>8. ASSUME NEW c \in Conns, NEW k \in Sockets, Open(c, k) \/ Close(c, k)
      PROVE  UNCHANGED msgvars
  <2>1. CASE Open(c, k)
    BY <2>1 DEF Open
  <2>2. CASE Close(c, k)
    BY <2>2 DEF Close
  <2> QED
    BY <1>8, <2>1, <2>2
<1> QED
  BY <1>2, <1>3, <1>4, <1>5, <1>6, <1>7, <1>8 DEF Next

\* A pool that is shut down stays so.
LEMMA StaysShut == isShutdown /\ [Next]_vars => isShutdown'
<1> SUFFICES ASSUME isShutdown, [Next]_vars PROVE isShutdown'
  OBVIOUS
<1>1. CASE \/ Abort \/ Poll \/ CreateReturns \/ UserShutsDown \/ CheckConnectionStates
           \/ UNCHANGED vars \/ \E id \in SubIds : addSubscription(id) \/ removeSubscription(id)
  BY <1>1 DEF Abort, Poll, CreateReturns, UserShutsDown, CheckConnectionStates, Running, Shutdown,
              addSubscription, removeSubscription, vars
<1>2. ASSUME NEW c \in Conns, HeartbeatTimeout(c) \/ RetryTimeout(c) PROVE isShutdown'
  BY <1>2 DEF HeartbeatTimeout, RetryTimeout
<1>3. ASSUME NEW c \in Conns, NEW k \in Sockets, Open(c, k) PROVE isShutdown'
  BY <1>3 DEF Open
<1>4. ASSUME NEW c \in Conns, NEW k \in Sockets, Close(c, k) PROVE isShutdown'
  BY <1>4 DEF Close
<1>5. CASE \/ \E c \in Conns, k \in Sockets, m \in Messages : Message(c, k, m)
           \/ \E c \in Conns, m \in Blobs : KeyReady(c, m)
           \/ \E m \in Messages : Expire(m)
  BY <1>5 DEF Message, KeyReady, Expire
<1> QED
  BY <1>1, <1>2, <1>3, <1>4, <1>5 DEF Next

\* After shutdown nothing reaches the user and no socket is connecting or open,
\* although the timers are not cleared (shutdown of WebSocketPool and
\* closeWebSocket, startWebSocket of ResilientWebSocket).
THEOREM ShutdownSilences == Spec => NothingAfterShutdown
<1>1. ASSUME MessageInv, SocketInv, SocketInv', [Next]_vars, isShutdown
      PROVE  /\ delivered' = delivered /\ reported' = reported
             /\ \A c \in Conns : \A k \in Sockets : socket'[c][k] \notin {"connecting", "open"}
  <2>1. isShutdown'
    BY <1>1, StaysShut
  <2> QED
    BY <1>1, <2>1, SilentStep DEF SocketInv, ConnInv, ConnOK
<1>2. MessageInv /\ SocketInv /\ SocketInv' /\ [Next]_vars
        => [isShutdown => /\ delivered' = delivered /\ reported' = reported
                          /\ \A c \in Conns : \A k \in Sockets :
                                socket'[c][k] \in {"connecting", "open"} => socket'[c][k] = socket[c][k]]_vars
  BY <1>1
<1> QED
  BY <1>2, InitMessages, NextMessages, InitSockets, NextSockets, PTL DEF Spec, NothingAfterShutdown

-----------------------------------------------------------------------------
(* Types *)

Flags ==
    /\ wsUserClosed \in [Conns -> BOOLEAN] /\ heartbeat \in [Conns -> BOOLEAN]
    /\ retry \in [Conns -> BOOLEAN] /\ isReconnecting \in [Conns -> BOOLEAN]
    /\ isShutdown \in BOOLEAN /\ wasAllDown \in BOOLEAN /\ aborted \in BOOLEAN
    /\ create \in {"waiting", "resolved", "returned", "rejected"}

Kept ==
    /\ server \in [Conns -> [Sockets -> SUBSET SubIds]] /\ subscriptions \subseteq SubIds
    /\ hashing \subseteq Conns \X Blobs /\ cache \subseteq Messages

\* Setting one of the flags of the connections.
LEMMA FlagSet ==
    ASSUME NEW f \in [Conns -> BOOLEAN], NEW c \in Conns, NEW b \in BOOLEAN
    PROVE  [f EXCEPT ![c] = b] \in [Conns -> BOOLEAN]
  OBVIOUS

\* handleReconnect sets the timers' flags.
LEMMA ReconnectFlags ==
    ASSUME Flags, NEW c \in Conns, NEW s, HandleReconnect(c, s),
           UNCHANGED <<isShutdown, wasAllDown, aborted, create>>
    PROVE  Flags'
<1>1. TRUE \in BOOLEAN /\ FALSE \in BOOLEAN
  OBVIOUS
<1>2. CASE wsUserClosed[c]
  BY <1>2, Zenon DEF HandleReconnect, Flags
<1>3. CASE ~wsUserClosed[c]
  <2>1. /\ heartbeat' \in [Conns -> BOOLEAN] /\ isReconnecting' \in [Conns -> BOOLEAN]
        /\ retry' \in [Conns -> BOOLEAN]
    BY <1>1, <1>3, FlagSet, Zenon DEF HandleReconnect, Flags
  <2> QED
    BY <2>1, Zenon DEF HandleReconnect, Flags
<1> QED
  BY <1>2, <1>3, Zenon

\* Every step keeps the flags.
LEMMA NextFlags == Flags /\ [Next]_vars => Flags'
<1> SUFFICES ASSUME Flags, [Next]_vars PROVE Flags'
  OBVIOUS
<1>0. TRUE \in BOOLEAN /\ FALSE \in BOOLEAN /\ [c \in Conns |-> TRUE] \in [Conns -> BOOLEAN]
  BY Zenon
<1>1. ASSUME Shutdown, aborted' = aborted, create' \in {"waiting", "resolved", "returned", "rejected"}
      PROVE  Flags'
  BY <1>0, <1>1, Zenon DEF Shutdown, Flags
<1>2. ASSUME Running, aborted' \in BOOLEAN, create' \in {"waiting", "resolved", "returned", "rejected"}
      PROVE  Flags'
  BY <1>2, Zenon DEF Running, Flags, rwsvars
<1>3. CASE Abort
  BY <1>0, <1>2, <1>3, Zenon DEF Abort, Flags
<1>4. CASE Poll
  BY <1>1, <1>2, <1>4, Zenon DEF Poll, Flags
<1>5. CASE CreateReturns
  BY <1>1, <1>2, <1>5, Zenon DEF CreateReturns, Flags
<1>6. CASE UserShutsDown
  BY <1>1, <1>6, Zenon DEF UserShutsDown, createvars, Flags
<1>7. CASE CheckConnectionStates
  <2>1. areAllConnectionsDown \in BOOLEAN
    BY Zenon DEF areAllConnectionsDown
  <2> QED
    BY <1>7, <2>1, Zenon DEF CheckConnectionStates, Flags, rwsvars, createvars
<1>8. ASSUME NEW c \in Conns, HeartbeatTimeout(c) PROVE Flags'
  <2>1. heartbeat' \in [Conns -> BOOLEAN]
    BY <1>0, <1>8, FlagSet, Zenon DEF HeartbeatTimeout, Flags
  <2> QED
    BY <1>8, <2>1, Zenon DEF HeartbeatTimeout, Flags, createvars
<1>9. ASSUME NEW c \in Conns, RetryTimeout(c) PROVE Flags'
  <2>1. UNCHANGED <<isShutdown, wasAllDown, aborted, create>>
    BY <1>9, Zenon DEF RetryTimeout, createvars
  <2>2. ASSUME retry' = [retry EXCEPT ![c] = FALSE], UNCHANGED <<wsUserClosed, heartbeat, isReconnecting>>
        PROVE  Flags'
    <3>1. retry' \in [Conns -> BOOLEAN]
      BY <1>0, <2>2, FlagSet, Zenon DEF Flags
    <3> QED
      BY <2>1, <2>2, <3>1, Zenon DEF Flags
  <2>3. CASE HandleReconnect(c, socket[c])
    BY <2>1, <2>3, ReconnectFlags, Zenon
  <2> QED
    BY <1>9, <2>2, <2>3, Zenon DEF RetryTimeout, NewSocket
<1>10. ASSUME NEW c \in Conns, NEW k \in Sockets, Open(c, k) PROVE Flags'
  <2>1. heartbeat' \in [Conns -> BOOLEAN] /\ isReconnecting' \in [Conns -> BOOLEAN]
    BY <1>0, <1>10, FlagSet, Zenon DEF Open, Flags
  <2> QED
    BY <1>10, <2>1, Zenon DEF Open, Flags, createvars
<1>11. ASSUME NEW c \in Conns, NEW k \in Sockets, Close(c, k) PROVE Flags'
  BY <1>11, ReconnectFlags, Zenon DEF Close, createvars
<1>12. ASSUME NEW c \in Conns, NEW k \in Sockets, NEW m \in Messages, Message(c, k, m) PROVE Flags'
  <2>1. heartbeat' \in [Conns -> BOOLEAN]
    BY <1>0, <1>12, FlagSet, Zenon DEF Message, Flags
  <2> QED
    BY <1>12, <2>1, Zenon DEF Message, Flags, createvars
<1>13. ASSUME UNCHANGED <<rwsvars, isShutdown, wasAllDown, createvars>> PROVE Flags'
  BY <1>13, Zenon DEF Flags, rwsvars, createvars
<1>14. ASSUME NEW c \in Conns, NEW m \in Blobs, KeyReady(c, m) PROVE Flags'
  BY <1>13, <1>14, Zenon DEF KeyReady
<1>15. ASSUME NEW m \in Messages, Expire(m) PROVE Flags'
  BY <1>13, <1>15, Zenon DEF Expire
<1>16. ASSUME NEW id \in SubIds, addSubscription(id) \/ removeSubscription(id) PROVE Flags'
  BY <1>13, <1>16, Zenon DEF addSubscription, removeSubscription
<1>17. CASE UNCHANGED vars
  BY <1>13, <1>17, Zenon DEF vars
<1> QED
  BY <1>3, <1>4, <1>5, <1>6, <1>7, <1>8, <1>9, <1>10, <1>11, <1>12, <1>14, <1>15, <1>16, <1>17, Zenon
     DEF Next

\* What a connection is sent is among the ids.
LEMMA SentType ==
    ASSUME Kept, NEW c \in Conns, NEW s, NEW ids \in SUBSET SubIds
    PROVE  Sent(c, s, ids) \in [Sockets -> SUBSET SubIds]
  BY DEF Kept, Sent

\* Every step keeps the subscriptions and the keys among what there is.
LEMMA NextKept == Kept /\ [Next]_vars => Kept'
<1> SUFFICES ASSUME Kept, [Next]_vars PROVE Kept'
  OBVIOUS
<1>1. ASSUME UNCHANGED <<server, hashing, cache>>, subscriptions' = subscriptions \/ subscriptions' = {}
      PROVE  Kept'
  BY <1>1 DEF Kept
<1>2. CASE Abort \/ Poll \/ CreateReturns \/ UserShutsDown \/ CheckConnectionStates \/ UNCHANGED vars
  BY <1>1, <1>2, Zenon DEF Abort, Poll, CreateReturns, UserShutsDown, CheckConnectionStates, Running,
                           Shutdown, msgvars, vars
<1>3. ASSUME NEW c \in Conns, HeartbeatTimeout(c) \/ RetryTimeout(c) PROVE Kept'
  BY <1>1, <1>3, Zenon DEF HeartbeatTimeout, RetryTimeout, msgvars
<1>4. ASSUME NEW c \in Conns, NEW k \in Sockets, Open(c, k) PROVE Kept'
  <2> DEFINE t == [socket[c] EXCEPT ![k] = "open"]
  <2>1. PICK to \in OnReconnect(c, t) : server' = [server EXCEPT ![c] = to]
    BY <1>4 DEF Open
  <2>2. subscriptions \in SUBSET SubIds /\ server[c] \in [Sockets -> SUBSET SubIds]
    BY DEF Kept
  <2>3. Sent(c, t, subscriptions) \in [Sockets -> SUBSET SubIds]
    BY <2>2, SentType
  <2>4. to \in [Sockets -> SUBSET SubIds]
    BY <2>1, <2>2, <2>3, Zenon DEF OnReconnect
  <2>5. UNCHANGED <<subscriptions, hashing, cache>>
    BY <1>4, Zenon DEF Open, msgvars
  <2> QED
    BY <2>1, <2>4, <2>5 DEF Kept
<1>5. ASSUME NEW c \in Conns, NEW k \in Sockets, Close(c, k) PROVE Kept'
  <2>1. server' = [server EXCEPT ![c][k] = {}] /\ UNCHANGED <<subscriptions, hashing, cache>>
    BY <1>5, Zenon DEF Close, msgvars
  <2> QED
    BY <2>1 DEF Kept
<1>6. ASSUME NEW m \in Messages, Dedupe(m) PROVE cache' \subseteq Messages
  BY <1>6 DEF Dedupe, Kept
<1>7. ASSUME NEW c \in Conns, NEW k \in Sockets, NEW m \in Messages, Message(c, k, m) PROVE Kept'
  <2>1. UNCHANGED <<server, subscriptions>>
    BY <1>7, Zenon DEF Message
  <2>2. CASE m \in Blobs
    BY <1>7, <2>1, <2>2, SMT DEF Message, Kept
  <2>3. CASE m \notin Blobs
    BY <1>6, <1>7, <2>1, <2>3 DEF Message, Kept
  <2> QED
    BY <2>2, <2>3
<1>8. ASSUME NEW c \in Conns, NEW m \in Blobs, KeyReady(c, m) PROVE Kept'
  <2>1. m \in Messages
    BY DEF Messages
  <2>2. Dedupe(m) /\ hashing' = hashing \ {<<c, m>>} /\ UNCHANGED <<server, subscriptions>>
    BY <1>8, Zenon DEF KeyReady
  <2> QED
    BY <1>6, <2>1, <2>2 DEF Kept
<1>9. ASSUME NEW m \in Messages, Expire(m) PROVE Kept'
  BY <1>9 DEF Expire, Kept
<1>10. ASSUME NEW id \in SubIds, addSubscription(id) PROVE Kept'
  <2>1. {id} \in SUBSET SubIds
    OBVIOUS
  <2>2. \A c \in Conns : Sent(c, socket[c], {id}) \in [Sockets -> SUBSET SubIds]
    BY <2>1, SentType
  <2>3. /\ server' = [c \in Conns |-> Sent(c, socket[c], {id})] /\ subscriptions' = subscriptions \cup {id}
        /\ UNCHANGED <<hashing, cache>>
    BY <1>10, Zenon DEF addSubscription, SendRequest, msgvars
  <2> QED
    BY <2>2, <2>3 DEF Kept
<1>11. ASSUME NEW id \in SubIds, removeSubscription(id) PROVE Kept'
  <2>1. /\ server' = [c \in Conns |-> [k \in Sockets |->
                        IF isConnected(c) /\ k = wsClient[c] THEN server[c][k] \ {id} ELSE server[c][k]]]
        /\ subscriptions' = subscriptions \ {id} /\ UNCHANGED <<hashing, cache>>
    BY <1>11, Zenon DEF removeSubscription, msgvars
  <2> QED
    BY <2>1 DEF Kept
<1> QED
  BY <1>2, <1>3, <1>4, <1>5, <1>7, <1>8, <1>9, <1>10, <1>11, Zenon DEF Next

\* The sockets and the clients are functions, by every step.
Tables == socket = [c \in Conns |-> socket[c]] /\ wsClient = [c \in Conns |-> wsClient[c]]

\* Every step keeps them.
LEMMA NextTables == Tables /\ [Next]_vars => Tables'
<1> SUFFICES ASSUME Tables, [Next]_vars PROVE Tables'
  OBVIOUS
<1>1. ASSUME UNCHANGED <<socket, wsClient>> PROVE Tables'
  BY <1>1, Zenon DEF Tables
<1>2. ASSUME Shutdown PROVE Tables'
  <2>1. socket' = [c \in Conns |-> closeWebSocket(c)] /\ wsClient' = [c \in Conns |-> None]
    BY <1>2, Zenon DEF Shutdown
  <2> QED
    BY <2>1 DEF Tables
<1>3. CASE Abort \/ Poll \/ CreateReturns \/ UserShutsDown \/ CheckConnectionStates \/ UNCHANGED vars
  BY <1>1, <1>2, <1>3, Zenon DEF Abort, Poll, CreateReturns, UserShutsDown, CheckConnectionStates, Running,
                                 rwsvars, vars
<1>4. ASSUME NEW c \in Conns, NEW s, HandleReconnect(c, s) PROVE Tables'
  <2>1. socket' = [socket EXCEPT ![c] = s]
    BY <1>4, Zenon DEF HandleReconnect
  <2>2. wsClient' = wsClient \/ wsClient' = [wsClient EXCEPT ![c] = None]
    BY <1>4, Zenon DEF HandleReconnect
  <2> QED
    BY <2>1, <2>2 DEF Tables
<1>5. ASSUME NEW c \in Conns, HeartbeatTimeout(c) PROVE Tables'
  BY <1>5 DEF HeartbeatTimeout, Tables
<1>6. ASSUME NEW c \in Conns, RetryTimeout(c) PROVE Tables'
  <2>1. CASE UNCHANGED <<socket, wsClient>>
    BY <1>1, <2>1, Zenon
  <2>2. CASE HandleReconnect(c, socket[c])
    BY <1>4, <2>2, Zenon
  <2>3. CASE /\ socket' = [socket EXCEPT ![c][FreeSocket(c)] = "connecting"]
             /\ wsClient' = [wsClient EXCEPT ![c] = FreeSocket(c)]
    BY <2>3 DEF Tables
  <2> QED
    BY <1>6, <2>1, <2>2, <2>3, Zenon DEF RetryTimeout, NewSocket
<1>7. ASSUME NEW c \in Conns, NEW k \in Sockets, Open(c, k) PROVE Tables'
  <2>1. socket' = [socket EXCEPT ![c] = [socket[c] EXCEPT ![k] = "open"]] /\ wsClient' = wsClient
    BY <1>7, Zenon DEF Open
  <2> QED
    BY <2>1 DEF Tables
<1>8. ASSUME NEW c \in Conns, NEW k \in Sockets, Close(c, k) PROVE Tables'
  BY <1>4, <1>8, Zenon DEF Close
<1>9. CASE \/ \E c \in Conns, k \in Sockets, m \in Messages : Message(c, k, m)
           \/ \E c \in Conns, m \in Blobs : KeyReady(c, m)
           \/ \E m \in Messages : Expire(m)
           \/ \E id \in SubIds : addSubscription(id) \/ removeSubscription(id)
  BY <1>1, <1>9, Zenon DEF Message, KeyReady, Expire, addSubscription, removeSubscription, rwsvars
<1> QED
  BY <1>3, <1>5, <1>6, <1>7, <1>8, <1>9, Zenon DEF Next

\* Every variable of the pool keeps its type; in particular no message is
\* delivered or reported more than once and no connection uses a socket it does
\* not have (ResilientWebSocket, WebSocketPool).
THEOREM PoolTypes == Spec => []TypeOK
<1>1. Init => Flags
  BY Zenon DEF Init, Flags
<1>2. Init => Kept
  BY DEF Init, Kept
<1>3. ASSUME MessageInv, SocketInv, Flags, Kept, Tables PROVE TypeOK
  <2>1. \A c \in Conns : socket[c] \in [Sockets -> Stages] /\ wsClient[c] \in Sockets \cup {None}
    BY <1>3, Zenon DEF SocketInv, ConnInv, ConnOK
  <2>2. MessageShape
    BY <1>3, Zenon DEF MessageInv
  <2>3. \A m \in Messages : delivered[m] \in Nat /\ reported[m] \in Nat /\ delivered[m] + reported[m] <= 1
    BY <1>3, <2>2 DEF MessageInv, MessageShape, MessageOK, Count
  <2>4. \A m \in Messages : delivered[m] \in 0..1 /\ reported[m] \in 0..1
    BY <2>3, SMT
  <2>5. delivered \in [Messages -> 0..1] /\ reported \in [Messages -> 0..1]
    BY <2>2, <2>4, Zenon DEF MessageShape
  <2>6. socket \in [Conns -> [Sockets -> Stages]] /\ wsClient \in [Conns -> Sockets \cup {None}]
    BY <1>3, <2>1 DEF Tables
  <2> QED
    BY <1>3, <2>2, <2>5, <2>6, Zenon DEF TypeOK, Flags, Kept, MessageShape, Stages
<1>4. Init => Tables
  BY DEF Init, Tables
<1> QED
  BY <1>1, <1>2, <1>3, <1>4, InitMessages, NextMessages, InitSockets, NextSockets, NextFlags, NextKept,
     NextTables, PTL DEF Spec

-----------------------------------------------------------------------------
(* Types *)

Saving(t) == pc[t] \in {"write", "sync", "replace"}

\* A task that saves or sends has data, and one that saves has a file open.
TaskOK(t) ==
    /\ Saving(t) \/ pc[t] \in {"create", "send"} => value[t] \in 1..MaxVersion
    /\ Saving(t) => fd[t] \in Inodes

HttpInv == HttpTypeOK /\ \A t \in Tasks : TaskOK(t)

\* There is an inode for a new temporary file.
LEMMA FreeInode ==
    ASSUME HttpTypeOK, tmp = NoInode
    PROVE  Inodes \ ({tmp, path} \cup {fd[s] : s \in Tasks}) # {}
<1> DEFINE open == {fd[s] : s \in Tasks}
<1>1. fd \in Surjection(Tasks, open)
  BY DEF HttpTypeOK, Surjection
<1>2. IsFiniteSet(open) /\ Cardinality(open) <= Cardinality(Tasks)
  <2> HIDE DEF open
  <2> QED
    BY <1>1, HttpAssumption, FS_Surjection
<1> HIDE DEF open
<1>3. /\ IsFiniteSet(open \cup {path})
      /\ Cardinality(open \cup {path}) <= Cardinality(Tasks) + 1
  <2>1. Cardinality(open) \in Nat /\ Cardinality(Tasks) \in Nat
    BY <1>2, HttpAssumption, FS_CardinalityType
  <2>2. /\ IsFiniteSet(open \cup {path})
        /\ Cardinality(open \cup {path}) = IF path \in open THEN Cardinality(open) ELSE Cardinality(open) + 1
    BY <1>2, FS_AddElement
  <2> QED
    BY <1>2, <2>1, <2>2, SMT
<1>4. ASSUME Inodes \subseteq open \cup {path} PROVE FALSE
  <2>1. Cardinality(Inodes) <= Cardinality(open \cup {path})
    BY <1>3, <1>4, FS_Subset
  <2>2. /\ Cardinality(Inodes) \in Nat /\ Cardinality(open \cup {path}) \in Nat
        /\ Cardinality(Tasks) \in Nat
    BY <1>3, HttpAssumption, FS_CardinalityType
  <2> QED
    BY <1>3, <2>1, <2>2, HttpAssumption, SMT
<1>5. NoInode \notin Inodes
  BY HttpAssumption
<1> QED
  BY <1>4, <1>5 DEF open

\* The temporary file that File::create opens is not the cache file.
LEMMA CreatedInode ==
    ASSUME HttpTypeOK, NEW t \in Tasks, FileCreate(t)
    PROVE  \E i \in Inodes :
              /\ fd' = [fd EXCEPT ![t] = i] /\ tmp' = i
              /\ content' = [content EXCEPT ![i] = Empty] /\ synced' = synced \ {i}
              /\ i # path \/ i = tmp
<1> DEFINE free == Inodes \ ({tmp, path} \cup {fd[s] : s \in Tasks})
           i == IF tmp # NoInode THEN tmp ELSE CHOOSE j \in free : TRUE
<1>1. /\ fd' = [fd EXCEPT ![t] = i] /\ tmp' = i
      /\ content' = [content EXCEPT ![i] = Empty] /\ synced' = synced \ {i}
  BY DEF FileCreate
<1>2. CASE tmp # NoInode
  <2>1. i = tmp /\ tmp \in Inodes
    BY <1>2 DEF HttpTypeOK
  <2> HIDE DEF i
  <2> QED
    BY <1>1, <2>1
<1>3. CASE tmp = NoInode
  <2>1. free # {}
    BY <1>3, FreeInode
  <2>2. i = CHOOSE j \in free : TRUE
    BY <1>3
  <2> HIDE DEF i
  <2>3. i \in free
    <3> HIDE DEF free
    <3> QED
      BY <2>1, <2>2
  <2>4. i \in Inodes /\ i # path
    BY <2>3
  <2> QED
    BY <1>1, <2>4
<1> QED
  BY <1>2, <1>3

\* The numbers are numbers.
LEMMA Numbers ==
    /\ MaxVersion \in Nat \ {0} /\ UpdateTicks \in Nat /\ DefaultTicks \in Nat
    /\ UpdateTicks < DefaultTicks /\ Empty \in Empty..Torn /\ Torn \in Empty..Torn
    /\ \A v \in 1..MaxVersion : v \in Empty..Torn /\ v \in 0..MaxVersion /\ v # Empty
<1>1. /\ MaxVersion \in Nat \ {0} /\ UpdateTicks \in Nat /\ DefaultTicks \in Nat
      /\ UpdateTicks < DefaultTicks
  BY HttpAssumption
<1> QED
  BY <1>1, SMT DEF Empty, Torn

\* At first there is no file.
LEMMA InitHttp == HttpInit => HttpInv
<1> SUFFICES ASSUME HttpInit PROVE HttpInv
  OBVIOUS
<1>1. HttpTypeOK
  <2>1. /\ spent \in [Tasks -> 0..DefaultTicks] /\ value \in [Tasks -> 0..MaxVersion]
        /\ previous \in [Tasks -> 0..MaxVersion] /\ handle \in [Tasks -> 0..MaxVersion]
        /\ saved \in 0..MaxVersion /\ served \in [Urls -> 1..MaxVersion]
    BY Numbers, SMT DEF HttpInit
  <2>2. content \in [Inodes -> Empty..Torn]
    BY Numbers DEF HttpInit
  <2> QED
    BY <2>1, <2>2 DEF HttpInit, HttpTypeOK, Fresh
<1>2. ASSUME NEW t \in Tasks PROVE TaskOK(t)
  BY DEF HttpInit, TaskOK, Saving
<1> QED
  BY <1>1, <1>2 DEF HttpInv

\* What the steps that leave the files alone have to show.
LEMMA FilesApart ==
    ASSUME HttpInv, UNCHANGED filevars, NEW t \in Tasks, NEW p,
           p \in {"fetch", "create", "load", "refetch", "send", "sleep", "done", "failed"},
           pc' = [pc EXCEPT ![t] = p],
           value' \in [Tasks -> 0..MaxVersion], \A s \in Tasks : s # t => value'[s] = value[s],
           p \in {"create", "send"} => value'[t] \in 1..MaxVersion
    PROVE  /\ \A s \in Tasks : TaskOK(s)'
           /\ pc' \in [Tasks -> {"fetch", "create", "write", "sync", "replace", "load", "refetch",
                                 "send", "sleep", "done", "failed"}]
<1>1. pc' \in [Tasks -> {"fetch", "create", "write", "sync", "replace", "load", "refetch",
                         "send", "sleep", "done", "failed"}]
  BY DEF HttpInv, HttpTypeOK
<1>2. ASSUME NEW s \in Tasks PROVE TaskOK(s)'
  <2>1. CASE s = t
    <3>1. pc'[t] = p
      BY DEF HttpInv, HttpTypeOK
    <3> QED
      BY <2>1, <3>1 DEF TaskOK, Saving
  <2>2. CASE s # t
    <3>1. pc'[s] = pc[s] /\ value'[s] = value[s] /\ fd'[s] = fd[s]
      BY <2>2 DEF HttpInv, HttpTypeOK, filevars
    <3> QED
      BY <3>1 DEF HttpInv, TaskOK, Saving
  <2> QED
    BY <2>1, <2>2
<1> QED
  BY <1>1, <1>2

\* The steps of a fetch.
LEMMA FetchTypes ==
    ASSUME HttpInv, NEW t \in Tasks,
           \/ \E u \in Urls : FetchSucceeds(t, u) \/ \E f \in Failures : RequestFails(t, u, f)
           \/ FetchFails(t) \/ LoadFile(t) \/ Tick(t)
    PROVE  HttpInv'
<1> USE DEF HttpInv
<1>1. /\ UNCHANGED filevars /\ UNCHANGED <<first, previous, uservars, served>>
  BY DEF FetchSucceeds, RequestFails, FetchFails, LoadFile, Tick
<1>2. UNCHANGED <<first, previous, channel, handle, dropped, fd, content, synced, tmp, path, saved,
                  served>>
  BY <1>1 DEF filevars, uservars
<1>3. ASSUME NEW u \in Urls, FetchSucceeds(t, u) PROVE HttpInv'
  <2>1. /\ value' = [value EXCEPT ![t] = served[u]] /\ served[u] \in 1..MaxVersion
        /\ UNCHANGED <<trying, spent>>
    BY <1>3 DEF FetchSucceeds, HttpTypeOK
  <2>2. value' \in [Tasks -> 0..MaxVersion] /\ value'[t] \in 1..MaxVersion
        /\ \A s \in Tasks : s # t => value'[s] = value[s]
    BY <2>1, Numbers DEF HttpTypeOK
  <2>3. PICK p \in {"send", "create", "sleep"} : pc' = [pc EXCEPT ![t] = p]
    BY <1>3 DEF FetchSucceeds, Goto, AfterFetch
  <2>4. /\ \A s \in Tasks : TaskOK(s)'
        /\ pc' \in [Tasks -> {"fetch", "create", "write", "sync", "replace", "load", "refetch",
                              "send", "sleep", "done", "failed"}]
    BY <1>1, <2>2, <2>3, FilesApart
  <2>5. HttpTypeOK'
    BY <1>2, <2>1, <2>2, <2>4 DEF HttpTypeOK
  <2> QED
    BY <2>4, <2>5
<1>4. ASSUME NEW u \in Urls, NEW f \in Failures, RequestFails(t, u, f) PROVE HttpInv'
  <2>1. UNCHANGED <<pc, spent, value>> /\ trying' = [trying EXCEPT ![t] = @ \ {u}]
    BY <1>4 DEF RequestFails
  <2>2. HttpTypeOK'
    BY <1>2, <2>1 DEF HttpTypeOK
  <2> QED
    BY <1>2, <2>1, <2>2 DEF TaskOK, Saving
<1>5. CASE FetchFails(t)
  <2>1. UNCHANGED <<trying, spent, value>>
    BY <1>5 DEF FetchFails
  <2>2. PICK p \in {"failed", "load", "sleep"} : pc' = [pc EXCEPT ![t] = p]
    BY <1>5 DEF FetchFails, Goto
  <2>3. value' \in [Tasks -> 0..MaxVersion]
    BY <2>1 DEF HttpTypeOK
  <2>4. /\ \A s \in Tasks : TaskOK(s)'
        /\ pc' \in [Tasks -> {"fetch", "create", "write", "sync", "replace", "load", "refetch",
                              "send", "sleep", "done", "failed"}]
    BY <1>1, <2>1, <2>2, <2>3, FilesApart
  <2>5. HttpTypeOK'
    BY <1>2, <2>1, <2>4 DEF HttpTypeOK
  <2> QED
    BY <2>4, <2>5
<1>6. CASE LoadFile(t)
  <2>1. PICK p \in {"send", "refetch"} :
            /\ pc' = [pc EXCEPT ![t] = p]
            /\ trying' \in [Tasks -> SUBSET Urls] /\ spent' \in [Tasks -> 0..DefaultTicks]
            /\ value' \in [Tasks -> 0..MaxVersion]
            /\ \A s \in Tasks : s # t => value'[s] = value[s]
            /\ p = "send" => value'[t] \in 1..MaxVersion
    <3>1. CASE path # NoInode /\ content[path] \in 1..MaxVersion
      <4>1. /\ value' = [value EXCEPT ![t] = content[path]]
            /\ pc' = [pc EXCEPT ![t] = "send"] /\ UNCHANGED <<trying, spent>>
        BY <1>6, <3>1 DEF LoadFile, Goto
      <4> QED
        BY <3>1, <4>1, Numbers DEF HttpTypeOK
    <3>2. CASE ~(path # NoInode /\ content[path] \in 1..MaxVersion)
      <4>1. /\ pc' = [pc EXCEPT ![t] = "refetch"] /\ UNCHANGED value
            /\ trying' = [trying EXCEPT ![t] = Urls] /\ spent' = [spent EXCEPT ![t] = 0]
        BY <1>6, <3>2 DEF LoadFile, BeginFetch, Goto
      <4> QED
        BY <4>1, Numbers, SMT DEF HttpTypeOK
    <3> QED
      BY <3>1, <3>2
  <2>2. /\ \A s \in Tasks : TaskOK(s)'
        /\ pc' \in [Tasks -> {"fetch", "create", "write", "sync", "replace", "load", "refetch",
                              "send", "sleep", "done", "failed"}]
    BY <1>1, <2>1, FilesApart
  <2>3. HttpTypeOK'
    BY <1>2, <2>1, <2>2 DEF HttpTypeOK
  <2> QED
    BY <2>2, <2>3
<1>7. CASE Tick(t)
  <2>1. UNCHANGED <<pc, trying, value>> /\ spent[t] < Limit(t) /\ spent' = [spent EXCEPT ![t] = @ + 1]
    BY <1>7 DEF Tick
  <2>2. spent[t] \in 0..DefaultTicks /\ Limit(t) <= DefaultTicks
    BY Numbers, SMT DEF HttpTypeOK, Limit
  <2>3. spent[t] + 1 \in 0..DefaultTicks
    BY <2>1, <2>2, Numbers, SMT DEF Limit
  <2>4. spent' \in [Tasks -> 0..DefaultTicks]
    BY <2>1, <2>3 DEF HttpTypeOK
  <2>5. HttpTypeOK'
    BY <1>2, <2>1, <2>4 DEF HttpTypeOK
  <2> QED
    BY <1>2, <2>1, <2>5 DEF TaskOK, Saving
<1> QED
  BY <1>3, <1>4, <1>5, <1>6, <1>7

\* What the steps of a save have to show.
LEMMA SaveMoves ==
    ASSUME HttpInv, NEW t \in Tasks, NEW p \in {"write", "sync", "replace", "send"},
           NEW i \in Inodes \cup {NoInode}, p # "send" => i \in Inodes,
           pc' = [pc EXCEPT ![t] = p], fd' = [fd EXCEPT ![t] = i],
           value[t] \in 1..MaxVersion, UNCHANGED value
    PROVE  /\ \A s \in Tasks : TaskOK(s)'
           /\ pc' \in [Tasks -> {"fetch", "create", "write", "sync", "replace", "load", "refetch",
                                 "send", "sleep", "done", "failed"}]
           /\ fd' \in [Tasks -> Inodes \cup {NoInode}]
<1>1. /\ pc' \in [Tasks -> {"fetch", "create", "write", "sync", "replace", "load", "refetch",
                            "send", "sleep", "done", "failed"}]
      /\ fd' \in [Tasks -> Inodes \cup {NoInode}]
  BY DEF HttpInv, HttpTypeOK
<1>2. ASSUME NEW s \in Tasks PROVE TaskOK(s)'
  <2>1. CASE s = t
    <3>1. pc'[t] = p /\ fd'[t] = i /\ value'[t] = value[t]
      BY DEF HttpInv, HttpTypeOK
    <3> QED
      BY <2>1, <3>1 DEF TaskOK, Saving
  <2>2. CASE s # t
    <3>1. pc'[s] = pc[s] /\ value'[s] = value[s] /\ fd'[s] = fd[s]
      BY <2>2 DEF HttpInv, HttpTypeOK
    <3> QED
      BY <3>1 DEF HttpInv, TaskOK, Saving
  <2> QED
    BY <2>1, <2>2
<1> QED
  BY <1>1, <1>2

\* The steps of a save, and its failure.
LEMMA SaveTypes ==
    ASSUME HttpInv, NEW t \in Tasks, Save(t) \/ SaveFails(t)
    PROVE  HttpInv'
<1> USE DEF HttpInv
<1>1. UNCHANGED <<first, trying, spent, value, previous, channel, handle, dropped, served>>
  BY DEF Save, FileCreate, FileWrite, FileSync, FileReplace, SaveFails, uservars
<1>2. value[t] \in 1..MaxVersion /\ (Saving(t) => fd[t] \in Inodes)
  BY DEF Save, FileCreate, FileWrite, FileSync, FileReplace, SaveFails, TaskOK, Saving
<1>3. ASSUME NEW p \in {"write", "sync", "replace", "send"}, NEW i \in Inodes \cup {NoInode},
             p # "send" => i \in Inodes,
             pc' = [pc EXCEPT ![t] = p], fd' = [fd EXCEPT ![t] = i],
             content' \in [Inodes -> Empty..Torn], synced' \in SUBSET Inodes,
             tmp' \in Inodes \cup {NoInode}, path' \in Inodes \cup {NoInode},
             saved' \in 0..MaxVersion
      PROVE  HttpInv'
  <2>1. /\ \A s \in Tasks : TaskOK(s)'
        /\ pc' \in [Tasks -> {"fetch", "create", "write", "sync", "replace", "load", "refetch",
                              "send", "sleep", "done", "failed"}]
        /\ fd' \in [Tasks -> Inodes \cup {NoInode}]
    BY <1>1, <1>2, <1>3, SaveMoves
  <2>2. HttpTypeOK'
    BY <1>1, <1>3, <2>1 DEF HttpTypeOK
  <2> QED
    BY <2>1, <2>2
<1>4. CASE FileCreate(t)
  <2>1. PICK i \in Inodes :
            /\ fd' = [fd EXCEPT ![t] = i] /\ tmp' = i
            /\ content' = [content EXCEPT ![i] = Empty] /\ synced' = synced \ {i}
    BY <1>4, CreatedInode
  <2>2. pc' = [pc EXCEPT ![t] = "write"] /\ UNCHANGED <<path, saved>>
    BY <1>4 DEF FileCreate, Goto
  <2>3. content' \in [Inodes -> Empty..Torn] /\ synced' \in SUBSET Inodes
    BY <2>1, Numbers DEF HttpTypeOK
  <2>4. path' \in Inodes \cup {NoInode} /\ saved' \in 0..MaxVersion
    BY <2>2 DEF HttpTypeOK
  <2> QED
    BY <1>3, <2>1, <2>2, <2>3, <2>4
<1>5. CASE FileWrite(t)
  <2>1. /\ pc[t] = "write" /\ pc' = [pc EXCEPT ![t] = "sync"] /\ UNCHANGED <<fd, tmp, path, saved>>
        /\ synced' = synced \ {fd[t]}
    BY <1>5 DEF FileWrite, Goto
  <2>2. PICK c \in {value[t], Torn} : content' = [content EXCEPT ![fd[t]] = c]
    BY <1>5 DEF FileWrite
  <2>3. fd[t] \in Inodes /\ fd' = [fd EXCEPT ![t] = fd[t]]
    BY <1>2, <2>1 DEF Saving, HttpTypeOK
  <2>4. c \in Empty..Torn
    BY <1>2, Numbers
  <2>5. content' \in [Inodes -> Empty..Torn] /\ synced' \in SUBSET Inodes
    BY <2>1, <2>2, <2>4 DEF HttpTypeOK
  <2>6. /\ tmp' \in Inodes \cup {NoInode} /\ path' \in Inodes \cup {NoInode}
        /\ saved' \in 0..MaxVersion
    BY <2>1 DEF HttpTypeOK
  <2> QED
    BY <1>3, <2>1, <2>3, <2>5, <2>6
<1>6. CASE FileSync(t)
  <2>1. /\ pc[t] = "sync" /\ pc' = [pc EXCEPT ![t] = "replace"]
        /\ UNCHANGED <<fd, content, tmp, path, saved>> /\ synced' = synced \cup {fd[t]}
    BY <1>6 DEF FileSync, Goto
  <2>2. fd[t] \in Inodes /\ fd' = [fd EXCEPT ![t] = fd[t]]
    BY <1>2, <2>1 DEF Saving, HttpTypeOK
  <2>3. synced' \in SUBSET Inodes
    BY <2>1, <2>2 DEF HttpTypeOK
  <2>4. /\ tmp' \in Inodes \cup {NoInode} /\ path' \in Inodes \cup {NoInode}
        /\ saved' \in 0..MaxVersion /\ content' \in [Inodes -> Empty..Torn]
    BY <2>1 DEF HttpTypeOK
  <2> QED
    BY <1>3, <2>1, <2>2, <2>3, <2>4
<1>7. CASE FileReplace(t) \/ SaveFails(t)
  <2>1. pc' = [pc EXCEPT ![t] = "send"] /\ fd' = [fd EXCEPT ![t] = NoInode] /\ UNCHANGED <<content, synced>>
    BY <1>7 DEF FileReplace, SaveFails, Goto
  <2>2. /\ path' \in {path, tmp} /\ tmp' \in {tmp, NoInode} /\ saved' \in {saved, value[t]}
    BY <1>7 DEF FileReplace, SaveFails
  <2>3. /\ tmp' \in Inodes \cup {NoInode} /\ path' \in Inodes \cup {NoInode}
        /\ content' \in [Inodes -> Empty..Torn] /\ synced' \in SUBSET Inodes
    BY <2>1, <2>2 DEF HttpTypeOK
  <2>4. saved' \in 0..MaxVersion
    BY <1>2, <2>2, Numbers DEF HttpTypeOK
  <2> QED
    BY <1>3, <2>1, <2>3, <2>4
<1> QED
  BY <1>4, <1>5, <1>6, <1>7 DEF Save

\* The steps of the stream and of its user.
LEMMA StreamTypes ==
    ASSUME HttpInv, NEW t \in Tasks, Send(t) \/ Wake(t) \/ HandleStores(t) \/ UserDrops(t)
    PROVE  HttpInv'
<1> USE DEF HttpInv
<1>1. UNCHANGED filevars /\ UNCHANGED <<value, served>>
  BY DEF Send, Wake, HandleStores, UserDrops
<1>2. UNCHANGED <<value, served, fd, content, synced, tmp, path, saved>>
  BY <1>1 DEF filevars
<1>3. channel' \in [Tasks -> {{}} \cup {{v} : v \in 1..MaxVersion}]
  <2>1. channel' = channel \/ (\E w \in {{}} \cup {{v} : v \in 1..MaxVersion} : channel' = [channel EXCEPT ![t] = w])
    <3>1. CASE Send(t)
      <4>1. value[t] \in 1..MaxVersion
        BY <3>1 DEF Send, TaskOK
      <4> QED
        BY <3>1, <4>1 DEF Send
    <3>2. CASE Wake(t)
      BY <3>2 DEF Wake, uservars
    <3>3. CASE HandleStores(t) \/ UserDrops(t)
      BY <3>3 DEF HandleStores, UserDrops
    <3> QED
      BY <3>1, <3>2, <3>3
  <2>2. channel \in [Tasks -> {{}} \cup {{v} : v \in 1..MaxVersion}]
    BY DEF HttpTypeOK
  <2> QED
    BY <2>1, <2>2
<1>4. handle' \in [Tasks -> 0..MaxVersion]
  <2>1. CASE HandleStores(t)
    <3>1. PICK v \in channel[t] : handle' = [handle EXCEPT ![t] = v]
      BY <2>1 DEF HandleStores
    <3>2. v \in 1..MaxVersion
      <4>1. channel[t] \in {{}} \cup {{x} : x \in 1..MaxVersion}
        BY DEF HttpTypeOK
      <4> QED
        BY <3>1, <4>1
    <3> QED
      BY <3>1, <3>2, Numbers DEF HttpTypeOK
  <2>2. CASE handle' = handle
    BY <2>2 DEF HttpTypeOK
  <2> QED
    BY <2>1, <2>2 DEF Send, Wake, UserDrops, uservars
<1>5. /\ first' \in [Tasks -> BOOLEAN] /\ dropped' \in [Tasks -> BOOLEAN]
      /\ previous' \in [Tasks -> 0..MaxVersion]
  BY DEF Send, Wake, HandleStores, UserDrops, uservars, HttpTypeOK
<1>6. trying' \in [Tasks -> SUBSET Urls] /\ spent' \in [Tasks -> 0..DefaultTicks]
  BY Numbers, SMT DEF Send, Wake, BeginFetch, HandleStores, UserDrops, HttpTypeOK
<1>7. /\ \A s \in Tasks : TaskOK(s)'
      /\ pc' \in [Tasks -> {"fetch", "create", "write", "sync", "replace", "load", "refetch",
                            "send", "sleep", "done", "failed"}]
  <2>1. CASE Send(t) \/ Wake(t)
    <3>1. PICK p \in {"sleep", "done", "fetch"} : pc' = [pc EXCEPT ![t] = p]
      BY <2>1 DEF Send, Wake, BeginFetch, Goto
    <3>2. value' \in [Tasks -> 0..MaxVersion] /\ \A s \in Tasks : s # t => value'[s] = value[s]
      BY <1>2 DEF HttpTypeOK
    <3> QED
      BY <1>1, <3>1, <3>2, FilesApart
  <2>2. CASE HandleStores(t) \/ UserDrops(t)
    <3>1. UNCHANGED pc
      BY <2>2 DEF HandleStores, UserDrops
    <3> QED
      BY <1>2, <3>1 DEF TaskOK, Saving, HttpTypeOK
  <2> QED
    BY <2>1, <2>2
<1>8. HttpTypeOK'
  BY <1>2, <1>3, <1>4, <1>5, <1>6, <1>7 DEF HttpTypeOK
<1> QED
  BY <1>7, <1>8

\* The servers change, and the machine goes down.
LEMMA WorldTypes ==
    ASSUME HttpInv, Crash \/ \E u \in Urls : ServerChanges(u)
    PROVE  HttpInv'
<1> USE DEF HttpInv
<1>1. CASE Crash
  <2>1. content' \in [Inodes -> Empty..Torn]
    BY <1>1, Numbers DEF Crash, HttpTypeOK
  <2>2. /\ spent' \in [Tasks -> 0..DefaultTicks] /\ value' \in [Tasks -> 0..MaxVersion]
        /\ previous' \in [Tasks -> 0..MaxVersion] /\ handle' \in [Tasks -> 0..MaxVersion]
    BY <1>1, Numbers, SMT DEF Crash
  <2>3. HttpTypeOK'
    BY <1>1, <2>1, <2>2 DEF Crash, HttpTypeOK, Fresh
  <2>4. ASSUME NEW s \in Tasks PROVE TaskOK(s)'
    BY <1>1 DEF Crash, TaskOK, Saving
  <2> QED
    BY <2>3, <2>4
<1>2. ASSUME NEW u \in Urls, ServerChanges(u) PROVE HttpInv'
  <2>1. /\ served[u] < MaxVersion /\ served' = [served EXCEPT ![u] = @ + 1]
        /\ UNCHANGED <<pc, first, trying, spent, value, previous, channel, handle, dropped, fd,
                       content, synced, tmp, path, saved>>
    BY <1>2 DEF ServerChanges, uservars, filevars
  <2>2. served[u] + 1 \in 1..MaxVersion
    BY <2>1, Numbers, SMT DEF HttpTypeOK
  <2>3. served' \in [Urls -> 1..MaxVersion]
    BY <2>1, <2>2 DEF HttpTypeOK
  <2>4. HttpTypeOK'
    BY <2>1, <2>3 DEF HttpTypeOK
  <2> QED
    BY <2>1, <2>4 DEF TaskOK, Saving
<1> QED
  BY <1>1, <1>2

\* Every step keeps the types.
LEMMA HttpStep == HttpInv /\ [HttpNext]_httpvars => HttpInv'
<1> SUFFICES ASSUME HttpInv, [HttpNext]_httpvars PROVE HttpInv'
  OBVIOUS
<1>1. CASE UNCHANGED httpvars
  <2>1. UNCHANGED <<pc, first, trying, spent, value, previous, channel, handle, dropped, fd,
                    content, synced, tmp, path, saved, served>>
    BY <1>1 DEF httpvars, uservars, filevars
  <2>2. HttpTypeOK'
    BY <2>1 DEF HttpInv, HttpTypeOK
  <2> QED
    BY <2>1, <2>2 DEF HttpInv, TaskOK, Saving
<1>2. CASE HttpNext
  BY <1>2, FetchTypes, SaveTypes, StreamTypes, WorldTypes DEF HttpNext
<1> QED
  BY <1>1, <1>2

\* The types of the tasks, the streams and the files, for any number of tasks on
\* one cache file.
THEOREM HttpTypes == HttpSpec => []HttpTypeOK
<1>1. HttpInv => HttpTypeOK
  BY DEF HttpInv
<1> QED
  BY <1>1, InitHttp, HttpStep, PTL DEF HttpSpec

-----------------------------------------------------------------------------
(* The cache file *)

\* The temporary file is the one the task writes: empty when it has been
\* created, then with the data, then on disk.
FileOK(t) ==
    /\ Saving(t) => fd[t] = tmp
    /\ pc[t] = "write" => content[tmp] = Empty
    /\ pc[t] \in {"sync", "replace"} => content[tmp] = value[t]
    /\ pc[t] = "replace" => tmp \in synced

CacheInv ==
    /\ path # NoInode => path # tmp /\ path \in synced /\ content[path] = saved
    /\ \A t \in Tasks : FileOK(t)

\* No file at first.
LEMMA InitCache == HttpInit => CacheInv
  BY DEF HttpInit, CacheInv, FileOK, Saving

\* Steps of one task that leave the files alone and do not save.
LEMMA CacheApart ==
    ASSUME HttpInv, CacheInv, NEW t \in Tasks, \A s \in Tasks : s = t,
           UNCHANGED <<fd, content, synced, tmp, path, saved>>,
           \/ pc' = pc /\ value' = value
           \/ \E p \in {"fetch", "create", "load", "refetch", "send", "sleep", "done", "failed"} :
                 pc' = [pc EXCEPT ![t] = p]
    PROVE  CacheInv'
<1>1. CASE pc' = pc /\ value' = value
  BY <1>1 DEF CacheInv, FileOK, Saving
<1>2. ASSUME NEW p \in {"fetch", "create", "load", "refetch", "send", "sleep", "done", "failed"},
             pc' = [pc EXCEPT ![t] = p]
      PROVE  CacheInv'
  <2>1. pc'[t] = p
    BY <1>2 DEF HttpInv, HttpTypeOK
  <2>2. \A s \in Tasks : FileOK(s)'
    BY <2>1 DEF FileOK, Saving
  <2> QED
    BY <2>2 DEF CacheInv
<1> QED
  BY <1>1, <1>2

\* The steps of a save: the cache file is replaced only by a whole file that is on
\* disk.
LEMMA CacheSave ==
    ASSUME HttpInv, CacheInv, NEW t \in Tasks, \A s \in Tasks : s = t, Save(t) \/ SaveFails(t)
    PROVE  CacheInv'
<1>1. /\ FileOK(t) /\ TaskOK(t) /\ NoInode \notin Inodes
      /\ pc \in [Tasks -> {"fetch", "create", "write", "sync", "replace", "load", "refetch",
                           "send", "sleep", "done", "failed"}]
      /\ fd \in [Tasks -> Inodes \cup {NoInode}] /\ content \in [Inodes -> Empty..Torn]
  BY HttpAssumption DEF HttpInv, HttpTypeOK, CacheInv
<1>2. UNCHANGED value
  BY DEF Save, FileCreate, FileWrite, FileSync, FileReplace, SaveFails
<1>3. CASE FileCreate(t)
  <2>1. PICK i \in Inodes :
            /\ fd' = [fd EXCEPT ![t] = i] /\ tmp' = i
            /\ content' = [content EXCEPT ![i] = Empty] /\ synced' = synced \ {i}
            /\ i # path \/ i = tmp
    BY <1>3, CreatedInode DEF HttpInv
  <2>2. pc' = [pc EXCEPT ![t] = "write"] /\ UNCHANGED <<path, saved>>
    BY <1>3 DEF FileCreate, Goto
  <2>3. path # NoInode => path # i /\ path \in Inodes
    BY <2>1 DEF CacheInv, HttpInv, HttpTypeOK
  <2>4. path # NoInode => path' # tmp' /\ path' \in synced' /\ content'[path'] = saved'
    BY <1>1, <2>1, <2>2, <2>3 DEF CacheInv
  <2>5. pc'[t] = "write" /\ fd'[t] = i /\ content'[i] = Empty
    BY <1>1, <2>1, <2>2
  <2>6. FileOK(t)'
    BY <2>1, <2>5 DEF FileOK, Saving
  <2> QED
    BY <2>2, <2>4, <2>6 DEF CacheInv
<1>4. CASE FileWrite(t)
  <2>1. /\ pc[t] = "write" /\ pc' = [pc EXCEPT ![t] = "sync"] /\ UNCHANGED <<fd, tmp, path, saved>>
        /\ synced' = synced \ {fd[t]}
    BY <1>4 DEF FileWrite, Goto
  <2>2. fd[t] = tmp /\ tmp \in Inodes /\ content[tmp] = Empty
    BY <1>1, <2>1 DEF FileOK, TaskOK, Saving
  <2>3. content' = [content EXCEPT ![tmp] = value[t]]
    BY <1>4, <2>2 DEF FileWrite
  <2>4. path # NoInode => path' # tmp' /\ path' \in synced' /\ content'[path'] = saved'
    BY <1>1, <2>1, <2>2, <2>3, SMT DEF CacheInv
  <2>5. pc'[t] = "sync" /\ content'[tmp] = value[t]
    BY <1>1, <2>1, <2>2, <2>3
  <2>6. FileOK(t)'
    BY <1>2, <2>1, <2>2, <2>5 DEF FileOK, Saving
  <2> QED
    BY <2>1, <2>4, <2>6 DEF CacheInv
<1>5. CASE FileSync(t)
  <2>1. /\ pc[t] = "sync" /\ pc' = [pc EXCEPT ![t] = "replace"]
        /\ UNCHANGED <<fd, content, tmp, path, saved>> /\ synced' = synced \cup {fd[t]}
    BY <1>5 DEF FileSync, Goto
  <2>2. fd[t] = tmp /\ content[tmp] = value[t]
    BY <1>1, <2>1 DEF FileOK, Saving
  <2>3. pc'[t] = "replace"
    BY <1>1, <2>1
  <2>4. FileOK(t)'
    BY <1>2, <2>1, <2>2, <2>3 DEF FileOK, Saving
  <2> QED
    BY <2>1, <2>4 DEF CacheInv
<1>6. CASE FileReplace(t)
  <2>1. /\ pc[t] = "replace" /\ pc' = [pc EXCEPT ![t] = "send"] /\ UNCHANGED <<content, synced>>
        /\ \/ tmp # NoInode /\ path' = tmp /\ tmp' = NoInode /\ saved' = value[t]
           \/ tmp = NoInode /\ UNCHANGED <<path, tmp, saved>>
    BY <1>6 DEF FileReplace, Goto
  <2>2. tmp \in Inodes /\ content[tmp] = value[t] /\ tmp \in synced
    BY <1>1, <2>1 DEF FileOK, TaskOK, Saving
  <2>3. path' = tmp /\ tmp' = NoInode /\ saved' = value[t] /\ tmp # NoInode
    BY <1>1, <2>1, <2>2
  <2>4. pc'[t] = "send"
    BY <1>1, <2>1
  <2>5. FileOK(t)'
    BY <2>4 DEF FileOK, Saving
  <2> QED
    BY <2>1, <2>2, <2>3, <2>5 DEF CacheInv
<1>7. CASE SaveFails(t)
  <2>1. pc' = [pc EXCEPT ![t] = "send"] /\ UNCHANGED <<content, synced, tmp, path, saved>>
    BY <1>7 DEF SaveFails, Goto
  <2>2. pc'[t] = "send"
    BY <1>1, <2>1
  <2>3. FileOK(t)'
    BY <2>2 DEF FileOK, Saving
  <2> QED
    BY <2>1, <2>3 DEF CacheInv
<1> QED
  BY <1>3, <1>4, <1>5, <1>6, <1>7 DEF Save

\* Every step of the one task, its user, the servers and the machine keeps the
\* cache file whole.
LEMMA CacheStep ==
    ASSUME \A s, t \in Tasks : s = t
    PROVE  HttpInv /\ CacheInv /\ [HttpNext]_httpvars => CacheInv'
<1> SUFFICES ASSUME HttpInv, CacheInv, [HttpNext]_httpvars PROVE CacheInv'
  OBVIOUS
<1>1. ASSUME NEW t \in Tasks,
             \/ \E u \in Urls : FetchSucceeds(t, u) \/ \E f \in Failures : RequestFails(t, u, f)
             \/ FetchFails(t) \/ LoadFile(t) \/ Send(t) \/ Wake(t) \/ HandleStores(t)
             \/ UserDrops(t) \/ Tick(t)
      PROVE  CacheInv'
  <2>1. UNCHANGED <<fd, content, synced, tmp, path, saved>>
    BY <1>1 DEF FetchSucceeds, RequestFails, FetchFails, LoadFile, Send, Wake, HandleStores, UserDrops,
         Tick, filevars
  <2>2. \/ pc' = pc /\ value' = value
        \/ \E p \in {"fetch", "create", "load", "refetch", "send", "sleep", "done", "failed"} :
              pc' = [pc EXCEPT ![t] = p]
    <3>1. CASE \E u \in Urls : FetchSucceeds(t, u)
      BY <3>1 DEF FetchSucceeds, Goto, AfterFetch
    <3>2. CASE \E u \in Urls, f \in Failures : RequestFails(t, u, f)
      BY <3>2 DEF RequestFails
    <3>3. CASE FetchFails(t)
      BY <3>3 DEF FetchFails, Goto
    <3>4. CASE LoadFile(t)
      BY <3>4 DEF LoadFile, BeginFetch, Goto
    <3>5. CASE Send(t) \/ Wake(t)
      BY <3>5 DEF Send, Wake, BeginFetch, Goto
    <3>6. CASE HandleStores(t) \/ UserDrops(t) \/ Tick(t)
      BY <3>6 DEF HandleStores, UserDrops, Tick
    <3> QED
      BY <1>1, <3>1, <3>2, <3>3, <3>4, <3>5, <3>6
  <2> QED
    BY <2>1, <2>2, CacheApart
<1>2. ASSUME NEW t \in Tasks, Save(t) \/ SaveFails(t) PROVE CacheInv'
  BY <1>2, CacheSave
<1>3. CASE (\E u \in Urls : ServerChanges(u)) \/ UNCHANGED httpvars
  <2>1. UNCHANGED <<pc, value, fd, content, synced, tmp, path, saved>>
    BY <1>3 DEF ServerChanges, httpvars, filevars
  <2> QED
    BY <2>1 DEF CacheInv, FileOK, Saving
<1>4. CASE Crash
  <2>1. /\ content' = [i \in Inodes |-> IF i \in synced THEN content[i] ELSE Torn]
        /\ pc' = [t \in Tasks |-> "fetch"] /\ UNCHANGED <<synced, tmp, path, saved>>
    BY <1>4 DEF Crash
  <2>2. path # NoInode => path \in Inodes
    BY DEF HttpInv, HttpTypeOK
  <2>3. path # NoInode => content'[path] = saved
    BY <2>1, <2>2 DEF CacheInv
  <2>4. \A s \in Tasks : FileOK(s)'
    BY <2>1 DEF FileOK, Saving
  <2> QED
    BY <2>1, <2>3, <2>4 DEF CacheInv
<1> QED
  BY <1>1, <1>2, <1>3, <1>4 DEF HttpNext

\* The cache file of one task, once there is one, always holds the version saved
\* last, whole: between the steps of atomic_save_file, through its failures and
\* through any number of crashes.
THEOREM CacheStaysWhole ==
    ASSUME \A s, t \in Tasks : s = t
    PROVE  HttpSpec => []CacheWhole
<1>1. CacheInv => CacheWhole
  BY DEF CacheInv, CacheWhole
<1>2. HttpInv /\ CacheInv /\ [HttpNext]_httpvars => CacheInv'
  BY CacheStep
<1> QED
  BY <1>1, <1>2, InitHttp, InitCache, HttpStep, PTL DEF HttpSpec
=============================================================================
