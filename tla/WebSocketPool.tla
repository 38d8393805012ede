--------------------------- MODULE WebSocketPool ---------------------------
(***************************************************************************)
(* The JavaScript client: the pool of redundant connections                *)
(* (websocket-pool.ts), each a ResilientWebSocket that replaces its socket *)
(* (resilient-websocket.ts), and the creation of both under an abort       *)
(* signal (client.ts).                                                     *)
(*                                                                         *)
(* JavaScript runs one callback at a time, so every event, timer and call  *)
(* is one action; what comes after an await on a Blob is another.  Timers  *)
(* fire at any time while armed.                                           *)
(***************************************************************************)
EXTENDS Naturals, FiniteSets

CONSTANTS
    Conns,          \* the ResilientWebSockets of the pool
    SubIds,         \* subscription ids
    Texts, Errors, Blobs,   \* messages: text, text that reports an error, binary
    ListenerThrows, \* a reconnect listener of the user may throw
    MaxSockets,     \* bound: sockets of a connection that are not closed
    None

Messages == Texts \cup Errors \cup Blobs
Sockets == 1..MaxSockets

ASSUME PoolAssumption == MaxSockets \in Nat \ {0} /\ None \notin Sockets

VARIABLES
    socket,         \* state of every socket; a closed one may stand for the next
    wsClient,       \* the socket a connection uses, or None
    wsUserClosed, heartbeat, retry, isReconnecting,
    server,         \* history: subscriptions the server has for a socket
    subscriptions, isShutdown, wasAllDown,
    create,         \* PythLazerClient.create: "waiting", "resolved", "returned", "rejected"
    aborted,        \* the abort signal
    feed,           \* messages each connection has still to receive
    hashing,        \* binary messages whose key is awaited
    cache,          \* keys seen
    delivered,      \* history: how often a message reached the listeners
    reported        \* history: how often it reached the error handler

rwsvars == <<socket, wsClient, wsUserClosed, heartbeat, retry, isReconnecting>>
createvars == <<create, aborted>>
msgvars == <<feed, hashing, cache, delivered, reported>>
vars == <<rwsvars, server, subscriptions, isShutdown, wasAllDown, createvars, msgvars>>

\* WebSocketPool.create up to its first await: every connection has its first socket.
Init ==
    /\ socket = [c \in Conns |-> [k \in Sockets |-> IF k = 1 THEN "connecting" ELSE "closed"]]
    /\ wsClient = [c \in Conns |-> 1]
    /\ wsUserClosed = [c \in Conns |-> FALSE] /\ heartbeat = [c \in Conns |-> FALSE]
    /\ retry = [c \in Conns |-> FALSE] /\ isReconnecting = [c \in Conns |-> FALSE]
    /\ server = [c \in Conns |-> [k \in Sockets |-> {}]]
    /\ subscriptions = {} /\ isShutdown = FALSE /\ wasAllDown = TRUE
    /\ create = "waiting" /\ aborted = FALSE
    /\ feed = [c \in Conns |-> Messages] /\ hashing = {} /\ cache = {}
    /\ delivered = [m \in Messages |-> 0] /\ reported = [m \in Messages |-> 0]

isConnected(c) == wsClient[c] # None /\ socket[c][wsClient[c]] = "open"

areAllConnectionsDown == \A c \in Conns : ~isConnected(c) \/ isReconnecting[c]

isAnyConnectionEstablished == \E c \in Conns : isConnected(c)

\* closeWebSocket: the timers keep running.
closeWebSocket(c) ==
    [k \in Sockets |-> IF k = wsClient[c] /\ socket[c][k] # "closed" THEN "closing" ELSE socket[c][k]]

\* shutdown of the pool (the first call of it): every connection is closed, the
\* subscriptions and the listeners are removed, the interval is cleared.
Shutdown ==
    /\ isShutdown' = TRUE
    /\ wsUserClosed' = [c \in Conns |-> TRUE]
    /\ socket' = [c \in Conns |-> closeWebSocket(c)]
    /\ wsClient' = [c \in Conns |-> None]
    /\ subscriptions' = {}
    /\ UNCHANGED <<heartbeat, retry, isReconnecting, server, wasAllDown, msgvars>>

Running == UNCHANGED <<rwsvars, server, subscriptions, isShutdown, wasAllDown, msgvars>>

-----------------------------------------------------------------------------
(* PythLazerClient.create and WebSocketPool.create *)

\* The user aborts; before there is a client and a pool, handleAbort finds
\* nothing to shut down. Once create has returned it has removed its handler.
Abort ==
    /\ ~aborted /\ aborted' = TRUE
    /\ UNCHANGED create /\ Running

\* Mutant: the signal is not looked at while the pool waits.
PollUnaware ==
    /\ create = "waiting" /\ isAnyConnectionEstablished
    /\ create' = "resolved" /\ Running
    /\ UNCHANGED aborted

\* A turn of the loop of WebSocketPool.create.
Poll ==
    /\ create = "waiting"
    /\ \/ aborted /\ create' = "rejected" /\ Shutdown
       \/ ~aborted /\ isAnyConnectionEstablished /\ create' = "resolved" /\ Running
    /\ UNCHANGED aborted

\* PythLazerClient.create goes on: it looks at the signal again.
CreateReturns ==
    /\ create = "resolved"
    /\ \/ aborted /\ create' = "rejected" /\ Shutdown
       \/ ~aborted /\ create' = "returned" /\ Running
    /\ UNCHANGED aborted

-----------------------------------------------------------------------------
(* ResilientWebSocket *)

\* handleReconnect, with s the sockets of the connection as they are now.
HandleReconnect(c, s) ==
    /\ socket' = [socket EXCEPT ![c] = s]
    /\ IF wsUserClosed[c] THEN UNCHANGED <<wsClient, heartbeat, retry, isReconnecting>>
       ELSE /\ heartbeat' = [heartbeat EXCEPT ![c] = FALSE]
            /\ wsClient' = [wsClient EXCEPT ![c] = None]
            /\ isReconnecting' = [isReconnecting EXCEPT ![c] = TRUE]
            /\ retry' = [retry EXCEPT ![c] = TRUE]
    /\ UNCHANGED wsUserClosed

\* send: on the connection's socket, if that is open.
Sent(c, s, ids) ==
    IF wsClient[c] # None /\ s[wsClient[c]] = "open"
    THEN [server[c] EXCEPT ![wsClient[c]] = @ \cup ids] ELSE server[c]

\* onReconnect: the listeners of the user, then the subscriptions, one by one.
OnReconnect(c, s) ==
    IF wsUserClosed[c] \/ isShutdown THEN {server[c]}
    ELSE {Sent(c, s, subscriptions)} \cup (IF ListenerThrows THEN {server[c]} ELSE {})

\* The "open" event.
Open(c, k) ==
    /\ socket[c][k] = "connecting"
    /\ LET s == [socket[c] EXCEPT ![k] = "open"]
       IN  /\ socket' = [socket EXCEPT ![c] = s]
           /\ \E to \in OnReconnect(c, s) : server' = [server EXCEPT ![c] = to]
    /\ isReconnecting' = [isReconnecting EXCEPT ![c] = FALSE]
    /\ heartbeat' = [heartbeat EXCEPT ![c] = TRUE]
    /\ UNCHANGED <<wsClient, wsUserClosed, retry, subscriptions, isShutdown, wasAllDown, createvars,
                   msgvars>>

\* The "close" event: the server, the network, or a socket told to close.
Close(c, k) ==
    /\ socket[c][k] \in {"connecting", "open", "closing"}
    /\ HandleReconnect(c, [socket[c] EXCEPT ![k] = "closed"])
    /\ server' = [server EXCEPT ![c][k] = {}]
    /\ UNCHANGED <<subscriptions, isShutdown, wasAllDown, createvars, msgvars>>

\* The heartbeat timer: the listeners, then the socket is terminated, and the
\* "close" event that follows reconnects.
HeartbeatTimeout(c) ==
    /\ heartbeat[c]
    /\ heartbeat' = [heartbeat EXCEPT ![c] = FALSE]
    /\ IF wsClient[c] # None
       THEN socket' = [socket EXCEPT ![c][wsClient[c]] = IF @ = "closed" THEN @ ELSE "closing"]
       ELSE UNCHANGED socket
    /\ UNCHANGED <<wsClient, wsUserClosed, retry, isReconnecting, server, subscriptions, isShutdown,
                   wasAllDown, createvars, msgvars>>

FreeSocket(c) == CHOOSE k \in Sockets : socket[c][k] = "closed"

\* new WebSocket(...), which may throw.
NewSocket(c) ==
    \/ /\ \E k \in Sockets : socket[c][k] = "closed"
       /\ socket' = [socket EXCEPT ![c][FreeSocket(c)] = "connecting"]
       /\ wsClient' = [wsClient EXCEPT ![c] = FreeSocket(c)]
       /\ retry' = [retry EXCEPT ![c] = FALSE]
       /\ UNCHANGED <<wsUserClosed, heartbeat, isReconnecting>>
    \/ HandleReconnect(c, socket[c])

\* Mutant: the retry timer creates a socket although the user closed.
RetryUnaware(c) ==
    /\ retry[c] /\ wsClient[c] = None /\ NewSocket(c)
    /\ UNCHANGED <<server, subscriptions, isShutdown, wasAllDown, createvars, msgvars>>

\* The retry timer: startWebSocket.
RetryTimeout(c) ==
    /\ retry[c]
    /\ \/ /\ wsUserClosed[c] \/ wsClient[c] # None
          /\ retry' = [retry EXCEPT ![c] = FALSE]
          /\ UNCHANGED <<socket, wsClient, wsUserClosed, heartbeat, isReconnecting>>
       \/ ~wsUserClosed[c] /\ wsClient[c] = None /\ NewSocket(c)
    /\ UNCHANGED <<server, subscriptions, isShutdown, wasAllDown, createvars, msgvars>>

-----------------------------------------------------------------------------
(* Messages *)

\* emitPoolError: to the error handlers, which shutdown removes.
emitPoolError(m) == reported' = [reported EXCEPT ![m] = IF isShutdown THEN @ ELSE @ + 1]

\* handleErrorMessages throws on these.
IsErrorMessage(m) == m \in Errors

\* dedupeHandler after its await: a new key is remembered; an error is thrown
\* and reported, other messages go to the listeners there are now.
Dedupe(m) ==
    IF m \in cache THEN UNCHANGED <<cache, delivered, reported>>
    ELSE /\ cache' = cache \cup {m}
         /\ IF IsErrorMessage(m)
            THEN emitPoolError(m) /\ UNCHANGED delivered
            ELSE delivered' = [delivered EXCEPT ![m] = IF isShutdown THEN @ ELSE @ + 1]
                 /\ UNCHANGED reported

\* The "message" event; a closing socket still receives.
Message(c, k, m) ==
    /\ socket[c][k] \in {"open", "closing"} /\ m \in feed[c]
    /\ feed' = [feed EXCEPT ![c] = @ \ {m}]
    /\ heartbeat' = [heartbeat EXCEPT ![c] = TRUE]
    /\ IF m \in Blobs THEN hashing' = hashing \cup {<<c, m>>} /\ UNCHANGED <<cache, delivered, reported>>
                      ELSE Dedupe(m) /\ UNCHANGED hashing
    /\ UNCHANGED <<socket, wsClient, wsUserClosed, retry, isReconnecting, server, subscriptions,
                   isShutdown, wasAllDown, createvars>>

\* Mutant: the key is looked up before the await and set after it.
KeyReadyStale(c, m) ==
    /\ <<c, m>> \in hashing
    /\ hashing' = hashing \ {<<c, m>>}
    /\ cache' = cache \cup {m}
    /\ delivered' = [delivered EXCEPT ![m] = IF isShutdown THEN @ ELSE @ + 1]
    /\ UNCHANGED <<rwsvars, server, subscriptions, isShutdown, wasAllDown, createvars, feed, reported>>

\* The bytes of a Blob have been read.
KeyReady(c, m) ==
    /\ <<c, m>> \in hashing
    /\ hashing' = hashing \ {<<c, m>>}
    /\ Dedupe(m)
    /\ UNCHANGED <<rwsvars, server, subscriptions, isShutdown, wasAllDown, createvars, feed>>

\* The TTL cache forgets a key; its ten seconds outlast the copies on other connections.
Expire(m) ==
    /\ m \in cache /\ \A c \in Conns : m \notin feed[c] /\ <<c, m>> \notin hashing
    /\ cache' = cache \ {m}
    /\ UNCHANGED <<rwsvars, server, subscriptions, isShutdown, wasAllDown, createvars, feed, hashing,
                   delivered, reported>>

-----------------------------------------------------------------------------
(* Calls of the user and the monitor *)

\* sendRequest: on every connection that is open; a failed send is reported.
SendRequest(ids) == [c \in Conns |-> Sent(c, socket[c], ids)]

addSubscription(id) ==
    /\ create = "returned" /\ ~isShutdown
    /\ subscriptions' = subscriptions \cup {id}
    /\ server' = SendRequest({id})
    /\ UNCHANGED <<rwsvars, isShutdown, wasAllDown, createvars, msgvars>>

\* Mutant: a subscription stays in the map the connections are restored from.
RemoveFromServer(id) ==
    /\ create = "returned" /\ ~isShutdown
    /\ server' = [c \in Conns |-> [k \in Sockets |->
                    IF isConnected(c) /\ k = wsClient[c] THEN server[c][k] \ {id} ELSE server[c][k]]]
    /\ UNCHANGED <<subscriptions, rwsvars, isShutdown, wasAllDown, createvars, msgvars>>

removeSubscription(id) ==
    /\ create = "returned" /\ ~isShutdown
    /\ subscriptions' = subscriptions \ {id}
    /\ server' = [c \in Conns |-> [k \in Sockets |->
                    IF isConnected(c) /\ k = wsClient[c] THEN server[c][k] \ {id} ELSE server[c][k]]]
    /\ UNCHANGED <<rwsvars, isShutdown, wasAllDown, createvars, msgvars>>

UserShutsDown ==
    /\ create = "returned" /\ ~isShutdown /\ Shutdown /\ UNCHANGED createvars

\* checkConnectionStates: the listeners are called when the answer changes.
CheckConnectionStates ==
    /\ ~isShutdown /\ wasAllDown # areAllConnectionsDown
    /\ wasAllDown' = areAllConnectionsDown
    /\ UNCHANGED <<rwsvars, server, subscriptions, isShutdown, createvars, msgvars>>

Next ==
    \/ Abort \/ Poll \/ CreateReturns \/ UserShutsDown \/ CheckConnectionStates
    \/ \E c \in Conns :
          \/ HeartbeatTimeout(c) \/ RetryTimeout(c)
          \/ \E k \in Sockets :
                \/ Open(c, k) \/ Close(c, k)
                \/ \E m \in Messages : Message(c, k, m)
          \/ \E m \in Blobs : KeyReady(c, m)
    \/ \E m \in Messages : Expire(m)
    \/ \E id \in SubIds : addSubscription(id) \/ removeSubscription(id)

Spec == Init /\ [][Next]_vars

\* Timers fire, the loops of create go on, a socket told to close closes, and
\* creating and opening a socket succeed again and again.
Fairness ==
    /\ WF_vars(Poll) /\ WF_vars(CreateReturns) /\ WF_vars(CheckConnectionStates)
    /\ \A c \in Conns :
          /\ WF_vars(RetryTimeout(c)) /\ SF_vars(RetryTimeout(c) /\ wsClient'[c] # None)
          /\ WF_vars(\E k \in Sockets : socket[c][k] = "closing" /\ Close(c, k))
          /\ SF_vars(\E k \in Sockets : Open(c, k))

FairSpec == Spec /\ Fairness

-----------------------------------------------------------------------------
(* Properties *)

TypeOK ==
    /\ socket \in [Conns -> [Sockets -> {"connecting", "open", "closing", "closed"}]]
    /\ wsClient \in [Conns -> Sockets \cup {None}]
    /\ wsUserClosed \in [Conns -> BOOLEAN] /\ heartbeat \in [Conns -> BOOLEAN]
    /\ retry \in [Conns -> BOOLEAN] /\ isReconnecting \in [Conns -> BOOLEAN]
    /\ server \in [Conns -> [Sockets -> SUBSET SubIds]] /\ subscriptions \subseteq SubIds
    /\ isShutdown \in BOOLEAN /\ wasAllDown \in BOOLEAN /\ aborted \in BOOLEAN
    /\ create \in {"waiting", "resolved", "returned", "rejected"}
    /\ feed \in [Conns -> SUBSET Messages] /\ hashing \subseteq Conns \X Blobs
    /\ cache \subseteq Messages
    /\ delivered \in [Messages -> 0..1] /\ reported \in [Messages -> 0..1]

\* A connection never has two sockets at once: the heartbeat timeout, the close
\* event and the retry timer, in any order, replace a socket only when it is gone.
OneSocket == \A c \in Conns : Cardinality({k \in Sockets : socket[c][k] # "closed"}) <= 1

\* What the server streams on every open connection is what the user subscribed
\* to, whatever was asked while the connection was down (addSubscription,
\* removeSubscription, onReconnect).
SubscriptionsRestored ==
    \A c \in Conns : isConnected(c) => server[c][wsClient[c]] = subscriptions

\* Every connection is one socket, which carries the subscriptions of the user
\* whenever it is open (startWebSocket, onReconnect, addSubscription).
ConnectionsServe == OneSocket /\ SubscriptionsRestored

\* After shutdown no connection is made and nothing reaches the user, although
\* the timers are not cleared and sockets still receive while they close.
NothingAfterShutdown ==
    [][isShutdown => /\ delivered' = delivered /\ reported' = reported
                     /\ \A c \in Conns : \A k \in Sockets :
                           socket'[c][k] \in {"connecting", "open"} => socket'[c][k] = socket[c][k]]_vars

\* A message that arrives on several connections reaches the listeners, or the
\* error handler, exactly once, also when the keys of its copies are awaited at
\* the same time.
EachMessageOnce ==
    \A m \in Messages :
        /\ delivered[m] + reported[m] <= 1
        /\ (/\ ~isShutdown /\ \E c \in Conns : m \notin feed[c]
            /\ \A c \in Conns : <<c, m>> \notin hashing) => delivered[m] + reported[m] = 1

\* An abort before create returns ends with every socket closed and the promise
\* rejected: no connection is left behind.
AbortLeavesNothing ==
    aborted /\ create \in {"waiting", "resolved"}
        ~> /\ create = "rejected" /\ isShutdown
           /\ \A c \in Conns : \A k \in Sockets : socket[c][k] = "closed"

\* Every connection of a pool that is not shut down is open again and again, and
\* the monitor comes to agree with the sockets.
StreamComesBack ==
    /\ \A c \in Conns : []<>(isShutdown \/ isConnected(c))
    /\ []<>(isShutdown \/ wasAllDown = areAllConnectionsDown)

\* A pool ends or serves: an aborted creation leaves no connection behind, and the
\* connections of a pool in use come back (create, handleReconnect).
EndsOrServes == AbortLeavesNothing /\ StreamComesBack
=============================================================================
