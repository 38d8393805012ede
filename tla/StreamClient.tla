---------------------------- MODULE StreamClient ----------------------------
(***************************************************************************)
(* The stream client (stream_client.rs): connections of ResilientWs that   *)
(* share one response channel, the task that removes duplicates and feeds  *)
(* the user's channel, the calls of the user, and the end of it all when   *)
(* the user drops the receiver.                                            *)
(*                                                                         *)
(* The cache of the duplicates keeps a response for Ttl ticks; its bound   *)
(* of DEDUP_CACHE_SIZE entries is not modelled.                            *)
(***************************************************************************)
EXTENDS ResilientWs

CONSTANTS
    ws_connections,     \* the connections in the order of the vector, at least one
    channel_capacity,   \* of the user's channel
    Ttl,                \* DEDUP_TTL, in ticks
    Sends,              \* the responses each server sends, once, all copies within the TTL
    PromptReader        \* the user reads in less than a tick when the channel is full

ASSUME ClientAssumption ==
    /\ ws_connections \in Seq(Conns) /\ ws_connections # <<>>
    /\ \A c \in Conns : \E i \in DOMAIN ws_connections :
          \A j \in DOMAIN ws_connections : ws_connections[j] = c <=> j = i
    /\ channel_capacity \in Nat \ {0} /\ Ttl \in Nat \ {0}
    /\ Sends \in [Conns -> SUBSET Msgs] /\ PromptReader \in BOOLEAN

VARIABLES
    dedup,      \* the duplicates' task: "recv", "send" or "done"
    sending,    \* the response it is sending
    seen,       \* seen_updates: ticks each response stays in the cache
    out,        \* the user's channel
    dropped,    \* the user dropped the receiver
    client,     \* the user still has the client
    call,       \* the call the user is in: the request and the next connection
    failed,     \* the last call returned an error
    got,        \* the responses each connection has received
    since,      \* ticks since the first copy of a response was received
    delivered   \* how often a response was put in the user's channel, at most 2

own == <<dedup, sending, seen, out, dropped, client, call, failed, got, since, delivered>>
vars == <<wsvars, own>>

NoCall == <<>>

Init ==
    /\ WsInit
    /\ dedup = "recv" /\ sending = <<>> /\ seen = [m \in Msgs |-> 0]
    /\ out = <<>> /\ dropped = FALSE /\ client = TRUE /\ call = NoCall /\ failed = FALSE
    /\ got = [c \in Conns |-> {}] /\ since = [m \in Msgs |-> 0]
    /\ delivered = [m \in Msgs |-> 0]

-----------------------------------------------------------------------------
(* Connections *)

\* A step of a connection task; a timeout ends a connection as a failing socket
\* does, and both may do so at any time.
Connection(c) ==
    /\ \/ Run(c) \/ SleepEnds(c) \/ Connected(c) \/ ConnectFails(c) \/ Replay(c)
       \/ NoticeClosed(c) \/ Forward(c) \/ ForwardFails(c) \/ SocketFails(c) \/ HandleRequest(c)
    /\ UNCHANGED own

ClientReceives(c, m) ==
    /\ m \in Sends[c] \ got[c] /\ since[m] < Ttl
    /\ Receive(c, m)
    /\ got' = [got EXCEPT ![c] = @ \cup {m}]
    /\ UNCHANGED <<dedup, sending, seen, out, dropped, client, call, failed, since, delivered>>

-----------------------------------------------------------------------------
(* The duplicates' task *)

Deliver(m) ==
    /\ out' = Append(out, m)
    /\ delivered' = [delivered EXCEPT ![m] = IF @ < 2 THEN @ + 1 ELSE @]

\* Every return of the task: the receiver of the responses is dropped with it.
TaskReturns ==
    /\ dedup' = "done" /\ sending' = <<>>
    /\ responses' = <<>> /\ closed' = TRUE

\* The user's receiver is gone, or all connection tasks are.
DedupEnds ==
    /\ \/ dropped /\ dedup \in {"recv", "send"}
       \/ dedup = "recv" /\ responses = <<>> /\ \A c \in Conns : pc[c] = "done"
    /\ TaskReturns
    /\ UNCHANGED <<pc, requests, subscriptions, Socket, want, asked, calls,
                   seen, out, dropped, client, call, failed, got, since, delivered>>

\* Mutant: a response is remembered only when it could be sent at once.
RememberSent(m) ==
    /\ dedup = "recv" /\ responses # <<>> /\ m = Head(responses)
    /\ responses' = Tail(responses)
    /\ \/ /\ seen[m] > 0
          /\ UNCHANGED <<dedup, sending, seen, out, delivered, closed>>
       \/ /\ seen[m] = 0 /\ ~dropped /\ Len(out) < channel_capacity
          /\ seen' = [seen EXCEPT ![m] = Ttl]
          /\ Deliver(m)
          /\ UNCHANGED <<dedup, sending, closed>>
       \/ /\ seen[m] = 0 /\ ~dropped /\ Len(out) = channel_capacity
          /\ dedup' = "send" /\ sending' = <<m>>
          /\ UNCHANGED <<seen, out, delivered, closed>>
    /\ UNCHANGED <<pc, requests, subscriptions, Socket, want, asked, calls,
                   dropped, client, call, failed, got, since>>

\* A response is taken: dropped when it is in the cache, otherwise remembered
\* and sent, now or when there is room.
DedupTakes(m) ==
    /\ dedup = "recv" /\ responses # <<>> /\ m = Head(responses)
    /\ responses' = Tail(responses)
    /\ \/ /\ seen[m] > 0
          /\ UNCHANGED <<dedup, sending, seen, out, delivered, closed>>
       \/ /\ seen[m] = 0 /\ ~dropped
          /\ seen' = [seen EXCEPT ![m] = Ttl]
          /\ IF Len(out) < channel_capacity
               THEN Deliver(m) /\ UNCHANGED <<dedup, sending, closed>>
               ELSE dedup' = "send" /\ sending' = <<m>> /\ UNCHANGED <<out, delivered, closed>>
    /\ UNCHANGED <<pc, requests, subscriptions, Socket, want, asked, calls,
                   dropped, client, call, failed, got, since>>

\* send, after the channel was full.
DedupSends ==
    /\ dedup = "send" /\ ~dropped /\ Len(out) < channel_capacity
    /\ dedup' = "recv" /\ sending' = <<>>
    /\ Deliver(Head(sending))
    /\ UNCHANGED <<wsvars, seen, dropped, client, call, failed, got, since>>

-----------------------------------------------------------------------------
(* The user *)

UserReads ==
    /\ out # <<>> /\ ~dropped /\ out' = Tail(out)
    /\ UNCHANGED <<wsvars, dedup, sending, seen, dropped, client, call, failed, got, since,
                   delivered>>

UserDropsReceiver ==
    /\ ~dropped /\ dropped' = TRUE /\ out' = <<>>
    /\ UNCHANGED <<wsvars, dedup, sending, seen, client, call, failed, got, since, delivered>>

\* The client is dropped: its connections take no more requests.
UserDropsClient ==
    /\ client /\ call = NoCall /\ client' = FALSE
    /\ UNCHANGED <<wsvars, dedup, sending, seen, out, dropped, call, failed, got, since, delivered>>

\* subscribe or unsubscribe is called.
UserCalls(r) ==
    /\ client /\ call = NoCall /\ calls < MaxCalls
    /\ \A c \in Conns : MayAsk(c, r)
    /\ call' = <<r, 1>> /\ calls' = calls + 1 /\ failed' = FALSE
    /\ UNCHANGED <<pc, requests, subscriptions, Socket, want, responses, closed, asked,
                   dedup, sending, seen, out, dropped, client, got, since, delivered>>

\* The loop over the connections; an error ends it.
CallSends ==
    /\ call # NoCall
    /\ LET c == ws_connections[call[2]]
       IN  /\ Ask(c, call[1])
           /\ call' = IF call[2] = Len(ws_connections) THEN NoCall ELSE <<call[1], call[2] + 1>>
    /\ UNCHANGED <<pc, subscriptions, Socket, want, responses, closed, calls,
                   dedup, sending, seen, out, dropped, client, failed, got, since, delivered>>

CallFails ==
    /\ call # NoCall /\ pc[ws_connections[call[2]]] = "done"
    /\ call' = NoCall /\ failed' = TRUE
    /\ UNCHANGED <<wsvars, dedup, sending, seen, out, dropped, client, got, since, delivered>>

\* A task that can go on does so in less than a tick.
TasksWait ==
    /\ dedup = "recv" => responses = <<>>
    /\ dedup = "send" => Len(out) = channel_capacity
    /\ Len(responses) < ResponseCapacity => \A c \in Conns : held[c] = <<>>

Tick ==
    /\ TasksWait /\ (PromptReader => dedup # "send")
    /\ \E m \in Msgs : seen[m] > 0 \/ (since[m] < Ttl /\ \E c \in Conns : m \in got[c])
    /\ seen' = [m \in Msgs |-> IF seen[m] > 0 THEN seen[m] - 1 ELSE 0]
    /\ since' = [m \in Msgs |-> IF since[m] < Ttl /\ \E c \in Conns : m \in got[c]
                                  THEN since[m] + 1 ELSE since[m]]
    /\ UNCHANGED <<wsvars, dedup, sending, out, dropped, client, call, failed, got, delivered>>

-----------------------------------------------------------------------------
Next ==
    \/ \E c \in Conns : Connection(c) \/ \E m \in Msgs : ClientReceives(c, m)
    \/ DedupEnds \/ DedupSends \/ \E m \in Msgs : DedupTakes(m)
    \/ UserReads \/ UserDropsReceiver \/ UserDropsClient
    \/ (\E r \in Requests : UserCalls(r)) \/ CallSends \/ CallFails
    \/ Tick

Spec == Init /\ [][Next]_vars

\* What a connection task does next, whatever the service does.
Progress(c) ==
    \/ Run(c) \/ SleepEnds(c) \/ Connected(c) \/ ConnectFails(c) \/ Replay(c)
    \/ NoticeClosed(c) \/ ForwardFails(c)

\* The tasks run.  Nothing is fair about the user and the servers.
Fairness ==
    /\ WF_vars(DedupEnds)
    /\ \A c \in Conns : WF_vars(Progress(c) /\ UNCHANGED own)

FairSpec == Spec /\ Fairness

-----------------------------------------------------------------------------
(* Properties *)

TypeOK ==
    /\ WsTypeOK
    /\ dedup \in {"recv", "send", "done"}
    /\ sending \in Seq(Msgs) /\ Len(sending) = IF dedup = "send" THEN 1 ELSE 0
    /\ seen \in [Msgs -> 0..Ttl] /\ since \in [Msgs -> 0..Ttl]
    /\ out \in Seq(Msgs) /\ Len(out) <= channel_capacity
    /\ dropped \in BOOLEAN /\ client \in BOOLEAN /\ failed \in BOOLEAN
    /\ call \in {NoCall} \cup (Requests \X DOMAIN ws_connections)
    /\ got \in [Conns -> SUBSET Msgs] /\ delivered \in [Msgs -> 0..2]

\* start's words: identical messages received from multiple connections are
\* delivered once. (Holds for a reader who keeps up; a copy that waits behind a
\* full channel for longer than DEDUP_TTL is no longer known as one.)
DeliveredOnce == \A m \in Msgs : delivered[m] <= 1

\* A call fails only when the user dropped the receiver: as long as it is held
\* no failure of a socket ends a connection task, so no error leaves the
\* connections with different subscriptions.
ErrorMeansShutdown == failed => dropped

\* Dropping the receiver winds the client down: the duplicates' task ends and
\* every connection task notices, wherever it was.
WindsDown == dropped ~> dedup = "done" /\ \A c \in Conns : pc[c] = "done"
=============================================================================
