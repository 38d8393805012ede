---------------------------- MODULE ResilientWs ----------------------------
(***************************************************************************)
(* The connection tasks of the Rust client (resilient_ws_connection.rs     *)
(* over ws_connection.rs): connect, replay the subscriptions, serve        *)
(* responses and requests, and start again after a failure until nobody    *)
(* receives the responses.                                                 *)
(*                                                                         *)
(* A request is its method and subscription id.  The length of a sleep is  *)
(* abstracted, and so are the backoff and its reset, which only choose it: *)
(* with_max_elapsed_time(None) (backoff.rs) leaves next_backoff always     *)
(* with a delay.  Sending on a socket succeeds or fails in one step.       *)
(***************************************************************************)
EXTENDS Naturals, Sequences

CONSTANTS
    Conns,              \* connections
    Ids,                \* subscription ids
    Msgs,               \* responses of the server
    RequestCapacity,    \* of the request channel of a connection
    ResponseCapacity,   \* of the response channel all connections share
    TimeoutTicks,       \* the timeout of a response, in ticks
    ReuseIds,           \* whether the user subscribes with an id in use
    MaxCalls            \* bound: requests of the user

ASSUME WsAssumption ==
    /\ RequestCapacity \in Nat \ {0} /\ ResponseCapacity \in Nat \ {0}
    /\ TimeoutTicks \in Nat /\ ReuseIds \in BOOLEAN /\ MaxCalls \in Nat

VARIABLES
    pc,             \* where each connection task is
    requests,       \* the request channel of each connection
    subscriptions,  \* the ids of the subscriptions each task replays
    replayed,       \* how many of them the task has replayed on this socket
    server,         \* the ids the server has on this socket
    silent,         \* the server has gone silent on this socket
    left,           \* ticks left until the task's wait for a response times out
    held,           \* the response the task is forwarding
    responses,      \* the response channel
    closed,         \* its receiver is gone
    asked,          \* the ids the user has after all requests made on each connection
    want,           \* history: the ids after all requests the task has taken
    calls           \* number of requests made

wsvars == <<pc, requests, subscriptions, replayed, server, silent, left, held, responses, closed,
            asked, want, calls>>

Requests == [method : {"subscribe", "unsubscribe"}, id : Ids]

\* The ids after a request.
After(ids, r) == IF r.method = "subscribe" THEN ids \cup {r.id} ELSE ids \ {r.id}

WsInit ==
    /\ pc = [c \in Conns |-> "run"]
    /\ requests = [c \in Conns |-> <<>>]
    /\ subscriptions = [c \in Conns |-> <<>>]
    /\ replayed = [c \in Conns |-> 0]
    /\ server = [c \in Conns |-> {}]
    /\ silent = [c \in Conns |-> FALSE]
    /\ left = [c \in Conns |-> TimeoutTicks]
    /\ held = [c \in Conns |-> <<>>]
    /\ responses = <<>> /\ closed = FALSE
    /\ asked = [c \in Conns |-> {}]
    /\ want = [c \in Conns |-> {}]
    /\ calls = 0

Goto(c, from, to) == pc[c] = from /\ pc' = [pc EXCEPT ![c] = to]

Channels == <<requests, responses, closed, asked, calls>>
Socket == <<replayed, server, silent, left, held>>

-----------------------------------------------------------------------------
(* run *)

\* The top of the loop: the task ends when the responses have no receiver.
Run(c) ==
    /\ Goto(c, "run", IF closed THEN "done" ELSE "connect")
    /\ UNCHANGED <<subscriptions, Socket, want, Channels>>

\* start failed: the socket is gone, and the task ends or sleeps.
Failed(c) ==
    /\ pc' = [pc EXCEPT ![c] = IF closed THEN "done" ELSE "sleep"]
    /\ server' = [server EXCEPT ![c] = {}]
    /\ silent' = [silent EXCEPT ![c] = FALSE]
    /\ replayed' = [replayed EXCEPT ![c] = 0]
    /\ held' = [held EXCEPT ![c] = <<>>]
    /\ left' = [left EXCEPT ![c] = TimeoutTicks]

SleepEnds(c) ==
    /\ \/ Goto(c, "sleep", "run")
       \/ closed /\ Goto(c, "sleep", "done")
    /\ UNCHANGED <<subscriptions, Socket, want, Channels>>

-----------------------------------------------------------------------------
(* start *)

Connected(c) ==
    /\ Goto(c, "connect", "replay")
    /\ UNCHANGED <<subscriptions, Socket, want, Channels>>

\* Mutant: the task gives up when it cannot connect.
ConnectGivesUp(c) ==
    /\ Goto(c, "connect", "done")
    /\ UNCHANGED <<subscriptions, Socket, want, Channels>>

ConnectFails(c) ==
    /\ pc[c] = "connect"
    /\ Failed(c)
    /\ UNCHANGED <<subscriptions, want, Channels>>

\* The subscriptions are sent again one after the other, then the loop begins.
Replay(c) ==
    /\ pc[c] = "replay"
    /\ IF replayed[c] < Len(subscriptions[c])
         THEN /\ server' = [server EXCEPT ![c] = @ \cup {subscriptions[c][replayed[c] + 1]}]
              /\ replayed' = [replayed EXCEPT ![c] = @ + 1]
              /\ UNCHANGED pc
         ELSE /\ pc' = [pc EXCEPT ![c] = "select"]
              /\ replayed' = [replayed EXCEPT ![c] = 0]
              /\ UNCHANGED server
    /\ UNCHANGED <<subscriptions, silent, left, held, want, Channels>>

\* Mutant: the select does not watch the receiver of the responses.
NoticeNothing(c) == FALSE

\* The receiver of the responses is gone: start returns Ok, and run its end.
NoticeClosed(c) ==
    /\ closed /\ pc[c] = "select"
    /\ Failed(c)
    /\ UNCHANGED <<subscriptions, want, Channels>>

\* A response arrives and is forwarded.
Receive(c, m) ==
    /\ ~silent[c]
    /\ Goto(c, "select", "forward")
    /\ held' = [held EXCEPT ![c] = <<m>>]
    /\ UNCHANGED <<subscriptions, replayed, server, silent, left, want, Channels>>

\* sender.send: waits for room, fails when the receiver is gone.
Forward(c) ==
    /\ ~closed /\ Len(responses) < ResponseCapacity
    /\ Goto(c, "forward", "select")
    /\ responses' = responses \o held[c]
    /\ held' = [held EXCEPT ![c] = <<>>]
    /\ left' = [left EXCEPT ![c] = TimeoutTicks]
    /\ UNCHANGED <<subscriptions, replayed, server, silent, want, requests, closed, asked, calls>>

ForwardFails(c) ==
    /\ closed /\ pc[c] = "forward"
    /\ Failed(c)
    /\ UNCHANGED <<subscriptions, want, Channels>>

\* A stream error, the end of the stream, a message that does not parse or a
\* replay that cannot be sent.
SocketFails(c) ==
    /\ pc[c] \in {"replay", "select"}
    /\ Failed(c)
    /\ UNCHANGED <<subscriptions, want, Channels>>

\* Mutant: the wait for a response has no timeout.
NeverTimesOut(c) ==
    /\ pc[c] = "select" /\ left[c] = 0 /\ ~silent[c]
    /\ Failed(c)
    /\ UNCHANGED <<subscriptions, want, Channels>>

\* No response within the timeout.
TimedOut(c) ==
    /\ pc[c] = "select" /\ left[c] = 0
    /\ Failed(c)
    /\ UNCHANGED <<subscriptions, want, Channels>>

\* The subscriptions after a request: push, or remove the first with the id.
PushOrRemove(subs, r) ==
    LET at == {i \in DOMAIN subs : subs[i] = r.id}
        index == CHOOSE i \in at : \A j \in at : i <= j
    IN  IF r.method = "subscribe" THEN Append(subs, r.id)
        ELSE IF at = {} THEN subs
        ELSE [i \in 1..(Len(subs) - 1) |-> IF i < index THEN subs[i] ELSE subs[i + 1]]

\* Mutant: the request is sent first and recorded only when that succeeded.
HandleSendsFirst(c) ==
    /\ pc[c] = "select" /\ requests[c] # <<>>
    /\ LET r == Head(requests[c])
       IN  /\ want' = [want EXCEPT ![c] = After(@, r)]
           /\ \/ /\ server' = [server EXCEPT ![c] = After(@, r)]
                 /\ left' = [left EXCEPT ![c] = TimeoutTicks]
                 /\ subscriptions' = [subscriptions EXCEPT ![c] = PushOrRemove(@, r)]
                 /\ UNCHANGED <<pc, replayed, silent, held>>
              \/ Failed(c) /\ UNCHANGED subscriptions
    /\ requests' = [requests EXCEPT ![c] = Tail(@)]
    /\ UNCHANGED <<responses, closed, asked, calls>>

\* Mutant: a request leaves the channel only once it is sent.
HandleKeepsFailed(c) ==
    /\ pc[c] = "select" /\ requests[c] # <<>>
    /\ LET r == Head(requests[c])
       IN  /\ subscriptions' = [subscriptions EXCEPT ![c] = PushOrRemove(@, r)]
           /\ want' = [want EXCEPT ![c] = After(@, r)]
           /\ \/ /\ server' = [server EXCEPT ![c] = After(@, r)]
                 /\ left' = [left EXCEPT ![c] = TimeoutTicks]
                 /\ requests' = [requests EXCEPT ![c] = Tail(@)]
                 /\ UNCHANGED <<pc, replayed, silent, held>>
              \/ Failed(c) /\ UNCHANGED requests
    /\ UNCHANGED <<responses, closed, asked, calls>>

\* A request is recorded, then sent; the wait for a response starts anew.
HandleRequest(c) ==
    /\ pc[c] = "select" /\ requests[c] # <<>>
    /\ LET r == Head(requests[c])
       IN  /\ subscriptions' = [subscriptions EXCEPT ![c] = PushOrRemove(@, r)]
           /\ want' = [want EXCEPT ![c] = After(@, r)]
           /\ \/ /\ server' = [server EXCEPT ![c] = After(@, r)]
                 /\ left' = [left EXCEPT ![c] = TimeoutTicks]
                 /\ UNCHANGED <<pc, replayed, silent, held>>
              \/ Failed(c)
    /\ requests' = [requests EXCEPT ![c] = Tail(@)]
    /\ UNCHANGED <<responses, closed, asked, calls>>

-----------------------------------------------------------------------------
(* The world around a socket *)

\* The server stops answering without closing the connection.
GoSilent(c) ==
    /\ pc[c] = "select" /\ ~silent[c]
    /\ silent' = [silent EXCEPT ![c] = TRUE]
    /\ UNCHANGED <<pc, subscriptions, replayed, server, left, held, want, Channels>>

WsTick(c) ==
    /\ pc[c] = "select" /\ left[c] > 0
    /\ left' = [left EXCEPT ![c] = @ - 1]
    /\ UNCHANGED <<pc, subscriptions, replayed, server, silent, held, want, Channels>>

\* Steps of the connection task, and of its socket.
Task(c) ==
    \/ Run(c) \/ SleepEnds(c) \/ Connected(c) \/ ConnectFails(c) \/ Replay(c)
    \/ NoticeClosed(c) \/ Forward(c) \/ ForwardFails(c) \/ SocketFails(c) \/ TimedOut(c)
    \/ HandleRequest(c)
    \/ \E m \in Msgs : Receive(c, m)

WsNext(c) == Task(c) \/ GoSilent(c) \/ WsTick(c)

\* What the user may ask for next on a connection.
MayAsk(c, r) == r.method = "unsubscribe" \/ ReuseIds \/ r.id \notin asked[c]

\* subscribe and unsubscribe: the request enters the channel of a connection
\* whose task still runs.
Ask(c, r) ==
    /\ Len(requests[c]) < RequestCapacity /\ pc[c] # "done"
    /\ requests' = [requests EXCEPT ![c] = Append(@, r)]
    /\ asked' = [asked EXCEPT ![c] = After(@, r)]

-----------------------------------------------------------------------------
(* A connection on its own: anyone asks, takes responses and drops them *)

AskAny(c, r) ==
    /\ calls < MaxCalls /\ calls' = calls + 1
    /\ MayAsk(c, r)
    /\ Ask(c, r)
    /\ UNCHANGED <<pc, subscriptions, Socket, want, responses, closed>>

TakeAny ==
    /\ responses # <<>> /\ responses' = Tail(responses)
    /\ UNCHANGED <<pc, requests, subscriptions, Socket, want, closed, asked, calls>>

DropAny ==
    /\ ~closed /\ closed' = TRUE
    /\ UNCHANGED <<pc, requests, subscriptions, Socket, want, responses, asked, calls>>

WsOnly ==
    \/ \E c \in Conns : WsNext(c) \/ \E r \in Requests : AskAny(c, r)
    \/ TakeAny \/ DropAny

WsSpec == WsInit /\ [][WsOnly]_wsvars

\* The task runs, connecting ends, time passes for a socket that waits, the
\* responses are read, and select, which polls its branches in random order,
\* does not pass over a waiting request for ever.
WsFairness ==
    /\ WF_wsvars(TakeAny)
    /\ \A c \in Conns :
          /\ WF_wsvars(Run(c)) /\ WF_wsvars(SleepEnds(c))
          /\ WF_wsvars(Connected(c) \/ ConnectFails(c)) /\ WF_wsvars(Replay(c))
          /\ WF_wsvars(Forward(c)) /\ WF_wsvars(ForwardFails(c)) /\ WF_wsvars(NoticeClosed(c))
          /\ SF_wsvars(HandleRequest(c))
          /\ WF_wsvars(WsTick(c)) /\ WF_wsvars(TimedOut(c))

WsFairSpec == WsSpec /\ WsFairness

-----------------------------------------------------------------------------
(* Properties *)

WsTypeOK ==
    /\ pc \in [Conns -> {"run", "connect", "replay", "select", "forward", "sleep", "done"}]
    /\ requests \in [Conns -> Seq(Requests)]
    /\ \A c \in Conns : Len(requests[c]) <= RequestCapacity
    /\ subscriptions \in [Conns -> Seq(Ids)]
    /\ replayed \in [Conns -> Nat]
    /\ \A c \in Conns : replayed[c] <= Len(subscriptions[c])
    /\ server \in [Conns -> SUBSET Ids] /\ asked \in [Conns -> SUBSET Ids]
    /\ want \in [Conns -> SUBSET Ids]
    /\ silent \in [Conns -> BOOLEAN] /\ left \in [Conns -> 0..TimeoutTicks]
    /\ held \in [Conns -> Seq(Msgs)]
    /\ responses \in Seq(Msgs) /\ Len(responses) <= ResponseCapacity
    /\ closed \in BOOLEAN /\ calls \in 0..MaxCalls

Up(c) == pc[c] \in {"select", "forward"}

Abstract(c) == INSTANCE SubscriptionSet WITH
                   want <- want[c], up <- Up(c), have <- IF Up(c) THEN server[c] ELSE {}

\* Requests, failed sends and reconnections add up to the promise of
\* SubscriptionSet: a connection that serves again has exactly the
\* subscriptions the requests it took add up to (subscribe, unsubscribe and the
\* replay of start), for a user who does not subscribe with an id in use.
SubscriptionsRestored ==
    /\ \A c \in Conns : Abstract(c)!Init
    /\ [][\A c \in Conns : Abstract(c)!Next \/ UNCHANGED Abstract(c)!vars]_wsvars

\* No subscription is sent twice on one socket: not by the replay, and not for
\* a request that was recorded before its send failed.
NoDoubleSubscribe ==
    [][\A c \in Conns :
          /\ Replay(c) /\ replayed[c] < Len(subscriptions[c])
                => subscriptions[c][replayed[c] + 1] \notin server[c]
          /\ HandleRequest(c) /\ Head(requests[c]).method = "subscribe"
                => Head(requests[c]).id \notin server[c]]_wsvars

\* A connection on which the server has gone silent is given up: the timeout
\* around the wait for a response ends it, once requests stop re-arming it.
SilenceNoticed == \A c \in Conns : silent[c] ~> ~silent[c]

\* A connection that stays up takes the requests that wait for it, so that calls
\* of subscribe and unsubscribe come back, although it takes none while a
\* response finds no room in the channel (the select of start).
RequestsTaken == \A c \in Conns : <>[]Up(c) => []<>(requests[c] = <<>>)

\* A connection hangs neither on its server nor on its user: it gives up a silent
\* socket, and takes its requests while it stays up (start).
Responsive == SilenceNoticed /\ RequestsTaken
=============================================================================
