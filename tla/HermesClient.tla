---------------------------- MODULE HermesClient ----------------------------
(***************************************************************************)
(* The client of the Hermes-compatible stream (hermes_client.rs over       *)
(* resilient_hermes_ws_connection.rs and hermes_ws_connection.rs): the     *)
(* connection tasks with the subscriptions they replay, the task that      *)
(* removes duplicates, and the user.                                       *)
(*                                                                         *)
(* A price id is a feed in one of its spellings; the service knows feeds.  *)
(* A subscription is a set of ids with options; a later one replaces an    *)
(* earlier one for the same feed.  Lengths of sleeps are abstracted.       *)
(***************************************************************************)
EXTENDS Naturals, Sequences, FiniteSets

CONSTANTS
    Conns,              \* connections
    Feeds,              \* price feeds
    Spellings,          \* ways to write a price id
    Options,            \* options of a subscription
    None,               \* no subscription
    Msgs,               \* messages of the server
    ResponseCapacity,   \* of the channel from the connections
    channel_capacity,   \* of the user's channel
    MaxRequests         \* bound: messages of the user

ASSUME HermesAssumption ==
    /\ ResponseCapacity \in Nat \ {0} /\ channel_capacity \in Nat \ {0}
    /\ MaxRequests \in Nat /\ None \notin Options

VARIABLES
    pc,             \* where each connection task is
    requests,       \* the request channel of each connection
    subscriptions,  \* the subscribe messages each task replays
    replayed,       \* how many of them it has replayed
    server,         \* per connection, the options the service has for each feed
    want,           \* history: what the requests taken add up to
    held,           \* the message a task is forwarding
    responses,      \* the channel from the connections
    dedup,          \* the duplicates' task: "recv", "send" or "done"
    sending,        \* the message it is sending
    seen,           \* messages in its cache
    out,            \* the user's channel
    dropped,        \* the user dropped the receiver
    count           \* messages of the user

connvars == <<pc, subscriptions, replayed, server, want, held>>
taskvars == <<dedup, sending, seen, out, dropped>>
vars == <<connvars, requests, responses, taskvars, count>>

PriceIds == Feeds \X Spellings

\* A subscribe message carries options, an unsubscribe message None.
Messages == [ids : (SUBSET PriceIds) \ {{}}, option : Options \cup {None}]
Subscriptions == [ids : (SUBSET PriceIds) \ {{}}, option : Options]

\* The service parses the ids (PriceIdInput::parse) and goes by the feed.
ServerAfter(subs, r) ==
    [f \in Feeds |-> IF \E id \in r.ids : id[1] = f THEN r.option ELSE subs[f]]

Nothing == [f \in Feeds |-> None]

Init ==
    /\ pc = [c \in Conns |-> "connect"]
    /\ requests = [c \in Conns |-> <<>>]
    /\ subscriptions = [c \in Conns |-> <<>>]
    /\ replayed = [c \in Conns |-> 0]
    /\ server = [c \in Conns |-> Nothing] /\ want = [c \in Conns |-> Nothing]
    /\ held = [c \in Conns |-> <<>>]
    /\ responses = <<>> /\ dedup = "recv" /\ sending = <<>> /\ seen = {} /\ out = <<>>
    /\ dropped = FALSE /\ count = 0

-----------------------------------------------------------------------------
(* A connection task *)

\* start failed: run sleeps and starts again, forever.
Failed(c) ==
    /\ pc' = [pc EXCEPT ![c] = "sleep"]
    /\ server' = [server EXCEPT ![c] = Nothing]
    /\ replayed' = [replayed EXCEPT ![c] = 0]
    /\ held' = [held EXCEPT ![c] = <<>>]

SleepEnds(c) ==
    /\ pc[c] = "sleep" /\ pc' = [pc EXCEPT ![c] = "connect"]
    /\ UNCHANGED <<subscriptions, replayed, server, want, held, requests, responses, taskvars, count>>

Connect(c) ==
    /\ pc[c] = "connect"
    /\ \/ pc' = [pc EXCEPT ![c] = "replay"] /\ UNCHANGED <<server, replayed, held>>
       \/ Failed(c)
    /\ UNCHANGED <<subscriptions, want, requests, responses, taskvars, count>>

Replay(c) ==
    /\ pc[c] = "replay"
    /\ IF replayed[c] < Len(subscriptions[c])
         THEN /\ server' = [server EXCEPT ![c] = ServerAfter(@, subscriptions[c][replayed[c] + 1])]
              /\ replayed' = [replayed EXCEPT ![c] = @ + 1]
              /\ UNCHANGED pc
         ELSE /\ pc' = [pc EXCEPT ![c] = "select"]
              /\ replayed' = [replayed EXCEPT ![c] = 0]
              /\ UNCHANGED server
    /\ UNCHANGED <<subscriptions, want, held, requests, responses, taskvars, count>>

\* A stream error or end, a timeout, a message that does not parse, a failed send.
SocketFails(c) ==
    /\ pc[c] \in {"replay", "select"}
    /\ Failed(c)
    /\ UNCHANGED <<subscriptions, want, requests, responses, taskvars, count>>

Receive(c, m) ==
    /\ pc[c] = "select" /\ pc' = [pc EXCEPT ![c] = "forward"]
    /\ held' = [held EXCEPT ![c] = <<m>>]
    /\ UNCHANGED <<subscriptions, replayed, server, want, requests, responses, taskvars, count>>

\* sender.send fails once the duplicates' task is gone.
Forward(c) ==
    /\ pc[c] = "forward"
    /\ \/ /\ dedup # "done" /\ Len(responses) < ResponseCapacity
          /\ responses' = responses \o held[c]
          /\ pc' = [pc EXCEPT ![c] = "select"] /\ held' = [held EXCEPT ![c] = <<>>]
          /\ UNCHANGED <<server, replayed>>
       \/ dedup = "done" /\ Failed(c) /\ UNCHANGED responses
    /\ UNCHANGED <<subscriptions, want, requests, taskvars, count>>

\* The indices of a set in increasing order: what Vec::retain leaves of a list.
InOrder(S) ==
    CHOOSE ix \in [1..Cardinality(S) -> S] : \A i, j \in DOMAIN ix : i < j => ix[i] < ix[j]

\* The list without the ids: every subscription loses them, the empty ones go.
Without(subs, ids) ==
    LET kept == {i \in DOMAIN subs : subs[i].ids \ ids # {}}
    IN  [k \in 1..Cardinality(kept) |->
            [ids |-> subs[InOrder(kept)[k]].ids \ ids, option |-> subs[InOrder(kept)[k]].option]]

\* Mutant: a subscribe message goes to the front of the list, and its ids stay in
\* the older messages, which are replayed after it.
KeepOld(subs, r) ==
    IF r.option = None THEN Without(subs, r.ids) ELSE <<r>> \o subs

\* handle_request's new list: the ids are removed from every subscription, the
\* empty ones go, a subscribe message is added.
NewSubscriptions(subs, r) ==
    IF r.option = None THEN Without(subs, r.ids) ELSE Append(Without(subs, r.ids), r)

handle_request(c) ==
    /\ pc[c] = "select" /\ requests[c] # <<>>
    /\ LET r == Head(requests[c])
       IN  /\ subscriptions' = [subscriptions EXCEPT ![c] = NewSubscriptions(@, r)]
           /\ want' = [want EXCEPT ![c] = ServerAfter(@, r)]
           /\ \/ /\ server' = [server EXCEPT ![c] = ServerAfter(@, r)]
                 /\ UNCHANGED <<pc, replayed, held>>
              \/ Failed(c)
    /\ requests' = [requests EXCEPT ![c] = Tail(@)]
    /\ UNCHANGED <<responses, taskvars, count>>

-----------------------------------------------------------------------------
(* The duplicates' task: it notices that the receiver is gone when it sends *)

\* Mutant: a closed channel is reported and nothing else.
TakeAndReport(m) ==
    /\ dedup = "recv" /\ responses # <<>> /\ m = Head(responses)
    /\ responses' = Tail(responses)
    /\ \/ m \in seen /\ UNCHANGED <<dedup, sending, seen, out>>
       \/ /\ m \notin seen /\ seen' = seen \cup {m}
          /\ IF dropped THEN UNCHANGED <<dedup, sending, out>>
             ELSE IF Len(out) < channel_capacity
                    THEN out' = Append(out, m) /\ UNCHANGED <<dedup, sending>>
                    ELSE dedup' = "send" /\ sending' = <<m>> /\ UNCHANGED out
    /\ UNCHANGED <<connvars, requests, dropped, count>>

DedupTakes(m) ==
    /\ dedup = "recv" /\ responses # <<>> /\ m = Head(responses)
    /\ \/ /\ m \in seen /\ responses' = Tail(responses)
          /\ UNCHANGED <<dedup, sending, seen, out>>
       \/ /\ m \notin seen /\ seen' = seen \cup {m}
          /\ \/ /\ dropped /\ dedup' = "done" /\ responses' = <<>>
                /\ UNCHANGED <<sending, out>>
             \/ /\ ~dropped /\ responses' = Tail(responses)
                /\ IF Len(out) < channel_capacity
                     THEN out' = Append(out, m) /\ UNCHANGED <<dedup, sending>>
                     ELSE dedup' = "send" /\ sending' = <<m>> /\ UNCHANGED out
    /\ UNCHANGED <<connvars, requests, dropped, count>>

\* send, after the channel was full; its failure is reported, and the loop goes on.
DedupSends ==
    /\ dedup = "send" /\ (dropped \/ Len(out) < channel_capacity)
    /\ dedup' = "recv" /\ sending' = <<>>
    /\ out' = IF dropped THEN out ELSE out \o sending
    /\ UNCHANGED <<connvars, requests, responses, seen, dropped, count>>

\* A message leaves the cache, DEDUP_TTL after it came.
Expire(m) ==
    /\ m \in seen /\ seen' = seen \ {m}
    /\ UNCHANGED <<connvars, requests, responses, dedup, sending, out, dropped, count>>

-----------------------------------------------------------------------------
(* The user *)

\* send_message, to every connection.
send_message(r) ==
    /\ count < MaxRequests /\ count' = count + 1
    /\ requests' = [c \in Conns |-> Append(requests[c], r)]
    /\ UNCHANGED <<connvars, responses, taskvars>>

UserReads ==
    /\ out # <<>> /\ ~dropped /\ out' = Tail(out)
    /\ UNCHANGED <<connvars, requests, responses, dedup, sending, seen, dropped, count>>

UserDropsReceiver ==
    /\ ~dropped /\ dropped' = TRUE /\ out' = <<>>
    /\ UNCHANGED <<connvars, requests, responses, dedup, sending, seen, count>>

-----------------------------------------------------------------------------
Next ==
    \/ \E c \in Conns :
          \/ SleepEnds(c) \/ Connect(c) \/ Replay(c) \/ SocketFails(c) \/ Forward(c)
          \/ handle_request(c)
          \/ \E m \in Msgs : Receive(c, m)
    \/ \E m \in Msgs : DedupTakes(m) \/ Expire(m)
    \/ DedupSends \/ UserReads \/ UserDropsReceiver
    \/ \E r \in Messages : send_message(r)

Spec == Init /\ [][Next]_vars

\* Tasks run, the service answers on some socket again and again with messages
\* that are not in the cache.
Fairness ==
    /\ WF_vars(DedupSends) /\ WF_vars(UserReads)
    /\ \A m \in Msgs : WF_vars(DedupTakes(m)) /\ SF_vars(Expire(m) /\ responses = <<>>)
    /\ \A c \in Conns :
          /\ WF_vars(SleepEnds(c)) /\ SF_vars(Connect(c) /\ pc'[c] = "replay")
          /\ SF_vars(Replay(c)) /\ SF_vars(Forward(c))
          /\ \A m \in Msgs : SF_vars(Receive(c, m) /\ m \notin seen)

FairSpec == Spec /\ Fairness

-----------------------------------------------------------------------------
(* Properties *)

AtMostOne == {<<>>} \cup {<<m>> : m \in Msgs}

TypeOK ==
    /\ pc \in [Conns -> {"connect", "replay", "select", "forward", "sleep"}]
    /\ requests \in [Conns -> Seq(Messages)]
    /\ subscriptions \in [Conns -> Seq(Subscriptions)] /\ replayed \in [Conns -> Nat]
    /\ server \in [Conns -> [Feeds -> Options \cup {None}]]
    /\ want \in [Conns -> [Feeds -> Options \cup {None}]]
    /\ held \in [Conns -> AtMostOne] /\ responses \in Seq(Msgs) /\ Len(responses) <= ResponseCapacity
    /\ dedup \in {"recv", "send", "done"} /\ sending \in AtMostOne /\ seen \in SUBSET Msgs
    /\ out \in Seq(Msgs) /\ Len(out) <= channel_capacity
    /\ dropped \in BOOLEAN /\ count \in 0..MaxRequests

\* A serving connection has for every feed exactly the options the requests it
\* took add up to, whichever overlapping sets of ids they named and however
\* often the socket was lost (handle_request and the replay of start).
SubscriptionsRestored ==
    \A c \in Conns : pc[c] \in {"select", "forward"} => server[c] = want[c]

\* After the receiver is dropped, the next fresh message ends the duplicates'
\* task, also when it was waiting for room: no connection stays up, with
\* messages coming in, next to a task that goes on for nobody.
TaskEnds ==
    \A c \in Conns : []<>(~dropped \/ dedup = "done" \/ pc[c] \notin {"select", "forward"})
=============================================================================
