---------------------------- MODULE AgentServer ----------------------------
(***************************************************************************)
(* The agent's HTTP server and the handlers of its publisher connections:  *)
(* routing and upgrade (http_server.rs), the JRPC handler                  *)
(* (jrpc_handle.rs), the binary publisher handler (publisher_handle.rs),   *)
(* the cached metadata (metadata.rs).  All of them push into the bounded   *)
(* channel of the publisher task (LazerPublisher).                         *)
(*                                                                         *)
(* The updates of a connection are numbered in the order in which the      *)
(* connection sent them.  The legacy handler is the module LegacyHandle.   *)
(***************************************************************************)
EXTENDS Naturals, Sequences, FiniteSetsExt

CONSTANTS
    Conns,                  \* connections
    NoConn,
    Capacity,               \* of the publisher task's channel
    MAX_ERROR_DISCONNECT,   \* decoding errors after which a publisher is dropped
    CacheTicks,             \* the metadata is cached for 60 s, in ticks
    MaxUpdates,             \* bound: updates of all connections
    MaxBatch,               \* bound: updates of one push_updates
    MaxVersion              \* bound: versions of the metadata

ASSUME ServerAssumption ==
    /\ NoConn \notin Conns
    /\ Capacity \in Nat \ {0} /\ MAX_ERROR_DISCONNECT \in Nat \ {0}
    /\ CacheTicks \in Nat \ {0}
    /\ MaxUpdates \in Nat /\ MaxBatch \in Nat /\ MaxVersion \in Nat

VARIABLES
    conn,         \* each connection: its handler, or how it was answered
    step,         \* what the handler of the connection is doing
    sent,         \* number of updates the client of the connection has sent
    call,         \* the call being handled: its updates from..to, the next one, its id
    error_count,  \* error_count of the publisher handler
    channel,      \* the publisher task's channel
    alive,        \* the publisher task runs
    queued,       \* history: per connection, the updates the channel accepted
    taken,        \* history: per connection, the last update the task received
    reply,        \* the reply delivered on each connection, until its next call
    lock,         \* the connection whose fetch_metadata holds the lock of the cache
    cache,        \* the cached metadata: its version and for how long it is kept
    version,      \* the version the metadata service has
    changed       \* ticks since that version changed, at most CacheTicks + 1

pushing == <<channel, alive, queued, taken>>
metadata == <<lock, cache, version, changed>>
vars == <<conn, step, sent, call, error_count, channel, alive, queued, taken, reply,
          lock, cache, version, changed>>

\* No reply yet, or one that tells neither of updates nor of metadata.
NoReply == [error |-> TRUE]
NoCall == [from |-> 1, to |-> 0, next |-> 1, id |-> FALSE]

Init ==
    /\ conn = [c \in Conns |-> "none"]
    /\ step = [c \in Conns |-> "receive"]
    /\ sent = [c \in Conns |-> 0]
    /\ call = [c \in Conns |-> NoCall]
    /\ error_count = [c \in Conns |-> 0]
    /\ channel = <<>> /\ alive = TRUE
    /\ queued = [c \in Conns |-> {}] /\ taken = [c \in Conns |-> 0]
    /\ reply = [c \in Conns |-> NoReply]
    /\ lock = NoConn /\ cache = [version |-> 0, left |-> 0]
    /\ version = 0 /\ changed = CacheTicks + 1

-----------------------------------------------------------------------------
(* http_server.rs *)

\* The handler a path leads to, or the status it is answered with.
Route(path, is_ready) ==
    CASE path = "/v1/publisher" -> "publisher"
      [] path = "/v2/publisher" -> "publisher"
      [] path = "/v1/jrpc"      -> "jrpc"
      [] path = "/v1/legacy"    -> "legacy"
      [] path = "/live"         -> "200"
      [] path = "/ready"        -> IF is_ready THEN "200" ELSE "503"
      [] OTHER                  -> "404"

\* request_handler: a handler is spawned for an upgrade request whose handshake
\* succeeds.
request_handler(c, path, upgrade, handshake, is_ready) ==
    /\ conn[c] = "none"
    /\ LET to == Route(path, is_ready)
       IN  conn' = [conn EXCEPT ![c] =
                       IF to \notin {"publisher", "jrpc", "legacy"} THEN to
                       ELSE IF ~upgrade THEN "400"
                       ELSE IF ~handshake THEN "500"
                       ELSE to]
    /\ UNCHANGED <<step, sent, call, error_count, pushing, reply, metadata>>

Goto(c, from, to) == step[c] = from /\ step' = [step EXCEPT ![c] = to]

\* The peer is gone.  receive's result is ignored, so the handler sees an empty
\* message, fails to parse it, fails to answer and ends.
Disconnect(c) ==
    /\ conn[c] \in {"publisher", "jrpc"}
    /\ step[c] = "receive"
    /\ conn' = [conn EXCEPT ![c] = "closed"]
    /\ reply' = [reply EXCEPT ![c] = NoReply]
    /\ UNCHANGED <<step, sent, call, error_count, pushing, metadata>>

-----------------------------------------------------------------------------
(* push_feed_update, and the publisher task at the other end *)

\* Mutant: a new update overtakes those waiting in the channel.
PushOvertakes(c) ==
    /\ step[c] = "push" /\ call[c].next <= call[c].to
    /\ alive /\ Len(channel) < Capacity
    /\ channel' = <<[conn |-> c, n |-> call[c].next]>> \o channel
    /\ queued' = [queued EXCEPT ![c] = @ \cup {call[c].next}]
    /\ call' = [call EXCEPT ![c].next = @ + 1]
    /\ UNCHANGED <<conn, step, sent, error_count, alive, taken, reply, metadata>>

\* The channel has room: the handler goes on to the next update of its call.
PushOk(c) ==
    /\ step[c] = "push" /\ call[c].next <= call[c].to
    /\ alive /\ Len(channel) < Capacity
    /\ channel' = Append(channel, [conn |-> c, n |-> call[c].next])
    /\ queued' = [queued EXCEPT ![c] = @ \cup {call[c].next}]
    /\ call' = [call EXCEPT ![c].next = @ + 1]
    /\ UNCHANGED <<conn, step, sent, error_count, alive, taken, reply, metadata>>

\* The publisher task receives an update.
TaskReceives ==
    /\ alive /\ channel # <<>>
    /\ channel' = Tail(channel)
    /\ taken' = [taken EXCEPT ![Head(channel).conn] = Head(channel).n]
    /\ UNCHANGED <<conn, step, sent, call, error_count, alive, queued, reply, metadata>>

\* The publisher task dies: pushes fail from now on.
TaskEnds ==
    /\ alive /\ alive' = FALSE
    /\ UNCHANGED <<conn, step, sent, call, error_count, channel, queued, taken, reply, metadata>>

\* The bound on the updates that are sent.
Within(n) == MapThenSumSet(LAMBDA c : sent[c], Conns) + n <= MaxUpdates

-----------------------------------------------------------------------------
(* publisher_handle.rs *)

\* A message that decodes is pushed.
PublisherReceives(c) ==
    /\ conn[c] = "publisher" /\ Within(1)
    /\ Goto(c, "receive", "push")
    /\ sent' = [sent EXCEPT ![c] = @ + 1]
    /\ call' = [call EXCEPT ![c] = [from |-> sent[c] + 1, to |-> sent[c] + 1,
                                    next |-> sent[c] + 1, id |-> FALSE]]
    /\ UNCHANGED <<conn, error_count, pushing, reply, metadata>>

\* The push is done: the next message.
PublisherPushed(c) ==
    /\ conn[c] = "publisher" /\ call[c].next > call[c].to
    /\ Goto(c, "push", "receive")
    /\ call' = [call EXCEPT ![c] = NoCall]
    /\ UNCHANGED <<conn, sent, error_count, pushing, reply, metadata>>

\* A push that fails ends the handler.
PublisherPushFails(c) ==
    /\ conn[c] = "publisher" /\ step[c] = "push" /\ call[c].next <= call[c].to /\ ~alive
    /\ conn' = [conn EXCEPT ![c] = "closed"]
    /\ UNCHANGED <<step, sent, call, error_count, pushing, reply, metadata>>

\* A message that does not decode is counted and answered with an error; at the
\* threshold, or when the answer cannot be sent, the handler ends.
PublisherDecodeError(c) ==
    /\ conn[c] = "publisher" /\ step[c] = "receive"
    /\ error_count' = [error_count EXCEPT ![c] = @ + 1]
    /\ \/ conn' = [conn EXCEPT ![c] = "closed"]
       \/ error_count[c] + 1 < MAX_ERROR_DISCONNECT /\ UNCHANGED conn
    /\ UNCHANGED <<step, sent, call, pushing, reply, metadata>>

-----------------------------------------------------------------------------
(* jrpc_handle.rs *)

\* send_json.  When it fails (an error, or the timeout of websocket_utils.rs),
\* an InternalError is sent instead, and when that fails too the handler ends.
Reply(c, r) ==
    /\ \/ conn' = conn /\ reply' = [reply EXCEPT ![c] = r]
       \/ conn' = conn /\ UNCHANGED reply
       \/ conn' = [conn EXCEPT ![c] = "closed"] /\ UNCHANGED reply

\* push_update and push_updates, with an id or as a notification.
JrpcPush(c, n, id) ==
    /\ conn[c] = "jrpc" /\ Within(n)
    /\ Goto(c, "receive", "push")
    /\ sent' = [sent EXCEPT ![c] = @ + n]
    /\ call' = [call EXCEPT ![c] = [from |-> sent[c] + 1, to |-> sent[c] + n,
                                    next |-> sent[c] + 1, id |-> id]]
    /\ reply' = [reply EXCEPT ![c] = NoReply]
    /\ UNCHANGED <<conn, error_count, pushing, metadata>>

\* send_update_success_response: every update was pushed; a notification gets
\* no reply.
JrpcSuccess(c) ==
    /\ conn[c] = "jrpc" /\ call[c].next > call[c].to
    /\ Goto(c, "push", "receive")
    /\ IF call[c].id THEN Reply(c, call[c]) ELSE UNCHANGED <<conn, reply>>
    /\ call' = [call EXCEPT ![c] = NoCall]
    /\ UNCHANGED <<sent, error_count, pushing, metadata>>

\* send_update_failure_response: the reply names the update that could not be
\* pushed, and the updates after it are not tried.
JrpcFailure(c) ==
    /\ conn[c] = "jrpc" /\ call[c].next <= call[c].to /\ ~alive
    /\ Goto(c, "push", "receive")
    /\ Reply(c, call[c])
    /\ call' = [call EXCEPT ![c] = NoCall]
    /\ UNCHANGED <<sent, error_count, pushing, metadata>>

\* A request that does not parse, or get_metadata without an id.
JrpcInvalid(c) ==
    /\ conn[c] = "jrpc" /\ step[c] = "receive"
    /\ Reply(c, NoReply)
    /\ UNCHANGED <<step, sent, call, error_count, pushing, metadata>>

\* get_metadata: fetch_metadata waits for the lock of the cache.
JrpcMetadata(c) ==
    /\ conn[c] = "jrpc"
    /\ Goto(c, "receive", "metadata")
    /\ reply' = [reply EXCEPT ![c] = NoReply]
    /\ UNCHANGED <<conn, sent, call, error_count, pushing, metadata>>

-----------------------------------------------------------------------------
(* metadata.rs: the cached macro keeps the lock during the fetch *)

\* A cached value answers the call.
MetadataHit(c) ==
    /\ lock = NoConn /\ cache.left > 0
    /\ Goto(c, "metadata", "receive")
    /\ Reply(c, [version |-> cache.version, known |-> version, changed |-> changed])
    /\ UNCHANGED <<sent, call, error_count, pushing, metadata>>

\* No cached value: the request is sent while the lock is held.
MetadataMiss(c) ==
    /\ step[c] = "metadata" /\ lock = NoConn /\ cache.left = 0
    /\ lock' = c
    /\ UNCHANGED <<conn, step, sent, call, error_count, pushing, reply, cache, version, changed>>

\* Mutant: every answer renews the cached value.
FetchAnyRenews(c) ==
    /\ lock = c /\ lock' = NoConn
    /\ cache' = [cache EXCEPT !.left = CacheTicks]
    /\ Goto(c, "metadata", "receive")
    /\ Reply(c, [version |-> cache.version, known |-> version, changed |-> changed])
    /\ UNCHANGED <<sent, call, error_count, pushing, version, changed>>

\* The service answers: the value is cached and returned, filtered.
MetadataFetched(c) ==
    /\ lock = c /\ lock' = NoConn
    /\ cache' = [version |-> version, left |-> CacheTicks]
    /\ Goto(c, "metadata", "receive")
    /\ Reply(c, [version |-> version, known |-> version, changed |-> changed])
    /\ UNCHANGED <<sent, call, error_count, pushing, version, changed>>

\* Mutant: a failed fetch keeps the lock.
FailureKeepsLock(c) ==
    /\ lock = c
    /\ Goto(c, "metadata", "receive")
    /\ Reply(c, NoReply)
    /\ UNCHANGED <<sent, call, error_count, pushing, metadata>>

\* An error is returned and not cached.
MetadataFails(c) ==
    /\ lock = c /\ lock' = NoConn
    /\ Goto(c, "metadata", "receive")
    /\ Reply(c, NoReply)
    /\ UNCHANGED <<sent, call, error_count, pushing, cache, version, changed>>

\* The service has new metadata.
ServicePublishes ==
    /\ version < MaxVersion
    /\ version' = version + 1 /\ changed' = 0
    /\ UNCHANGED <<conn, step, sent, call, error_count, pushing, reply, lock, cache>>

Tick ==
    /\ cache' = [cache EXCEPT !.left = IF @ > 0 THEN @ - 1 ELSE 0]
    /\ changed' = IF changed <= CacheTicks THEN changed + 1 ELSE changed
    /\ UNCHANGED <<conn, step, sent, call, error_count, pushing, reply, lock, version>>

-----------------------------------------------------------------------------
Paths == {"/v1/publisher", "/v2/publisher", "/v1/jrpc", "/v1/legacy", "/live", "/ready", "/"}

Publisher(c) ==
    PublisherReceives(c) \/ PublisherPushed(c) \/ PublisherPushFails(c) \/ PublisherDecodeError(c)

Metadata(c) == MetadataHit(c) \/ MetadataMiss(c) \/ MetadataFetched(c) \/ MetadataFails(c)

Next ==
    \/ \E c \in Conns :
          \/ \E path \in Paths, u, h, r \in BOOLEAN : request_handler(c, path, u, h, r)
          \/ Disconnect(c) \/ PushOk(c) \/ Publisher(c)
          \/ \E n \in 0..MaxBatch, id \in BOOLEAN : JrpcPush(c, n, id)
          \/ JrpcSuccess(c) \/ JrpcFailure(c) \/ JrpcInvalid(c) \/ JrpcMetadata(c)
          \/ Metadata(c)
    \/ TaskReceives \/ TaskEnds \/ ServicePublishes \/ Tick

Spec == Init /\ [][Next]_vars

\* Handlers run; the channel and the lock serve their waiters in turn; the
\* publisher task receives; a metadata request ends, as it does only if the
\* service answers: reqwest::get has no timeout.
Fairness ==
    /\ WF_vars(TaskReceives)
    /\ \A c \in Conns :
          /\ SF_vars(PushOk(c)) /\ WF_vars(PublisherPushed(c)) /\ WF_vars(PublisherPushFails(c))
          /\ WF_vars(JrpcSuccess(c)) /\ WF_vars(JrpcFailure(c))
          /\ SF_vars(MetadataHit(c) \/ MetadataMiss(c))
          /\ WF_vars(MetadataFetched(c) \/ MetadataFails(c))

FairSpec == Spec /\ Fairness

-----------------------------------------------------------------------------
(* Properties *)

\* What became of a connection: its handler, its end, or the status it got.
Answers == {"none", "publisher", "jrpc", "legacy", "closed", "200", "400", "404", "500", "503"}

Calls == [from : Nat, to : Nat, next : Nat, id : BOOLEAN]

\* None, one that tells of a push, or one that tells of the metadata.
Replies ==
    {NoReply} \cup Calls
        \cup [version : 0..MaxVersion, known : 0..MaxVersion, changed : 0..(CacheTicks + 1)]

TypeOK ==
    /\ conn \in [Conns -> Answers]
    /\ step \in [Conns -> {"receive", "push", "metadata"}]
    /\ sent \in [Conns -> Nat]
    /\ call \in [Conns -> Calls]
    /\ error_count \in [Conns -> 0..MAX_ERROR_DISCONNECT]
    /\ channel \in Seq([conn : Conns, n : Nat]) /\ Len(channel) <= Capacity
    /\ alive \in BOOLEAN
    /\ queued \in [Conns -> SUBSET Nat] /\ taken \in [Conns -> Nat]
    /\ reply \in [Conns -> Replies]
    /\ lock \in Conns \cup {NoConn}
    /\ cache \in [version : 0..MaxVersion, left : 0..CacheTicks]
    /\ version \in 0..MaxVersion /\ changed \in 0..(CacheTicks + 1)

\* A reply to a push tells exactly which updates of the call the channel took:
\* all of them, or those before the one the failure names. A client that sends
\* the rest again repeats nothing and leaves nothing out.
RepliesTellTheTruth ==
    \A c \in Conns :
        LET r == reply[c]
        IN  "from" \in DOMAIN r => queued[c] \cap r.from..r.to = r.from..(r.next - 1)

\* The publisher task receives the updates of a connection in the order in
\* which the client sent them, none of them twice.
OrderKept ==
    [][TaskReceives => Head(channel).n > taken[Head(channel).conn]]_vars

\* What a client is told of its updates and what the publisher task gets of them
\* agree: replies name exactly the updates queued, which are received in the order
\* sent and none of them twice (push_feed_update).
PushesFaithful == []RepliesTellTheTruth /\ OrderKept

\* Metadata is never more than the cache time out of date: another version than
\* the current one is returned only if that one is no older than CacheTicks.
MetadataFresh ==
    \A c \in Conns :
        LET r == reply[c]
        IN  "known" \in DOMAIN r => r.version = r.known \/ r.changed <= CacheTicks

\* No handler stays in a push or behind the lock of the metadata: whatever it
\* was doing, it comes back for the next message or ends.
HandlersComeBack ==
    \A c \in Conns : []<>(step[c] = "receive" \/ conn[c] = "closed")
=============================================================================
