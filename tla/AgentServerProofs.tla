------------------------ MODULE AgentServerProofs ------------------------
(***************************************************************************)
(* Proofs about the agent's server: what a client is told of its updates   *)
(* and of the metadata, for any number of connections, any capacity of the *)
(* channel and any size of a batch.                                        *)
(*                                                                         *)
(* The inductive invariant relates a call in progress to the channel: the  *)
(* updates of the call before the next one have been queued and no later   *)
(* one has; the channel holds the updates of a connection in increasing    *)
(* order, all above the last one taken.                                    *)
(*                                                                         *)
(* The second half is about the handler of a legacy connection: no wake-up *)
(* of its scheduler is lost and no timer fires early, for any number of    *)
(* subscriptions, any interval and any message.                            *)
(***************************************************************************)
EXTENDS AgentServer, LegacyHandle, TLAPS

USE ZenonT(30)

\* While a handler is in a call its client has no reply to an earlier one; a
\* client of the publisher handler never has one.
Unanswered ==
    \A c \in Conns :
        /\ step[c] # "receive" => reply[c] = NoReply
        /\ conn[c] \in {"none", "publisher"} => reply[c] = NoReply
        /\ step[c] = "metadata" => conn[c] = "jrpc"

\* Decoding errors end a publisher handler before its count passes the threshold.
ErrorsBounded ==
    \A c \in Conns : conn[c] \in {"none", "publisher"} => error_count[c] < MAX_ERROR_DISCONNECT

\* The updates a connection has sent, and those of the call in progress.
CallOK(c) ==
    /\ queued[c] \subseteq 1..sent[c]
    /\ taken[c] <= sent[c]
    /\ step[c] = "push" =>
          /\ call[c].from <= call[c].next
          /\ call[c].next <= call[c].to + 1
          /\ call[c].to <= sent[c]
          /\ taken[c] < call[c].next
          /\ \A m \in queued[c] : m < call[c].next
          /\ queued[c] \cap call[c].from..call[c].to = call[c].from..(call[c].next - 1)

\* An update waiting in the channel: sent, not taken yet, and none that its call
\* has still to push.
WaitingOK(i) ==
    LET e == channel[i]
    IN  /\ e.n > taken[e.conn] /\ e.n <= sent[e.conn]
        /\ step[e.conn] = "push" => e.n < call[e.conn].next

ChannelOK ==
    /\ \A i \in 1..Len(channel) : WaitingOK(i)
    /\ \A i, j \in 1..Len(channel) :
          i < j /\ channel[i].conn = channel[j].conn => channel[i].n < channel[j].n

\* A reply to a push tells of updates already sent.
RepliesOK ==
    /\ RepliesTellTheTruth
    /\ \A c \in Conns : "from" \in DOMAIN reply[c] => reply[c].to <= sent[c]

\* What the cache holds is current, or will be dropped in time.
CacheOK ==
    cache.left > 0 => cache.version = version \/ changed + cache.left <= CacheTicks

ServerInv ==
    /\ TypeOK /\ Unanswered /\ ErrorsBounded
    /\ \A c \in Conns : CallOK(c)
    /\ ChannelOK /\ RepliesOK /\ CacheOK /\ MetadataFresh
-----------------------------------------------------------------------------
(* Types *)

Entry == [conn : Conns, n : Nat]

\* What the types say of one connection.
LEMMA ConnTypes ==
    ASSUME TypeOK, NEW c \in Conns
    PROVE  /\ sent[c] \in Nat /\ taken[c] \in Nat /\ queued[c] \subseteq Nat
           /\ call[c] \in Calls
           /\ call[c].from \in Nat /\ call[c].to \in Nat /\ call[c].next \in Nat
  <1>1. sent \in [Conns -> Nat] /\ taken \in [Conns -> Nat] /\ queued \in [Conns -> SUBSET Nat]
    BY DEF TypeOK
  <1>2. call[c] \in Calls
    BY DEF TypeOK
  <1> QED BY <1>1, <1>2 DEF Calls

\* What the types say of the cached metadata and of time.
LEMMA CacheTypes ==
    ASSUME TypeOK
    PROVE  /\ cache = [version |-> cache.version, left |-> cache.left]
           /\ cache.version \in 0..MaxVersion /\ cache.left \in 0..CacheTicks
           /\ changed \in 0..(CacheTicks + 1) /\ version \in 0..MaxVersion
  BY DEF TypeOK

\* An element of a sequence.
LEMMA ElementOf ==
    ASSUME NEW S, NEW s \in Seq(S), NEW i \in 1..Len(s)
    PROVE  s[i] \in S
  BY SMT

\* A sequence without its first element.
LEMMA HeadTail ==
    ASSUME NEW S, NEW s \in Seq(S), s # <<>>
    PROVE  /\ Len(s) \in Nat \ {0} /\ Head(s) = s[1] /\ Head(s) \in S
           /\ Tail(s) \in Seq(S) /\ Len(Tail(s)) = Len(s) - 1
           /\ \A i \in 1..(Len(s) - 1) : Tail(s)[i] = s[i + 1]
  BY SMT

\* A sequence with one more element.
LEMMA AppendOne ==
    ASSUME NEW S, NEW s \in Seq(S), NEW e \in S
    PROVE  /\ Len(s) \in Nat /\ Append(s, e) \in Seq(S) /\ Len(Append(s, e)) = Len(s) + 1
           /\ \A i \in 1..Len(s) : Append(s, e)[i] = s[i]
           /\ Append(s, e)[Len(s) + 1] = e
  BY SMT

\* The call that PushOk leaves: its next update is one further.
Advanced(k) == [k EXCEPT !.next = @ + 1]

\* A call advanced by push_feed_update is still a call, and only its next
\* update differs.
LEMMA AdvancedCall ==
    ASSUME NEW k \in Calls
    PROVE  /\ Advanced(k) \in Calls
           /\ Advanced(k).next = k.next + 1
           /\ Advanced(k).from = k.from /\ Advanced(k).to = k.to
  BY SMT DEF Calls, Advanced

\* A handler outside a call holds an empty one.
LEMMA NoCallType == NoCall \in Calls
  BY DEF Calls, NoCall

\* A handler's call is replaced by another.
LEMMA CallSet ==
    ASSUME TypeOK, NEW c \in Conns, NEW k \in Calls, call' = [call EXCEPT ![c] = k]
    PROVE  call' \in [Conns -> Calls]
  BY DEF TypeOK

\* send_json leaves a connection as it was or closes it.
LEMMA ReplyTypes ==
    ASSUME TypeOK, NEW c \in Conns, NEW r \in Replies, Reply(c, r)
    PROVE  conn' \in [Conns -> Answers] /\ reply' \in [Conns -> Replies]
  <1>1. "closed" \in Answers /\ conn \in [Conns -> Answers]
    BY DEF Answers, TypeOK
  <1>2. conn' = conn \/ conn' = [conn EXCEPT ![c] = "closed"]
    BY DEF Reply
  <1>3. reply' = reply \/ reply' = [reply EXCEPT ![c] = r]
    BY DEF Reply
  <1>4. reply \in [Conns -> Replies]
    BY DEF TypeOK
  <1> QED BY <1>1, <1>2, <1>3, <1>4

\* What replies are made of.
LEMMA ReplyKinds ==
    ASSUME TypeOK
    PROVE  /\ NoReply \in Replies
           /\ \A c \in Conns : call[c] \in Replies
           /\ [version |-> cache.version, known |-> version, changed |-> changed] \in Replies
           /\ [version |-> version, known |-> version, changed |-> changed] \in Replies
  BY CacheTypes, ConnTypes DEF Replies

\* A handler's program counter moves to one of its steps.
LEMMA GotoTypes ==
    ASSUME TypeOK, NEW c \in Conns, NEW from, NEW to \in {"receive", "push", "metadata"},
           Goto(c, from, to)
    PROVE  step' \in [Conns -> {"receive", "push", "metadata"}]
  BY DEF TypeOK, Goto

\* Every step of the server keeps the types.
LEMMA TypesKept == TypeOK /\ Unanswered /\ ErrorsBounded /\ [Next]_vars => TypeOK'
  <1> SUFFICES ASSUME TypeOK, Unanswered, ErrorsBounded, [Next]_vars PROVE TypeOK'
    OBVIOUS
  <1> USE ServerAssumption
  <1>1. CASE UNCHANGED vars
    BY <1>1 DEF TypeOK, vars
  <1>2. ASSUME NEW c \in Conns,
               NEW path \in Paths, NEW u \in BOOLEAN, NEW h \in BOOLEAN, NEW r \in BOOLEAN,
               request_handler(c, path, u, h, r)
        PROVE  TypeOK'
    <2>1. conn' \in [Conns -> Answers]
      <3>1. Route(path, r) \in Answers
        BY DEF Route, Answers
      <3> QED BY <1>2, <3>1 DEF TypeOK, request_handler, Answers
    <2> QED BY <1>2, <2>1 DEF TypeOK, request_handler, pushing, metadata
  <1>3. ASSUME NEW c \in Conns, Disconnect(c) PROVE TypeOK'
    <2>1. reply' \in [Conns -> Replies]
      BY <1>3, ReplyKinds DEF TypeOK, Disconnect
    <2>2. conn' \in [Conns -> Answers]
      BY <1>3 DEF TypeOK, Answers, Disconnect
    <2> QED BY <1>3, <2>1, <2>2 DEF TypeOK, Disconnect, pushing, metadata
  <1>4. ASSUME NEW c \in Conns, PushOk(c) PROVE TypeOK'
    <2>0. call[c] \in Calls /\ call[c].next \in Nat
      BY ConnTypes
    <2> DEFINE e == [conn |-> c, n |-> call[c].next]
    <2>1. e \in [conn : Conns, n : Nat]
      BY <2>0
    <2>2. channel' \in Seq([conn : Conns, n : Nat]) /\ Len(channel') <= Capacity
      <3>1. channel \in Seq([conn : Conns, n : Nat]) /\ channel' = Append(channel, e)
            /\ Len(channel) < Capacity
        BY <1>4 DEF TypeOK, PushOk
      <3> HIDE DEF e
      <3> QED BY <2>1, <3>1, SMT
    <2>3. queued' \in [Conns -> SUBSET Nat]
      BY <1>4, <2>0 DEF TypeOK, PushOk
    <2>4. call' = [call EXCEPT ![c] = Advanced(call[c])]
      BY <1>4 DEF PushOk, Advanced
    <2>5. call' \in [Conns -> Calls]
      BY <2>0, <2>4, AdvancedCall, CallSet
    <2> QED BY <1>4, <2>2, <2>3, <2>5 DEF TypeOK, PushOk, metadata
  <1>5. ASSUME NEW c \in Conns, PublisherReceives(c) PROVE TypeOK'
    <2>0. sent[c] + 1 \in Nat
      BY ConnTypes, SMT
    <2>1. call' \in [Conns -> Calls]
      <3>1. [from |-> sent[c] + 1, to |-> sent[c] + 1, next |-> sent[c] + 1, id |-> FALSE] \in Calls
        BY <2>0 DEF Calls
      <3> QED BY <1>5, <3>1, CallSet DEF PublisherReceives
    <2>2. sent' \in [Conns -> Nat]
      BY <1>5, <2>0 DEF TypeOK, PublisherReceives
    <2>3. step' \in [Conns -> {"receive", "push", "metadata"}]
      BY <1>5, GotoTypes DEF PublisherReceives
    <2> QED BY <1>5, <2>1, <2>2, <2>3 DEF TypeOK, PublisherReceives, pushing, metadata
  <1>6. ASSUME NEW c \in Conns, PublisherPushed(c) PROVE TypeOK'
    <2>1. call' \in [Conns -> Calls]
      BY <1>6, NoCallType, CallSet DEF PublisherPushed
    <2>2. step' \in [Conns -> {"receive", "push", "metadata"}]
      BY <1>6, GotoTypes DEF PublisherPushed
    <2> QED BY <1>6, <2>1, <2>2 DEF TypeOK, PublisherPushed, pushing, metadata
  <1>7. ASSUME NEW c \in Conns, PublisherPushFails(c) PROVE TypeOK'
    <2>1. conn' \in [Conns -> Answers]
      BY <1>7 DEF TypeOK, Answers, PublisherPushFails
    <2> QED BY <1>7, <2>1 DEF TypeOK, PublisherPushFails, pushing, metadata
  <1>8. ASSUME NEW c \in Conns, PublisherDecodeError(c) PROVE TypeOK'
    <2>1. error_count' \in [Conns -> 0..MAX_ERROR_DISCONNECT]
      BY <1>8, SMT DEF TypeOK, PublisherDecodeError, ErrorsBounded
    <2>2. conn' \in [Conns -> Answers]
      BY <1>8 DEF TypeOK, Answers, PublisherDecodeError
    <2> QED BY <1>8, <2>1, <2>2 DEF TypeOK, PublisherDecodeError, pushing, metadata
  <1>9. ASSUME NEW c \in Conns, NEW n \in 0..MaxBatch, NEW id \in BOOLEAN, JrpcPush(c, n, id)
        PROVE  TypeOK'
    <2>0. sent[c] + 1 \in Nat /\ sent[c] + n \in Nat
      BY ConnTypes, SMT
    <2>1. call' \in [Conns -> Calls]
      <3>1. [from |-> sent[c] + 1, to |-> sent[c] + n, next |-> sent[c] + 1, id |-> id] \in Calls
        BY <2>0 DEF Calls
      <3> QED BY <1>9, <3>1, CallSet DEF JrpcPush
    <2>2. sent' \in [Conns -> Nat]
      BY <1>9, <2>0 DEF TypeOK, JrpcPush
    <2>3. step' \in [Conns -> {"receive", "push", "metadata"}]
      BY <1>9, GotoTypes DEF JrpcPush
    <2>4. reply' \in [Conns -> Replies]
      BY <1>9, ReplyKinds DEF JrpcPush, TypeOK
    <2> QED BY <1>9, <2>1, <2>2, <2>3, <2>4 DEF TypeOK, JrpcPush, pushing, metadata
  <1>10. ASSUME NEW c \in Conns, JrpcSuccess(c) \/ JrpcFailure(c) PROVE TypeOK'
    <2>1. call' \in [Conns -> Calls]
      BY <1>10, NoCallType, CallSet DEF JrpcSuccess, JrpcFailure
    <2>2. step' \in [Conns -> {"receive", "push", "metadata"}]
      BY <1>10, GotoTypes DEF JrpcSuccess, JrpcFailure
    <2>3. conn' \in [Conns -> Answers] /\ reply' \in [Conns -> Replies]
      <3>1. Reply(c, call[c]) \/ UNCHANGED <<conn, reply>>
        BY <1>10 DEF JrpcSuccess, JrpcFailure
      <3> QED BY <3>1, ReplyTypes, ReplyKinds DEF TypeOK
    <2> QED BY <1>10, <2>1, <2>2, <2>3 DEF TypeOK, JrpcSuccess, JrpcFailure, pushing, metadata
  <1>11. ASSUME NEW c \in Conns, JrpcInvalid(c) PROVE TypeOK'
    <2>1. conn' \in [Conns -> Answers] /\ reply' \in [Conns -> Replies]
      BY <1>11, ReplyTypes, ReplyKinds DEF JrpcInvalid
    <2> QED BY <1>11, <2>1 DEF TypeOK, JrpcInvalid, pushing, metadata
  <1>12. ASSUME NEW c \in Conns, JrpcMetadata(c) PROVE TypeOK'
    <2>1. step' \in [Conns -> {"receive", "push", "metadata"}]
      BY <1>12, GotoTypes DEF JrpcMetadata
    <2>2. reply' \in [Conns -> Replies]
      BY <1>12, ReplyKinds DEF TypeOK, JrpcMetadata
    <2> QED BY <1>12, <2>1, <2>2 DEF TypeOK, JrpcMetadata, pushing, metadata
  <1>13. ASSUME NEW c \in Conns, Metadata(c) PROVE TypeOK'
    <2>1. /\ conn' \in [Conns -> Answers] /\ reply' \in [Conns -> Replies]
          /\ step' \in [Conns -> {"receive", "push", "metadata"}]
      <3>1. CASE MetadataMiss(c)
        BY <3>1 DEF MetadataMiss, TypeOK
      <3>2. CASE ~MetadataMiss(c)
        <4>1. PICK r \in Replies : Reply(c, r)
          BY <1>13, <3>2, ReplyKinds DEF Metadata, MetadataHit, MetadataFetched, MetadataFails
        <4>2. Goto(c, "metadata", "receive")
          BY <1>13, <3>2 DEF Metadata, MetadataHit, MetadataFetched, MetadataFails
        <4> QED BY <4>1, <4>2, ReplyTypes, GotoTypes
      <3> QED BY <3>1, <3>2
    <2>2. /\ lock' \in Conns \cup {NoConn}
          /\ cache' \in [version : 0..MaxVersion, left : 0..CacheTicks]
          /\ version' = version /\ changed' = changed
      BY <1>13, SMT DEF TypeOK, Metadata, MetadataHit, MetadataMiss, MetadataFetched, MetadataFails,
                   metadata
    <2>3. UNCHANGED <<sent, call, error_count, channel, alive, queued, taken>>
      BY <1>13 DEF Metadata, MetadataHit, MetadataMiss, MetadataFetched, MetadataFails, pushing
    <2> QED BY <2>1, <2>2, <2>3 DEF TypeOK
  <1>14. CASE TaskReceives
    <2>0. /\ channel \in Seq(Entry) /\ channel # <<>> /\ Len(channel) <= Capacity
          /\ channel' = Tail(channel)
      BY <1>14 DEF TypeOK, TaskReceives, Entry
    <2>1. Head(channel) \in Entry
      BY <2>0, HeadTail
    <2>2. channel' \in Seq(Entry) /\ Len(channel') <= Capacity
      BY <2>0, HeadTail, SMT
    <2>3. taken' \in [Conns -> Nat]
      BY <1>14, <2>1 DEF TypeOK, TaskReceives, Entry
    <2> QED BY <1>14, <2>2, <2>3 DEF TypeOK, TaskReceives, metadata, Entry
  <1>15. CASE TaskEnds
    BY <1>15 DEF TypeOK, TaskEnds, metadata
  <1>16. CASE ServicePublishes
    BY <1>16, SMT DEF TypeOK, ServicePublishes, pushing
  <1>17. CASE Tick
    <2>1. cache' \in [version : 0..MaxVersion, left : 0..CacheTicks]
          /\ changed' \in 0..(CacheTicks + 1)
      <3>1. cache' = [version |-> cache.version,
                      left |-> IF cache.left > 0 THEN cache.left - 1 ELSE 0]
        BY <1>17, CacheTypes DEF Tick
      <3>2. (IF cache.left > 0 THEN cache.left - 1 ELSE 0) \in 0..CacheTicks
        BY CacheTypes, SMT
      <3>3. changed' \in 0..(CacheTicks + 1)
        BY <1>17, CacheTypes, SMT DEF Tick
      <3> QED BY <3>1, <3>2, <3>3, CacheTypes
    <2> QED BY <1>17, <2>1 DEF TypeOK, Tick, pushing
  <1> QED
    BY <1>1, <1>2, <1>3, <1>4, <1>5, <1>6, <1>7, <1>8, <1>9, <1>10, <1>11, <1>12, <1>13,
       <1>14, <1>15, <1>16, <1>17
    DEF Next, Publisher
-----------------------------------------------------------------------------
(* Handlers and their replies *)

\* A reply is left, withdrawn, or that of a push or of a get_metadata.
LEMMA ReplyCases ==
    ASSUME TypeOK, [Next]_vars, NEW c \in Conns
    PROVE  \/ reply'[c] = reply[c]
           \/ reply'[c] = NoReply
           \/ (JrpcSuccess(c) \/ JrpcFailure(c)) /\ reply'[c] = call[c]
           \/ /\ MetadataHit(c)
              /\ reply'[c] = [version |-> cache.version, known |-> version, changed |-> changed]
           \/ /\ MetadataFetched(c)
              /\ reply'[c] = [version |-> version, known |-> version, changed |-> changed]
  <1> USE DEF TypeOK
  <1>0. reply \in [Conns -> Replies]
    OBVIOUS
  <1>1. CASE UNCHANGED reply
    BY <1>1
  <1>2. ASSUME NEW d \in Conns, \/ Disconnect(d) \/ JrpcMetadata(d)
                               \/ \E n \in 0..MaxBatch, id \in BOOLEAN : JrpcPush(d, n, id)
        PROVE  reply'[c] \in {reply[c], NoReply}
    BY <1>0, <1>2 DEF Disconnect, JrpcMetadata, JrpcPush
  <1>3. ASSUME NEW d \in Conns, NEW r, Reply(d, r)
        PROVE  reply'[c] = reply[c] \/ (c = d /\ reply'[c] = r)
    BY <1>0, <1>3 DEF Reply
  <1>4. ASSUME NEW d \in Conns, JrpcSuccess(d) \/ JrpcFailure(d)
        PROVE  reply'[c] = reply[c] \/ (c = d /\ reply'[c] = call[c])
    BY <1>3, <1>4 DEF JrpcSuccess, JrpcFailure
  <1>5. ASSUME NEW d \in Conns, JrpcInvalid(d) \/ MetadataFails(d)
        PROVE  reply'[c] \in {reply[c], NoReply}
    BY <1>3, <1>5 DEF JrpcInvalid, MetadataFails
  <1>6. ASSUME NEW d \in Conns, MetadataHit(d)
        PROVE  \/ reply'[c] = reply[c]
               \/ c = d /\ reply'[c] = [version |-> cache.version, known |-> version,
                                       changed |-> changed]
    BY <1>3, <1>6 DEF MetadataHit
  <1>7. ASSUME NEW d \in Conns, MetadataFetched(d)
        PROVE  \/ reply'[c] = reply[c]
               \/ c = d /\ reply'[c] = [version |-> version, known |-> version,
                                       changed |-> changed]
    BY <1>3, <1>7 DEF MetadataFetched
  <1>8. \/ UNCHANGED reply
        \/ \E d \in Conns :
              \/ Disconnect(d) \/ JrpcMetadata(d)
              \/ \E n \in 0..MaxBatch, id \in BOOLEAN : JrpcPush(d, n, id)
              \/ JrpcSuccess(d) \/ JrpcFailure(d) \/ JrpcInvalid(d) \/ MetadataFails(d)
              \/ MetadataHit(d) \/ MetadataFetched(d)
    BY DEF Next, vars, Publisher, Metadata, request_handler, PushOk, PublisherReceives,
           PublisherPushed, PublisherPushFails, PublisherDecodeError, MetadataMiss,
           TaskReceives, TaskEnds, ServicePublishes, Tick
  <1> HIDE DEF TypeOK
  <1> QED BY <1>1, <1>2, <1>4, <1>5, <1>6, <1>7, <1>8

\* A reply to one call is neither a reply to a push nor one with metadata
\* unless it was made for that.
LEMMA ReplyDomains ==
    ASSUME TypeOK, NEW c \in Conns, NEW v, NEW k, NEW d
    PROVE  /\ "from" \notin DOMAIN NoReply /\ "known" \notin DOMAIN NoReply
           /\ "known" \notin DOMAIN call[c]
           /\ "from" \notin DOMAIN [version |-> v, known |-> k, changed |-> d]
  <1>1. DOMAIN call[c] = {"from", "to", "next", "id"}
    BY ConnTypes DEF Calls
  <1> QED BY <1>1 DEF NoReply

\* What the cache holds is current or dropped in time, whatever the service does.
LEMMA CacheKept == TypeOK /\ CacheOK /\ [Next]_vars => CacheOK'
  <1> SUFFICES ASSUME TypeOK, CacheOK, [Next]_vars PROVE CacheOK'
    OBVIOUS
  <1> USE ServerAssumption
  <1>1. CASE UNCHANGED <<cache, version, changed>>
    BY <1>1 DEF CacheOK
  <1>2. ASSUME NEW c \in Conns, MetadataFetched(c) PROVE CacheOK'
    BY <1>2 DEF MetadataFetched, CacheOK
  <1>3. CASE ServicePublishes
    BY <1>3, CacheTypes, SMT DEF ServicePublishes, CacheOK
  <1>4. CASE Tick
    <2>1. /\ cache'.version = cache.version
          /\ cache'.left = IF cache.left > 0 THEN cache.left - 1 ELSE 0
      BY <1>4, CacheTypes DEF Tick
    <2>2. version' = version /\ changed' <= changed + 1
      BY <1>4, CacheTypes, SMT DEF Tick
    <2>3. changed' \in Nat
      BY <1>4, CacheTypes, SMT DEF Tick
    <2> QED BY <2>1, <2>2, <2>3, CacheTypes, SMT DEF CacheOK
  <1>5. \/ UNCHANGED <<cache, version, changed>>
        \/ \E c \in Conns : MetadataFetched(c)
        \/ ServicePublishes \/ Tick
    <2>1. ASSUME NEW c \in Conns,
                 \/ \E path \in Paths, u, h, r \in BOOLEAN : request_handler(c, path, u, h, r)
                 \/ Disconnect(c) \/ PushOk(c) \/ Publisher(c)
          PROVE  UNCHANGED <<cache, version, changed>>
      BY <2>1 DEF request_handler, Disconnect, PushOk, Publisher, PublisherReceives,
                  PublisherPushed, PublisherPushFails, PublisherDecodeError, metadata
    <2>2. ASSUME NEW c \in Conns,
                 \/ \E n \in 0..MaxBatch, id \in BOOLEAN : JrpcPush(c, n, id)
                 \/ JrpcSuccess(c) \/ JrpcFailure(c) \/ JrpcInvalid(c) \/ JrpcMetadata(c)
          PROVE  UNCHANGED <<cache, version, changed>>
      BY <2>2 DEF JrpcPush, JrpcSuccess, JrpcFailure, JrpcInvalid, JrpcMetadata, metadata
    <2>3. ASSUME NEW c \in Conns, MetadataHit(c) \/ MetadataMiss(c) \/ MetadataFails(c)
          PROVE  UNCHANGED <<cache, version, changed>>
      BY <2>3 DEF MetadataHit, MetadataMiss, MetadataFails, metadata
    <2>4. ASSUME UNCHANGED vars \/ TaskReceives \/ TaskEnds
          PROVE  UNCHANGED <<cache, version, changed>>
      BY <2>4 DEF TaskReceives, TaskEnds, metadata, vars
    <2> QED BY <2>1, <2>2, <2>3, <2>4 DEF Next, Metadata
  <1> QED BY <1>1, <1>2, <1>3, <1>4, <1>5

\* get_metadata answers with the current version or one replaced within the cache time.
LEMMA FreshKept == TypeOK /\ CacheOK /\ MetadataFresh /\ [Next]_vars => MetadataFresh'
  <1> SUFFICES ASSUME TypeOK, CacheOK, MetadataFresh, [Next]_vars, NEW c \in Conns,
                      "known" \in DOMAIN reply'[c]
               PROVE  reply'[c].version = reply'[c].known \/ reply'[c].changed <= CacheTicks
    BY DEF MetadataFresh
  <1>1. CASE reply'[c] = reply[c]
    BY <1>1 DEF MetadataFresh
  <1>2. CASE reply'[c] = NoReply \/ reply'[c] = call[c]
    BY <1>2, ReplyDomains
  <1>3. CASE MetadataHit(c) /\ reply'[c] = [version |-> cache.version, known |-> version,
                                           changed |-> changed]
    BY <1>3, ServerAssumption, CacheTypes, SMT DEF MetadataHit, CacheOK
  <1>4. CASE reply'[c] = [version |-> version, known |-> version, changed |-> changed]
    BY <1>4, SMT
  <1> QED BY <1>1, <1>2, <1>3, <1>4, ReplyCases
-----------------------------------------------------------------------------
(* Pushes *)

\* A handler comes back from a call, or goes to wait for metadata.
Leaves(c, to) ==
    /\ step' = [step EXCEPT ![c] = to]
    /\ call' = call \/ call' = [call EXCEPT ![c] = NoCall]
    /\ UNCHANGED <<sent, channel, queued, taken>>

\* A handler starts to push n updates.
Starts(c, n, id) ==
    /\ step[c] = "receive" /\ step' = [step EXCEPT ![c] = "push"]
    /\ sent' = [sent EXCEPT ![c] = @ + n]
    /\ call' = [call EXCEPT ![c] = [from |-> sent[c] + 1, to |-> sent[c] + n,
                                    next |-> sent[c] + 1, id |-> id]]
    /\ UNCHANGED <<channel, queued, taken>>

\* What a step of the server may do to the calls and to the channel.
LEMMA PushCases ==
    ASSUME [Next]_vars
    PROVE  \/ UNCHANGED <<step, sent, call, channel, queued, taken>>
           \/ \E c \in Conns, to \in {"receive", "metadata"} : Leaves(c, to)
           \/ \E c \in Conns, n \in Nat, id \in BOOLEAN : Starts(c, n, id)
           \/ \E c \in Conns : PushOk(c)
           \/ TaskReceives
  <1> USE ServerAssumption
  <1>1. ASSUME NEW c \in Conns,
               \/ \E path \in Paths, u, h, r \in BOOLEAN : request_handler(c, path, u, h, r)
               \/ Disconnect(c) \/ PublisherPushFails(c) \/ PublisherDecodeError(c)
               \/ JrpcInvalid(c) \/ MetadataMiss(c)
        PROVE  UNCHANGED <<step, sent, call, channel, queued, taken>>
    BY <1>1 DEF request_handler, Disconnect, PublisherPushFails, PublisherDecodeError,
                JrpcInvalid, MetadataMiss, pushing
  <1>2. ASSUME NEW c \in Conns,
               \/ PublisherPushed(c) \/ JrpcSuccess(c) \/ JrpcFailure(c)
               \/ MetadataHit(c) \/ MetadataFetched(c) \/ MetadataFails(c)
        PROVE  Leaves(c, "receive")
    BY <1>2 DEF PublisherPushed, JrpcSuccess, JrpcFailure, MetadataHit, MetadataFetched,
                MetadataFails, Leaves, Goto, pushing
  <1>3. ASSUME NEW c \in Conns, JrpcMetadata(c) PROVE Leaves(c, "metadata")
    BY <1>3 DEF JrpcMetadata, Leaves, Goto, pushing
  <1>4. ASSUME NEW c \in Conns, PublisherReceives(c) PROVE Starts(c, 1, FALSE)
    BY <1>4 DEF PublisherReceives, Starts, Goto, pushing
  <1>5. ASSUME NEW c \in Conns, NEW n \in 0..MaxBatch, NEW id \in BOOLEAN, JrpcPush(c, n, id)
        PROVE  n \in Nat /\ Starts(c, n, id)
    BY <1>5, SMT DEF JrpcPush, Starts, Goto, pushing
  <1>6. ASSUME UNCHANGED vars \/ TaskEnds \/ ServicePublishes \/ Tick
        PROVE  UNCHANGED <<step, sent, call, channel, queued, taken>>
    BY <1>6 DEF vars, TaskEnds, ServicePublishes, Tick, pushing
  <1>7. 1 \in Nat /\ FALSE \in BOOLEAN
    OBVIOUS
  <1> QED BY <1>1, <1>2, <1>3, <1>4, <1>5, <1>6, <1>7 DEF Next, Publisher, Metadata

\* The updates of a call before its next one are queued and no others of it,
\* through every step of this and of other connections.
LEMMA CallsKept ==
    ASSUME TypeOK, TypeOK', \A c \in Conns : CallOK(c), ChannelOK, [Next]_vars, NEW c \in Conns
    PROVE  CallOK(c)'
  <1>0. CallOK(c)
    OBVIOUS
  <1>t. /\ sent[c] \in Nat /\ taken[c] \in Nat /\ queued[c] \subseteq Nat
        /\ call[c] \in Calls
        /\ call[c].from \in Nat /\ call[c].to \in Nat /\ call[c].next \in Nat
    BY ConnTypes
  <1>f. /\ step \in [Conns -> {"receive", "push", "metadata"}] /\ sent \in [Conns -> Nat]
        /\ call \in [Conns -> Calls]
        /\ queued \in [Conns -> SUBSET Nat] /\ taken \in [Conns -> Nat]
    BY DEF TypeOK
  <1>1. CASE UNCHANGED <<step, sent, call, channel, queued, taken>>
    BY <1>0, <1>1 DEF CallOK
  <1>2. ASSUME NEW d \in Conns, NEW to \in {"receive", "metadata"}, Leaves(d, to)
        PROVE  CallOK(c)'
    <2>1. CASE c = d
      <3>1. step'[c] # "push" /\ UNCHANGED <<sent, queued, taken>>
        BY <1>2, <1>f, <2>1 DEF Leaves
      <3> QED BY <1>0, <3>1 DEF CallOK
    <2>2. CASE c # d
      <3>1. step'[c] = step[c] /\ call'[c] = call[c] /\ UNCHANGED <<sent, queued, taken>>
        BY <1>2, <1>f, <2>2 DEF Leaves
      <3> QED BY <1>0, <3>1 DEF CallOK
    <2> QED BY <2>1, <2>2
  <1>3. ASSUME NEW d \in Conns, NEW n \in Nat, NEW id \in BOOLEAN, Starts(d, n, id)
        PROVE  CallOK(c)'
    <2>1. CASE c = d
      <3>1. /\ step[c] # "push" /\ sent'[c] = sent[c] + n
            /\ call'[c] = [from |-> sent[c] + 1, to |-> sent[c] + n, next |-> sent[c] + 1,
                           id |-> id]
            /\ queued' = queued /\ taken' = taken
        BY <1>3, <1>f, <2>1 DEF Starts
      <3>2. call'[c].from = sent[c] + 1 /\ call'[c].to = sent[c] + n
            /\ call'[c].next = sent[c] + 1
        BY <3>1, SMT
      <3>3. queued[c] \subseteq 1..sent[c] /\ taken[c] <= sent[c]
        BY <1>0 DEF CallOK
      <3>4. queued[c] \subseteq 1..(sent[c] + n)
        BY <1>t, <3>3, SMT
      <3>5. \A m \in queued[c] : m < sent[c] + 1
        BY <1>t, <3>3, SMT
      <3>6. queued[c] \cap (sent[c] + 1)..(sent[c] + n) = (sent[c] + 1)..(sent[c] + 1 - 1)
        BY <1>t, <3>3, SMT
      <3> QED BY <1>t, <3>1, <3>2, <3>3, <3>4, <3>5, <3>6, SMT DEF CallOK
    <2>2. CASE c # d
      <3>1. /\ step'[c] = step[c] /\ call'[c] = call[c] /\ sent'[c] = sent[c]
            /\ queued' = queued /\ taken' = taken
        BY <1>3, <1>f, <2>2 DEF Starts
      <3> QED BY <1>0, <3>1 DEF CallOK
    <2> QED BY <2>1, <2>2
  <1>4. ASSUME NEW d \in Conns, PushOk(d) PROVE CallOK(c)'
    <2>0. call' = [call EXCEPT ![d] = Advanced(call[d])]
      BY <1>4 DEF PushOk, Advanced
    <2>1. CASE c = d
      <3>1. /\ step[c] = "push" /\ call[c].next <= call[c].to
            /\ step' = step /\ sent' = sent /\ taken' = taken
            /\ queued'[c] = queued[c] \cup {call[c].next}
        BY <1>4, <1>f, <2>1 DEF PushOk
      <3>2. /\ call'[c].next = call[c].next + 1
            /\ call'[c].from = call[c].from /\ call'[c].to = call[c].to
        <4>1. call'[c] = Advanced(call[c])
          BY <1>f, <2>0, <2>1
        <4> QED BY <1>t, <4>1, AdvancedCall
      <3>3. /\ queued[c] \subseteq 1..sent[c] /\ taken[c] <= sent[c]
            /\ call[c].from <= call[c].next /\ call[c].to <= sent[c]
            /\ taken[c] < call[c].next
            /\ \A m \in queued[c] : m < call[c].next
            /\ queued[c] \cap call[c].from..call[c].to = call[c].from..(call[c].next - 1)
        BY <1>0, <3>1 DEF CallOK
      <3>4. 1 <= call[c].next
        BY <1>t, <3>3, SMT
      <3>5. queued'[c] \subseteq 1..sent[c] /\ \A m \in queued'[c] : m < call[c].next + 1
        BY <1>t, <3>1, <3>3, <3>4, SMT
      <3>6. queued'[c] \cap call[c].from..call[c].to
              = call[c].from..(call[c].next + 1 - 1)
        BY <1>t, <3>1, <3>3, SMT
      <3> QED BY <1>t, <3>1, <3>2, <3>3, <3>5, <3>6, SMT DEF CallOK
    <2>2. CASE c # d
      <3>1. /\ step' = step /\ call'[c] = call[c] /\ sent' = sent
            /\ queued'[c] = queued[c] /\ taken' = taken
        BY <1>4, <1>f, <2>0, <2>2 DEF PushOk
      <3> QED BY <1>0, <3>1 DEF CallOK
    <2> QED BY <2>1, <2>2
  <1>5. CASE TaskReceives
    <2>1. channel \in Seq(Entry) /\ channel # <<>>
      BY <1>5 DEF TypeOK, TaskReceives, Entry
    <2>2. 1 \in 1..Len(channel) /\ Head(channel) = channel[1] /\ channel[1] \in Entry
      BY <2>1, HeadTail, SMT
    <2>3. UNCHANGED <<step, sent, call, queued>>
      BY <1>5 DEF TaskReceives
    <2>4. CASE c = channel[1].conn
      <3>1. taken'[c] = channel[1].n
        BY <1>5, <1>f, <2>2, <2>4 DEF TaskReceives
      <3>2. channel[1].n <= sent[c] /\ (step[c] = "push" => channel[1].n < call[c].next)
        BY <2>2, <2>4 DEF ChannelOK, WaitingOK
      <3> QED BY <1>0, <2>3, <3>1, <3>2 DEF CallOK
    <2>5. CASE c # channel[1].conn
      <3>1. taken'[c] = taken[c]
        BY <1>5, <1>f, <2>2, <2>5 DEF TaskReceives
      <3> QED BY <1>0, <2>3, <3>1 DEF CallOK
    <2> QED BY <2>4, <2>5
  <1> QED BY <1>1, <1>2, <1>3, <1>4, <1>5, PushCases

\* The channel keeps the updates of a connection in the order sent, above the
\* one taken last.
LEMMA ChannelKept ==
    ASSUME TypeOK, \A c \in Conns : CallOK(c), ChannelOK, [Next]_vars
    PROVE  ChannelOK'
  <1>t. \A c \in Conns : /\ sent[c] \in Nat /\ taken[c] \in Nat
                        /\ call[c] \in Calls /\ call[c].next \in Nat /\ call[c].to \in Nat
    BY ConnTypes
  <1>f. /\ step \in [Conns -> {"receive", "push", "metadata"}] /\ sent \in [Conns -> Nat]
        /\ call \in [Conns -> Calls] /\ taken \in [Conns -> Nat]
    BY DEF TypeOK
  <1>c. channel \in Seq(Entry) /\ Len(channel) \in Nat
    BY SMT DEF TypeOK, Entry
  <1>e. \A i \in 1..Len(channel) : channel[i].conn \in Conns /\ channel[i].n \in Nat
    <2> TAKE i \in 1..Len(channel)
    <2>1. channel[i] \in Entry
      BY <1>c, ElementOf
    <2> QED BY <2>1 DEF Entry
  <1>1. CASE UNCHANGED <<step, sent, call, channel, queued, taken>>
    BY <1>1 DEF ChannelOK, WaitingOK
  <1>2. ASSUME NEW d \in Conns, NEW to \in {"receive", "metadata"}, Leaves(d, to)
        PROVE  ChannelOK'
    <2>1. /\ channel' = channel /\ sent' = sent /\ taken' = taken
          /\ \A c \in Conns : step'[c] = "push" => step[c] = "push" /\ call'[c] = call[c]
      BY <1>2, <1>f DEF Leaves
    <2>2. ASSUME NEW i \in 1..Len(channel) PROVE WaitingOK(i)'
      BY <1>e, <2>1 DEF ChannelOK, WaitingOK
    <2> QED BY <2>1, <2>2 DEF ChannelOK
  <1>3. ASSUME NEW d \in Conns, NEW n \in Nat, NEW id \in BOOLEAN, Starts(d, n, id)
        PROVE  ChannelOK'
    <2>1. channel' = channel /\ taken' = taken
      BY <1>3 DEF Starts
    <2>2. ASSUME NEW i \in 1..Len(channel) PROVE WaitingOK(i)'
      <3> DEFINE c == channel[i].conn
      <3>1. /\ c \in Conns /\ channel[i].n \in Nat
            /\ channel[i].n > taken[c] /\ channel[i].n <= sent[c]
            /\ step[c] = "push" => channel[i].n < call[c].next
        BY <1>e DEF ChannelOK, WaitingOK
      <3>2. CASE c = d
        <4>1. sent'[c] = sent[c] + n /\ call'[c].next = sent[c] + 1
          BY <1>3, <1>f, <3>2 DEF Starts
        <4>2. channel[i].n <= sent'[c] /\ channel[i].n < call'[c].next
          BY <1>t, <3>1, <4>1, SMT
        <4> QED BY <2>1, <3>1, <4>2 DEF WaitingOK
      <3>3. CASE c # d
        <4>1. sent'[c] = sent[c] /\ call'[c] = call[c] /\ step'[c] = step[c]
          BY <1>3, <1>f, <3>1, <3>3 DEF Starts
        <4> QED BY <2>1, <3>1, <4>1 DEF WaitingOK
      <3> QED BY <3>2, <3>3
    <2> QED BY <2>1, <2>2 DEF ChannelOK
  <1>4. ASSUME NEW d \in Conns, PushOk(d) PROVE ChannelOK'
    <2> DEFINE e == [conn |-> d, n |-> call[d].next]
    <2>0. /\ call' = [call EXCEPT ![d] = Advanced(call[d])]
          /\ UNCHANGED <<step, sent, taken>>
          /\ step[d] = "push" /\ call[d].next <= call[d].to
          /\ channel' = Append(channel, e)
      BY <1>4 DEF PushOk, Advanced
    <2>1. e \in Entry /\ e.conn = d /\ e.n = call[d].next
      BY <1>t DEF Entry
    <2> HIDE DEF e
    <2>2. /\ Len(channel') = Len(channel) + 1
          /\ \A i \in 1..Len(channel) : channel'[i] = channel[i]
          /\ channel'[Len(channel) + 1] = e
      BY <1>c, <2>0, <2>1, AppendOne, SMT
    <2>3. call'[d].next = call[d].next + 1
      <3>1. call'[d] = Advanced(call[d])
        BY <1>f, <2>0
      <3> QED BY <1>t, <3>1, AdvancedCall
    <2>4. taken[d] < call[d].next /\ call[d].to <= sent[d]
      BY <2>0 DEF CallOK
    <2>5. ASSUME NEW i \in 1..Len(channel') PROVE WaitingOK(i)'
      <3>1. CASE i \in 1..Len(channel)
        <4> DEFINE c == channel[i].conn
        <4>1. /\ c \in Conns /\ channel[i].n \in Nat
              /\ channel[i].n > taken[c] /\ channel[i].n <= sent[c]
              /\ step[c] = "push" => channel[i].n < call[c].next
          BY <1>e, <3>1 DEF ChannelOK, WaitingOK
        <4>2. step[c] = "push" => channel[i].n < call'[c].next
          <5>1. CASE c = d
            BY <1>t, <2>3, <4>1, <5>1, SMT
          <5>2. CASE c # d
            BY <1>f, <2>0, <4>1, <5>2
          <5> QED BY <5>1, <5>2
        <4>3. channel'[i] = channel[i]
          BY <2>2, <3>1
        <4> QED BY <2>0, <4>1, <4>2, <4>3 DEF WaitingOK
      <3>2. CASE i = Len(channel) + 1
        <4>1. channel'[i] = e
          BY <2>2, <3>2
        <4>2. /\ call[d].next > taken[d] /\ call[d].next <= sent[d]
              /\ call[d].next < call'[d].next
          BY <1>t, <2>0, <2>3, <2>4, SMT
        <4> QED BY <2>0, <2>1, <4>1, <4>2 DEF WaitingOK
      <3> QED BY <1>c, <2>2, <3>1, <3>2, SMT
    <2>6. ASSUME NEW i \in 1..Len(channel'), NEW j \in 1..Len(channel'),
                 i < j, channel'[i].conn = channel'[j].conn
          PROVE  channel'[i].n < channel'[j].n
      <3>1. i \in 1..Len(channel) /\ channel'[i] = channel[i]
        BY <1>c, <2>2, <2>6, SMT
      <3>2. CASE j \in 1..Len(channel)
        BY <2>2, <2>6, <3>1, <3>2 DEF ChannelOK
      <3>3. CASE j = Len(channel) + 1
        <4>1. channel'[j] = e /\ channel[i].conn = d
          BY <2>1, <2>2, <2>6, <3>1, <3>3
        <4> QED BY <2>0, <2>1, <3>1, <4>1 DEF ChannelOK, WaitingOK
      <3> QED BY <1>c, <2>2, <3>2, <3>3, SMT
    <2> QED BY <2>5, <2>6 DEF ChannelOK
  <1>5. CASE TaskReceives
    <2>1. /\ channel # <<>> /\ channel' = Tail(channel) /\ UNCHANGED <<step, sent, call>>
          /\ taken' = [taken EXCEPT ![Head(channel).conn] = Head(channel).n]
      BY <1>5 DEF TaskReceives
    <2>2. /\ Len(channel) \in Nat \ {0} /\ Head(channel) = channel[1]
          /\ Len(channel') = Len(channel) - 1
          /\ \A i \in 1..(Len(channel) - 1) : channel'[i] = channel[i + 1]
      BY <1>c, <2>1, HeadTail
    <2>3. ASSUME NEW i \in 1..Len(channel') PROVE WaitingOK(i)'
      <3>1. i + 1 \in 1..Len(channel) /\ 1 < i + 1 /\ 1 \in 1..Len(channel)
            /\ channel'[i] = channel[i + 1]
        BY <2>2, SMT
      <3> DEFINE c == channel[i + 1].conn
      <3>2. /\ c \in Conns /\ channel[i + 1].n > taken[c] /\ channel[i + 1].n <= sent[c]
            /\ step[c] = "push" => channel[i + 1].n < call[c].next
        BY <1>e, <3>1 DEF ChannelOK, WaitingOK
      <3>3. channel[i + 1].n > taken'[c]
        <4>1. CASE c = channel[1].conn
          <5>1. taken'[c] = channel[1].n
            BY <1>f, <2>1, <2>2, <3>2, <4>1
          <5>2. channel[1].n < channel[i + 1].n
            BY <3>1, <4>1 DEF ChannelOK
          <5>3. channel[1].n \in Nat /\ channel[i + 1].n \in Nat
            BY <1>e, <3>1
          <5> QED BY <5>1, <5>2, <5>3
        <4>2. CASE c # channel[1].conn
          BY <1>f, <2>1, <2>2, <3>2, <4>2, SMT
        <4> QED BY <4>1, <4>2
      <3> QED BY <2>1, <3>1, <3>2, <3>3 DEF WaitingOK
    <2>4. ASSUME NEW i \in 1..Len(channel'), NEW j \in 1..Len(channel'),
                 i < j, channel'[i].conn = channel'[j].conn
          PROVE  channel'[i].n < channel'[j].n
      <3>1. /\ i + 1 \in 1..Len(channel) /\ j + 1 \in 1..Len(channel) /\ i + 1 < j + 1
            /\ channel'[i] = channel[i + 1] /\ channel'[j] = channel[j + 1]
        BY <2>2, <2>4, SMT
      <3> QED BY <2>4, <3>1 DEF ChannelOK
    <2> QED BY <2>3, <2>4 DEF ChannelOK
  <1> QED BY <1>1, <1>2, <1>3, <1>4, <1>5, PushCases

\* A reply to a push stays true: no later push queues an update it tells of.
LEMMA RepliesKept ==
    ASSUME TypeOK, Unanswered, \A c \in Conns : CallOK(c), RepliesOK, [Next]_vars
    PROVE  RepliesOK'
  <1> SUFFICES ASSUME NEW c \in Conns, "from" \in DOMAIN reply'[c]
               PROVE  /\ queued'[c] \cap reply'[c].from..reply'[c].to
                            = reply'[c].from..(reply'[c].next - 1)
                      /\ reply'[c].to <= sent'[c]
    BY DEF RepliesOK, RepliesTellTheTruth
  <1>f. /\ step \in [Conns -> {"receive", "push", "metadata"}] /\ sent \in [Conns -> Nat]
        /\ queued \in [Conns -> SUBSET Nat]
    BY DEF TypeOK
  <1>1. CASE reply'[c] = reply[c]
    <2>1. /\ queued[c] \cap reply[c].from..reply[c].to = reply[c].from..(reply[c].next - 1)
          /\ reply[c].to <= sent[c]
      BY <1>1 DEF RepliesOK, RepliesTellTheTruth
    <2>2. step[c] = "receive"
      BY <1>1, ReplyDomains DEF Unanswered
    <2>3. queued'[c] = queued[c] /\ (sent'[c] = sent[c] \/ \E n \in Nat : sent'[c] = sent[c] + n)
      <3>1. ASSUME NEW d \in Conns, NEW n \in Nat, NEW id \in BOOLEAN, Starts(d, n, id)
            PROVE  queued'[c] = queued[c] /\ (sent'[c] = sent[c] \/ sent'[c] = sent[c] + n)
        BY <1>f, <3>1 DEF Starts
      <3>2. ASSUME NEW d \in Conns, PushOk(d) PROVE queued'[c] = queued[c] /\ sent'[c] = sent[c]
        BY <1>f, <2>2, <3>2 DEF PushOk
      <3>3. CASE TaskReceives
        BY <3>3 DEF TaskReceives
      <3>4. ASSUME NEW d \in Conns, NEW to \in {"receive", "metadata"}, Leaves(d, to)
            PROVE  queued'[c] = queued[c] /\ sent'[c] = sent[c]
        BY <3>4 DEF Leaves
      <3> QED BY <3>1, <3>2, <3>3, <3>4, PushCases
    <2>4. reply[c].to \in Nat
      <3>1. reply[c] \in Replies
        BY DEF TypeOK
      <3>2. reply[c] \in Calls
        BY <1>1, <3>1, SMT DEF Replies, NoReply
      <3> QED BY <3>2 DEF Calls
    <2>5. reply[c].to <= sent'[c]
      BY <2>1, <2>3, <2>4, ConnTypes, SMT
    <2> QED BY <1>1, <2>1, <2>3, <2>5
  <1>2. CASE (JrpcSuccess(c) \/ JrpcFailure(c)) /\ reply'[c] = call[c]
    <2>1. step[c] = "push" /\ sent' = sent /\ queued' = queued
      BY <1>2 DEF JrpcSuccess, JrpcFailure, Goto, pushing
    <2>2. /\ call[c].to <= sent[c]
          /\ queued[c] \cap call[c].from..call[c].to = call[c].from..(call[c].next - 1)
      BY <2>1 DEF CallOK
    <2> QED BY <1>2, <2>1, <2>2
  <1>3. CASE reply'[c] = NoReply
    BY <1>3, ReplyDomains
  <1>4. ASSUME NEW v, reply'[c] = [version |-> v, known |-> version, changed |-> changed]
        PROVE  FALSE
    BY <1>4, ReplyDomains
  <1> QED BY <1>1, <1>2, <1>3, <1>4, ReplyCases

\* A handler in a call has no older reply, and decoding errors stay below the
\* threshold while the handler runs.
LEMMA HandlersKept ==
    ASSUME TypeOK, Unanswered, ErrorsBounded, [Next]_vars
    PROVE  Unanswered' /\ ErrorsBounded'
  <1> USE ServerAssumption
  <1> DEFINE Kept(c) ==
        /\ step'[c] # "receive" => reply'[c] = NoReply
        /\ conn'[c] \in {"none", "publisher"} => reply'[c] = NoReply
        /\ step'[c] = "metadata" => conn'[c] = "jrpc"
        /\ conn'[c] \in {"none", "publisher"} => error_count'[c] < MAX_ERROR_DISCONNECT
  <1> SUFFICES ASSUME NEW c \in Conns PROVE Kept(c)
    BY DEF Unanswered, ErrorsBounded
  <1>f. /\ step \in [Conns -> {"receive", "push", "metadata"}] /\ reply \in [Conns -> Replies]
        /\ conn \in [Conns -> Answers] /\ error_count \in [Conns -> 0..MAX_ERROR_DISCONNECT]
    BY DEF TypeOK
  <1>0. /\ step[c] # "receive" => reply[c] = NoReply
        /\ conn[c] \in {"none", "publisher"} => reply[c] = NoReply
        /\ step[c] = "metadata" => conn[c] = "jrpc"
        /\ conn[c] \in {"none", "publisher"} => error_count[c] < MAX_ERROR_DISCONNECT
    BY DEF Unanswered, ErrorsBounded
  <1>1. CASE /\ step'[c] = step[c] /\ reply'[c] = reply[c]
             /\ conn'[c] = conn[c] /\ error_count'[c] = error_count[c]
    BY <1>0, <1>1
  <1>r. ASSUME NEW d \in Conns, NEW r, Reply(d, r), conn[d] = "jrpc"
        PROVE  /\ c # d => reply'[c] = reply[c] /\ conn'[c] = conn[c]
               /\ c = d => conn'[c] \in {"jrpc", "closed"}
    BY <1>f, <1>r DEF Reply
  <1>2. ASSUME NEW d \in Conns,
               \/ JrpcSuccess(d) \/ JrpcFailure(d) \/ MetadataHit(d) \/ MetadataFetched(d)
               \/ MetadataFails(d) \/ JrpcInvalid(d)
        PROVE  Kept(c)
    <2>1. conn[d] = "jrpc"
      BY <1>2 DEF Unanswered, JrpcSuccess, JrpcFailure, MetadataHit, MetadataFetched,
                  MetadataFails, JrpcInvalid, Goto
    <2>2. UNCHANGED <<conn, reply>> \/ \E r : Reply(d, r)
      BY <1>2 DEF JrpcSuccess, JrpcFailure, MetadataHit, MetadataFetched, MetadataFails,
                  JrpcInvalid
    <2>3. /\ c # d => reply'[c] = reply[c] /\ conn'[c] = conn[c]
          /\ c = d => conn'[c] \in {"jrpc", "closed"}
      BY <1>r, <2>1, <2>2
    <2>4. /\ c # d => step'[c] = step[c]
          /\ c = d => step'[c] = "receive"
          /\ error_count' = error_count
      BY <1>2, <1>f DEF JrpcSuccess, JrpcFailure, MetadataHit, MetadataFetched,
                  MetadataFails, JrpcInvalid, Goto
    <2> QED BY <1>0, <2>3, <2>4
  <1>3. ASSUME NEW d \in Conns, NEW path \in Paths, NEW u \in BOOLEAN, NEW h \in BOOLEAN,
               NEW r \in BOOLEAN, request_handler(d, path, u, h, r)
        PROVE  Kept(c)
    <2>1. /\ conn[d] = "none" /\ UNCHANGED <<step, reply, error_count>>
          /\ c # d => conn'[c] = conn[c]
      BY <1>3, <1>f DEF request_handler
    <2> QED BY <1>0, <2>1
  <1>4. ASSUME NEW d \in Conns, Disconnect(d) PROVE Kept(c)
    <2>1. /\ UNCHANGED <<step, error_count>>
          /\ c # d => reply'[c] = reply[c] /\ conn'[c] = conn[c]
          /\ c = d => conn'[c] = "closed" /\ step[c] = "receive"
      BY <1>4, <1>f DEF Disconnect
    <2> QED BY <1>0, <2>1
  <1>5. ASSUME NEW d \in Conns,
               \/ PublisherReceives(d) \/ PublisherPushed(d)
        PROVE  Kept(c)
    <2>1. /\ UNCHANGED <<conn, reply, error_count>> /\ conn[d] = "publisher"
          /\ c # d => step'[c] = step[c]
          /\ c = d => step'[c] \in {"receive", "push"}
      BY <1>5, <1>f DEF PublisherReceives, PublisherPushed, Goto
    <2> QED BY <1>0, <2>1
  <1>6. ASSUME NEW d \in Conns, PublisherPushFails(d) PROVE Kept(c)
    <2>1. /\ UNCHANGED <<step, reply, error_count>> /\ step[d] = "push"
          /\ c # d => conn'[c] = conn[c]
          /\ c = d => conn'[c] = "closed"
      BY <1>6, <1>f DEF PublisherPushFails
    <2> QED BY <1>0, <2>1
  <1>7. ASSUME NEW d \in Conns, PublisherDecodeError(d) PROVE Kept(c)
    <2>1. /\ UNCHANGED <<step, reply>> /\ conn[d] = "publisher" /\ step[d] = "receive"
          /\ c # d => conn'[c] = conn[c] /\ error_count'[c] = error_count[c]
          /\ c = d => \/ conn'[c] = "closed"
                      \/ conn'[c] = conn[c] /\ error_count'[c] < MAX_ERROR_DISCONNECT
      BY <1>7, <1>f DEF PublisherDecodeError
    <2> QED BY <1>0, <2>1
  <1>8. ASSUME NEW d \in Conns,
               \/ JrpcMetadata(d)
               \/ \E n \in 0..MaxBatch, id \in BOOLEAN : JrpcPush(d, n, id)
        PROVE  Kept(c)
    <2>1. /\ UNCHANGED <<conn, error_count>> /\ conn[d] = "jrpc"
          /\ c # d => reply'[c] = reply[c] /\ step'[c] = step[c]
          /\ c = d => reply'[c] = NoReply
      BY <1>8, <1>f DEF JrpcMetadata, JrpcPush, Goto
    <2> QED BY <1>0, <2>1
  <1>9. ASSUME \/ UNCHANGED vars \/ TaskReceives \/ TaskEnds \/ ServicePublishes \/ Tick
               \/ \E d \in Conns : PushOk(d) \/ MetadataMiss(d)
        PROVE  UNCHANGED <<step, reply, conn, error_count>>
    BY <1>9 DEF vars, TaskReceives, TaskEnds, ServicePublishes, Tick, PushOk, MetadataMiss
  <1> HIDE DEF Kept
  <1>10. CASE UNCHANGED <<step, reply, conn, error_count>>
    BY <1>1, <1>10
  <1> QED
    BY <1>2, <1>3, <1>4, <1>5, <1>6, <1>7, <1>8, <1>9, <1>10 DEF Next, Publisher, Metadata

-----------------------------------------------------------------------------
(* Theorems *)

\* A server that has accepted no connection satisfies the invariant.
LEMMA Initially == Init => ServerInv
  <1> SUFFICES ASSUME Init PROVE ServerInv
    OBVIOUS
  <1> USE ServerAssumption
  <1>1. TypeOK
    BY NoCallType, SMT DEF Init, TypeOK, Answers, Replies
  <1>2. Unanswered /\ ErrorsBounded
    BY SMT DEF Init, Unanswered, ErrorsBounded
  <1>3. ASSUME NEW c \in Conns PROVE CallOK(c)
    BY SMT DEF Init, CallOK
  <1>4. ChannelOK
    BY SMT DEF Init, ChannelOK
  <1>5. RepliesOK /\ MetadataFresh
    BY <1>1, ReplyDomains DEF Init, RepliesOK, RepliesTellTheTruth, MetadataFresh
  <1>6. CacheOK
    BY DEF Init, CacheOK
  <1> QED BY <1>1, <1>2, <1>3, <1>4, <1>5, <1>6 DEF ServerInv

\* Every step of a handler, of the publisher task and of the service keeps it.
LEMMA InvariantKept == ServerInv /\ [Next]_vars => ServerInv'
  <1> SUFFICES ASSUME ServerInv, [Next]_vars PROVE ServerInv'
    OBVIOUS
  <1> USE DEF ServerInv
  <1>1. TypeOK'
    BY TypesKept
  <1>2. Unanswered' /\ ErrorsBounded'
    BY HandlersKept
  <1>3. ASSUME NEW c \in Conns PROVE CallOK(c)'
    BY <1>1, CallsKept
  <1>4. ChannelOK'
    BY ChannelKept
  <1>5. RepliesOK'
    BY RepliesKept
  <1>6. CacheOK' /\ MetadataFresh'
    BY CacheKept, FreshKept
  <1> QED BY <1>1, <1>2, <1>3, <1>4, <1>5, <1>6

\* Calls, channel, replies and cache agree in every state of the server, for any
\* number of connections, any capacity and any size of a batch.
THEOREM ServerInvariant == Spec => []ServerInv
  BY Initially, InvariantKept, PTL DEF Spec

\* Every variable of the server keeps its type.
THEOREM ServerTypes == Spec => []TypeOK
  <1>1. ServerInv => TypeOK
    BY DEF ServerInv
  <1> QED BY <1>1, ServerInvariant, PTL

\* fetch_metadata's cache: whatever the service publishes and whenever requests
\* fail, a client never gets metadata that was replaced more than the cache time
\* ago.
THEOREM MetadataInTime == Spec => []MetadataFresh
  <1>1. ServerInv => MetadataFresh
    BY DEF ServerInv
  <1> QED BY <1>1, ServerInvariant, PTL

\* push_feed_update and the replies of the JRPC handler: wherever in a batch the
\* publisher task dies, the reply names exactly the updates that were queued, and
\* the task receives the updates of a connection in order and none twice.
THEOREM PushesTold == Spec => PushesFaithful
  <1>1. ServerInv => RepliesTellTheTruth
    BY DEF ServerInv, RepliesOK
  <1>2. ServerInv /\ [Next]_vars
          => [TaskReceives => Head(channel).n > taken[Head(channel).conn]]_vars
    <2> SUFFICES ASSUME ServerInv, TaskReceives PROVE Head(channel).n > taken[Head(channel).conn]
      OBVIOUS
    <2>1. channel \in Seq(Entry) /\ channel # <<>> /\ ChannelOK
      BY DEF ServerInv, TypeOK, TaskReceives, Entry
    <2>2. 1 \in 1..Len(channel) /\ Head(channel) = channel[1]
      BY <2>1, HeadTail, SMT
    <2> QED BY <2>1, <2>2 DEF ChannelOK, WaitingOK
  <1> QED BY <1>1, <1>2, ServerInvariant, PTL DEF Spec, PushesFaithful, OrderKept
-----------------------------------------------------------------------------
(* The legacy adapter *)


\* What the argument needs of the types: one flag and one timer per
\* subscription.
Shape ==
    /\ requests \in Seq(Request) /\ subs \in Seq(AllAccounts)
    /\ ready \in Seq(BOOLEAN) /\ Len(ready) = Len(subs)
    /\ timer \in Seq({"sleep", "stored"}) /\ Len(timer) = Len(subs)

\* What the invariant is about, the requests apart.
core == <<pc, subs, ready, wake, timer, scan>>

LegacyIInv == Shape /\ NoLostWakeup

\* The initial state has no subscription.
LEMMA LegacyInitIInv == LegacyInit => LegacyIInv
  BY SMT DEF LegacyInit, LegacyIInv, Shape, NoLostWakeup, Ids, AllAccounts

\* A step of a timer task keeps the invariant: the flag is stored while the
\* timer is about to notify, and notifying leaves the permit.
LEMMA TimerKeeps ==
    ASSUME LegacyIInv, NEW i \in Ids, TimerStores(i) \/ TimerNotifies(i) \/ TimerResets(i)
    PROVE  LegacyIInv'
<1> USE DEF LegacyIInv, Shape, NoLostWakeup, Ids, Open, handler
<1>1. CASE TimerStores(i)
  BY <1>1, SMT DEF TimerStores
<1>2. CASE TimerNotifies(i)
  BY <1>2, SMT DEF TimerNotifies
<1>3. CASE TimerResets(i)
  BY <1>3 DEF TimerResets
<1> QED
  BY <1>1, <1>2, <1>3

\* Taking the permit begins a scan of every subscription, and take_ready drops
\* a subscription from the scan only with its flag cleared.
LEMMA ScanKeeps ==
    ASSUME LegacyIInv, Notified \/ SendNotifications \/ \E i \in Ids : TakeReady(i)
    PROVE  LegacyIInv'
<1> USE DEF LegacyIInv, Shape, NoLostWakeup, Ids, Open, handler, timers
<1>1. CASE Notified
  BY <1>1 DEF Notified
<1>2. CASE SendNotifications
  BY <1>2 DEF SendNotifications
<1>3. ASSUME NEW i \in Ids, TakeReady(i) PROVE LegacyIInv'
  BY <1>3, SMT DEF TakeReady
<1> QED
  BY <1>1, <1>2, <1>3

\* Dispatching a request takes it from the message.
LEMMA TailTyped ==
    ASSUME requests \in Seq(Request), requests # <<>>
    PROVE  /\ Tail(requests) \in Seq(Request)
           /\ Head(requests) \in Request
           /\ Head(requests).account \in AllAccounts
<1>1. Tail(requests) \in Seq(Request) /\ Head(requests) \in Request
  BY SMT
<1>2. \A r \in Request : r.account \in AllAccounts
  BY DEF Request, AllAccounts
<1> QED
  BY <1>1, <1>2

\* A step that leaves flags, timers, permit and scan alone.
LEMMA UnchangedKeeps ==
    ASSUME LegacyIInv, UNCHANGED core, requests' \in Seq(Request)
    PROVE  LegacyIInv'
  BY DEF LegacyIInv, Shape, NoLostWakeup, Ids, Open, core

\* Append leaves the elements before the new one.
LEMMA AppendKeeps ==
    ASSUME NEW S, NEW s \in Seq(S), NEW e \in S, NEW i \in 1..Len(s)
    PROVE  Append(s, e)[i] = s[i]
  BY SMT

\* A new subscription starts with its flag clear.
LEMMA SubscribeKeeps ==
    ASSUME LegacyIInv, handle_subscribe_price_sched
    PROVE  LegacyIInv'
<1> USE DEF LegacyIInv, Shape, Ids
<1>1. /\ requests' \in Seq(Request)
      /\ Head(requests).account \in AllAccounts
  BY TailTyped DEF handle_subscribe_price_sched, At, Answer
<1>2. /\ subs' = Append(subs, Head(requests).account)
      /\ ready' = Append(ready, FALSE)
      /\ timer' = Append(timer, "sleep")
      /\ UNCHANGED <<pc, wake, scan>>
  BY DEF handle_subscribe_price_sched, subscribe
<1>3. Shape'
  BY <1>1, <1>2, SMT
<1>4. ASSUME Open', NEW i \in Ids', ready'[i]
      PROVE  wake' \/ timer'[i] = "stored" \/ (pc' = "take_ready" /\ i \in scan')
  <2>1. i \in 1..(Len(subs) + 1)
    BY <1>2, <1>4, SMT
  <2>2. i # Len(subs) + 1
    BY <1>2, <1>4, SMT
  <2>3. i \in 1..Len(subs) /\ i \in Ids
    BY <2>1, <2>2, SMT
  <2>4. timer'[i] = timer[i]
    BY <1>2, <2>3, AppendKeeps, SMT
  <2>5. ready'[i] = ready[i]
    BY <1>2, <2>3, AppendKeeps, SMT
  <2> QED
    BY <1>2, <1>4, <2>3, <2>4, <2>5 DEF NoLostWakeup, Open
<1> HIDE DEF Shape, Ids
<1>5. NoLostWakeup'
  BY <1>4, Zenon DEF NoLostWakeup
<1> QED
  BY <1>3, <1>5

\* The requests of a message: only a subscription touches flags and timers.
LEMMA DispatchKeeps ==
    ASSUME LegacyIInv, Dispatch
    PROVE  LegacyIInv'
<1>1. CASE handle_subscribe_price_sched
  BY <1>1, SubscribeKeeps
<1>2. CASE DispatchInvalid \/ DispatchProducts \/ handle_update_price
  <2>1. requests # <<>> /\ requests' = Tail(requests)
    BY <1>2 DEF DispatchInvalid, DispatchProducts, handle_update_price, UpdateBadAccount,
                UpdateFails, UpdateAccepted, At, Answer
  <2>2. UNCHANGED core
    BY <1>2 DEF DispatchInvalid, DispatchProducts, handle_update_price, UpdateBadAccount,
                UpdateFails, UpdateAccepted, timers, core
  <2>3. requests' \in Seq(Request)
    BY <2>1, TailTyped DEF LegacyIInv, Shape
  <2> QED
    BY <2>2, <2>3, UnchangedKeeps
<1> QED
  BY <1>1, <1>2 DEF Dispatch

\* The rest of the select loop and of time.
LEMMA LoopKeeps ==
    ASSUME LegacyIInv,
           \/ LegacyTick \/ Respond \/ Close
           \/ \E batch \in Batch : Receive(batch)
           \/ \E text \in BOOLEAN : ReceiveOther(text)
    PROVE  LegacyIInv'
<1>1. CASE LegacyTick
  BY <1>1, UnchangedKeeps DEF LegacyTick, core, handler, LegacyIInv, Shape
<1>2. CASE Respond
  BY <1>2 DEF Respond, LegacyIInv, Shape, NoLostWakeup, Ids, Open, timers
<1>3. CASE Close
  BY <1>3, SMT DEF Close, LegacyIInv, Shape, NoLostWakeup, Ids, Open, timers
<1>4. ASSUME NEW batch \in Batch, Receive(batch) PROVE LegacyIInv'
  <2>1. batch \in Seq(Request)
    BY LegacyAssumption, SMT DEF Batch, LegacyAssumption
  <2> QED
    BY <1>4, <2>1 DEF Receive, LegacyIInv, Shape, NoLostWakeup, Ids, Open, timers
<1>5. ASSUME NEW text \in BOOLEAN, ReceiveOther(text) PROVE LegacyIInv'
  BY <1>5 DEF ReceiveOther, LegacyIInv, Shape, NoLostWakeup, Ids, Open, timers
<1> QED
  BY <1>1, <1>2, <1>3, <1>4, <1>5

\* Every step of the connection keeps the invariant.
LEMMA NextKeeps == LegacyIInv /\ [LegacyNext]_legacyvars => LegacyIInv'
<1> SUFFICES ASSUME LegacyIInv, [LegacyNext]_legacyvars PROVE LegacyIInv'
  OBVIOUS
<1>1. CASE UNCHANGED legacyvars
  BY <1>1, UnchangedKeeps DEF legacyvars, core, LegacyIInv, Shape
<1>2. CASE LegacyNext
  BY <1>2, TimerKeeps, ScanKeeps, DispatchKeeps, LoopKeeps DEF LegacyNext
<1> QED
  BY <1>1, <1>2

\* No flag a timer has set is forgotten by the handler, whatever the
\* interleaving of the timers' store and notify with the swaps of take_ready
\* (SchedManager::subscribe, notified, take_ready).
THEOREM WakeupsKept == LegacySpec => []NoLostWakeup
<1>1. LegacyIInv => NoLostWakeup
  BY DEF LegacyIInv
<1> QED
  BY <1>1, LegacyInitIInv, NextKeeps, PTL DEF LegacySpec

-----------------------------------------------------------------------------
(* The types, and the timers: an update holds back every timer of its account *)

\* The rest of the types: one reset permit and one sleep per subscription, and
\* what take_ready works on are subscriptions.
Sleeps ==
    /\ reset \in Seq(BOOLEAN) /\ Len(reset) = Len(subs)
    /\ left \in Seq(0..Interval) /\ Len(left) = Len(subs)
    /\ since \in [AllAccounts -> 0..Interval]

Talks ==
    /\ pc \in {"select", "take_ready", "dispatch", "closed"}
    /\ responses \in Seq({"success", "error"}) /\ wake \in BOOLEAN
    /\ Len(subs) <= MaxSubs
    /\ scan \subseteq Ids /\ ready_ids \subseteq Ids /\ notice \subseteq Ids

\* A timer that may fire by itself sleeps until Interval after the last update
\* accepted for its account.
Rested ==
    \A i \in Ids : reset[i] \/ timer[i] = "stored" \/ left[i] + since[subs[i]] >= Interval

\* A permit of reset_account is of the current tick: its timer takes it before
\* time passes.
ResetsFresh == \A i \in Ids : reset[i] => since[subs[i]] = 0

SleepInv == LegacyIInv /\ Sleeps /\ Rested /\ ResetsFresh

\* A function over the first n numbers is a sequence.
LEMMA TableIsSeq ==
    ASSUME NEW S, NEW n \in Nat, NEW f \in [1..n -> S]
    PROVE  f \in Seq(S) /\ Len(f) = n
  BY SMT

\* A sequence is a function on its positions.
LEMMA SeqIsTable ==
    ASSUME NEW S, NEW s \in Seq(S)
    PROVE  s \in [1..Len(s) -> S]
  BY SMT

\* Append adds one element at the end.
LEMMA AppendAdds ==
    ASSUME NEW S, NEW s \in Seq(S), NEW e \in S
    PROVE  /\ Append(s, e) \in Seq(S)
           /\ Len(Append(s, e)) = Len(s) + 1
           /\ Append(s, e)[Len(s) + 1] = e
           /\ \A i \in 1..Len(s) : Append(s, e)[i] = s[i]
  BY SMT

\* What appending FALSE does to a sequence of flags.
LEMMA AppendFlag ==
    ASSUME NEW s \in Seq(BOOLEAN)
    PROVE  /\ Append(s, FALSE) \in Seq(BOOLEAN)
           /\ Len(Append(s, FALSE)) = Len(s) + 1
           /\ Append(s, FALSE)[Len(s) + 1] = FALSE
           /\ \A i \in 1..Len(s) : Append(s, FALSE)[i] = s[i]
  BY SMT

\* The responses to a message are collected one by one.
LEMMA Responses ==
    ASSUME NEW s \in Seq({"success", "error"}), NEW r \in {"success", "error"}
    PROVE  /\ <<>> \in Seq({"success", "error"})
           /\ <<r>> \in Seq({"success", "error"})
           /\ Append(s, r) \in Seq({"success", "error"})
  BY SMT

\* The initial state has no subscription, and every account has been quiet.
LEMMA InitSleep == LegacyInit => SleepInv /\ Talks
<1> SUFFICES ASSUME LegacyInit PROVE SleepInv /\ Talks
  OBVIOUS
<1>1. LegacyIInv
  BY LegacyInitIInv
<1>2. Sleeps /\ Rested /\ ResetsFresh
  BY LegacyAssumption, SMT DEF LegacyInit, LegacyAssumption, Sleeps, Rested, ResetsFresh, Ids
<1>3. Talks
  <2>1. responses \in Seq({"success", "error"})
    BY SMT DEF LegacyInit
  <2>3. wake \in BOOLEAN
    BY Zenon DEF LegacyInit
  <2>2. Len(subs) <= MaxSubs
    BY LegacyAssumption, SMT DEF LegacyInit, LegacyAssumption
  <2> QED
    BY <2>1, <2>2, <2>3 DEF LegacyInit, Talks
<1> QED
  BY <1>1, <1>2, <1>3 DEF SleepInv

\* What the timers are about.
sleep == <<subs, reset, timer, left, since>>

\* A step that leaves the timers alone.
LEMMA SleepUnchanged ==
    ASSUME Sleeps, Rested, ResetsFresh, UNCHANGED sleep
    PROVE  (Sleeps /\ Rested /\ ResetsFresh)'
  BY DEF Sleeps, Rested, ResetsFresh, Ids, sleep

\* A timer that has notified or was reset sleeps for the whole interval.
LEMMA SleepTimer ==
    ASSUME SleepInv, NEW i \in Ids, TimerStores(i) \/ TimerNotifies(i) \/ TimerResets(i)
    PROVE  (Sleeps /\ Rested /\ ResetsFresh)'
<1> USE LegacyAssumption DEF SleepInv, LegacyIInv, Shape, Sleeps, Rested, ResetsFresh, Ids, LegacyAssumption
<1>0. \A j \in Ids : subs[j] \in AllAccounts
  BY SMT
<1>1. CASE TimerStores(i)
  BY <1>0, <1>1, SMT DEF TimerStores
<1>2. CASE TimerNotifies(i)
  BY <1>0, <1>2, SMT DEF TimerNotifies
<1>3. CASE TimerResets(i)
  BY <1>0, <1>3, SMT DEF TimerResets
<1> QED
  BY <1>1, <1>2, <1>3

\* A tick shortens the sleep by what it adds to the quiet time.
LEMMA TickBalance ==
    ASSUME NEW n \in Nat, NEW l \in 0..n, NEW s \in 0..n
    PROVE  /\ (IF l > 0 THEN l - 1 ELSE 0) \in 0..n
           /\ (IF s < n THEN s + 1 ELSE n) \in 0..n
           /\ l + s >= n => (IF l > 0 THEN l - 1 ELSE 0) + (IF s < n THEN s + 1 ELSE n) >= n
  BY SMT

\* Time passes only when no timer has a permit or is about to notify.
LEMMA SleepTick ==
    ASSUME SleepInv, LegacyTick
    PROVE  (Sleeps /\ Rested /\ ResetsFresh)'
<1> DEFINE l(j) == IF left[j] > 0 THEN left[j] - 1 ELSE 0
           s(a) == IF since[a] < Interval THEN since[a] + 1 ELSE Interval
<1>1. /\ left' = [j \in 1..Len(subs) |-> l(j)]
      /\ since' = [a \in AllAccounts |-> s(a)]
      /\ UNCHANGED <<subs, reset, timer>>
      /\ \A j \in Ids : ~reset[j] /\ timer[j] # "stored"
  BY SMT DEF LegacyTick, SleepInv, LegacyIInv, Shape, Ids
<1>2. /\ Interval \in Nat /\ Len(subs) \in Nat /\ Ids = 1..Len(subs)
      /\ \A j \in Ids : left[j] \in 0..Interval /\ subs[j] \in AllAccounts
      /\ \A a \in AllAccounts : since[a] \in 0..Interval
  BY LegacyAssumption, SMT DEF SleepInv, LegacyIInv, Shape, Sleeps, Ids, LegacyAssumption
<1>3. /\ \A j \in 1..Len(subs) : l(j) \in 0..Interval
      /\ \A a \in AllAccounts : s(a) \in 0..Interval
  BY <1>2, TickBalance
<1>4. \A j \in Ids : left[j] + since[subs[j]] >= Interval
  BY <1>1 DEF SleepInv, Rested
<1>5. \A j \in Ids : l(j) + s(subs[j]) >= Interval
  BY <1>2, <1>4, TickBalance
<1> HIDE DEF l, s
<1>6. left' \in [1..Len(subs) -> 0..Interval] /\ since' \in [AllAccounts -> 0..Interval]
  BY <1>1, <1>3
<1>7. Sleeps'
  BY <1>1, <1>2, <1>6, TableIsSeq, SMT DEF Sleeps, SleepInv
<1>8. \A j \in Ids : left'[j] + since'[subs[j]] >= Interval
  BY <1>1, <1>2, <1>5
<1>9. Rested' /\ ResetsFresh'
  BY <1>1, <1>8 DEF Rested, ResetsFresh, Ids
<1> QED
  BY <1>7, <1>9

\* A new subscription sleeps for the whole interval.
LEMMA SleepSubscribe ==
    ASSUME SleepInv, handle_subscribe_price_sched
    PROVE  (Sleeps /\ Rested /\ ResetsFresh)'
<1> DEFINE a == Head(requests).account
           n == Len(subs)
<1>1. a \in AllAccounts
  BY TailTyped DEF SleepInv, LegacyIInv, Shape, handle_subscribe_price_sched, At
<1>2. /\ subs' = Append(subs, a)
      /\ reset' = Append(reset, FALSE)
      /\ timer' = Append(timer, "sleep")
      /\ left' = Append(left, Interval)
      /\ since' = since
  BY DEF handle_subscribe_price_sched, subscribe
<1>3. /\ n \in Nat /\ Ids = 1..n
      /\ subs \in Seq(AllAccounts)
      /\ reset \in Seq(BOOLEAN) /\ Len(reset) = n
      /\ timer \in Seq({"sleep", "stored"}) /\ Len(timer) = n
      /\ left \in Seq(0..Interval) /\ Len(left) = n
      /\ since \in [AllAccounts -> 0..Interval]
  BY SMT DEF SleepInv, LegacyIInv, Shape, Sleeps, Ids
<1>4. Interval \in 0..Interval /\ Interval \in Nat
  BY LegacyAssumption, SMT DEF LegacyAssumption
<1> HIDE DEF a
<1>5. /\ Ids' = 1..(n + 1) /\ Len(subs') = n + 1 /\ subs'[n + 1] = a
      /\ \A i \in 1..n : subs'[i] = subs[i]
  BY <1>1, <1>2, <1>3, SMT DEF Ids
<1>6. /\ reset' \in Seq(BOOLEAN) /\ Len(reset') = n + 1 /\ reset'[n + 1] = FALSE
      /\ \A i \in 1..n : reset'[i] = reset[i]
  <2>1. reset' = Append(reset, FALSE) /\ Len(reset) = n
    BY <1>2, <1>3
  <2> HIDE DEF n
  <2> QED
    BY <1>3, <2>1, AppendFlag
<1>7. /\ left' \in Seq(0..Interval) /\ Len(left') = n + 1 /\ left'[n + 1] = Interval
      /\ \A i \in 1..n : left'[i] = left[i]
  BY <1>2, <1>3, <1>4, AppendAdds, SMT
<1>8. \A i \in 1..n : timer'[i] = timer[i]
  BY <1>2, <1>3, AppendAdds, SMT
<1>9. Sleeps'
  BY <1>2, <1>3, <1>5, <1>6, <1>7 DEF Sleeps
<1>10. ASSUME NEW i \in Ids'
       PROVE  /\ reset'[i] \/ timer'[i] = "stored" \/ left'[i] + since'[subs'[i]] >= Interval
              /\ reset'[i] => since'[subs'[i]] = 0
  <2>1. i \in 1..n \/ i = n + 1
    BY <1>3, <1>5, SMT
  <2>2. CASE i = n + 1
    <3>1. since[a] \in 0..Interval
      BY <1>1, <1>3
    <3> QED
      BY <1>2, <1>4, <1>5, <1>6, <1>7, <2>2, <3>1, SMT
  <2>3. CASE i \in 1..n
    BY <1>2, <1>3, <1>5, <1>6, <1>7, <1>8, <2>3, SMT DEF SleepInv, Rested, ResetsFresh
  <2> QED
    BY <2>1, <2>2, <2>3
<1>11. Rested' /\ ResetsFresh'
  BY <1>10 DEF Rested, ResetsFresh
<1> QED
  BY <1>9, <1>11

\* An accepted update leaves a permit with every timer of its account.
LEMMA SleepUpdate ==
    ASSUME SleepInv, UpdateAccepted
    PROVE  (Sleeps /\ Rested /\ ResetsFresh)'
<1> DEFINE a == Head(requests).account
<1>1. a \in AllAccounts
  BY TailTyped DEF SleepInv, LegacyIInv, Shape, UpdateAccepted, At
<1> HIDE DEF a
<1>2. /\ UNCHANGED <<subs, timer, left>>
      /\ reset' = [i \in Ids |-> reset[i] \/ subs[i] = a]
      /\ since' = [since EXCEPT ![a] = 0]
  BY DEF UpdateAccepted, reset_account, a
<1>3. /\ Ids = 1..Len(subs) /\ Len(subs) \in Nat /\ Interval \in Nat
      /\ since \in [AllAccounts -> 0..Interval]
      /\ \A i \in Ids : subs[i] \in AllAccounts
  BY LegacyAssumption, SMT DEF SleepInv, LegacyIInv, Shape, Sleeps, Ids, LegacyAssumption
<1>4. reset' \in [1..Len(subs) -> BOOLEAN]
  BY <1>2, <1>3
<1>5. since' \in [AllAccounts -> 0..Interval]
  <2>1. 0 \in 0..Interval
    BY <1>3, SMT
  <2> QED
    BY <1>2, <1>3, <2>1
<1>6. Sleeps'
  BY <1>2, <1>3, <1>4, <1>5, TableIsSeq, SMT DEF Sleeps, SleepInv
<1>7. ASSUME NEW i \in Ids
      PROVE  IF subs[i] = a THEN reset'[i] /\ since'[subs[i]] = 0
             ELSE reset'[i] = reset[i] /\ since'[subs[i]] = since[subs[i]]
  <2>1. CASE subs[i] = a
    BY <1>1, <1>2, <1>3, <2>1
  <2>2. CASE subs[i] # a
    <3>1. reset[i] \in BOOLEAN
      BY <1>3, SMT DEF SleepInv, Sleeps, LegacyIInv, Shape
    <3> QED
      BY <1>2, <1>3, <2>2, <3>1
  <2> QED
    BY <2>1, <2>2
<1>8. Rested' /\ ResetsFresh'
  BY <1>2, <1>7 DEF SleepInv, Rested, ResetsFresh, Ids
<1> QED
  BY <1>6, <1>8

\* Every step keeps the timers in order.
LEMMA NextSleep == SleepInv /\ [LegacyNext]_legacyvars => SleepInv'
<1> SUFFICES ASSUME SleepInv, [LegacyNext]_legacyvars PROVE (Sleeps /\ Rested /\ ResetsFresh)'
  BY NextKeeps DEF SleepInv
<1>1. CASE UNCHANGED legacyvars
  BY <1>1, SleepUnchanged DEF legacyvars, sleep, SleepInv
<1>2. CASE \E i \in Ids : TimerStores(i) \/ TimerNotifies(i) \/ TimerResets(i)
  BY <1>2, SleepTimer
<1>3. CASE LegacyTick
  BY <1>3, SleepTick
<1>4. CASE Notified \/ SendNotifications \/ \E i \in Ids : TakeReady(i)
  <2>1. UNCHANGED sleep
    BY <1>4 DEF Notified, SendNotifications, TakeReady, sleep, timers
  <2> QED
    BY <2>1, SleepUnchanged DEF SleepInv
<1>5. CASE \/ Respond \/ Close
           \/ \E batch \in Batch : Receive(batch)
           \/ \E text \in BOOLEAN : ReceiveOther(text)
  <2>1. UNCHANGED sleep
    BY <1>5 DEF Respond, Close, Receive, ReceiveOther, sleep, timers
  <2> QED
    BY <2>1, SleepUnchanged DEF SleepInv
<1>6. CASE handle_subscribe_price_sched
  BY <1>6, SleepSubscribe
<1>7. CASE UpdateAccepted
  BY <1>7, SleepUpdate
<1>8. CASE DispatchInvalid \/ DispatchProducts \/ UpdateBadAccount \/ UpdateFails
  <2>1. UNCHANGED sleep
    BY <1>8 DEF DispatchInvalid, DispatchProducts, UpdateBadAccount, UpdateFails, sleep, timers
  <2> QED
    BY <2>1, SleepUnchanged DEF SleepInv
<1> QED
  BY <1>1, <1>2, <1>3, <1>4, <1>5, <1>6, <1>7, <1>8 DEF LegacyNext, Dispatch, handle_update_price

\* Of all steps, only the end of a sleep stores a flag.
LEMMA OnlySleepsStore ==
    ASSUME SleepInv, [LegacyNext]_legacyvars, NEW i \in Ids, timer[i] = "sleep", timer'[i] = "stored"
    PROVE  TimerStores(i)
<1> USE DEF SleepInv, LegacyIInv, Shape, Ids
<1>1. CASE UNCHANGED legacyvars
  BY <1>1 DEF legacyvars
<1>2. ASSUME NEW j \in Ids, TimerStores(j) \/ TimerNotifies(j) \/ TimerResets(j)
      PROVE  TimerStores(i)
  BY <1>2, SMT DEF TimerStores, TimerNotifies, TimerResets
<1>3. CASE LegacyTick \/ Notified \/ SendNotifications \/ \E j \in Ids : TakeReady(j)
  BY <1>3 DEF LegacyTick, Notified, SendNotifications, TakeReady, timers
<1>4. CASE \/ Respond \/ Close
           \/ \E batch \in Batch : Receive(batch)
           \/ \E text \in BOOLEAN : ReceiveOther(text)
  BY <1>4 DEF Respond, Close, Receive, ReceiveOther, timers
<1>5. CASE handle_subscribe_price_sched
  BY <1>5, SMT DEF handle_subscribe_price_sched, subscribe
<1>6. CASE DispatchInvalid \/ DispatchProducts \/ handle_update_price
  BY <1>6 DEF DispatchInvalid, DispatchProducts, handle_update_price, UpdateBadAccount,
              UpdateFails, UpdateAccepted, timers
<1> QED
  BY <1>1, <1>2, <1>3, <1>4, <1>5, <1>6 DEF LegacyNext, Dispatch

\* A timer never fires before Interval has passed since the last update accepted
\* for its account, but in the tick of that update, when its select may still
\* take the other branch (SchedManager::subscribe, reset_account).
THEOREM TimersHeldBack == LegacySpec => NoEarlyFire
<1>1. ASSUME SleepInv, [LegacyNext]_legacyvars, NEW i \in Ids, timer[i] = "sleep", timer'[i] = "stored"
      PROVE  since[subs[i]] \in {0, Interval}
  <2>1. left[i] = 0
    BY <1>1, OnlySleepsStore DEF TimerStores
  <2>2. subs[i] \in AllAccounts /\ since[subs[i]] \in 0..Interval
    BY <1>1, SMT DEF SleepInv, LegacyIInv, Shape, Sleeps, Ids
  <2>3. reset[i] \/ left[i] + since[subs[i]] >= Interval
    BY <1>1 DEF SleepInv, Rested
  <2>4. reset[i] => since[subs[i]] = 0
    BY <1>1 DEF SleepInv, ResetsFresh
  <2> QED
    BY <2>1, <2>2, <2>3, <2>4, LegacyAssumption, SMT DEF LegacyAssumption
<1>2. SleepInv /\ [LegacyNext]_legacyvars
        => [\A i \in Ids : timer[i] = "sleep" /\ timer'[i] = "stored" =>
               since[subs[i]] \in {0, Interval}]_legacyvars
  BY <1>1
<1> QED
  BY <1>2, InitSleep, NextSleep, PTL DEF LegacySpec, NoEarlyFire

\* What a step sends, answers and scans.
LEMMA NextTalks == SleepInv /\ Talks /\ [LegacyNext]_legacyvars => Talks'
<1> SUFFICES ASSUME SleepInv, Talks, [LegacyNext]_legacyvars PROVE Talks'
  OBVIOUS
<1> USE DEF Talks, Ids
<1>1. CASE UNCHANGED legacyvars
  BY <1>1 DEF legacyvars
<1>2. ASSUME NEW i \in Ids, TimerStores(i) \/ TimerNotifies(i) \/ TimerResets(i) \/ TakeReady(i)
      PROVE  Talks'
  BY <1>2 DEF TimerStores, TimerNotifies, TimerResets, TakeReady, handler
<1>3. CASE LegacyTick \/ Notified \/ SendNotifications
  BY <1>3 DEF LegacyTick, Notified, SendNotifications, handler, timers
<1>4. CASE \/ Respond \/ Close
           \/ \E batch \in Batch : Receive(batch)
           \/ \E text \in BOOLEAN : ReceiveOther(text)
  BY <1>4, Responses DEF Respond, Close, Receive, ReceiveOther, timers
<1>5. CASE handle_subscribe_price_sched
  <2> DEFINE a == Head(requests).account
  <2>1. a \in AllAccounts
    BY <1>5, TailTyped DEF SleepInv, LegacyIInv, Shape, handle_subscribe_price_sched, At
  <2> HIDE DEF a
  <2>2. subs' = Append(subs, a) /\ subs \in Seq(AllAccounts) /\ Len(subs) < MaxSubs
    BY <1>5 DEF SleepInv, LegacyIInv, Shape, handle_subscribe_price_sched, subscribe, a
  <2>3. DOMAIN subs \subseteq DOMAIN subs' /\ Len(subs') <= MaxSubs
    BY <2>1, <2>2, LegacyAssumption, SMT DEF LegacyAssumption
  <2> QED
    BY <1>5, <2>3, Responses DEF handle_subscribe_price_sched, Answer
<1>6. CASE DispatchInvalid \/ DispatchProducts \/ handle_update_price
  BY <1>6, Responses DEF DispatchInvalid, DispatchProducts, handle_update_price,
        UpdateBadAccount, UpdateFails, UpdateAccepted, Answer, timers
<1> QED
  BY <1>1, <1>2, <1>3, <1>4, <1>5, <1>6 DEF LegacyNext, Dispatch

\* The state of the connection has its types: every subscription has one flag,
\* one timer, one permit and one sleep, and take_ready works on subscriptions.
THEOREM LegacyTypes == LegacySpec => []LegacyTypeOK
<1>1. SleepInv /\ Talks => LegacyTypeOK
  <2> SUFFICES ASSUME SleepInv, Talks PROVE LegacyTypeOK
    OBVIOUS
  <2>1. ready \in [Ids -> BOOLEAN] /\ reset \in [Ids -> BOOLEAN]
    BY SMT DEF SleepInv, LegacyIInv, Shape, Sleeps, Ids
  <2>2. timer \in [Ids -> {"sleep", "stored"}]
    BY SeqIsTable DEF SleepInv, LegacyIInv, Shape, Ids
  <2>3. left \in [Ids -> 0..Interval]
    <3>1. left \in [1..Len(left) -> 0..Interval]
      BY SeqIsTable DEF SleepInv, Sleeps
    <3> QED
      BY <3>1, SMT DEF SleepInv, LegacyIInv, Shape, Sleeps, Ids
  <2> QED
    BY <2>1, <2>2, <2>3 DEF SleepInv, LegacyIInv, Shape, Sleeps, Talks, LegacyTypeOK
<1> QED
  BY <1>1, InitSleep, NextSleep, NextTalks, PTL DEF LegacySpec
=============================================================================
