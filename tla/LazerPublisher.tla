--------------------------- MODULE LazerPublisher ---------------------------
(***************************************************************************)
(* The agent's publisher task (agent/src/lazer_publisher.rs): connection   *)
(* handlers push feed updates into a bounded channel; one task moves them  *)
(* to pending_updates and, at each tick of the publish interval, sorts,    *)
(* deduplicates and broadcasts them as one signed transaction.             *)
(*                                                                         *)
(* A tick of the publish interval may fall anywhere, so the model covers   *)
(* every publish_interval_duration.  Tick is the clock of the TTL cache.   *)
(* batch_transaction has no await in it and is one step.                   *)
(***************************************************************************)
EXTENDS Naturals, SequencesExt

CONSTANTS
    Feeds,          \* feed ids
    NoFeed,         \* feed_id = None
    Data,           \* contents of FeedUpdate.update
    Timestamps,     \* source timestamps, 0 standing for None
    Inputs,         \* the updates handlers may push
    Capacity,       \* CHANNEL_CAPACITY of the mpsc channel
    Handlers,       \* number of connection handlers, each with one push at a time
    Ttl,            \* config.update_deduplication_ttl, in ticks
    MaxPushed       \* bound: updates pushed in a behaviour

PublisherAssumption ==
    /\ NoFeed \notin Feeds
    /\ Inputs \subseteq [feed_id : Feeds \cup {NoFeed}, update : Data, source_timestamp : Timestamps]
    /\ Timestamps \subseteq Nat /\ Capacity \in Nat \ {0} /\ Handlers \in Nat \ {0}
    /\ Ttl \in Nat \ {0} /\ MaxPushed \in Nat

\* A FeedUpdate, with the number of its push.
FeedUpdate == [feed_id : Feeds \cup {NoFeed}, update : Data,
               source_timestamp : Timestamps, id : 1..MaxPushed]

\* A feed that has no cache entry, or of which nothing was published.
None == [update |-> NoFeed, ttl |-> 0]

VARIABLES
    dedup,            \* config.enable_update_deduplication, which stays as it is
    pushed,           \* number of pushes begun
    senders,          \* pushes waiting for room in the channel, first come first
    channel,          \* the mpsc channel
    pending_updates,  \* LazerPublisherTask.pending_updates
    ttl_cache,        \* per feed, the cached update and what is left of its TTL
    published         \* history: per feed, the last data sent and ticks for which
                      \* it is younger than Ttl; per push, how often it was sent

vars == <<dedup, pushed, senders, channel, pending_updates, ttl_cache, published>>

Init ==
    /\ dedup \in BOOLEAN
    /\ pushed = 0
    /\ senders = <<>>
    /\ channel = <<>>
    /\ pending_updates = <<>>
    /\ ttl_cache = [f \in Feeds |-> None]
    /\ published = [last |-> [f \in Feeds |-> None], times |-> [i \in 1..MaxPushed |-> 0]]

-----------------------------------------------------------------------------
(* LazerPublisher::push_feed_update, and the receiving end *)

\* A handler begins a push: it waits its turn for room in the channel.
push_feed_update(u) ==
    /\ pushed < MaxPushed
    /\ Len(senders) < Handlers
    /\ pushed' = pushed + 1
    /\ senders' = Append(senders, u @@ [id |-> pushed + 1])
    /\ UNCHANGED <<dedup, channel, pending_updates, ttl_cache, published>>

\* Mutant: the last place in the channel is never used.
PushLeavesRoom ==
    /\ senders # <<>>
    /\ Len(channel) + 1 < Capacity
    /\ channel' = Append(channel, Head(senders))
    /\ senders' = Tail(senders)
    /\ UNCHANGED <<dedup, pushed, pending_updates, ttl_cache, published>>

\* The channel has room and takes the update of the longest waiting handler.
PushCompletes ==
    /\ senders # <<>>
    /\ Len(channel) < Capacity
    /\ channel' = Append(channel, Head(senders))
    /\ senders' = Tail(senders)
    /\ UNCHANGED <<dedup, pushed, pending_updates, ttl_cache, published>>

\* receiver.recv() in LazerPublisherTask::run.
Recv ==
    /\ channel # <<>>
    /\ pending_updates' = Append(pending_updates, Head(channel))
    /\ channel' = Tail(channel)
    /\ UNCHANGED <<dedup, pushed, senders, ttl_cache, published>>

-----------------------------------------------------------------------------
(* LazerPublisherTask::batch_transaction *)

\* sort_by_key on the timestamp: stable, None first.  Pushes are numbered in
\* the order in which they reach pending_updates.
Earlier(u, v) ==
    \/ u.source_timestamp < v.source_timestamp
    \/ u.source_timestamp = v.source_timestamp /\ u.id < v.id

SortByTimestamp(updates) == SortSeq(updates, Earlier)

\* Mutant: the first update of a feed is kept.
KeepFirst(kept, u) ==
    IF u.feed_id \in DOMAIN kept THEN kept ELSE (u.feed_id :> u) @@ kept

\* One step of deduplicate_feed_updates_in_tx: an update replaces the one kept
\* for its feed when the data differs.
KeepLatest(kept, u) ==
    IF u.feed_id \in DOMAIN kept /\ kept[u.feed_id].update = u.update
    THEN kept
    ELSE (u.feed_id :> u) @@ kept

\* deduplicate_feed_updates_in_tx: at most one update per feed, in no order.
deduplicate_feed_updates_in_tx(sorted) ==
    Range(FoldLeft(KeepLatest, <<>>, sorted))

\* The unexpired cache entry of the feed has the same data.
Suppressed(u) ==
    /\ ttl_cache[u.feed_id].ttl > 0
    /\ ttl_cache[u.feed_id].update = u.update

\* deduplicate_feed_updates: what retain() keeps.
deduplicate_feed_updates(updates) ==
    {u \in updates : u.feed_id # NoFeed /\ ~Suppressed(u)}

\* The cache after the updates that were kept are inserted.
CacheAfter(kept) ==
    [f \in Feeds |-> IF \E u \in kept : u.feed_id = f
                     THEN [update |-> (CHOOSE u \in kept : u.feed_id = f).update, ttl |-> Ttl]
                     ELSE ttl_cache[f]]

\* relayer_sender.send: the transaction reaches the broadcast channel.
Send(tx) ==
    published' =
        [last |-> [f \in Feeds |->
                     LET of == SelectSeq(tx, LAMBDA u : u.feed_id = f)
                     IN  IF of = <<>> THEN published.last[f]
                         ELSE [update |-> Last(of).update, ttl |-> Ttl]],
         times |-> [i \in 1..MaxPushed |->
                     published.times[i] + Len(SelectSeq(tx, LAMBDA u : u.id = i))]]

\* Without deduplication every pending update is sent, sorted.
BatchAll ==
    /\ ~dedup
    /\ pending_updates # <<>>
    /\ Send(SortByTimestamp(pending_updates))
    /\ pending_updates' = <<>>
    /\ UNCHANGED <<dedup, pushed, senders, channel, ttl_cache>>

\* With deduplication, nothing is sent when nothing is left.
BatchDedup ==
    /\ dedup
    /\ pending_updates # <<>>
    /\ LET kept == deduplicate_feed_updates(
                       deduplicate_feed_updates_in_tx(SortByTimestamp(pending_updates)))
       IN  /\ ttl_cache' = CacheAfter(kept)
           /\ \/ kept = {} /\ UNCHANGED published
              \/ kept # {} /\ \E tx \in SetToSeqs(kept) : Send(tx)
    /\ pending_updates' = <<>>
    /\ UNCHANGED <<dedup, pushed, senders, channel>>

batch_transaction == BatchAll \/ BatchDedup

\* Time passes: cache entries and the published data grow older.
Tick ==
    LET older(e) == [e EXCEPT !.ttl = IF @ > 0 THEN @ - 1 ELSE 0]
    IN  /\ ttl_cache' = [f \in Feeds |-> IF ttl_cache[f].ttl > 1 THEN older(ttl_cache[f]) ELSE None]
        /\ published' = [published EXCEPT !.last = [f \in Feeds |-> older(@[f])]]
        /\ UNCHANGED <<dedup, pushed, senders, channel, pending_updates>>

-----------------------------------------------------------------------------
(* Properties *)

Entry == [update : Data \cup {NoFeed}, ttl : 0..Ttl]

TypeOK ==
    /\ dedup \in BOOLEAN
    /\ pushed \in 0..MaxPushed
    /\ senders \in Seq(FeedUpdate) /\ Len(senders) <= Handlers
    /\ channel \in Seq(FeedUpdate) /\ Len(channel) <= Capacity
    /\ pending_updates \in Seq(FeedUpdate)
    /\ ttl_cache \in [Feeds -> Entry]
    /\ published \in [last : [Feeds -> Entry], times : [1..MaxPushed -> Nat]]

\* The pushes on their way: waiting, in the channel or pending.
OnTheWay == {u.id : u \in Range(senders \o channel \o pending_updates)}

\* No update is lost, duplicated or sent early between push_feed_update and the
\* broadcast: a push is in one place until its batch, and a batch sends it at
\* most once, exactly once when deduplication is off.
EachUpdateOnce ==
    /\ Cardinality(OnTheWay) = Len(senders \o channel \o pending_updates)
    /\ \A i \in 1..pushed :
          IF i \in OnTheWay THEN published.times[i] = 0
          ELSE published.times[i] \in (IF dedup THEN {0, 1} ELSE {1})

\* The step is a batch_transaction.
Batch == pending_updates # <<>> /\ pending_updates' = <<>>

\* The update with the latest timestamp, last pushed, of a feed that has one.
LatestPending(f) ==
    CHOOSE u \in Range(pending_updates) :
        /\ u.feed_id = f
        /\ \A v \in Range(pending_updates) : v.feed_id = f => v = u \/ Earlier(v, u)

PendingFeeds == {f \in Feeds : \E u \in Range(pending_updates) : u.feed_id = f}

\* "For each feed, keep the latest data" (deduplicate_feed_updates_in_tx), across
\* both filters: after a batch the last data sent for a feed is the latest data
\* the batch held for it, and it was sent within the last Ttl. A suppressed
\* update never leaves the relayers with anything older.
LatestDataKnown ==
    [][Batch => \A f \in PendingFeeds :
          /\ published'.last[f].update = LatestPending(f).update
          /\ published'.last[f].ttl > 0]_vars

\* With deduplication on, data is not sent again within Ttl of when it was last
\* sent for the feed, unless other data went out between (TtlCache).
NoRepeatWithinTtl ==
    [][\A u \in Range(pending_updates) :
          dedup /\ published'.times[u.id] # published.times[u.id] =>
              ~(published.last[u.feed_id].ttl > 0
                /\ published.last[u.feed_id].update = u.update)]_vars
=============================================================================
