------------------------------- MODULE Agent -------------------------------
(***************************************************************************)
(* The agent's path of the data, from push_feed_update to the relayers:    *)
(* the publisher task (LazerPublisher) and the relayer workers             *)
(* (RelayerPool), joined by the broadcast channel as LazerPublisher::new   *)
(* joins them.  The clocks of the TTL cache and of the backoffs are one.   *)
(***************************************************************************)
EXTENDS RelayerPool, Sequences, TLC

CONSTANTS Feeds, NoFeed, Data, Timestamps, Inputs, Capacity, Handlers, Ttl, MaxPushed

VARIABLES
    dedup, pushed, senders, channel, pending_updates, ttl_cache, published,
    txs,        \* the transactions broadcast: per feed, the data in force after each
    heard,      \* history: per worker and feed, the last data sent over its connection
    clean,      \* history: ticks, up to Ttl, each worker has been connected without lagging
    wanted      \* history: per feed, the latest data of the last batch that had any, and
                \* the workers that were connected, without lagging, since Ttl before it

Publisher == INSTANCE LazerPublisher

ASSUME Publisher!PublisherAssumption

pubvars == <<dedup, pushed, senders, channel, pending_updates, ttl_cache, published>>
history == <<txs, heard, clean, wanted>>
agentvars == <<vars, pubvars, history>>

Unheard == [f \in Feeds |-> NoFeed]

\* LazerPublisher::new: the channels, the slots, a receiver per worker.
AgentInit ==
    /\ Publisher!Init /\ Init
    /\ txs = <<>>
    /\ heard = [w \in Workers |-> Unheard]
    /\ clean = [w \in Workers |-> 0]
    /\ wanted = [f \in Feeds |-> [update |-> NoFeed, owed |-> {}]]

-----------------------------------------------------------------------------
\* The handlers and the receiving branch of the publisher task.
Intake ==
    /\ \/ \E u \in Inputs : Publisher!push_feed_update(u)
       \/ Publisher!PushCompletes
       \/ Publisher!Recv
    /\ UNCHANGED <<vars, history>>

\* The step sends a transaction.
Sends == published'.times # published.times

SentFeeds ==
    {f \in Feeds : \E u \in Publisher!Range(pending_updates) :
        u.feed_id = f /\ published'.times[u.id] # published.times[u.id]}

\* batch_transaction, whose transaction reaches the receivers of the workers.
Batch ==
    /\ Publisher!batch_transaction
    /\ IF Sends THEN Broadcast /\ txs' = Append(txs, [f \in SentFeeds |-> published'.last[f].update])
                ELSE UNCHANGED <<vars, txs>>
    /\ wanted' = [f \in Feeds |->
                    IF f \in Publisher!PendingFeeds
                    THEN [update |-> Publisher!LatestPending(f).update,
                          owed |-> {w \in Workers : clean[w] >= Ttl}]
                    ELSE wanted[f]]
    /\ UNCHANGED <<heard, clean>>

\* The step ends the worker's connection, or makes its receiver skip transactions.
Interrupted(w) ==
    \/ pc'[w] \notin Connected
    \/ pc[w] = "connected" /\ pc'[w] = "connected" /\ next'[w] # next[w]

\* What the relayer has been sent once the transaction taken last is sent too.
AfterSend(w) == txs[next[w] - 1] @@ heard[w]

\* A step of a worker; a new connection has been sent nothing.
Worker(w) ==
    /\ \/ SendOk(w) /\ heard' = [heard EXCEPT ![w] = AfterSend(w)]
       \/ Advance(w) /\ heard' = [heard EXCEPT ![w] = IF pc'[w] \in Connected THEN @ ELSE Unheard]
    /\ clean' = [clean EXCEPT ![w] = IF Interrupted(w) THEN 0 ELSE @]
    /\ wanted' = [f \in Feeds |-> IF Interrupted(w) THEN [wanted[f] EXCEPT !.owed = @ \ {w}] ELSE wanted[f]]
    /\ UNCHANGED <<pubvars, txs>>

RelayerFlips ==
    /\ \E r \in Relayers : Flip(r)
    /\ UNCHANGED <<pubvars, history>>

AgentTick ==
    /\ Publisher!Tick /\ Tick
    /\ clean' = [w \in Workers |-> IF pc[w] \in Connected /\ clean[w] < Ttl THEN clean[w] + 1 ELSE clean[w]]
    /\ UNCHANGED <<txs, heard, wanted>>

AgentNext ==
    \/ Intake \/ Batch \/ RelayerFlips \/ AgentTick
    \/ \E w \in Workers : Worker(w)

AgentSpec == AgentInit /\ [][AgentNext]_agentvars

\* The branches of the publisher's select loop are polled in random order, so
\* neither starves, the channel serves waiting senders as room appears, and
\* the runtime polls every worker that can go on.  Nothing is fair about the
\* handlers' pushes and the relayers.
AgentFairness ==
    /\ WF_agentvars(Intake /\ pushed' = pushed) /\ WF_agentvars(Batch) /\ WF_agentvars(AgentTick)
    /\ \A w \in Workers : WF_agentvars(Worker(w))

AgentFairSpec == AgentSpec /\ AgentFairness

-----------------------------------------------------------------------------
(* Properties *)

\* The worker has sent all there is over its connection.
Drained(w) == pc[w] = "connected" /\ next[w] = sent + 1

\* What is lost with a connection, and then suppressed by the TTL cache when it
\* is pushed again, is made good within the TTL: once a relayer has been
\* connected for update_deduplication_ttl without lagging, the data it was sent
\* last for a feed is the latest that was pushed, suppressed or not
\* (deduplicate_feed_updates, run_relayer_connection).
RelayersHear ==
    \A f \in Feeds : \A w \in wanted[f].owed : Drained(w) => heard[w][f] = wanted[f].update

\* With the relayers reachable for good, whatever was pushed is in the end sent,
\* suppressed or overwritten: no handler is left waiting, nothing stays in
\* the mpsc channel, in pending_updates or in the broadcast channel.
EverythingForwarded ==
    <>[](up = Relayers)
        => <>[](Publisher!OnTheWay = {} /\ \A w \in Workers : next[w] = sent + 1)

\* The publisher task, with the workers behind it, loses and repeats nothing: each
\* update pushed is in one place until its batch, which sends it at most once, and
\* the channel never holds more than its capacity; after batch_transaction the last
\* data sent for a feed is the latest the batch held for it; and
\* deduplicate_feed_updates sends no data again within the TTL.
PublisherFaithful ==
    /\ [](Publisher!TypeOK /\ Publisher!EachUpdateOnce)
    /\ Publisher!LatestDataKnown /\ Publisher!NoRepeatWithinTtl
=============================================================================
