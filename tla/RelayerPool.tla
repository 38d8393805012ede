----------------------------- MODULE RelayerPool -----------------------------
(***************************************************************************)
(* The agent's pool of relayer connections (agent/src/relayer_session.rs). *)
(*                                                                         *)
(* A fixed vector of relayer slots is shared by the worker tasks.  A       *)
(* worker scans the slots, takes the one-permit semaphore of the slot      *)
(* whose backoff deadline is soonest, waits for that deadline, connects,   *)
(* forwards transactions from its broadcast receiver until the connection  *)
(* ends, records the outcome in the slot, and gives the permit back.       *)
(*                                                                         *)
(* Time.  An Instant is kept relative to now: deadlines and sleeps count   *)
(* down on Tick.  A deadline more than Horizon in the past is not told     *)
(* apart from any other such deadline.  Code between two awaits takes no   *)
(* time (Tick waits for it), but the steps of different workers interleave.*)
(***************************************************************************)
EXTENDS Integers, FiniteSets

CONSTANTS
    NumRelayers,        \* length of config.relayer_urls
    Workers,            \* the spawned RelayerSessionTasks
    InitialBackoff,     \* INITIAL_BACKOFF, in ticks
    MaxBackoff,         \* MAX_BACKOFF, in ticks
    StableConnection,   \* STABLE_CONNECTION, in ticks
    ChannelCapacity,    \* capacity of the broadcast channel
    Horizon,            \* bound: how far back deadlines are told apart
    MaxSent             \* bound: transactions broadcast in a behaviour

Relayers == 1..NumRelayers

ASSUME ConfigAssumption ==
    /\ NumRelayers \in Nat
    /\ InitialBackoff \in Nat \ {0}
    /\ MaxBackoff \in Nat /\ MaxBackoff >= InitialBackoff
    /\ StableConnection \in Nat
    /\ ChannelCapacity \in Nat \ {0}
    /\ Horizon \in Nat
    /\ MaxSent \in Nat

\* LazerPublisher::new spawns resolve_num_connections(..) workers, which is
\* never more than the number of relayer URLs.
ASSUME WorkersAssumption ==
    /\ IsFiniteSet(Workers)
    /\ Cardinality(Workers) <= NumRelayers

VARIABLES
    permit,      \* available permits of each slot's semaphore
    interval,    \* current interval of each slot's ExponentialBackoff
    ready_at,    \* each slot's deadline, relative to now
    pc,          \* where each worker is
    index,       \* next slot each worker's scan reads
    best,        \* best slot of each worker's scan so far, 0 if none
    best_ready,  \* the deadline it was read with
    slot,        \* the slot each worker holds, 0 if none
    timer,       \* ticks left of each worker's sleep
    uptime,      \* ticks each worker's connection has been up, at most StableConnection
    is_ready,    \* the readiness flag behind GET /ready
    sent,        \* transactions broadcast so far, numbered 1..sent
    next,        \* next transaction of each worker's broadcast receiver
    up           \* environment: the relayers that are reachable

slotVars == <<permit, interval, ready_at>>
scanVars == <<index, best, best_ready>>
vars == <<permit, interval, ready_at, pc, index, best, best_ready, slot,
          timer, uptime, is_ready, sent, next, up>>

\* Worker states that run without awaiting anything.
Computing == {"scan", "read", "reserved", "ending", "release"}
\* Worker states in which the slot's permit is held.
Holding == {"reserved", "wait", "connecting", "connected", "sending",
            "ending", "release"}
\* Worker states in which the relayer connection is established.
Connected == {"connected", "sending"}

-----------------------------------------------------------------------------
(* The exponential backoff (crate `backoff`): a delay is drawn from half to *)
(* one and a half times the interval, then the interval grows by half.      *)

BackoffDelays(i) == {d \in 1..(2 * i) : i <= 2 * d /\ 2 * d <= 3 * i}

GrowInterval(i) ==
    LET grown == (3 * i + 1) \div 2
    IN  IF grown >= MaxBackoff THEN MaxBackoff ELSE grown

-----------------------------------------------------------------------------
SlotTypeOK ==
    /\ permit \in [Relayers -> {0, 1}]
    /\ interval \in [Relayers -> InitialBackoff..MaxBackoff]
    /\ ready_at \in [Relayers -> Int]

WorkerTypeOK ==
    /\ pc \in [Workers -> {"idle"} \cup Computing \cup Holding]
    /\ index \in [Workers -> 1..(NumRelayers + 1)]
    /\ best \in [Workers -> Relayers \cup {0}]
    /\ best_ready \in [Workers -> Int]
    /\ slot \in [Workers -> Relayers \cup {0}]
    /\ timer \in [Workers -> Nat]
    /\ uptime \in [Workers -> 0..StableConnection]
    /\ next \in [Workers -> Nat \ {0}]

EnvTypeOK ==
    /\ is_ready \in BOOLEAN
    /\ sent \in 0..MaxSent
    /\ up \in SUBSET Relayers

\* The types of the variables.  A deadline is never further ahead than one and
\* a half times MAX_BACKOFF, the most a jittered delay can be.
TypeOK ==
    /\ SlotTypeOK
    /\ WorkerTypeOK
    /\ EnvTypeOK
    /\ \A r \in Relayers : -Horizon <= ready_at[r] /\ 2 * ready_at[r] <= 3 * MaxBackoff

\* RelayerSlot::new for every URL; every worker starts at the top of run().
Init ==
    /\ permit = [r \in Relayers |-> 1]
    /\ interval = [r \in Relayers |-> InitialBackoff]
    /\ ready_at = [r \in Relayers |-> 0]
    /\ pc = [w \in Workers |-> "scan"]
    /\ index = [w \in Workers |-> 1]
    /\ best = [w \in Workers |-> 0]
    /\ best_ready = [w \in Workers |-> 0]
    /\ slot = [w \in Workers |-> 0]
    /\ timer = [w \in Workers |-> 0]
    /\ uptime = [w \in Workers |-> 0]
    /\ is_ready = FALSE
    /\ sent = 0
    /\ next = [w \in Workers |-> 1]
    /\ up \in SUBSET Relayers

-----------------------------------------------------------------------------
(* reserve_slot *)

\* The locals of a scan, as they are at its start and once it has returned.
ResetScan(w) ==
    /\ index' = [index EXCEPT ![w] = 1]
    /\ best' = [best EXCEPT ![w] = 0]
    /\ best_ready' = [best_ready EXCEPT ![w] = 0]

\* available_permits() = 0: the slot is skipped.
SkipHeld(w) ==
    /\ pc[w] = "scan"
    /\ index[w] <= NumRelayers
    /\ permit[index[w]] = 0
    /\ index' = [index EXCEPT ![w] = @ + 1]
    /\ UNCHANGED <<slotVars, pc, best, best_ready, slot, timer, uptime, is_ready, sent, next, up>>

\* available_permits() > 0: go on to read the slot's deadline.
SeeFree(w) ==
    /\ pc[w] = "scan"
    /\ index[w] <= NumRelayers
    /\ permit[index[w]] = 1
    /\ pc' = [pc EXCEPT ![w] = "read"]
    /\ UNCHANGED <<slotVars, scanVars, slot, timer, uptime, is_ready, sent, next, up>>

\* Mutant: the first unheld slot wins, whatever its deadline.
FirstUnheld(w) ==
    /\ pc[w] = "read"
    /\ pc' = [pc EXCEPT ![w] = "scan"]
    /\ index' = [index EXCEPT ![w] = @ + 1]
    /\ best' = [best EXCEPT ![w] = IF @ = 0 THEN index[w] ELSE @]
    /\ UNCHANGED <<slotVars, best_ready, slot, timer, uptime, is_ready, sent, next, up>>

\* The slot replaces the best one when its deadline is sooner.  Two deadlines
\* at the horizon may be in either order.
ReadDeadline(w) ==
    LET r == index[w]
        sooner == best[w] = 0 \/ ready_at[r] < best_ready[w]
        unordered == ready_at[r] = -Horizon /\ best_ready[w] = -Horizon
    IN  /\ pc[w] = "read"
        /\ pc' = [pc EXCEPT ![w] = "scan"]
        /\ index' = [index EXCEPT ![w] = r + 1]
        /\ \/ /\ sooner \/ unordered
              /\ best' = [best EXCEPT ![w] = r]
              /\ best_ready' = [best_ready EXCEPT ![w] = ready_at[r]]
           \/ /\ ~sooner
              /\ UNCHANGED <<best, best_ready>>
        /\ UNCHANGED <<slotVars, slot, timer, uptime, is_ready, sent, next, up>>

\* The scan saw every slot held: reserve_slot returns None and run() sleeps.
NoneFree(w) ==
    /\ pc[w] = "scan"
    /\ index[w] = NumRelayers + 1
    /\ best[w] = 0
    /\ pc' = [pc EXCEPT ![w] = "idle"]
    /\ timer' = [timer EXCEPT ![w] = InitialBackoff]
    /\ ResetScan(w)
    /\ UNCHANGED <<slotVars, slot, uptime, is_ready, sent, next, up>>

\* try_acquire succeeds on the best slot.
Acquire(w) ==
    /\ pc[w] = "scan"
    /\ index[w] = NumRelayers + 1
    /\ best[w] # 0
    /\ permit[best[w]] = 1
    /\ permit' = [permit EXCEPT ![best[w]] = 0]
    /\ slot' = [slot EXCEPT ![w] = best[w]]
    /\ pc' = [pc EXCEPT ![w] = "reserved"]
    /\ ResetScan(w)
    /\ UNCHANGED <<interval, ready_at, timer, uptime, is_ready, sent, next, up>>

\* Another worker claimed the slot between the scan and the acquire; re-scan.
AcquireLost(w) ==
    /\ pc[w] = "scan"
    /\ index[w] = NumRelayers + 1
    /\ best[w] # 0
    /\ permit[best[w]] = 0
    /\ ResetScan(w)
    /\ UNCHANGED <<slotVars, pc, slot, timer, uptime, is_ready, sent, next, up>>

\* The sleep after a None is over.
Retry(w) ==
    /\ pc[w] = "idle"
    /\ timer[w] = 0
    /\ pc' = [pc EXCEPT ![w] = "scan"]
    /\ UNCHANGED <<slotVars, scanVars, slot, timer, uptime, is_ready, sent, next, up>>

-----------------------------------------------------------------------------
(* run: wait for the deadline, connect, record the outcome, drop the permit *)

\* The remaining wait is computed once and slept with the permit held.
StartWait(w) ==
    /\ pc[w] = "reserved"
    /\ pc' = [pc EXCEPT ![w] = "wait"]
    /\ timer' = [timer EXCEPT ![w] = IF ready_at[slot[w]] > 0 THEN ready_at[slot[w]] ELSE 0]
    /\ UNCHANGED <<slotVars, scanVars, slot, uptime, is_ready, sent, next, up>>

StartConnect(w) ==
    /\ pc[w] = "wait"
    /\ timer[w] = 0
    /\ pc' = [pc EXCEPT ![w] = "connecting"]
    /\ UNCHANGED <<slotVars, scanVars, slot, timer, uptime, is_ready, sent, next, up>>

\* connect_to_relayer returned a connection within CONNECT_TIMEOUT.
ConnectOk(w) ==
    /\ pc[w] = "connecting"
    /\ slot[w] \in up
    /\ pc' = [pc EXCEPT ![w] = "connected"]
    /\ is_ready' = TRUE
    /\ UNCHANGED <<slotVars, scanVars, slot, timer, uptime, sent, next, up>>

\* record_outcome for anything but a long-lived connection: back off.
BackOff(r) ==
    /\ \E d \in BackoffDelays(interval[r]) : ready_at' = [ready_at EXCEPT ![r] = d]
    /\ interval' = [interval EXCEPT ![r] = GrowInterval(@)]

\* Mutant: a failed attempt goes back to scanning with the permit forgotten.
ConnectFailedLeaks(w) ==
    /\ pc[w] = "connecting"
    /\ slot[w] \notin up
    /\ BackOff(slot[w])
    /\ pc' = [pc EXCEPT ![w] = "scan"]
    /\ slot' = [slot EXCEPT ![w] = 0]
    /\ UNCHANGED <<permit, scanVars, timer, uptime, is_ready, sent, next, up>>

\* ConnectionOutcome::ConnectFailed: the attempt failed or timed out.
ConnectFailed(w) ==
    /\ pc[w] = "connecting"
    /\ slot[w] \notin up
    /\ BackOff(slot[w])
    /\ pc' = [pc EXCEPT ![w] = "release"]
    /\ UNCHANGED <<permit, scanVars, slot, timer, uptime, is_ready, sent, next, up>>

\* ConnectionOutcome::Disconnected: a connection that was up for
\* STABLE_CONNECTION resets the backoff, any other one backs off.
RecordDisconnected(w) ==
    /\ pc[w] = "ending"
    /\ \/ /\ uptime[w] >= StableConnection
          /\ ready_at' = [ready_at EXCEPT ![slot[w]] = 0]
          /\ interval' = [interval EXCEPT ![slot[w]] = InitialBackoff]
       \/ /\ uptime[w] < StableConnection
          /\ BackOff(slot[w])
    /\ pc' = [pc EXCEPT ![w] = "release"]
    /\ uptime' = [uptime EXCEPT ![w] = 0]
    /\ UNCHANGED <<permit, scanVars, slot, timer, is_ready, sent, next, up>>

\* Mutant: the backoff is recorded after the permit is dropped.
ReleaseBacksOff(w) ==
    /\ pc[w] = "release"
    /\ permit' = [permit EXCEPT ![slot[w]] = 1]
    /\ BackOff(slot[w])
    /\ slot' = [slot EXCEPT ![w] = 0]
    /\ pc' = [pc EXCEPT ![w] = "scan"]
    /\ UNCHANGED <<scanVars, timer, uptime, is_ready, sent, next, up>>

\* drop(permit), and around the loop of run().
Release(w) ==
    /\ pc[w] = "release"
    /\ permit' = [permit EXCEPT ![slot[w]] = 1]
    /\ slot' = [slot EXCEPT ![w] = 0]
    /\ pc' = [pc EXCEPT ![w] = "scan"]
    /\ UNCHANGED <<interval, ready_at, scanVars, timer, uptime, is_ready, sent, next, up>>

-----------------------------------------------------------------------------
(* run_relayer_connection: the select loop of an established connection *)

\* The oldest transaction the broadcast channel still retains.
Oldest == IF sent > ChannelCapacity THEN sent - ChannelCapacity + 1 ELSE 1

\* receiver.recv() yields the next transaction, which is then being sent.
Recv(w) ==
    /\ pc[w] = "connected"
    /\ next[w] <= sent
    /\ next[w] >= Oldest
    /\ pc' = [pc EXCEPT ![w] = "sending"]
    /\ next' = [next EXCEPT ![w] = @ + 1]
    /\ UNCHANGED <<slotVars, scanVars, slot, timer, uptime, is_ready, sent, up>>

\* RecvError::Lagged: the receiver jumps to the oldest retained transaction.
Lagged(w) ==
    /\ pc[w] = "connected"
    /\ next[w] < Oldest
    /\ next' = [next EXCEPT ![w] = Oldest]
    /\ UNCHANGED <<slotVars, scanVars, pc, slot, timer, uptime, is_ready, sent, up>>

SendOk(w) ==
    /\ pc[w] = "sending"
    /\ pc' = [pc EXCEPT ![w] = "connected"]
    /\ UNCHANGED <<slotVars, scanVars, slot, timer, uptime, is_ready, sent, next, up>>

\* Mutant: an error of a send is logged and the connection goes on.
SendErrIgnored(w) ==
    /\ pc[w] = "sending"
    /\ slot[w] \notin up
    /\ pc' = [pc EXCEPT ![w] = "connected"]
    /\ UNCHANGED <<slotVars, scanVars, slot, timer, uptime, is_ready, sent, next, up>>

SendErr(w) ==
    /\ pc[w] = "sending"
    /\ slot[w] \notin up
    /\ pc' = [pc EXCEPT ![w] = "ending"]
    /\ UNCHANGED <<slotVars, scanVars, slot, timer, uptime, is_ready, sent, next, up>>

\* relayer_ws_receiver.next() yields None.
Closed(w) ==
    /\ pc[w] = "connected"
    /\ slot[w] \notin up
    /\ pc' = [pc EXCEPT ![w] = "ending"]
    /\ UNCHANGED <<slotVars, scanVars, slot, timer, uptime, is_ready, sent, next, up>>

-----------------------------------------------------------------------------
(* Environment *)

\* The publisher task broadcasts a transaction (LazerPublisherTask).
Broadcast ==
    /\ sent < MaxSent
    /\ sent' = sent + 1
    /\ UNCHANGED <<slotVars, pc, scanVars, slot, timer, uptime, is_ready, next, up>>

\* A relayer goes down or comes back.
Flip(r) ==
    /\ up' = IF r \in up THEN up \ {r} ELSE up \cup {r}
    /\ UNCHANGED <<slotVars, pc, scanVars, slot, timer, uptime, is_ready, sent, next>>

\* One unit of time passes.
Tick ==
    /\ \A w \in Workers : pc[w] \notin Computing
    /\ ready_at' = [r \in Relayers |-> IF ready_at[r] > -Horizon THEN ready_at[r] - 1
                                                                ELSE ready_at[r]]
    /\ timer' = [w \in Workers |-> IF timer[w] > 0 THEN timer[w] - 1 ELSE 0]
    /\ uptime' = [w \in Workers |->
                    IF pc[w] \in Connected /\ uptime[w] < StableConnection
                    THEN uptime[w] + 1 ELSE uptime[w]]
    /\ UNCHANGED <<permit, interval, pc, scanVars, slot, is_ready, sent, next, up>>

\* A worker on its way to a connection, and at its end.
Seek(w) ==
    \/ SkipHeld(w) \/ SeeFree(w) \/ ReadDeadline(w) \/ NoneFree(w)
    \/ Acquire(w) \/ AcquireLost(w) \/ Retry(w) \/ StartWait(w) \/ StartConnect(w)
    \/ ConnectOk(w) \/ ConnectFailed(w) \/ Closed(w) \/ RecordDisconnected(w) \/ Release(w)

\* Every step of a worker but a successful send.
Advance(w) == Seek(w) \/ Recv(w) \/ Lagged(w) \/ SendErr(w)

WorkerStep(w) == Advance(w) \/ SendOk(w)

Next ==
    \/ \E w \in Workers : WorkerStep(w)
    \/ \E r \in Relayers : Flip(r)
    \/ Broadcast
    \/ Tick

Spec == Init /\ [][Next]_vars

\* The runtime keeps polling every task that can go on, and time passes.
Fairness ==
    /\ \A w \in Workers : WF_vars(WorkerStep(w))
    /\ WF_vars(Tick)

FairSpec == Spec /\ Fairness

-----------------------------------------------------------------------------
(* Properties *)

\* A permit is out exactly when one worker holds that slot, and a worker has a
\* slot exactly from try_acquire to drop(permit): no permit leaks on any path
\* through run(), so no relayer is lost to the pool for good.
PermitsAccounted ==
    /\ \A w \in Workers : pc[w] \in Holding <=> slot[w] # 0
    /\ \A r \in Relayers : permit[r] = 0 <=> \E w \in Workers : slot[w] = r

\* "at most one worker connects to it at a time" (RelayerSlot): no two workers
\* are waiting for, connecting to or connected to the same relayer, although
\* both may have picked it in their scans.
OneWorkerPerRelayer ==
    \A v, w \in Workers :
        v # w /\ pc[v] \in Holding /\ pc[w] \in Holding => slot[v] # slot[w]

\* Both at once: a slot belongs to one worker from try_acquire to drop(permit), and
\* its permit is out exactly that long.
SlotsExclusive == PermitsAccounted /\ OneWorkerPerRelayer

\* "Respect this relayer's backoff deadline before attempting" (run): an attempt
\* or a connection exists only past the slot's deadline, although the wait was
\* computed once, before the sleep.
BackoffRespected ==
    \A w \in Workers :
        pc[w] \in {"connecting", "connected", "sending"} => ready_at[slot[w]] <= 0

\* A worker without a relayer can always get one: fewer permits are out than
\* there are slots, so the pool cannot starve a worker.
RelayerLeft ==
    (\E w \in Workers : pc[w] \notin Holding) => \E r \in Relayers : permit[r] = 1

\* What the worker slept for covers the deadline of the slot it holds.
WaitCoversDeadline ==
    \A w \in Workers : pc[w] = "wait" => timer[w] >= ready_at[slot[w]]

\* A scan reads only slots of the pool, and a receiver is at most one past the
\* last transaction.
InBounds ==
    \A w \in Workers :
        /\ pc[w] = "read" => index[w] <= NumRelayers
        /\ next[w] <= sent + 1

\* The inductive invariant behind the theorems of RelayerPoolProofs.
IndInv ==
    /\ TypeOK
    /\ PermitsAccounted
    /\ OneWorkerPerRelayer
    /\ BackoffRespected
    /\ WaitCoversDeadline
    /\ InBounds

\* A worker's receiver moves only forward, never past the last transaction, and
\* skips transactions only once the channel has overwritten them.
ReceiverOrder ==
    [][\A w \in Workers : next'[w] # next[w] =>
          /\ pc[w] = "connected"
          /\ next[w] < next'[w] /\ next'[w] <= sent + 1
          /\ next'[w] = next[w] + 1 \/ next'[w] = sent - ChannelCapacity + 1]_vars

\* A slot's backoff state changes only under its permit, apart from the passage
\* of time: a deadline read by the holder cannot move under it.
SlotStateOwned ==
    [][\A r \in Relayers :
          interval'[r] # interval[r] \/ ready_at'[r] > ready_at[r]
              => permit[r] = 0 /\ permit'[r] = 0]_vars

\* The backoff of a relayer is respected as it was last recorded: no attempt starts
\* before the deadline of its slot, and no deadline moves but under the permit of
\* the worker that records an outcome (run, record_outcome).
DeadlinesKept == []BackoffRespected /\ SlotStateOwned

\* "a connection fails over to the next relayer when one drops" (README): once the set of
\* reachable relayers is settled, there are in the end as many connections as
\* relayers and workers allow, each to a reachable relayer.
Failover ==
    \A U \in SUBSET Relayers :
        <>[](up = U) =>
            <>[](\E S \in SUBSET Workers :
                    /\ Cardinality(S) = (IF Cardinality(U) < Cardinality(Workers)
                                        THEN Cardinality(U) ELSE Cardinality(Workers))
                    /\ \A w \in S : pc[w] \in Connected /\ slot[w] \in U)
=============================================================================
