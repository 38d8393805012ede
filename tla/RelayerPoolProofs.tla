-------------------------- MODULE RelayerPoolProofs --------------------------
(* Proofs about RelayerPool, for every number of relayers and workers.      *)
EXTENDS RelayerPool, FiniteSetTheorems, TLAPS

USE ConfigAssumption DEF ConfigAssumption, slotVars, scanVars

\* The interval of a slot's backoff stays between its bounds, and a delay is
\* positive and at most one and a half times MAX_BACKOFF.
LEMMA BackoffBounds ==
    ASSUME NEW i \in InitialBackoff..MaxBackoff
    PROVE  /\ GrowInterval(i) \in InitialBackoff..MaxBackoff
           /\ \A d \in BackoffDelays(i) : d \in Nat /\ 2 * d <= 3 * MaxBackoff
  BY DEF GrowInterval, BackoffDelays

\* Every step keeps the types of the slots; a recorded outcome keeps the interval
\* between INITIAL_BACKOFF and MAX_BACKOFF.
LEMMA SlotTypeStep ==
    ASSUME SlotTypeOK, WorkerTypeOK, PermitsAccounted, [Next]_vars PROVE SlotTypeOK'
<1> USE DEF SlotTypeOK
<1>1. ASSUME NEW w \in Workers, WorkerStep(w) PROVE SlotTypeOK'
  <2>1. CASE Acquire(w)
    BY <2>1, ZenonT(30) DEF Acquire
  <2>2. CASE Release(w)
    BY <2>2, ZenonT(30) DEF Release
  <2>3. ASSUME NEW r \in Relayers, BackOff(r), UNCHANGED permit PROVE SlotTypeOK'
    BY <2>3, BackoffBounds DEF BackOff
  <2>4. pc[w] \in {"connecting", "ending"} => slot[w] \in Relayers
    BY DEF WorkerTypeOK, PermitsAccounted, Holding
  <2>5. CASE ConnectFailed(w)
    BY <2>3, <2>4, <2>5 DEF ConnectFailed
  <2>6. CASE RecordDisconnected(w)
    <3>1. CASE uptime[w] < StableConnection
      BY <2>3, <2>4, <2>6, <3>1 DEF RecordDisconnected
    <3>2. CASE ready_at' = [ready_at EXCEPT ![slot[w]] = 0]
               /\ interval' = [interval EXCEPT ![slot[w]] = InitialBackoff]
      BY <2>4, <2>6, <3>2 DEF RecordDisconnected
    <3> QED BY <2>6, <3>1, <3>2 DEF RecordDisconnected
  <2> QED
    BY <1>1, <2>1, <2>2, <2>5, <2>6
    DEF WorkerStep, Advance, Seek, SkipHeld, SeeFree, ReadDeadline, NoneFree, AcquireLost, Retry,
        StartWait, StartConnect, ConnectOk, Recv, Lagged, SendOk, SendErr, Closed
<1>2. CASE Tick BY <1>2 DEF Tick
<1> QED BY <1>1, <1>2 DEF Next, Flip, Broadcast, vars

\* Where a worker's slot and scan point, from the invariant.
LEMMA SlotInRange ==
    ASSUME WorkerTypeOK, PermitsAccounted, NEW w \in Workers, pc[w] \in Holding
    PROVE  slot[w] \in Relayers
  BY DEF WorkerTypeOK, PermitsAccounted

\* Every step keeps the types of the workers' locals and receivers.
LEMMA WorkerTypeStep ==
    ASSUME IndInv, [Next]_vars PROVE WorkerTypeOK'
<1> USE DEF WorkerTypeOK
<1>0. WorkerTypeOK /\ SlotTypeOK /\ EnvTypeOK
  BY ZenonT(30) DEF IndInv, TypeOK
<1>1. ASSUME NEW w \in Workers, WorkerStep(w) PROVE WorkerTypeOK'
  <2> USE <1>0
  <2>1. CASE SkipHeld(w) BY <2>1 DEF SkipHeld
  <2>2. CASE SeeFree(w) BY <2>2 DEF SeeFree, Computing
  <2>3. CASE ReadDeadline(w)
    <3>1. index[w] \in Relayers
      BY <2>3 DEF ReadDeadline, IndInv, InBounds, Relayers
    <3>2. ready_at[index[w]] \in Int
      BY <3>1 DEF SlotTypeOK
    <3>3. index[w] + 1 \in 1..(NumRelayers + 1)
      BY <3>1 DEF Relayers
    <3> QED BY <2>3, <3>1, <3>2, <3>3 DEF ReadDeadline, Computing
  <2>4. CASE NoneFree(w) BY <2>4 DEF NoneFree, ResetScan
  <2>5. CASE Acquire(w) BY <2>5 DEF Acquire, ResetScan, Computing
  <2>6. CASE AcquireLost(w) BY <2>6 DEF AcquireLost, ResetScan
  <2>7. CASE Retry(w) BY <2>7 DEF Retry, Computing
  <2>8. CASE StartWait(w)
    <3>1. ready_at[slot[w]] \in Int
      BY <2>8, SlotInRange DEF StartWait, Holding, IndInv, SlotTypeOK
    <3> QED BY <2>8, <3>1 DEF StartWait, Holding
  <2>9. CASE StartConnect(w) BY <2>9 DEF StartConnect, Holding
  <2>10. CASE ConnectOk(w) BY <2>10 DEF ConnectOk, Holding
  <2>11. CASE ConnectFailed(w) BY <2>11 DEF ConnectFailed, Holding
  <2>12. CASE RecordDisconnected(w) BY <2>12 DEF RecordDisconnected, Holding
  <2>13. CASE Release(w) BY <2>13 DEF Release, Computing
  <2>14. CASE Recv(w) BY <2>14 DEF Recv, Holding
  <2>15. CASE Lagged(w) BY <2>15 DEF Lagged, Oldest, EnvTypeOK
  <2>16. CASE SendOk(w) BY <2>16 DEF SendOk, Holding
  <2>17. CASE SendErr(w) BY <2>17 DEF SendErr, Holding
  <2>18. CASE Closed(w) BY <2>18 DEF Closed, Holding
  <2> QED
    BY <1>1, <2>1, <2>2, <2>3, <2>4, <2>5, <2>6, <2>7, <2>8, <2>9, <2>10, <2>11,
       <2>12, <2>13, <2>14, <2>15, <2>16, <2>17, <2>18 DEF WorkerStep, Advance, Seek
<1>2. CASE Tick BY <1>0, <1>2 DEF Tick
<1> QED BY <1>0, <1>1, <1>2 DEF Next, Flip, Broadcast, vars

\* Every step keeps the types of the readiness flag, the channel and the environment.
LEMMA EnvTypeStep ==
    ASSUME EnvTypeOK, [Next]_vars PROVE EnvTypeOK'
<1>1. is_ready' \in BOOLEAN
  <2>1. ASSUME NEW w \in Workers, WorkerStep(w) PROVE is_ready' = is_ready \/ is_ready' = TRUE
    BY <2>1, ZenonT(30)
    DEF WorkerStep, Advance, Seek, SkipHeld, SeeFree, ReadDeadline, NoneFree, Acquire,
        AcquireLost, Retry, StartWait, StartConnect, ConnectOk, ConnectFailed,
        RecordDisconnected, Release, Recv, Lagged, SendOk, SendErr, Closed
  <2>2. (\E w \in Workers : WorkerStep(w)) \/ is_ready' = is_ready
    BY ZenonT(30) DEF Next, vars, Broadcast, Flip, Tick
  <2> QED
    BY <2>1, <2>2, Zenon DEF EnvTypeOK
<1>2. sent' \in 0..MaxSent /\ up' \in SUBSET Relayers
  <2>1. CASE Broadcast BY <2>1 DEF Broadcast, EnvTypeOK
  <2>2. ASSUME NEW r \in Relayers, Flip(r) PROVE sent' \in 0..MaxSent /\ up' \in SUBSET Relayers
    BY <2>2 DEF Flip, EnvTypeOK
  <2>3. CASE UNCHANGED <<sent, up>> BY <2>3 DEF EnvTypeOK
  <2> QED
    BY <2>1, <2>2, <2>3
    DEF Next, vars, WorkerStep, Advance, Seek, SkipHeld, SeeFree, ReadDeadline, NoneFree, Acquire,
      AcquireLost, Retry, StartWait, StartConnect, ConnectOk, ConnectFailed,
      RecordDisconnected, Release, Recv, Lagged, SendOk, SendErr, Closed, Tick
<1> QED BY <1>1, <1>2 DEF EnvTypeOK

\* Only Acquire and Release change who holds which slot.
LEMMA HoldersChange ==
    ASSUME WorkerTypeOK, [Next]_vars
    PROVE  \/ \E w \in Workers : Acquire(w) \/ Release(w)
           \/ /\ UNCHANGED <<permit, slot>>
              /\ \A v \in Workers : pc'[v] \in Holding <=> pc[v] \in Holding
<1> USE DEF WorkerTypeOK
<1> DEFINE Same == /\ UNCHANGED <<permit, slot>>
                   /\ \A v \in Workers : pc'[v] \in Holding <=> pc[v] \in Holding
<1>1. ASSUME NEW w \in Workers, WorkerStep(w), ~Acquire(w), ~Release(w) PROVE Same
  <2>1. CASE SkipHeld(w) BY <2>1 DEF SkipHeld
  <2>2. CASE SeeFree(w) BY <2>2 DEF SeeFree, Holding
  <2>3. CASE ReadDeadline(w) BY <2>3 DEF ReadDeadline, Holding
  <2>4. CASE NoneFree(w) BY <2>4 DEF NoneFree, Holding
  <2>6. CASE AcquireLost(w) BY <2>6 DEF AcquireLost
  <2>7. CASE Retry(w) BY <2>7 DEF Retry, Holding
  <2>8. CASE StartWait(w) BY <2>8 DEF StartWait, Holding
  <2>9. CASE StartConnect(w) BY <2>9 DEF StartConnect, Holding
  <2>10. CASE ConnectOk(w) BY <2>10 DEF ConnectOk, Holding
  <2>11. CASE ConnectFailed(w) BY <2>11 DEF ConnectFailed, Holding
  <2>12. CASE RecordDisconnected(w) BY <2>12 DEF RecordDisconnected, Holding
  <2>14. CASE Recv(w) BY <2>14 DEF Recv, Holding
  <2>15. CASE Lagged(w) BY <2>15 DEF Lagged
  <2>16. CASE SendOk(w) BY <2>16 DEF SendOk, Holding
  <2>17. CASE SendErr(w) BY <2>17 DEF SendErr, Holding
  <2>18. CASE Closed(w) BY <2>18 DEF Closed, Holding
  <2> QED
    BY <1>1, <2>1, <2>2, <2>3, <2>4, <2>6, <2>7, <2>8, <2>9, <2>10, <2>11,
       <2>12, <2>14, <2>15, <2>16, <2>17, <2>18 DEF WorkerStep, Advance, Seek
<1>2. CASE Tick \/ Broadcast \/ (\E r \in Relayers : Flip(r)) \/ UNCHANGED vars
  BY <1>2 DEF Tick, Broadcast, Flip, vars
<1> QED BY <1>1, <1>2 DEF Next

\* try_acquire and drop(permit) keep permits and holders in step, and slots apart.
LEMMA HoldersStep ==
    ASSUME IndInv, [Next]_vars
    PROVE  PermitsAccounted' /\ OneWorkerPerRelayer'
<1>0. WorkerTypeOK /\ SlotTypeOK /\ PermitsAccounted /\ OneWorkerPerRelayer
  BY DEF IndInv, TypeOK
<1>1. ASSUME NEW w \in Workers, Acquire(w) PROVE PermitsAccounted' /\ OneWorkerPerRelayer'
  <2>1. best[w] \in Relayers /\ permit[best[w]] = 1
    BY <1>0, <1>1 DEF Acquire, WorkerTypeOK
  <2>2. slot[w] = 0 /\ \A v \in Workers : slot[v] # best[w]
    BY <1>0, <1>1, <2>1 DEF Acquire, PermitsAccounted, Holding
  <2>3. \A v \in Workers : slot'[v] = IF v = w THEN best[w] ELSE slot[v]
    BY <1>0, <1>1 DEF Acquire, WorkerTypeOK
  <2>4. \A v \in Workers : pc'[v] \in Holding <=> pc[v] \in Holding \/ v = w
    BY <1>0, <1>1 DEF Acquire, WorkerTypeOK, Holding
  <2>5. \A r \in Relayers : permit'[r] = IF r = best[w] THEN 0 ELSE permit[r]
    BY <1>0, <1>1 DEF Acquire, SlotTypeOK
  <2>6. best[w] # 0
    BY <1>1 DEF Acquire
  <2>7. OneWorkerPerRelayer'
    BY <1>0, <2>2, <2>3, <2>4 DEF OneWorkerPerRelayer
  <2>8. \A v \in Workers : pc'[v] \in Holding <=> slot'[v] # 0
    BY <1>0, <2>3, <2>4, <2>6 DEF PermitsAccounted
  <2>9. ASSUME NEW r \in Relayers PROVE permit'[r] = 0 <=> \E v \in Workers : slot'[v] = r
    <3>1. CASE r = best[w] BY <2>3, <2>5, <3>1
    <3>2. CASE r # best[w]
      <4>1. r # slot[w]
        BY <2>2 DEF Relayers
      <4> QED BY <1>0, <2>3, <2>5, <3>2, <4>1 DEF PermitsAccounted
    <3> QED BY <3>1, <3>2
  <2> QED BY <2>7, <2>8, <2>9 DEF PermitsAccounted
<1>2. ASSUME NEW w \in Workers, Release(w) PROVE PermitsAccounted' /\ OneWorkerPerRelayer'
  <2>1. slot[w] \in Relayers /\ pc[w] \in Holding
    BY <1>0, <1>2, SlotInRange DEF Release, Holding
  <2>2. \A v \in Workers : v # w => slot[v] # slot[w]
    BY <1>0, <2>1 DEF PermitsAccounted, OneWorkerPerRelayer
  <2>3. \A v \in Workers : slot'[v] = IF v = w THEN 0 ELSE slot[v]
    BY <1>0, <1>2 DEF Release, WorkerTypeOK
  <2>4. \A v \in Workers : pc'[v] \in Holding <=> pc[v] \in Holding /\ v # w
    BY <1>0, <1>2 DEF Release, WorkerTypeOK, Holding
  <2>5. \A r \in Relayers : permit'[r] = IF r = slot[w] THEN 1 ELSE permit[r]
    BY <1>0, <1>2 DEF Release, SlotTypeOK
  <2>6. 0 \notin Relayers
    BY DEF Relayers
  <2> QED BY <1>0, <2>1, <2>2, <2>3, <2>4, <2>5, <2>6 DEF PermitsAccounted, OneWorkerPerRelayer
<1>3. CASE /\ UNCHANGED <<permit, slot>>
           /\ \A v \in Workers : pc'[v] \in Holding <=> pc[v] \in Holding
  BY <1>0, <1>3, ZenonT(30) DEF PermitsAccounted, OneWorkerPerRelayer
<1> QED BY <1>0, <1>1, <1>2, <1>3, HoldersChange

\* A deadline moves only by the passage of time or when its holder records an
\* outcome, on its way to giving the permit back.
LEMMA DeadlineChange ==
    ASSUME IndInv, NEW w \in Workers, WorkerStep(w)
    PROVE  \/ UNCHANGED ready_at
           \/ /\ pc[w] \in Holding /\ slot[w] \in Relayers
              /\ \A v \in Workers : pc'[v] = IF v = w THEN "release" ELSE pc[v]
              /\ UNCHANGED <<permit, slot, timer>>
              /\ \E d \in Nat : /\ 2 * d <= 3 * MaxBackoff
                                /\ ready_at' = [ready_at EXCEPT ![slot[w]] = d]
<1>0. WorkerTypeOK /\ SlotTypeOK /\ PermitsAccounted
  BY DEF IndInv, TypeOK
<1>1. ASSUME BackOff(slot[w]), slot[w] \in Relayers
      PROVE  \E d \in Nat : /\ 2 * d <= 3 * MaxBackoff
                            /\ ready_at' = [ready_at EXCEPT ![slot[w]] = d]
  <2>1. interval[slot[w]] \in InitialBackoff..MaxBackoff
    BY <1>0, <1>1, SMTT(30) DEF SlotTypeOK
  <2> QED BY <1>1, <2>1, BackoffBounds, ZenonT(30) DEF BackOff
<1>2. pc[w] \in {"connecting", "ending"} => pc[w] \in Holding /\ slot[w] \in Relayers
  BY <1>0, SlotInRange DEF Holding
<1>3. CASE ConnectFailed(w)
  BY <1>0, <1>1, <1>2, <1>3 DEF ConnectFailed, WorkerTypeOK
<1>4. CASE RecordDisconnected(w)
  <2>1. /\ UNCHANGED <<permit, slot, timer>>
        /\ \A v \in Workers : pc'[v] = IF v = w THEN "release" ELSE pc[v]
        /\ pc[w] \in Holding /\ slot[w] \in Relayers
    BY <1>0, <1>2, <1>4 DEF RecordDisconnected, WorkerTypeOK
  <2>2. \/ ready_at' = [ready_at EXCEPT ![slot[w]] = 0]
        \/ BackOff(slot[w])
    BY <1>4 DEF RecordDisconnected
  <2>3. 0 \in Nat /\ 2 * 0 <= 3 * MaxBackoff
    BY SMTT(30)
  <2> QED BY <1>1, <2>1, <2>2, <2>3, ZenonT(30)
<1> QED
  BY <1>3, <1>4
  DEF WorkerStep, Advance, Seek, SkipHeld, SeeFree, ReadDeadline, NoneFree, Acquire, AcquireLost, Retry,
      StartWait, StartConnect, ConnectOk, Release, Recv, Lagged, SendOk, SendErr, Closed

\* The deadlines stay within the horizon and the largest delay.
LEMMA DeadlineBoundsStep ==
    ASSUME IndInv, [Next]_vars
    PROVE  \A r \in Relayers : -Horizon <= ready_at'[r] /\ 2 * ready_at'[r] <= 3 * MaxBackoff
<1>0. SlotTypeOK /\ \A r \in Relayers : -Horizon <= ready_at[r] /\ 2 * ready_at[r] <= 3 * MaxBackoff
  BY DEF IndInv, TypeOK
<1>1. ASSUME NEW w \in Workers, WorkerStep(w), NEW r \in Relayers
      PROVE  -Horizon <= ready_at'[r] /\ 2 * ready_at'[r] <= 3 * MaxBackoff
  <2>1. UNCHANGED ready_at \/ \E d \in Nat : /\ 2 * d <= 3 * MaxBackoff
                                             /\ ready_at' = [ready_at EXCEPT ![slot[w]] = d]
    BY <1>1, DeadlineChange, ZenonT(30)
  <2> QED BY <1>0, <2>1 DEF SlotTypeOK
<1>2. CASE Tick BY <1>0, <1>2 DEF Tick, SlotTypeOK
<1> QED BY <1>0, <1>1, <1>2, ZenonT(30) DEF Next, Flip, Broadcast, vars

\* A sleep covers its slot's deadline, so attempts start past the deadline.
LEMMA WaitStep ==
    ASSUME IndInv, [Next]_vars
    PROVE  WaitCoversDeadline' /\ BackoffRespected'
<1> DEFINE Late == {"connecting", "connected", "sending"}
           P(v) == /\ pc[v] = "wait" => timer[v] >= ready_at[slot[v]]
                   /\ pc[v] \in Late => ready_at[slot[v]] <= 0
<1>0. /\ WorkerTypeOK /\ SlotTypeOK /\ PermitsAccounted /\ OneWorkerPerRelayer
      /\ \A v \in Workers : P(v)
  BY DEF IndInv, TypeOK, WaitCoversDeadline, BackoffRespected
<1> SUFFICES ASSUME NEW v \in Workers PROVE P(v)'
  BY DEF WaitCoversDeadline, BackoffRespected
<1>1. ASSUME NEW w \in Workers, WorkerStep(w) PROVE P(v)'
  <2>1. CASE ~UNCHANGED ready_at
    <3>1. PICK d \in Nat : ready_at' = [ready_at EXCEPT ![slot[w]] = d]
      BY <1>1, <2>1, DeadlineChange
    <3>2. /\ pc[w] \in Holding /\ slot[w] \in Relayers /\ UNCHANGED <<slot, timer>>
          /\ pc'[v] = IF v = w THEN "release" ELSE pc[v]
      BY <1>1, <2>1, DeadlineChange
    <3>3. CASE v = w BY <3>2, <3>3
    <3>4. CASE v # w /\ pc[v] \in Holding
      <4>1. slot[v] # slot[w] /\ slot[v] \in Relayers
        BY <1>0, <3>2, <3>4, SlotInRange DEF OneWorkerPerRelayer
      <4>2. ready_at'[slot[v]] = ready_at[slot[v]]
        BY <1>0, <3>1, <4>1 DEF SlotTypeOK
      <4> QED BY <1>0, <3>2, <3>4, <4>2
    <3>5. CASE v # w /\ pc[v] \notin Holding BY <3>2, <3>5 DEF Holding
    <3> QED BY <3>3, <3>4, <3>5
  <2>2. CASE UNCHANGED ready_at /\ v # w
    <3>1. pc'[v] = pc[v] /\ slot'[v] = slot[v] /\ timer'[v] = timer[v]
      BY <1>0, <1>1, <2>2, ZenonT(30)
      DEF WorkerTypeOK, WorkerStep, Advance, Seek, SkipHeld, SeeFree, ReadDeadline, NoneFree, Acquire,
          AcquireLost, Retry, StartWait, StartConnect, ConnectOk, ConnectFailed,
          RecordDisconnected, Release, Recv, Lagged, SendOk, SendErr, Closed
    <3> QED BY <1>0, <2>2, <3>1, ZenonT(30)
  <2>3. CASE UNCHANGED ready_at /\ v = w
    <3>0. pc[w] \in Holding => ready_at[slot[w]] \in Int /\ timer[w] \in Nat
      BY <1>0, SlotInRange DEF SlotTypeOK, WorkerTypeOK
    <3>1. CASE StartWait(w)
      BY <1>0, <2>3, <3>0, <3>1 DEF StartWait, WorkerTypeOK, Holding
    <3>2. CASE StartConnect(w)
      BY <1>0, <2>3, <3>0, <3>2 DEF StartConnect, WorkerTypeOK, Holding
    <3>3. CASE ConnectOk(w) \/ Recv(w) \/ Lagged(w) \/ SendOk(w)
      BY <1>0, <2>3, <3>3 DEF ConnectOk, Recv, Lagged, SendOk, WorkerTypeOK
    <3>4. CASE ~StartWait(w) /\ ~StartConnect(w) /\ ~(ConnectOk(w) \/ Recv(w) \/ Lagged(w) \/ SendOk(w))
      <4>1. pc'[w] \notin Late \cup {"wait"}
        BY <1>0, <1>1, <3>4, ZenonT(30)
        DEF WorkerTypeOK, WorkerStep, Advance, Seek, SkipHeld, SeeFree, ReadDeadline, NoneFree, Acquire,
            AcquireLost, Retry, ConnectFailed, RecordDisconnected, Release, SendErr, Closed
      <4> QED BY <2>3, <4>1, ZenonT(30)
    <3> QED BY <3>1, <3>2, <3>3, <3>4, ZenonT(30)
  <2> QED BY <2>1, <2>2, <2>3
<1>2. CASE Tick
  <2>1. pc[v] \in Holding => slot[v] \in Relayers
    BY <1>0, SlotInRange
  <2> QED BY <1>0, <1>2, <2>1, SMTT(30) DEF Tick, SlotTypeOK, WorkerTypeOK, Holding
<1>3. CASE (\E r \in Relayers : Flip(r)) \/ Broadcast \/ UNCHANGED vars
  BY <1>0, <1>3, ZenonT(30) DEF Flip, Broadcast, vars
<1> QED BY <1>1, <1>2, <1>3 DEF Next

\* A scan stays inside the pool, and a receiver at most one past the last transaction.
LEMMA InBoundsStep ==
    ASSUME IndInv, [Next]_vars PROVE InBounds'
<1>0. WorkerTypeOK /\ EnvTypeOK /\ InBounds
  BY DEF IndInv, TypeOK
<1> SUFFICES ASSUME NEW v \in Workers
             PROVE  (pc'[v] = "read" => index'[v] <= NumRelayers) /\ next'[v] <= sent' + 1
  BY ZenonT(30) DEF InBounds
<1>1. next'[v] <= sent' + 1
  <2>1. ASSUME NEW w \in Workers, Recv(w) PROVE next'[v] <= sent' + 1
    BY <1>0, <2>1 DEF Recv, WorkerTypeOK, EnvTypeOK, InBounds
  <2>2. ASSUME NEW w \in Workers, Lagged(w) PROVE next'[v] <= sent' + 1
    BY <1>0, <2>2 DEF Lagged, Oldest, WorkerTypeOK, EnvTypeOK, InBounds
  <2>3. CASE Broadcast
    BY <1>0, <2>3 DEF Broadcast, WorkerTypeOK, EnvTypeOK, InBounds
  <2>4. CASE UNCHANGED <<next, sent>>
    BY <1>0, <2>4 DEF InBounds
  <2> QED
    BY <2>1, <2>2, <2>3, <2>4, ZenonT(30)
    DEF Next, vars, WorkerStep, Advance, Seek, SkipHeld, SeeFree, ReadDeadline, NoneFree, Acquire,
        AcquireLost, Retry, StartWait, StartConnect, ConnectOk, ConnectFailed,
        RecordDisconnected, Release, SendOk, SendErr, Closed, Flip, Tick
<1>2. pc'[v] = "read" => index'[v] <= NumRelayers
  <2>1. ASSUME NEW w \in Workers, SeeFree(w) PROVE pc'[v] = "read" => index'[v] <= NumRelayers
    BY <1>0, <2>1, ZenonT(30) DEF SeeFree, WorkerTypeOK, InBounds
  <2>2. ASSUME NEW w \in Workers, WorkerStep(w), ~SeeFree(w), pc'[v] = "read"
        PROVE  pc[v] = "read" /\ index'[v] = index[v]
    <3>1. CASE SkipHeld(w) \/ ReadDeadline(w)
      BY <1>0, <2>2, <3>1 DEF WorkerTypeOK, SkipHeld, ReadDeadline
    <3>2. CASE NoneFree(w) \/ Acquire(w) \/ AcquireLost(w)
      BY <1>0, <2>2, <3>2 DEF WorkerTypeOK, NoneFree, Acquire, AcquireLost, ResetScan
    <3>3. CASE Retry(w) \/ StartWait(w) \/ StartConnect(w) \/ ConnectOk(w)
      BY <1>0, <2>2, <3>3 DEF WorkerTypeOK, scanVars, Retry, StartWait, StartConnect, ConnectOk
    <3>4. CASE ConnectFailed(w) \/ RecordDisconnected(w) \/ Release(w)
      BY <1>0, <2>2, <3>4 DEF WorkerTypeOK, scanVars, ConnectFailed, RecordDisconnected, Release
    <3>5. CASE Recv(w) \/ Lagged(w) \/ SendOk(w) \/ SendErr(w) \/ Closed(w)
      BY <1>0, <2>2, <3>5 DEF WorkerTypeOK, scanVars, Recv, Lagged, SendOk, SendErr, Closed
    <3> QED BY <2>2, <3>1, <3>2, <3>3, <3>4, <3>5, ZenonT(30) DEF WorkerStep, Advance, Seek
  <2>3. CASE UNCHANGED <<pc, index>>
    BY <1>0, <2>3 DEF InBounds
  <2>4. (\E w \in Workers : WorkerStep(w)) \/ UNCHANGED <<pc, index>>
    BY DEF Next, vars, scanVars, Flip, Broadcast, Tick
  <2> QED BY <1>0, <2>1, <2>2, <2>3, <2>4 DEF InBounds
<1> QED BY <1>1, <1>2

\* The pool that LazerPublisher::new builds satisfies the invariant.
LEMMA IndInvInit == Init => IndInv
<1> SUFFICES ASSUME Init PROVE IndInv
  OBVIOUS
<1>1. SlotTypeOK BY DEF Init, SlotTypeOK
<1>2. WorkerTypeOK BY DEF Init, WorkerTypeOK, Computing
<1>3. EnvTypeOK
  <2>1. is_ready \in BOOLEAN BY Zenon DEF Init
  <2> QED BY <2>1 DEF Init, EnvTypeOK
<1>4. \A r \in Relayers : -Horizon <= ready_at[r] /\ 2 * ready_at[r] <= 3 * MaxBackoff
  BY DEF Init
<1>5. PermitsAccounted
  BY DEF Init, PermitsAccounted, Holding, Relayers
<1>6. OneWorkerPerRelayer /\ BackoffRespected /\ WaitCoversDeadline /\ InBounds
  BY DEF Init, OneWorkerPerRelayer, BackoffRespected, WaitCoversDeadline, InBounds, Holding
<1> QED BY <1>1, <1>2, <1>3, <1>4, <1>5, <1>6 DEF IndInv, TypeOK

\* Every step of a worker, of the environment and of time preserves the invariant.
LEMMA IndInvStep == IndInv /\ [Next]_vars => IndInv'
<1> SUFFICES ASSUME IndInv, [Next]_vars PROVE IndInv'
  OBVIOUS
<1>0. SlotTypeOK /\ WorkerTypeOK /\ EnvTypeOK /\ PermitsAccounted
  BY DEF IndInv, TypeOK
<1> QED
  BY <1>0, SlotTypeStep, WorkerTypeStep, EnvTypeStep, DeadlineBoundsStep, HoldersStep,
     WaitStep, InBoundsStep
  DEF IndInv, TypeOK

\* The invariant of the pool holds in every reachable state.
THEOREM PoolInvariant == Spec => []IndInv
  BY IndInvInit, IndInvStep, PTL DEF Spec

\* Every variable of the pool keeps its type; deadlines stay bounded.
THEOREM TypeCorrect == Spec => []TypeOK
<1>1. IndInv => TypeOK BY DEF IndInv
<1> QED BY <1>1, PoolInvariant, PTL

\* RelayerSlot's promise: at most one worker uses a relayer at a time, for any
\* number of relayers and workers and any interleaving of scans and acquires.
THEOREM MutualExclusion == Spec => []OneWorkerPerRelayer
<1>1. IndInv => OneWorkerPerRelayer BY DEF IndInv
<1> QED BY <1>1, PoolInvariant, PTL

\* No path through run() leaks a permit or hands one out twice.
THEOREM NoPermitLeak == Spec => []PermitsAccounted
<1>1. IndInv => PermitsAccounted BY DEF IndInv
<1> QED BY <1>1, PoolInvariant, PTL

\* No attempt starts before the slot's backoff deadline.
THEOREM AttemptsRespectBackoff == Spec => []BackoffRespected
<1>1. IndInv => BackoffRespected BY DEF IndInv
<1> QED BY <1>1, PoolInvariant, PTL

\* A pigeonhole argument: with all permits out, distinct slots would be held by
\* distinct workers other than the one without a slot, which are too few.
LEMMA IndInvRelayerLeft == IndInv => RelayerLeft
<1> SUFFICES ASSUME IndInv, NEW w \in Workers, pc[w] \notin Holding,
                    \A r \in Relayers : permit[r] # 1
             PROVE  FALSE
  BY DEF RelayerLeft
<1> DEFINE Others == Workers \ {w}
           holder == [r \in Relayers |-> CHOOSE v \in Workers : slot[v] = r]
<1>0. SlotTypeOK /\ PermitsAccounted
  BY DEF IndInv, TypeOK
<1>1. IsFiniteSet(Others) /\ Cardinality(Others) = Cardinality(Workers) - 1
  BY WorkersAssumption, FS_RemoveElement DEF WorkersAssumption
<1>2. IsFiniteSet(Relayers) /\ Cardinality(Relayers) = NumRelayers
  BY FS_Interval DEF Relayers
<1>3. Cardinality(Others) < Cardinality(Relayers)
  BY <1>1, <1>2, WorkersAssumption, FS_CardinalityType DEF WorkersAssumption
<1>4. slot[w] \notin Relayers
  BY <1>0 DEF PermitsAccounted, Relayers
<1>5. ASSUME NEW r \in Relayers PROVE holder[r] \in Others /\ slot[holder[r]] = r
  <2>1. permit[r] = 0
    BY <1>0 DEF SlotTypeOK
  <2>2. \E v \in Workers : slot[v] = r
    BY <1>0, <2>1 DEF PermitsAccounted
  <2>3. holder[r] \in Workers /\ slot[holder[r]] = r
    BY <2>2
  <2> QED BY <1>4, <2>3
<1>6. holder \in [Relayers -> Others]
  BY <1>5
<1> HIDE DEF holder, Others
<1>7. \E x, y \in Relayers : x # y /\ holder[x] = holder[y]
  BY <1>1, <1>2, <1>3, <1>6, FS_PigeonHole
<1> QED BY <1>5, <1>7

\* A worker without a relayer always finds one unheld.
THEOREM NoStarvation == Spec => []RelayerLeft
  BY PoolInvariant, IndInvRelayerLeft, PTL

\* A slot's deadline moves forward and its interval changes only under the permit.
THEOREM OwnedSlotState == Spec => SlotStateOwned
<1> DEFINE A == \A r \in Relayers :
                   interval'[r] # interval[r] \/ ready_at'[r] > ready_at[r]
                       => permit[r] = 0 /\ permit'[r] = 0
<1>1. IndInv /\ [Next]_vars => [A]_vars
  <2> SUFFICES ASSUME IndInv, [Next]_vars, NEW r \in Relayers,
                      interval'[r] # interval[r] \/ ready_at'[r] > ready_at[r]
               PROVE  permit[r] = 0 /\ permit'[r] = 0
    BY ZenonT(30)
  <2>0. SlotTypeOK /\ WorkerTypeOK /\ PermitsAccounted
    BY ZenonT(30) DEF IndInv, TypeOK
  <2>1. ASSUME NEW w \in Workers, ConnectFailed(w) \/ RecordDisconnected(w)
        PROVE  permit[r] = 0 /\ permit'[r] = 0
    <3>1. pc[w] \in Holding /\ UNCHANGED permit
      BY <2>1, ZenonT(30) DEF ConnectFailed, RecordDisconnected, Holding
    <3>2. slot[w] \in Relayers /\ permit[slot[w]] = 0
      BY <2>0, <3>1, SlotInRange DEF PermitsAccounted
    <3>3. r # slot[w] => interval'[r] = interval[r] /\ ready_at'[r] = ready_at[r]
      BY <2>0, <2>1, <3>2 DEF ConnectFailed, RecordDisconnected, BackOff, SlotTypeOK
    <3> QED BY <2>0, <3>1, <3>2, <3>3, SMTT(30) DEF SlotTypeOK
  <2>2. CASE Tick
    <3>1. ready_at[r] \in Int
      BY <2>0 DEF SlotTypeOK
    <3>2. /\ interval' = interval
          /\ ready_at'[r] = IF ready_at[r] > -Horizon THEN ready_at[r] - 1 ELSE ready_at[r]
      BY <2>2 DEF Tick
    <3> QED BY <3>1, <3>2
  <2>3. CASE UNCHANGED <<interval, ready_at>>
    <3>1. ready_at[r] \in Int
      BY <2>0 DEF SlotTypeOK
    <3> QED BY <2>3, <3>1
  <2> QED
    BY <2>1, <2>2, <2>3, ZenonT(30)
    DEF Next, vars, WorkerStep, Advance, Seek, SkipHeld, SeeFree, ReadDeadline, NoneFree, Acquire,
        AcquireLost, Retry, StartWait, StartConnect, ConnectOk, Release,
        Recv, Lagged, SendOk, SendErr, Closed, Flip, Broadcast
<1> QED BY <1>1, PoolInvariant, PTL DEF Spec, SlotStateOwned

\* A relayer is one worker's from try_acquire to drop(permit), and its permit is
\* out exactly that long.
THEOREM SlotsKeptApart == Spec => []SlotsExclusive
  BY NoPermitLeak, MutualExclusion, PTL DEF SlotsExclusive

\* Every attempt waits for the deadline its relayer's last outcome left, and only
\* the holder of the permit moves that deadline (run, record_outcome).
THEOREM DeadlinesRespected == Spec => DeadlinesKept
  BY AttemptsRespectBackoff, OwnedSlotState, PTL DEF DeadlinesKept

\* A receiver moves forward only, and skips only what the channel overwrote.
THEOREM OrderedReceivers == Spec => ReceiverOrder
<1> DEFINE A == \A w \in Workers : next'[w] # next[w] =>
                   /\ pc[w] = "connected"
                   /\ next[w] < next'[w] /\ next'[w] <= sent + 1
                   /\ next'[w] = next[w] + 1 \/ next'[w] = sent - ChannelCapacity + 1
<1>1. IndInv /\ [Next]_vars => [A]_vars
  <2> SUFFICES ASSUME IndInv, [Next]_vars PROVE A
    OBVIOUS
  <2>0. WorkerTypeOK /\ EnvTypeOK
    BY DEF IndInv, TypeOK
  <2>1. ASSUME NEW w \in Workers, Recv(w) PROVE A
    BY <2>0, <2>1 DEF Recv, WorkerTypeOK, EnvTypeOK
  <2>2. ASSUME NEW w \in Workers, Lagged(w) PROVE A
    BY <2>0, <2>2 DEF Lagged, Oldest, WorkerTypeOK, EnvTypeOK
  <2>3. CASE UNCHANGED next
    BY <2>3
  <2> QED
    BY <2>1, <2>2, <2>3, ZenonT(30)
    DEF Next, vars, WorkerStep, Advance, Seek, SkipHeld, SeeFree, ReadDeadline, NoneFree, Acquire,
        AcquireLost, Retry, StartWait, StartConnect, ConnectOk, ConnectFailed,
        RecordDisconnected, Release, SendOk, SendErr, Closed, Flip, Broadcast, Tick
<1> QED BY <1>1, PoolInvariant, PTL DEF Spec, ReceiverOrder
=============================================================================
