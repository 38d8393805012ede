------------------------- MODULE StreamClientProofs -------------------------
(***************************************************************************)
(* The connections of the Rust client and the client over them, for any    *)
(* number of connections, ids, responses and requests: the types, that a   *)
(* connection that serves again has the subscriptions asked for, that a    *)
(* call fails only after the receiver was dropped, and that a response     *)
(* that several connections receive is delivered once.                     *)
(***************************************************************************)
EXTENDS StreamClient, TLAPS

\* The leaves are for Zenon, except those that name another prover.
USE ZenonT(30)

-----------------------------------------------------------------------------
(* The request channel: each subscribe in it is for an id that is absent by *)
(* the time it is handled                                                   *)

Subscribes(r, id) == r.method = "subscribe" /\ r.id = id
Unsubscribes(r, id) == r.method = "unsubscribe" /\ r.id = id

\* After the first k requests of q, made on the ids w, id is absent: what
\* brought it in was followed by an unsubscribe.
Absent(q, w, id, k) ==
    /\ id \in w => \E i \in 1..k : Unsubscribes(q[i], id)
    /\ \A j \in 1..k : Subscribes(q[j], id) => \E i \in (j + 1)..k : Unsubscribes(q[i], id)

\* The requests q lead from the ids w to the ids a, without reuse of an id.
QueueOK(q, w, a) ==
    /\ \A k \in 1..Len(q) : \A id \in Ids : Subscribes(q[k], id) => Absent(q, w, id, k - 1)
    /\ \A id \in Ids : id \notin a => Absent(q, w, id, Len(q))

\* A request has one of two methods.
LEMMA RequestFields ==
    \A r \in Requests : r.id \in Ids /\ r.method \in {"subscribe", "unsubscribe"}
  BY DEF Requests

\* Asking for an id that is not in use keeps the channel in order.
LEMMA QueueAsk ==
    ASSUME NEW R, NEW q \in Seq(R), NEW w, NEW a, QueueOK(q, w, a), NEW r \in R,
           r.id \in Ids, r.method \in {"subscribe", "unsubscribe"},
           r.method = "subscribe" => r.id \notin a
    PROVE  QueueOK(Append(q, r), w, After(a, r))
<1> DEFINE n == Len(q)
           new == Append(q, r)
<1>1. n \in Nat /\ Len(new) = n + 1 /\ new[n + 1] = r /\ \A i \in 1..n : new[i] = q[i]
  BY SMT
<1> HIDE DEF n, new
<1>2. ASSUME NEW id, NEW k \in 0..n, Absent(q, w, id, k) PROVE Absent(new, w, id, k)
  BY <1>1, <1>2, SMT DEF Absent
<1>3. ASSUME NEW k \in 1..(n + 1), NEW id \in Ids, Subscribes(new[k], id)
      PROVE  Absent(new, w, id, k - 1)
  <2>1. CASE k \in 1..n
    BY <1>1, <1>2, <1>3, <2>1, SMT DEF QueueOK, n
  <2>2. CASE k = n + 1
    <3>1. r.method = "subscribe" /\ r.id = id
      BY <1>1, <1>3, <2>2 DEF Subscribes
    <3>2. Absent(q, w, id, n)
      BY <3>1 DEF QueueOK, n
    <3> QED
      BY <1>1, <1>2, <2>2, <3>2, SMT
  <2> QED
    BY <1>1, <2>1, <2>2, SMT
<1>4. ASSUME NEW id \in Ids, id \notin After(a, r) PROVE Absent(new, w, id, n + 1)
  <2>1. CASE Unsubscribes(r, id)
    BY <1>1, <2>1, SMT DEF Absent, Subscribes, Unsubscribes
  <2>2. CASE ~Unsubscribes(r, id)
    <3>1. id \notin a /\ ~Subscribes(r, id)
      BY <1>4, <2>2 DEF After, Subscribes, Unsubscribes
    <3>2. Absent(new, w, id, n)
      BY <1>1, <1>2, <3>1, SMT DEF QueueOK, n
    <3> QED
      BY <1>1, <3>1, <3>2, SMT DEF Absent
  <2> QED
    BY <2>1, <2>2
<1> QED
  BY <1>1, <1>3, <1>4 DEF QueueOK, new

\* Taking a request moves its effect to the ids, and a subscribe that is taken
\* is for an id that is not among them.
LEMMA QueueTake ==
    ASSUME NEW R, NEW q \in Seq(R), q # <<>>, NEW w, NEW a, QueueOK(q, w, a),
           Head(q).id \in Ids, Head(q).method \in {"subscribe", "unsubscribe"}
    PROVE  /\ QueueOK(Tail(q), After(w, Head(q)), a)
           /\ Head(q).method = "subscribe" => Head(q).id \notin w
<1> DEFINE n == Len(q)
           r == Head(q)
           new == Tail(q)
           v == After(w, r)
<1>1. n \in Nat \ {0} /\ Len(new) = n - 1 /\ q[1] = r /\ \A i \in 1..(n - 1) : new[i] = q[i + 1]
  BY SMT
<1> HIDE DEF n, new
<1>2. ASSUME NEW id \in Ids, NEW k \in 1..n, Absent(q, w, id, k) PROVE Absent(new, v, id, k - 1)
  <2>1. \A i \in 2..k : i - 1 \in 1..(k - 1) /\ new[i - 1] = q[i]
    BY <1>1, SMT
  <2>2. ASSUME id \in v PROVE \E i \in 1..(k - 1) : Unsubscribes(new[i], id)
    <3>1. CASE Subscribes(r, id)
      <4>1. PICK i \in 2..k : Unsubscribes(q[i], id)
        BY <1>1, <1>2, <3>1, SMT DEF Absent
      <4> QED
        BY <2>1, <4>1
    <3>2. CASE ~Subscribes(r, id)
      <4>1. id \in w /\ ~Unsubscribes(r, id)
        BY <2>2, <3>2 DEF After, Subscribes, Unsubscribes
      <4>2. PICK i \in 1..k : Unsubscribes(q[i], id)
        BY <1>2, <4>1 DEF Absent
      <4>3. i \in 2..k
        BY <1>1, <4>1, <4>2, SMT
      <4> QED
        BY <2>1, <4>2, <4>3
    <3> QED
      BY <3>1, <3>2
  <2>3. ASSUME NEW j \in 1..(k - 1), Subscribes(new[j], id)
        PROVE  \E i \in (j + 1)..(k - 1) : Unsubscribes(new[i], id)
    <3>1. j + 1 \in 1..k /\ Subscribes(q[j + 1], id)
      BY <1>1, <2>3, SMT
    <3>2. PICK i \in (j + 2)..k : Unsubscribes(q[i], id)
      BY <1>2, <3>1, SMT DEF Absent
    <3>3. i - 1 \in (j + 1)..(k - 1) /\ new[i - 1] = q[i]
      BY <1>1, <2>1, <3>2, SMT
    <3> QED
      BY <3>2, <3>3
  <2> HIDE DEF v
  <2> QED
    BY <2>2, <2>3 DEF Absent
<1>3. ASSUME NEW k \in 1..(n - 1), NEW id \in Ids, Subscribes(new[k], id)
      PROVE  Absent(new, v, id, k - 1)
  <2>1. k + 1 \in 1..n /\ Subscribes(q[k + 1], id) /\ (k + 1) - 1 = k /\ k \in 1..n
    BY <1>1, <1>3, SMT
  <2>2. Absent(q, w, id, k)
    BY <2>1 DEF QueueOK, n
  <2> QED
    BY <1>2, <2>1, <2>2
<1>4. ASSUME NEW id \in Ids, id \notin a PROVE Absent(new, v, id, n - 1)
  <2>1. Absent(q, w, id, n)
    BY <1>4 DEF QueueOK, n
  <2> QED
    BY <1>1, <1>2, <2>1, SMT
<1>5. ASSUME r.method = "subscribe" PROVE r.id \notin w
  <2>1. Subscribes(q[1], r.id) /\ 1 \in 1..n
    BY <1>1, <1>5, SMT DEF Subscribes
  <2>2. Absent(q, w, r.id, 0)
    BY <2>1, SMT DEF QueueOK, n
  <2> QED
    BY <2>2, SMT DEF Absent
<1> HIDE DEF v, r
<1>6. QueueOK(new, v, a)
  BY <1>1, <1>3, <1>4 DEF QueueOK
<1> QED
  BY <1>5, <1>6 DEF v, r, new

-----------------------------------------------------------------------------
(* The list of subscriptions to replay *)

Distinct(subs) == \A i, j \in 1..Len(subs) : subs[i] = subs[j] => i = j

\* The ids of the first k subscriptions.
FirstIds(subs, k) == {subs[i] : i \in 1..k}

\* One more subscription.
LEMMA FirstIdsGrow ==
    ASSUME NEW subs, NEW k \in Nat
    PROVE  FirstIds(subs, k + 1) = FirstIds(subs, k) \cup {subs[k + 1]}
  BY SMT DEF FirstIds

\* push: a new id at the end.
LEMMA PushId ==
    ASSUME NEW S, NEW subs \in Seq(S), Distinct(subs), NEW id \in S,
           id \notin FirstIds(subs, Len(subs))
    PROVE  /\ Distinct(Append(subs, id))
           /\ FirstIds(Append(subs, id), Len(subs) + 1) = FirstIds(subs, Len(subs)) \cup {id}
<1> DEFINE n == Len(subs)
           new == Append(subs, id)
<1>1. n \in Nat /\ Len(new) = n + 1 /\ new[n + 1] = id /\ \A i \in 1..n : new[i] = subs[i]
  BY SMT
<1> HIDE DEF n, new
<1>2. \A i \in 1..n : subs[i] # id
  BY DEF FirstIds, n
<1>3. \A i, j \in 1..n : subs[i] = subs[j] => i = j
  BY DEF Distinct, n
<1>4. Distinct(new)
  BY <1>1, <1>2, <1>3, SMT DEF Distinct
<1>5. \A x : x \in FirstIds(new, n + 1) <=> x = id \/ \E i \in 1..n : x = subs[i]
  BY <1>1, SMT DEF FirstIds
<1>6. FirstIds(new, n + 1) = FirstIds(subs, n) \cup {id}
  BY <1>5 DEF FirstIds
<1> QED
  BY <1>4, <1>6 DEF n, new

\* The list without its entry at index.
Without(subs, index) ==
    [i \in 1..(Len(subs) - 1) |-> IF i < index THEN subs[i] ELSE subs[i + 1]]

\* remove: the entries behind move up.
LEMMA RemoveId ==
    ASSUME NEW S, NEW subs \in Seq(S), Distinct(subs), NEW p \in 1..Len(subs)
    PROVE  /\ Without(subs, p) \in Seq(S)
           /\ Len(Without(subs, p)) = Len(subs) - 1
           /\ Distinct(Without(subs, p))
           /\ FirstIds(Without(subs, p), Len(subs) - 1) = FirstIds(subs, Len(subs)) \ {subs[p]}
<1> DEFINE n == Len(subs)
           new == Without(subs, p)
<1>1. n \in Nat /\ n - 1 \in Nat /\ \A i \in 1..n : subs[i] \in S
  BY SMT
<1>2. new \in [1..(n - 1) -> S]
  BY <1>1, SMT DEF Without
<1>3. new \in Seq(S) /\ Len(new) = n - 1
  <2> HIDE DEF new, n
  <2> QED
    BY <1>1, <1>2, SMT
<1>4. \A i \in 1..(n - 1) : new[i] = IF i < p THEN subs[i] ELSE subs[i + 1]
  BY DEF Without
<1>5. \A i, j \in 1..n : subs[i] = subs[j] => i = j
  BY DEF Distinct
<1>6. p \in 1..n
  OBVIOUS
<1> HIDE DEF n, new
<1>7. \A i, j \in 1..(n - 1) : new[i] = new[j] => i = j
  BY <1>1, <1>4, <1>5, <1>6, SMT
<1>8. \A i \in 1..(n - 1) : \E j \in 1..n : j # p /\ new[i] = subs[j]
  BY <1>1, <1>4, <1>6, SMT
<1>9. ASSUME NEW j \in 1..n, j # p PROVE \E i \in 1..(n - 1) : new[i] = subs[j]
  <2>1. CASE j < p
    BY <1>1, <1>4, <1>6, <2>1, SMT
  <2>2. CASE j > p
    <3>1. j - 1 \in 1..(n - 1) /\ ~(j - 1 < p) /\ (j - 1) + 1 = j
      BY <1>1, <1>6, <2>2, SMT
    <3> QED
      BY <1>4, <3>1
  <2> QED
    BY <1>1, <1>6, <1>9, <2>1, <2>2, SMT
<1>10. FirstIds(new, n - 1) = FirstIds(subs, n) \ {subs[p]}
  BY <1>5, <1>6, <1>8, <1>9, SMT DEF FirstIds
<1>11. Distinct(new)
  BY <1>3, <1>7 DEF Distinct
<1> QED
  BY <1>3, <1>10, <1>11 DEF n, new

\* Recording a request keeps the list free of duplicates and its ids those the
\* requests add up to.
LEMMA RecordRequest ==
    ASSUME NEW subs \in Seq(Ids), Distinct(subs), NEW r \in Requests,
           r.method = "subscribe" => r.id \notin FirstIds(subs, Len(subs)),
           NEW new, new = PushOrRemove(subs, r)
    PROVE  /\ new \in Seq(Ids) /\ Distinct(new)
           /\ FirstIds(new, Len(new)) = After(FirstIds(subs, Len(subs)), r)
<1>1. r.id \in Ids /\ r.method \in {"subscribe", "unsubscribe"}
  BY RequestFields
<1>2. DOMAIN subs = 1..Len(subs) /\ Len(subs) \in Nat
  BY SMT
<1> DEFINE at == {i \in DOMAIN subs : subs[i] = r.id}
           index == CHOOSE i \in at : \A j \in at : i <= j
<1>3. CASE r.method = "subscribe"
  <2>1. new = Append(subs, r.id)
    BY <1>3 DEF PushOrRemove
  <2>2. Len(new) = Len(subs) + 1 /\ new \in Seq(Ids)
    BY <1>1, <2>1, SMT
  <2> QED
    BY <1>1, <1>3, <2>1, <2>2, PushId, SMT DEF After
<1>4. CASE r.method = "unsubscribe" /\ at = {}
  <2>1. new = subs
    BY <1>4 DEF PushOrRemove
  <2>2. r.id \notin FirstIds(subs, Len(subs))
    BY <1>2, <1>4 DEF FirstIds
  <2> QED
    BY <1>4, <2>1, <2>2 DEF After
<1>5. CASE r.method = "unsubscribe" /\ at # {}
  <2>1. PICK p \in at : TRUE
    BY <1>5
  <2>2. p \in 1..Len(subs) /\ subs[p] = r.id
    BY <1>2, <2>1
  <2>3. \A j \in at : j = p
    BY <1>2, <2>2 DEF Distinct
  <2>4. index = p
    <3>1. \A j \in at : p <= j
      BY <2>2, <2>3, SMT
    <3> HIDE DEF at
    <3> QED
      BY <2>1, <2>3, <3>1
  <2>5. new = Without(subs, index)
    BY <1>5 DEF PushOrRemove, Without
  <2> HIDE DEF at, index
  <2>6. new = Without(subs, p)
    BY <2>4, <2>5
  <2>7. /\ Without(subs, p) \in Seq(Ids) /\ Len(Without(subs, p)) = Len(subs) - 1
        /\ Distinct(Without(subs, p))
        /\ FirstIds(Without(subs, p), Len(subs) - 1) = FirstIds(subs, Len(subs)) \ {subs[p]}
    BY <2>2, RemoveId
  <2>8. After(FirstIds(subs, Len(subs)), r) = FirstIds(subs, Len(subs)) \ {subs[p]}
    BY <1>5, <2>2 DEF After
  <2> QED
    BY <2>6, <2>7, <2>8
<1> QED
  BY <1>1, <1>3, <1>4, <1>5

-----------------------------------------------------------------------------
(* The inductive invariant *)

Pcs == {"run", "connect", "replay", "select", "forward", "sleep", "done"}

Shape ==
    /\ pc \in [Conns -> Pcs]
    /\ requests \in [Conns -> Seq(Requests)]
    /\ subscriptions \in [Conns -> Seq(Ids)]
    /\ replayed \in [Conns -> Nat]
    /\ server \in [Conns -> SUBSET Ids]
    /\ want \in [Conns -> SUBSET Ids]
    /\ asked \in [Conns -> SUBSET Ids]

\* The list to replay is free of duplicates and stands for the ids wanted.
ListOK(subs, w) == Distinct(subs) /\ FirstIds(subs, Len(subs)) = w

\* What the server has of it: everything when the connection serves, what was
\* replayed while it replays, nothing on no socket.
SocketOK(p, subs, k, srv, w) ==
    /\ p \in {"select", "forward"} => srv = w /\ k = 0
    /\ p = "replay" => k <= Len(subs) /\ srv = FirstIds(subs, k)
    /\ p \in {"run", "connect", "sleep", "done"} => srv = {} /\ k = 0

ConnOK(c) ==
    /\ QueueOK(requests[c], want[c], asked[c])
    /\ ListOK(subscriptions[c], want[c])
    /\ SocketOK(pc[c], subscriptions[c], replayed[c], server[c], want[c])

IInv == Shape /\ \A c \in Conns : ConnOK(c)

\* A step that does not concern connection d.
Same(d) ==
    /\ pc'[d] = pc[d] /\ requests'[d] = requests[d] /\ subscriptions'[d] = subscriptions[d]
    /\ replayed'[d] = replayed[d] /\ server'[d] = server[d]
    /\ want'[d] = want[d] /\ asked'[d] = asked[d]

AbstractStep(c) == Abstract(c)!Next \/ UNCHANGED Abstract(c)!vars

\* What a step of the system has to show of each connection.
StepOK(c) == ConnOK(c)' /\ AbstractStep(c)

\* Nothing is asked for, recorded or served at first.
LEMMA InitIInv == WsInit => IInv
<1> SUFFICES ASSUME WsInit PROVE IInv
  OBVIOUS
<1>1. Shape
  BY SMT DEF WsInit, Shape, Pcs
<1>2. ASSUME NEW c \in Conns PROVE ConnOK(c)
  <2>1. /\ requests[c] = <<>> /\ subscriptions[c] = <<>> /\ want[c] = {} /\ asked[c] = {}
        /\ pc[c] = "run" /\ replayed[c] = 0 /\ server[c] = {}
    BY DEF WsInit
  <2>2. QueueOK(<<>>, {}, {}) /\ ListOK(<<>>, {})
    BY SMT DEF QueueOK, Absent, ListOK, Distinct, FirstIds
  <2> QED
    BY <2>1, <2>2 DEF ConnOK, SocketOK
<1> QED
  BY <1>1, <1>2 DEF IInv

\* A step that does not concern a connection.
LEMMA SameOK ==
    ASSUME NEW d, ConnOK(d), Same(d)
    PROVE  StepOK(d)
<1>1. ConnOK(d)'
  BY DEF ConnOK, Same
<1>2. UNCHANGED Abstract(d)!vars
  BY DEF Same, Abstract!vars, Up
<1> QED
  BY <1>1, <1>2 DEF StepOK, AbstractStep

\* A step between places where the connection is down, or between places where
\* it serves, that changes nothing else.
LEMMA MoveOK ==
    ASSUME NEW c, ConnOK(c), pc[c] \in Pcs,
           \/ pc[c] \in {"run", "connect", "sleep", "done"} /\ pc'[c] \in {"run", "connect", "sleep", "done"}
           \/ pc[c] \in {"select", "forward"} /\ pc'[c] \in {"select", "forward"},
           requests'[c] = requests[c], subscriptions'[c] = subscriptions[c],
           replayed'[c] = replayed[c], server'[c] = server[c],
           want'[c] = want[c], asked'[c] = asked[c]
    PROVE  StepOK(c)
<1>1. ConnOK(c)'
  BY DEF ConnOK, SocketOK
<1>2. Up(c) <=> Up(c)'
  BY DEF Up
<1>3. UNCHANGED Abstract(c)!vars
  BY <1>2, SMT DEF Abstract!vars, Up
<1> QED
  BY <1>1, <1>3 DEF StepOK, AbstractStep

\* The socket is lost: a connection that served is down, one that did not stays
\* down.
LEMMA LoseOK ==
    ASSUME NEW c, ConnOK(c), pc[c] \in Pcs, pc'[c] \in {"sleep", "done"},
           requests'[c] = requests[c], subscriptions'[c] = subscriptions[c],
           replayed'[c] = 0, server'[c] = {}, want'[c] = want[c], asked'[c] = asked[c]
    PROVE  StepOK(c)
<1>1. ConnOK(c)'
  BY DEF ConnOK, SocketOK
<1>2. ~Up(c)'
  BY DEF Up
<1>3. CASE Up(c)
  <2>1. Abstract(c)!Lose
    BY <1>2, <1>3, SMT DEF Abstract!Lose
  <2> QED
    BY <1>1, <2>1 DEF StepOK, AbstractStep, Abstract!Next
<1>4. CASE ~Up(c)
  <2>1. UNCHANGED Abstract(c)!vars
    BY <1>2, <1>4, SMT DEF Abstract!vars, Up
  <2> QED
    BY <1>1, <2>1 DEF StepOK, AbstractStep
<1> QED
  BY <1>3, <1>4

\* A subscription is replayed, or all of them have been and the connection
\* serves: it is restored.
LEMMA ReplayOK ==
    ASSUME Shape, NEW c \in Conns, ConnOK(c), Replay(c)
    PROVE  StepOK(c)
<1>1. /\ pc[c] = "replay" /\ replayed[c] \in Nat /\ subscriptions[c] \in Seq(Ids)
      /\ replayed[c] <= Len(subscriptions[c])
      /\ server[c] = FirstIds(subscriptions[c], replayed[c])
      /\ FirstIds(subscriptions[c], Len(subscriptions[c])) = want[c]
  BY DEF Shape, ConnOK, SocketOK, ListOK, Replay
<1>2. /\ requests'[c] = requests[c] /\ subscriptions'[c] = subscriptions[c]
      /\ want'[c] = want[c] /\ asked'[c] = asked[c]
  BY DEF Replay, Channels
<1>3. CASE replayed[c] < Len(subscriptions[c])
  <2>1. /\ server'[c] = server[c] \cup {subscriptions[c][replayed[c] + 1]}
        /\ replayed'[c] = replayed[c] + 1 /\ pc'[c] = pc[c]
    BY <1>3 DEF Replay, Shape
  <2>2. FirstIds(subscriptions[c], replayed[c] + 1)
            = FirstIds(subscriptions[c], replayed[c]) \cup {subscriptions[c][replayed[c] + 1]}
    BY <1>1, <1>3, FirstIdsGrow
  <2>3. ConnOK(c)'
    <3>1. /\ pc'[c] = "replay" /\ replayed'[c] <= Len(subscriptions'[c])
          /\ server'[c] = FirstIds(subscriptions'[c], replayed'[c])
      BY <1>1, <1>2, <1>3, <2>1, <2>2, SMT
    <3> QED
      BY <1>2, <3>1 DEF ConnOK, SocketOK
  <2>4. UNCHANGED Abstract(c)!vars
    BY <1>1, <1>2, <2>1 DEF Abstract!vars, Up
  <2> QED
    BY <2>3, <2>4 DEF StepOK, AbstractStep
<1>4. CASE ~(replayed[c] < Len(subscriptions[c]))
  <2>1. pc'[c] = "select" /\ replayed'[c] = 0 /\ server'[c] = server[c]
    BY <1>4 DEF Replay, Shape
  <2>2. replayed[c] = Len(subscriptions[c])
    BY <1>1, <1>4, SMT
  <2>3. server'[c] = want[c]
    BY <1>1, <2>1, <2>2
  <2>4. ConnOK(c)'
    BY <1>2, <2>1, <2>3 DEF ConnOK, SocketOK
  <2>5. Abstract(c)!Restore
    BY <1>1, <1>2, <2>1, <2>3 DEF Abstract!Restore, Up
  <2> QED
    BY <2>4, <2>5 DEF StepOK, AbstractStep, Abstract!Next
<1> QED
  BY <1>3, <1>4

\* A request is recorded and sent, or the socket is lost with it.
LEMMA RequestOK ==
    ASSUME Shape, NEW c \in Conns, ConnOK(c), HandleRequest(c)
    PROVE  StepOK(c)
<1> DEFINE r == Head(requests[c])
<1>1. /\ pc[c] = "select" /\ requests[c] \in Seq(Requests) /\ requests[c] # <<>>
      /\ subscriptions[c] \in Seq(Ids) /\ server[c] = want[c] /\ replayed[c] = 0
      /\ QueueOK(requests[c], want[c], asked[c]) /\ Distinct(subscriptions[c])
      /\ FirstIds(subscriptions[c], Len(subscriptions[c])) = want[c]
  BY DEF Shape, ConnOK, SocketOK, ListOK, HandleRequest
<1>2. r \in Requests /\ r.id \in Ids /\ r.method \in {"subscribe", "unsubscribe"}
  <2>1. r \in Requests
    BY <1>1, SMT
  <2> QED
    BY <2>1, RequestFields
<1>3. /\ subscriptions'[c] = PushOrRemove(subscriptions[c], r)
      /\ want'[c] = After(want[c], r)
      /\ requests'[c] = Tail(requests[c]) /\ asked'[c] = asked[c]
  BY DEF HandleRequest, Shape
<1>4. /\ QueueOK(Tail(requests[c]), After(want[c], r), asked[c])
      /\ r.method = "subscribe" => r.id \notin want[c]
  BY <1>1, <1>2, QueueTake
<1>5. /\ Distinct(PushOrRemove(subscriptions[c], r))
      /\ FirstIds(PushOrRemove(subscriptions[c], r), Len(PushOrRemove(subscriptions[c], r)))
            = After(want[c], r)
  <2> HIDE DEF r
  <2> QED
    BY <1>1, <1>2, <1>4, RecordRequest
<1> HIDE DEF r
<1>6. QueueOK(requests'[c], want'[c], asked'[c]) /\ ListOK(subscriptions'[c], want'[c])
  BY <1>3, <1>4, <1>5 DEF ListOK
<1>7. \/ server'[c] = After(server[c], r) /\ pc'[c] = pc[c] /\ replayed'[c] = replayed[c]
      \/ server'[c] = {} /\ pc'[c] \in {"sleep", "done"} /\ replayed'[c] = 0
  BY DEF HandleRequest, Failed, Shape, r
<1>8. ConnOK(c)'
  BY <1>1, <1>3, <1>6, <1>7 DEF ConnOK, SocketOK
<1>9. Abstract(c)!Change(After(want[c], r))
  <2>1. CASE server'[c] = After(server[c], r) /\ pc'[c] = pc[c]
    BY <1>1, <1>3, <2>1 DEF Abstract!Change, Up
  <2>2. CASE server'[c] = {} /\ pc'[c] \in {"sleep", "done"}
    BY <1>1, <1>3, <2>2, SMT DEF Abstract!Change, Up
  <2> QED
    BY <1>7, <2>1, <2>2
<1>10. PICK id \in Ids : id = r.id
  BY <1>2
<1>11. Abstract(c)!Subscribe(id) \/ Abstract(c)!Unsubscribe(id)
  <2>1. CASE r.method = "subscribe"
    <3>1. After(want[c], r) = want[c] \cup {id}
      BY <1>10, <2>1 DEF After
    <3> QED
      BY <1>9, <3>1 DEF Abstract!Subscribe, Abstract!Change
  <2>2. CASE r.method = "unsubscribe"
    <3>1. After(want[c], r) = want[c] \ {id}
      BY <1>10, <2>2 DEF After
    <3> QED
      BY <1>9, <3>1 DEF Abstract!Unsubscribe, Abstract!Change
  <2> QED
    BY <1>2, <2>1, <2>2
<1>12. Abstract(c)!Next
  BY <1>11 DEF Abstract!Next
<1> QED
  BY <1>8, <1>12 DEF StepOK, AbstractStep

-----------------------------------------------------------------------------
(* The steps of the system *)

\* What a step of one connection has to show: the types, that connection, and
\* that it leaves the others alone.
StepOf(c) == Shape' /\ StepOK(c) /\ \A d \in Conns : d # c => Same(d)

\* All failures of start end in the same way.
Fails(c) == Failed(c) /\ UNCHANGED <<subscriptions, want, Channels>>

\* Whatever fails, the socket is lost and the list to replay stays.
LEMMA FailsStep ==
    ASSUME IInv, NEW c \in Conns, Fails(c)
    PROVE  StepOf(c)
<1> USE DEF IInv, Channels
<1>1. /\ pc' = [pc EXCEPT ![c] = IF closed THEN "done" ELSE "sleep"]
      /\ server' = [server EXCEPT ![c] = {}]
      /\ replayed' = [replayed EXCEPT ![c] = 0]
      /\ UNCHANGED <<requests, subscriptions, want, asked>>
  BY DEF Fails, Failed
<1>2. Shape'
  BY <1>1 DEF Shape, Pcs
<1>3. \A d \in Conns : d # c => Same(d)
  BY <1>1 DEF Shape, Same
<1>4. StepOK(c)
  <2>1. /\ pc[c] \in Pcs /\ pc'[c] \in {"sleep", "done"} /\ server'[c] = {} /\ replayed'[c] = 0
        /\ requests'[c] = requests[c] /\ subscriptions'[c] = subscriptions[c]
        /\ want'[c] = want[c] /\ asked'[c] = asked[c]
    BY <1>1 DEF Shape
  <2> QED
    BY <2>1, LoseOK
<1> QED
  BY <1>2, <1>3, <1>4 DEF StepOf

\* Steps that change only where the task is.
LEMMA MoveStep ==
    ASSUME IInv, NEW c \in Conns,
           \/ Run(c) \/ SleepEnds(c) \/ Forward(c) \/ \E m \in Msgs : Receive(c, m)
    PROVE  StepOf(c)
<1> USE DEF IInv, Channels, Socket
<1>1. PICK p \in Pcs :
          /\ pc' = [pc EXCEPT ![c] = p]
          /\ \/ pc[c] \in {"run", "sleep"} /\ p \in {"run", "connect", "done"}
             \/ pc[c] \in {"select", "forward"} /\ p \in {"select", "forward"}
  <2>1. CASE Run(c)
    BY <2>1 DEF Run, Goto, Pcs
  <2>2. CASE SleepEnds(c)
    BY <2>2 DEF SleepEnds, Goto, Pcs
  <2>3. CASE Forward(c)
    BY <2>3 DEF Forward, Goto, Pcs
  <2>4. CASE \E m \in Msgs : Receive(c, m)
    BY <2>4 DEF Receive, Goto, Pcs
  <2> QED
    BY <2>1, <2>2, <2>3, <2>4
<1>2. UNCHANGED <<requests, subscriptions, replayed, server, want, asked>>
  BY DEF Run, SleepEnds, Forward, Receive
<1>3. Shape'
  BY <1>1, <1>2 DEF Shape
<1>4. \A d \in Conns : d # c => Same(d)
  BY <1>1, <1>2 DEF Shape, Same
<1>5. StepOK(c)
  <2>1. pc'[c] = p /\ pc[c] \in Pcs
    BY <1>1 DEF Shape
  <2> QED
    BY <1>1, <1>2, <2>1, MoveOK
<1> QED
  BY <1>3, <1>4, <1>5 DEF StepOf

\* Steps that change nothing the invariant is about.
LEMMA QuietStep ==
    ASSUME IInv, NEW c \in Conns, GoSilent(c) \/ WsTick(c)
    PROVE  StepOf(c)
<1>1. UNCHANGED <<pc, requests, subscriptions, replayed, server, want, asked>>
  BY DEF GoSilent, WsTick, Channels
<1>2. Shape'
  BY <1>1 DEF IInv, Shape
<1>3. \A d \in Conns : Same(d)
  BY <1>1 DEF Same
<1> QED
  BY <1>2, <1>3, SameOK DEF StepOf, IInv

\* The socket is there, and nothing is replayed yet.
LEMMA ConnectedStep ==
    ASSUME IInv, NEW c \in Conns, Connected(c)
    PROVE  StepOf(c)
<1> USE DEF IInv, Channels, Socket
<1>1. /\ pc[c] = "connect" /\ pc' = [pc EXCEPT ![c] = "replay"]
      /\ UNCHANGED <<requests, subscriptions, replayed, server, want, asked>>
  BY DEF Connected, Goto
<1>2. Shape'
  BY <1>1 DEF Shape, Pcs
<1>3. \A d \in Conns : d # c => Same(d)
  BY <1>1 DEF Shape, Same
<1>4. pc'[c] = "replay" /\ server[c] = {} /\ replayed[c] = 0 /\ subscriptions[c] \in Seq(Ids)
  BY <1>1 DEF Shape, ConnOK, SocketOK
<1>5. ConnOK(c)'
  <2>1. FirstIds(subscriptions[c], 0) = {} /\ 0 <= Len(subscriptions[c])
    BY <1>4, SMT DEF FirstIds
  <2> QED
    BY <1>1, <1>4, <2>1 DEF ConnOK, SocketOK
<1>6. UNCHANGED Abstract(c)!vars
  BY <1>1, <1>4, SMT DEF Abstract!vars, Up
<1> QED
  BY <1>2, <1>3, <1>5, <1>6 DEF StepOf, StepOK, AbstractStep

\* The replay goes on.
LEMMA ReplayStep ==
    ASSUME IInv, NEW c \in Conns, Replay(c)
    PROVE  StepOf(c)
<1> USE DEF IInv, Channels
<1>1. UNCHANGED <<requests, subscriptions, want, asked>>
  BY DEF Replay
<1>2. \E p \in Pcs, k \in Nat, ids \in SUBSET Ids :
          /\ pc' = [pc EXCEPT ![c] = p] /\ replayed' = [replayed EXCEPT ![c] = k]
          /\ server' = [server EXCEPT ![c] = ids]
  <2>1. CASE replayed[c] < Len(subscriptions[c])
    <3>1. subscriptions[c][replayed[c] + 1] \in Ids /\ replayed[c] + 1 \in Nat /\ server[c] \subseteq Ids
      <4>1. subscriptions[c] \in Seq(Ids) /\ replayed[c] \in Nat
        BY DEF Shape
      <4> QED
        BY <2>1, <4>1, SMT DEF Shape
    <3>2. pc' = [pc EXCEPT ![c] = pc[c]] /\ pc[c] \in Pcs
      BY <2>1 DEF Replay, Shape
    <3> QED
      BY <2>1, <3>1, <3>2 DEF Replay
  <2>2. CASE ~(replayed[c] < Len(subscriptions[c]))
    <3>1. server' = [server EXCEPT ![c] = server[c]] /\ server[c] \in SUBSET Ids
      BY <2>2 DEF Replay, Shape
    <3> QED
      BY <2>2, <3>1 DEF Replay, Pcs
  <2> QED
    BY <2>1, <2>2
<1>3. Shape'
  BY <1>1, <1>2, SMT DEF Shape
<1>4. \A d \in Conns : d # c => Same(d)
  BY <1>1, <1>2 DEF Shape, Same
<1> QED
  BY <1>3, <1>4, ReplayOK DEF StepOf

\* A request is handled.
LEMMA RequestStep ==
    ASSUME IInv, NEW c \in Conns, HandleRequest(c)
    PROVE  StepOf(c)
<1> USE DEF IInv
<1> DEFINE r == Head(requests[c])
           subs == PushOrRemove(subscriptions[c], r)
<1>1. requests[c] \in Seq(Requests) /\ requests[c] # <<>> /\ subscriptions[c] \in Seq(Ids)
  BY DEF Shape, HandleRequest
<1>2. r \in Requests /\ Tail(requests[c]) \in Seq(Requests)
  BY <1>1, SMT
<1>3. subs \in Seq(Ids)
  <2>1. r.method = "subscribe" => r.id \notin FirstIds(subscriptions[c], Len(subscriptions[c]))
    <3>1. r.id \in Ids /\ r.method \in {"subscribe", "unsubscribe"}
      BY <1>2, RequestFields
    <3>2. QueueOK(requests[c], want[c], asked[c])
      BY DEF ConnOK
    <3>3. r.method = "subscribe" => r.id \notin want[c]
      BY <1>1, <3>1, <3>2, QueueTake
    <3> QED
      BY <3>3 DEF ConnOK, ListOK
  <2>2. Distinct(subscriptions[c])
    BY DEF ConnOK, ListOK
  <2> HIDE DEF r
  <2> QED
    BY <1>1, <1>2, <2>1, <2>2, RecordRequest
<1>4. \A ids \in SUBSET Ids : After(ids, r) \in SUBSET Ids
  BY <1>2, RequestFields DEF After
<1>5. /\ subscriptions' = [subscriptions EXCEPT ![c] = subs]
      /\ requests' = [requests EXCEPT ![c] = Tail(requests[c])]
      /\ want' = [want EXCEPT ![c] = After(want[c], r)]
      /\ asked' = asked
  BY DEF HandleRequest
<1>6. \E p \in Pcs, k \in Nat, ids \in SUBSET Ids :
          /\ pc' = [pc EXCEPT ![c] = p] /\ replayed' = [replayed EXCEPT ![c] = k]
          /\ server' = [server EXCEPT ![c] = ids]
  <2>1. CASE Failed(c)
    BY <2>1 DEF Failed, Pcs
  <2>2. CASE server' = [server EXCEPT ![c] = After(@, r)] /\ UNCHANGED <<pc, replayed>>
    <3>1. /\ pc' = [pc EXCEPT ![c] = pc[c]] /\ pc[c] \in Pcs
          /\ replayed' = [replayed EXCEPT ![c] = replayed[c]] /\ replayed[c] \in Nat
          /\ server[c] \in SUBSET Ids
      BY <2>2 DEF Shape
    <3> QED
      BY <1>4, <2>2, <3>1
  <2> QED
    BY <2>1, <2>2 DEF HandleRequest
<1> HIDE DEF r, subs
<1>7. Shape'
  <2>1. want[c] \in SUBSET Ids
    BY DEF Shape
  <2>2. requests' \in [Conns -> Seq(Requests)]
    BY <1>2, <1>5 DEF Shape
  <2>3. subscriptions' \in [Conns -> Seq(Ids)]
    BY <1>3, <1>5 DEF Shape
  <2>4. want' \in [Conns -> SUBSET Ids] /\ asked' \in [Conns -> SUBSET Ids]
    BY <1>4, <1>5, <2>1 DEF Shape
  <2>5. /\ pc' \in [Conns -> Pcs] /\ replayed' \in [Conns -> Nat]
        /\ server' \in [Conns -> SUBSET Ids]
    BY <1>6, SMT DEF Shape
  <2> QED
    BY <2>2, <2>3, <2>4, <2>5 DEF Shape
<1>8. \A d \in Conns : d # c => Same(d)
  BY <1>5, <1>6 DEF Shape, Same
<1> QED
  BY <1>7, <1>8, RequestOK DEF StepOf

\* A request enters the channel; without reuse, it keeps the channel in order.
LEMMA AskStep ==
    ASSUME IInv, ReuseIds = FALSE, NEW c \in Conns, NEW r \in Requests, MayAsk(c, r), Ask(c, r),
           UNCHANGED <<pc, subscriptions, replayed, server, want>>
    PROVE  StepOf(c)
<1> USE DEF IInv
<1>1. /\ requests' = [requests EXCEPT ![c] = Append(@, r)]
      /\ asked' = [asked EXCEPT ![c] = After(@, r)]
      /\ UNCHANGED <<pc, subscriptions, replayed, server, want>>
      /\ r.method = "unsubscribe" \/ r.id \notin asked[c]
  BY DEF Ask, MayAsk
<1>2. r.id \in Ids /\ r.method \in {"subscribe", "unsubscribe"}
  BY RequestFields
<1>3. requests[c] \in Seq(Requests) /\ asked[c] \in SUBSET Ids
  BY DEF Shape
<1>4. Append(requests[c], r) \in Seq(Requests) /\ After(asked[c], r) \in SUBSET Ids
  BY <1>2, <1>3, SMT DEF After
<1>5. Shape'
  <2>1. requests' \in [Conns -> Seq(Requests)]
    BY <1>1, <1>4 DEF Shape
  <2>2. asked' \in [Conns -> SUBSET Ids]
    BY <1>1, <1>4 DEF Shape
  <2> QED
    BY <1>1, <2>1, <2>2 DEF Shape
<1>6. \A d \in Conns : d # c => Same(d)
  BY <1>1 DEF Shape, Same
<1>7. QueueOK(Append(requests[c], r), want[c], After(asked[c], r))
  <2>1. QueueOK(requests[c], want[c], asked[c]) /\ (r.method = "subscribe" => r.id \notin asked[c])
    BY <1>1, <1>2 DEF ConnOK
  <2> QED
    BY <1>2, <1>3, <2>1, QueueAsk
<1>8. ConnOK(c)'
  <2>1. requests'[c] = Append(requests[c], r) /\ asked'[c] = After(asked[c], r)
    BY <1>1 DEF Shape
  <2> QED
    BY <1>1, <1>7, <2>1 DEF ConnOK
<1>9. UNCHANGED Abstract(c)!vars
  BY <1>1 DEF Abstract!vars, Up
<1> QED
  BY <1>5, <1>6, <1>8, <1>9 DEF StepOf, StepOK, AbstractStep

\* What every step has to show: it keeps the invariant and is allowed by the
\* promise.
Kept == IInv' /\ \A c \in Conns : AbstractStep(c)

\* A step of one connection does, if it shows its part.
LEMMA StepKept ==
    ASSUME IInv, NEW c \in Conns, StepOf(c)
    PROVE  Kept
<1>1. ASSUME NEW d \in Conns PROVE StepOK(d)
  BY SameOK DEF StepOf, IInv
<1> QED
  BY <1>1 DEF StepOf, StepOK, IInv, Kept

\* A step that the connections take no part in does.
LEMMA IdleKept ==
    ASSUME IInv, UNCHANGED <<pc, requests, subscriptions, replayed, server, want, asked>>
    PROVE  Kept
<1>1. Shape'
  BY DEF IInv, Shape
<1>2. ASSUME NEW d \in Conns PROVE StepOK(d)
  BY SameOK DEF Same, IInv
<1> QED
  BY <1>1, <1>2 DEF StepOK, IInv, Kept

\* Every step of a task and of its socket does.
LEMMA TaskKept ==
    ASSUME IInv, NEW c \in Conns, WsNext(c)
    PROVE  Kept
<1>1. CASE ConnectFails(c) \/ NoticeClosed(c) \/ ForwardFails(c) \/ SocketFails(c) \/ TimedOut(c)
  <2>1. Fails(c)
    BY <1>1 DEF ConnectFails, NoticeClosed, ForwardFails, SocketFails, TimedOut, Fails
  <2> QED
    BY <2>1, FailsStep, StepKept
<1>2. CASE Run(c) \/ SleepEnds(c) \/ Forward(c) \/ \E m \in Msgs : Receive(c, m)
  BY <1>2, MoveStep, StepKept
<1>3. CASE Connected(c)
  BY <1>3, ConnectedStep, StepKept
<1>4. CASE Replay(c)
  BY <1>4, ReplayStep, StepKept
<1>5. CASE HandleRequest(c)
  BY <1>5, RequestStep, StepKept
<1>6. CASE GoSilent(c) \/ WsTick(c)
  BY <1>6, QuietStep, StepKept
<1> QED
  BY <1>1, <1>2, <1>3, <1>4, <1>5, <1>6 DEF WsNext, Task

\* Every step of the connections on their own does.
LEMMA NextOK ==
    ASSUME ReuseIds = FALSE
    PROVE  IInv /\ [WsOnly]_wsvars => IInv' /\ \A c \in Conns : AbstractStep(c)
<1> SUFFICES ASSUME IInv, [WsOnly]_wsvars PROVE Kept
  BY DEF Kept
<1>1. CASE TakeAny \/ DropAny \/ UNCHANGED wsvars
  <2>1. UNCHANGED <<pc, requests, subscriptions, replayed, server, want, asked>>
    BY <1>1 DEF TakeAny, DropAny, wsvars, Socket
  <2> QED
    BY <2>1, IdleKept
<1>2. ASSUME NEW c \in Conns, NEW r \in Requests, AskAny(c, r) PROVE Kept
  <2>1. MayAsk(c, r) /\ Ask(c, r) /\ UNCHANGED <<pc, subscriptions, replayed, server, want>>
    BY <1>2 DEF AskAny, Socket
  <2> QED
    BY <2>1, AskStep, StepKept
<1> QED
  BY <1>1, <1>2, TaskKept DEF WsOnly

\* A connection that serves has exactly the subscriptions the requests it took
\* add up to, after any losses, failed sends and replays (start, subscribe,
\* unsubscribe), when no id is subscribed to while in use.
THEOREM PromiseKept ==
    ASSUME ReuseIds = FALSE
    PROVE  WsSpec => SubscriptionsRestored
<1>1. WsInit => \A c \in Conns : Abstract(c)!Init
  <2> SUFFICES ASSUME WsInit, NEW c \in Conns PROVE Abstract(c)!Init
    OBVIOUS
  <2>1. pc[c] = "run" /\ want[c] = {}
    BY DEF WsInit
  <2> QED
    BY <2>1, SMT DEF Abstract!Init, Up
<1>2. IInv /\ [WsOnly]_wsvars =>
          IInv' /\ [\A c \in Conns : Abstract(c)!Next \/ UNCHANGED Abstract(c)!vars]_wsvars
  BY NextOK DEF AbstractStep
<1> QED
  BY <1>1, <1>2, InitIInv, PTL DEF WsSpec, SubscriptionsRestored

\* No step sends a subscription that the server has on this socket.
NothingTwice ==
    \A c \in Conns :
        /\ Replay(c) /\ replayed[c] < Len(subscriptions[c])
              => subscriptions[c][replayed[c] + 1] \notin server[c]
        /\ HandleRequest(c) /\ Head(requests[c]).method = "subscribe"
              => Head(requests[c]).id \notin server[c]

\* The invariant rules it out.
LEMMA SendsFresh == IInv => NothingTwice
<1>1. ASSUME IInv, NEW c \in Conns, Replay(c), replayed[c] < Len(subscriptions[c])
      PROVE  subscriptions[c][replayed[c] + 1] \notin server[c]
  <2>1. /\ replayed[c] \in Nat /\ server[c] = FirstIds(subscriptions[c], replayed[c])
        /\ Distinct(subscriptions[c]) /\ subscriptions[c] \in Seq(Ids)
    BY <1>1 DEF IInv, Shape, ConnOK, SocketOK, ListOK, Replay
  <2>2. replayed[c] + 1 \in 1..Len(subscriptions[c])
        /\ \A i \in 1..replayed[c] : i \in 1..Len(subscriptions[c]) /\ i # replayed[c] + 1
    BY <1>1, <2>1, SMT
  <2> QED
    BY <2>1, <2>2 DEF FirstIds, Distinct
<1>2. ASSUME IInv, NEW c \in Conns, HandleRequest(c), Head(requests[c]).method = "subscribe"
      PROVE  Head(requests[c]).id \notin server[c]
  <2>1. /\ requests[c] \in Seq(Requests) /\ requests[c] # <<>> /\ server[c] = want[c]
        /\ QueueOK(requests[c], want[c], asked[c])
    BY <1>2 DEF IInv, Shape, ConnOK, SocketOK, HandleRequest
  <2>2. Head(requests[c]) \in Requests
    BY <2>1, SMT
  <2>3. Head(requests[c]).id \in Ids /\ Head(requests[c]).method \in {"subscribe", "unsubscribe"}
    BY <2>2, RequestFields
  <2> QED
    BY <1>2, <2>1, <2>3, QueueTake
<1> QED
  BY <1>1, <1>2 DEF NothingTwice

\* No subscription is sent twice on one socket, neither by the replay of start
\* nor for a request that was recorded before its send failed.
THEOREM SentOnce ==
    ASSUME ReuseIds = FALSE
    PROVE  WsSpec => NoDoubleSubscribe
<1>1. IInv /\ [WsOnly]_wsvars => IInv' /\ [NothingTwice]_wsvars
  BY SendsFresh, NextOK
<1> QED
  BY <1>1, InitIInv, PTL DEF WsSpec, NoDoubleSubscribe, NothingTwice

-----------------------------------------------------------------------------
(* The client: its loop over the connections asks each of them for what was *)
(* checked when the call began                                              *)

\* The connections the loop has yet to reach may still be asked.
CallOK ==
    call # NoCall =>
        /\ call[1] \in Requests /\ call[2] \in 1..Len(ws_connections)
        /\ \A i \in call[2]..Len(ws_connections) : MayAsk(ws_connections[i], call[1])

\* Steps of the client that the connections take no part in.
Apart ==
    \/ DedupEnds \/ DedupSends \/ \E m \in Msgs : DedupTakes(m)
    \/ UserReads \/ UserDropsReceiver \/ UserDropsClient \/ Tick
    \/ CallFails \/ \E r \in Requests : UserCalls(r)

\* They leave the connections' state alone.
LEMMA ApartIdle ==
    ASSUME Apart
    PROVE  UNCHANGED <<pc, requests, subscriptions, replayed, server, want, asked>>
<1> USE DEF wsvars, Socket
<1>1. CASE DedupEnds
  BY <1>1 DEF DedupEnds
<1>2. CASE DedupSends
  BY <1>2 DEF DedupSends
<1>3. CASE \E m \in Msgs : DedupTakes(m)
  BY <1>3 DEF DedupTakes
<1>4. CASE UserReads \/ UserDropsReceiver \/ UserDropsClient \/ Tick
  BY <1>4 DEF UserReads, UserDropsReceiver, UserDropsClient, Tick
<1>5. CASE CallFails
  BY <1>5 DEF CallFails
<1>6. CASE \E r \in Requests : UserCalls(r)
  BY <1>6 DEF UserCalls
<1> QED
  BY <1>1, <1>2, <1>3, <1>4, <1>5, <1>6 DEF Apart

\* A call begins only with a request that every connection may be asked for.
LEMMA ApartCall ==
    ASSUME CallOK, Apart
    PROVE  CallOK'
<1>1. UNCHANGED asked
  BY ApartIdle
<1>2. CASE UNCHANGED call
  BY <1>1, <1>2 DEF CallOK, MayAsk
<1>3. CASE CallFails
  BY <1>3 DEF CallFails, CallOK
<1>4. ASSUME NEW r \in Requests, UserCalls(r) PROVE CallOK'
  <2>1. call' = <<r, 1>> /\ \A c \in Conns : MayAsk(c, r)
    BY <1>4 DEF UserCalls
  <2>2. ws_connections \in Seq(Conns) /\ Len(ws_connections) \in Nat \ {0}
    BY ClientAssumption, SMT
  <2>3. \A i \in 1..Len(ws_connections) : ws_connections[i] \in Conns
    BY <2>2, SMT
  <2>4. \A i \in 1..Len(ws_connections) : MayAsk(ws_connections[i], r)'
    BY <1>1, <2>1, <2>3 DEF MayAsk
  <2>5. call'[1] = r /\ call'[2] = 1
    BY <2>1
  <2> QED
    BY <2>2, <2>4, <2>5, SMT DEF CallOK, MayAsk
<1>5. UNCHANGED call \/ CallFails \/ \E r \in Requests : UserCalls(r)
  <2>1. CASE DedupEnds \/ DedupSends \/ Tick
    BY <2>1 DEF DedupEnds, DedupSends, Tick
  <2>2. CASE \E m \in Msgs : DedupTakes(m)
    BY <2>2 DEF DedupTakes
  <2>3. CASE UserReads \/ UserDropsReceiver \/ UserDropsClient
    BY <2>3 DEF UserReads, UserDropsReceiver, UserDropsClient
  <2> QED
    BY <2>1, <2>2, <2>3 DEF Apart
<1> QED
  BY <1>2, <1>3, <1>4, <1>5

\* The loop asks one connection and goes on to another.
LEMMA CallSendsOK ==
    ASSUME IInv, CallOK, ReuseIds = FALSE, CallSends
    PROVE  Kept /\ CallOK'
<1> DEFINE k == call[2]
           c == ws_connections[k]
           n == Len(ws_connections)
<1>1. /\ call # NoCall /\ Ask(c, call[1])
      /\ call' = IF k = n THEN NoCall ELSE <<call[1], k + 1>>
      /\ UNCHANGED <<pc, subscriptions, replayed, server, want>>
  BY DEF CallSends, Socket
<1>2. ws_connections \in Seq(Conns) /\ n \in Nat
  BY ClientAssumption, SMT
<1>3. /\ call[1] \in Requests /\ k \in 1..n
      /\ \A i \in k..n : MayAsk(ws_connections[i], call[1])
  BY <1>1 DEF CallOK
<1>4. c \in Conns
  BY <1>2, <1>3, SMT
<1>5. Kept
  <2>1. MayAsk(c, call[1])
    BY <1>3, SMT
  <2> HIDE DEF c
  <2> QED
    BY <1>1, <1>3, <1>4, <2>1, AskStep, StepKept
<1>6. ASSUME k # n PROVE CallOK'
  <2>1. call'[1] = call[1] /\ call'[2] = k + 1
    BY <1>1, <1>6
  <2>2. ASSUME NEW i \in (k + 1)..n PROVE ws_connections[i] # c /\ ws_connections[i] \in Conns
    <3>1. i \in 1..n /\ i # k
      BY <1>2, <1>3, SMT
    <3>2. ws_connections[i] \in Conns /\ DOMAIN ws_connections = 1..n
      BY <1>2, <3>1, SMT
    <3> QED
      BY <1>3, <1>4, <3>1, <3>2, ClientAssumption, SMT
  <2>3. ASSUME NEW i \in (k + 1)..n PROVE MayAsk(ws_connections[i], call[1])'
    <3>1. asked'[ws_connections[i]] = asked[ws_connections[i]]
      BY <1>1, <1>4, <2>2 DEF Ask, IInv, Shape
    <3>2. MayAsk(ws_connections[i], call[1])
      BY <1>2, <1>3, SMT
    <3>3. call'[1] = call[1]
      BY <2>1
    <3> QED
      BY <3>1, <3>2, <3>3, SMT DEF MayAsk
  <2>4. k + 1 \in 1..n
    BY <1>2, <1>3, <1>6, SMT
  <2> HIDE DEF k, n
  <2> QED
    BY <1>3, <2>1, <2>3, <2>4 DEF CallOK, n
<1>7. CASE k = n
  BY <1>1, <1>5, <1>7 DEF CallOK
<1> QED
  BY <1>5, <1>6, <1>7

\* Every step of the client keeps the connections' invariant and their promise.
LEMMA ClientKept ==
    ASSUME ReuseIds = FALSE
    PROVE  IInv /\ CallOK /\ [Next]_vars => Kept /\ CallOK'
<1> SUFFICES ASSUME IInv, CallOK, [Next]_vars PROVE Kept /\ CallOK'
  OBVIOUS
<1>1. ASSUME NEW c \in Conns, Connection(c) \/ \E m \in Msgs : ClientReceives(c, m)
      PROVE  Kept /\ CallOK'
  <2>1. WsNext(c) /\ UNCHANGED call
    BY <1>1 DEF Connection, ClientReceives, own, WsNext, Task
  <2>2. UNCHANGED asked
    BY <1>1 DEF Connection, ClientReceives, Run, SleepEnds, Connected, ConnectFails, Replay,
         NoticeClosed, Forward, ForwardFails, SocketFails, HandleRequest, Receive, Channels
  <2> QED
    BY <2>1, <2>2, TaskKept DEF CallOK, MayAsk
<1>2. CASE Apart
  BY <1>2, ApartIdle, IdleKept, ApartCall
<1>3. CASE CallSends
  BY <1>3, CallSendsOK
<1>4. CASE UNCHANGED vars
  <2>1. UNCHANGED <<pc, requests, subscriptions, replayed, server, want, asked, call>>
    BY <1>4 DEF vars, wsvars, own
  <2> QED
    BY <2>1, IdleKept DEF CallOK, MayAsk
<1> QED
  BY <1>1, <1>2, <1>3, <1>4 DEF Next, Apart

\* Every connection of the client keeps the promise of SubscriptionSet, whatever
\* the loop of subscribe and unsubscribe, the duplicates' task and the user do.
THEOREM ClientPromiseKept ==
    ASSUME ReuseIds = FALSE
    PROVE  Spec => SubscriptionsRestored
<1>1. WsInit => \A c \in Conns : Abstract(c)!Init
  <2> SUFFICES ASSUME WsInit, NEW c \in Conns PROVE Abstract(c)!Init
    OBVIOUS
  <2>1. pc[c] = "run" /\ want[c] = {}
    BY DEF WsInit
  <2> QED
    BY <2>1, SMT DEF Abstract!Init, Up
<1>2. Init => WsInit /\ IInv /\ CallOK
  BY InitIInv DEF Init, CallOK
<1>3. IInv /\ CallOK /\ [Next]_vars =>
          /\ IInv' /\ CallOK'
          /\ [\A c \in Conns : Abstract(c)!Next \/ UNCHANGED Abstract(c)!vars]_wsvars
  BY ClientKept DEF Kept, AbstractStep
<1> QED
  BY <1>1, <1>2, <1>3, PTL DEF Spec, SubscriptionsRestored

\* Nor does any connection of the client send a subscription twice on a socket.
THEOREM ClientSentOnce ==
    ASSUME ReuseIds = FALSE
    PROVE  Spec => NoDoubleSubscribe
<1>1. Init => IInv /\ CallOK
  BY InitIInv DEF Init, CallOK
<1>2. IInv /\ CallOK /\ [Next]_vars => IInv' /\ CallOK' /\ [NothingTwice]_wsvars
  BY ClientKept, SendsFresh DEF Kept
<1> QED
  BY <1>1, <1>2, PTL DEF Spec, NoDoubleSubscribe, NothingTwice

-----------------------------------------------------------------------------
(* The types of the connections *)

\* Nothing is half replayed but while a task replays, and a task holds a
\* response exactly while it forwards it.
TaskOK(c) ==
    /\ pc[c] # "replay" => replayed[c] = 0
    /\ pc[c] = "forward" => \E m \in Msgs : held[c] = <<m>>
    /\ pc[c] # "forward" => held[c] = <<>>

WsInv == WsTypeOK /\ \A c \in Conns : TaskOK(c)

\* The tasks start with nothing.
LEMMA WsInitTypes == WsInit => WsInv
<1> SUFFICES ASSUME WsInit PROVE WsInv
  OBVIOUS
<1>1. WsTypeOK
  <2>1. ASSUME NEW c \in Conns
        PROVE  Len(requests[c]) <= RequestCapacity /\ replayed[c] <= Len(subscriptions[c])
    <3>1. requests[c] = <<>> /\ subscriptions[c] = <<>> /\ replayed[c] = 0
      BY DEF WsInit
    <3> QED
      BY <3>1, WsAssumption, SMT
  <2>2. Len(responses) <= ResponseCapacity /\ calls \in 0..MaxCalls
    BY WsAssumption, SMT DEF WsInit
  <2>3. requests \in [Conns -> Seq(Requests)] /\ subscriptions \in [Conns -> Seq(Ids)]
        /\ held \in [Conns -> Seq(Msgs)] /\ responses \in Seq(Msgs)
    BY SMT DEF WsInit
  <2>4. left \in [Conns -> 0..TimeoutTicks]
    BY WsAssumption, SMT DEF WsInit
  <2> QED
    BY <2>1, <2>2, <2>3, <2>4 DEF WsInit, WsTypeOK
<1>2. \A c \in Conns : TaskOK(c)
  BY DEF WsInit, TaskOK
<1> QED
  BY <1>1, <1>2 DEF WsInv

\* A failure leaves no socket behind.
LEMMA FailsTypes ==
    ASSUME WsInv, NEW c \in Conns, Fails(c)
    PROVE  WsInv'
<1>1. /\ pc' = [pc EXCEPT ![c] = IF closed THEN "done" ELSE "sleep"]
      /\ server' = [server EXCEPT ![c] = {}] /\ silent' = [silent EXCEPT ![c] = FALSE]
      /\ replayed' = [replayed EXCEPT ![c] = 0] /\ held' = [held EXCEPT ![c] = <<>>]
      /\ left' = [left EXCEPT ![c] = TimeoutTicks]
      /\ UNCHANGED <<subscriptions, want, requests, responses, closed, asked, calls>>
  BY DEF Fails, Failed, Channels
<1>2. TimeoutTicks \in 0..TimeoutTicks /\ <<>> \in Seq(Msgs)
  BY WsAssumption, SMT
<1>3. /\ pc' \in [Conns -> {"run", "connect", "replay", "select", "forward", "sleep", "done"}]
      /\ server' \in [Conns -> SUBSET Ids] /\ silent' \in [Conns -> BOOLEAN]
      /\ replayed' \in [Conns -> Nat] /\ held' \in [Conns -> Seq(Msgs)]
      /\ left' \in [Conns -> 0..TimeoutTicks]
  BY <1>1, <1>2 DEF WsInv, WsTypeOK
<1>4. ASSUME NEW d \in Conns PROVE replayed'[d] <= Len(subscriptions[d]) /\ TaskOK(d)'
  <2>1. CASE d = c
    <3>1. replayed'[c] = 0 /\ held'[c] = <<>> /\ pc'[c] \in {"sleep", "done"}
      BY <1>1 DEF WsInv, WsTypeOK
    <3>2. subscriptions[c] \in Seq(Ids)
      BY DEF WsInv, WsTypeOK
    <3> QED
      BY <2>1, <3>1, <3>2, SMT DEF TaskOK
  <2>2. CASE d # c
    BY <1>1, <2>2 DEF WsInv, WsTypeOK, TaskOK
  <2> QED
    BY <2>1, <2>2
<1>5. WsTypeOK'
  BY <1>1, <1>3, <1>4 DEF WsInv, WsTypeOK
<1> QED
  BY <1>4, <1>5 DEF WsInv

\* Steps that change where a task is, and nothing else.
LEMMA MoveTypes ==
    ASSUME WsInv, NEW c \in Conns, Run(c) \/ SleepEnds(c) \/ Connected(c)
    PROVE  WsInv'
<1>1. PICK p \in {"run", "connect", "replay", "done"} :
          pc[c] \in {"run", "sleep", "connect"} /\ pc' = [pc EXCEPT ![c] = p]
  BY DEF Run, SleepEnds, Connected, Goto
<1>2. UNCHANGED <<subscriptions, replayed, server, silent, left, held, want, requests, responses,
                  closed, asked, calls>>
  BY DEF Run, SleepEnds, Connected, Socket, Channels
<1>3. WsTypeOK'
  BY <1>1, <1>2 DEF WsInv, WsTypeOK
<1>4. ASSUME NEW d \in Conns PROVE TaskOK(d)'
  <2>1. pc'[d] = IF d = c THEN p ELSE pc[d]
    BY <1>1 DEF WsInv, WsTypeOK
  <2> QED
    BY <1>1, <1>2, <2>1 DEF WsInv, TaskOK
<1> QED
  BY <1>3, <1>4 DEF WsInv

\* A subscription is replayed, or the last one has been.
LEMMA ReplayTypes ==
    ASSUME WsInv, NEW c \in Conns, Replay(c)
    PROVE  WsInv'
<1>1. /\ pc[c] = "replay" /\ subscriptions[c] \in Seq(Ids) /\ replayed[c] \in Nat
      /\ server[c] \in SUBSET Ids /\ held[c] = <<>>
      /\ UNCHANGED <<subscriptions, silent, left, held, want, requests, responses, closed, asked,
                     calls>>
  BY DEF Replay, Channels, WsInv, WsTypeOK, TaskOK
<1>2. PICK p \in {"replay", "select"}, k \in Nat, ids \in SUBSET Ids :
          /\ pc' = [pc EXCEPT ![c] = p] /\ replayed' = [replayed EXCEPT ![c] = k]
          /\ server' = [server EXCEPT ![c] = ids]
          /\ k <= Len(subscriptions[c]) /\ (p = "select" => k = 0)
  <2>1. CASE replayed[c] < Len(subscriptions[c])
    <3>1. /\ subscriptions[c][replayed[c] + 1] \in Ids
          /\ replayed[c] + 1 \in Nat /\ replayed[c] + 1 <= Len(subscriptions[c])
      BY <1>1, <2>1, SMT
    <3>2. pc' = [pc EXCEPT ![c] = "replay"]
      BY <1>1, <2>1, SMT DEF Replay, WsInv, WsTypeOK
    <3>3. server[c] \cup {subscriptions[c][replayed[c] + 1]} \in SUBSET Ids
      BY <1>1, <3>1
    <3> QED
      BY <2>1, <3>1, <3>2, <3>3 DEF Replay
  <2>2. CASE ~(replayed[c] < Len(subscriptions[c]))
    <3>1. server' = [server EXCEPT ![c] = server[c]]
      BY <2>2 DEF Replay, WsInv, WsTypeOK
    <3>2. 0 <= Len(subscriptions[c])
      BY <1>1, SMT
    <3> QED
      BY <1>1, <2>2, <3>1, <3>2 DEF Replay
  <2> QED
    BY <2>1, <2>2
<1>3. ASSUME NEW d \in Conns PROVE replayed'[d] <= Len(subscriptions[d]) /\ TaskOK(d)'
  <2>1. CASE d = c
    <3>1. pc'[c] = p /\ replayed'[c] = k /\ held'[c] = <<>>
      BY <1>1, <1>2 DEF WsInv, WsTypeOK
    <3> QED
      BY <1>2, <2>1, <3>1 DEF TaskOK
  <2>2. CASE d # c
    BY <1>1, <1>2, <2>2 DEF WsInv, WsTypeOK, TaskOK
  <2> QED
    BY <2>1, <2>2
<1>4. /\ pc' \in [Conns -> {"run", "connect", "replay", "select", "forward", "sleep", "done"}]
      /\ server' \in [Conns -> SUBSET Ids] /\ replayed' \in [Conns -> Nat]
  BY <1>2 DEF WsInv, WsTypeOK
<1>5. WsTypeOK'
  BY <1>1, <1>3, <1>4 DEF WsInv, WsTypeOK
<1> QED
  BY <1>3, <1>5 DEF WsInv

\* A response is received.
LEMMA ReceiveTypes ==
    ASSUME WsInv, NEW c \in Conns, NEW m \in Msgs, Receive(c, m)
    PROVE  WsInv'
<1>1. /\ pc[c] = "select" /\ pc' = [pc EXCEPT ![c] = "forward"]
      /\ held' = [held EXCEPT ![c] = <<m>>]
      /\ UNCHANGED <<subscriptions, replayed, server, silent, left, want, requests, responses,
                     closed, asked, calls>>
  BY DEF Receive, Goto, Channels
<1>2. <<m>> \in Seq(Msgs)
  BY SMT
<1>3. /\ pc' \in [Conns -> {"run", "connect", "replay", "select", "forward", "sleep", "done"}]
      /\ held' \in [Conns -> Seq(Msgs)]
  BY <1>1, <1>2 DEF WsInv, WsTypeOK
<1>4. WsTypeOK'
  BY <1>1, <1>3 DEF WsInv, WsTypeOK
<1>5. ASSUME NEW d \in Conns PROVE TaskOK(d)'
  <2>1. /\ pc'[d] = IF d = c THEN "forward" ELSE pc[d]
        /\ held'[d] = IF d = c THEN <<m>> ELSE held[d]
    BY <1>1 DEF WsInv, WsTypeOK
  <2> QED
    BY <1>1, <2>1 DEF WsInv, TaskOK
<1> QED
  BY <1>4, <1>5 DEF WsInv

\* One more element at the end of a sequence.
LEMMA ConcatOne ==
    ASSUME NEW S, NEW s \in Seq(S), NEW x \in S
    PROVE  s \o <<x>> \in Seq(S) /\ Len(s \o <<x>>) = Len(s) + 1
  BY SMT

\* The response enters the channel, which has room for it.
LEMMA ForwardTypes ==
    ASSUME WsInv, NEW c \in Conns, Forward(c)
    PROVE  WsInv'
<1>1. /\ pc[c] = "forward" /\ pc' = [pc EXCEPT ![c] = "select"]
      /\ responses' = responses \o held[c] /\ Len(responses) < ResponseCapacity
      /\ held' = [held EXCEPT ![c] = <<>>] /\ left' = [left EXCEPT ![c] = TimeoutTicks]
      /\ UNCHANGED <<subscriptions, replayed, server, silent, want, requests, closed, asked, calls>>
  BY DEF Forward, Goto
<1>2. PICK m \in Msgs : held[c] = <<m>>
  BY <1>1 DEF WsInv, TaskOK
<1>3. responses' \in Seq(Msgs) /\ Len(responses') <= ResponseCapacity
  <2>1. responses \in Seq(Msgs) /\ Len(responses) \in Nat
    BY SMT DEF WsInv, WsTypeOK
  <2> QED
    BY <1>1, <1>2, <2>1, ConcatOne, WsAssumption, SMT
<1>4. TimeoutTicks \in 0..TimeoutTicks /\ <<>> \in Seq(Msgs)
  BY WsAssumption, SMT
<1>5. /\ pc' \in [Conns -> {"run", "connect", "replay", "select", "forward", "sleep", "done"}]
      /\ held' \in [Conns -> Seq(Msgs)] /\ left' \in [Conns -> 0..TimeoutTicks]
  BY <1>1, <1>4 DEF WsInv, WsTypeOK
<1>6. WsTypeOK'
  BY <1>1, <1>3, <1>5 DEF WsInv, WsTypeOK
<1>7. ASSUME NEW d \in Conns PROVE TaskOK(d)'
  <2>1. /\ pc'[d] = IF d = c THEN "select" ELSE pc[d]
        /\ held'[d] = IF d = c THEN <<>> ELSE held[d]
    BY <1>1 DEF WsInv, WsTypeOK
  <2> QED
    BY <1>1, <2>1, SMT DEF WsInv, TaskOK
<1> QED
  BY <1>6, <1>7 DEF WsInv

\* What PushOrRemove leaves is a list of ids.
LEMMA PushOrRemoveType ==
    ASSUME NEW subs \in Seq(Ids), NEW r \in Requests
    PROVE  PushOrRemove(subs, r) \in Seq(Ids)
<1> DEFINE at == {i \in DOMAIN subs : subs[i] = r.id}
           index == CHOOSE i \in at : \A j \in at : i <= j
<1>1. r.id \in Ids
  BY RequestFields
<1>2. Append(subs, r.id) \in Seq(Ids)
  BY <1>1, SMT
<1>3. ASSUME at # {} PROVE Without(subs, index) \in Seq(Ids)
  <2>1. Len(subs) \in Nat \ {0}
    BY <1>3, SMT
  <2>2. \A i \in 1..(Len(subs) - 1) : subs[i] \in Ids /\ subs[i + 1] \in Ids
    BY <2>1, SMT
  <2> HIDE DEF index
  <2>3. Without(subs, index) \in [1..(Len(subs) - 1) -> Ids]
    BY <2>2 DEF Without
  <2> QED
    BY <2>1, <2>3, SMT
<1>4. \/ PushOrRemove(subs, r) = Append(subs, r.id) \/ PushOrRemove(subs, r) = subs
      \/ at # {} /\ PushOrRemove(subs, r) = Without(subs, index)
  BY DEF PushOrRemove, Without
<1> HIDE DEF at, index
<1> QED
  BY <1>2, <1>3, <1>4

\* A request is recorded and sent, or lost with the socket.
LEMMA RequestTypes ==
    ASSUME WsInv, NEW c \in Conns, HandleRequest(c)
    PROVE  WsInv'
<1> DEFINE r == Head(requests[c])
           subs == PushOrRemove(subscriptions[c], r)
<1>1. /\ pc[c] = "select" /\ requests[c] \in Seq(Requests) /\ requests[c] # <<>>
      /\ Len(requests[c]) <= RequestCapacity /\ subscriptions[c] \in Seq(Ids)
      /\ want[c] \in SUBSET Ids /\ server[c] \in SUBSET Ids
      /\ replayed[c] = 0 /\ held[c] = <<>>
  BY DEF HandleRequest, WsInv, WsTypeOK, TaskOK
<1>2. /\ r \in Requests /\ Tail(requests[c]) \in Seq(Requests)
      /\ Len(Tail(requests[c])) <= RequestCapacity
  BY <1>1, WsAssumption, SMT
<1>3. subs \in Seq(Ids) /\ 0 <= Len(subs)
  <2>1. subs \in Seq(Ids)
    BY <1>1, <1>2, PushOrRemoveType
  <2> HIDE DEF subs
  <2> QED
    BY <2>1, SMT
<1>4. \A ids \in SUBSET Ids : After(ids, r) \in SUBSET Ids
  BY <1>2, RequestFields DEF After
<1>5. /\ subscriptions' = [subscriptions EXCEPT ![c] = subs]
      /\ requests' = [requests EXCEPT ![c] = Tail(requests[c])]
      /\ want' = [want EXCEPT ![c] = After(want[c], r)]
      /\ UNCHANGED <<responses, closed, asked, calls>>
  BY DEF HandleRequest
<1>6. PICK p \in {"select", "sleep", "done"}, ids \in SUBSET Ids, s \in BOOLEAN :
          /\ pc' = [pc EXCEPT ![c] = p] /\ server' = [server EXCEPT ![c] = ids]
          /\ silent' = [silent EXCEPT ![c] = s] /\ replayed' = [replayed EXCEPT ![c] = 0]
          /\ held' = [held EXCEPT ![c] = <<>>] /\ left' = [left EXCEPT ![c] = TimeoutTicks]
  <2>1. CASE Failed(c)
    BY <2>1 DEF Failed
  <2>2. CASE /\ server' = [server EXCEPT ![c] = After(@, r)]
             /\ left' = [left EXCEPT ![c] = TimeoutTicks]
             /\ UNCHANGED <<pc, replayed, silent, held>>
    <3>1. /\ pc' = [pc EXCEPT ![c] = "select"] /\ replayed' = [replayed EXCEPT ![c] = 0]
          /\ silent' = [silent EXCEPT ![c] = silent[c]] /\ held' = [held EXCEPT ![c] = <<>>]
      BY <1>1, <2>2 DEF WsInv, WsTypeOK
    <3>2. silent[c] \in BOOLEAN
      BY DEF WsInv, WsTypeOK
    <3>3. After(server[c], r) \in SUBSET Ids
      BY <1>1, <1>4
    <3> HIDE DEF r
    <3> QED
      BY <2>2, <3>1, <3>2, <3>3
  <2> QED
    BY <2>1, <2>2 DEF HandleRequest
<1> HIDE DEF r, subs
<1>7. /\ pc' \in [Conns -> {"run", "connect", "replay", "select", "forward", "sleep", "done"}]
      /\ server' \in [Conns -> SUBSET Ids] /\ silent' \in [Conns -> BOOLEAN]
      /\ replayed' \in [Conns -> Nat]
  BY <1>6 DEF WsInv, WsTypeOK
<1>8. held' \in [Conns -> Seq(Msgs)] /\ left' \in [Conns -> 0..TimeoutTicks]
  <2>1. TimeoutTicks \in 0..TimeoutTicks /\ <<>> \in Seq(Msgs)
    BY WsAssumption, SMT
  <2> QED
    BY <1>6, <2>1 DEF WsInv, WsTypeOK
<1>9. /\ requests' \in [Conns -> Seq(Requests)] /\ subscriptions' \in [Conns -> Seq(Ids)]
      /\ want' \in [Conns -> SUBSET Ids]
  BY <1>1, <1>2, <1>3, <1>4, <1>5 DEF WsInv, WsTypeOK
<1>10. ASSUME NEW d \in Conns
       PROVE  /\ Len(requests'[d]) <= RequestCapacity
              /\ replayed'[d] <= Len(subscriptions'[d])
              /\ TaskOK(d)'
  <2>1. CASE d = c
    <3>1. /\ requests'[c] = Tail(requests[c]) /\ subscriptions'[c] = subs
          /\ replayed'[c] = 0 /\ held'[c] = <<>> /\ pc'[c] = p
      BY <1>5, <1>6 DEF WsInv, WsTypeOK
    <3> QED
      BY <1>2, <1>3, <1>6, <2>1, <3>1 DEF TaskOK
  <2>2. CASE d # c
    BY <1>5, <1>6, <2>2 DEF WsInv, WsTypeOK, TaskOK
  <2> QED
    BY <2>1, <2>2
<1>11. WsTypeOK'
  BY <1>5, <1>7, <1>8, <1>9, <1>10 DEF WsInv, WsTypeOK
<1> QED
  BY <1>10, <1>11 DEF WsInv

\* The server goes silent, or time passes.
LEMMA QuietTypes ==
    ASSUME WsInv, NEW c \in Conns, GoSilent(c) \/ WsTick(c)
    PROVE  WsInv'
<1>1. UNCHANGED <<pc, subscriptions, replayed, server, held, want, requests, responses, closed,
                  asked, calls>>
  BY DEF GoSilent, WsTick, Channels
<1>2. silent' \in [Conns -> BOOLEAN]
  BY DEF GoSilent, WsTick, WsInv, WsTypeOK
<1>3. left' \in [Conns -> 0..TimeoutTicks]
  <2>1. left[c] > 0 => left[c] - 1 \in 0..TimeoutTicks
    BY WsAssumption, SMT DEF WsInv, WsTypeOK
  <2> QED
    BY <2>1 DEF GoSilent, WsTick, WsInv, WsTypeOK
<1>4. WsTypeOK'
  BY <1>1, <1>2, <1>3 DEF WsInv, WsTypeOK
<1> QED
  BY <1>1, <1>4 DEF WsInv, TaskOK

\* A request is asked for.
LEMMA AskTypes ==
    ASSUME WsInv, NEW c \in Conns, NEW r \in Requests, Ask(c, r), calls' \in 0..MaxCalls,
           UNCHANGED <<pc, subscriptions, Socket, want, responses, closed>>
    PROVE  WsInv'
<1>1. /\ requests' = [requests EXCEPT ![c] = Append(@, r)] /\ Len(requests[c]) < RequestCapacity
      /\ asked' = [asked EXCEPT ![c] = After(@, r)]
      /\ UNCHANGED <<pc, subscriptions, replayed, server, silent, left, held, want, responses,
                     closed>>
  BY DEF Ask, Socket
<1>2. requests[c] \in Seq(Requests) /\ asked[c] \in SUBSET Ids
  BY DEF WsInv, WsTypeOK
<1>3. Append(requests[c], r) \in Seq(Requests) /\ Len(Append(requests[c], r)) <= RequestCapacity
  BY <1>1, <1>2, WsAssumption, SMT
<1>4. After(asked[c], r) \in SUBSET Ids
  BY <1>2, RequestFields DEF After
<1>5. requests' \in [Conns -> Seq(Requests)] /\ asked' \in [Conns -> SUBSET Ids]
  BY <1>1, <1>3, <1>4 DEF WsInv, WsTypeOK
<1>6. \A d \in Conns : Len(requests'[d]) <= RequestCapacity
  BY <1>1, <1>3 DEF WsInv, WsTypeOK
<1>7. WsTypeOK'
  BY <1>1, <1>5, <1>6 DEF WsInv, WsTypeOK
<1> QED
  BY <1>1, <1>7 DEF WsInv, TaskOK

\* Steps that concern only the responses.
LEMMA ChannelTypes ==
    ASSUME WsInv, responses' \in Seq(Msgs), Len(responses') <= ResponseCapacity,
           closed' \in BOOLEAN, calls' \in 0..MaxCalls,
           UNCHANGED <<pc, requests, subscriptions, replayed, server, silent, left, held, want, asked>>
    PROVE  WsInv'
<1>1. WsTypeOK'
  BY DEF WsInv, WsTypeOK
<1> QED
  BY <1>1 DEF WsInv, TaskOK

\* Every step of a task and of its socket keeps the types.
LEMMA TaskTypes ==
    ASSUME WsInv, NEW c \in Conns, WsNext(c)
    PROVE  WsInv'
<1>1. CASE ConnectFails(c) \/ NoticeClosed(c) \/ ForwardFails(c) \/ SocketFails(c) \/ TimedOut(c)
  <2>1. Fails(c)
    BY <1>1 DEF ConnectFails, NoticeClosed, ForwardFails, SocketFails, TimedOut, Fails
  <2> QED
    BY <2>1, FailsTypes
<1>2. CASE Run(c) \/ SleepEnds(c) \/ Connected(c)
  BY <1>2, MoveTypes
<1> QED
  BY <1>1, <1>2, ReplayTypes, ReceiveTypes, ForwardTypes, RequestTypes, QuietTypes
  DEF WsNext, Task

\* The types of the connections on their own, with the bounds of their channels
\* and the place of the replay.
THEOREM ConnectionTypes == WsSpec => []WsTypeOK
<1>1. WsInv /\ [WsOnly]_wsvars => WsInv'
  <2> SUFFICES ASSUME WsInv, [WsOnly]_wsvars PROVE WsInv'
    OBVIOUS
  <2>1. ASSUME NEW c \in Conns, NEW r \in Requests, AskAny(c, r) PROVE WsInv'
    <3>1. calls' \in 0..MaxCalls
      BY <2>1, WsAssumption, SMT DEF AskAny, WsInv, WsTypeOK
    <3> QED
      BY <2>1, <3>1, AskTypes DEF AskAny
  <2>2. CASE TakeAny \/ DropAny \/ UNCHANGED wsvars
    <3>1. /\ UNCHANGED <<pc, requests, subscriptions, replayed, server, silent, left, held, want,
                         asked, calls>>
          /\ closed' \in BOOLEAN /\ calls \in 0..MaxCalls
      BY <2>2 DEF TakeAny, DropAny, wsvars, Socket, WsInv, WsTypeOK
    <3>2. responses' \in Seq(Msgs) /\ Len(responses') <= ResponseCapacity
      <4>1. responses \in Seq(Msgs) /\ Len(responses) <= ResponseCapacity
        BY DEF WsInv, WsTypeOK
      <4>2. responses' = responses \/ (responses # <<>> /\ responses' = Tail(responses))
        BY <2>2 DEF TakeAny, DropAny, wsvars
      <4> QED
        BY <4>1, <4>2, WsAssumption, SMT
    <3> QED
      BY <3>1, <3>2, ChannelTypes
  <2> QED
    BY <2>1, <2>2, TaskTypes DEF WsOnly
<1>2. WsInv => WsTypeOK
  BY DEF WsInv
<1> QED
  BY <1>1, <1>2, WsInitTypes, PTL DEF WsSpec

-----------------------------------------------------------------------------
(* The types of the client, and how it ends *)

\* The receiver of the responses goes with the duplicates' task, which ends
\* after the user's receiver; a connection task ends after both.
EndOK ==
    /\ \A c \in Conns : pc[c] = "done" => closed
    /\ closed <=> dedup = "done"
    /\ closed => dropped
    /\ failed => dropped

ClientInv == WsInv /\ TypeOK /\ EndOK

\* The sizes are positive.
LEMMA Sizes == channel_capacity \in Nat \ {0} /\ Ttl \in Nat \ {0} /\ Ttl \in 0..Ttl
<1>1. channel_capacity \in Nat \ {0} /\ Ttl \in Nat \ {0}
  BY ClientAssumption
<1> QED
  BY <1>1, SMT

\* There is a connection.
LEMMA SomeConnection == \E c \in Conns : TRUE
<1>1. ws_connections \in Seq(Conns) /\ ws_connections # <<>>
  BY ClientAssumption
<1>2. ws_connections[1] \in Conns
  BY <1>1, SMT
<1> QED
  BY <1>2

\* At first.
LEMMA InitClient == Init => ClientInv
<1> SUFFICES ASSUME Init PROVE ClientInv
  OBVIOUS
<1>1. WsInv
  BY WsInitTypes DEF Init
<1>2. TypeOK
  <2>1. sending \in Seq(Msgs) /\ Len(sending) = 0 /\ out \in Seq(Msgs) /\ Len(out) <= channel_capacity
    BY Sizes, SMT DEF Init
  <2>2. seen \in [Msgs -> 0..Ttl] /\ since \in [Msgs -> 0..Ttl] /\ delivered \in [Msgs -> 0..2]
    BY Sizes, SMT DEF Init
  <2>3. /\ dedup = "recv" /\ dropped = FALSE /\ client = TRUE /\ call = NoCall /\ failed = FALSE
        /\ got \in [Conns -> SUBSET Msgs]
    BY DEF Init
  <2> QED
    BY <1>1, <2>1, <2>2, <2>3 DEF TypeOK, WsInv
<1>3. EndOK
  BY DEF Init, WsInit, EndOK
<1> QED
  BY <1>1, <1>2, <1>3 DEF ClientInv

\* A connection task ends only when the receiver of its responses is gone.
LEMMA TaskEnd ==
    ASSUME WsInv, NEW c \in Conns, WsNext(c), \A d \in Conns : pc[d] = "done" => closed
    PROVE  closed' = closed /\ \A d \in Conns : pc'[d] = "done" => closed
<1>1. ASSUME NEW p, pc' = [pc EXCEPT ![c] = p], p = "done" => closed, UNCHANGED closed
      PROVE  closed' = closed /\ \A d \in Conns : pc'[d] = "done" => closed
  BY <1>1 DEF WsInv, WsTypeOK
<1>2. CASE ConnectFails(c) \/ NoticeClosed(c) \/ ForwardFails(c) \/ SocketFails(c) \/ TimedOut(c)
  BY <1>1, <1>2
  DEF ConnectFails, NoticeClosed, ForwardFails, SocketFails, TimedOut, Failed, Channels
<1>3. CASE Run(c)
  BY <1>1, <1>3, SMT DEF Run, Goto, Channels
<1>4. CASE SleepEnds(c)
  BY <1>1, <1>4 DEF SleepEnds, Goto, Channels
<1>5. CASE Connected(c) \/ Forward(c) \/ \E m \in Msgs : Receive(c, m)
  BY <1>1, <1>5 DEF Connected, Forward, Receive, Goto, Channels
<1>6. CASE GoSilent(c) \/ WsTick(c)
  BY <1>6 DEF GoSilent, WsTick, Channels
<1>7. CASE Replay(c)
  <2>1. UNCHANGED closed /\ (UNCHANGED pc \/ pc' = [pc EXCEPT ![c] = "select"])
    BY <1>7 DEF Replay, Channels
  <2> QED
    BY <1>1, <2>1
<1>8. CASE HandleRequest(c)
  <2>1. /\ UNCHANGED closed
        /\ UNCHANGED pc \/ pc' = [pc EXCEPT ![c] = IF closed THEN "done" ELSE "sleep"]
    BY <1>8 DEF HandleRequest, Failed
  <2> QED
    BY <1>1, <2>1
<1> QED
  BY <1>2, <1>3, <1>4, <1>5, <1>6, <1>7, <1>8 DEF WsNext, Task

\* Steps of the connections.
LEMMA ConnectionStep ==
    ASSUME ClientInv, NEW c \in Conns, Connection(c) \/ \E m \in Msgs : ClientReceives(c, m)
    PROVE  ClientInv'
<1>1. WsNext(c)
  BY DEF Connection, ClientReceives, WsNext, Task
<1>2. WsInv'
  BY <1>1, TaskTypes DEF ClientInv
<1>3. /\ UNCHANGED <<dedup, sending, seen, out, dropped, client, call, failed, since, delivered>>
      /\ got' \in [Conns -> SUBSET Msgs]
  <2>1. CASE Connection(c)
    BY <2>1 DEF Connection, own, ClientInv, TypeOK
  <2>2. ASSUME NEW m \in Msgs, ClientReceives(c, m) PROVE got' \in [Conns -> SUBSET Msgs]
    BY <2>2 DEF ClientReceives, ClientInv, TypeOK
  <2> QED
    BY <2>1, <2>2 DEF ClientReceives
<1>4. TypeOK'
  BY <1>2, <1>3 DEF ClientInv, TypeOK, WsInv
<1>5. EndOK'
  BY <1>1, <1>3, TaskEnd DEF ClientInv, EndOK
<1> QED
  BY <1>2, <1>4, <1>5 DEF ClientInv

\* What the user's channel takes is counted.
LEMMA DeliverTypes ==
    ASSUME TypeOK, NEW m \in Msgs, Len(out) < channel_capacity, Deliver(m)
    PROVE  /\ out' \in Seq(Msgs) /\ Len(out') <= channel_capacity
           /\ delivered' \in [Msgs -> 0..2]
<1>1. out \in Seq(Msgs) /\ out' = Append(out, m)
  BY DEF TypeOK, Deliver
<1>2. out' \in Seq(Msgs) /\ Len(out') = Len(out) + 1
  BY <1>1, SMT
<1>3. Len(out') <= channel_capacity
  BY <1>1, <1>2, Sizes, SMT
<1>4. delivered' \in [Msgs -> 0..2]
  BY SMT DEF TypeOK, Deliver
<1> QED
  BY <1>2, <1>3, <1>4

\* The duplicates' task returns.
LEMMA DedupEndsStep ==
    ASSUME ClientInv, DedupEnds
    PROVE  ClientInv'
<1>1. dropped
  <2>1. CASE dedup = "recv" /\ \A c \in Conns : pc[c] = "done"
    BY <2>1, SomeConnection DEF ClientInv, EndOK
  <2> QED
    BY <2>1 DEF DedupEnds
<1>2. /\ dedup' = "done" /\ sending' = <<>> /\ responses' = <<>> /\ closed' = TRUE
      /\ UNCHANGED <<pc, requests, subscriptions, replayed, server, silent, left, held, want, asked,
                     calls, seen, out, dropped, client, call, failed, got, since, delivered>>
  BY DEF DedupEnds, TaskReturns, Socket
<1>3. WsInv'
  <2>1. <<>> \in Seq(Msgs) /\ Len(<<>>) <= ResponseCapacity
    BY WsAssumption, SMT
  <2>2. calls \in 0..MaxCalls
    BY DEF ClientInv, WsInv, WsTypeOK
  <2> QED
    BY <1>2, <2>1, <2>2, ChannelTypes DEF ClientInv
<1>4. sending' \in Seq(Msgs) /\ Len(sending') = 0
  BY <1>2, SMT
<1>5. TypeOK'
  BY <1>2, <1>3, <1>4, SMT DEF ClientInv, TypeOK, WsInv
<1>6. EndOK'
  BY <1>1, <1>2 DEF EndOK
<1> QED
  BY <1>3, <1>5, <1>6 DEF ClientInv

\* It takes a response, and sends, keeps or drops it.
LEMMA DedupTakesStep ==
    ASSUME ClientInv, NEW m \in Msgs, DedupTakes(m)
    PROVE  ClientInv'
<1>1. /\ dedup = "recv" /\ responses # <<>> /\ responses' = Tail(responses) /\ closed' = closed
      /\ UNCHANGED <<pc, requests, subscriptions, replayed, server, silent, left, held, want, asked,
                     calls, dropped, client, call, failed, got, since>>
  BY DEF DedupTakes, Socket
<1>2. WsInv'
  <2>1. /\ responses \in Seq(Msgs) /\ Len(responses) <= ResponseCapacity
        /\ calls \in 0..MaxCalls /\ closed \in BOOLEAN
    BY DEF ClientInv, WsInv, WsTypeOK
  <2>2. responses' \in Seq(Msgs) /\ Len(responses') <= ResponseCapacity
    BY <1>1, <2>1, WsAssumption, SMT
  <2> QED
    BY <1>1, <2>1, <2>2, ChannelTypes DEF ClientInv
<1>3. seen' \in [Msgs -> 0..Ttl]
  <2>1. UNCHANGED seen \/ seen' = [seen EXCEPT ![m] = Ttl]
    BY DEF DedupTakes
  <2> QED
    BY <2>1, Sizes DEF ClientInv, TypeOK
<1>4. /\ dedup' \in {"recv", "send"}
      /\ sending' \in Seq(Msgs) /\ Len(sending') = IF dedup' = "send" THEN 1 ELSE 0
  <2>1. CASE UNCHANGED <<dedup, sending>>
    BY <1>1, <2>1 DEF ClientInv, TypeOK
  <2>2. CASE dedup' = "send" /\ sending' = <<m>>
    BY <2>2, SMT
  <2> QED
    BY <2>1, <2>2 DEF DedupTakes
<1>5. /\ out' \in Seq(Msgs) /\ Len(out') <= channel_capacity /\ delivered' \in [Msgs -> 0..2]
  <2>1. CASE UNCHANGED <<out, delivered>>
    BY <2>1 DEF ClientInv, TypeOK
  <2>2. CASE Deliver(m) /\ Len(out) < channel_capacity
    BY <2>2, DeliverTypes DEF ClientInv
  <2> QED
    BY <2>1, <2>2 DEF DedupTakes
<1>6. TypeOK'
  BY <1>1, <1>2, <1>3, <1>4, <1>5 DEF ClientInv, TypeOK, WsInv
<1>7. EndOK'
  BY <1>1, <1>4 DEF ClientInv, EndOK
<1> QED
  BY <1>2, <1>6, <1>7 DEF ClientInv

\* It sends what it kept.
LEMMA DedupSendsStep ==
    ASSUME ClientInv, DedupSends
    PROVE  ClientInv'
<1>1. /\ dedup = "send" /\ dedup' = "recv" /\ sending' = <<>> /\ Len(out) < channel_capacity
      /\ Deliver(Head(sending))
      /\ UNCHANGED wsvars /\ UNCHANGED <<seen, dropped, client, call, failed, got, since>>
  BY DEF DedupSends
<1>2. WsInv' /\ UNCHANGED <<pc, closed>>
  BY <1>1 DEF ClientInv, WsInv, WsTypeOK, TaskOK, wsvars
<1>3. Head(sending) \in Msgs
  <2>1. sending \in Seq(Msgs) /\ Len(sending) = 1
    BY <1>1 DEF ClientInv, TypeOK
  <2> QED
    BY <2>1, SMT
<1>4. /\ out' \in Seq(Msgs) /\ Len(out') <= channel_capacity /\ delivered' \in [Msgs -> 0..2]
  BY <1>1, <1>3, DeliverTypes DEF ClientInv
<1>5. sending' \in Seq(Msgs) /\ Len(sending') = 0
  BY <1>1, SMT
<1>6. TypeOK'
  BY <1>1, <1>2, <1>4, <1>5, SMT DEF ClientInv, TypeOK, WsInv
<1>7. EndOK'
  BY <1>1, <1>2 DEF ClientInv, EndOK
<1> QED
  BY <1>2, <1>6, <1>7 DEF ClientInv

\* The user reads, or drops the receiver or the client; time passes.
LEMMA UserStep ==
    ASSUME ClientInv, UserReads \/ UserDropsReceiver \/ UserDropsClient \/ Tick
    PROVE  ClientInv'
<1>1. UNCHANGED wsvars /\ UNCHANGED <<dedup, sending, call, failed, got, delivered>>
  BY DEF UserReads, UserDropsReceiver, UserDropsClient, Tick
<1>2. WsInv' /\ UNCHANGED <<pc, closed>>
  BY <1>1 DEF ClientInv, WsInv, WsTypeOK, TaskOK, wsvars
<1>3. out' \in Seq(Msgs) /\ Len(out') <= channel_capacity
  <2>1. out \in Seq(Msgs) /\ Len(out) <= channel_capacity
    BY DEF ClientInv, TypeOK
  <2>2. out' = out \/ out' = <<>> \/ (out # <<>> /\ out' = Tail(out))
    BY DEF UserReads, UserDropsReceiver, UserDropsClient, Tick
  <2>3. CASE out # <<>> /\ out' = Tail(out)
    <3>1. out' \in Seq(Msgs) /\ Len(out') = Len(out) - 1
      BY <2>1, <2>3, SMT
    <3> QED
      BY <2>1, <3>1, Sizes, SMT
  <2>4. CASE out' = <<>>
    BY <2>4, Sizes, SMT
  <2> QED
    BY <2>1, <2>2, <2>3, <2>4
<1>4. seen' \in [Msgs -> 0..Ttl] /\ since' \in [Msgs -> 0..Ttl]
  <2>1. seen \in [Msgs -> 0..Ttl] /\ since \in [Msgs -> 0..Ttl]
    BY DEF ClientInv, TypeOK
  <2>2. CASE Tick
    <3>1. /\ seen' = [m \in Msgs |-> IF seen[m] > 0 THEN seen[m] - 1 ELSE 0]
          /\ since' = [m \in Msgs |-> IF since[m] < Ttl /\ \E c \in Conns : m \in got[c]
                                        THEN since[m] + 1 ELSE since[m]]
      BY <2>2 DEF Tick
    <3>2. \A m \in Msgs : seen'[m] \in 0..Ttl /\ since'[m] \in 0..Ttl
      BY <2>1, <3>1, Sizes, SMT
    <3> QED
      BY <3>1, <3>2
  <2>3. CASE UNCHANGED <<seen, since>>
    BY <2>1, <2>3
  <2> QED
    BY <2>2, <2>3 DEF UserReads, UserDropsReceiver, UserDropsClient
<1>5. dropped' \in BOOLEAN /\ client' \in BOOLEAN /\ (dropped => dropped')
  BY DEF UserReads, UserDropsReceiver, UserDropsClient, Tick, ClientInv, TypeOK
<1>6. TypeOK'
  BY <1>1, <1>2, <1>3, <1>4, <1>5 DEF ClientInv, TypeOK, WsInv
<1>7. EndOK'
  BY <1>1, <1>2, <1>5 DEF ClientInv, EndOK
<1> QED
  BY <1>2, <1>6, <1>7 DEF ClientInv

\* The steps of a call; one fails only at a connection task that has ended.
LEMMA CallStep ==
    ASSUME ClientInv, CallSends \/ CallFails \/ \E r \in Requests : UserCalls(r)
    PROVE  ClientInv'
<1> DEFINE n == Len(ws_connections)
           w == ws_connections[call[2]]
<1>1. ws_connections \in Seq(Conns) /\ n \in Nat \ {0} /\ DOMAIN ws_connections = 1..n
  BY ClientAssumption, SMT
<1>2. call # NoCall => call \in Requests \X (1..n)
  BY <1>1 DEF ClientInv, TypeOK
<1>3. call # NoCall => call[1] \in Requests /\ call[2] \in 1..n
  <2> HIDE DEF n
  <2> QED
    BY <1>2
<1>4. call # NoCall => w \in Conns
  BY <1>1, <1>3, SMT
<1>5. /\ UNCHANGED <<pc, closed, dedup, sending, seen, out, dropped, client, got, since, delivered>>
  BY DEF CallSends, CallFails, UserCalls, wsvars
<1>6. WsInv'
  <2>1. CASE CallSends
    <3>1. /\ Ask(w, call[1]) /\ call # NoCall
          /\ UNCHANGED <<pc, subscriptions, Socket, want, responses, closed, calls>>
      BY <2>1 DEF CallSends
    <3>2. calls' \in 0..MaxCalls
      BY <3>1 DEF ClientInv, WsInv, WsTypeOK
    <3> HIDE DEF w
    <3> QED
      BY <1>3, <1>4, <3>1, <3>2, AskTypes DEF ClientInv
  <2>2. CASE CallFails
    BY <2>2 DEF CallFails, ClientInv, WsInv, WsTypeOK, TaskOK, wsvars
  <2>3. ASSUME NEW r \in Requests, UserCalls(r) PROVE WsInv'
    <3>1. /\ UNCHANGED <<pc, requests, subscriptions, replayed, server, silent, left, held, want,
                         asked, responses, closed>>
          /\ calls' = calls + 1 /\ calls < MaxCalls
      BY <2>3 DEF UserCalls, Socket
    <3>2. calls' \in 0..MaxCalls
      BY <3>1, WsAssumption, SMT DEF ClientInv, WsInv, WsTypeOK
    <3>3. responses' \in Seq(Msgs) /\ Len(responses') <= ResponseCapacity /\ closed' \in BOOLEAN
      BY <3>1 DEF ClientInv, WsInv, WsTypeOK
    <3> QED
      BY <3>1, <3>2, <3>3, ChannelTypes DEF ClientInv
  <2> QED
    BY <2>1, <2>2, <2>3
<1>7. call' \in {NoCall} \cup (Requests \X DOMAIN ws_connections)
  <2>1. CASE CallSends
    <3>1. call # NoCall /\ call' = IF call[2] = n THEN NoCall ELSE <<call[1], call[2] + 1>>
      BY <2>1 DEF CallSends
    <3>2. call[2] # n => call[2] + 1 \in 1..n
      BY <1>1, <1>3, <3>1, SMT
    <3> HIDE DEF n
    <3> QED
      BY <1>1, <1>3, <3>1, <3>2
  <2>2. CASE CallFails
    BY <2>2 DEF CallFails
  <2>3. CASE \E r \in Requests : UserCalls(r)
    <3>1. 1 \in DOMAIN ws_connections
      BY <1>1, SMT
    <3> QED
      BY <2>3, <3>1, SMT DEF UserCalls
  <2> QED
    BY <2>1, <2>2, <2>3
<1>8. failed' \in BOOLEAN /\ (failed' => dropped)
  <2>1. CASE CallFails
    <3>1. closed
      BY <1>4, <2>1 DEF CallFails, ClientInv, EndOK
    <3> QED
      BY <2>1, <3>1 DEF CallFails, ClientInv, EndOK
  <2>2. CASE CallSends
    BY <2>2 DEF CallSends, ClientInv, EndOK, TypeOK
  <2>3. CASE \E r \in Requests : UserCalls(r)
    BY <2>3 DEF UserCalls
  <2> QED
    BY <2>1, <2>2, <2>3
<1>9. TypeOK'
  BY <1>5, <1>6, <1>7, <1>8 DEF ClientInv, TypeOK, WsInv
<1>10. EndOK'
  BY <1>5, <1>8 DEF ClientInv, EndOK
<1> QED
  BY <1>6, <1>9, <1>10 DEF ClientInv

\* Every step keeps the types and the order in which the client ends.
LEMMA ClientStep == ClientInv /\ [Next]_vars => ClientInv'
<1> SUFFICES ASSUME ClientInv, [Next]_vars PROVE ClientInv'
  OBVIOUS
<1>1. CASE UNCHANGED vars
  <2>1. UNCHANGED wsvars /\ UNCHANGED own
    BY <1>1 DEF vars
  <2>2. WsInv' /\ UNCHANGED <<pc, closed>>
    BY <2>1 DEF ClientInv, WsInv, WsTypeOK, TaskOK, wsvars
  <2>3. TypeOK'
    BY <2>1, <2>2 DEF ClientInv, TypeOK, WsInv, own
  <2>4. EndOK'
    BY <2>1, <2>2 DEF ClientInv, EndOK, own
  <2> QED
    BY <2>2, <2>3, <2>4 DEF ClientInv
<1>2. CASE Next
  BY <1>2, ConnectionStep, DedupEndsStep, DedupTakesStep, DedupSendsStep, UserStep, CallStep DEF Next
<1> QED
  BY <1>1, <1>2

\* The types of the client, with the bounds of its channels and its caches.
THEOREM ClientTypes == Spec => []TypeOK
<1>1. ClientInv => TypeOK
  BY DEF ClientInv
<1> QED
  BY <1>1, InitClient, ClientStep, PTL DEF Spec

\* subscribe and unsubscribe return an error only after the user dropped the
\* receiver, whatever happens to the sockets.
THEOREM ErrorsMeanShutdown == Spec => []ErrorMeansShutdown
<1>1. ClientInv => ErrorMeansShutdown
  BY DEF ClientInv, EndOK, ErrorMeansShutdown
<1> QED
  BY <1>1, InitClient, ClientStep, PTL DEF Spec

-----------------------------------------------------------------------------
(* Each response is delivered once *)

Has(s, m) == \E i \in 1..Len(s) : s[i] = m

Received(m) == \E c \in Conns : m \in got[c]

\* A copy of the response is on its way to the duplicates' task.
Copied(m) == (\E c \in Conns : held[c] = <<m>>) \/ Has(responses, m)

\* The task has not seen the response: a copy of it is on its way if any
\* connection has received one.
Unseen(m) ==
    /\ seen[m] = 0 /\ since[m] = 0 /\ delivered[m] = 0 /\ sending # <<m>>
    /\ Received(m) <=> Copied(m)

\* The task has seen it: its entry of the cache has been there as long as the
\* first copy has, the response was delivered once or is being so, and no copy is
\* on its way once the entry is gone.
Known(m) ==
    /\ Received(m) /\ seen[m] + since[m] = Ttl
    /\ delivered[m] <= (IF sending = <<m>> THEN 0 ELSE 1)
    /\ since[m] = Ttl => ~Copied(m)

OnceInv ==
    /\ dedup # "done" => \A m \in Msgs : Unseen(m) \/ Known(m)
    /\ DeliveredOnce

\* A sequence and one more element.
LEMMA HasConcat ==
    ASSUME NEW S, NEW s \in Seq(S), NEW x \in S, NEW m
    PROVE  Has(s \o <<x>>, m) <=> Has(s, m) \/ m = x
<1> DEFINE t == s \o <<x>>
<1>1. /\ Len(s) \in Nat /\ Len(t) = Len(s) + 1
      /\ t[Len(s) + 1] = x /\ \A i \in 1..Len(s) : t[i] = s[i]
  BY SMT
<1> HIDE DEF t
<1>2. Has(t, m) <=> Has(s, m) \/ m = x
  BY <1>1, SMT DEF Has
<1> QED
  BY <1>2 DEF t

\* A sequence and its tail.
LEMMA HasTail ==
    ASSUME NEW S, NEW s \in Seq(S), s # <<>>, NEW m
    PROVE  Has(s, m) <=> m = Head(s) \/ Has(Tail(s), m)
<1> DEFINE t == Tail(s)
<1>1. /\ Len(s) \in Nat \ {0} /\ Len(t) = Len(s) - 1 /\ s[1] = Head(s)
      /\ \A i \in 1..Len(t) : t[i] = s[i + 1]
  BY SMT
<1> HIDE DEF t
<1>2. ASSUME Has(s, m), m # Head(s) PROVE Has(t, m)
  <2>1. PICK i \in 1..Len(s) : s[i] = m
    BY <1>2 DEF Has
  <2>2. i - 1 \in 1..Len(t) /\ (i - 1) + 1 = i
    BY <1>1, <1>2, <2>1, SMT
  <2> QED
    BY <1>1, <2>1, <2>2 DEF Has
<1>3. ASSUME Has(t, m) PROVE Has(s, m)
  <2>1. PICK i \in 1..Len(t) : t[i] = m
    BY <1>3 DEF Has
  <2> QED
    BY <1>1, <2>1, SMT DEF Has
<1>4. m = Head(s) => Has(s, m)
  BY <1>1, SMT DEF Has
<1> QED
  BY <1>2, <1>3, <1>4 DEF t

\* A step does not concern the response.
Untouched(m) ==
    /\ seen'[m] = seen[m] /\ since'[m] = since[m] /\ delivered'[m] = delivered[m]
    /\ (sending' = <<m>>) <=> (sending = <<m>>)
    /\ Received(m)' <=> Received(m)
    /\ Copied(m)' <=> Copied(m)

\* Such a step leaves it unseen or known.
LEMMA UntouchedOK ==
    ASSUME NEW m, Unseen(m) \/ Known(m), Untouched(m)
    PROVE  Unseen(m)' \/ Known(m)'
<1>1. CASE Unseen(m)
  <2>1. Unseen(m)'
    BY <1>1 DEF Unseen, Untouched
  <2> QED
    BY <2>1
<1>2. CASE Known(m)
  <2>1. Known(m)'
    BY <1>2 DEF Known, Untouched
  <2> QED
    BY <2>1
<1> QED
  BY <1>1, <1>2

\* No copy is lost or made between a socket and the duplicates' task, as long as
\* that task runs.
LEMMA CopiesKept ==
    ASSUME ClientInv, dedup # "done", NEW c \in Conns, Connection(c)
    PROVE  \A m \in Msgs : Copied(m)' <=> Copied(m)
<1>1. ~closed /\ held \in [Conns -> Seq(Msgs)] /\ pc \in [Conns -> Pcs]
  BY DEF ClientInv, EndOK, WsInv, WsTypeOK, Pcs
<1>2. CASE Forward(c)
  <2>1. /\ pc[c] = "forward" /\ responses' = responses \o held[c]
        /\ held' = [held EXCEPT ![c] = <<>>]
    BY <1>2 DEF Forward, Goto
  <2>2. PICK x \in Msgs : held[c] = <<x>>
    BY <2>1 DEF ClientInv, WsInv, TaskOK
  <2>3. responses \in Seq(Msgs)
    BY DEF ClientInv, WsInv, WsTypeOK
  <2> SUFFICES ASSUME NEW m \in Msgs PROVE Copied(m)' <=> Copied(m)
    OBVIOUS
  <2>4. Has(responses', m) <=> Has(responses, m) \/ m = x
    BY <2>1, <2>2, <2>3, HasConcat
  <2>5. \A d \in Conns : d # c => held'[d] = held[d]
    BY <1>1, <2>1
  <2>6. held'[c] # <<m>> /\ (held[c] = <<m>> <=> m = x)
    BY <1>1, <2>1, <2>2, SMT
  <2>7. (\E d \in Conns : held'[d] = <<m>>) <=> (\E d \in Conns : d # c /\ held[d] = <<m>>)
    BY <2>5, <2>6
  <2> QED
    BY <2>4, <2>6, <2>7 DEF Copied, Has
<1>3. CASE ~Forward(c)
  <2>1. pc[c] # "forward" /\ responses' = responses
        /\ (held' = held \/ held' = [held EXCEPT ![c] = <<>>])
    <3>1. CASE Run(c) \/ SleepEnds(c) \/ Connected(c)
      BY <3>1 DEF Run, SleepEnds, Connected, Goto, Socket, Channels
    <3>2. CASE ConnectFails(c) \/ NoticeClosed(c) \/ SocketFails(c)
      BY <3>2 DEF ConnectFails, NoticeClosed, SocketFails, Failed, Channels
    <3>3. CASE ForwardFails(c)
      BY <1>1, <3>3 DEF ForwardFails
    <3>4. CASE Replay(c)
      BY <3>4 DEF Replay, Channels
    <3>5. CASE HandleRequest(c)
      BY <3>5 DEF HandleRequest, Failed
    <3> QED
      BY <1>3, <3>1, <3>2, <3>3, <3>4, <3>5 DEF Connection
  <2>2. held[c] = <<>>
    BY <2>1 DEF ClientInv, WsInv, TaskOK
  <2>3. held' = held
    BY <1>1, <2>1, <2>2
  <2> QED
    BY <2>1, <2>3 DEF Copied, Has
<1> QED
  BY <1>2, <1>3

\* A connection receives a response: from now on a copy is on its way.
LEMMA ReceiveOnce ==
    ASSUME ClientInv, NEW c \in Conns, NEW x \in Msgs, ClientReceives(c, x),
           \A m \in Msgs : Unseen(m) \/ Known(m)
    PROVE  \A m \in Msgs : Unseen(m)' \/ Known(m)'
<1>1. /\ pc[c] = "select" /\ since[x] < Ttl
      /\ held' = [held EXCEPT ![c] = <<x>>] /\ responses' = responses
      /\ got' = [got EXCEPT ![c] = @ \cup {x}]
      /\ UNCHANGED <<seen, since, delivered, sending>>
  BY DEF ClientReceives, Receive, Goto, Channels
<1>2. held \in [Conns -> Seq(Msgs)] /\ got \in [Conns -> SUBSET Msgs] /\ held[c] = <<>>
  BY <1>1 DEF ClientInv, WsInv, WsTypeOK, TaskOK, TypeOK
<1>3. /\ held'[c] = <<x>> /\ got'[c] = got[c] \cup {x}
      /\ \A d \in Conns : d # c => held'[d] = held[d] /\ got'[d] = got[d]
  BY <1>1, <1>2
<1>4. Received(x)' /\ Copied(x)'
  BY <1>3 DEF Received, Copied
<1>5. Unseen(x)' \/ Known(x)'
  <2>1. CASE Unseen(x)
    <3>1. Unseen(x)'
      BY <1>1, <1>4, <2>1 DEF Unseen
    <3> QED
      BY <3>1
  <2>2. CASE Known(x)
    <3>1. since'[x] # Ttl
      BY <1>1, Sizes, SMT DEF ClientInv, TypeOK
    <3>2. Known(x)'
      BY <1>1, <1>4, <2>2, <3>1 DEF Known
    <3> QED
      BY <3>2
  <2> QED
    BY <2>1, <2>2
<1>6. ASSUME NEW m \in Msgs, m # x PROVE Unseen(m)' \/ Known(m)'
  <2>1. Received(m)' <=> Received(m)
    BY <1>3, <1>6 DEF Received
  <2>2. <<x>> # <<m>> /\ <<>> # <<m>>
    BY <1>6
  <2>3. Copied(m)' <=> Copied(m)
    BY <1>1, <1>2, <1>3, <2>2 DEF Copied, Has
  <2>4. Untouched(m)
    BY <1>1, <2>1, <2>3 DEF Untouched
  <2> QED
    BY <2>4, UntouchedOK
<1> QED
  BY <1>5, <1>6

\* The task takes a response: a first copy is remembered and delivered, or kept
\* until there is room; any other is dropped, its entry still being there.
LEMMA TakeOnce ==
    ASSUME ClientInv, NEW x \in Msgs, DedupTakes(x), \A m \in Msgs : Unseen(m) \/ Known(m)
    PROVE  \A m \in Msgs : Unseen(m)' \/ Known(m)'
<1>1. /\ dedup = "recv" /\ responses # <<>> /\ x = Head(responses) /\ responses' = Tail(responses)
      /\ UNCHANGED <<held, got, since>>
  BY DEF DedupTakes, Socket
<1>2. responses \in Seq(Msgs) /\ sending = <<>>
  BY <1>1, SMT DEF ClientInv, WsInv, WsTypeOK, TypeOK
<1>3. /\ seen \in [Msgs -> 0..Ttl] /\ since \in [Msgs -> 0..Ttl] /\ delivered \in [Msgs -> 0..2]
      /\ seen'[x] \in 0..Ttl
  BY DedupTakesStep DEF ClientInv, TypeOK
<1>4. \A m : Received(m)' <=> Received(m)
  BY <1>1 DEF Received
<1>5. \A m : Has(responses, m) <=> m = x \/ Has(responses', m)
  BY <1>1, <1>2, HasTail
<1>6. Copied(x)
  BY <1>5 DEF Copied
<1>7. CASE seen[x] > 0
  <2>1. UNCHANGED <<sending, seen, delivered>>
    BY <1>3, <1>7, SMT DEF DedupTakes
  <2>2. ASSUME NEW m \in Msgs, m # x PROVE Unseen(m)' \/ Known(m)'
    <3>1. Copied(m)' <=> Copied(m)
      BY <1>1, <1>5, <2>2 DEF Copied, Has
    <3>2. Untouched(m)
      BY <1>1, <1>4, <2>1, <3>1 DEF Untouched
    <3> QED
      BY <3>2, UntouchedOK
  <2>3. Known(x)'
    <3>1. Known(x)
      BY <1>3, <1>7, SMT DEF Unseen
    <3>2. since[x] # Ttl
      BY <1>6, <3>1 DEF Known
    <3> QED
      BY <1>1, <1>4, <2>1, <3>1, <3>2 DEF Known
  <2> QED
    BY <2>2, <2>3
<1>8. CASE ~(seen[x] > 0)
  <2>1. /\ seen' = [seen EXCEPT ![x] = Ttl]
        /\ \/ Deliver(x) /\ sending' = sending
           \/ delivered' = delivered /\ sending' = <<x>>
    BY <1>8 DEF DedupTakes
  <2>2. seen'[x] = Ttl /\ \A m \in Msgs : m # x => seen'[m] = seen[m]
    BY <1>3, <2>1
  <2>3. \A m \in Msgs : m # x => delivered'[m] = delivered[m]
    BY <1>3, <2>1 DEF Deliver
  <2>4. ASSUME NEW m \in Msgs, m # x PROVE Unseen(m)' \/ Known(m)'
    <3>1. Copied(m)' <=> Copied(m)
      BY <1>1, <1>5, <2>4 DEF Copied, Has
    <3>2. (sending' = <<m>>) <=> (sending = <<m>>)
      <4>1. sending' = <<>> \/ sending' = <<x>>
        BY <1>2, <2>1
      <4>2. <<>> # <<m>> /\ <<x>> # <<m>>
        BY <2>4
      <4> QED
        BY <1>2, <4>1, <4>2
    <3>3. Untouched(m)
      BY <1>1, <1>4, <2>2, <2>3, <2>4, <3>1, <3>2 DEF Untouched
    <3> QED
      BY <3>3, UntouchedOK
  <2>5. Unseen(x)
    <3>1. ASSUME Known(x) PROVE FALSE
      <4>1. seen[x] = 0 /\ since[x] \in 0..Ttl /\ seen[x] + since[x] = Ttl
        BY <1>3, <1>8, <3>1, SMT DEF Known
      <4>2. since[x] = Ttl
        BY <4>1, Sizes, SMT
      <4> QED
        BY <1>6, <3>1, <4>2 DEF Known
    <3> QED
      BY <3>1
  <2>6. since'[x] = 0 /\ delivered[x] = 0 /\ Received(x)'
    BY <1>1, <1>4, <1>6, <2>5 DEF Unseen
  <2>7. delivered'[x] <= (IF sending' = <<x>> THEN 0 ELSE 1)
    <3>1. CASE Deliver(x) /\ sending' = sending
      <4>1. delivered'[x] = 1
        BY <1>3, <2>6, <3>1, SMT DEF Deliver
      <4>2. sending' # <<x>>
        BY <1>2, <3>1
      <4> QED
        BY <4>1, <4>2, SMT
    <3>2. CASE delivered' = delivered /\ sending' = <<x>>
      BY <2>6, <3>2, SMT
    <3> QED
      BY <2>1, <3>1, <3>2
  <2>8. Known(x)'
    BY <2>2, <2>6, <2>7, Sizes, SMT DEF Known
  <2> QED
    BY <2>4, <2>8
<1> QED
  BY <1>7, <1>8

\* It sends what it kept, once.
LEMMA SendOnce ==
    ASSUME ClientInv, DedupSends, \A m \in Msgs : Unseen(m) \/ Known(m)
    PROVE  \A m \in Msgs : Unseen(m)' \/ Known(m)'
<1>1. /\ dedup = "send" /\ sending' = <<>> /\ Deliver(Head(sending))
      /\ UNCHANGED <<held, responses, seen, got, since>>
  BY DEF DedupSends, wsvars
<1>2. PICK x \in Msgs : sending = <<x>> /\ Head(sending) = x
  <2>1. sending \in Seq(Msgs) /\ Len(sending) = 1
    BY <1>1 DEF ClientInv, TypeOK
  <2>2. sending = <<sending[1]>> /\ sending[1] \in Msgs /\ Head(sending) = sending[1]
    BY <2>1, SMT
  <2> QED
    BY <2>2
<1>3. delivered \in [Msgs -> 0..2]
  BY DEF ClientInv, TypeOK
<1>4. \A m : (Received(m)' <=> Received(m)) /\ (Copied(m)' <=> Copied(m))
  BY <1>1 DEF Received, Copied, Has
<1>5. ASSUME NEW m \in Msgs, m # x PROVE Unseen(m)' \/ Known(m)'
  <2>1. (sending' = <<m>>) <=> (sending = <<m>>)
    BY <1>1, <1>2, <1>5
  <2>2. delivered'[m] = delivered[m]
    BY <1>1, <1>2, <1>3, <1>5 DEF Deliver
  <2>3. Untouched(m)
    BY <1>1, <1>4, <2>1, <2>2 DEF Untouched
  <2> QED
    BY <2>3, UntouchedOK
<1>6. Known(x)'
  <2>1. Known(x)
    BY <1>2 DEF Unseen
  <2>2. delivered[x] = 0
    BY <1>2, <1>3, <2>1, SMT DEF Known
  <2>3. delivered'[x] = 1
    BY <1>1, <1>2, <1>3, <2>2, SMT DEF Deliver
  <2>4. sending' # <<x>>
    BY <1>1
  <2> QED
    BY <1>1, <1>4, <2>1, <2>3, <2>4, SMT DEF Known
<1> QED
  BY <1>5, <1>6

\* Time passes only when nothing is on its way, so that the entry of a response
\* and the time since its first copy go together.
LEMMA TickOnce ==
    ASSUME ClientInv, dedup # "done", PromptReader = TRUE, Tick,
           \A m \in Msgs : Unseen(m) \/ Known(m)
    PROVE  \A m \in Msgs : Unseen(m)' \/ Known(m)'
<1>1. dedup = "recv" /\ sending = <<>>
  BY SMT DEF Tick, ClientInv, TypeOK
<1>2. responses = <<>> /\ \A c \in Conns : held[c] = <<>>
  <2>1. responses = <<>>
    BY <1>1 DEF Tick, TasksWait
  <2>2. Len(responses) < ResponseCapacity
    BY <2>1, WsAssumption, SMT
  <2> QED
    BY <2>1, <2>2 DEF Tick, TasksWait
<1>3. \A m : ~Copied(m)
  BY <1>2, SMT DEF Copied, Has
<1>4. /\ UNCHANGED <<held, responses, sending, delivered, got>>
      /\ seen' = [m \in Msgs |-> IF seen[m] > 0 THEN seen[m] - 1 ELSE 0]
      /\ since' = [m \in Msgs |-> IF since[m] < Ttl /\ Received(m) THEN since[m] + 1 ELSE since[m]]
  BY DEF Tick, wsvars, Received
<1>5. \A m : (Received(m)' <=> Received(m)) /\ (Copied(m)' <=> Copied(m))
  BY <1>4 DEF Received, Copied, Has
<1> SUFFICES ASSUME NEW m \in Msgs PROVE Unseen(m)' \/ Known(m)'
  OBVIOUS
<1>6. /\ seen[m] \in 0..Ttl /\ since[m] \in 0..Ttl
      /\ seen'[m] = IF seen[m] > 0 THEN seen[m] - 1 ELSE 0
      /\ since'[m] = IF since[m] < Ttl /\ Received(m) THEN since[m] + 1 ELSE since[m]
  BY <1>4 DEF ClientInv, TypeOK
<1>7. CASE Unseen(m)
  <2>1. ~Received(m) /\ seen'[m] = 0 /\ since'[m] = 0
    BY <1>3, <1>6, <1>7, SMT DEF Unseen
  <2>2. Unseen(m)'
    BY <1>4, <1>5, <1>7, <2>1 DEF Unseen
  <2> QED
    BY <2>2
<1>8. CASE Known(m)
  <2>1. Received(m) /\ seen[m] + since[m] = Ttl
    BY <1>8 DEF Known
  <2>2. seen'[m] + since'[m] = Ttl
    BY <1>6, <2>1, Sizes, SMT
  <2>3. Known(m)'
    BY <1>3, <1>4, <1>5, <1>8, <2>1, <2>2 DEF Known
  <2> QED
    BY <2>3
<1> QED
  BY <1>7, <1>8

\* Steps of the user, and calls, concern no response before it is delivered.
LEMMA UserOnce ==
    ASSUME UNCHANGED <<held, responses, seen, since, delivered, sending, got>>,
           \A m \in Msgs : Unseen(m) \/ Known(m)
    PROVE  \A m \in Msgs : Unseen(m)' \/ Known(m)'
<1> SUFFICES ASSUME NEW m \in Msgs PROVE Unseen(m)' \/ Known(m)'
  OBVIOUS
<1>1. Untouched(m)
  BY DEF Untouched, Received, Copied, Has
<1> QED
  BY <1>1, UntouchedOK

\* The duplicates' task ends once, and nothing is delivered by that or afterwards.
LEMMA NothingAfterEnd ==
    ASSUME [Next]_vars, dedup = "done" \/ dedup' = "done"
    PROVE  dedup' = "done" /\ UNCHANGED delivered
<1>1. CASE DedupEnds
  BY <1>1 DEF DedupEnds, TaskReturns
<1>2. CASE UNCHANGED <<dedup, delivered>>
  BY <1>2
<1>3. \A m \in Msgs : ~DedupTakes(m)
  <2> SUFFICES ASSUME NEW m \in Msgs, DedupTakes(m) PROVE FALSE
    OBVIOUS
  <2>1. dedup = "recv" /\ dedup' \in {"recv", "send"}
    BY DEF DedupTakes
  <2> QED
    BY <2>1
<1>4. ~DedupSends
  BY DEF DedupSends
<1>5. DedupEnds \/ UNCHANGED <<dedup, delivered>>
  <2>1. CASE \E c \in Conns : Connection(c) \/ \E m \in Msgs : ClientReceives(c, m)
    BY <2>1 DEF Connection, ClientReceives, own
  <2>2. CASE UserReads \/ UserDropsReceiver \/ UserDropsClient \/ Tick
    BY <2>2 DEF UserReads, UserDropsReceiver, UserDropsClient, Tick
  <2>3. CASE (\E r \in Requests : UserCalls(r)) \/ CallSends \/ CallFails
    BY <2>3 DEF UserCalls, CallSends, CallFails
  <2>4. CASE UNCHANGED vars
    BY <2>4 DEF vars, own
  <2> QED
    BY <1>3, <1>4, <2>1, <2>2, <2>3, <2>4 DEF Next
<1> QED
  BY <1>1, <1>2, <1>5

\* Every step keeps each response once.
LEMMA OnceStep ==
    ASSUME PromptReader = TRUE
    PROVE  ClientInv /\ OnceInv /\ [Next]_vars => OnceInv'
<1> SUFFICES ASSUME ClientInv, OnceInv, [Next]_vars PROVE OnceInv'
  OBVIOUS
<1>1. ClientInv'
  BY ClientStep
<1>2. CASE dedup # "done" /\ dedup' # "done"
  <2>1. \A m \in Msgs : Unseen(m) \/ Known(m)
    BY <1>2 DEF OnceInv
  <2>2. ASSUME NEW c \in Conns, Connection(c) PROVE \A m \in Msgs : Unseen(m)' \/ Known(m)'
    <3>1. UNCHANGED <<seen, since, delivered, sending, got>>
      BY <2>2 DEF Connection, own
    <3>2. \A m \in Msgs : Untouched(m)
      BY <1>2, <2>2, <3>1, CopiesKept DEF Untouched, Received
    <3> QED
      BY <2>1, <3>2, UntouchedOK
  <2>3. ASSUME UNCHANGED vars \/ UserReads \/ UserDropsReceiver \/ UserDropsClient
                   \/ (\E r \in Requests : UserCalls(r)) \/ CallSends \/ CallFails
        PROVE  \A m \in Msgs : Unseen(m)' \/ Known(m)'
    <3>1. UNCHANGED <<held, responses, seen, since, delivered, sending, got>>
      <4>1. CASE UNCHANGED vars
        BY <4>1 DEF vars, wsvars, own
      <4>2. CASE UserReads \/ UserDropsReceiver \/ UserDropsClient
        BY <4>2 DEF UserReads, UserDropsReceiver, UserDropsClient, wsvars
      <4>3. CASE (\E r \in Requests : UserCalls(r)) \/ CallSends \/ CallFails
        BY <4>3 DEF UserCalls, CallSends, CallFails, wsvars, Socket
      <4> QED
        BY <2>3, <4>1, <4>2, <4>3
    <3> QED
      BY <2>1, <3>1, UserOnce
  <2>4. ~DedupEnds
    BY <1>2 DEF DedupEnds, TaskReturns
  <2>5. \A m \in Msgs : Unseen(m)' \/ Known(m)'
    BY <1>2, <2>1, <2>2, <2>3, <2>4, ReceiveOnce, TakeOnce, SendOnce, TickOnce DEF Next
  <2>6. DeliveredOnce'
    <3> SUFFICES ASSUME NEW m \in Msgs PROVE delivered'[m] <= 1
      BY DEF DeliveredOnce
    <3>1. delivered'[m] \in 0..2
      BY <1>1 DEF ClientInv, TypeOK
    <3> QED
      BY <2>5, <3>1, SMT DEF Unseen, Known
  <2> QED
    BY <2>5, <2>6 DEF OnceInv
<1>3. CASE dedup = "done" \/ dedup' = "done"
  BY <1>3, NothingAfterEnd DEF OnceInv, DeliveredOnce
<1> QED
  BY <1>2, <1>3

\* Identical messages received from several connections are delivered once (the
\* words of start), for any number of connections and responses and any
\* capacities, when the user reads in less than a tick.
THEOREM OneDelivery ==
    ASSUME PromptReader = TRUE
    PROVE  Spec => []DeliveredOnce
<1>1. Init => ClientInv /\ OnceInv
  <2> SUFFICES ASSUME Init PROVE OnceInv
    BY InitClient
  <2>1. ASSUME NEW m \in Msgs PROVE Unseen(m)
    <3>1. seen[m] = 0 /\ since[m] = 0 /\ delivered[m] = 0 /\ sending # <<m>>
      BY DEF Init
    <3>2. ~Received(m) /\ ~Copied(m)
      BY SMT DEF Init, WsInit, Received, Copied, Has
    <3> QED
      BY <3>1, <3>2 DEF Unseen
  <2>2. DeliveredOnce
    BY SMT DEF Init, DeliveredOnce
  <2> QED
    BY <2>1, <2>2 DEF OnceInv
<1>2. OnceInv => DeliveredOnce
  BY DEF OnceInv
<1> QED
  BY <1>1, <1>2, ClientStep, OnceStep, PTL DEF Spec
=============================================================================
