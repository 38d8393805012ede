---------------------------- MODULE LegacyHandle ----------------------------
(***************************************************************************)
(* One connection of the agent's legacy JRPC adapter                       *)
(* (agent/src/legacy_handle.rs): the handler's select loop, the dispatch   *)
(* of its requests, and the SchedManager with one timer task per           *)
(* subscription to notify_price_sched.                                     *)
(*                                                                         *)
(* A tokio Notify holds at most one permit: wake and reset[i] are those    *)
(* permits.  A timer task that has been woken runs before the clock moves  *)
(* on; the handler may be late by any number of ticks.                     *)
(***************************************************************************)
EXTENDS Naturals, Sequences, FiniteSets

CONSTANTS
    Accounts,     \* accounts that parse as a feed id
    BadAccount,   \* an account that does not
    Interval,     \* legacy_sched_interval_duration, in ticks
    MaxSubs,      \* bound: subscriptions of the connection
    MaxMessage    \* bound: requests in one message

ASSUME LegacyAssumption ==
    /\ BadAccount \notin Accounts
    /\ Interval \in Nat \ {0} /\ MaxSubs \in Nat /\ MaxMessage \in Nat

AllAccounts == Accounts \cup {BadAccount}

\* The requests dispatch_request tells apart; "invalid" fails to deserialize,
\* "products" stands for the three product queries.
Request ==
    [method : {"invalid", "products", "subscribe_price"}, account : {BadAccount}]
        \cup [method : {"subscribe_price_sched", "update_price"}, account : AllAccounts]

\* A JSON array of requests; an object is an array of one.
Batch == UNION {[1..n -> Request] : n \in 0..MaxMessage}

VARIABLES
    pc,            \* where the handler is
    requests,      \* requests of the message still to be dispatched
    responses,     \* responses collected for the message
    subs,          \* SchedManager.by_account: the account of each subscription
    ready,         \* SchedManager.subs: the flag of each subscription
    wake,          \* permit of SchedManager.wake
    reset,         \* permit of each timer's reset
    timer,         \* each timer task: "sleep", or "stored" between store and notify
    left,          \* ticks left of each timer's sleep
    scan,          \* subscriptions take_ready has still to look at
    ready_ids,     \* subscriptions take_ready found ready
    notice,        \* the notifications flushed by the last step, if it flushed
    since          \* per account, ticks since the last accepted update, at most Interval

handler == <<pc, requests, responses>>
timers == <<ready, wake, reset, timer, left>>
legacyvars == <<pc, requests, responses, subs, ready, wake, reset, timer, left, scan, ready_ids, notice, since>>

Ids == DOMAIN subs

LegacyInit ==
    /\ pc = "select"
    /\ requests = <<>> /\ responses = <<>>
    /\ subs = <<>> /\ ready = <<>> /\ reset = <<>> /\ timer = <<>> /\ left = <<>>
    /\ wake = FALSE
    /\ scan = {} /\ ready_ids = {} /\ notice = {}
    /\ since = [a \in AllAccounts |-> Interval]

-----------------------------------------------------------------------------
(* The timer task spawned by SchedManager::subscribe *)

Open == pc # "closed"

\* The sleep is over: the flag is stored.
TimerStores(i) ==
    /\ Open /\ timer[i] = "sleep" /\ left[i] = 0
    /\ ready' = [ready EXCEPT ![i] = TRUE]
    /\ timer' = [timer EXCEPT ![i] = "stored"]
    /\ notice' = {}
    /\ UNCHANGED <<handler, subs, wake, reset, left, scan, ready_ids, since>>

\* Mutant: the timer notifies over and over without a next sleep.
TimerNotifiesOnly(i) ==
    /\ Open /\ timer[i] = "stored"
    /\ wake' = TRUE
    /\ notice' = {}
    /\ UNCHANGED <<handler, subs, ready, timer, reset, left, scan, ready_ids, since>>

\* The handler is woken and the next sleep begins.
TimerNotifies(i) ==
    /\ Open /\ timer[i] = "stored"
    /\ wake' = TRUE
    /\ timer' = [timer EXCEPT ![i] = "sleep"]
    /\ left' = [left EXCEPT ![i] = Interval]
    /\ notice' = {}
    /\ UNCHANGED <<handler, subs, ready, reset, scan, ready_ids, since>>

\* The reset branch: the sleep begins anew.  When the sleep is over as well,
\* the select takes either branch.
TimerResets(i) ==
    /\ Open /\ timer[i] = "sleep" /\ reset[i]
    /\ reset' = [reset EXCEPT ![i] = FALSE]
    /\ left' = [left EXCEPT ![i] = Interval]
    /\ notice' = {}
    /\ UNCHANGED <<handler, subs, ready, wake, timer, scan, ready_ids, since>>

\* Time passes once the woken timer tasks have run.
LegacyTick ==
    /\ Open
    /\ \A i \in Ids : ~reset[i] /\ timer[i] # "stored"
    /\ left' = [i \in Ids |-> IF left[i] > 0 THEN left[i] - 1 ELSE 0]
    /\ since' = [a \in AllAccounts |-> IF since[a] < Interval THEN since[a] + 1 ELSE Interval]
    /\ notice' = {}
    /\ UNCHANGED <<handler, subs, ready, wake, reset, timer, scan, ready_ids>>

-----------------------------------------------------------------------------
(* The select loop of try_handle_legacy *)

\* sched_manager.notified(): the permit is taken and take_ready begins.
Notified ==
    /\ pc = "select" /\ wake
    /\ wake' = FALSE
    /\ pc' = "take_ready"
    /\ scan' = Ids /\ ready_ids' = {}
    /\ notice' = {}
    /\ UNCHANGED <<requests, responses, subs, ready, reset, timer, left, since>>

\* Mutant: one flag is taken for each wake-up.
TakeFirst(i) ==
    /\ pc = "take_ready" /\ i \in scan
    /\ ready' = [ready EXCEPT ![i] = FALSE]
    /\ scan' = IF ready[i] THEN {} ELSE scan \ {i}
    /\ ready_ids' = IF ready[i] THEN ready_ids \cup {i} ELSE ready_ids
    /\ notice' = {}
    /\ UNCHANGED <<handler, subs, wake, reset, timer, left, since>>

\* take_ready swaps one flag after the other, in the order of the map.
TakeReady(i) ==
    /\ pc = "take_ready" /\ i \in scan
    /\ ready' = [ready EXCEPT ![i] = FALSE]
    /\ scan' = scan \ {i}
    /\ ready_ids' = IF ready[i] THEN ready_ids \cup {i} ELSE ready_ids
    /\ notice' = {}
    /\ UNCHANGED <<handler, subs, wake, reset, timer, left, since>>

\* send_sched_notification for each, then flush; a failure is only logged.
SendNotifications ==
    /\ pc = "take_ready" /\ scan = {}
    /\ pc' = "select"
    /\ notice' = ready_ids /\ ready_ids' = {}
    /\ UNCHANGED <<requests, responses, subs, timers, scan, since>>

\* A message of requests is received: dispatch begins.
Receive(batch) ==
    /\ pc = "select"
    /\ pc' = "dispatch" /\ requests' = batch /\ responses' = <<>>
    /\ notice' = {}
    /\ UNCHANGED <<subs, timers, scan, ready_ids, since>>

\* Text that is no JSON object or array is answered with an error; bytes that
\* are no text are ignored.
ReceiveOther(text) ==
    /\ pc = "select"
    /\ pc' = IF text THEN "dispatch" ELSE "select"
    /\ responses' = IF text THEN <<"error">> ELSE <<>>
    /\ notice' = {}
    /\ UNCHANGED <<requests, subs, timers, scan, ready_ids, since>>

\* receive or send_text fails: the handler ends, and dropping the SchedManager
\* aborts the timer tasks.
Close ==
    /\ pc = "select" \/ (pc = "dispatch" /\ requests = <<>>)
    /\ pc' = "closed"
    /\ requests' = <<>> /\ responses' = <<>>
    /\ scan' = {} /\ ready_ids' = {} /\ notice' = {}
    /\ UNCHANGED <<subs, timers, since>>

\* One send_text with the responses of the whole message.
Respond ==
    /\ pc = "dispatch" /\ requests = <<>>
    /\ pc' = "select"
    /\ responses' = <<>>
    /\ notice' = {}
    /\ UNCHANGED <<requests, subs, timers, scan, ready_ids, since>>

-----------------------------------------------------------------------------
(* dispatch_request *)

At(method) == pc = "dispatch" /\ requests # <<>> /\ Head(requests).method = method

Answer(response) ==
    /\ requests' = Tail(requests)
    /\ responses' = Append(responses, response)
    /\ notice' = {}

\* A request that does not deserialize, or is not supported.
DispatchInvalid ==
    /\ At("invalid") \/ At("subscribe_price")
    /\ Answer("error")
    /\ UNCHANGED <<pc, subs, timers, scan, ready_ids, since>>

\* get_product_list, get_product and get_all_products: fetch_metadata succeeds
\* or fails, and the product is found or not.
DispatchProducts ==
    /\ At("products")
    /\ \E response \in {"success", "error"} : Answer(response)
    /\ UNCHANGED <<pc, subs, timers, scan, ready_ids, since>>

\* SchedManager::subscribe: a flag and a timer task whose sleep begins.
subscribe(account) ==
    /\ subs' = Append(subs, account)
    /\ ready' = Append(ready, FALSE)
    /\ reset' = Append(reset, FALSE)
    /\ timer' = Append(timer, "sleep")
    /\ left' = Append(left, Interval)

\* handle_subscribe_price_sched: the next subscription id.
handle_subscribe_price_sched ==
    /\ At("subscribe_price_sched")
    /\ Len(subs) < MaxSubs
    /\ Answer("success")
    /\ subscribe(Head(requests).account)
    /\ UNCHANGED <<pc, wake, scan, ready_ids, since>>

\* handle_update_price for an account that is no feed id.
UpdateBadAccount ==
    /\ At("update_price") /\ Head(requests).account = BadAccount
    /\ Answer("error")
    /\ UNCHANGED <<pc, subs, timers, scan, ready_ids, since>>

\* push_feed_update fails: the publisher task is gone.
UpdateFails ==
    /\ At("update_price") /\ Head(requests).account # BadAccount
    /\ Answer("error")
    /\ UNCHANGED <<pc, subs, timers, scan, ready_ids, since>>

\* Mutant: reset_account wakes the first timer of the account only.
ResetFirst(account) ==
    [i \in Ids |-> reset[i] \/ (subs[i] = account /\ \A j \in Ids : subs[j] = account => i <= j)]

reset_account(account) == [i \in Ids |-> reset[i] \/ subs[i] = account]

\* push_feed_update succeeds, perhaps after a wait for room in the channel, and
\* reset_account leaves a permit with every timer of the account.
UpdateAccepted ==
    /\ At("update_price") /\ Head(requests).account # BadAccount
    /\ Answer("success")
    /\ reset' = reset_account(Head(requests).account)
    /\ since' = [since EXCEPT ![Head(requests).account] = 0]
    /\ UNCHANGED <<pc, subs, ready, wake, timer, left, scan, ready_ids>>

handle_update_price == UpdateBadAccount \/ UpdateFails \/ UpdateAccepted

Dispatch == DispatchInvalid \/ DispatchProducts \/ handle_subscribe_price_sched \/ handle_update_price

\* Bound: a message subscribes no more often than MaxSubs allows.
WithinBound(batch) ==
    Len(SelectSeq(batch, LAMBDA r : r.method = "subscribe_price_sched")) <= MaxSubs - Len(subs)

LegacyNext ==
    \/ \E i \in Ids : TimerStores(i) \/ TimerNotifies(i) \/ TimerResets(i) \/ TakeReady(i)
    \/ LegacyTick
    \/ Notified \/ SendNotifications
    \/ \E batch \in Batch : WithinBound(batch) /\ Receive(batch)
    \/ \E text \in BOOLEAN : ReceiveOther(text)
    \/ Dispatch \/ Respond
    \/ Close

LegacySpec == LegacyInit /\ [][LegacyNext]_legacyvars

\* The select of the handler takes a ready branch at random, so a permit that
\* stays is taken even if messages never cease; pushes end because the
\* publisher task drains its channel, sends because they have a timeout.  Time
\* passes however often timers are reset.
LegacyFairness ==
    /\ SF_legacyvars(LegacyTick) /\ SF_legacyvars(Notified) /\ WF_legacyvars(SendNotifications)
    /\ WF_legacyvars(Dispatch) /\ WF_legacyvars(Respond)
    /\ \A i \in 1..MaxSubs :
          /\ WF_legacyvars(i \in Ids /\ (TimerStores(i) \/ TimerNotifies(i) \/ TimerResets(i)))
          /\ WF_legacyvars(i \in Ids /\ TakeReady(i))

LegacyFairSpec == LegacySpec /\ LegacyFairness

-----------------------------------------------------------------------------
(* Properties *)

LegacyTypeOK ==
    /\ pc \in {"select", "take_ready", "dispatch", "closed"}
    /\ requests \in Seq(Request)
    /\ responses \in Seq({"success", "error"})
    /\ subs \in Seq(AllAccounts) /\ Len(subs) <= MaxSubs
    /\ ready \in [Ids -> BOOLEAN] /\ reset \in [Ids -> BOOLEAN] /\ wake \in BOOLEAN
    /\ timer \in [Ids -> {"sleep", "stored"}]
    /\ left \in [Ids -> 0..Interval]
    /\ scan \subseteq Ids /\ ready_ids \subseteq Ids /\ notice \subseteq Ids
    /\ since \in [AllAccounts -> 0..Interval]

\* No wake-up is lost: a subscription whose flag is set is still to be looked
\* at by take_ready, or the handler has a permit to come back for it, or its
\* timer is about to leave one.  Fires of one subscription coalesce and the
\* permits of several do too, but no flag is forgotten.
NoLostWakeup ==
    Open => \A i \in Ids : ready[i] =>
        \/ wake
        \/ timer[i] = "stored"
        \/ pc = "take_ready" /\ i \in scan

\* A timer fires at least Interval after the last update accepted for its
\* account (or within the same tick): reset_account reaches every timer.
NoEarlyFire ==
    [][\A i \in Ids : timer[i] = "sleep" /\ timer'[i] = "stored" =>
          since[subs[i]] \in {0, Interval}]_legacyvars

\* Every subscription of an open connection is notified again and again,
\* unless updates of its account keep being accepted.
QuietIsNotified ==
    \A i \in 1..MaxSubs :
        []<>(~Open \/ i \notin Ids \/ i \in notice \/ since[subs[i]] = 0)
=============================================================================
