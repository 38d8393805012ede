-------------------------- MODULE SubscriptionSet --------------------------
(***************************************************************************)
(* What a resilient connection promises its user about subscriptions:      *)
(* whenever it is up, the server has exactly the subscriptions the user    *)
(* wants, however often the connection was lost before.                    *)
(***************************************************************************)
CONSTANT Ids            \* subscription ids

VARIABLES
    want,               \* the ids the user's requests add up to
    have,               \* the ids the server has on the present connection
    up                  \* the connection is up

vars == <<want, have, up>>

Init == want = {} /\ have = {} /\ up = FALSE

\* The connection takes the change of the wanted ids, and survives it or not.
Change(w) ==
    /\ up
    /\ want' = w
    /\ \/ up' = TRUE /\ have' = w
       \/ up' = FALSE /\ have' = {}

Subscribe(id) == Change(want \cup {id})

Unsubscribe(id) == Change(want \ {id})

Lose == up /\ up' = FALSE /\ have' = {} /\ UNCHANGED want

Restore == ~up /\ up' = TRUE /\ have' = want /\ UNCHANGED want

Next == (\E id \in Ids : Subscribe(id) \/ Unsubscribe(id)) \/ Lose \/ Restore

Spec == Init /\ [][Next]_vars
=============================================================================
