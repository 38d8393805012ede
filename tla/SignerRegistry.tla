--------------------------- MODULE SignerRegistry ---------------------------
(***************************************************************************)
(* What a list of trusted signers of the Solana contract promises: it is a *)
(* map from signers to expiry times, with room for Max of them, and a      *)
(* signature is accepted exactly when its signer is in the map and has not *)
(* expired.                                                                *)
(***************************************************************************)
EXTENDS Integers, FiniteSets

CONSTANTS
    Name,       \* of this list
    Signers, Times, Max

VARIABLES
    expiry,     \* the map
    now,
    reply       \* of the last call: on which list, about whom, and the result

Init ==
    expiry = [s \in {} |-> 0]

Reply(s, e, result) == reply' = [list |-> Name, signer |-> s, expires_at |-> e, result |-> result]

\* An expiry time of 0 deletes; a signer that is not there cannot be deleted, and
\* one more than Max cannot be added.
Update(s, e) ==
    /\ UNCHANGED now
    /\ \/ /\ e = 0 /\ Reply(s, e, "ok")
          /\ s \in DOMAIN expiry
          /\ expiry' = [k \in DOMAIN expiry \ {s} |-> expiry[k]]
       \/ /\ e # 0 /\ Reply(s, e, "ok")
          /\ s \in DOMAIN expiry \/ Cardinality(DOMAIN expiry) < Max
          /\ expiry' = [k \in DOMAIN expiry \cup {s} |-> IF k = s THEN e ELSE expiry[k]]
       \/ /\ Reply(s, e, "refused") /\ UNCHANGED expiry
          /\ s \notin DOMAIN expiry
          /\ e = 0 \/ Cardinality(DOMAIN expiry) >= Max

Verify(s) ==
    /\ Reply(s, 0, IF s \in DOMAIN expiry /\ expiry[s] > now THEN "accepted" ELSE "not trusted")
    /\ UNCHANGED <<expiry, now>>

\* Time passes, and the other calls of the contract leave the map alone.
Other == (reply' = reply \/ reply'.list # Name) /\ UNCHANGED expiry

Next ==
    \/ Other
    \/ \E s \in Signers : Verify(s) \/ \E e \in Times : Update(s, e)

Spec == Init /\ [][Next]_<<expiry, now, reply>>
=============================================================================
