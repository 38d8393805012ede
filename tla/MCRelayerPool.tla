--------------------------- MODULE MCRelayerPool ---------------------------
(* An instance of RelayerPool for TLC: two workers, three relayers, and no   *)
(* transactions (MCAgent has those).                                         *)
EXTENDS RelayerPool

CONSTANTS w1, w2

QuietNext ==
    \/ \E w \in Workers : Seek(w)
    \/ \E r \in Relayers : Flip(r)
    \/ Tick

QuietSpec == Init /\ [][QuietNext]_vars /\ Fairness
=============================================================================
