--------------------------- MODULE MCStreamClient ---------------------------
(* An instance of StreamClient for TLC: two connections, a response that both *)
(* servers send and one that only the first sends, so that the second waits   *)
(* behind a full channel.                                                     *)
EXTENDS StreamClient, TLC

CONSTANTS c1, c2, m1, m2

TwoConnections == <<c1, c2>>
BothAndOne == c1 :> {m1, m2} @@ c2 :> {m1}
=============================================================================
