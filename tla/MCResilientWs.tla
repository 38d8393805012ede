--------------------------- MODULE MCResilientWs ---------------------------
(* An instance of ResilientWs for TLC. *)
EXTENDS ResilientWs

CONSTANTS c1, i1, i2, m1
=============================================================================
