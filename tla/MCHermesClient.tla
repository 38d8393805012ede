--------------------------- MODULE MCHermesClient ---------------------------
(* An instance of HermesClient for TLC. *)
EXTENDS HermesClient
=============================================================================
