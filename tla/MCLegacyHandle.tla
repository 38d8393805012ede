--------------------------- MODULE MCLegacyHandle ---------------------------
(* An instance of LegacyHandle for TLC. *)
EXTENDS LegacyHandle
=============================================================================
