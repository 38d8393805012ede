-------------------------- MODULE MCResilientHttp --------------------------
(* An instance of ResilientHttp for TLC. *)
EXTENDS ResilientHttp
=============================================================================
