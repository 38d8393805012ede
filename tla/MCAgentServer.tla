--------------------------- MODULE MCAgentServer ---------------------------
(* An instance of AgentServer for TLC. *)
EXTENDS AgentServer
=============================================================================
