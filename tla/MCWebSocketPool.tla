-------------------------- MODULE MCWebSocketPool --------------------------
(* An instance of WebSocketPool for TLC. *)
EXTENDS WebSocketPool
=============================================================================
