-------------------------- MODULE MCWebSocketLink --------------------------
(***************************************************************************)
(* Values for the constants of WebSocketLink.                              *)
(***************************************************************************)
EXTENDS WebSocketLink

CONSTANTS c1, c2, c3, r1, r2, r3, main
=============================================================================
