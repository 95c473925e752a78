--------------------------- MODULE MCWebSocketHub ---------------------------
(* The instance of WebSocketHub that TLC checks: two clients, two senders, *)
(* a buffer that their broadcasts can fill.                                *)
EXTENDS WebSocketHub
=============================================================================
