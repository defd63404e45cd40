---------------------------- MODULE MCPushChannel ----------------------------
(* PushChannel on two connections that work on one session.                 *)
EXTENDS PushChannel
=============================================================================
