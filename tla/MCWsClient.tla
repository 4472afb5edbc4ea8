----------------------------- MODULE MCWsClient -----------------------------
(* Instances of WsClient for TLC; the constants are given in the cfgs.       *)
EXTENDS WsClient
=============================================================================
