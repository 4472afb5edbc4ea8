-------------------------- MODULE MCMTUDiscovery ---------------------------
(* Instances of MTUDiscovery for TLC: every path of up to three links with   *)
(* MTUs around the smallest and the largest probe.                           *)
EXTENDS MTUDiscovery

=============================================================================
