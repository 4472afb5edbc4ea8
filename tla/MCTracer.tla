------------------------------ MODULE MCTracer ------------------------------
(***************************************************************************)
(* Instances of Tracer for TLC: a trace of two TTLs whose path may be of   *)
(* length one or two, and one of a single TTL for every other method.      *)
(***************************************************************************)
EXTENDS Tracer

Base == [method |-> "icmp4", begin |-> 1, hops |-> 1, n |-> 1, m |-> 2, env |-> 0, par |-> 2, span |-> 3,
         ports |-> {1}, sizes |-> {0}, dists |-> {1}, fails |-> TRUE, slow |-> FALSE, cancel |-> TRUE]

MCTraces ==
  {[Base EXCEPT !.hops = 2, !.dists = {1, 2}, !.par = 1, !.fails = FALSE, !.cancel = FALSE],
   [Base EXCEPT !.hops = 2, !.m = 1, !.dists = {1, 2}],
   [Base EXCEPT !.method = "icmp6", !.n = 2, !.m = 0, !.env = 3, !.par = 0, !.fails = FALSE],
   [Base EXCEPT !.method = "icmp6", !.span = 1],
   [Base EXCEPT !.method = "tcp4", !.ports = {1, 2}, !.sizes = {1}],
   [Base EXCEPT !.method = "tcp6", !.sizes = {0, 1}, !.slow = TRUE],
   [Base EXCEPT !.method = "udp4", !.n = 2, !.m = 0, !.ports = {1, 2}],
   [Base EXCEPT !.method = "udpDarwin", !.ports = {1, 2}, !.slow = TRUE],
   [Base EXCEPT !.method = "udpDarwin", !.par = 1, !.fails = FALSE],
   [Base EXCEPT !.method = "udp6", !.ports = {1, 2}]}

\* For the liveness run: sends do not fail.
Quiet == [Base EXCEPT !.dists = {2}, !.fails = FALSE, !.slow = TRUE]
MCLive ==
  {[Quiet EXCEPT !.hops = 3, !.m = 1, !.par = 1],
   [Quiet EXCEPT !.n = 2, !.m = 3, !.slow = FALSE],
   [Quiet EXCEPT !.method = "tcp4", !.hops = 2, !.m = 1],
   [Quiet EXCEPT !.method = "udpDarwin", !.ports = {1, 2}],
   [Quiet EXCEPT !.method = "udp6", !.n = 2]}
=============================================================================
