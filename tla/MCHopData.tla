----------------------------- MODULE MCHopData -----------------------------
(***************************************************************************)
(* Three components that make the data of a hop, in one instance for TLC:  *)
(* the ICMP engine that matches answers to probes (MTRICMPEngine), the     *)
(* statistics (MTRAggregator) and the locations (GeoLookup).  They share   *)
(* no state; a behaviour is one of one of them.                            *)
(*                                                                         *)
(* Engine: three calls over two numbers, so that the third one rotates;    *)
(* the calls are interchangeable.  Statistics: one hop, two paths, two     *)
(* attempts in a result.  Locations: two lookups of one address over the   *)
(* WebSocket; two lookups that fill a cache of one API v4 client; two hops *)
(* with host names (DN42); a hop, and a direct lookup of a reserved        *)
(* address; no provider at all.                                            *)
(***************************************************************************)
EXTENDS MTRICMPEngine, MTRAggregator, GeoLookup

CONSTANTS c1, c2, c3, h1, h2, a, b, r

VARIABLE part

MCCalls == {c1, c2, c3}
MCSymmetry == Permutations(MCCalls)

Case(source, dn42, rdns, x, y, direct, retries) ==
  [source |-> source, dn42 |-> dn42, rdns |-> rdns, direct |-> direct,
   addr |-> [h \in Hops |-> IF h = h1 THEN x ELSE y], retries |-> retries]

MCCases ==
  {Case("ws", FALSE, FALSE, a, a, Hops, 0),
   Case("v4", FALSE, FALSE, a, b, {h2}, 0),
   Case("other", TRUE, TRUE, a, a, {}, 0),
   Case("other", FALSE, TRUE, a, r, {h2}, 1),
   Case("nil", FALSE, TRUE, a, b, {}, 0)}

HopDataInit ==
  /\ part \in {"engine", "statistics", "locations"}
  /\ Init /\ AggInit /\ GeoInit
  /\ part # "locations" => opts.source = "nil"

HopDataNext ==
  \/ part = "engine" /\ Next /\ UNCHANGED <<part, aggVars, geoVars>>
  \/ part = "statistics" /\ AggNext /\ UNCHANGED <<part, vars, geoVars>>
  \/ part = "locations" /\ GeoNext /\ UNCHANGED <<part, vars, aggVars>>

HopDataSpec == HopDataInit /\ [][HopDataNext]_<<part, vars, aggVars, geoVars>>
=============================================================================
