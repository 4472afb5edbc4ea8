---------------------------- MODULE GeoDNSScope ----------------------------
(***************************************************************************)
(* WithGeoDNSResolver (util/dns_resolver.go): a process-wide setting, the  *)
(* resolver used for geo lookups, is switched for the time of a callback.  *)
(* Scopes of one resolver overlap and nest, scopes of different resolvers  *)
(* take turns.  geoScopeMu is held from the first scope of a resolver to   *)
(* the last and may be released by another goroutine than the one that     *)
(* took it; geoApplyMu guards the counter and is held only within a step.  *)
(*                                                                         *)
(* A goroutine is a trace, which keeps its scope while it runs             *)
(* (server/trace_handler.go, internal/service/service.go), or a lookup it  *)
(* starts (ipgeo/ipgeo.go) and waits for or leaves behind.                 *)
(***************************************************************************)
EXTENDS Integers, FiniteSets

CONSTANTS
  Procs,       \* goroutines
  Parent,      \* the trace a lookup belongs to; a trace is its own parent
  Awaited,     \* lookups their trace waits for
  Names,       \* normalized names of resolvers
  NoDot,       \* the empty name: the system's resolver
  Default,     \* the resolver set by the command line
  Calls        \* scopes each goroutine opens, one after the other

ASSUME ScopeAssumption ==
  /\ IsFiniteSet(Procs)
  /\ Parent \in [Procs -> Procs]
  /\ Awaited \subseteq Procs
  /\ NoDot \notin Names
  /\ Default \in Names \cup {NoDot}
  /\ Calls \in Nat

VARIABLES
  want,          \* the resolver each goroutine asks for, as spelled in the request
  pc, calls,
  prev,          \* prevDotServer of each goroutine
  geoDotServer,
  geoScopeMu,    \* held or not
  geoScopeDot, geoScopePrev, geoScopeDepth

scopeVars == <<geoScopeMu, geoScopeDot, geoScopePrev, geoScopeDepth>>
vars == <<want, pc, calls, prev, geoDotServer, scopeVars>>

\* A request spells a name in any case, with or without blanks around it.
Spelled == [name : Names \cup {NoDot}, plain : BOOLEAN]
normalizeGeoDNSResolver(d) == d.name
dot(p) == normalizeGeoDNSResolver(want[p])

\* A lookup gets the request's name from its trace, possibly normalized already.
Init ==
  /\ want \in [Procs -> Spelled]
  /\ \A p \in Procs : want[p].name = want[Parent[p]].name
  /\ pc = [p \in Procs |-> "idle"]
  /\ calls = [p \in Procs |-> 0]
  /\ prev = [p \in Procs |-> NoDot]
  /\ geoDotServer = Default
  /\ geoScopeMu = FALSE
  /\ geoScopeDot = NoDot /\ geoScopePrev = NoDot /\ geoScopeDepth = 0

At(p, from, to) == pc[p] = from /\ pc' = [pc EXCEPT ![p] = to]

(***************************************************************************)
(* Entering                                                                *)
(***************************************************************************)
\* A lookup starts while its trace runs; an empty name opens no scope.
Call(p) ==
  /\ calls[p] < Calls
  /\ Parent[p] = p \/ pc[Parent[p]] = "in"
  /\ At(p, "idle", IF dot(p) = NoDot THEN "in" ELSE "join")
  /\ calls' = [calls EXCEPT ![p] = @ + 1]
  /\ UNCHANGED <<want, prev, geoDotServer, scopeVars>>

\* Mutant: any open scope will do.
CanJoin_Any(p) == geoScopeDepth > 0

CanJoin(p) == geoScopeDepth > 0 /\ geoScopeDot = dot(p)

\* A scope of the same resolver is open: one more in it.
Join(p) ==
  /\ CanJoin(p) /\ At(p, "join", "in")
  /\ geoScopeDepth' = geoScopeDepth + 1
  /\ UNCHANGED <<want, calls, prev, geoDotServer, geoScopeMu, geoScopeDot, geoScopePrev>>

NoJoin(p) ==
  /\ ~ CanJoin(p) /\ At(p, "join", "lock")
  /\ UNCHANGED <<want, calls, prev, geoDotServer, scopeVars>>

Lock(p) ==
  /\ ~ geoScopeMu /\ At(p, "lock", "read")
  /\ geoScopeMu' = TRUE
  /\ UNCHANGED <<want, calls, prev, geoDotServer, geoScopeDot, geoScopePrev, geoScopeDepth>>

getGeoDNSConfig(p) ==
  /\ At(p, "read", "set")
  /\ prev' = [prev EXCEPT ![p] = geoDotServer]
  /\ UNCHANGED <<want, calls, geoDotServer, scopeVars>>

SetGeoDNSResolver(p) ==
  /\ At(p, "set", "publish")
  /\ geoDotServer' = dot(p)
  /\ UNCHANGED <<want, calls, prev, scopeVars>>

Publish(p) ==
  /\ At(p, "publish", "in")
  /\ geoScopeDot' = dot(p) /\ geoScopePrev' = prev[p] /\ geoScopeDepth' = 1
  /\ UNCHANGED <<want, calls, prev, geoDotServer, geoScopeMu>>

(***************************************************************************)
(* Leaving                                                                 *)
(***************************************************************************)
\* The callback returns: a trace has its awaited lookups behind it.
Returns(p) ==
  \A l \in Awaited : l # p /\ Parent[l] = p => pc[l] = "idle"

LeaveUnscoped(p) ==
  /\ dot(p) = NoDot /\ Returns(p) /\ At(p, "in", "idle")
  /\ UNCHANGED <<want, calls, prev, geoDotServer, scopeVars>>

\* releaseGeoDNSResolverScope, not the last.  The code's test for a depth of
\* zero or less is never true here.
Leave(p) ==
  /\ dot(p) # NoDot /\ Returns(p) /\ geoScopeDepth > 1
  /\ At(p, "in", "idle")
  /\ geoScopeDepth' = geoScopeDepth - 1
  /\ UNCHANGED <<want, calls, prev, geoDotServer, geoScopeMu, geoScopeDot, geoScopePrev>>

LeaveLast(p) ==
  /\ dot(p) # NoDot /\ Returns(p) /\ geoScopeDepth = 1
  /\ At(p, "in", "restore")
  /\ prev' = [prev EXCEPT ![p] = geoScopePrev]
  /\ geoScopeDepth' = 0 /\ geoScopeDot' = NoDot /\ geoScopePrev' = NoDot
  /\ UNCHANGED <<want, calls, geoDotServer, geoScopeMu>>

Restore(p) ==
  /\ At(p, "restore", "unlock")
  /\ geoDotServer' = prev[p]
  /\ UNCHANGED <<want, calls, prev, scopeVars>>

Unlock(p) ==
  /\ At(p, "unlock", "idle")
  /\ geoScopeMu' = FALSE
  /\ UNCHANGED <<want, calls, prev, geoDotServer, geoScopeDot, geoScopePrev, geoScopeDepth>>

Inside(p) ==
  \/ Join(p) \/ NoJoin(p) \/ Lock(p) \/ getGeoDNSConfig(p) \/ SetGeoDNSResolver(p)
  \/ Publish(p) \/ LeaveUnscoped(p) \/ Leave(p) \/ LeaveLast(p) \/ Restore(p) \/ Unlock(p)

Next == \E p \in Procs : Call(p) \/ Inside(p)

Spec == Init /\ [][Next]_vars

(***************************************************************************)
(* Properties                                                              *)
(***************************************************************************)
PCs == {"idle", "join", "lock", "read", "set", "publish", "in", "restore", "unlock"}

TypeOK ==
  /\ want \in [Procs -> Spelled]
  /\ pc \in [Procs -> PCs]
  /\ calls \in [Procs -> 0 .. Calls]
  /\ prev \in [Procs -> Names \cup {NoDot}]
  /\ geoDotServer \in Names \cup {NoDot}
  /\ geoScopeMu \in BOOLEAN
  /\ geoScopeDot \in Names \cup {NoDot} /\ geoScopePrev \in Names \cup {NoDot}
  /\ geoScopeDepth \in Nat

\* While a callback runs in its scope the resolver is the one it asked for,
\* whoever opened the scope and whoever has left it since (WithGeoDNSResolver).
ScopeKept ==
  \A p \in Procs : pc[p] = "in" /\ dot(p) # NoDot => geoDotServer = dot(p)

\* Between scopes the resolver is the one of the command line again, however
\* scopes overlapped (releaseGeoDNSResolverScope).
Restored == ~ geoScopeMu => geoDotServer = Default

\* Resolvers are kept and given back.
ResolverSound == ScopeKept /\ Restored
=============================================================================
