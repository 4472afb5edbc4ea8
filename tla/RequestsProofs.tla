-------------------------- MODULE RequestsProofs ---------------------------
(***************************************************************************)
(* Proofs about GeoDNSScope for any number of goroutines, resolvers and    *)
(* nested scopes, and about Requests, which uses it.  The inductive        *)
(* invariant: geoScopeDepth counts the goroutines in a scope, at most one  *)
(* goroutine opens or closes scopes and then nobody is in one, and the     *)
(* resolver to return to travels from the one who opened through           *)
(* geoScopePrev to the one who closes.  Then Requests: that it implements  *)
(* the scopes, and that the proof-of-work provider is set under the lock.  *)
(***************************************************************************)
EXTENDS Requests, FiniteSetTheorems, SequenceTheorems, TLAPS

Scoped == {p \in Procs : pc[p] = "in" /\ dot(p) # NoDot}
Switching == {"read", "set", "publish", "restore", "unlock"}

\* The counter, and with it the code's test for a depth of zero.
DepthCounts == geoScopeDepth = Cardinality(Scoped)

\* geoScopeMu is held by whoever switches, or by the scope as a whole.
ScopeHeld ==
  /\ \A p \in Procs : pc[p] \in Switching => geoScopeMu /\ Scoped = {}
  /\ \A p, q \in Procs : pc[p] \in Switching /\ pc[q] \in Switching => p = q
  /\ Scoped # {} => geoScopeMu

\* Who waits for a scope or switches asked for a resolver.
Asked == \A p \in Procs : pc[p] \in Switching \cup {"join", "lock"} => dot(p) # NoDot

OpenScope ==
  \A p \in Scoped : /\ geoScopeDot = dot(p) /\ geoDotServer = dot(p)
                    /\ geoScopePrev = Default

Handover ==
  /\ ~ geoScopeMu => geoDotServer = Default
  /\ \A p \in Procs :
       /\ pc[p] \in {"read", "unlock"} => geoDotServer = Default
       /\ pc[p] \in {"set", "publish", "restore"} => prev[p] = Default
       /\ pc[p] = "publish" => geoDotServer = dot(p)

IInv ==
  /\ TypeOK
  /\ DepthCounts
  /\ ScopeHeld
  /\ Asked
  /\ OpenScope
  /\ Handover

(***************************************************************************)
(* The counter                                                             *)
(***************************************************************************)
\* The goroutines in a scope are finitely many, and none if the counter is zero.
LEMMA ScopedFinite ==
  /\ IsFiniteSet(Scoped)
  /\ Cardinality(Scoped) \in Nat
  /\ Cardinality(Scoped) = 0 <=> Scoped = {}
<1>1. Scoped \subseteq Procs
  BY DEF Scoped
<1>2. IsFiniteSet(Scoped)
  BY <1>1, ScopeAssumption, FS_Subset
<1> QED
  BY <1>2, FS_CardinalityType, FS_EmptySet

\* Entering and leaving a scope change the set of those inside by the goroutine
\* alone, and its size by one.
LEMMA ScopedChanges ==
  ASSUME TypeOK, NEW p \in Procs, NEW to \in PCs, UNCHANGED want,
         pc' = [pc EXCEPT ![p] = to]
  PROVE  /\ \A q \in Procs : pc'[q] = IF q = p THEN to ELSE pc[q]
         /\ \A q \in Procs : dot(q)' = dot(q)
         /\ pc[p] # "in" /\ to # "in" => Scoped' = Scoped
         /\ pc[p] # "in" /\ to = "in" /\ dot(p) # NoDot =>
              Scoped' = Scoped \cup {p} /\ Cardinality(Scoped') = Cardinality(Scoped) + 1
         /\ pc[p] = "in" /\ to # "in" /\ dot(p) # NoDot =>
              Scoped' = Scoped \ {p} /\ Cardinality(Scoped') = Cardinality(Scoped) - 1
         /\ dot(p) = NoDot => Scoped' = Scoped
<1>1. /\ \A q \in Procs : pc'[q] = IF q = p THEN to ELSE pc[q]
      /\ \A q \in Procs : dot(q)' = dot(q)
  BY DEF TypeOK, dot, normalizeGeoDNSResolver
<1>2. pc[p] # "in" /\ to # "in" => Scoped' = Scoped
  BY <1>1 DEF Scoped
<1>3. dot(p) = NoDot => Scoped' = Scoped
  BY <1>1 DEF Scoped
<1>4. ASSUME pc[p] # "in", to = "in", dot(p) # NoDot
      PROVE  Scoped' = Scoped \cup {p} /\ Cardinality(Scoped') = Cardinality(Scoped) + 1
  <2>1. Scoped' = Scoped \cup {p} /\ p \notin Scoped
    BY <1>1, <1>4 DEF Scoped
  <2> QED
    BY <2>1, ScopedFinite, FS_AddElement
<1>5. ASSUME pc[p] = "in", to # "in", dot(p) # NoDot
      PROVE  Scoped' = Scoped \ {p} /\ Cardinality(Scoped') = Cardinality(Scoped) - 1
  <2>1. Scoped' = Scoped \ {p} /\ p \in Scoped
    BY <1>1, <1>5 DEF Scoped
  <2> QED
    BY <2>1, ScopedFinite, FS_RemoveElement
<1> QED
  BY <1>1, <1>2, <1>3, <1>4, <1>5

(***************************************************************************)
(* The steps                                                               *)
(***************************************************************************)
\* Starting a call, and not finding a scope to join.
LEMMA OutsideStep ==
  ASSUME IInv, NEW p \in Procs, Call(p) \/ NoJoin(p) \/ LeaveUnscoped(p)
  PROVE  IInv'
<1> USE DEF IInv
<1>1. PICK to \in {"in", "join", "lock", "idle"} :
        /\ pc' = [pc EXCEPT ![p] = to]
        /\ to \in {"join", "lock"} => dot(p) # NoDot
        /\ Scoped' = Scoped
        /\ \A q \in Procs : pc'[q] = IF q = p THEN to ELSE pc[q]
        /\ \A q \in Procs : dot(q)' = dot(q)
  BY ScopedChanges DEF Call, NoJoin, LeaveUnscoped, At, PCs, Asked
<1>2. UNCHANGED <<want, prev, geoDotServer, scopeVars>>
  BY DEF Call, NoJoin, LeaveUnscoped
<1>3. TypeOK'
  BY <1>1, <1>2, ScopeAssumption DEF TypeOK, PCs, scopeVars, Call, NoJoin, LeaveUnscoped
<1>4. DepthCounts' /\ OpenScope'
  BY <1>1, <1>2 DEF DepthCounts, OpenScope, Scoped, scopeVars
<1>5. ScopeHeld' /\ Asked' /\ Handover'
  BY <1>1, <1>2 DEF ScopeHeld, Asked, Handover, Switching, scopeVars
<1> QED
  BY <1>3, <1>4, <1>5

\* One more in an open scope: those inside asked for the same resolver.
LEMMA JoinStep ==
  ASSUME IInv, NEW p \in Procs, Join(p)
  PROVE  IInv'
<1> USE DEF IInv
<1>1. /\ pc[p] = "join" /\ dot(p) # NoDot
      /\ UNCHANGED <<want, calls, prev, geoDotServer, geoScopeMu, geoScopeDot, geoScopePrev>>
      /\ geoScopeDepth' = geoScopeDepth + 1
      /\ geoScopeDepth > 0 /\ geoScopeDot = dot(p)
      /\ pc' = [pc EXCEPT ![p] = "in"]
  BY DEF Join, CanJoin, At, Asked
<1>2. /\ Scoped' = Scoped \cup {p} /\ Cardinality(Scoped') = Cardinality(Scoped) + 1
      /\ \A q \in Procs : pc'[q] = IF q = p THEN "in" ELSE pc[q]
      /\ \A q \in Procs : dot(q)' = dot(q)
  BY <1>1, ScopedChanges DEF PCs
<1>3. PICK q \in Procs : q \in Scoped
  BY <1>1, ScopedFinite DEF DepthCounts, Scoped
<1>4. TypeOK'
  BY <1>1 DEF TypeOK, PCs
<1>5. DepthCounts'
  BY <1>1, <1>2 DEF DepthCounts
<1>6. OpenScope'
  BY <1>1, <1>2, <1>3 DEF OpenScope, Scoped
<1>7. ScopeHeld'
  BY <1>1, <1>2, <1>3 DEF ScopeHeld, Switching
<1>8. Asked' /\ Handover'
  BY <1>1, <1>2 DEF Asked, Handover, Switching
<1> QED
  BY <1>4, <1>5, <1>6, <1>7, <1>8

\* Opening a scope and returning to the former resolver: nobody is in a scope.
LEMMA SwitchStep ==
  ASSUME IInv, NEW p \in Procs,
         Lock(p) \/ getGeoDNSConfig(p) \/ SetGeoDNSResolver(p) \/ Restore(p) \/ Unlock(p)
  PROVE  IInv'
<1> USE DEF IInv
<1>1. PICK to \in {"read", "set", "publish", "unlock", "idle"} :
        pc' = [pc EXCEPT ![p] = to]
  BY DEF Lock, getGeoDNSConfig, SetGeoDNSResolver, Restore, Unlock, At
<1>2. /\ UNCHANGED <<want, calls, geoScopeDot, geoScopePrev, geoScopeDepth>>
      /\ pc[p] \in {"lock", "read", "set", "restore", "unlock"}
  BY DEF Lock, getGeoDNSConfig, SetGeoDNSResolver, Restore, Unlock, At, scopeVars
<1>3. /\ \A q \in Procs : pc'[q] = IF q = p THEN to ELSE pc[q]
      /\ \A q \in Procs : dot(q)' = dot(q)
      /\ Scoped' = Scoped
  <2>1. to \in PCs /\ to # "in" /\ pc[p] # "in" /\ want' = want
    BY <1>2 DEF PCs
  <2> QED
    BY <1>1, <2>1, ScopedChanges
<1>4. Scoped = {} /\ geoScopeDepth = 0 /\ dot(p) # NoDot
      /\ \A q \in Procs : pc[q] \in Switching => q = p
  BY <1>2, ScopedFinite DEF ScopeHeld, DepthCounts, Asked, Switching, Lock,
     getGeoDNSConfig, SetGeoDNSResolver, Restore, Unlock, At
<1>5. DepthCounts' /\ OpenScope' /\ Asked'
  BY <1>1, <1>2, <1>3, <1>4 DEF DepthCounts, OpenScope, Asked, Switching
<1>6. dot(p) \in Names \cup {NoDot}
  BY DEF TypeOK, Spelled, dot, normalizeGeoDNSResolver
<1>7. CASE Lock(p)
  BY <1>2, <1>3, <1>4, <1>5, <1>7 DEF Lock, At, TypeOK, PCs, ScopeHeld, Handover, Switching
<1>8. CASE getGeoDNSConfig(p)
  BY <1>2, <1>3, <1>4, <1>5, <1>8
  DEF getGeoDNSConfig, At, TypeOK, PCs, ScopeHeld, Handover, Switching, scopeVars
<1>9. CASE SetGeoDNSResolver(p)
  BY <1>2, <1>3, <1>4, <1>5, <1>6, <1>9
  DEF SetGeoDNSResolver, At, TypeOK, PCs, ScopeHeld, Handover, Switching, scopeVars
<1>10. CASE Restore(p)
  BY <1>2, <1>3, <1>4, <1>5, <1>10
  DEF Restore, At, TypeOK, PCs, ScopeHeld, Handover, Switching, scopeVars
<1>11. CASE Unlock(p)
  BY <1>2, <1>3, <1>4, <1>5, <1>11 DEF Unlock, At, TypeOK, PCs, ScopeHeld, Handover, Switching
<1> QED
  BY <1>7, <1>8, <1>9, <1>10, <1>11

\* The first in a scope.
LEMMA PublishStep ==
  ASSUME IInv, NEW p \in Procs, Publish(p)
  PROVE  IInv'
<1> USE DEF IInv
<1>1. /\ pc[p] = "publish" /\ dot(p) # NoDot /\ Scoped = {}
      /\ pc' = [pc EXCEPT ![p] = "in"]
      /\ UNCHANGED <<want, calls, prev, geoDotServer, geoScopeMu>>
      /\ geoScopeDot' = dot(p) /\ geoScopePrev' = prev[p] /\ geoScopeDepth' = 1
  BY DEF Publish, At, Asked, ScopeHeld, Switching
<1>2. /\ Scoped' = Scoped \cup {p} /\ Cardinality(Scoped') = Cardinality(Scoped) + 1
      /\ \A q \in Procs : pc'[q] = IF q = p THEN "in" ELSE pc[q]
      /\ \A q \in Procs : dot(q)' = dot(q)
  BY <1>1, ScopedChanges DEF PCs
<1>3. dot(p) \in Names \cup {NoDot}
  BY DEF TypeOK, Spelled, dot, normalizeGeoDNSResolver
<1>4. geoScopeMu /\ prev[p] = Default /\ geoDotServer = dot(p)
      /\ \A q \in Procs : pc[q] \in Switching => q = p
  BY <1>1 DEF ScopeHeld, Handover, Switching
<1>5. TypeOK'
  BY <1>1, <1>3 DEF TypeOK, PCs
<1>6. DepthCounts'
  BY <1>1, <1>2, ScopedFinite DEF DepthCounts
<1>7. OpenScope' /\ ScopeHeld' /\ Asked' /\ Handover'
  BY <1>1, <1>2, <1>4 DEF OpenScope, ScopeHeld, Asked, Handover, Switching
<1> QED
  BY <1>5, <1>6, <1>7

\* Leaving a scope: the last one inherits geoScopeMu.
LEMMA LeaveStep ==
  ASSUME IInv, NEW p \in Procs, Leave(p) \/ LeaveLast(p)
  PROVE  IInv'
<1> USE DEF IInv
<1>1. p \in Scoped /\ pc[p] = "in" /\ dot(p) # NoDot
  BY DEF Leave, LeaveLast, At, Scoped
<1>2. /\ geoScopeMu /\ geoScopePrev = Default
      /\ \A q \in Procs : pc[q] \notin Switching
  BY <1>1 DEF ScopeHeld, OpenScope
<1>3. CASE Leave(p)
  <2>1. /\ UNCHANGED <<want, calls, prev, geoDotServer, geoScopeMu, geoScopeDot, geoScopePrev>>
        /\ pc' = [pc EXCEPT ![p] = "idle"]
        /\ geoScopeDepth' = geoScopeDepth - 1 /\ geoScopeDepth > 1
    BY <1>3 DEF Leave, At
  <2>2. /\ Scoped' = Scoped \ {p} /\ Cardinality(Scoped') = Cardinality(Scoped) - 1
        /\ \A q \in Procs : pc'[q] = IF q = p THEN "idle" ELSE pc[q]
        /\ \A q \in Procs : dot(q)' = dot(q)
    BY <1>1, <2>1, ScopedChanges DEF PCs
  <2>3. TypeOK'
    BY <2>1 DEF TypeOK, PCs
  <2>4. DepthCounts' /\ OpenScope'
    BY <2>1, <2>2 DEF DepthCounts, OpenScope, Scoped
  <2>5. ScopeHeld' /\ Asked' /\ Handover'
    BY <1>2, <2>1, <2>2 DEF ScopeHeld, Asked, Handover, Switching
  <2> QED
    BY <2>3, <2>4, <2>5
<1>4. CASE LeaveLast(p)
  <2>1. /\ UNCHANGED <<want, calls, geoDotServer, geoScopeMu>>
        /\ pc' = [pc EXCEPT ![p] = "restore"]
        /\ prev' = [prev EXCEPT ![p] = geoScopePrev]
        /\ geoScopeDepth = 1
        /\ geoScopeDepth' = 0 /\ geoScopeDot' = NoDot /\ geoScopePrev' = NoDot
    BY <1>4 DEF LeaveLast, At
  <2>2. /\ Scoped' = Scoped \ {p} /\ Cardinality(Scoped') = Cardinality(Scoped) - 1
        /\ \A q \in Procs : pc'[q] = IF q = p THEN "restore" ELSE pc[q]
        /\ \A q \in Procs : dot(q)' = dot(q)
    BY <1>1, <2>1, ScopedChanges DEF PCs
  <2>3. Cardinality(Scoped') = 0
    BY <2>1, <2>2 DEF DepthCounts
  <2>4. Scoped' = {}
    <3>1. Scoped' \subseteq Procs
      BY <2>2 DEF Scoped
    <3>2. IsFiniteSet(Scoped')
      BY <3>1, ScopeAssumption, FS_Subset
    <3> QED
      BY <2>3, <3>2, FS_EmptySet
  <2>5. TypeOK'
    BY <2>1 DEF TypeOK, PCs
  <2>6. DepthCounts' /\ OpenScope'
    BY <2>1, <2>3, <2>4 DEF DepthCounts, OpenScope
  <2>7. ScopeHeld' /\ Asked'
    BY <1>1, <1>2, <2>1, <2>2, <2>4 DEF ScopeHeld, Asked, Switching
  <2>8. Handover'
    BY <1>2, <2>1, <2>2 DEF Handover, Switching, TypeOK
  <2> QED
    BY <2>5, <2>6, <2>7, <2>8
<1> QED
  BY <1>3, <1>4

\* The invariant holds before the first call.
LEMMA InitInv == Init => IInv
<1> SUFFICES ASSUME Init PROVE IInv
  OBVIOUS
<1>1. Scoped = {}
  BY DEF Init, Scoped
<1>2. DepthCounts
  BY <1>1, FS_EmptySet DEF DepthCounts, Init
<1>3. TypeOK
  <2>1. 0 \in 0 .. Calls /\ Default \in Names \cup {NoDot}
    BY ScopeAssumption
  <2>2. pc \in [Procs -> PCs]
    BY DEF Init, PCs
  <2>3. calls \in [Procs -> 0 .. Calls] /\ geoScopeDepth \in Nat
    BY <2>1 DEF Init
  <2>4. prev \in [Procs -> Names \cup {NoDot}] /\ geoDotServer \in Names \cup {NoDot}
    BY <2>1 DEF Init
  <2> QED
    BY <2>2, <2>3, <2>4 DEF Init, TypeOK
<1>4. ScopeHeld /\ Asked /\ OpenScope /\ Handover
  BY <1>1 DEF Init, ScopeHeld, Asked, OpenScope, Handover, Switching
<1> QED
  BY <1>2, <1>3, <1>4 DEF IInv

\* Every step keeps it.
LEMMA StepInv == IInv /\ [Next]_vars => IInv'
<1> SUFFICES ASSUME IInv, [Next]_vars PROVE IInv'
  OBVIOUS
<1>1. CASE UNCHANGED vars
  BY <1>1 DEF vars, scopeVars, IInv, TypeOK, DepthCounts, ScopeHeld, Asked, OpenScope,
              Handover, Scoped, dot, normalizeGeoDNSResolver
<1>2. ASSUME NEW p \in Procs, Call(p) \/ Inside(p)
      PROVE  IInv'
  BY <1>2, OutsideStep, JoinStep, SwitchStep, PublishStep, LeaveStep DEF Inside
<1> QED
  BY <1>1, <1>2 DEF Next

(***************************************************************************)
(* The theorems                                                            *)
(***************************************************************************)
\* The state has its types; the counter never falls below zero
\* (releaseGeoDNSResolverScope).
THEOREM TypeCorrect == Spec => []TypeOK
<1>1. IInv => TypeOK
  BY DEF IInv
<1> QED
  BY <1>1, InitInv, StepInv, PTL DEF Spec

\* Every callback runs with the resolver it asked for (WithGeoDNSResolver).
THEOREM ResolverKept == Spec => []ScopeKept
<1>1. IInv => ScopeKept
  BY DEF IInv, OpenScope, Scoped, ScopeKept
<1> QED
  BY <1>1, InitInv, StepInv, PTL DEF Spec

\* The command line's resolver is back when the scopes are over
\* (releaseGeoDNSResolverScope).
THEOREM ResolverRestored == Spec => []Restored
<1>1. IInv => Restored
  BY DEF IInv, Handover, Restored
<1> QED
  BY <1>1, InitInv, StepInv, PTL DEF Spec

\* Both, for any number of callers, nested calls and names.
THEOREM ResolverCorrect == Spec => []ResolverSound
BY ResolverKept, ResolverRestored, PTL DEF ResolverSound

(***************************************************************************)
(* The requests                                                            *)
(***************************************************************************)
\* Whatever a request does to the resolver it does through the scopes: the server's
\* requests and their lookups are a system of goroutines as GeoDNSScope has them
\* (withTraceSetupContext, withServiceRuntime, traceMapURLForResult).
THEOREM RequestsUseScopes == RSpec => Spec
<1>1. RInit => Init
  BY DEF RInit
<1>2. [RNext]_allVars => [Next]_vars
  <2> SUFFICES ASSUME [RNext]_allVars PROVE [Next]_vars
    OBVIOUS
  <2>1. Reqs \subseteq Procs
    BY DEF Reqs
  <2>2. ASSUME NEW r \in Reqs,
               Step(r) \/ LockRuntime(r) \/ RunEnds(r) \/ Leaves(r) \/ DurationOver(r)
        PROVE  UNCHANGED vars \/ Call(r) \/ Inside(r)
    BY <2>2, Zenon DEF Step, Authenticate, PrepareWeb, PrepareTool, UnlockRuntime, CheckSession,
       SetPow, RestorePow, EnterScope, LeaveScope, EnsureLeo, MakeMap, Answer, LockRuntime,
       RunEnds, Leaves, DurationOver, Others, Inside
  <2>3. ASSUME NEW l \in DOMAIN Owner, StartLookup(l) PROVE Next
    BY <2>3, RequestsAssumption DEF StartLookup, Next
  <2>4. ASSUME NEW p \in Procs, ScopeStep(p) PROVE Next
    BY <2>4 DEF ScopeStep, Next
  <2>5. UNCHANGED allVars => UNCHANGED vars
    BY DEF allVars
  <2> QED
    BY <2>1, <2>2, <2>3, <2>4, <2>5 DEF RNext, Next
<1> QED
  BY <1>1, <1>2, PTL DEF RSpec, Spec

\* So every request has its resolver while its callback runs, and the command line's
\* is back between the scopes, whatever requests are served at the same time.
THEOREM RequestsResolve == RSpec => []ResolverSound
BY RequestsUseScopes, ResolverCorrect, PTL

(***************************************************************************)
(*                      The proof-of-work provider                         *)
(*                                                                         *)
(* A request takes the lock, sets the provider, restores it and gives the  *)
(* lock back by tokens.  Its plan fits where it stands if every token of   *)
(* it finds the lock and the provider as it needs them; the plans of all   *)
(* kinds of request fit, so nobody sets the provider without the lock or   *)
(* gives the lock back before the provider.                                *)
(***************************************************************************)
Stands == {"free", "locked", "set"}
Tokens == {"auth", "prepare", "lock", "pow", "unpow", "unlock", "check", "enter", "leave",
           "leo", "map", "answer", "run"}

\* Token t leads from a to b.
Does(t, a, b) ==
  CASE t = "lock"   -> a = "free" /\ b = "locked"
    [] t = "pow"    -> a = "locked" /\ b = "set"
    [] t = "unpow"  -> a = "set" /\ b = "locked"
    [] t = "unlock" -> a = "locked" /\ b = "free"
    [] t = "check"  -> a \in {"free", "locked"} /\ b = a
    [] t \in {"enter", "leave", "leo", "map", "answer"} -> b = a
    [] OTHER -> FALSE

\* So do the tokens of s, one after the other.
Runs(s, a, b) ==
  \E f \in [1 .. Len(s) + 1 -> Stands] :
    /\ f[1] = a /\ f[Len(s) + 1] = b
    /\ \A k \in 1 .. Len(s) : Does(s[k], f[k], f[k + 1])

\* Where a request stands while its trace runs.
Tracing(q) == IF q.kind \in {"wsMTR", "speed", "globalping"} THEN "free" ELSE "set"

Front(s) == SubSeq(s, 1, Len(s) - 1)

\* The tokens s of request q, which stands at a, can be done as they are planned.
Fits(s, a, q) ==
  \/ s \in {<<"auth">>, <<"prepare">>} /\ a = "free"
  \/ \E b \in Stands : Runs(s, a, b)
  \/ s # << >> /\ s = Front(s) \o <<"run">> /\ Runs(Front(s), a, Tracing(q))

Stand(r) ==
  IF prevPow[r] # None THEN "set" ELSE IF RuntimeMu = r THEN "locked" ELSE "free"

PlanInv ==
  /\ inp \in [Reqs -> Input]
  /\ todo \in [Reqs -> Seq(Tokens)]
  /\ \A r \in Reqs : Fits(todo[r], Stand(r), inp[r])

PowInv ==
  /\ RuntimeMu \in Reqs \cup {None}
  /\ DOMAIN prevPow = Reqs /\ prevPow = [r \in Reqs |-> prevPow[r]]
  /\ \A r \in Reqs : prevPow[r] # None =>
       RuntimeMu = r /\ prevPow[r] = CliPow /\ PowProviderParam = inp[r].pow
  /\ (\A r \in Reqs : prevPow[r] = None) => PowProviderParam = CliPow

RInv == PlanInv /\ PowInv

(***************************************************************************)
(* Plans                                                                   *)
(***************************************************************************)
LEMMA RunsNone == ASSUME NEW a \in Stands PROVE Runs(<< >>, a, a)
<1> DEFINE f == [k \in 1 .. 1 |-> a]
<1>1. f \in [1 .. Len(<< >>) + 1 -> Stands] /\ f[1] = a /\ f[Len(<< >>) + 1] = a
  OBVIOUS
<1>2. \A k \in 1 .. Len(<< >>) : Does(<< >>[k], f[k], f[k + 1])
  OBVIOUS
<1> QED
  BY <1>1, <1>2 DEF Runs

LEMMA RunsOne ==
  ASSUME NEW t \in Tokens, NEW a \in Stands, NEW b \in Stands, Does(t, a, b)
  PROVE  Runs(<<t>>, a, b)
<1> DEFINE f == [k \in 1 .. 2 |-> IF k = 1 THEN a ELSE b]
<1>1. f \in [1 .. Len(<<t>>) + 1 -> Stands] /\ f[1] = a /\ f[Len(<<t>>) + 1] = b
  OBVIOUS
<1>2. \A k \in 1 .. Len(<<t>>) : Does(<<t>>[k], f[k], f[k + 1])
  <2>1. Does(<<t>>[1], f[1], f[1 + 1])
    <3>1. f[1] = a /\ f[1 + 1] = b /\ <<t>>[1] = t
      OBVIOUS
    <3> QED
      BY <3>1
  <2>2. \A k \in 1 .. Len(<<t>>) : k = 1
    OBVIOUS
  <2> HIDE DEF f
  <2> QED
    BY <2>1, <2>2
<1> QED
  BY <1>1, <1>2 DEF Runs

\* One plan after another.
LEMMA RunsThen ==
  ASSUME NEW s \in Seq(Tokens), NEW t \in Seq(Tokens),
         NEW a, NEW b, NEW c, Runs(s, a, b), Runs(t, b, c)
  PROVE  Runs(s \o t, a, c)
<1>1. PICK f \in [1 .. Len(s) + 1 -> Stands] :
        /\ f[1] = a /\ f[Len(s) + 1] = b
        /\ \A k \in 1 .. Len(s) : Does(s[k], f[k], f[k + 1])
  BY DEF Runs
<1>2. PICK g \in [1 .. Len(t) + 1 -> Stands] :
        /\ g[1] = b /\ g[Len(t) + 1] = c
        /\ \A k \in 1 .. Len(t) : Does(t[k], g[k], g[k + 1])
  BY DEF Runs
<1> DEFINE h == [k \in 1 .. Len(s \o t) + 1 |->
                   IF k <= Len(s) + 1 THEN f[k] ELSE g[k - Len(s)]]
<1>3. /\ Len(s) \in Nat /\ Len(t) \in Nat /\ Len(s \o t) = Len(s) + Len(t)
      /\ \A k \in 1 .. Len(s) + Len(t) :
           (s \o t)[k] = IF k <= Len(s) THEN s[k] ELSE t[k - Len(s)]
  BY ConcatProperties, LenProperties
<1>4. h \in [1 .. Len(s \o t) + 1 -> Stands]
  BY <1>3
<1>5. /\ \A k \in 1 .. Len(s) + 1 : h[k] = f[k]
      /\ \A k \in 1 .. Len(t) + 1 : h[k + Len(s)] = g[k]
  BY <1>1, <1>2, <1>3
<1>6. h[1] = a /\ h[Len(s \o t) + 1] = c
  BY <1>1, <1>2, <1>3, <1>5
<1>7. ASSUME NEW k \in 1 .. Len(s \o t)
      PROVE  Does((s \o t)[k], h[k], h[k + 1])
  <2>1. CASE k <= Len(s)
    <3>1. (s \o t)[k] = s[k] /\ h[k] = f[k] /\ h[k + 1] = f[k + 1] /\ k \in 1 .. Len(s)
      BY <2>1, <1>3, <1>5
    <3> HIDE DEF h
    <3> QED
      BY <3>1, <1>1
  <2>2. CASE ~ k <= Len(s)
    <3> DEFINE j == k - Len(s)
    <3>1. (s \o t)[k] = t[j] /\ j \in 1 .. Len(t) + 1 /\ j + 1 \in 1 .. Len(t) + 1
          /\ j \in 1 .. Len(t)
      BY <2>2, <1>3
    <3>2. j + Len(s) = k /\ (j + 1) + Len(s) = k + 1
      BY <1>3
    <3>3. h[k] = g[j] /\ h[k + 1] = g[j + 1]
      <4> HIDE DEF h, j
      <4> QED
        BY <3>1, <3>2, <1>5
    <3> HIDE DEF h, j
    <3> QED
      BY <3>1, <3>3, <1>2
  <2> QED
    BY <2>1, <2>2
<1> QED
  BY <1>4, <1>6, <1>7 DEF Runs

\* Longer tuples are shorter ones one after the other.
LEMMA Pair ==
  ASSUME NEW S, NEW x \in S, NEW y \in S
  PROVE  <<x>> \o <<y>> = <<x, y>>
<1>1. <<x>> \in Seq(S) /\ <<y>> \in Seq(S) /\ <<x, y>> \in Seq(S)
  OBVIOUS
<1>2. Len(<<x>>) = 1 /\ Len(<<y>>) = 1 /\ Len(<<x, y>>) = 2
  OBVIOUS
<1>3. Len(<<x>> \o <<y>>) = 2 /\ <<x>> \o <<y>> \in Seq(S)
  BY <1>1, <1>2, ConcatProperties
<1>4. /\ (<<x>> \o <<y>>)[1] = x
      /\ (<<x>> \o <<y>>)[2] = y
  BY <1>1, <1>2, ConcatProperties
<1>5. \A i \in 1 .. 2 : (<<x>> \o <<y>>)[i] = <<x, y>>[i]
  BY <1>4
<1> QED
  BY <1>1, <1>2, <1>3, <1>5, SeqEqual

LEMMA Triple ==
  ASSUME NEW S, NEW x \in S, NEW y \in S, NEW z \in S
  PROVE  <<x, y>> \o <<z>> = <<x, y, z>>
<1>1. <<x, y>> \in Seq(S) /\ <<z>> \in Seq(S) /\ <<x, y, z>> \in Seq(S)
  OBVIOUS
<1>2. Len(<<x, y>>) = 2 /\ Len(<<z>>) = 1 /\ Len(<<x, y, z>>) = 3
  OBVIOUS
<1>3. Len(<<x, y>> \o <<z>>) = 3 /\ <<x, y>> \o <<z>> \in Seq(S)
  BY <1>1, <1>2, ConcatProperties
<1>4. /\ (<<x, y>> \o <<z>>)[1] = x
      /\ (<<x, y>> \o <<z>>)[2] = y
      /\ (<<x, y>> \o <<z>>)[3] = z
  BY <1>1, <1>2, ConcatProperties
<1>5. \A i \in 1 .. 3 : (<<x, y>> \o <<z>>)[i] = <<x, y, z>>[i]
  BY <1>4
<1> QED
  BY <1>1, <1>2, <1>3, <1>5, SeqEqual

LEMMA Quadruple ==
  ASSUME NEW x \in Tokens, NEW y \in Tokens, NEW z \in Tokens, NEW w \in Tokens
  PROVE  <<x, y, z>> \o <<w>> = <<x, y, z, w>>
<1>1. <<x, y, z>> \in Seq(Tokens) /\ <<w>> \in Seq(Tokens) /\ <<x, y, z, w>> \in Seq(Tokens)
  OBVIOUS
<1>2. Len(<<x, y, z>>) = 3 /\ Len(<<w>>) = 1 /\ Len(<<x, y, z, w>>) = 4
  OBVIOUS
<1>3. Len(<<x, y, z>> \o <<w>>) = 4 /\ <<x, y, z>> \o <<w>> \in Seq(Tokens)
  BY <1>1, <1>2, ConcatProperties
<1>4. /\ (<<x, y, z>> \o <<w>>)[1] = x
      /\ (<<x, y, z>> \o <<w>>)[2] = y
      /\ (<<x, y, z>> \o <<w>>)[3] = z
      /\ (<<x, y, z>> \o <<w>>)[4] = w
  BY <1>1, <1>2, ConcatProperties
<1>5. \A i \in 1 .. 4 : (<<x, y, z>> \o <<w>>)[i] = <<x, y, z, w>>[i]
  BY <1>4
<1> QED
  BY <1>1, <1>2, <1>3, <1>5, SeqEqual

LEMMA RunsTwo ==
  ASSUME NEW t \in Tokens, NEW u \in Tokens, NEW a \in Stands, NEW b \in Stands,
         NEW c \in Stands, Does(t, a, b), Does(u, b, c)
  PROVE  Runs(<<t, u>>, a, c)
<1>1. Runs(<<t>>, a, b) /\ Runs(<<u>>, b, c)
  BY RunsOne
<1>2. <<t>> \in Seq(Tokens) /\ <<u>> \in Seq(Tokens)
  OBVIOUS
<1>3. Runs(<<t>> \o <<u>>, a, c)
  BY <1>1, <1>2, RunsThen
<1> QED
  BY <1>3, Pair

LEMMA RunsThree ==
  ASSUME NEW t \in Tokens, NEW u \in Tokens, NEW v \in Tokens, NEW a \in Stands,
         NEW b \in Stands, NEW c \in Stands, NEW d \in Stands,
         Does(t, a, b), Does(u, b, c), Does(v, c, d)
  PROVE  Runs(<<t, u, v>>, a, d)
<1>1. Runs(<<t, u>>, a, c) /\ Runs(<<v>>, c, d)
  BY RunsOne, RunsTwo
<1>2. <<t, u>> \in Seq(Tokens) /\ <<v>> \in Seq(Tokens)
  OBVIOUS
<1>3. Runs(<<t, u>> \o <<v>>, a, d)
  BY <1>1, <1>2, RunsThen
<1> QED
  BY <1>3, Triple

LEMMA RunsFour ==
  ASSUME NEW t \in Tokens, NEW u \in Tokens, NEW v \in Tokens, NEW w \in Tokens,
         NEW a \in Stands, NEW b \in Stands, NEW c \in Stands, NEW d \in Stands,
         NEW e \in Stands,
         Does(t, a, b), Does(u, b, c), Does(v, c, d), Does(w, d, e)
  PROVE  Runs(<<t, u, v, w>>, a, e)
<1>1. Runs(<<t, u, v>>, a, d) /\ Runs(<<w>>, d, e)
  BY RunsOne, RunsThree
<1>2. <<t, u, v>> \in Seq(Tokens) /\ <<w>> \in Seq(Tokens)
  OBVIOUS
<1>3. Runs(<<t, u, v>> \o <<w>>, a, e)
  BY <1>1, <1>2, RunsThen
<1>4. <<t, u, v>> \o <<w>> = <<t, u, v, w>>
  BY Quadruple
<1> QED
  BY <1>3, <1>4

LEMMA RunsIf ==
  ASSUME NEW c \in BOOLEAN, NEW s \in Seq(Tokens), NEW a \in Stands, Runs(s, a, a)
  PROVE  If(c, s) \in Seq(Tokens) /\ Runs(If(c, s), a, a)
<1>1. CASE c
  BY <1>1 DEF If
<1>2. CASE ~ c
  BY <1>2, RunsNone DEF If
<1> QED
  BY <1>1, <1>2

\* The first token of a plan.
LEMMA RunsFirst ==
  ASSUME NEW s \in Seq(Tokens), s # << >>, NEW a, NEW b, Runs(s, a, b)
  PROVE  \E c \in Stands : Does(Head(s), a, c) /\ Runs(Tail(s), c, b)
<1>1. PICK f \in [1 .. Len(s) + 1 -> Stands] :
        /\ f[1] = a /\ f[Len(s) + 1] = b
        /\ \A k \in 1 .. Len(s) : Does(s[k], f[k], f[k + 1])
  BY DEF Runs
<1>2. /\ Len(s) \in Nat \ {0} /\ Len(Tail(s)) = Len(s) - 1 /\ Head(s) = s[1]
      /\ \A k \in 1 .. Len(Tail(s)) : Tail(s)[k] = s[k + 1]
  BY EmptySeq, HeadTailProperties
<1> DEFINE g == [k \in 1 .. Len(Tail(s)) + 1 |-> f[k + 1]]
<1>3. g \in [1 .. Len(Tail(s)) + 1 -> Stands] /\ g[1] = f[2] /\ g[Len(Tail(s)) + 1] = b
  BY <1>1, <1>2
<1>4. ASSUME NEW k \in 1 .. Len(Tail(s)) PROVE Does(Tail(s)[k], g[k], g[k + 1])
  <2>1. Tail(s)[k] = s[k + 1] /\ g[k] = f[k + 1] /\ g[k + 1] = f[(k + 1) + 1]
        /\ k + 1 \in 1 .. Len(s)
    BY <1>2
  <2> HIDE DEF g
  <2> QED
    BY <2>1, <1>1
<1>5. Runs(Tail(s), f[2], b)
  BY <1>3, <1>4 DEF Runs
<1>6. Does(Head(s), a, f[2]) /\ f[2] \in Stands
  <2>1. 1 \in 1 .. Len(s) /\ 1 + 1 = 2 /\ 2 \in 1 .. Len(s) + 1
    BY <1>2
  <2>2. Does(s[1], f[1], f[1 + 1])
    BY <2>1, <1>1
  <2> QED
    BY <2>1, <2>2, <1>1, <1>2
<1> QED
  BY <1>5, <1>6

LEMMA FrontIs ==
  ASSUME NEW S, NEW u \in Seq(S), NEW e \in S
  PROVE  /\ u \o <<e>> \in Seq(S) /\ u \o <<e>> # << >>
         /\ Front(u \o <<e>>) = u
<1>1. <<e>> \in Seq(S) /\ Len(<<e>>) = 1 /\ Len(u) \in Nat
  OBVIOUS
<1>2. /\ u \o <<e>> \in Seq(S) /\ Len(u \o <<e>>) = Len(u) + 1
      /\ \A i \in 1 .. Len(u) : (u \o <<e>>)[i] = u[i]
  BY <1>1, ConcatProperties
<1>3. \A i \in 1 .. Len(u) : u[i] \in S
  OBVIOUS
<1> DEFINE s == u \o <<e>>
<1>4. Front(s) = SubSeq(s, 1, Len(u))
  BY <1>1, <1>2 DEF Front
<1> HIDE DEF s
<1>5. /\ SubSeq(s, 1, Len(u)) \in Seq(S)
      /\ Len(SubSeq(s, 1, Len(u))) = Len(u)
      /\ \A i \in 1 .. Len(u) : SubSeq(s, 1, Len(u))[i] = u[i]
  <2>1. \A i \in 1 .. Len(u) : s[i] = u[i] /\ s[i] \in S
    BY <1>2, <1>3 DEF s
  <2>2. /\ SubSeq(s, 1, Len(u)) \in Seq(S)
        /\ Len(SubSeq(s, 1, Len(u))) = IF 1 <= Len(u) THEN Len(u) - 1 + 1 ELSE 0
        /\ \A i \in 1 .. Len(u) - 1 + 1 : SubSeq(s, 1, Len(u))[i] = s[1 + i - 1]
    BY <2>1, <1>1, SubSeqProperties, 1 \in Int, Len(u) \in Int
  <2> QED
    BY <2>1, <2>2, <1>1
<1>6. Front(s) = u
  BY <1>4, <1>5, SeqEqual
<1>7. s # << >>
  BY <1>1, <1>2, EmptySeq DEF s
<1> QED
  BY <1>2, <1>6, <1>7 DEF s

LEMMA FrontType == ASSUME NEW s \in Seq(Tokens) PROVE Front(s) \in Seq(Tokens)
<1>1. Len(s) \in Nat /\ s \in [1 .. Len(s) -> Tokens]
  BY LenProperties
<1>2. Len(s) - 1 \in Int
  BY <1>1
<1>3. \A i \in 1 .. Len(s) - 1 : s[i] \in Tokens
  BY <1>1, <1>2
<1>4. SubSeq(s, 1, Len(s) - 1) \in Seq(Tokens)
  BY <1>2, <1>3, SubSeqProperties, 1 \in Int
<1> QED
  BY <1>4 DEF Front

LEMMA FitsRun ==
  ASSUME NEW u \in Seq(Tokens), NEW a, NEW q, Runs(u, a, Tracing(q))
  PROVE  u \o <<"run">> \in Seq(Tokens) /\ Fits(u \o <<"run">>, a, q)
<1>1. "run" \in Tokens
  BY DEF Tokens
<1> QED
  BY <1>1, FrontIs DEF Fits

\* The next token of a plan that fits can be done, and the rest fits what it leads to.
LEMMA FitsFirst ==
  ASSUME NEW s \in Seq(Tokens), s # << >>, NEW a \in Stands, NEW q, Fits(s, a, q),
         Head(s) \notin {"auth", "prepare", "run"}
  PROVE  \E c \in Stands : Does(Head(s), a, c) /\ Fits(Tail(s), c, q)
<1>1. CASE s \in {<<"auth">>, <<"prepare">>}
  BY <1>1
<1>2. ASSUME NEW b \in Stands, Runs(s, a, b)
      PROVE  \E c \in Stands : Does(Head(s), a, c) /\ Fits(Tail(s), c, q)
  BY <1>2, RunsFirst DEF Fits
<1>3. ASSUME s = Front(s) \o <<"run">>, Runs(Front(s), a, Tracing(q))
      PROVE  \E c \in Stands : Does(Head(s), a, c) /\ Fits(Tail(s), c, q)
  <2> DEFINE u == Front(s)
  <2>1. u \in Seq(Tokens)
    BY FrontType
  <2> HIDE DEF u
  <2>2. s = Append(u, "run") /\ "run" \in Tokens
    <3>1. "run" \in Tokens
      BY DEF Tokens
    <3> QED
      BY <1>3, <2>1, <3>1, AppendIsConcat DEF u
  <2>3. u # << >>
    <3>1. u = << >> => Head(s) = "run"
      BY <2>1, <2>2, HeadTailAppend
    <3> QED
      BY <3>1
  <2>4. Head(s) = Head(u) /\ Tail(s) = Append(Tail(u), "run") /\ Tail(u) \in Seq(Tokens)
    BY <2>1, <2>2, <2>3, HeadTailAppend, HeadTailProperties
  <2>5. Tail(s) = Tail(u) \o <<"run">>
    BY <2>2, <2>4, AppendIsConcat
  <2>6. PICK c \in Stands : Does(Head(u), a, c) /\ Runs(Tail(u), c, Tracing(q))
    BY <1>3, <2>1, <2>3, RunsFirst DEF u
  <2> QED
    BY <2>4, <2>5, <2>6, FitsRun
<1> QED
  BY <1>1, <1>2, <1>3 DEF Fits

\* A request that has not been let in stands outside.
LEMMA FitsStart ==
  ASSUME NEW s \in Seq(Tokens), s # << >>, NEW a \in Stands, NEW q, Fits(s, a, q),
         Head(s) \in {"auth", "prepare"}
  PROVE  a = "free"
<1>1. ASSUME NEW u \in Seq(Tokens), NEW b, u # << >>, Runs(u, a, b)
      PROVE  Head(u) \notin {"auth", "prepare"}
  BY <1>1, RunsFirst DEF Does
<1>2. ~ (s = Front(s) \o <<"run">> /\ Runs(Front(s), a, Tracing(q)))
  <2> SUFFICES ASSUME s = Front(s) \o <<"run">>, Runs(Front(s), a, Tracing(q)) PROVE FALSE
    OBVIOUS
  <2>1. Front(s) \in Seq(Tokens)
    BY FrontType
  <2>2. "run" \in Tokens
    BY DEF Tokens
  <2>3. s = Append(Front(s), "run")
    BY <2>1, <2>2, AppendIsConcat
  <2>4. Head(s) = IF Front(s) = << >> THEN "run" ELSE Head(Front(s))
    BY <2>1, <2>3, HeadTailAppend
  <2> QED
    BY <2>1, <2>4, <1>1
<1> QED
  BY <1>1, <1>2 DEF Fits

\* A request whose trace runs stands where the rest of its plan begins.
LEMMA FitsTracing ==
  ASSUME NEW s \in Seq(Tokens), s # << >>, NEW a \in Stands, NEW q, Fits(s, a, q),
         Head(s) = "run"
  PROVE  a = Tracing(q)
<1>1. s \notin {<<"auth">>, <<"prepare">>}
  OBVIOUS
<1>2. ASSUME NEW u \in Seq(Tokens), NEW b, u # << >>, Runs(u, a, b) PROVE Head(u) # "run"
  BY <1>2, RunsFirst DEF Does
<1>3. CASE s = Front(s) \o <<"run">> /\ Runs(Front(s), a, Tracing(q))
  <2>1. Front(s) \in Seq(Tokens)
    BY FrontType
  <2>2. "run" \in Tokens
    BY DEF Tokens
  <2>3. s = Append(Front(s), "run")
    BY <1>3, <2>1, <2>2, AppendIsConcat
  <2>4. CASE Front(s) # << >>
    <3>1. Head(Append(Front(s), "run")) = Head(Front(s))
      BY <2>1, <2>4, HeadTailAppend
    <3> QED
      BY <3>1, <2>1, <2>3, <2>4, <1>2, <1>3
  <2>5. CASE Front(s) = << >>
    <3>1. Runs(<< >>, a, Tracing(q))
      BY <1>3, <2>5
    <3> QED
      BY <3>1 DEF Runs
  <2> QED
    BY <2>4, <2>5
<1> QED
  BY <1>1, <1>2, <1>3 DEF Fits

(***************************************************************************)
(* The plans of the requests                                               *)
(***************************************************************************)
LEMMA LeoRuns ==
  ASSUME NEW c \in BOOLEAN, NEW a \in Stands
  PROVE  If(c, <<"leo">>) \in Seq(Tokens) /\ Runs(If(c, <<"leo">>), a, a)
<1>1. <<"leo">> \in Seq(Tokens)
  BY DEF Tokens
<1>2. Runs(<<"leo">>, a, a)
  BY RunsOne DEF Does, Tokens
<1> QED
  BY <1>1, <1>2, RunsIf

LEMMA SetupRuns ==
  ASSUME NEW s \in Seq(Tokens), Runs(s, "set", "set")
  PROVE  Setup(s) \in Seq(Tokens) /\ Runs(Setup(s), "locked", "locked")
<1>1. /\ <<"pow", "enter">> \in Seq(Tokens) /\ <<"leave", "unpow">> \in Seq(Tokens)
      /\ {"free", "locked", "set"} = Stands
  BY DEF Tokens, Stands
<1>2. Runs(<<"pow", "enter">>, "locked", "set")
  BY RunsTwo DEF Does, Tokens, Stands
<1>3. Runs(<<"leave", "unpow">>, "set", "locked")
  BY RunsTwo DEF Does, Tokens, Stands
<1>4. <<"pow", "enter">> \o s \in Seq(Tokens) /\ Runs(<<"pow", "enter">> \o s, "locked", "set")
  BY <1>1, <1>2, RunsThen, ConcatProperties
<1> QED
  BY <1>1, <1>3, <1>4, RunsThen, ConcatProperties DEF Setup

\* What each kind of request does up to its trace (traceHandler, executeTrace,
\* executeMTRRaw, withServiceRuntime) ...
LEMMA PlanBegin ==
  ASSUME NEW q \in Input
  PROVE  Begin(q) \in Seq(Tokens) /\ Fits(Begin(q), "free", q)
<1>1. /\ q.leo \in BOOLEAN /\ q.token \in BOOLEAN /\ q.kind \in Kinds
      /\ (q.leo /\ ~ q.token) \in BOOLEAN
  BY DEF Input
<1>2. {"free", "locked", "set"} = Stands
  BY DEF Stands
<1> DEFINE leo == If(q.leo, <<"leo">>)
<1>3. \A a \in Stands : leo \in Seq(Tokens) /\ Runs(leo, a, a)
  BY <1>1, LeoRuns
<1> HIDE DEF leo
<1>4. /\ <<"lock">> \in Seq(Tokens) /\ Runs(<<"lock">>, "free", "locked")
      /\ <<"run">> \in Seq(Tokens) /\ << >> \in Seq(Tokens)
      /\ << >> \o <<"run">> = <<"run">>
  <2>1. <<"lock">> \in Seq(Tokens) /\ <<"run">> \in Seq(Tokens) /\ << >> \in Seq(Tokens)
    BY DEF Tokens
  <2>2. Runs(<<"lock">>, "free", "locked")
    BY RunsOne DEF Does, Tokens, Stands
  <2> QED
    BY <2>1, <2>2, ConcatEmptySeq
<1>5. \A u \in Seq(Tokens) : Runs(u, "free", Tracing(q)) =>
        u \o <<"run">> \in Seq(Tokens) /\ Fits(u \o <<"run">>, "free", q)
  BY FitsRun
<1>6. CASE q.kind = "http"
  <2> DEFINE head == <<"lock">> \o If(q.leo, Setup(<<"leo">>))
  <2>1. <<"leo">> \in Seq(Tokens) /\ Runs(<<"leo">>, "set", "set")
    BY RunsOne DEF Does, Tokens, Stands
  <2>2. /\ If(q.leo, Setup(<<"leo">>)) \in Seq(Tokens)
        /\ Runs(If(q.leo, Setup(<<"leo">>)), "locked", "locked")
    BY <1>1, <1>2, <2>1, SetupRuns, RunsIf
  <2>3. head \in Seq(Tokens) /\ Runs(head, "free", "locked")
    BY <1>4, <2>2, RunsThen, ConcatProperties
  <2>4. <<"pow", "enter">> \in Seq(Tokens) /\ Runs(<<"pow", "enter">>, "locked", "set")
    BY RunsTwo DEF Does, Tokens, Stands
  <2>5. <<"pow", "enter">> \o <<"run">> = <<"pow", "enter", "run">>
    <3>1. "pow" \in Tokens /\ "enter" \in Tokens /\ "run" \in Tokens
      BY DEF Tokens
    <3> QED
      BY <3>1, Triple, Zenon
  <2> HIDE DEF head
  <2>6. head \o <<"pow", "enter">> \in Seq(Tokens)
        /\ Runs(head \o <<"pow", "enter">>, "free", "set")
    BY <2>3, <2>4, RunsThen, ConcatProperties
  <2>7. head \o <<"pow", "enter", "run">> = (head \o <<"pow", "enter">>) \o <<"run">>
    BY <1>4, <2>3, <2>4, <2>5, ConcatAssociative
  <2>8. Begin(q) = head \o <<"pow", "enter", "run">> /\ Tracing(q) = "set"
    BY <1>6 DEF Begin, Tracing, head
  <2> QED
    BY <1>5, <2>6, <2>7, <2>8
<1>7. CASE q.kind = "wsTrace"
  <2> DEFINE head == <<"lock", "check", "pow", "enter">>
  <2>1. head \in Seq(Tokens) /\ Runs(head, "free", "set")
    <3>1. head \in Seq(Tokens)
      BY DEF Tokens
    <3>2. /\ Does("lock", "free", "locked") /\ Does("check", "locked", "locked")
          /\ Does("pow", "locked", "set") /\ Does("enter", "set", "set")
      BY DEF Does
    <3>3. {"lock", "check", "pow", "enter"} \subseteq Tokens
      BY DEF Tokens
    <3> QED
      BY <3>1, <3>2, <3>3, <1>2, RunsFour
  <2> HIDE DEF head
  <2>2. head \o leo \in Seq(Tokens) /\ Runs(head \o leo, "free", "set")
    BY <1>2, <1>3, <2>1, RunsThen, ConcatProperties
  <2>3. Begin(q) = (head \o leo) \o <<"run">> /\ Tracing(q) = "set"
    BY <1>7 DEF Begin, Tracing, head, leo
  <2> QED
    BY <1>5, <2>2, <2>3
<1>8. CASE q.kind = "wsMTR"
  <2> DEFINE setup == Setup(leo)
  <2>1. setup \in Seq(Tokens) /\ Runs(setup, "locked", "locked")
    BY <1>2, <1>3, SetupRuns
  <2> HIDE DEF setup
  <2>2. <<"check", "lock">> \in Seq(Tokens) /\ Runs(<<"check", "lock">>, "free", "locked")
    BY RunsTwo DEF Does, Tokens, Stands
  <2>3. <<"unlock">> \in Seq(Tokens) /\ Runs(<<"unlock">>, "locked", "free")
    BY RunsOne DEF Does, Tokens, Stands
  <2>4. <<"unlock">> \o <<"run">> = <<"unlock", "run">>
    <3>1. "unlock" \in Tokens /\ "run" \in Tokens
      BY DEF Tokens
    <3> QED
      BY <3>1, Pair, Zenon
  <2>5. <<"check", "lock">> \o setup \in Seq(Tokens)
        /\ Runs(<<"check", "lock">> \o setup, "free", "locked")
    BY <2>1, <2>2, RunsThen, ConcatProperties
  <2>6. (<<"check", "lock">> \o setup) \o <<"unlock">> \in Seq(Tokens)
        /\ Runs((<<"check", "lock">> \o setup) \o <<"unlock">>, "free", "free")
    BY <2>3, <2>5, RunsThen, ConcatProperties
  <2>7. (<<"check", "lock">> \o setup) \o <<"unlock", "run">>
          = ((<<"check", "lock">> \o setup) \o <<"unlock">>) \o <<"run">>
    BY <1>4, <2>3, <2>4, <2>5, ConcatAssociative
  <2>8. Begin(q) = (<<"check", "lock">> \o setup) \o <<"unlock", "run">>
        /\ Tracing(q) = "free"
    BY <1>8 DEF Begin, HopTrace, Tracing, setup, leo
  <2> QED
    BY <1>5, <2>6, <2>7, <2>8
<1>9. CASE q.kind \in {"speed", "globalping"}
  <2>1. Begin(q) = << >> \o <<"run">> /\ Tracing(q) = "free"
    BY <1>4, <1>9 DEF Begin, Tracing
  <2> QED
    BY <1>2, <1>4, <1>5, <2>1, RunsNone
<1>10. CASE q.kind \notin {"http", "wsTrace", "wsMTR", "speed", "globalping"}
  <2> DEFINE head == <<"lock", "pow", "enter">>
             open == If(q.leo /\ ~ q.token, <<"leo">>)
  <2>1. head \in Seq(Tokens) /\ Runs(head, "free", "set")
    <3>1. head \in Seq(Tokens) /\ {"lock", "pow", "enter"} \subseteq Tokens
      BY DEF Tokens
    <3>2. /\ Does("lock", "free", "locked") /\ Does("pow", "locked", "set")
          /\ Does("enter", "set", "set")
      BY DEF Does
    <3> QED
      BY <3>1, <3>2, <1>2, RunsThree
  <2>2. open \in Seq(Tokens) /\ Runs(open, "set", "set")
    BY <1>1, <1>2, LeoRuns
  <2> HIDE DEF head, open
  <2>3. head \o open \in Seq(Tokens) /\ Runs(head \o open, "free", "set")
    BY <2>1, <2>2, RunsThen, ConcatProperties
  <2>4. Begin(q) = (head \o open) \o <<"run">> /\ Tracing(q) = "set"
    BY <1>10 DEF Begin, ServiceRuntime, Tracing, head, open
  <2> QED
    BY <1>5, <2>3, <2>4
<1> QED
  BY <1>6, <1>7, <1>8, <1>9, <1>10

\* ... and after it.
LEMMA PlanEnd ==
  ASSUME NEW q \in Input, NEW outcome \in {"ok", "fails", "stopped"}
  PROVE  End(q, outcome) \in Seq(Tokens) /\ Fits(End(q, outcome), Tracing(q), q)
<1> DEFINE map == Map(q, outcome)
           answer == If(outcome # "stopped" \/ ~ Web(q) \/ q.kind = "wsMTR", <<"answer">>)
<1>1. {"free", "locked", "set"} = Stands
  BY DEF Stands
<1>2. answer \in Seq(Tokens) /\ \A a \in Stands : Runs(answer, a, a)
  <2>1. (outcome # "stopped" \/ ~ Web(q) \/ q.kind = "wsMTR") \in BOOLEAN
    BY Zenon
  <2>2. <<"answer">> \in Seq(Tokens) /\ \A a \in Stands : Runs(<<"answer">>, a, a)
    BY RunsOne DEF Does, Tokens
  <2> QED
    BY <1>1, <2>1, <2>2, RunsIf
<1>3. map \in Seq(Tokens) /\ \A a \in Stands : Runs(map, a, a)
  <2>1. q.map \in BOOLEAN /\ (q.map /\ outcome = "ok") \in BOOLEAN
    BY DEF Input
  <2>2. <<"enter", "map", "leave">> \in Seq(Tokens)
        /\ \A a \in Stands : Runs(<<"enter", "map", "leave">>, a, a)
    <3>1. /\ <<"enter", "map", "leave">> \in Seq(Tokens)
          /\ {"enter", "map", "leave"} \subseteq Tokens
      BY DEF Tokens
    <3>2. \A t \in {"enter", "map", "leave"} : \A a \in Stands : Does(t, a, a)
      BY DEF Does
    <3> QED
      BY <3>1, <3>2, RunsThree
  <2> QED
    BY <1>1, <2>1, <2>2, RunsIf DEF Map
<1> HIDE DEF map, answer
<1>4. CASE q.kind = "http"
  <2>1. <<"leave", "unpow">> \in Seq(Tokens) /\ Runs(<<"leave", "unpow">>, "set", "locked")
    BY RunsTwo DEF Does, Tokens, Stands
  <2>2. <<"unlock">> \in Seq(Tokens) /\ Runs(<<"unlock">>, "locked", "free")
    BY RunsOne DEF Does, Tokens, Stands
  <2>3. <<"leave", "unpow">> \o map \in Seq(Tokens)
        /\ Runs(<<"leave", "unpow">> \o map, "set", "locked")
    BY <1>1, <1>3, <2>1, RunsThen, ConcatProperties
  <2>4. (<<"leave", "unpow">> \o map) \o answer \in Seq(Tokens)
        /\ Runs((<<"leave", "unpow">> \o map) \o answer, "set", "locked")
    BY <1>1, <1>2, <2>3, RunsThen, ConcatProperties
  <2>5. ((<<"leave", "unpow">> \o map) \o answer) \o <<"unlock">> \in Seq(Tokens)
        /\ Runs(((<<"leave", "unpow">> \o map) \o answer) \o <<"unlock">>, "set", "free")
    BY <2>2, <2>4, RunsThen, ConcatProperties
  <2>6. End(q, outcome) = ((<<"leave", "unpow">> \o map) \o answer) \o <<"unlock">>
        /\ Tracing(q) = "set"
    BY <1>4 DEF End, Tracing, map, answer
  <2> QED
    BY <1>1, <2>5, <2>6 DEF Fits
<1>5. CASE q.kind = "wsTrace" \/ q.kind \notin {"http", "wsMTR", "speed", "globalping"}
  <2> DEFINE head == <<"leave", "unpow", "unlock">>
  <2>1. head \in Seq(Tokens) /\ Runs(head, "set", "free")
    <3>1. head \in Seq(Tokens) /\ {"leave", "unpow", "unlock"} \subseteq Tokens
      BY DEF Tokens
    <3>2. /\ Does("leave", "set", "set") /\ Does("unpow", "set", "locked")
          /\ Does("unlock", "locked", "free")
      BY DEF Does
    <3> QED
      BY <3>1, <3>2, <1>1, RunsThree
  <2> HIDE DEF head
  <2>2. head \o map \in Seq(Tokens) /\ Runs(head \o map, "set", "free")
    BY <1>1, <1>3, <2>1, RunsThen, ConcatProperties
  <2>3. /\ (head \o map) \o answer \in Seq(Tokens) /\ Runs((head \o map) \o answer, "set", "free")
        /\ head \o answer \in Seq(Tokens) /\ Runs(head \o answer, "set", "free")
    BY <1>1, <1>2, <2>1, <2>2, RunsThen, ConcatProperties
  <2>4. /\ End(q, outcome) \in {(head \o map) \o answer, head \o answer}
        /\ Tracing(q) = "set"
    BY <1>5 DEF End, Tracing, head, map, answer
  <2> QED
    BY <1>1, <2>3, <2>4 DEF Fits
<1>6. CASE q.kind \in {"wsMTR", "speed", "globalping"}
  <2>1. End(q, outcome) = answer /\ Tracing(q) = "free"
    BY <1>6 DEF End, Tracing, answer
  <2> QED
    BY <1>1, <1>2, <2>1 DEF Fits
<1> QED
  BY <1>4, <1>5, <1>6

(***************************************************************************)
(* The steps of the requests                                               *)
(***************************************************************************)
\* Of the requests one moves, and moves only itself.
Alone(r) == \A d \in Reqs : d # r => /\ todo'[d] = todo[d] /\ prevPow'[d] = prevPow[d]
                                     /\ (RuntimeMu' = d) = (RuntimeMu = d)

\* The others' plans stay as they are.
LEMMA OthersFit ==
  ASSUME RInv, NEW r \in Reqs, inp' = inp, Alone(r), todo' \in [Reqs -> Seq(Tokens)],
         Fits(todo'[r], Stand(r)', inp[r])
  PROVE  PlanInv'
<1>1. ASSUME NEW d \in Reqs, d # r PROVE Stand(d)' = Stand(d)
  BY <1>1 DEF Alone, Stand
<1>2. ASSUME NEW d \in Reqs PROVE Fits(todo'[d], Stand(d)', inp'[d])
  BY <1>1 DEF Alone, RInv, PlanInv
<1> QED
  BY <1>2 DEF RInv, PlanInv

\* A request that does the next token of its plan.
LEMMA TokenDone ==
  ASSUME RInv, NEW r \in Reqs, Done(r), todo[r] # << >>,
         Head(todo[r]) \notin {"auth", "prepare", "run"}
  PROVE  /\ todo' \in [Reqs -> Seq(Tokens)] /\ \A d \in Reqs : d # r => todo'[d] = todo[d]
         /\ \E c \in Stands : Does(Head(todo[r]), Stand(r), c) /\ Fits(todo'[r], c, inp[r])
<1>1. todo[r] \in Seq(Tokens) /\ Tail(todo[r]) \in Seq(Tokens)
  BY HeadTailProperties DEF RInv, PlanInv
<1>2. /\ todo' \in [Reqs -> Seq(Tokens)] /\ todo'[r] = Tail(todo[r])
      /\ \A d \in Reqs : d # r => todo'[d] = todo[d]
  BY <1>1 DEF Done, RInv, PlanInv
<1>3. Stand(r) \in Stands /\ Fits(todo[r], Stand(r), inp[r])
  BY DEF Stand, Stands, RInv, PlanInv
<1> QED
  BY <1>1, <1>2, <1>3, FitsFirst

\* A request whose plan is replaced by one that fits where it stands.
LEMMA PlanReplaced ==
  ASSUME RInv, NEW r \in Reqs, NEW s \in Seq(Tokens), Becomes(r, s),
         Fits(s, Stand(r), inp[r]), UNCHANGED <<inp, RuntimeMu, PowProviderParam, prevPow>>
  PROVE  RInv'
<1>1. /\ todo' \in [Reqs -> Seq(Tokens)] /\ todo'[r] = s
      /\ \A d \in Reqs : d # r => todo'[d] = todo[d]
  BY DEF Becomes, RInv, PlanInv
<1>2. Stand(r)' = Stand(r)
  BY DEF Stand
<1>3. PlanInv'
  BY <1>1, <1>2, OthersFit DEF Alone
<1>4. PowInv'
  BY DEF RInv, PowInv
<1> QED
  BY <1>3, <1>4 DEF RInv

\* A token that touches neither lock nor provider.
LEMMA TokenAside ==
  ASSUME RInv, NEW r \in Reqs, Done(r), todo[r] # << >>,
         Head(todo[r]) \in {"check", "enter", "leave", "leo", "map", "answer"},
         UNCHANGED <<inp, RuntimeMu, PowProviderParam, prevPow>>
  PROVE  RInv'
<1>1. PICK c \in Stands : Does(Head(todo[r]), Stand(r), c) /\ Fits(todo'[r], c, inp[r])
  BY TokenDone
<1>2. c = Stand(r)
  BY <1>1 DEF Does
<1>3. Stand(r)' = Stand(r)
  BY DEF Stand
<1>4. PlanInv'
  BY <1>1, <1>2, <1>3, TokenDone, OthersFit DEF Alone
<1>5. PowInv'
  BY DEF RInv, PowInv
<1> QED
  BY <1>4, <1>5 DEF RInv

\* Where a request stands tells who has the lock and whose provider is set.
LEMMA StandIs ==
  ASSUME PowInv, NEW r \in Reqs
  PROVE  /\ Stand(r) = "free" => RuntimeMu # r /\ prevPow[r] = None
         /\ Stand(r) # "free" => RuntimeMu = r
         /\ Stand(r) = "locked" => PowProviderParam = CliPow /\ prevPow[r] = None
         /\ Stand(r) = "set" => prevPow[r] = CliPow /\ CliPow # None
         /\ r # None
         /\ \A d \in Reqs : d # r /\ RuntimeMu = r => prevPow[d] = None
<1>1. None \notin Reqs /\ CliPow # None
  BY RequestsAssumption
<1>2. \A d \in Reqs : d # r /\ RuntimeMu = r => prevPow[d] = None
  BY DEF PowInv
<1>3. Stand(r) = "locked" => RuntimeMu = r /\ prevPow[r] = None
  BY DEF Stand
<1>4. Stand(r) = "locked" => PowProviderParam = CliPow
  BY <1>2, <1>3 DEF PowInv
<1>5. Stand(r) = "free" => RuntimeMu # r /\ prevPow[r] = None
  BY DEF Stand
<1>6. Stand(r) = "set" => prevPow[r] # None /\ RuntimeMu = r /\ prevPow[r] = CliPow
  BY DEF Stand, PowInv
<1>7. Stand(r) \in {"free", "locked", "set"}
  BY DEF Stand
<1> QED
  BY <1>1, <1>2, <1>3, <1>4, <1>5, <1>6, <1>7

LEMMA LockKept ==
  ASSUME RInv, NEW r \in Reqs, LockRuntime(r)
  PROVE  RInv'
<1>1. /\ todo[r] # << >> /\ Head(todo[r]) = "lock" /\ Done(r) /\ RuntimeMu = None
      /\ RuntimeMu' = r /\ UNCHANGED <<inp, PowProviderParam, prevPow>>
  BY DEF LockRuntime, Is, Others
<1>2. PICK c \in Stands : Does("lock", Stand(r), c) /\ Fits(todo'[r], c, inp[r])
  BY <1>1, TokenDone
<1>3. Stand(r) = "free" /\ c = "locked"
  BY <1>2 DEF Does
<1>4. \A d \in Reqs : prevPow[d] = None /\ d # None
  BY <1>1, RequestsAssumption DEF RInv, PowInv
<1>5. Stand(r)' = "locked"
  BY <1>1, <1>4 DEF Stand
<1>6. PlanInv'
  BY <1>1, <1>2, <1>3, <1>4, <1>5, TokenDone, OthersFit DEF Alone
<1>7. PowInv'
  BY <1>1, <1>4 DEF RInv, PowInv
<1> QED
  BY <1>6, <1>7 DEF RInv

LEMMA UnlockKept ==
  ASSUME RInv, NEW r \in Reqs, UnlockRuntime(r)
  PROVE  RInv'
<1>1. /\ todo[r] # << >> /\ Head(todo[r]) = "unlock" /\ Done(r)
      /\ RuntimeMu' = None /\ UNCHANGED <<inp, PowProviderParam, prevPow>>
  BY DEF UnlockRuntime, Is, Others
<1>2. PICK c \in Stands : Does("unlock", Stand(r), c) /\ Fits(todo'[r], c, inp[r])
  BY <1>1, TokenDone
<1>3. Stand(r) = "locked" /\ c = "free"
  BY <1>2 DEF Does
<1>4. /\ RuntimeMu = r /\ \A d \in Reqs : prevPow[d] = None /\ d # None
      /\ PowProviderParam = CliPow
  BY <1>3, StandIs, RequestsAssumption DEF RInv
<1>5. Stand(r)' = "free"
  BY <1>1, <1>4 DEF Stand
<1>6. PlanInv'
  BY <1>1, <1>2, <1>3, <1>4, <1>5, TokenDone, OthersFit DEF Alone
<1>7. PowInv'
  BY <1>1, <1>4 DEF RInv, PowInv
<1> QED
  BY <1>6, <1>7 DEF RInv

LEMMA SetPowKept ==
  ASSUME RInv, NEW r \in Reqs, SetPow(r)
  PROVE  RInv'
<1>1. /\ todo[r] # << >> /\ Head(todo[r]) = "pow" /\ Done(r)
      /\ prevPow' = [prevPow EXCEPT ![r] = PowProviderParam]
      /\ PowProviderParam' = inp[r].pow /\ UNCHANGED <<inp, RuntimeMu>>
  BY DEF SetPow, Is, Others
<1>2. PICK c \in Stands : Does("pow", Stand(r), c) /\ Fits(todo'[r], c, inp[r])
  BY <1>1, TokenDone
<1>3. Stand(r) = "locked" /\ c = "set"
  BY <1>2 DEF Does
<1>4. /\ RuntimeMu = r /\ PowProviderParam = CliPow /\ CliPow # None
      /\ \A d \in Reqs : prevPow[d] = None
  BY <1>3, StandIs, RequestsAssumption DEF RInv
<1>5. /\ prevPow' = [d \in Reqs |-> prevPow'[d]] /\ DOMAIN prevPow' = Reqs
      /\ prevPow'[r] = CliPow /\ \A d \in Reqs : d # r => prevPow'[d] = None
  BY <1>1, <1>4 DEF RInv, PowInv
<1>6. Stand(r)' = "set"
  BY <1>4, <1>5 DEF Stand
<1>7. PlanInv'
  BY <1>1, <1>2, <1>3, <1>4, <1>5, <1>6, TokenDone, OthersFit DEF Alone
<1>8. PowInv'
  BY <1>1, <1>4, <1>5 DEF RInv, PowInv
<1> QED
  BY <1>7, <1>8 DEF RInv

LEMMA RestorePowKept ==
  ASSUME RInv, NEW r \in Reqs, RestorePow(r)
  PROVE  RInv'
<1>1. /\ todo[r] # << >> /\ Head(todo[r]) = "unpow" /\ Done(r)
      /\ prevPow' = [prevPow EXCEPT ![r] = None]
      /\ PowProviderParam' = prevPow[r] /\ UNCHANGED <<inp, RuntimeMu>>
  BY DEF RestorePow, Is, Others
<1>2. PICK c \in Stands : Does("unpow", Stand(r), c) /\ Fits(todo'[r], c, inp[r])
  BY <1>1, TokenDone
<1>3. Stand(r) = "set" /\ c = "locked"
  BY <1>2 DEF Does
<1>4. /\ RuntimeMu = r /\ prevPow[r] = CliPow
      /\ \A d \in Reqs : d # r => prevPow[d] = None
  BY <1>3, StandIs DEF RInv
<1>5. /\ prevPow' = [d \in Reqs |-> prevPow'[d]] /\ DOMAIN prevPow' = Reqs
      /\ \A d \in Reqs : prevPow'[d] = None
  BY <1>1, <1>4 DEF RInv, PowInv
<1>6. Stand(r)' = "locked"
  BY <1>1, <1>4, <1>5 DEF Stand
<1>7. PlanInv'
  BY <1>1, <1>2, <1>3, <1>4, <1>5, <1>6, TokenDone, OthersFit DEF Alone
<1>8. PowInv'
  BY <1>1, <1>4, <1>5 DEF RInv, PowInv
<1> QED
  BY <1>7, <1>8 DEF RInv

LEMMA CheckKept ==
  ASSUME RInv, NEW r \in Reqs, CheckSession(r)
  PROVE  RInv'
<1>1. /\ todo[r] # << >> /\ Head(todo[r]) = "check"
      /\ UNCHANGED <<inp, RuntimeMu, PowProviderParam, prevPow>>
      /\ IF r \in gone THEN Becomes(r, If(RuntimeMu = r, <<"unlock">>)) ELSE Done(r)
  BY DEF CheckSession, Is, Others
<1>2. CASE r \notin gone
  BY <1>1, <1>2, TokenAside
<1>3. CASE r \in gone
  <2> DEFINE s == If(RuntimeMu = r, <<"unlock">>)
  <2>1. \E c \in Stands : Does("check", Stand(r), c)
    <3>1. todo[r] \in Seq(Tokens) /\ Stand(r) \in Stands /\ Fits(todo[r], Stand(r), inp[r])
      BY DEF Stand, Stands, RInv, PlanInv
    <3> QED
      BY <1>1, <3>1, FitsFirst
  <2>2. Stand(r) \in {"free", "locked"}
    BY <2>1 DEF Does
  <2>3. Stand(r) = "free" => RuntimeMu # r
    BY StandIs DEF RInv
  <2>4. Stand(r) = "locked" => RuntimeMu = r
    BY StandIs DEF RInv
  <2>5. /\ << >> \in Seq(Tokens) /\ Fits(<< >>, "free", inp[r])
        /\ <<"unlock">> \in Seq(Tokens) /\ Fits(<<"unlock">>, "locked", inp[r])
    <3>1. << >> \in Seq(Tokens) /\ <<"unlock">> \in Seq(Tokens)
      BY DEF Tokens
    <3>2. Runs(<< >>, "free", "free") /\ "free" \in Stands
      BY RunsNone DEF Stands
    <3>3. Runs(<<"unlock">>, "locked", "free")
      BY RunsOne DEF Does, Tokens, Stands
    <3> QED
      BY <3>1, <3>2, <3>3 DEF Fits
  <2>6. s \in Seq(Tokens) /\ Fits(s, Stand(r), inp[r])
    BY <2>2, <2>3, <2>4, <2>5 DEF If
  <2> HIDE DEF s
  <2>7. Becomes(r, s)
    BY <1>1, <1>3 DEF s
  <2> QED
    BY <1>1, <2>6, <2>7, PlanReplaced
<1> QED
  BY <1>2, <1>3

\* The plan of a request begins when it has been let in.
LEMMA StartKept ==
  ASSUME RInv, NEW r \in Reqs, Authenticate(r) \/ PrepareWeb(r) \/ PrepareTool(r)
  PROVE  RInv'
<1>1. /\ todo[r] # << >> /\ Head(todo[r]) \in {"auth", "prepare"}
      /\ UNCHANGED <<inp, RuntimeMu, PowProviderParam, prevPow>>
      /\ Becomes(r, << >>) \/ Becomes(r, <<"prepare">>) \/ Becomes(r, Begin(inp[r]))
  BY DEF Authenticate, PrepareWeb, PrepareTool, Is, Others
<1>2. /\ todo[r] \in Seq(Tokens) /\ Stand(r) \in Stands /\ Fits(todo[r], Stand(r), inp[r])
      /\ inp[r] \in Input
  BY DEF Stand, Stands, RInv, PlanInv
<1>3. Stand(r) = "free"
  BY <1>1, <1>2, FitsStart
<1>4. /\ << >> \in Seq(Tokens) /\ <<"prepare">> \in Seq(Tokens)
      /\ Fits(<< >>, "free", inp[r]) /\ Fits(<<"prepare">>, "free", inp[r])
  <2>1. << >> \in Seq(Tokens) /\ <<"prepare">> \in Seq(Tokens)
    BY DEF Tokens
  <2>2. Runs(<< >>, "free", "free") /\ "free" \in Stands
    BY RunsNone DEF Stands
  <2> QED
    BY <2>1, <2>2 DEF Fits
<1>5. Begin(inp[r]) \in Seq(Tokens) /\ Fits(Begin(inp[r]), "free", inp[r])
  BY <1>2, PlanBegin
<1> QED
  BY <1>1, <1>3, <1>4, <1>5, PlanReplaced

LEMMA RunEndsKept ==
  ASSUME RInv, NEW r \in Reqs, RunEnds(r)
  PROVE  RInv'
<1>1. PICK outcome \in {"ok", "fails", "stopped"} : Becomes(r, End(inp[r], outcome))
  BY DEF RunEnds
<1>2. /\ todo[r] # << >> /\ Head(todo[r]) = "run"
      /\ UNCHANGED <<inp, RuntimeMu, PowProviderParam, prevPow>>
  BY DEF RunEnds, Is, Others
<1>3. /\ todo[r] \in Seq(Tokens) /\ Stand(r) \in Stands /\ Fits(todo[r], Stand(r), inp[r])
      /\ inp[r] \in Input
  BY DEF Stand, Stands, RInv, PlanInv
<1>4. Stand(r) = Tracing(inp[r])
  BY <1>2, <1>3, FitsTracing
<1>5. End(inp[r], outcome) \in Seq(Tokens)
      /\ Fits(End(inp[r], outcome), Stand(r), inp[r])
  BY <1>3, <1>4, PlanEnd
<1> QED
  BY <1>1, <1>2, <1>5, PlanReplaced

LEMMA RInitInv == RInit => RInv
<1> SUFFICES ASSUME RInit PROVE RInv
  OBVIOUS
<1>1. inp \in [Reqs -> Input]
  BY RequestsAssumption DEF RInit
<1>2. todo \in [Reqs -> Seq(Tokens)] /\ \A r \in Reqs : todo[r] = <<"auth">>
  <2>1. <<"auth">> \in Seq(Tokens)
    BY DEF Tokens
  <2> QED
    BY <2>1 DEF RInit
<1>3. /\ RuntimeMu = None /\ PowProviderParam = CliPow /\ prevPow = [r \in Reqs |-> None]
      /\ None \notin Reqs
  BY RequestsAssumption DEF RInit
<1>4. \A r \in Reqs : prevPow[r] = None /\ Stand(r) = "free"
  BY <1>3 DEF Stand
<1> QED
  BY <1>1, <1>2, <1>3, <1>4 DEF RInv, PlanInv, PowInv, Fits

LEMMA RStepInv == RInv /\ [RNext]_allVars => RInv'
<1> SUFFICES ASSUME RInv, [RNext]_allVars PROVE RInv'
  OBVIOUS
<1>1. ASSUME UNCHANGED <<inp, todo, RuntimeMu, PowProviderParam, prevPow>> PROVE RInv'
  <2>1. \A r \in Reqs : Stand(r)' = Stand(r)
    BY <1>1 DEF Stand
  <2>2. PlanInv'
    BY <1>1, <2>1 DEF RInv, PlanInv
  <2>3. PowInv'
    BY <1>1 DEF RInv, PowInv
  <2> QED
    BY <2>2, <2>3 DEF RInv
<1>2. ASSUME NEW r \in Reqs, Step(r) PROVE RInv'
  <2>1. ASSUME EnterScope(r) \/ LeaveScope(r) \/ EnsureLeo(r) \/ MakeMap(r) \/ Answer(r)
        PROVE  RInv'
    <3>1. /\ todo[r] # << >> /\ Done(r)
          /\ Head(todo[r]) \in {"check", "enter", "leave", "leo", "map", "answer"}
          /\ UNCHANGED <<inp, RuntimeMu, PowProviderParam, prevPow>>
      BY <2>1 DEF EnterScope, LeaveScope, EnsureLeo, MakeMap, Answer, Is, Others
    <3> QED
      BY <3>1, TokenAside
  <2> QED
    BY <1>2, <2>1, StartKept, UnlockKept, CheckKept, SetPowKept, RestorePowKept DEF Step
<1>3. ASSUME NEW r \in Reqs, Leaves(r) \/ DurationOver(r) PROVE RInv'
  BY <1>1, <1>3 DEF Leaves, DurationOver, Others
<1>4. ASSUME \/ \E l \in DOMAIN Owner : StartLookup(l)
             \/ \E p \in Procs : ScopeStep(p)
             \/ UNCHANGED allVars
      PROVE  RInv'
  BY <1>1, <1>4 DEF StartLookup, ScopeStep, allVars, reqVars
<1> QED
  BY <1>2, <1>3, <1>4, LockKept, RunEndsKept DEF RNext

\* The proof-of-work provider of a request is in effect for it alone, and the command
\* line's is back with the lock (withTraceSetupContext, withServiceRuntime), for any
\* number of requests of any kinds.
THEOREM PowRestored == RSpec => []PowKept
<1>1. RInv => PowKept
  BY RequestsAssumption DEF RInv, PowInv, PowKept
<1> QED
  BY <1>1, RInitInv, RStepInv, PTL DEF RSpec
=============================================================================
