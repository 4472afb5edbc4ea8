------------------------- MODULE MTRSchedulerProofs -------------------------
(***************************************************************************)
(* Proofs about MTRScheduler, for every number of hops, slots, probes per  *)
(* hop and errors.  The invariant is stated on the runtime record s, so    *)
(* that each helper of the loop (receive, count, detect the destination,   *)
(* reset, schedule) is shown once to preserve it; an action of the loop is *)
(* a composition of helpers.                                               *)
(***************************************************************************)
EXTENDS MTRScheduler, FiniteSetTheorems, TLAPS

\* The slots: what is in flight is exactly the set of goroutines.
SlotInv(s) ==
  /\ s \in Runtime
  /\ IsFiniteSet(s.probes)
  /\ s.inFlight = Cardinality(s.probes)
  /\ s.inFlight <= Parallelism
  /\ \A p \in s.probes : p.gen <= s.generation

\* The per-hop counters: goroutines of the current generation only.
HopInv(s) ==
  \A t \in TTLs : s.states[t].inFlightCount = Cardinality(CurrentProbes(s, t))

\* Budget, destination and statistics.
BudgetInv(s) ==
  MaxPerHop > 0 =>
    \A t \in TTLs : s.states[t].completed + s.states[t].inFlightCount <= MaxPerHop

FinalInv(s) ==
  \A t \in TTLs : s.states[t].disabled <=> s.knownFinalTTL > 0 /\ t > s.knownFinalTTL

StatInv(s) ==
  \A t \in TTLs :
    /\ s.agg[t].dst => t = s.knownFinalTTL
    /\ s.agg[t].sent <= s.states[t].completed
    /\ t <= EffectiveMax(s) => s.agg[t].sent = s.states[t].completed

RtInv(s) == SlotInv(s) /\ HopInv(s) /\ BudgetInv(s) /\ FinalInv(s) /\ StatInv(s)

\* What the later properties need to know of a step from s to n within one
\* generation: counters only grow, hops are only switched off.
Forward(s, n) ==
  /\ n.generation = s.generation
  /\ EffectiveMax(n) <= EffectiveMax(s)
  /\ \A t \in TTLs : /\ s.states[t].disabled => n.states[t].disabled
                     /\ n.states[t].completed >= s.states[t].completed

\* The inductive invariant.  Draining does not maintain the hop counters.
IInv ==
  /\ SlotInv(rt)
  /\ phase \in {"running", "finished"} => HopInv(rt)
  /\ BudgetInv(rt)
  /\ FinalInv(rt)
  /\ StatInv(rt)
  /\ resultCh \subseteq rt.probes
  /\ phase \in {"running", "draining", "finished", "canceled"}
  /\ canceled \in BOOLEAN
  /\ paused \in BOOLEAN
  /\ resetRequested \in BOOLEAN
  /\ resets \in 0 .. MaxResets
  /\ phase = "finished" => IsDone(rt)

-----------------------------------------------------------------------------
(* Finite sets.                                                            *)

\* The TTLs are finitely many, and every set of them is finite.
LEMMA TTLsFinite ==
  ASSUME NEW S \in SUBSET TTLs
  PROVE  IsFiniteSet(S) /\ Cardinality(S) \in Nat
<1>1. IsFiniteSet(TTLs)
  BY FS_Interval, SchedulerAssumption DEF TTLs
<1> QED BY <1>1, FS_Subset, FS_CardinalityType

\* A nonempty set of natural numbers has a least element.
LEMMA LeastNat ==
  ASSUME NEW D \in SUBSET Nat, D # {}
  PROVE  \E x \in D : \A y \in D : x <= y
<1> DEFINE R == OpToRel(<, Nat)
<1>1. \E x \in D : \A y \in D : ~ (<<y, x>> \in R)
  <2> HIDE DEF R
  <2>1. IsWellFoundedOn(R, Nat)
    BY NatLessThanWellFounded DEF R
  <2> QED BY <2>1, WFMin
<1>2. PICK x \in D : \A y \in D : ~ (<<y, x>> \in R)
  BY <1>1
<1>3. \A y \in D : x <= y
  <2> TAKE y \in D
  <2>1. x \in Nat /\ y \in Nat
    OBVIOUS
  <2>2. ~ (<<y, x>> \in R)
    BY <1>2
  <2>3. ~ (y < x)
    BY <2>1, <2>2 DEF OpToRel
  <2> QED BY <2>1, <2>3
<1> QED BY <1>3

\* A nonempty set of TTLs has a greatest element.
LEMMA GreatestTTL ==
  ASSUME NEW S \in SUBSET TTLs, S # {}
  PROVE  \E m \in S : \A t \in S : t <= m
<1> DEFINE D == {MaxHops - t : t \in S}
<1>1. D \in SUBSET Nat /\ D # {}
  <2>1. \A t \in S : MaxHops - t \in Nat
    BY SchedulerAssumption DEF TTLs
  <2> QED BY <2>1
<1>2. PICK d \in D : \A e \in D : d <= e
  <2> HIDE DEF D
  <2> QED BY <1>1, LeastNat
<1>3. PICK m \in S : d = MaxHops - m
  BY <1>2
<1>4. \A t \in S : t <= m
  <2> TAKE t \in S
  <2>1. d <= MaxHops - t
    BY <1>2
  <2> QED BY <2>1, <1>3, SchedulerAssumption DEF TTLs
<1> QED BY <1>4

\* scheduleReady never launches more probes than there are free slots.
LEMMA LaunchSetBound ==
  ASSUME NEW s, SlotInv(s)
  PROVE  /\ LaunchSet(s) \subseteq TTLs
         /\ \A t \in LaunchSet(s) : CanLaunchProbe(s, t) /\ t <= EffectiveMax(s)
         /\ s.inFlight + Cardinality(LaunchSet(s)) <= Parallelism
<1> DEFINE L == {t \in BeginHop .. EffectiveMax(s) : CanLaunchProbe(s, t)}
           S == LaunchSet(s)
<1>1. EffectiveMax(s) \in Int /\ EffectiveMax(s) <= MaxHops
  BY SchedulerAssumption DEF SlotInv, Runtime, EffectiveMax, TTLs
<1>2. L \in SUBSET TTLs
  BY <1>1, SchedulerAssumption DEF TTLs
<1>3. S \in SUBSET L
  BY DEF LaunchSet
<1>4. s.inFlight \in Nat /\ s.inFlight <= Parallelism
  BY DEF SlotInv, Runtime
<1>5. s.inFlight + Cardinality(S) <= Parallelism
  <2>1. CASE S = {}
    BY <2>1, <1>4, FS_EmptySet, SchedulerAssumption
  <2>2. CASE S # {}
    <3>1. PICK m \in S : \A t \in S : t <= m
      BY <2>2, <1>2, <1>3, GreatestTTL
    <3> DEFINE B == {u \in L : u < m}
    <3>2. Cardinality(B) < Parallelism - s.inFlight
      BY <3>1 DEF LaunchSet
    <3>3. S \ {m} \subseteq B
      BY <3>1, <1>2, <1>3, SchedulerAssumption DEF TTLs
    <3>4. IsFiniteSet(B) /\ Cardinality(B) \in Nat
      BY <1>2, TTLsFinite
    <3>5. Cardinality(S \ {m}) <= Cardinality(B)
      BY <3>3, <3>4, FS_Subset
    <3>6. IsFiniteSet(S) /\ Cardinality(S) \in Nat
      BY <1>2, <1>3, TTLsFinite
    <3>7. Cardinality(S \ {m}) = Cardinality(S) - 1
      BY <3>1, <3>6, FS_RemoveElement
    <3> HIDE DEF B, S
    <3> QED BY <3>2, <3>4, <3>5, <3>6, <3>7, <1>4, SchedulerAssumption
  <2> QED BY <2>1, <2>2
<1> QED BY <1>1, <1>2, <1>3, <1>5, SchedulerAssumption DEF TTLs

\* The goroutine started at hop t is a new one.
LEMMA NewProbeFresh ==
  ASSUME NEW s, SlotInv(s), NEW t \in TTLs
  PROVE  /\ NewProbe(s, t) \in Probe
         /\ NewProbe(s, t) \notin s.probes
         /\ NewProbe(s, t).ttl = t
         /\ NewProbe(s, t).gen = s.generation
<1> DEFINE n == Cardinality(s.probes)
           r(i) == [ttl |-> t, gen |-> s.generation, id |-> i]
           f == [i \in 1 .. (n + 1) |-> r(i)]
<1>1. n \in Nat /\ IsFiniteSet(s.probes)
  BY FS_CardinalityType DEF SlotInv
<1>2. \E i \in 1 .. (n + 1) : r(i) \notin s.probes
  <2> SUFFICES ASSUME \A i \in 1 .. (n + 1) : r(i) \in s.probes
               PROVE  FALSE
    OBVIOUS
  <2>1. f \in [1 .. (n + 1) -> s.probes]
    OBVIOUS
  <2>2. IsFiniteSet(1 .. (n + 1)) /\ Cardinality(1 .. (n + 1)) = n + 1
    BY <1>1, FS_Interval
  <2>3. \E x, y \in 1 .. (n + 1) : x # y /\ f[x] = f[y]
    <3>1. n < n + 1
      BY <1>1
    <3> HIDE DEF f
    <3> QED BY <1>1, <2>1, <2>2, <3>1, FS_PigeonHole
  <2>4. PICK x \in 1 .. (n + 1), y \in 1 .. (n + 1) : x # y /\ f[x] = f[y]
    BY <2>3
  <2>5. f[x].id = x /\ f[y].id = y
    OBVIOUS
  <2> QED BY <2>4, <2>5
<1> DEFINE c == CHOOSE i \in 1 .. (n + 1) : r(i) \notin s.probes
<1>3. c \in 1 .. (n + 1) /\ r(c) \notin s.probes
  BY <1>2
<1>4. NewProbe(s, t) = r(c)
  BY DEF NewProbe
<1>5. s.generation \in Nat
  BY DEF SlotInv, Runtime
<1> HIDE DEF c, n
<1>6. c \in Nat \ {0}
  BY <1>1, <1>3
<1>7. r(c) \in Probe
  BY <1>5, <1>6 DEF Probe
<1> QED BY <1>3, <1>4, <1>7

-----------------------------------------------------------------------------
(* The helpers of the loop preserve the invariant.                         *)

\* The fields of a runtime.
LEMMA RuntimeFields ==
  ASSUME NEW s \in Runtime
  PROVE  /\ s.states \in [TTLs -> HopState]
         /\ s.generation \in Nat
         /\ s.knownFinalTTL \in TTLs \cup {-1}
         /\ s.inFlight \in Nat
         /\ s.probes \in SUBSET Probe
         /\ s.agg \in [TTLs -> [sent : Nat, dst : BOOLEAN]]
         /\ s.metaBusy \in BOOLEAN
BY DEF Runtime

\* launchProbe's effect on the state of its hop.
LEMMA LaunchedHop ==
  ASSUME NEW h \in HopState, NEW k,
         k = [h EXCEPT !.inFlightCount = @ + 1, !.due = FALSE]
  PROVE  /\ k \in HopState
         /\ k.disabled = h.disabled
         /\ k.completed = h.completed
         /\ k.inFlightCount = h.inFlightCount + 1
<1>1. k.disabled = h.disabled /\ k.completed = h.completed
  BY DEF HopState
<1>2. k.inFlightCount = h.inFlightCount + 1
  BY DEF HopState
<1>3. k \in HopState
  <2>1. k = [completed |-> h.completed, inFlightCount |-> h.inFlightCount + 1,
             due |-> FALSE, disabled |-> h.disabled,
             consecutiveErrs |-> h.consecutiveErrs]
    BY DEF HopState
  <2>2. /\ h.completed \in Nat
        /\ h.inFlightCount + 1 \in Nat
        /\ h.disabled \in BOOLEAN
        /\ h.consecutiveErrs \in Nat
    BY DEF HopState
  <2> QED BY <2>1, <2>2 DEF HopState
<1> QED BY <1>1, <1>2, <1>3

\* markProbeCompleted's effect on the state of its hop.
LEMMA CountedHop ==
  ASSUME NEW h \in HopState
  PROVE  LET k == [h EXCEPT !.completed = @ + 1, !.consecutiveErrs = 0]
         IN  /\ k \in HopState
             /\ k.completed = h.completed + 1
             /\ k.inFlightCount = h.inFlightCount
             /\ k.disabled = h.disabled
<1> DEFINE k == [h EXCEPT !.completed = @ + 1, !.consecutiveErrs = 0]
<1>1. /\ k.completed = h.completed + 1
      /\ k.inFlightCount = h.inFlightCount
      /\ k.disabled = h.disabled
  BY DEF HopState
<1>2. [h EXCEPT !.completed = @ + 1] \in HopState
  BY DEF HopState
<1>3. k = [[h EXCEPT !.completed = @ + 1] EXCEPT !.consecutiveErrs = 0]
  BY DEF HopState
<1>4. k \in HopState
  BY <1>2, <1>3 DEF HopState
<1> QED BY <1>1, <1>4

\* A fresh runtime satisfies the invariant.
LEMMA InitRuntimeInv == RtInv(InitRuntime)
<1> DEFINE s == InitRuntime
<1>1. s \in Runtime
  BY DEF InitRuntime, InitHopState, InitRow, Runtime, HopState
<1>2. SlotInv(s)
  BY <1>1, FS_EmptySet, SchedulerAssumption DEF SlotInv, InitRuntime
<1>3. HopInv(s)
  <2> SUFFICES ASSUME NEW t \in TTLs
               PROVE  s.states[t].inFlightCount = Cardinality(CurrentProbes(s, t))
    BY DEF HopInv
  <2>1. CurrentProbes(s, t) = {}
    BY DEF CurrentProbes, InitRuntime
  <2> QED BY <2>1, FS_EmptySet DEF InitRuntime, InitHopState
<1>4. BudgetInv(s)
  BY SchedulerAssumption DEF BudgetInv, InitRuntime, InitHopState
<1>5. FinalInv(s)
  BY DEF FinalInv, InitRuntime, InitHopState
<1>6. StatInv(s)
  BY DEF StatInv, InitRuntime, InitHopState, InitRow
<1> QED BY <1>2, <1>3, <1>4, <1>5, <1>6 DEF RtInv

\* scheduleReady: launching on free slots keeps every count exact.
LEMMA LaunchInv ==
  ASSUME NEW s, RtInv(s)
  PROVE  LET n == LaunchProbes(s, LaunchSet(s))
         IN  /\ RtInv(n)
             /\ s.probes \subseteq n.probes
             /\ Forward(s, n)
             /\ EffectiveMax(n) = EffectiveMax(s)
             /\ \A t \in TTLs : n.states[t].completed = s.states[t].completed
<1> DEFINE S == LaunchSet(s)
           n == LaunchProbes(s, S)
           N == {NewProbe(s, t) : t \in S}
           f == [t \in S |-> NewProbe(s, t)]
<1>0. SlotInv(s) /\ s \in Runtime
  BY DEF RtInv, SlotInv
<1>1. /\ S \subseteq TTLs
      /\ \A t \in S : CanLaunchProbe(s, t) /\ t <= EffectiveMax(s)
      /\ s.inFlight + Cardinality(S) <= Parallelism
  BY <1>0, LaunchSetBound
<1>2. IsFiniteSet(S) /\ Cardinality(S) \in Nat
  BY <1>1, TTLsFinite
<1>3. \A t \in S : /\ NewProbe(s, t) \in Probe
                   /\ NewProbe(s, t) \notin s.probes
                   /\ NewProbe(s, t).ttl = t
                   /\ NewProbe(s, t).gen = s.generation
  BY <1>0, <1>1, NewProbeFresh
<1> HIDE DEF S
<1>4. IsFiniteSet(N) /\ Cardinality(N) = Cardinality(S)
  <2>1. f \in Bijection(S, N)
    <3>1. f \in [S -> N]
      OBVIOUS
    <3>2. \A a, b \in S : f[a] = f[b] => a = b
      BY <1>3
    <3>3. \A p \in N : \E t \in S : f[t] = p
      OBVIOUS
    <3> HIDE DEF f, N
    <3>4. f \in Injection(S, N)
      BY <3>1, <3>2 DEF Injection, IsInjective
    <3>5. f \in Surjection(S, N)
      BY <3>1, <3>3 DEF Surjection
    <3> QED BY <3>4, <3>5 DEF Bijection
  <2>2. ExistsBijection(S, N)
    BY <2>1 DEF ExistsBijection
  <2> HIDE DEF N
  <2> QED BY <1>2, <2>2, FS_Bijection
<1>4a. n.states = [t \in TTLs |->
          IF t \in S
          THEN [s.states[t] EXCEPT !.inFlightCount = @ + 1, !.due = FALSE]
          ELSE s.states[t]]
  BY <1>0 DEF LaunchProbes, Runtime
<1>5. /\ n.inFlight = s.inFlight + Cardinality(S)
      /\ n.probes = s.probes \cup N
      /\ n.generation = s.generation
      /\ n.knownFinalTTL = s.knownFinalTTL
      /\ n.agg = s.agg
      /\ n.metaBusy = s.metaBusy
  BY <1>0 DEF LaunchProbes, Runtime
<1>5t. /\ s.states \in [TTLs -> HopState]
       /\ s.generation \in Nat
       /\ s.inFlight \in Nat
       /\ s.probes \in SUBSET Probe
  BY <1>0, RuntimeFields
<1>6. N \subseteq Probe /\ N \cap s.probes = {}
  BY <1>3
<1>e. n = [s EXCEPT !.states = n.states, !.inFlight = n.inFlight, !.probes = n.probes]
  BY <1>0 DEF LaunchProbes, Runtime
<1>t. \A p \in N : p.ttl \in S /\ p.gen = s.generation /\ p = NewProbe(s, p.ttl)
  BY <1>3
<1> HIDE DEF n, N
<1>h. \A t \in TTLs :
        /\ n.states[t] \in HopState
        /\ n.states[t].disabled = s.states[t].disabled
        /\ n.states[t].completed = s.states[t].completed
        /\ t \in S => n.states[t].inFlightCount = s.states[t].inFlightCount + 1
        /\ t \notin S => n.states[t].inFlightCount = s.states[t].inFlightCount
  <2> TAKE t \in TTLs
  <2>1. s.states[t] \in HopState
    BY <1>5t
  <2>2. CASE t \in S
    <3>1. n.states[t] = [s.states[t] EXCEPT !.inFlightCount = @ + 1, !.due = FALSE]
      BY <1>4a, <2>2
    <3>2. /\ n.states[t] \in HopState
          /\ n.states[t].disabled = s.states[t].disabled
          /\ n.states[t].completed = s.states[t].completed
          /\ n.states[t].inFlightCount = s.states[t].inFlightCount + 1
      BY <2>1, <3>1, LaunchedHop
    <3> QED BY <2>2, <3>2
  <2>3. CASE t \notin S
    <3>1. n.states[t] = s.states[t]
      BY <1>4a, <2>3
    <3> QED BY <2>1, <2>3, <3>1
  <2> QED BY <2>2, <2>3
<1>7. n \in Runtime
  <2>1. n.states \in [TTLs -> HopState]
    BY <1>4a, <1>h
  <2>2. n.inFlight \in Nat
    BY <1>2, <1>5, <1>5t
  <2>3. n.probes \in SUBSET Probe
    BY <1>5, <1>5t, <1>6
  <2> QED BY <1>0, <1>e, <2>1, <2>2, <2>3 DEF Runtime
<1>8. SlotInv(n)
  <2>1. IsFiniteSet(n.probes) /\ Cardinality(n.probes) = Cardinality(s.probes) + Cardinality(S)
    <3>1. IsFiniteSet(s.probes) /\ Cardinality(s.probes) \in Nat
      BY <1>0, FS_CardinalityType DEF SlotInv
    <3>2. /\ IsFiniteSet(s.probes \cup N)
          /\ Cardinality(s.probes \cup N) =
               Cardinality(s.probes) + Cardinality(N) - Cardinality(s.probes \cap N)
      <4> QED BY <3>1, <1>4, FS_Union
    <3>3. Cardinality(s.probes \cap N) = 0
      <4>1. s.probes \cap N = {}
        BY <1>6
      <4> QED BY <4>1, FS_EmptySet
    <3>4. Cardinality(s.probes \cup N) = Cardinality(s.probes) + Cardinality(S)
      BY <1>2, <1>4, <3>1, <3>2, <3>3
    <3> QED BY <1>5, <3>2, <3>4
  <2>2. \A p \in n.probes : p.gen <= n.generation
    <3>1. \A p \in s.probes : p.gen <= s.generation
      BY <1>0 DEF SlotInv
    <3>2. \A p \in N : p.gen = s.generation
      BY <1>t
    <3>3. \A p \in s.probes \cup N : p.gen <= s.generation
      BY <1>5t, <3>1, <3>2
    <3> QED BY <1>5, <3>3
  <2> QED BY <1>0, <1>1, <1>5, <1>7, <2>1, <2>2 DEF SlotInv
<1>9. HopInv(n)
  <2> SUFFICES ASSUME NEW t \in TTLs
               PROVE  n.states[t].inFlightCount = Cardinality(CurrentProbes(n, t))
    BY DEF HopInv
  <2>1. s.states[t].inFlightCount = Cardinality(CurrentProbes(s, t))
    BY DEF RtInv, HopInv
  <2>2. CASE t \in S
    <3>0. NewProbe(s, t) \in N
      BY <2>2 DEF N
    <3>1. CurrentProbes(n, t) = CurrentProbes(s, t) \cup {NewProbe(s, t)}
      BY <1>3, <1>5, <1>t, <2>2, <3>0 DEF CurrentProbes
    <3>2. NewProbe(s, t) \notin CurrentProbes(s, t)
      BY <1>3, <2>2 DEF CurrentProbes
    <3>3. IsFiniteSet(CurrentProbes(s, t))
      BY <1>0, FS_Subset DEF CurrentProbes, SlotInv
    <3>4. Cardinality(CurrentProbes(n, t)) = Cardinality(CurrentProbes(s, t)) + 1
      BY <3>1, <3>2, <3>3, FS_AddElement
    <3>5. n.states[t].inFlightCount = s.states[t].inFlightCount + 1
      BY <1>h, <2>2
    <3> QED BY <2>1, <3>4, <3>5
  <2>3. CASE t \notin S
    <3>1. CurrentProbes(n, t) = CurrentProbes(s, t)
      BY <1>5, <1>t, <2>3 DEF CurrentProbes
    <3> QED BY <1>h, <2>1, <2>3, <3>1
  <2> QED BY <2>2, <2>3
<1>10. BudgetInv(n)
  <2> SUFFICES ASSUME MaxPerHop > 0, NEW t \in TTLs
               PROVE  n.states[t].completed + n.states[t].inFlightCount <= MaxPerHop
    BY DEF BudgetInv
  <2>1. s.states[t] \in HopState
    BY <1>0 DEF Runtime
  <2>2. CASE t \in S
    <3>1. s.states[t].completed + s.states[t].inFlightCount < MaxPerHop
      BY <1>1, <2>2 DEF CanLaunchProbe
    <3>2. /\ n.states[t].inFlightCount = s.states[t].inFlightCount + 1
          /\ n.states[t].completed = s.states[t].completed
      BY <1>h, <2>2
    <3> QED BY <2>1, <3>1, <3>2, SchedulerAssumption DEF HopState
  <2>3. CASE t \notin S
    BY <1>h, <2>3 DEF RtInv, BudgetInv
  <2> QED BY <2>2, <2>3
<1>12. EffectiveMax(n) = EffectiveMax(s)
  BY <1>5 DEF EffectiveMax
<1>13. FinalInv(n) /\ StatInv(n)
  <2> QED BY <1>5, <1>h, <1>12 DEF RtInv, FinalInv, StatInv
<1>14. Forward(s, n)
  <2>1. s.knownFinalTTL \in TTLs \cup {-1}
    BY <1>0, RuntimeFields
  <2>2. EffectiveMax(s) \in Int
    BY <2>1, SchedulerAssumption DEF EffectiveMax, TTLs
  <2>3. \A t \in TTLs : s.states[t].completed \in Nat
    BY <1>5t DEF HopState
  <2> QED BY <1>5, <1>h, <1>12, <2>2, <2>3 DEF Forward
<1> QED BY <1>5, <1>8, <1>9, <1>10, <1>12, <1>13, <1>14, <1>h DEF RtInv, S, n

WithHop(s, t, h) == [s EXCEPT !.states[t] = h]

WithErrs(s, t, e) == [s EXCEPT !.states[t].consecutiveErrs = e]

Received(s, p) == [s EXCEPT !.inFlight = @ - 1, !.probes = @ \ {p}]

Freed(s, p) == [s EXCEPT !.states[p.ttl].inFlightCount = @ - 1]

\* Replacing the state of one hop leaves the rest of the runtime alone.
LEMMA HopUpdate ==
  ASSUME NEW s \in Runtime, NEW t \in TTLs, NEW h \in HopState
  PROVE  /\ WithHop(s, t, h) \in Runtime
         /\ WithHop(s, t, h).states[t] = h
         /\ \A u \in TTLs : u # t => WithHop(s, t, h).states[u] = s.states[u]
         /\ WithHop(s, t, h).generation = s.generation
         /\ WithHop(s, t, h).knownFinalTTL = s.knownFinalTTL
         /\ WithHop(s, t, h).inFlight = s.inFlight
         /\ WithHop(s, t, h).probes = s.probes
         /\ WithHop(s, t, h).agg = s.agg
<1> DEFINE n == WithHop(s, t, h)
<1> USE DEF WithHop
<1>1. s.states \in [TTLs -> HopState]
  BY RuntimeFields
<1>2. n.states = [s.states EXCEPT ![t] = h]
  BY DEF Runtime
<1>3. n.states \in [TTLs -> HopState]
  BY <1>1, <1>2
<1>4. n = [s EXCEPT !.states = n.states]
  BY DEF Runtime
<1>5. n \in Runtime
  BY <1>3, <1>4 DEF Runtime
<1> QED BY <1>1, <1>2, <1>5 DEF Runtime

\* The loop takes a result off the channel: one slot is free again.
LEMMA ReceiveInv ==
  ASSUME NEW s, SlotInv(s), NEW p \in s.probes
  PROVE  /\ SlotInv(Received(s, p))
         /\ Received(s, p).probes = s.probes \ {p}
         /\ Received(s, p).states = s.states
         /\ Received(s, p).generation = s.generation
         /\ Received(s, p).knownFinalTTL = s.knownFinalTTL
         /\ Received(s, p).agg = s.agg
<1> DEFINE r == Received(s, p)
<1>1. s \in Runtime
  BY DEF SlotInv
<1>2. /\ r.probes = s.probes \ {p}
      /\ r.inFlight = s.inFlight - 1
      /\ r.states = s.states
      /\ r.generation = s.generation
      /\ r.knownFinalTTL = s.knownFinalTTL
      /\ r.agg = s.agg
  BY <1>1 DEF Runtime, Received
<1>3. /\ IsFiniteSet(s.probes \ {p})
      /\ Cardinality(s.probes \ {p}) = Cardinality(s.probes) - 1
      /\ Cardinality(s.probes \ {p}) \in Nat
  BY FS_RemoveElement, FS_CardinalityType DEF SlotInv
<1>4. r.inFlight \in Nat /\ r.inFlight = Cardinality(r.probes)
  BY <1>2, <1>3 DEF SlotInv
<1>5. r = [s EXCEPT !.inFlight = r.inFlight, !.probes = r.probes]
  BY <1>1 DEF Runtime, Received
<1>6. r \in Runtime
  BY <1>1, <1>2, <1>4, <1>5 DEF Runtime
<1>7. r.inFlight <= Parallelism
  <2>1. s.inFlight \in Nat /\ s.inFlight <= Parallelism
    BY <1>1, RuntimeFields DEF SlotInv
  <2> QED BY <1>2, <2>1, SchedulerAssumption
<1>8. \A q \in r.probes : q.gen <= r.generation
  BY <1>2 DEF SlotInv
<1> QED BY <1>2, <1>3, <1>4, <1>6, <1>7, <1>8 DEF SlotInv

\* Giving the slot of its hop back, for a result of the current generation.
LEMMA FreeInv ==
  ASSUME NEW s, RtInv(s), NEW p \in s.probes, p.gen = s.generation,
         NEW f, f = Freed(Received(s, p), p)
  PROVE  /\ RtInv(f)
         /\ f.probes = s.probes \ {p}
         /\ f.generation = s.generation
         /\ f.knownFinalTTL = s.knownFinalTTL
         /\ \A t \in TTLs : /\ f.states[t].disabled = s.states[t].disabled
                            /\ f.states[t].completed = s.states[t].completed
         /\ MaxPerHop > 0 =>
              f.states[p.ttl].completed + f.states[p.ttl].inFlightCount < MaxPerHop
<1> DEFINE r == Received(s, p)
           t == p.ttl
           h == [s.states[t] EXCEPT !.inFlightCount = @ - 1]
<1>1. SlotInv(s)
  BY DEF RtInv
<1>2. /\ SlotInv(r)
      /\ r.probes = s.probes \ {p}
      /\ r.states = s.states
      /\ r.generation = s.generation
      /\ r.knownFinalTTL = s.knownFinalTTL
      /\ r.agg = s.agg
  BY <1>1, ReceiveInv
<1>3. t \in TTLs
  BY <1>1, RuntimeFields DEF SlotInv, Probe
<1>4. s.states[t] \in HopState /\ r \in Runtime
  BY <1>1, <1>2, <1>3, RuntimeFields DEF SlotInv
<1>5. /\ IsFiniteSet(CurrentProbes(s, t))
      /\ p \in CurrentProbes(s, t)
      /\ Cardinality(CurrentProbes(s, t) \ {p}) = Cardinality(CurrentProbes(s, t)) - 1
      /\ Cardinality(CurrentProbes(s, t) \ {p}) \in Nat
  <2>1. IsFiniteSet(CurrentProbes(s, t))
    BY <1>1, FS_Subset DEF SlotInv, CurrentProbes
  <2>2. p \in CurrentProbes(s, t)
    BY DEF CurrentProbes
  <2> QED BY <2>1, <2>2, FS_RemoveElement, FS_CardinalityType
<1>6. s.states[t].inFlightCount = Cardinality(CurrentProbes(s, t))
  BY <1>3 DEF RtInv, HopInv
<1>7. h.inFlightCount = s.states[t].inFlightCount - 1 /\ h.inFlightCount \in Nat
  BY <1>4, <1>5, <1>6 DEF HopState
<1>8. /\ h.disabled = s.states[t].disabled
      /\ h.completed = s.states[t].completed
  BY <1>4 DEF HopState
<1>9. h \in HopState
  BY <1>4, <1>7 DEF HopState
<1>10. f = WithHop(r, t, h)
  BY <1>2, <1>3, <1>4 DEF Runtime, WithHop, Freed
<1> HIDE DEF h, r
<1>11. /\ f \in Runtime
       /\ f.states[t] = h
       /\ \A u \in TTLs : u # t => f.states[u] = s.states[u]
       /\ f.generation = s.generation
       /\ f.knownFinalTTL = s.knownFinalTTL
       /\ f.inFlight = r.inFlight
       /\ f.probes = s.probes \ {p}
       /\ f.agg = s.agg
  BY <1>2, <1>3, <1>4, <1>9, <1>10, HopUpdate
<1>12. \A u \in TTLs : /\ f.states[u].disabled = s.states[u].disabled
                       /\ f.states[u].completed = s.states[u].completed
  BY <1>8, <1>11
<1>13. SlotInv(f)
  BY <1>2, <1>11 DEF SlotInv
<1>14. HopInv(f)
  <2> SUFFICES ASSUME NEW u \in TTLs
               PROVE  f.states[u].inFlightCount = Cardinality(CurrentProbes(f, u))
    BY DEF HopInv
  <2>1. CASE u = t
    <3>1. CurrentProbes(f, u) = CurrentProbes(s, t) \ {p}
      BY <1>11, <2>1 DEF CurrentProbes
    <3> QED BY <1>5, <1>6, <1>7, <1>11, <2>1, <3>1
  <2>2. CASE u # t
    <3>1. CurrentProbes(f, u) = CurrentProbes(s, u)
      BY <1>11, <2>2 DEF CurrentProbes
    <3> QED BY <1>11, <2>2, <3>1 DEF RtInv, HopInv
  <2> QED BY <2>1, <2>2
<1>15. MaxPerHop > 0 => f.states[t].completed + f.states[t].inFlightCount < MaxPerHop
  <2> SUFFICES ASSUME MaxPerHop > 0
               PROVE  f.states[t].completed + f.states[t].inFlightCount < MaxPerHop
    OBVIOUS
  <2>1. s.states[t].completed + s.states[t].inFlightCount <= MaxPerHop
    BY <1>3 DEF RtInv, BudgetInv
  <2>2. s.states[t].completed \in Nat /\ s.states[t].inFlightCount \in Nat
    BY <1>4 DEF HopState
  <2> QED BY <1>7, <1>8, <1>11, <2>1, <2>2, SchedulerAssumption
<1>16. BudgetInv(f)
  <2> SUFFICES ASSUME MaxPerHop > 0, NEW u \in TTLs
               PROVE  f.states[u].completed + f.states[u].inFlightCount <= MaxPerHop
    BY DEF BudgetInv
  <2>1. CASE u = t
    <3>1. f.states[t] \in HopState
      BY <1>3, <1>11, RuntimeFields
    <3>2. f.states[t].completed \in Nat /\ f.states[t].inFlightCount \in Nat
      BY <3>1 DEF HopState
    <3> QED BY <1>15, <2>1, <3>2, SchedulerAssumption
  <2>2. CASE u # t
    BY <1>11, <2>2 DEF RtInv, BudgetInv
  <2> QED BY <2>1, <2>2
<1>17. EffectiveMax(f) = EffectiveMax(s)
  BY <1>11 DEF EffectiveMax
<1>18. FinalInv(f) /\ StatInv(f)
  BY <1>11, <1>12, <1>17 DEF RtInv, FinalInv, StatInv
<1> QED BY <1>11, <1>12, <1>13, <1>14, <1>15, <1>16, <1>18 DEF RtInv

\* agg.Update and markProbeCompleted: one more probe of a hop that is within
\* its budget and not beyond the final TTL.
LEMMA CountInv ==
  ASSUME NEW s, RtInv(s), NEW t \in TTLs, NEW isDst \in BOOLEAN,
         ~ s.states[t].disabled,
         MaxPerHop > 0 => s.states[t].completed + s.states[t].inFlightCount < MaxPerHop,
         isDst => t = s.knownFinalTTL
  PROVE  /\ RtInv(Count(s, t, isDst))
         /\ Forward(s, Count(s, t, isDst))
         /\ Count(s, t, isDst).probes = s.probes
         /\ t <= EffectiveMax(Count(s, t, isDst))
         /\ \A u \in TTLs : u # t => Count(s, t, isDst).states[u] = s.states[u]
<1> DEFINE n == Count(s, t, isDst)
           h == [s.states[t] EXCEPT !.completed = @ + 1, !.consecutiveErrs = 0]
           a == [sent |-> s.agg[t].sent + 1, dst |-> s.agg[t].dst \/ isDst]
<1>1. SlotInv(s) /\ s \in Runtime
  BY DEF RtInv, SlotInv
<1>2. /\ s.states \in [TTLs -> HopState]
      /\ s.agg \in [TTLs -> [sent : Nat, dst : BOOLEAN]]
      /\ s.knownFinalTTL \in TTLs \cup {-1}
      /\ s.states[t] \in HopState
      /\ s.agg[t] \in [sent : Nat, dst : BOOLEAN]
  BY <1>1, RuntimeFields
<1>3. /\ h \in HopState
      /\ h.completed = s.states[t].completed + 1
      /\ h.inFlightCount = s.states[t].inFlightCount
      /\ h.disabled = s.states[t].disabled
  BY <1>2, CountedHop
<1>5. /\ n.states = [s.states EXCEPT ![t] = h]
      /\ n.agg = [s.agg EXCEPT ![t] = a]
      /\ n.generation = s.generation
      /\ n.knownFinalTTL = s.knownFinalTTL
      /\ n.inFlight = s.inFlight
      /\ n.probes = s.probes
  BY <1>1, <1>2 DEF Count, Runtime
<1>6. n = [s EXCEPT !.states = n.states, !.agg = n.agg]
  BY <1>1, <1>2 DEF Count, Runtime
<1>7. /\ a \in [sent : Nat, dst : BOOLEAN]
      /\ a.sent = s.agg[t].sent + 1
      /\ a.dst = (s.agg[t].dst \/ isDst)
  BY <1>2
<1> HIDE DEF n, h, a
<1>8. /\ n.states[t] = h
      /\ \A u \in TTLs : u # t => n.states[u] = s.states[u]
      /\ n.agg[t] = a
      /\ \A u \in TTLs : u # t => n.agg[u] = s.agg[u]
  BY <1>2, <1>5
<1>9. n \in Runtime
  <2>1. n.states \in [TTLs -> HopState]
    BY <1>2, <1>3, <1>5
  <2>2. n.agg \in [TTLs -> [sent : Nat, dst : BOOLEAN]]
    BY <1>2, <1>5, <1>7
  <2> QED BY <1>1, <1>6, <2>1, <2>2 DEF Runtime
<1>10. SlotInv(n)
  BY <1>1, <1>5, <1>9 DEF SlotInv
<1>11. HopInv(n)
  <2> SUFFICES ASSUME NEW u \in TTLs
               PROVE  n.states[u].inFlightCount = Cardinality(CurrentProbes(n, u))
    BY DEF HopInv
  <2>1. CurrentProbes(n, u) = CurrentProbes(s, u)
    BY <1>5 DEF CurrentProbes
  <2>2. n.states[u].inFlightCount = s.states[u].inFlightCount
    BY <1>3, <1>8
  <2> QED BY <2>1, <2>2 DEF RtInv, HopInv
<1>12. BudgetInv(n)
  <2> SUFFICES ASSUME MaxPerHop > 0, NEW u \in TTLs
               PROVE  n.states[u].completed + n.states[u].inFlightCount <= MaxPerHop
    BY DEF BudgetInv
  <2>1. CASE u = t
    <3>1. s.states[t].completed \in Nat /\ s.states[t].inFlightCount \in Nat
      BY <1>2 DEF HopState
    <3> QED BY <1>3, <1>8, <2>1, <3>1, SchedulerAssumption
  <2>2. CASE u # t
    BY <1>8, <2>2 DEF RtInv, BudgetInv
  <2> QED BY <2>1, <2>2
<1>13. EffectiveMax(n) = EffectiveMax(s)
  BY <1>5 DEF EffectiveMax
<1>14. t <= EffectiveMax(s)
  BY <1>2, SchedulerAssumption DEF RtInv, FinalInv, EffectiveMax, TTLs
<1>15. FinalInv(n)
  BY <1>3, <1>5, <1>8 DEF RtInv, FinalInv
<1>16. StatInv(n)
  <2> SUFFICES ASSUME NEW u \in TTLs
               PROVE  /\ n.agg[u].dst => u = n.knownFinalTTL
                      /\ n.agg[u].sent <= n.states[u].completed
                      /\ u <= EffectiveMax(n) => n.agg[u].sent = n.states[u].completed
    BY DEF StatInv
  <2>1. /\ s.agg[u].dst => u = s.knownFinalTTL
        /\ s.agg[u].sent <= s.states[u].completed
        /\ u <= EffectiveMax(s) => s.agg[u].sent = s.states[u].completed
    BY DEF RtInv, StatInv
  <2>2. CASE u = t
    <3>1. s.agg[t].sent \in Nat /\ s.states[t].completed \in Nat
      BY <1>2 DEF HopState
    <3>2. n.agg[u].dst => u = n.knownFinalTTL
      BY <1>5, <1>7, <1>8, <2>1, <2>2
    <3>3. n.agg[u].sent = n.states[u].completed
      BY <1>3, <1>7, <1>8, <1>14, <2>1, <2>2, <3>1
    <3>4. n.agg[u].sent \in Nat
      BY <1>7, <1>8, <2>2
    <3> QED BY <3>2, <3>3, <3>4
  <2>3. CASE u # t
    BY <1>5, <1>8, <1>13, <2>1, <2>3
  <2> QED BY <2>2, <2>3
<1>17. Forward(s, n)
  <2>1. EffectiveMax(s) \in Int
    BY <1>2, SchedulerAssumption DEF EffectiveMax, TTLs
  <2>2. \A u \in TTLs : s.states[u].completed \in Nat
    BY <1>2 DEF HopState
  <2>3. \A u \in TTLs : /\ s.states[u].disabled => n.states[u].disabled
                        /\ n.states[u].completed >= s.states[u].completed
    BY <1>3, <1>8, <2>2
  <2> QED BY <1>5, <1>13, <2>1, <2>3 DEF Forward
<1> QED BY <1>5, <1>8, <1>10, <1>11, <1>12, <1>13, <1>14, <1>15, <1>16, <1>17 DEF RtInv, n

\* disableHigherTTLs only switches hops off.
LEMMA DisableHop ==
  ASSUME NEW states \in [TTLs -> HopState], NEW t \in TTLs, NEW u \in TTLs
  PROVE  /\ DisableHigherTTLs(states, t)[u] \in HopState
         /\ DisableHigherTTLs(states, t)[u].completed = states[u].completed
         /\ DisableHigherTTLs(states, t)[u].inFlightCount = states[u].inFlightCount
         /\ DisableHigherTTLs(states, t)[u].disabled <=> states[u].disabled \/ u > t
<1> DEFINE h == states[u]
           k == [h EXCEPT !.disabled = @ \/ u > t]
<1>1. DisableHigherTTLs(states, t)[u] = k
  BY DEF DisableHigherTTLs
<1>2. h \in HopState
  OBVIOUS
<1> HIDE DEF h
<1>3. k \in HopState
  BY <1>2 DEF HopState
<1>4. k.completed = h.completed /\ k.inFlightCount = h.inFlightCount
  BY <1>2 DEF HopState
<1>5. k.disabled = (h.disabled \/ u > t)
  BY <1>2 DEF HopState
<1> QED BY <1>1, <1>3, <1>4, <1>5 DEF h

\* detectDestination at a hop that is not disabled makes it the final hop and
\* leaves no destination row above it.
LEMMA DetectInv ==
  ASSUME NEW s, RtInv(s), NEW t \in TTLs, ~ s.states[t].disabled
  PROVE  /\ RtInv(DetectDestination(s, t))
         /\ Forward(s, DetectDestination(s, t))
         /\ DetectDestination(s, t).knownFinalTTL = t
         /\ DetectDestination(s, t).probes = s.probes
         /\ ~ DetectDestination(s, t).states[t].disabled
         /\ \A u \in TTLs :
              /\ DetectDestination(s, t).states[u].completed = s.states[u].completed
              /\ DetectDestination(s, t).states[u].inFlightCount = s.states[u].inFlightCount
<1> DEFINE d == DetectDestination(s, t)
           old == s.knownFinalTTL
<1>1. SlotInv(s) /\ s \in Runtime
  BY DEF RtInv, SlotInv
<1>2. /\ s.states \in [TTLs -> HopState]
      /\ s.agg \in [TTLs -> [sent : Nat, dst : BOOLEAN]]
      /\ old \in TTLs \cup {-1}
  BY <1>1, RuntimeFields
<1>3. \A u \in TTLs : s.states[u].completed \in Nat /\ s.agg[u].sent \in Nat
  BY <1>2 DEF HopState
<1>4. TTLs \subseteq Nat \ {0}
  BY SchedulerAssumption DEF TTLs
<1>5. /\ t \in Nat /\ t > 0
      /\ old = -1 \/ (old \in Nat /\ old > 0 /\ t <= old)
  <2>1. t \in Nat /\ t > 0
    BY <1>4
  <2>2. old = -1 \/ (old \in Nat /\ old > 0)
    <3>1. old = -1 \/ old \in Nat \ {0}
      BY <1>2, <1>4
    <3> QED BY <3>1
  <2>3. ~ (old > 0 /\ t > old)
    BY DEF RtInv, FinalInv
  <2> QED BY <2>1, <2>2, <2>3
<1>6. CASE old = t
  <2>1. d = s
    BY <1>4, <1>6 DEF DetectDestination
  <2>2. EffectiveMax(s) <= EffectiveMax(s)
    BY <1>2, SchedulerAssumption DEF EffectiveMax, TTLs
  <2>3. Forward(s, s)
    BY <1>3, <2>2 DEF Forward
  <2> QED BY <1>6, <2>1, <2>3
<1>7. CASE old # t
  <2>1. old < 0 \/ t < old
    BY <1>5, <1>7
  <2>2. /\ d.states = DisableHigherTTLs(s.states, t)
        /\ d.knownFinalTTL = t
        /\ d.generation = s.generation
        /\ d.inFlight = s.inFlight
        /\ d.probes = s.probes
    BY <1>1, <2>1 DEF DetectDestination, Runtime
  <2>3. d.agg = IF old < 0 THEN s.agg ELSE [s.agg EXCEPT ![old] = InitRow]
    BY <1>1, <2>1 DEF DetectDestination, Runtime, ClearHop
  <2>4. d = [s EXCEPT !.knownFinalTTL = t, !.states = d.states, !.agg = d.agg]
    BY <1>1, <2>1 DEF DetectDestination, Runtime
  <2>5. \A u \in TTLs :
          /\ d.states[u] \in HopState
          /\ d.states[u].completed = s.states[u].completed
          /\ d.states[u].inFlightCount = s.states[u].inFlightCount
          /\ d.states[u].disabled <=> s.states[u].disabled \/ u > t
    BY <1>2, <2>2, DisableHop
  <2>6. \A u \in TTLs : IF u = old
                        THEN d.agg[u] = InitRow
                        ELSE d.agg[u] = s.agg[u]
    BY <1>2, <1>4, <2>3
  <2> HIDE DEF d
  <2>7. d \in Runtime
    <3>1. d.states \in [TTLs -> HopState]
      <4>1. d.states = [u \in TTLs |-> d.states[u]]
        BY <2>2 DEF DisableHigherTTLs
      <4> QED BY <4>1, <2>5
    <3>2. d.agg \in [TTLs -> [sent : Nat, dst : BOOLEAN]]
      BY <1>2, <2>3 DEF InitRow
    <3> QED BY <1>1, <2>4, <3>1, <3>2 DEF Runtime
  <2>8. SlotInv(d)
    BY <1>1, <2>2, <2>7 DEF SlotInv
  <2>9. HopInv(d)
    <3> SUFFICES ASSUME NEW u \in TTLs
                 PROVE  d.states[u].inFlightCount = Cardinality(CurrentProbes(d, u))
      BY DEF HopInv
    <3>1. CurrentProbes(d, u) = CurrentProbes(s, u)
      BY <2>2 DEF CurrentProbes
    <3> QED BY <2>5, <3>1 DEF RtInv, HopInv
  <2>10. BudgetInv(d)
    BY <2>5 DEF RtInv, BudgetInv
  <2>11. FinalInv(d)
    <3> SUFFICES ASSUME NEW u \in TTLs
                 PROVE  d.states[u].disabled <=> d.knownFinalTTL > 0 /\ u > d.knownFinalTTL
      BY DEF FinalInv
    <3>1. s.states[u].disabled <=> old > 0 /\ u > old
      BY DEF RtInv, FinalInv
    <3>2. u \in Nat
      BY <1>4
    <3>3. s.states[u].disabled => u > t
      BY <1>5, <3>1, <3>2
    <3> QED BY <1>5, <2>2, <2>5, <3>3
  <2>12. /\ EffectiveMax(d) = t
         /\ EffectiveMax(s) \in Int
         /\ t <= EffectiveMax(s)
    BY <1>2, <1>4, <1>5, <2>2, SchedulerAssumption DEF EffectiveMax, TTLs
  <2>13. StatInv(d)
    <3> SUFFICES ASSUME NEW u \in TTLs
                 PROVE  /\ d.agg[u].dst => u = d.knownFinalTTL
                        /\ d.agg[u].sent <= d.states[u].completed
                        /\ u <= EffectiveMax(d) => d.agg[u].sent = d.states[u].completed
      BY DEF StatInv
    <3>1. /\ s.agg[u].dst => u = old
          /\ s.agg[u].sent <= s.states[u].completed
          /\ u <= EffectiveMax(s) => s.agg[u].sent = s.states[u].completed
      BY DEF RtInv, StatInv
    <3>2. CASE u = old
      <4>1. d.agg[u].sent = 0 /\ d.agg[u].dst = FALSE
        BY <2>6, <3>2 DEF InitRow
      <4>2. ~ (u <= t)
        BY <1>4, <2>1, <3>2
      <4> QED BY <1>3, <2>5, <2>12, <4>1, <4>2
    <3>3. CASE u # old
      <4>1. d.agg[u] = s.agg[u]
        BY <2>6, <3>3
      <4>2. u <= t => u <= EffectiveMax(s)
        BY <1>4, <2>12
      <4> QED BY <2>5, <2>12, <3>1, <3>3, <4>1, <4>2
    <3> QED BY <3>2, <3>3
  <2>14. Forward(s, d)
    BY <1>3, <2>2, <2>5, <2>12 DEF Forward
  <2>15. ~ d.states[t].disabled
    BY <1>4, <2>5
  <2> QED BY <2>2, <2>5, <2>8, <2>9, <2>10, <2>11, <2>13, <2>14, <2>15 DEF RtInv, d
<1> QED BY <1>6, <1>7

\* Clearing or raising the error counter of a hop changes nothing else.
LEMMA ErrsInv ==
  ASSUME NEW s, RtInv(s), NEW t \in TTLs, NEW e \in Nat, NEW n,
         n = WithErrs(s, t, e)
  PROVE  /\ RtInv(n)
         /\ Forward(s, n)
         /\ n.probes = s.probes
         /\ \A u \in TTLs : n.states[u].completed = s.states[u].completed
<1> DEFINE h == [s.states[t] EXCEPT !.consecutiveErrs = e]
<1>1. SlotInv(s) /\ s \in Runtime
  BY DEF RtInv, SlotInv
<1>2. /\ s.states \in [TTLs -> HopState]
      /\ s.states[t] \in HopState
      /\ s.knownFinalTTL \in TTLs \cup {-1}
  BY <1>1, RuntimeFields
<1>3. h \in HopState
  BY <1>2 DEF HopState
<1>4. /\ h.completed = s.states[t].completed
      /\ h.inFlightCount = s.states[t].inFlightCount
      /\ h.disabled = s.states[t].disabled
  BY <1>2 DEF HopState
<1>5. n = WithHop(s, t, h)
  BY <1>1, <1>2 DEF Runtime, WithHop, WithErrs
<1> HIDE DEF h
<1>6. /\ n \in Runtime
      /\ n.states[t] = h
      /\ \A u \in TTLs : u # t => n.states[u] = s.states[u]
      /\ n.generation = s.generation
      /\ n.knownFinalTTL = s.knownFinalTTL
      /\ n.inFlight = s.inFlight
      /\ n.probes = s.probes
      /\ n.agg = s.agg
  BY <1>1, <1>3, <1>5, HopUpdate
<1>7. \A u \in TTLs :
        /\ n.states[u].completed = s.states[u].completed
        /\ n.states[u].inFlightCount = s.states[u].inFlightCount
        /\ n.states[u].disabled = s.states[u].disabled
  BY <1>4, <1>6
<1>8. EffectiveMax(n) = EffectiveMax(s) /\ EffectiveMax(s) \in Int
  BY <1>2, <1>6, SchedulerAssumption DEF EffectiveMax, TTLs
<1>9. SlotInv(n)
  BY <1>1, <1>6 DEF SlotInv
<1>10. \A u \in TTLs : CurrentProbes(n, u) = CurrentProbes(s, u)
  BY <1>6 DEF CurrentProbes
<1>11. HopInv(n) /\ BudgetInv(n)
  BY <1>7, <1>10 DEF RtInv, HopInv, BudgetInv
<1>12. FinalInv(n) /\ StatInv(n)
  BY <1>6, <1>7, <1>8 DEF RtInv, FinalInv, StatInv
<1>13. Forward(s, n)
  <2>1. \A u \in TTLs : s.states[u].completed \in Nat
    BY <1>2 DEF HopState
  <2> QED BY <1>6, <1>7, <1>8, <2>1 DEF Forward
<1> QED BY <1>6, <1>7, <1>9, <1>11, <1>12, <1>13 DEF RtInv

\* processResult, in each of its ways: a stale result, a disabled hop, an
\* error, a success.  What it counts is a probe of the current generation at
\* its own hop, not beyond the final TTL.
LEMMA ResultInv ==
  ASSUME NEW s, RtInv(s), NEW p \in s.probes, NEW outcome \in Outcomes,
         NEW busy \in BOOLEAN, NEW n, n = ProcessResult(s, p, outcome, busy)
  PROVE  /\ RtInv(n)
         /\ Forward(s, n)
         /\ n.probes = s.probes \ {p}
         /\ \A t \in TTLs :
              n.states[t].completed # s.states[t].completed =>
                /\ t = p.ttl
                /\ p.gen = s.generation
                /\ t <= EffectiveMax(n)
<1> DEFINE t == p.ttl
           r == Received(s, p)
           f == Freed(r, p)
<1>0. SlotInv(s) /\ s \in Runtime
  BY DEF RtInv, SlotInv
<1>1. t \in TTLs
  BY <1>0, RuntimeFields DEF Probe
<1>2. \A x : x \in Runtime => /\ EffectiveMax(x) \in Int
                              /\ \A u \in TTLs : x.states[u].completed \in Nat
  <2> SUFFICES ASSUME NEW x \in Runtime
               PROVE  /\ EffectiveMax(x) \in Int
                      /\ \A u \in TTLs : x.states[u].completed \in Nat
    OBVIOUS
  <2>1. x.states \in [TTLs -> HopState] /\ x.knownFinalTTL \in TTLs \cup {-1}
    BY RuntimeFields
  <2> QED BY <2>1, SchedulerAssumption DEF EffectiveMax, TTLs, HopState
<1>3. CASE p.gen # s.generation
  <2>1. n = r
    BY <1>3 DEF ProcessResult, Received
  <2>2. /\ SlotInv(r)
        /\ r.probes = s.probes \ {p}
        /\ r.states = s.states
        /\ r.generation = s.generation
        /\ r.knownFinalTTL = s.knownFinalTTL
        /\ r.agg = s.agg
    BY <1>0, ReceiveInv
  <2> HIDE DEF r
  <2>3. \A u \in TTLs : CurrentProbes(r, u) = CurrentProbes(s, u)
    BY <1>3, <2>2 DEF CurrentProbes
  <2>4. HopInv(r) /\ BudgetInv(r)
    BY <2>2, <2>3 DEF RtInv, HopInv, BudgetInv
  <2>5. EffectiveMax(r) = EffectiveMax(s)
    BY <2>2 DEF EffectiveMax
  <2>6. FinalInv(r) /\ StatInv(r)
    BY <2>2, <2>5 DEF RtInv, FinalInv, StatInv
  <2>7. Forward(s, r)
    BY <1>0, <1>2, <2>2, <2>5 DEF Forward
  <2> QED BY <2>1, <2>2, <2>4, <2>6, <2>7 DEF RtInv
<1>4. CASE p.gen = s.generation
  <2>1. /\ RtInv(f)
        /\ f.probes = s.probes \ {p}
        /\ f.generation = s.generation
        /\ f.knownFinalTTL = s.knownFinalTTL
        /\ \A u \in TTLs : /\ f.states[u].disabled = s.states[u].disabled
                           /\ f.states[u].completed = s.states[u].completed
        /\ MaxPerHop > 0 => f.states[t].completed + f.states[t].inFlightCount < MaxPerHop
    BY <1>4, FreeInv
  <2>2. EffectiveMax(f) = EffectiveMax(s)
    BY <2>1 DEF EffectiveMax
  <2>3. Forward(s, f)
    BY <1>0, <1>2, <2>1, <2>2 DEF Forward
  <2>4. n = IF s.states[t].disabled THEN f
            ELSE IF outcome = "error" THEN ProcessProbeError(f, t)
            ELSE ProcessProbeSuccess(f, t, outcome, busy)
    BY <1>4 DEF ProcessResult, Received, Freed
  <2> HIDE DEF f, r
  <2>f. f \in Runtime
    BY <2>1 DEF RtInv, SlotInv
  \* It is enough to look at the step from f to n.
  <2>5. SUFFICES /\ RtInv(n)
                 /\ Forward(f, n)
                 /\ n.probes = f.probes
                 /\ \A u \in TTLs :
                      n.states[u].completed # f.states[u].completed =>
                        u = t /\ u <= EffectiveMax(n)
    <3> SUFFICES Forward(s, n)
      BY <1>4, <2>1
    <3>1. n \in Runtime
      BY DEF RtInv, SlotInv
    <3> QED BY <1>0, <1>2, <2>1, <2>2, <2>f, <3>1 DEF Forward
  <2>6. CASE s.states[t].disabled
    <3>1. Forward(f, f)
      BY <1>2, <2>f DEF Forward
    <3> QED BY <2>1, <2>4, <2>6, <3>1
  <2>7. CASE ~ s.states[t].disabled /\ outcome = "error"
    <3>1. n = ProcessProbeError(f, t)
      BY <2>4, <2>7
    <3>2. CASE canceled
      <4>1. n = f
        BY <3>1, <3>2 DEF ProcessProbeError
      <4>2. Forward(f, f)
        BY <1>2, <2>f DEF Forward
      <4> QED BY <2>1, <4>1, <4>2
    <3>3. CASE ~ canceled /\ f.states[t].consecutiveErrs + 1 < MaxConsecErrs
      <4>1. f.states[t].consecutiveErrs + 1 \in Nat
        BY <1>1, <2>f, RuntimeFields DEF HopState
      <4>2. n = WithErrs(f, t, f.states[t].consecutiveErrs + 1)
        BY <1>1, <2>f, <3>1, <3>3 DEF ProcessProbeError, Runtime, WithErrs
      <4>3. /\ RtInv(n)
            /\ Forward(f, n)
            /\ n.probes = f.probes
            /\ \A u \in TTLs : n.states[u].completed = f.states[u].completed
        <5> DEFINE e == f.states[t].consecutiveErrs + 1
        <5>1. e \in Nat /\ n = WithErrs(f, t, e)
          BY <4>1, <4>2
        <5> HIDE DEF t, e
        <5> QED BY <1>1, <2>1, <5>1, ErrsInv
      <4> QED BY <4>3
    <3>4. CASE ~ canceled /\ ~ (f.states[t].consecutiveErrs + 1 < MaxConsecErrs)
      <4>1. n = Count(f, t, FALSE)
        BY <3>1, <3>4 DEF ProcessProbeError
      <4>2. ~ f.states[t].disabled
        BY <1>1, <2>1, <2>7
      <4>3. /\ RtInv(n)
            /\ Forward(f, n)
            /\ n.probes = f.probes
            /\ t <= EffectiveMax(n)
            /\ \A u \in TTLs : u # t => n.states[u] = f.states[u]
        <5> DEFINE isDst == FALSE
        <5>1. isDst \in BOOLEAN /\ ~ isDst /\ n = Count(f, t, isDst)
          BY <4>1
        <5> HIDE DEF t, isDst
        <5> QED BY <1>1, <2>1, <4>2, <5>1, CountInv
      <4> QED BY <4>3
    <3> QED BY <3>2, <3>3, <3>4
  <2>8. CASE ~ s.states[t].disabled /\ outcome # "error"
    <3> DEFINE isDst == outcome = "destination"
               d == IF isDst THEN DetectDestination(f, t) ELSE f
    <3>1. ~ f.states[t].disabled
      BY <1>1, <2>1, <2>8
    <3>2. n = IF BudgetReached(d, t)
              THEN [d EXCEPT !.states[t].consecutiveErrs = 0]
              ELSE [Count(d, t, isDst) EXCEPT !.metaBusy = @ \/ busy]
      BY <2>4, <2>8 DEF ProcessProbeSuccess
    <3>3. /\ RtInv(d)
          /\ Forward(f, d)
          /\ d.probes = f.probes
          /\ ~ d.states[t].disabled
          /\ isDst => t = d.knownFinalTTL
          /\ \A u \in TTLs : /\ d.states[u].completed = f.states[u].completed
                             /\ d.states[u].inFlightCount = f.states[u].inFlightCount
      <4>1. CASE isDst
        BY <1>1, <2>1, <3>1, <4>1, DetectInv
      <4>2. CASE ~ isDst
        <5>1. Forward(f, f)
          BY <1>2, <2>f DEF Forward
        <5> QED BY <2>1, <3>1, <4>2, <5>1
      <4> QED BY <4>1, <4>2
    <3>4. isDst \in BOOLEAN
      OBVIOUS
    <3> HIDE DEF isDst, d
    <3>5. d.states[t] \in HopState
      BY <1>1, <3>3, RuntimeFields DEF RtInv, SlotInv
    \* By the budget invariant this branch cannot be reached.
    <3>6. ~ BudgetReached(d, t)
      <4>1. d.states[t].completed \in Nat /\ d.states[t].inFlightCount \in Nat
        BY <3>5 DEF HopState
      <4>2. MaxPerHop > 0 => d.states[t].completed + d.states[t].inFlightCount < MaxPerHop
        BY <1>1, <2>1, <3>3
      <4> QED BY <4>1, <4>2, SchedulerAssumption DEF BudgetReached
    <3> DEFINE c == Count(d, t, isDst)
    <3>7. n = [c EXCEPT !.metaBusy = @ \/ busy]
      BY <3>2, <3>6
    <3>8. /\ RtInv(c)
          /\ Forward(d, c)
          /\ c.probes = d.probes
          /\ t <= EffectiveMax(c)
          /\ \A u \in TTLs : u # t => c.states[u] = d.states[u]
      BY <1>1, <2>1, <3>3, <3>4, CountInv
    <3> HIDE DEF c
    <3>9. c \in Runtime /\ d \in Runtime
      BY <3>3, <3>8 DEF RtInv, SlotInv
    <3>10. /\ n.states = c.states
           /\ n.generation = c.generation
           /\ n.knownFinalTTL = c.knownFinalTTL
           /\ n.inFlight = c.inFlight
           /\ n.probes = c.probes
           /\ n.agg = c.agg
           /\ n \in Runtime
      BY <3>7, <3>9 DEF Runtime
    <3>11. EffectiveMax(n) = EffectiveMax(c)
      BY <3>10 DEF EffectiveMax
    <3>12. \A u \in TTLs : CurrentProbes(n, u) = CurrentProbes(c, u)
      BY <3>10 DEF CurrentProbes
    <3>13. SlotInv(n)
      BY <3>8, <3>10 DEF RtInv, SlotInv
    <3>14. HopInv(n) /\ BudgetInv(n)
      BY <3>8, <3>10, <3>12 DEF RtInv, HopInv, BudgetInv
    <3>15. FinalInv(n) /\ StatInv(n)
      BY <3>8, <3>10, <3>11 DEF RtInv, FinalInv, StatInv
    <3>16. Forward(f, n)
      BY <1>2, <2>f, <3>3, <3>8, <3>9, <3>10, <3>11 DEF Forward
    <3> QED BY <3>3, <3>8, <3>10, <3>11, <3>13, <3>14, <3>15, <3>16 DEF RtInv
  <2> QED BY <2>6, <2>7, <2>8
<1> QED BY <1>3, <1>4

\* A reset starts a new generation: the probes in flight keep their slots and
\* belong to no hop any more.
LEMMA ResetInv ==
  ASSUME NEW s, RtInv(s)
  PROVE  /\ RtInv(Reset(s))
         /\ Reset(s).probes = s.probes
         /\ Reset(s).generation = s.generation + 1
         /\ \A t \in TTLs : Reset(s).states[t].completed = 0
<1> DEFINE n == Reset(s)
           i == InitRuntime
<1>1. SlotInv(s) /\ s \in Runtime
  BY DEF RtInv, SlotInv
<1>2. /\ s.generation \in Nat
      /\ s.inFlight \in Nat
      /\ s.probes \in SUBSET Probe
  BY <1>1, RuntimeFields
<1>3. RtInv(i) /\ i \in Runtime
  BY InitRuntimeInv DEF RtInv, SlotInv
<1>4. /\ n.states = i.states
      /\ n.generation = s.generation + 1
      /\ n.knownFinalTTL = i.knownFinalTTL
      /\ n.inFlight = s.inFlight
      /\ n.probes = s.probes
      /\ n.agg = i.agg
      /\ n.metaBusy = i.metaBusy
  BY <1>3 DEF Reset, Runtime
<1>5. n = [i EXCEPT !.generation = s.generation + 1, !.inFlight = s.inFlight, !.probes = s.probes]
  BY DEF Reset
<1>6. \A t \in TTLs : i.states[t].completed = 0 /\ i.states[t].inFlightCount = 0
  BY DEF InitRuntime, InitHopState
<1> HIDE DEF n, i
<1>7. n \in Runtime
  <2>1. s.generation + 1 \in Nat
    BY <1>2
  <2> QED BY <1>2, <1>3, <1>5, <2>1 DEF Runtime
<1>8. \A p \in s.probes : p.gen \in Nat /\ p.gen <= s.generation
  BY <1>1, <1>2 DEF SlotInv, Probe
<1>9. SlotInv(n)
  <2>1. \A p \in n.probes : p.gen <= n.generation
    BY <1>2, <1>4, <1>8
  <2> QED BY <1>1, <1>4, <1>7, <2>1 DEF SlotInv
<1>10. HopInv(n)
  <2> SUFFICES ASSUME NEW t \in TTLs
               PROVE  n.states[t].inFlightCount = Cardinality(CurrentProbes(n, t))
    BY DEF HopInv
  <2>1. \A p \in n.probes : p.gen # n.generation
    BY <1>2, <1>4, <1>8
  <2>2. CurrentProbes(n, t) = {}
    BY <2>1 DEF CurrentProbes
  <2> QED BY <1>4, <1>6, <2>2, FS_EmptySet
<1>11. BudgetInv(n)
  BY <1>3, <1>4 DEF RtInv, BudgetInv
<1>12. EffectiveMax(n) = EffectiveMax(i)
  BY <1>4 DEF EffectiveMax
<1>13. FinalInv(n) /\ StatInv(n)
  BY <1>3, <1>4, <1>12 DEF RtInv, FinalInv, StatInv
<1> QED BY <1>4, <1>6, <1>9, <1>10, <1>11, <1>13 DEF RtInv, n

\* scheduleReady, paused or not, keeps the invariant and counts nothing.
LEMMA ScheduleInv ==
  ASSUME NEW s, RtInv(s)
  PROVE  /\ RtInv(ScheduleReady(s))
         /\ s.probes \subseteq ScheduleReady(s).probes
         /\ Forward(s, ScheduleReady(s))
         /\ EffectiveMax(ScheduleReady(s)) = EffectiveMax(s)
         /\ \A t \in TTLs : ScheduleReady(s).states[t].completed = s.states[t].completed
<1>1. CASE paused
  <2>1. ScheduleReady(s) = s
    BY <1>1 DEF ScheduleReady
  <2>2. s \in Runtime
    BY DEF RtInv, SlotInv
  <2>3. s.states \in [TTLs -> HopState] /\ s.knownFinalTTL \in TTLs \cup {-1}
    BY <2>2, RuntimeFields
  <2>4. EffectiveMax(s) \in Int
    BY <2>3, SchedulerAssumption DEF EffectiveMax, TTLs
  <2>5. Forward(s, s)
    BY <2>3, <2>4 DEF Forward, HopState
  <2> QED BY <2>1, <2>5
<1>2. CASE ~ paused
  <2>1. ScheduleReady(s) = LaunchProbes(s, LaunchSet(s))
    BY <1>2 DEF ScheduleReady
  <2> QED BY <2>1, LaunchInv
<1> QED BY <1>1, <1>2

-----------------------------------------------------------------------------
(* The specification.                                                      *)

\* run() starts in the invariant: its first scheduleReady launches on a fresh
\* runtime.
LEMMA InitInv == Init => IInv
<1> SUFFICES ASSUME Init PROVE IInv
  OBVIOUS
<1>1. RtInv(InitRuntime)
  BY InitRuntimeInv
<1>2. RtInv(rt)
  <2>1. rt = LaunchProbes(InitRuntime, LaunchSet(InitRuntime))
    BY DEF Init
  <2> QED BY <1>1, <2>1, LaunchInv
<1>3. resets \in 0 .. MaxResets
  BY SchedulerAssumption DEF Init
<1>4. resultCh \subseteq rt.probes
  BY DEF Init
<1>5. /\ phase = "running"
      /\ canceled \in BOOLEAN
      /\ paused \in BOOLEAN
      /\ resetRequested \in BOOLEAN
  BY DEF Init
<1> QED BY <1>2, <1>3, <1>4, <1>5 DEF IInv, RtInv

\* While the loop runs, the whole invariant of the runtime holds.
LEMMA RunningInv ==
  ASSUME IInv, phase \in {"running", "finished"}
  PROVE  RtInv(rt)
BY DEF IInv, RtInv

\* The result case of the select: process, then end or schedule.
LEMMA ResultStep ==
  ASSUME IInv, NEW p \in resultCh, NEW outcome \in Outcomes, NEW busy \in BOOLEAN,
         OnResult(p, outcome, busy)
  PROVE  /\ RtInv(rt')
         /\ resultCh' \subseteq rt'.probes
         /\ phase' \in {"running", "finished"}
         /\ phase' = "finished" => IsDone(rt')
         /\ Forward(rt, rt')
         /\ \A t \in TTLs :
              rt'.states[t].completed # rt.states[t].completed =>
                /\ t = p.ttl
                /\ p.gen = rt.generation
                /\ t <= EffectiveMax(rt')
<1> DEFINE s == ProcessResult(rt, p, outcome, busy)
<1>1. RtInv(rt) /\ p \in rt.probes
  BY RunningInv DEF IInv, OnResult
<1>2. /\ RtInv(s)
      /\ Forward(rt, s)
      /\ s.probes = rt.probes \ {p}
      /\ \A t \in TTLs :
           s.states[t].completed # rt.states[t].completed =>
             /\ t = p.ttl
             /\ p.gen = rt.generation
             /\ t <= EffectiveMax(s)
  BY <1>1, ResultInv
<1>3. /\ rt' = IF IsDone(s) THEN s ELSE ScheduleReady(s)
      /\ phase' = IF IsDone(s) THEN "finished" ELSE "running"
      /\ resultCh' = resultCh \ {p}
  BY DEF OnResult
<1> HIDE DEF s
<1>4. resultCh \ {p} \subseteq s.probes
  BY <1>2 DEF IInv
<1>5. CASE IsDone(s)
  BY <1>2, <1>3, <1>4, <1>5
<1>6. CASE ~ IsDone(s)
  <2>1. /\ RtInv(ScheduleReady(s))
        /\ s.probes \subseteq ScheduleReady(s).probes
        /\ Forward(s, ScheduleReady(s))
        /\ EffectiveMax(ScheduleReady(s)) = EffectiveMax(s)
        /\ \A t \in TTLs : ScheduleReady(s).states[t].completed = s.states[t].completed
    BY <1>2, ScheduleInv
  <2>2. rt' = ScheduleReady(s) /\ phase' = "running"
    BY <1>3, <1>6
  <2>3. Forward(rt, rt')
    BY <1>2, <2>1, <2>2 DEF Forward
  <2> QED BY <1>2, <1>3, <1>4, <2>1, <2>2, <2>3
<1> QED BY <1>5, <1>6

\* The tick: a reset if one is asked for, then scheduling.
LEMMA TickStep ==
  ASSUME IInv, OnTick
  PROVE  /\ RtInv(rt')
         /\ resultCh' \subseteq rt'.probes
         /\ phase' \in {"running", "finished"}
         /\ phase' = "finished" => IsDone(rt')
         /\ rt'.generation = rt.generation => Forward(rt, rt')
         /\ \A t \in TTLs : ~ (rt'.states[t].completed > rt.states[t].completed)
<1> DEFINE s == HandleReset(rt)
<1>1. RtInv(rt)
  BY RunningInv DEF OnTick
<1>2. rt \in Runtime /\ rt.generation \in Nat /\ rt.states \in [TTLs -> HopState]
  BY <1>1, RuntimeFields DEF RtInv, SlotInv
<1>3. \A t \in TTLs : rt.states[t].completed \in Nat
  BY <1>2 DEF HopState
<1>4. /\ RtInv(s)
      /\ s.probes = rt.probes
      /\ s.generation = rt.generation => s = rt
      /\ \A t \in TTLs : ~ (s.states[t].completed > rt.states[t].completed)
  <2>1. CASE resetRequested
    <3>1. s = Reset(rt)
      BY <2>1 DEF HandleReset
    <3>2. /\ RtInv(Reset(rt))
          /\ Reset(rt).probes = rt.probes
          /\ Reset(rt).generation = rt.generation + 1
          /\ \A t \in TTLs : Reset(rt).states[t].completed = 0
      BY <1>1, ResetInv
    <3> QED BY <1>2, <1>3, <3>1, <3>2
  <2>2. CASE ~ resetRequested
    BY <1>1, <1>3, <2>2 DEF HandleReset
  <2> QED BY <2>1, <2>2
<1>5. /\ rt' = ScheduleReady(s)
      /\ phase' = IF IsDone(rt') THEN "finished" ELSE "running"
      /\ resultCh' = resultCh
  BY DEF OnTick
<1> HIDE DEF s
<1>6. /\ RtInv(ScheduleReady(s))
      /\ s.probes \subseteq ScheduleReady(s).probes
      /\ Forward(s, ScheduleReady(s))
      /\ \A t \in TTLs : ScheduleReady(s).states[t].completed = s.states[t].completed
  BY <1>4, ScheduleInv
<1>7. rt'.generation = s.generation
  BY <1>5, <1>6 DEF Forward
<1> QED BY <1>4, <1>5, <1>6, <1>7 DEF IInv

\* The invariant is inductive.
LEMMA NextInv == IInv /\ [Next]_vars => IInv'
<1> SUFFICES ASSUME IInv, [Next]_vars PROVE IInv'
  OBVIOUS
<1> USE DEF Outcomes
<1>0. /\ SlotInv(rt) /\ rt \in Runtime
      /\ BudgetInv(rt) /\ FinalInv(rt) /\ StatInv(rt)
      /\ resultCh \subseteq rt.probes
      /\ rt.metaBusy \in BOOLEAN
      /\ rt.states \in [TTLs -> HopState]
  BY RuntimeFields DEF IInv, SlotInv
<1>1. ASSUME NEW p \in resultCh, NEW outcome \in Outcomes, NEW busy \in BOOLEAN,
             OnResult(p, outcome, busy)
      PROVE  IInv'
  <2>1. /\ RtInv(rt')
        /\ resultCh' \subseteq rt'.probes
        /\ phase' \in {"running", "finished"}
        /\ phase' = "finished" => IsDone(rt')
    BY <1>1, ResultStep
  <2> QED BY <1>1, <2>1 DEF IInv, RtInv, OnResult
<1>2. CASE OnMetadata
  <2> DEFINE s == [rt EXCEPT !.metaBusy = FALSE]
  <2>1. /\ rt' = s
        /\ resultCh' = resultCh
        /\ phase' = IF IsDone(s) THEN "finished" ELSE "running"
        /\ phase = "running"
    BY <1>2 DEF OnMetadata
  <2>2. /\ s \in Runtime
        /\ s.states = rt.states
        /\ s.generation = rt.generation
        /\ s.knownFinalTTL = rt.knownFinalTTL
        /\ s.inFlight = rt.inFlight
        /\ s.probes = rt.probes
        /\ s.agg = rt.agg
    BY <1>0 DEF Runtime
  <2> HIDE DEF s
  <2>3. SlotInv(s)
    BY <1>0, <2>2 DEF SlotInv
  <2>4. \A t \in TTLs : CurrentProbes(s, t) = CurrentProbes(rt, t)
    BY <2>2 DEF CurrentProbes
  <2>5. HopInv(s) /\ BudgetInv(s) /\ FinalInv(s)
    BY <1>0, <2>1, <2>2, <2>4 DEF IInv, HopInv, BudgetInv, FinalInv
  <2>6. StatInv(s)
    <3>1. EffectiveMax(s) = EffectiveMax(rt)
      BY <2>2 DEF EffectiveMax
    <3> QED BY <1>0, <2>2, <3>1 DEF StatInv
  <2> QED BY <1>2, <2>1, <2>2, <2>3, <2>5, <2>6 DEF IInv, OnMetadata
<1>3. CASE OnTick
  <2>1. /\ RtInv(rt')
        /\ resultCh' \subseteq rt'.probes
        /\ phase' \in {"running", "finished"}
        /\ phase' = "finished" => IsDone(rt')
    BY <1>3, TickStep
  <2> QED BY <1>3, <2>1 DEF IInv, RtInv, OnTick
<1>4. CASE OnCancel
  BY <1>4 DEF IInv, OnCancel
<1>5. ASSUME NEW p \in resultCh, DrainResult(p)
      PROVE  IInv'
  <2>1. rt' = Received(rt, p) /\ p \in rt.probes
    BY <1>0, <1>5 DEF DrainResult, Received
  <2>2. /\ SlotInv(rt')
        /\ rt'.probes = rt.probes \ {p}
        /\ rt'.states = rt.states
        /\ rt'.generation = rt.generation
        /\ rt'.knownFinalTTL = rt.knownFinalTTL
        /\ rt'.agg = rt.agg
    BY <1>0, <2>1, ReceiveInv
  <2>3. EffectiveMax(rt') = EffectiveMax(rt)
    BY <2>2 DEF EffectiveMax
  <2>4. BudgetInv(rt') /\ FinalInv(rt') /\ StatInv(rt')
    BY <1>0, <2>2, <2>3 DEF BudgetInv, FinalInv, StatInv
  <2>5. resultCh' \subseteq rt'.probes
    BY <1>0, <1>5, <2>2 DEF DrainResult
  <2> QED BY <1>5, <2>2, <2>4, <2>5 DEF IInv, DrainResult
<1>6. CASE DrainEnd
  BY <1>6 DEF IInv, DrainEnd
<1>7. ASSUME NEW p \in rt.probes, SendResult(p)
      PROVE  IInv'
  BY <1>7 DEF IInv, SendResult
<1>8. ASSUME NEW t \in TTLs, HopIntervalPasses(t)
      PROVE  IInv'
  <2> DEFINE h == [rt.states[t] EXCEPT !.due = TRUE]
  <2>1. rt.states[t] \in HopState
    BY <1>0
  <2>2. /\ h.completed = rt.states[t].completed
        /\ h.inFlightCount = rt.states[t].inFlightCount
        /\ h.disabled = rt.states[t].disabled
        /\ h \in HopState
    BY <2>1 DEF HopState
  <2>3. rt' = WithHop(rt, t, h)
    BY <1>0, <1>8 DEF HopIntervalPasses, WithHop, Runtime
  <2> HIDE DEF h
  <2>4. /\ rt' \in Runtime
        /\ rt'.states[t] = h
        /\ \A u \in TTLs : u # t => rt'.states[u] = rt.states[u]
        /\ rt'.generation = rt.generation
        /\ rt'.knownFinalTTL = rt.knownFinalTTL
        /\ rt'.inFlight = rt.inFlight
        /\ rt'.probes = rt.probes
        /\ rt'.agg = rt.agg
    <3> DEFINE w == WithHop(rt, t, h)
    <3>1. rt \in Runtime /\ t \in TTLs /\ h \in HopState
      BY <1>0, <2>2
    <3>2. /\ w \in Runtime
          /\ w.states[t] = h
          /\ \A u \in TTLs : u # t => w.states[u] = rt.states[u]
          /\ w.generation = rt.generation
          /\ w.knownFinalTTL = rt.knownFinalTTL
          /\ w.inFlight = rt.inFlight
          /\ w.probes = rt.probes
          /\ w.agg = rt.agg
      BY <3>1, HopUpdate, Zenon
    <3>3. rt' = w
      BY <2>3
    <3> HIDE DEF w
    <3> QED BY <3>2, <3>3, Zenon
  <2>5. \A u \in TTLs :
          /\ rt'.states[u].completed = rt.states[u].completed
          /\ rt'.states[u].inFlightCount = rt.states[u].inFlightCount
          /\ rt'.states[u].disabled = rt.states[u].disabled
    BY <2>2, <2>4
  <2>6. EffectiveMax(rt') = EffectiveMax(rt)
    BY <2>4 DEF EffectiveMax
  <2>7. \A u \in TTLs : CurrentProbes(rt', u) = CurrentProbes(rt, u)
    BY <2>4 DEF CurrentProbes
  <2>8. phase = "running" /\ phase' = "running"
    BY <1>8 DEF HopIntervalPasses
  <2>9. SlotInv(rt')
    BY <1>0, <2>4 DEF SlotInv
  <2>10. HopInv(rt') /\ BudgetInv(rt')
    BY <1>0, <2>5, <2>7, <2>8 DEF IInv, HopInv, BudgetInv
  <2>11. FinalInv(rt') /\ StatInv(rt')
    BY <1>0, <2>4, <2>5, <2>6 DEF FinalInv, StatInv
  <2>12. resultCh' \subseteq rt'.probes
    BY <1>0, <1>8, <2>4 DEF HopIntervalPasses
  <2> QED BY <1>8, <2>8, <2>9, <2>10, <2>11, <2>12 DEF IInv, HopIntervalPasses
<1>9. CASE TogglePause
  BY <1>9 DEF IInv, TogglePause
<1>10. CASE RequestReset
  <2>1. resets' \in 0 .. MaxResets
    BY <1>10, SchedulerAssumption DEF IInv, RequestReset
  <2> QED BY <1>10, <2>1 DEF IInv, RequestReset
<1>11. CASE Cancel
  BY <1>11 DEF IInv, Cancel
<1>12. CASE UNCHANGED vars
  BY <1>12 DEF IInv, vars
<1> QED
  BY <1>1, <1>2, <1>3, <1>4, <1>5, <1>6, <1>7, <1>8, <1>9, <1>10, <1>11, <1>12 DEF Next

\* IInv holds in every reachable state of the scheduler, for every value of
\* its parameters.
THEOREM Invariance == Spec => []IInv
<1> QED BY InitInv, NextInv, PTL DEF Spec

-----------------------------------------------------------------------------
(* The properties of the runs, for every value of the constants.           *)

\* Every variable keeps its type; in particular no counter that processResult
\* or drainInFlight decrements goes below zero.
THEOREM TypeCorrect == Spec => []TypeOK
<1>1. IInv => TypeOK
  <2> SUFFICES ASSUME IInv PROVE TypeOK
    OBVIOUS
  <2>1. rt \in Runtime /\ rt.probes \in SUBSET Probe
    BY RuntimeFields DEF IInv, SlotInv
  <2> QED BY <2>1 DEF IInv, TypeOK
<1> QED BY <1>1, Invariance, PTL

\* The probes in flight are counted exactly, across resets, and never exceed
\* ParallelRequests.
THEOREM SlotsBounded == Spec => []ParallelismRespected
<1>1. IInv => ParallelismRespected
  BY DEF IInv, SlotInv, ParallelismRespected
<1> QED BY <1>1, Invariance, PTL

\* inFlightCount of a hop is the number of its current goroutines.
THEOREM HopsAccounted == Spec => []HopAccounting
<1>1. IInv => HopAccounting
  BY DEF IInv, HopInv, HopAccounting
<1> QED BY <1>1, Invariance, PTL

\* No hop is ever probed or counted beyond its budget.
THEOREM BudgetKept == Spec => []BudgetRespected
<1>1. IInv => BudgetRespected
  <2> SUFFICES ASSUME IInv, MaxPerHop > 0, NEW t \in TTLs
               PROVE  /\ rt.states[t].completed + rt.states[t].inFlightCount <= MaxPerHop
                      /\ rt.agg[t].sent <= MaxPerHop
    BY DEF BudgetRespected
  <2>1. rt.states[t].completed + rt.states[t].inFlightCount <= MaxPerHop
    BY DEF IInv, BudgetInv
  <2>2. rt.agg[t].sent <= rt.states[t].completed
    BY DEF IInv, StatInv
  <2>3. rt.states[t] \in HopState /\ rt.agg[t] \in [sent : Nat, dst : BOOLEAN]
    BY RuntimeFields DEF IInv, SlotInv
  <2>4. /\ rt.states[t].completed \in Nat
        /\ rt.states[t].inFlightCount \in Nat
        /\ rt.agg[t].sent \in Nat
    BY <2>3 DEF HopState
  <2> QED BY <2>1, <2>2, <2>4, SchedulerAssumption
<1> QED BY <1>1, Invariance, PTL

\* The result channel always has room for every goroutine that has yet to
\* send, so the send without a select in launchProbe never blocks.
THEOREM SendersNeverBlock == Spec => []NoSenderBlocks
<1>1. IInv => NoSenderBlocks
  <2> SUFFICES ASSUME IInv PROVE Cardinality(resultCh) < ResultCap
    BY DEF NoSenderBlocks
  <2>1. IsFiniteSet(rt.probes) /\ Cardinality(rt.probes) <= Parallelism
    BY DEF IInv, SlotInv
  <2>2. /\ Cardinality(resultCh) <= Cardinality(rt.probes)
        /\ Cardinality(resultCh) \in Nat
        /\ Cardinality(rt.probes) \in Nat
    BY <2>1, FS_Subset, FS_CardinalityType DEF IInv
  <2> QED BY <2>1, <2>2, SchedulerAssumption DEF ResultCap
<1> QED BY <1>1, Invariance, PTL

\* The destination is shown at the final TTL and nowhere else.
THEOREM DestinationUnique == Spec => []NoGhostDestination
<1>1. IInv => NoGhostDestination
  BY DEF IInv, StatInv, NoGhostDestination
<1> QED BY <1>1, Invariance, PTL

\* The hops at or below the effective maximum are TTLs, and none of them is
\* disabled.
LEMMA ActiveHops ==
  ASSUME NEW s, SlotInv(s), FinalInv(s)
  PROVE  /\ EffectiveMax(s) \in TTLs
         /\ BeginHop .. EffectiveMax(s) \subseteq TTLs
         /\ ActiveTTLs(s) = BeginHop .. EffectiveMax(s)
         /\ ActiveTTLs(s) # {}
<1>1. s.knownFinalTTL \in TTLs \cup {-1}
  BY RuntimeFields DEF SlotInv
<1>2. EffectiveMax(s) \in TTLs
  BY <1>1, SchedulerAssumption DEF EffectiveMax, TTLs
<1>3. BeginHop .. EffectiveMax(s) \subseteq TTLs
  BY <1>2, SchedulerAssumption DEF TTLs
<1>4. \A t \in BeginHop .. EffectiveMax(s) : ~ s.states[t].disabled
  <2> TAKE t \in BeginHop .. EffectiveMax(s)
  <2>1. t \in TTLs
    BY <1>3
  <2>2. ~ (s.knownFinalTTL > 0 /\ t > s.knownFinalTTL)
    BY <1>1, <2>1, SchedulerAssumption DEF EffectiveMax, TTLs
  <2> QED BY <2>1, <2>2 DEF FinalInv
<1>5. BeginHop \in BeginHop .. EffectiveMax(s)
  BY <1>2, SchedulerAssumption DEF TTLs
<1> QED BY <1>2, <1>3, <1>4, <1>5 DEF ActiveTTLs

\* Up to the final hop, the statistics shown are what the scheduler counted.
THEOREM StatsMatch == Spec => []StatsMatchSchedule
<1>1. IInv => StatsMatchSchedule
  <2> SUFFICES ASSUME IInv, NEW t \in BeginHop .. EffectiveMax(rt)
               PROVE  rt.agg[t].sent = rt.states[t].completed
    BY DEF StatsMatchSchedule
  <2>1. t \in TTLs
    BY ActiveHops DEF IInv
  <2>2. t <= EffectiveMax(rt)
    BY <2>1, ActiveHops, SchedulerAssumption DEF IInv, TTLs
  <2> QED BY <2>1, <2>2 DEF IInv, StatInv
<1> QED BY <1>1, Invariance, PTL

\* In-flight counts, budget and statistics together, for every number of hops, slots and
\* probes.
THEOREM BooksSound == Spec => []ScheduleSound
BY HopsAccounted, BudgetKept, StatsMatch, SendersNeverBlock, PTL DEF ScheduleSound

\* A run that ends by itself leaves no goroutine and exactly the budget at
\* every hop up to the final one.
THEOREM FinishedIsComplete == Spec => []CompleteWhenFinished
<1>1. IInv => CompleteWhenFinished
  <2> SUFFICES ASSUME IInv, phase = "finished"
               PROVE  /\ rt.probes = {}
                      /\ \A t \in BeginHop .. EffectiveMax(rt) : rt.agg[t].sent = MaxPerHop
    BY DEF CompleteWhenFinished
  <2>1. IsDone(rt) /\ SlotInv(rt) /\ FinalInv(rt) /\ BudgetInv(rt)
    BY DEF IInv
  <2>2. rt.probes = {}
    BY <2>1, FS_EmptySet DEF IsDone, SlotInv
  <2>3. ASSUME NEW t \in BeginHop .. EffectiveMax(rt)
        PROVE  rt.agg[t].sent = MaxPerHop
    <3>1. t \in TTLs /\ t \in ActiveTTLs(rt) /\ t <= EffectiveMax(rt)
      BY <2>1, ActiveHops, SchedulerAssumption DEF TTLs
    <3>2. rt.states[t].completed >= MaxPerHop /\ MaxPerHop > 0
      BY <2>1, <3>1 DEF IsDone
    <3>3. rt.states[t].completed + rt.states[t].inFlightCount <= MaxPerHop
      BY <2>1, <3>1, <3>2 DEF BudgetInv
    <3>4. rt.states[t].completed \in Nat /\ rt.states[t].inFlightCount \in Nat
      BY <2>1, <3>1, RuntimeFields DEF SlotInv, HopState
    <3>5. rt.states[t].completed = MaxPerHop
      BY <3>2, <3>3, <3>4, SchedulerAssumption
    <3> QED BY <3>1, <3>5 DEF IInv, StatInv
  <2> QED BY <2>2, <2>3
<1> QED BY <1>1, Invariance, PTL
-----------------------------------------------------------------------------
(* Action properties.                                                      *)

\* Steps other than those of the loop's select leave what is counted alone.
SameCounts ==
  /\ Forward(rt, rt')
  /\ \A t \in TTLs : rt'.states[t].completed = rt.states[t].completed

\* Only a received result or a tick can change what is counted.
LEMMA QuietSteps ==
  ASSUME IInv, [Next]_vars
  PROVE  \/ \E p \in resultCh, outcome \in Outcomes, busy \in BOOLEAN :
              OnResult(p, outcome, busy)
         \/ OnTick
         \/ SameCounts
<1>0. /\ rt \in Runtime
      /\ rt.states \in [TTLs -> HopState]
      /\ EffectiveMax(rt) \in TTLs
  BY RuntimeFields, ActiveHops DEF IInv, SlotInv
<1>1. \A t \in TTLs : rt.states[t] \in HopState /\ rt.states[t].completed \in Nat
  BY <1>0 DEF HopState
<1>2. EffectiveMax(rt) \in Int
  BY <1>0, SchedulerAssumption DEF TTLs
<1>3. ASSUME /\ rt'.states = rt.states
             /\ rt'.generation = rt.generation
             /\ rt'.knownFinalTTL = rt.knownFinalTTL
      PROVE  SameCounts
  <2>1. EffectiveMax(rt') = EffectiveMax(rt)
    BY <1>3 DEF EffectiveMax
  <2> QED BY <1>1, <1>2, <1>3, <2>1 DEF SameCounts, Forward
<1>4. CASE rt' = rt
  BY <1>3, <1>4
<1>5. CASE OnMetadata
  BY <1>0, <1>3, <1>5 DEF OnMetadata, Runtime
<1>6. ASSUME NEW p \in resultCh, DrainResult(p)
      PROVE  SameCounts
  BY <1>0, <1>3, <1>6 DEF DrainResult, Runtime
<1>7. ASSUME NEW t \in TTLs, HopIntervalPasses(t)
      PROVE  SameCounts
  <2> DEFINE st == [rt.states EXCEPT ![t] = [@ EXCEPT !.due = TRUE]]
  <2>1. /\ rt'.states = st
        /\ rt'.generation = rt.generation
        /\ rt'.knownFinalTTL = rt.knownFinalTTL
    BY <1>0, <1>7 DEF HopIntervalPasses, Runtime
  <2>2. \A u \in TTLs : /\ st[u].completed = rt.states[u].completed
                         /\ st[u].disabled = rt.states[u].disabled
    <3> TAKE u \in TTLs
    <3>1. rt.states[u] \in HopState
      BY <1>1
    <3>2. CASE u = t
      <4>1. st[u] = [rt.states[u] EXCEPT !.due = TRUE]
        BY <1>0, <3>2
      <4> QED BY <3>1, <4>1 DEF HopState
    <3>3. CASE u # t
      BY <1>0, <3>3
    <3> QED BY <3>2, <3>3
  <2>3. EffectiveMax(rt') = EffectiveMax(rt)
    BY <2>1 DEF EffectiveMax
  <2> HIDE DEF st
  <2> QED BY <1>1, <1>2, <2>1, <2>2, <2>3 DEF SameCounts, Forward
<1> QED
  BY <1>4, <1>5, <1>6, <1>7
  DEF Next, vars, OnCancel, DrainEnd, SendResult, TogglePause, RequestReset, Cancel

\* A probe launched before a reset is never counted after it.
THEOREM StaleNeverCounted == Spec => StaleResultsNotCounted
<1> DEFINE A == \A t \in TTLs :
                  rt'.states[t].completed > rt.states[t].completed =>
                    \E p \in resultCh \ resultCh' : p.ttl = t /\ p.gen = rt.generation
<1>1. IInv /\ [Next]_vars => [A]_vars
  <2> SUFFICES ASSUME IInv, [Next]_vars, NEW t \in TTLs,
                      rt'.states[t].completed > rt.states[t].completed
               PROVE  \E p \in resultCh \ resultCh' : p.ttl = t /\ p.gen = rt.generation
    OBVIOUS
  <2>0. rt.states[t].completed \in Nat
    BY RuntimeFields DEF IInv, SlotInv, HopState
  <2>1. CASE OnTick
    BY <2>1, TickStep
  <2>2. CASE SameCounts
    BY <2>0, <2>2 DEF SameCounts
  <2>3. ASSUME NEW p \in resultCh, NEW outcome \in Outcomes, NEW busy \in BOOLEAN,
               OnResult(p, outcome, busy)
        PROVE  p.ttl = t /\ p.gen = rt.generation /\ p \in resultCh \ resultCh'
    <3>1. rt'.states[t].completed # rt.states[t].completed
      BY <2>0
    <3>2. p \notin resultCh'
      BY <2>3 DEF OnResult
    <3> QED BY <2>3, <3>1, <3>2, ResultStep
  <2> QED BY <2>1, <2>2, <2>3, QuietSteps
<1>2. Spec => [][A]_vars
  BY <1>1, Invariance, PTL DEF Spec
<1> QED BY <1>2 DEF StaleResultsNotCounted

\* A late answer from beyond the final TTL is never counted.
THEOREM BeyondFinalNeverCounted == Spec => NothingCountedBeyondFinal
<1> DEFINE A == \A t \in TTLs :
                  rt'.states[t].completed > rt.states[t].completed =>
                    t <= EffectiveMax(rt')
<1>1. IInv /\ [Next]_vars => [A]_vars
  <2> SUFFICES ASSUME IInv, [Next]_vars, NEW t \in TTLs,
                      rt'.states[t].completed > rt.states[t].completed
               PROVE  t <= EffectiveMax(rt')
    OBVIOUS
  <2>0. rt.states[t].completed \in Nat
    BY RuntimeFields DEF IInv, SlotInv, HopState
  <2>1. CASE OnTick
    BY <2>1, TickStep
  <2>2. CASE SameCounts
    BY <2>0, <2>2 DEF SameCounts
  <2>3. ASSUME NEW p \in resultCh, NEW outcome \in Outcomes, NEW busy \in BOOLEAN,
               OnResult(p, outcome, busy)
        PROVE  t <= EffectiveMax(rt')
    BY <2>0, <2>3, ResultStep
  <2> QED BY <2>1, <2>2, <2>3, QuietSteps
<1>2. Spec => [][A]_vars
  BY <1>1, Invariance, PTL DEF Spec
<1> QED BY <1>2 DEF NothingCountedBeyondFinal
\* The iteration of a runtime is the least count of its active hops.
LEMMA IterationIsLeast ==
  ASSUME NEW s, SlotInv(s), FinalInv(s)
  PROVE  /\ \E t \in ActiveTTLs(s) : ComputeIteration(s) = s.states[t].completed
         /\ \A t \in ActiveTTLs(s) : ComputeIteration(s) <= s.states[t].completed
<1> DEFINE D == {s.states[t].completed : t \in ActiveTTLs(s)}
<1>1. ActiveTTLs(s) # {} /\ ActiveTTLs(s) \subseteq TTLs
  BY ActiveHops
<1>2. \A t \in TTLs : s.states[t].completed \in Nat
  BY RuntimeFields DEF SlotInv, HopState
<1>3. D \in SUBSET Nat /\ D # {}
  BY <1>1, <1>2
<1>4. \E n \in D : \A m \in D : n <= m
  <2> HIDE DEF D
  <2> QED BY <1>3, LeastNat
<1>5. \E n \in D : \A t \in ActiveTTLs(s) : n <= s.states[t].completed
  BY <1>4
<1>6. /\ ComputeIteration(s) \in D
      /\ \A t \in ActiveTTLs(s) : ComputeIteration(s) <= s.states[t].completed
  BY <1>1, <1>5 DEF ComputeIteration
<1> QED BY <1>6

\* Until a reset, the iteration shown to the user never goes back.
THEOREM IterationMonotone == Spec => IterationNeverDecreases
<1> DEFINE A == rt'.generation = rt.generation =>
                  ComputeIteration(rt') >= ComputeIteration(rt)
<1>1. IInv /\ IInv' /\ [Next]_vars => [A]_vars
  <2> SUFFICES ASSUME IInv, IInv', [Next]_vars, rt'.generation = rt.generation
               PROVE  ComputeIteration(rt') >= ComputeIteration(rt)
    OBVIOUS
  <2>1. Forward(rt, rt')
    BY QuietSteps, TickStep, ResultStep DEF SameCounts
  <2>2. SlotInv(rt) /\ FinalInv(rt) /\ SlotInv(rt') /\ FinalInv(rt')
    BY DEF IInv
  <2> DEFINE n == rt'
  <2>3. SlotInv(n) /\ FinalInv(n) /\ Forward(rt, n)
    BY <2>1, <2>2
  <2> HIDE DEF n
  <2>4. PICK t \in ActiveTTLs(n) : ComputeIteration(n) = n.states[t].completed
    BY <2>3, IterationIsLeast
  <2>5. t \in BeginHop .. EffectiveMax(n) /\ t \in TTLs
    BY <2>3, ActiveHops
  <2>6. EffectiveMax(n) <= EffectiveMax(rt) /\ EffectiveMax(n) \in TTLs /\ EffectiveMax(rt) \in TTLs
    BY <2>2, <2>3, ActiveHops DEF Forward
  <2>7. t \in BeginHop .. EffectiveMax(rt)
    BY <2>5, <2>6, SchedulerAssumption DEF TTLs
  <2>8. t \in ActiveTTLs(rt)
    BY <2>2, <2>7, ActiveHops
  <2>9. PICK u \in ActiveTTLs(rt) : ComputeIteration(rt) = rt.states[u].completed
    BY <2>2, IterationIsLeast
  <2>10. u \in TTLs
    BY <2>2, ActiveHops
  <2>11. \A v \in TTLs : rt.states[v].completed \in Nat /\ n.states[v].completed \in Nat
    BY <2>2, <2>3, RuntimeFields DEF SlotInv, HopState
  <2>12. ComputeIteration(rt) <= rt.states[t].completed
    BY <2>2, <2>8, IterationIsLeast
  <2>13. n.states[t].completed >= rt.states[t].completed
    BY <2>3, <2>5 DEF Forward
  <2>14. ComputeIteration(n) >= ComputeIteration(rt)
    BY <2>4, <2>5, <2>9, <2>10, <2>11, <2>12, <2>13
  <2> QED BY <2>14 DEF n
<1>2. Spec => [][A]_vars
  BY <1>1, Invariance, PTL DEF Spec
<1> QED BY <1>2 DEF IterationNeverDecreases
=============================================================================
