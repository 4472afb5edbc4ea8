---------------------------- MODULE MTRScheduler ----------------------------
(***************************************************************************)
(* The per-hop scheduler of the MTR mode (trace/mtr_scheduler_runtime.go). *)
(*                                                                         *)
(* One goroutine, the loop of run(), owns the record rt.  It launches      *)
(* probe goroutines, one per probe; each blocks in ProbeTTL and then sends *)
(* its outcome on the buffered channel resultCh.  The loop's select takes  *)
(* a result, a metadata result, a 5 ms tick or the cancelled context.  The *)
(* user may pause, ask for a statistics reset, or cancel at any moment.    *)
(*                                                                         *)
(* Abstractions.  Time: a hop's nextAt is the flag due, set when the hop   *)
(* interval has passed.  An outcome is drawn when it is processed: nobody  *)
(* looks at it earlier.  resultCh is a set: probes return in any order, so *)
(* the order of the channel is any order.  The lookups of the asynchronous *)
(* metadata are the flag metaBusy (some in-flight map is not empty); how   *)
(* they empty is the subject of module MTRMetadata.                        *)
(***************************************************************************)
EXTENDS Integers, FiniteSets

CONSTANTS
  BeginHop,        \* first TTL probed
  MaxHops,         \* last TTL probed
  Parallelism,     \* ParallelRequests: probes in flight over all hops
  MaxInFlightHop,  \* probes in flight at one hop
  MaxPerHop,       \* probe budget of a hop; 0 is unlimited
  MaxConsecErrs,   \* send errors in a row that count as one lost probe
  AsyncMetadata,   \* is metadata looked up in the background?
  MaxResets        \* bound of the model: resets the user asks for

\* What newMTRSchedulerRuntime guarantees after applying its defaults.
ASSUME SchedulerAssumption ==
  /\ BeginHop \in Nat \ {0}
  /\ MaxHops \in Nat
  /\ BeginHop <= MaxHops
  /\ Parallelism \in Nat \ {0}
  /\ MaxInFlightHop \in Nat \ {0}
  /\ MaxPerHop \in Nat
  /\ MaxConsecErrs \in Nat \ {0}
  /\ AsyncMetadata \in BOOLEAN
  /\ MaxResets \in Nat

TTLs == BeginHop .. MaxHops

\* Capacity of the result channel, make(chan mtrCompletedProbe, parallelism*2).
ResultCap == 2 * Parallelism

\* How ProbeTTL returns: an error, silence, a router, the destination.
Outcomes == {"error", "timeout", "router", "destination"}

VARIABLES
  rt,              \* the mtrSchedulerRuntime, see InitRuntime
  resultCh,        \* probes whose goroutine has sent its result
  phase,           \* control point of run()
  canceled,        \* ctx.Done() is closed
  paused,          \* IsPaused()
  resetRequested,  \* a reset request nobody has consumed yet
  resets           \* resets requested so far (bounded by MaxResets)

vars == <<rt, resultCh, phase, canceled, paused, resetRequested, resets>>

InitHopState ==
  [completed |-> 0, inFlightCount |-> 0, due |-> TRUE,
   disabled |-> FALSE, consecutiveErrs |-> 0]

InitRow == [sent |-> 0, dst |-> FALSE]

\* probes: the goroutines whose result the loop has not received yet;
\* agg: what the aggregator holds of a TTL, its Snt and whether one of its
\* rows is the destination's.
InitRuntime ==
  [states        |-> [t \in TTLs |-> InitHopState],
   generation    |-> 0,
   knownFinalTTL |-> -1,
   inFlight      |-> 0,
   probes        |-> {},
   agg           |-> [t \in TTLs |-> InitRow],
   metaBusy      |-> FALSE]

-----------------------------------------------------------------------------
(* Helpers of the runtime.                                                 *)

EffectiveMax(s) ==
  IF s.knownFinalTTL > 0 /\ s.knownFinalTTL < MaxHops
  THEN s.knownFinalTTL
  ELSE MaxHops

ActiveTTLs(s) == {t \in BeginHop .. EffectiveMax(s) : ~ s.states[t].disabled}

\* The iteration shown to the user: the least Snt over the active hops.
ComputeIteration(s) ==
  IF ActiveTTLs(s) = {}
  THEN 0
  ELSE CHOOSE n \in {s.states[t].completed : t \in ActiveTTLs(s)} :
         \A t \in ActiveTTLs(s) : n <= s.states[t].completed

BudgetReached(s, t) ==
  MaxPerHop > 0 /\ s.states[t].completed >= MaxPerHop

\* Mutant: does not wait for the probes in flight.
IsDone_NoWait(s) ==
  /\ MaxPerHop > 0
  /\ \A t \in ActiveTTLs(s) : s.states[t].completed >= MaxPerHop
  /\ ~ s.metaBusy

IsDone(s) ==
  /\ MaxPerHop > 0
  /\ \A t \in ActiveTTLs(s) :
       s.states[t].completed >= MaxPerHop /\ s.states[t].inFlightCount = 0
  /\ s.inFlight = 0
  /\ ~ s.metaBusy

-----------------------------------------------------------------------------
(* Launching probes.                                                       *)

\* A goroutine of the current generation; id only tells apart the probes
\* that are in flight together at one hop.
NewProbe(s, t) ==
  [ttl |-> t, gen |-> s.generation,
   id  |-> CHOOSE i \in 1 .. (Cardinality(s.probes) + 1) :
             [ttl |-> t, gen |-> s.generation, id |-> i] \notin s.probes]

\* Mutant: the budget ignores the probes in flight.
CanLaunchProbe_CompletedOnly(s, t) ==
  /\ ~ s.states[t].disabled
  /\ s.states[t].inFlightCount < MaxInFlightHop
  /\ MaxPerHop > 0 => s.states[t].completed < MaxPerHop
  /\ s.states[t].due

CanLaunchProbe(s, t) ==
  /\ ~ s.states[t].disabled
  /\ s.states[t].inFlightCount < MaxInFlightHop
  /\ MaxPerHop > 0 =>
       s.states[t].completed + s.states[t].inFlightCount < MaxPerHop
  /\ s.states[t].due

\* Mutant: every hop that may be probed is, whatever is in flight.
LaunchSet_NoLimit(s) == {t \in BeginHop .. EffectiveMax(s) : CanLaunchProbe(s, t)}

\* The loop walks the hops upwards and stops once Parallelism probes are in
\* flight, so the lowest launchable hops win.
LaunchSet(s) ==
  LET launchable == {t \in BeginHop .. EffectiveMax(s) : CanLaunchProbe(s, t)}
  IN  {t \in launchable :
         Cardinality({u \in launchable : u < t}) < Parallelism - s.inFlight}

LaunchProbes(s, S) ==
  [s EXCEPT
     !.states = [t \in TTLs |->
        IF t \in S
        THEN [s.states[t] EXCEPT !.inFlightCount = @ + 1, !.due = FALSE]
        ELSE s.states[t]],
     !.inFlight = @ + Cardinality(S),
     !.probes   = @ \cup {NewProbe(s, t) : t \in S}]

ScheduleReady(s) == IF paused THEN s ELSE LaunchProbes(s, LaunchSet(s))

-----------------------------------------------------------------------------
(* Processing a result.                                                    *)

\* agg.Update with one probe of hop t.
Count(s, t, isDst) ==
  [s EXCEPT !.states[t].completed = @ + 1,
            !.states[t].consecutiveErrs = 0,
            !.agg[t] = [sent |-> @.sent + 1, dst |-> @.dst \/ isDst]]

ClearHop(agg, t) == [agg EXCEPT ![t] = InitRow]

DisableHigherTTLs(states, t) ==
  [u \in TTLs |-> [states[u] EXCEPT !.disabled = @ \/ u > t]]

\* Mutant: the row of the old final TTL is kept.
DetectDestination_KeepOld(s, t) ==
  IF s.knownFinalTTL < 0 \/ t < s.knownFinalTTL
  THEN [s EXCEPT !.knownFinalTTL = t,
                 !.states = DisableHigherTTLs(@, t)]
  ELSE s

\* The first answer of the destination fixes the final TTL; an answer from a
\* nearer hop lowers it and erases what was recorded at the old one.
DetectDestination(s, t) ==
  IF s.knownFinalTTL < 0
  THEN [s EXCEPT !.knownFinalTTL = t,
                 !.states = DisableHigherTTLs(@, t)]
  ELSE IF t < s.knownFinalTTL
  THEN [s EXCEPT !.knownFinalTTL = t,
                 !.states = DisableHigherTTLs(@, t),
                 !.agg = ClearHop(@, s.knownFinalTTL)]
  ELSE s

\* Mutant: a hop whose sends keep failing is retried for ever.
ProcessProbeError_RetryForever(s, t) ==
  IF canceled \/ s.states[t].consecutiveErrs >= MaxConsecErrs
  THEN s
  ELSE [s EXCEPT !.states[t].consecutiveErrs = @ + 1]

ProcessProbeError(s, t) ==
  IF canceled
  THEN s
  ELSE IF s.states[t].consecutiveErrs + 1 < MaxConsecErrs
  THEN [s EXCEPT !.states[t].consecutiveErrs = @ + 1]
  ELSE Count(s, t, FALSE)

\* busy: did this answer start a metadata lookup?
ProcessProbeSuccess(s, t, outcome, busy) ==
  LET isDst == outcome = "destination"
      d     == IF isDst THEN DetectDestination(s, t) ELSE s
  IN  IF BudgetReached(d, t)
      THEN [d EXCEPT !.states[t].consecutiveErrs = 0]
      ELSE [Count(d, t, isDst) EXCEPT !.metaBusy = @ \/ busy]

\* Mutant: the generation of a result is not looked at.
ProcessResult_AnyGeneration(s, p, outcome, busy) ==
  LET freed == [s EXCEPT !.inFlight = @ - 1, !.probes = @ \ {p},
                         !.states[p.ttl].inFlightCount = @ - 1]
  IN  IF s.states[p.ttl].disabled
      THEN freed
      ELSE IF outcome = "error"
      THEN ProcessProbeError(freed, p.ttl)
      ELSE ProcessProbeSuccess(freed, p.ttl, outcome, busy)

\* A result of an older generation only gives its slot back.
ProcessResult(s, p, outcome, busy) ==
  LET received == [s EXCEPT !.inFlight = @ - 1, !.probes = @ \ {p}]
      freed    == [received EXCEPT !.states[p.ttl].inFlightCount = @ - 1]
  IN  IF p.gen # s.generation
      THEN received
      ELSE IF s.states[p.ttl].disabled
      THEN freed
      ELSE IF outcome = "error"
      THEN ProcessProbeError(freed, p.ttl)
      ELSE ProcessProbeSuccess(freed, p.ttl, outcome, busy)

\* The probes in flight stay in flight: their results are yet to come.
Reset(s) ==
  [InitRuntime EXCEPT !.generation = s.generation + 1,
                      !.inFlight   = s.inFlight,
                      !.probes     = s.probes]

HandleReset(s) == IF resetRequested THEN Reset(s) ELSE s

-----------------------------------------------------------------------------
(* The loop.                                                               *)

Init ==
  /\ rt = LaunchProbes(InitRuntime, LaunchSet(InitRuntime))
  /\ resultCh = {}
  /\ phase = "running"
  /\ canceled = FALSE
  /\ paused = FALSE
  /\ resetRequested = FALSE
  /\ resets = 0

\* case cp := <-rt.resultCh
OnResult(p, outcome, busy) ==
  LET s == ProcessResult(rt, p, outcome, busy)
  IN  /\ phase = "running"
      /\ p \in resultCh
      /\ busy => AsyncMetadata /\ outcome \in {"router", "destination"}
      /\ resultCh' = resultCh \ {p}
      /\ rt' = IF IsDone(s) THEN s ELSE ScheduleReady(s)
      /\ phase' = IF IsDone(s) THEN "finished" ELSE "running"
      /\ UNCHANGED <<canceled, paused, resetRequested, resets>>

\* case mr := <-rt.metadataCh, when it empties the in-flight maps
OnMetadata ==
  LET s == [rt EXCEPT !.metaBusy = FALSE]
  IN  /\ phase = "running"
      /\ rt.metaBusy
      /\ rt' = s
      /\ phase' = IF IsDone(s) THEN "finished" ELSE "running"
      /\ UNCHANGED <<resultCh, canceled, paused, resetRequested, resets>>

\* case <-tick.C
OnTick ==
  LET s == ScheduleReady(HandleReset(rt))
  IN  /\ phase = "running"
      /\ rt' = s
      /\ resetRequested' = FALSE
      /\ phase' = IF IsDone(s) THEN "finished" ELSE "running"
      /\ UNCHANGED <<resultCh, canceled, paused, resets>>

\* case <-rt.ctx.Done(): start of handleCancel
OnCancel ==
  /\ phase = "running"
  /\ canceled
  /\ phase' = "draining"
  /\ UNCHANGED <<rt, resultCh, canceled, paused, resetRequested, resets>>

\* drainInFlight throws the results away; it stops at its five second
\* deadline or when nothing is in flight.
DrainResult(p) ==
  /\ phase = "draining"
  /\ rt.inFlight > 0
  /\ p \in resultCh
  /\ resultCh' = resultCh \ {p}
  /\ rt' = [rt EXCEPT !.inFlight = @ - 1, !.probes = @ \ {p}]
  /\ UNCHANGED <<phase, canceled, paused, resetRequested, resets>>

\* The deadline is a timer: it may fire with results still to come.
DrainEnd ==
  /\ phase = "draining"
  /\ phase' = "canceled"
  /\ UNCHANGED <<rt, resultCh, canceled, paused, resetRequested, resets>>

-----------------------------------------------------------------------------
(* The probe goroutines, the clock and the user.                           *)

\* rt.resultCh <- cp; it blocks while the buffer is full, and it may come
\* after run() has returned.
SendResult(p) ==
  /\ p \in rt.probes \ resultCh
  /\ Cardinality(resultCh) < ResultCap
  /\ resultCh' = resultCh \cup {p}
  /\ UNCHANGED <<rt, phase, canceled, paused, resetRequested, resets>>

HopIntervalPasses(t) ==
  /\ phase = "running"
  /\ ~ rt.states[t].due
  /\ rt' = [rt EXCEPT !.states[t].due = TRUE]
  /\ UNCHANGED <<resultCh, phase, canceled, paused, resetRequested, resets>>

TogglePause ==
  /\ phase = "running"
  /\ paused' = ~ paused
  /\ UNCHANGED <<rt, resultCh, phase, canceled, resetRequested, resets>>

RequestReset ==
  /\ phase = "running"
  /\ resets < MaxResets
  /\ resetRequested' = TRUE
  /\ resets' = resets + 1
  /\ UNCHANGED <<rt, resultCh, phase, canceled, paused>>

Cancel ==
  /\ phase = "running"
  /\ ~ canceled
  /\ canceled' = TRUE
  /\ UNCHANGED <<rt, resultCh, phase, paused, resetRequested, resets>>

Next ==
  \/ \E p \in resultCh, outcome \in Outcomes, busy \in BOOLEAN :
       OnResult(p, outcome, busy)
  \/ OnMetadata
  \/ OnTick
  \/ OnCancel
  \/ \E p \in resultCh : DrainResult(p)
  \/ DrainEnd
  \/ \E p \in rt.probes : SendResult(p)
  \/ \E t \in TTLs : HopIntervalPasses(t)
  \/ TogglePause
  \/ RequestReset
  \/ Cancel

Spec == Init /\ [][Next]_vars

(***************************************************************************)
(* Go's select picks among the ready cases at random, the ticker fires     *)
(* forever, ProbeTTL returns by its timeout, and the metadata lookups run  *)
(* under a deadline.  Pausing, resetting and cancelling are the user's     *)
(* choice and get no fairness.                                             *)
(***************************************************************************)
Fairness ==
  /\ WF_vars(\E p \in resultCh, outcome \in Outcomes, busy \in BOOLEAN :
               OnResult(p, outcome, busy))
  /\ WF_vars(OnMetadata)
  /\ WF_vars(OnTick)
  /\ WF_vars(OnCancel)
  /\ WF_vars(\E p \in resultCh : DrainResult(p))
  /\ WF_vars(DrainEnd)
  /\ WF_vars(\E p \in rt.probes : SendResult(p))
  /\ \A t \in TTLs : WF_vars(HopIntervalPasses(t))

FairSpec == Spec /\ Fairness
-----------------------------------------------------------------------------
(* Properties.                                                             *)

Probe == [ttl : TTLs, gen : Nat, id : Nat \ {0}]

HopState ==
  [completed : Nat, inFlightCount : Nat, due : BOOLEAN,
   disabled : BOOLEAN, consecutiveErrs : Nat]

Runtime ==
  [states        : [TTLs -> HopState],
   generation    : Nat,
   knownFinalTTL : TTLs \cup {-1},
   inFlight      : Nat,
   probes        : SUBSET Probe,
   agg           : [TTLs -> [sent : Nat, dst : BOOLEAN]],
   metaBusy      : BOOLEAN]

\* Every field keeps its type: no in-flight counter of processResult or
\* drainInFlight is ever decremented below zero, and knownFinalTTL is -1 or a
\* probed TTL.
TypeOK ==
  /\ rt \in Runtime
  /\ resultCh \in SUBSET Probe
  /\ phase \in {"running", "draining", "finished", "canceled"}
  /\ canceled \in BOOLEAN
  /\ paused \in BOOLEAN
  /\ resetRequested \in BOOLEAN
  /\ resets \in 0 .. MaxResets

\* The probes of hop t that belong to the current generation.
CurrentProbes(s, t) == {p \in s.probes : p.ttl = t /\ p.gen = s.generation}

\* rt.inFlight counts the goroutines whose result has not been received, the
\* ones launched before a reset included, and ParallelRequests bounds them:
\* resetting while probes are out never lets more than that many sockets
\* probe at once.
ParallelismRespected ==
  /\ rt.inFlight = Cardinality(rt.probes)
  /\ Cardinality(rt.probes) <= Parallelism

\* inFlightCount of a hop is the number of its goroutines of the current
\* generation while the loop runs, whatever order results, resets and
\* destination detection come in (processResult returns early in four ways).
HopAccounting ==
  phase \in {"running", "finished"} =>
    \A t \in TTLs :
      rt.states[t].inFlightCount = Cardinality(CurrentProbes(rt, t))

\* MaxPerHop bounds what is counted at a hop even with several probes of it
\* in flight; the branch of processProbeError that counts a lost probe does
\* not look at the budget and relies on canLaunchProbe for it.
BudgetRespected ==
  MaxPerHop > 0 =>
    \A t \in TTLs :
      /\ rt.states[t].completed + rt.states[t].inFlightCount <= MaxPerHop
      /\ rt.agg[t].sent <= MaxPerHop

\* The send on resultCh in launchProbe's goroutine has no select: it never
\* has to wait for the loop, which may have returned already.
NoSenderBlocks ==
  rt.probes \ resultCh # {} => Cardinality(resultCh) < ResultCap

\* A destination row is shown at the final TTL only: lowering knownFinalTTL
\* leaves no ghost row of the destination above it (agg.ClearHop).
NoGhostDestination ==
  \A t \in TTLs : rt.agg[t].dst => t = rt.knownFinalTTL

\* For every hop up to the final one, the Snt the user sees is the number of
\* probes the scheduler counted: stale results, discarded results and
\* cleared rows never make the two differ.
StatsMatchSchedule ==
  \A t \in BeginHop .. EffectiveMax(rt) :
    rt.agg[t].sent = rt.states[t].completed

\* The books of the scheduler agree with the goroutines that run, with the budget and
\* with the table, in every order of results, resets and destination detection, and no
\* goroutine is left waiting to send when the loop has returned.
ScheduleSound == HopAccounting /\ BudgetRespected /\ StatsMatchSchedule /\ NoSenderBlocks

\* When run() returns by itself, every hop up to the final one has exactly
\* its budget in the statistics and no goroutine is left behind.
CompleteWhenFinished ==
  phase = "finished" =>
    /\ rt.probes = {}
    /\ \A t \in BeginHop .. EffectiveMax(rt) : rt.agg[t].sent = MaxPerHop

\* Only a result of the current generation is counted: what was launched
\* before a reset never reaches the statistics collected after it.
StaleResultsNotCounted ==
  [][\A t \in TTLs :
       rt'.states[t].completed > rt.states[t].completed =>
         \E p \in resultCh \ resultCh' : p.ttl = t /\ p.gen = rt.generation]_vars

\* A late answer from beyond the final TTL is dropped: no step counts a probe
\* above the final TTL known after it.
NothingCountedBeyondFinal ==
  [][\A t \in TTLs :
       rt'.states[t].completed > rt.states[t].completed =>
         t <= EffectiveMax(rt')]_vars

\* Until the user resets, the iteration shown never goes back, although the
\* set of hops it ranges over shrinks when the final TTL is lowered.
IterationNeverDecreases ==
  [][rt'.generation = rt.generation =>
       ComputeIteration(rt') >= ComputeIteration(rt)]_vars

\* With a probe budget, a run that is not paused for ever comes to an end:
\* errors, losses, resets and a moving final TTL cannot keep it alive.
RunEnds ==
  MaxPerHop > 0 =>
    (<>[](~ paused) => <>(phase \in {"finished", "canceled"}))

=============================================================================
