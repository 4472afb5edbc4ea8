----------------------------- MODULE MTRRounds -----------------------------
(***************************************************************************)
(* MTR by rounds: RunMTR and RunMTRRaw without a hop interval              *)
(* (trace/mtr_loop_runtime.go, trace/mtr_raw.go and the round operations   *)
(* of the ICMP engine in trace/mtr_runner.go).                             *)
(*                                                                         *)
(* Three actors: the loop; the goroutine that runs one round; and the      *)
(* listener, which hands every reply to onICMP.  onICMP leaves e.mu before *)
(* it lowers roundFinalTTL, so that is a step of its own.  A probe is its  *)
(* number on the wire; the round and TTL beside it are history.  The       *)
(* statistics are the results of the rounds they are made of               *)
(* (MTRAggregator says what it makes of them).                             *)
(***************************************************************************)
EXTENDS Naturals, Sequences, FiniteSets

CONSTANTS
  Modes,        \* which runs: subset of {"icmp", "fallback", "raw"}
  MaxHops,      \* config.MaxHops
  Dists,        \* TTLs from which the destination may answer (paths may differ)
  MaxSeqs,      \* values for 0xFFFF
  MaxConsec,    \* mtrBackoffCfg.MaxConsec
  MaxBackoff,   \* mtrBackoffCfg.Max, the first backoff being 1
  RoundLimits,  \* values of opts.MaxRounds (0: no limit)
  RoundCap,     \* bound of the model: rounds started
  ResetCap      \* bound of the model: resets asked for

ASSUME RoundsAssumption ==
  /\ {MaxHops, MaxConsec, MaxBackoff, RoundCap, ResetCap} \subseteq Nat
  /\ MaxHops > 0 /\ MaxConsec > 0 /\ MaxBackoff > 0
  /\ Dists \subseteq Nat \ {0} /\ RoundLimits \subseteq Nat /\ MaxSeqs \subseteq Nat

VARIABLES
  mode, limit,
  ui,       \* [paused, reset, resets, cancelled]: what the user asked for
  loop,     \* [pc, iter, errs, backoff, res]
  eng,      \* the engine: [round, rf, known, gen, seq, open, ttl, max, lim] and, as history,
            \* stale: rf is of an answer taken in an earlier round
  maps,     \* under e.mu: [sentAt, replied, cur]
  notify,   \* notifyCh holds a signal
  cand,     \* onICMP calls between their unlock and updateRoundFinalTTL: [gen, round, ttl]
  raw,      \* raw mode: [flying, failed, hops, seen, out] of the round
  net,      \* probes that may still be answered
  agg,      \* results counted since the last reset
  shown,    \* iteration of the last snapshot
  reused    \* history: a rotation has drawn an identifier used before

rdVars == <<mode, limit, ui, loop, eng, maps, notify, cand, raw, net, agg, shown, reused>>
engVars == <<eng, maps, notify, net, reused>>

Silent == "silent"
NoMaps == [sentAt |-> << >>, replied |-> << >>, cur |-> << >>]
NoRaw == [flying |-> FALSE, failed |-> FALSE, hops |-> 0, seen |-> 0, out |-> 0]
Dst == "dst"
Router == "router"

RdInit ==
  /\ mode \in Modes /\ limit \in RoundLimits
  /\ ui = [paused |-> FALSE, reset |-> FALSE, resets |-> 0, cancelled |-> FALSE]
  /\ loop = [pc |-> "start", iter |-> 0, errs |-> 0, backoff |-> 1, res |-> << >>]
  /\ \E lim \in MaxSeqs : eng = [round |-> 0, rf |-> 0, known |-> 0, gen |-> 0, seq |-> 0,
                               open |-> FALSE, ttl |-> 0, max |-> 0, lim |-> lim, stale |-> FALSE]
  /\ maps = NoMaps /\ notify = FALSE /\ cand = {} /\ raw = NoRaw /\ net = {}
  /\ agg = << >> /\ shown = 0 /\ reused = FALSE

Goto(pc) == loop' = [loop EXCEPT !.pc = pc]
Over == loop.pc = "over"

\* The last step of the run: close of the prober.
EndRun(l) == loop' = [l EXCEPT !.pc = "over", !.res = << >>] /\ eng' = [eng EXCEPT !.open = FALSE]
emitSnapshot == shown' = loop.iter
\* snapshotContextError
EndCancelled ==
  /\ ui.cancelled /\ emitSnapshot /\ EndRun(loop)
  /\ UNCHANGED <<mode, limit, ui, maps, notify, cand, raw, net, agg, reused>>

\* runMTRRoundBased and newMTRLoopRuntime: the engine starts its listener, which
\* may fail or be cancelled; raw mode starts nothing.
Start ==
  /\ loop.pc = "start"
  /\ \/ ~ ui.cancelled /\ Goto("top") /\ eng' = [eng EXCEPT !.open = (mode = "icmp")]
     \/ mode = "icmp" /\ EndRun(loop)
     \/ mode # "icmp" /\ ui.cancelled /\ Goto("top") /\ UNCHANGED eng
  /\ UNCHANGED <<mode, limit, ui, maps, notify, cand, raw, net, agg, shown, reused>>

(***************************************************************************)
(* The loop                                                                *)
(***************************************************************************)
\* run up to waitWhilePaused; handleReset consumes the request.
LoopTop ==
  /\ loop.pc = "top" /\ mode # "raw" /\ ~ ui.cancelled
  /\ IF ui.reset
     THEN /\ agg' = << >> /\ ui' = [ui EXCEPT !.reset = FALSE]
          /\ loop' = [loop EXCEPT !.pc = "paused", !.iter = 0, !.errs = 0, !.backoff = 1]
          /\ eng' = [eng EXCEPT !.known = 0]
     ELSE Goto("paused") /\ UNCHANGED <<agg, ui, eng>>
  /\ UNCHANGED <<mode, limit, maps, notify, cand, raw, net, shown, reused>>

LoopCancelled == loop.pc \in {"top", "paused", "backoff", "interval"} /\ mode # "raw"
                 /\ (loop.pc = "paused" => ui.paused) /\ EndCancelled

Limited == eng.round < RoundCap \/ ui.cancelled

\* seqWillWrap
Wraps == eng.seq + MaxHops > eng.lim

\* Mutant: a round starts with the final TTL of the last one.
prepareProbeRound_KeepsFinal(e) ==
  /\ eng' = [e EXCEPT !.round = @ + 1, !.ttl = 1, !.stale = FALSE,
                      !.max = IF e.known > 0 /\ e.known < MaxHops THEN e.known ELSE MaxHops]
  /\ maps' = NoMaps /\ notify' = FALSE

\* Mutant: a round starts with the maps of the last one.
prepareProbeRound_KeepsMaps(e) ==
  /\ eng' = [e EXCEPT !.round = @ + 1, !.rf = 0, !.stale = FALSE, !.ttl = 1,
                      !.max = IF e.known > 0 /\ e.known < MaxHops THEN e.known ELSE MaxHops]
  /\ UNCHANGED maps /\ notify' = FALSE

\* prepareProbeRound once the engine is fit: the maps are new, an old signal is gone
\* and a known destination shortens the sweep.
prepareProbeRound(e) ==
  /\ eng' = [e EXCEPT !.round = @ + 1, !.rf = 0, !.stale = FALSE, !.ttl = 1,
                      !.max = IF e.known > 0 /\ e.known < MaxHops THEN e.known ELSE MaxHops]
  /\ maps' = NoMaps /\ notify' = FALSE

\* The start of a round.  Before the number would wrap the engine is rotated: the new
\* listener takes only the new identifier, which may be the old one again (one draw in
\* 256); if it does not come up, the engine is left without a socket.
BeginRound ==
  /\ loop.pc = "paused" /\ ~ ui.paused /\ mode = "icmp" /\ Limited
  /\ \/ ~ Wraps /\ prepareProbeRound(eng) /\ Goto("sweep") /\ UNCHANGED <<net, reused>>
     \/ /\ Wraps
        /\ prepareProbeRound([eng EXCEPT !.gen = @ + 1, !.seq = 0])
        /\ \E same \in BOOLEAN :
             /\ net' = IF same THEN net ELSE {}
             /\ reused' = (reused \/ (same /\ net # {}))
        /\ Goto("sweep")
     \/ /\ Wraps /\ Goto("error")
        /\ eng' = [eng EXCEPT !.round = @ + 1, !.rf = 0, !.stale = FALSE, !.seq = 0, !.open = FALSE]
        /\ maps' = NoMaps /\ notify' = FALSE /\ net' = {} /\ UNCHANGED reused
  /\ UNCHANGED <<mode, limit, ui, cand, raw, agg, shown>>

\* Mutant: the preview goes into the statistics themselves.
emitPreview_NoClone ==
  /\ loop.pc \in {"sweep", "wait", "build"} /\ mode = "icmp" /\ Len(agg) < RoundCap
  /\ agg' = Append(agg, [round |-> eng.round, rows |-> << >>])
  /\ shown' = loop.iter + 1
  /\ UNCHANGED <<mode, limit, ui, loop, engVars, cand, raw>>

\* emitPreview: the round so far, on a clone of the statistics.
emitPreview ==
  /\ loop.pc \in {"sweep", "wait", "build"} /\ mode = "icmp"
  /\ shown' = loop.iter + 1
  /\ UNCHANGED <<mode, limit, ui, loop, engVars, cand, raw, agg>>

(***************************************************************************)
(* One round of the ICMP engine                                            *)
(***************************************************************************)
\* f[x] = y on a map of the engine.
Put(f, x, y) == [z \in DOMAIN f \cup {x} |-> IF z = x THEN y ELSE f[z]]

\* sendProbeForTTL: registered before it is sent.  The engine without a socket ends
\* the process.
SendProbe ==
  /\ loop.pc = "sweep" /\ eng.ttl <= eng.max /\ ~ ui.cancelled
  /\ IF ~ eng.open THEN EndRun(loop) /\ UNCHANGED <<maps, net>> ELSE
     LET seq == eng.seq + 1 IN
     /\ eng' = [eng EXCEPT !.seq = seq, !.ttl = @ + 1]
     /\ \/ /\ maps' = [maps EXCEPT !.sentAt = Put(@, seq, [ttl |-> eng.ttl, round |-> eng.round]),
                                   !.cur = Put(@, eng.ttl, seq)]
           /\ net' = net \cup {[seq |-> seq, ttl |-> eng.ttl, round |-> eng.round]}
        \/ UNCHANGED <<maps, net>>          \* the send failed and was rolled back
     /\ UNCHANGED loop
  /\ UNCHANGED <<mode, limit, ui, notify, cand, raw, agg, shown, reused>>

SweepDone ==
  /\ loop.pc = "sweep"
  /\ Goto(IF ui.cancelled THEN "error" ELSE "wait") /\ (ui.cancelled \/ eng.ttl > eng.max)
  /\ UNCHANGED <<mode, limit, ui, engVars, cand, raw, agg, shown>>

\* waitForProbeReplies: nothing is out, the deadline passes, the run is cancelled, or a
\* signal makes it look again.  The deadline may come at any time.
WaitReplies ==
  /\ loop.pc = "wait"
  /\ \/ Goto("build") /\ UNCHANGED notify
     \/ notify /\ DOMAIN maps.sentAt # {} /\ notify' = FALSE /\ UNCHANGED loop
  /\ UNCHANGED <<mode, limit, ui, eng, maps, cand, raw, net, agg, shown, reused>>

\* probeRoundHop
RowOf(ttl) == IF ttl \in DOMAIN maps.cur /\ maps.cur[ttl] \in DOMAIN maps.replied
              THEN maps.replied[maps.cur[ttl]] ELSE [peer |-> Silent, round |-> eng.round, ttl |-> ttl]

\* finalizeProbeRound and buildProbeRoundResult
BuildRound ==
  /\ loop.pc = "build"
  /\ LET last == IF eng.rf > 0 /\ eng.rf < eng.max THEN eng.rf ELSE eng.max IN
     loop' = [loop EXCEPT !.pc = "built", !.res = [t \in 1 .. last |-> RowOf(t)]]
  /\ eng' = [eng EXCEPT !.known = IF eng.rf > 0 /\ (@ = 0 \/ eng.rf < @) THEN eng.rf ELSE @]
  /\ UNCHANGED <<mode, limit, ui, maps, notify, cand, raw, net, agg, shown, reused>>

\* mtrFallbackProber: one traceroute, which gives a result or an error.
FallbackRound ==
  /\ loop.pc = "paused" /\ ~ ui.paused /\ mode = "fallback" /\ Limited
  /\ eng' = [eng EXCEPT !.round = @ + 1]
  /\ \/ Goto("error")
     \/ loop' = [loop EXCEPT !.pc = "built",
                   !.res = [t \in 1 .. 1 |-> [peer |-> Dst, round |-> eng.round + 1, ttl |-> 1]]]
  /\ UNCHANGED <<mode, limit, ui, maps, notify, cand, raw, net, agg, shown, reused>>

\* runProbeRoundWithPreview: when the run is cancelled meanwhile the result may be dropped.
DropResult ==
  /\ loop.pc = "built" /\ ui.cancelled /\ mode = "icmp" /\ Goto("error")
  /\ UNCHANGED <<mode, limit, ui, engVars, cand, raw, agg, shown>>

recordSuccess ==
  /\ loop.pc = "built"
  /\ LET l == [loop EXCEPT !.iter = @ + 1, !.errs = 0, !.backoff = 1] IN
     /\ agg' = Append(agg, [round |-> eng.round, rows |-> loop.res])
     /\ shown' = l.iter
     /\ IF limit > 0 /\ l.iter >= limit THEN EndRun(l)
        ELSE loop' = [l EXCEPT !.pc = "interval", !.res = << >>] /\ UNCHANGED eng
  /\ UNCHANGED <<mode, limit, ui, maps, notify, cand, raw, net, reused>>

handleProbeError ==
  /\ loop.pc = "error"
  /\ IF ui.cancelled THEN EndCancelled
     ELSE /\ LET l == [loop EXCEPT !.errs = @ + 1] IN
             IF l.errs >= MaxConsec THEN EndRun(l)
             ELSE loop' = [l EXCEPT !.pc = "backoff"] /\ UNCHANGED eng
          /\ UNCHANGED <<mode, limit, ui, maps, notify, cand, raw, net, agg, shown, reused>>

\* waitBackoff and waitInterval; the backoff doubles up to its maximum.
WaitOver ==
  /\ loop.pc \in {"backoff", "interval"} /\ mode # "raw"
  /\ loop' = [loop EXCEPT !.pc = "top",
                !.backoff = IF loop.pc = "interval" THEN @ ELSE IF 2 * @ > MaxBackoff THEN MaxBackoff ELSE 2 * @]
  /\ UNCHANGED <<mode, limit, ui, engVars, cand, raw, agg, shown>>

(***************************************************************************)
(* The listener                                                            *)
(***************************************************************************)
Drop(seq) == [maps EXCEPT !.sentAt = [q \in DOMAIN @ \ {seq} |-> @[q]]]

\* detectRoundFinalTTLCandidate
FinalTTLCandidate(peer, ttl) == IF peer = Dst THEN ttl ELSE 0

\* onICMP under e.mu: only a probe that is still registered counts, in its round
\* and within the timeout.
onICMP(p) ==
  /\ eng.open /\ \A c \in cand : c.gen # eng.gen
  /\ net' = net \ {p}
  /\ \E d \in Dists, inTime \in BOOLEAN :
       LET peer == IF p.ttl >= d THEN Dst ELSE Router
           meta == maps.sentAt[p.seq]
       IN IF p.seq \notin DOMAIN maps.sentAt THEN UNCHANGED <<maps, cand>>
          ELSE IF meta.round # eng.round \/ ~ inTime
          THEN maps' = Drop(p.seq) /\ UNCHANGED cand
          ELSE /\ maps' = [Drop(p.seq) EXCEPT
                     !.replied = Put(@, p.seq, [peer |-> peer, round |-> p.round, ttl |-> p.ttl])]
               /\ cand' = cand \cup {[gen |-> eng.gen, round |-> eng.round,
                                        ttl |-> FinalTTLCandidate(peer, meta.ttl)]}
  /\ UNCHANGED <<mode, limit, ui, loop, eng, notify, raw, agg, shown, reused>>

\* updateRoundFinalTTL and signalReplyReady, outside the lock: a round may have begun
\* since the answer was taken.
updateRoundFinalTTL(c) ==
  /\ eng' = IF c.ttl > 0 /\ (eng.rf = 0 \/ c.ttl < eng.rf)
            THEN [eng EXCEPT !.rf = c.ttl, !.stale = c.round # eng.round]
            ELSE eng
  /\ notify' = TRUE /\ cand' = cand \ {c}
  /\ UNCHANGED <<mode, limit, ui, loop, maps, raw, net, agg, shown, reused>>

(***************************************************************************)
(* runMTRRawRoundBased                                                     *)
(***************************************************************************)
RawTop ==
  /\ mode = "raw" /\ loop.pc = "top" /\ Limited
  /\ IF ui.cancelled THEN Goto("over") /\ UNCHANGED <<raw, eng>>
     ELSE /\ loop' = [loop EXCEPT !.pc = "tracing", !.iter = @ + 1]
          /\ raw' = [NoRaw EXCEPT !.flying = TRUE]
          /\ eng' = [eng EXCEPT !.round = @ + 1]
  /\ UNCHANGED <<mode, limit, ui, maps, notify, cand, net, agg, shown, reused>>

\* The round's tracer records a hop of a TTL, and tells the printer now and then:
\* the printer writes what it has not seen, unless the run is cancelled.
RawHop ==
  /\ raw.flying /\ raw.hops < MaxHops /\ raw' = [raw EXCEPT !.hops = @ + 1]
  /\ UNCHANGED <<mode, limit, ui, loop, engVars, cand, agg, shown>>
RawPrint ==
  /\ raw.flying /\ ~ ui.cancelled /\ raw.seen < raw.hops
  /\ raw' = [raw EXCEPT !.seen = raw.hops, !.out = @ + (raw.hops - raw.seen)]
  /\ UNCHANGED <<mode, limit, ui, loop, engVars, cand, agg, shown>>
RawTraced ==
  /\ raw.flying /\ \E f \in BOOLEAN : raw' = [raw EXCEPT !.flying = FALSE, !.failed = f]
  /\ UNCHANGED <<mode, limit, ui, loop, engVars, cand, agg, shown>>

\* Cancelled or not, the loop goes on when the round is over.
RawReturns ==
  /\ loop.pc = "tracing" /\ ~ raw.flying
  /\ Goto(IF ui.cancelled \/ raw.failed \/ (limit > 0 /\ loop.iter >= limit) THEN "over" ELSE "interval")
  /\ UNCHANGED <<mode, limit, ui, engVars, cand, raw, agg, shown>>
RawInterval ==
  /\ mode = "raw" /\ loop.pc = "interval" /\ Goto(IF ui.cancelled THEN "over" ELSE "top")
  /\ UNCHANGED <<mode, limit, ui, engVars, cand, raw, agg, shown>>

(***************************************************************************)
(* The user                                                                *)
(***************************************************************************)
\* Pausing and resetting only matter where the loop looks at them.
Ask ==
  /\ ~ Over
  /\ \/ ui' = [ui EXCEPT !.paused = ~ @] /\ mode # "raw" /\ loop.pc = "paused"
     \/ loop.pc = "top" /\ ~ ui.reset /\ ui.resets < ResetCap /\ ui' = [ui EXCEPT !.reset = TRUE, !.resets = @ + 1]
     \/ ~ ui.cancelled /\ ui' = [ui EXCEPT !.cancelled = TRUE]
  /\ UNCHANGED <<mode, limit, loop, engVars, cand, raw, agg, shown>>

LoopStep ==
  \/ Start \/ LoopTop \/ LoopCancelled \/ BeginRound \/ SendProbe \/ SweepDone \/ WaitReplies
  \/ BuildRound \/ FallbackRound \/ DropResult \/ recordSuccess \/ handleProbeError \/ WaitOver
RawStep == RawTop \/ RawReturns \/ RawInterval \/ RawTraced

RdNext ==
  \/ LoopStep \/ RawStep \/ RawHop \/ RawPrint \/ emitPreview \/ Ask
  \/ \E p \in net : onICMP(p)
  \/ \E c \in cand : updateRoundFinalTTL(c)

\* The loop's goroutine runs, its timers fire, and a traceroute ends.  Nothing is
\* promised about replies or the user.
RdSpec == RdInit /\ [][RdNext]_rdVars /\ WF_rdVars(LoopStep) /\ WF_rdVars(RawStep)

(***************************************************************************)
(* Properties                                                              *)
(***************************************************************************)
\* A row of a counted round is the answer to that round's probe of that TTL, however
\* late answers are and although numbers are used again after a rotation
\* (prepareProbeRound, onICMP, probeRoundHop), as long as the identifiers differ.
RowsOfTheirRound ==
  ~ reused => \A i \in DOMAIN agg : \A t \in DOMAIN agg[i].rows :
    agg[i].rows[t].ttl = t /\ agg[i].rows[t].round = agg[i].round

\* RunMTRRaw returns when no round of it runs any more, "so callers can safely release
\* any per-round/global state" (mtr_raw.go), and no hop was written twice.
RawReturnsClean ==
  mode = "raw" => (Over => ~ raw.flying) /\ raw.out = raw.seen

\* The final TTL of a round, where its rows end, is the TTL of an answer the destination
\* gave in that round, unless an onICMP that left the mutex before the round began set it
\* afterwards (the comment of roundFinalTTL knows no such case).
FinalTTLOfThisRound ==
  eng.rf > 0 /\ ~ eng.stale => RowOf(eng.rf).peer = Dst

\* What the rounds of either kind hand on is theirs: rows, final TTL, hops.
RoundsSound == RowsOfTheirRound /\ FinalTTLOfThisRound /\ RawReturnsClean

\* The run as its reader sees it.
Table == INSTANCE MTRRun WITH
  counted <- Len(agg), shown <- shown, cancelled <- ui.cancelled, over <- Over
\* Every completed round is counted once and nothing else is, previews included; a
\* cancelled run shows its table and ends (mtrLoopRuntime.run).
TableSpec == Table!Spec
=============================================================================
