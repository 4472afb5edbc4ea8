---------------------------- MODULE MTRMetadata ----------------------------
(***************************************************************************)
(* The background lookups of the MTR scheduler: geolocation and reverse    *)
(* DNS of the addresses that answer (trace/mtr_scheduler_runtime.go,       *)
(* trace/mtr_metadata.go).                                                 *)
(*                                                                         *)
(* The scheduler loop owns md: maps of what is in flight, attempts made,   *)
(* cooldowns and the cache, all per address and kind.  A lookup runs in a  *)
(* goroutine of its own, waits for one of a few slots, asks a server under *)
(* a deadline and sends a patch on metadataCh.  A reset starts a new       *)
(* generation with a new context while old lookups still run.              *)
(*                                                                         *)
(* Data: a host name is known or not; a geo is "none", "ip" (looked up by  *)
(* address) or "named" (looked up by address and host name, as DN42 does). *)
(* A retryAt entry is absent, in the future ("waiting") or in the past.    *)
(***************************************************************************)
EXTENDS Integers, FiniteSets

CONSTANTS
  IPs,         \* addresses of the routers that answer
  UseGeo,      \* IPGeoSource # nil
  UseRDNS,     \* RDNS
  DN42,        \* values the option DN42 may have
  MaxTries,    \* mtrAsyncMetadataMaxRetries + 1
  Slots,       \* lookups of one kind that may run at once
  ChCap,       \* capacity of metadataCh
  MaxResets    \* bound of the model: resets the user asks for

ASSUME MetadataAssumption ==
  /\ IsFiniteSet(IPs)
  /\ {UseGeo, UseRDNS} \subseteq BOOLEAN /\ DN42 \subseteq BOOLEAN
  /\ MaxTries \in Nat \ {0}
  /\ Slots \in Nat \ {0}
  /\ ChCap \in Nat \ {0}
  /\ MaxResets \in Nat

Kinds == {"geo", "host"}

VARIABLES
  md,          \* the metadata fields of the runtime, see InitMetadata
  lookups,     \* the goroutines of runMetadataLookup
  metadataCh,  \* patches sent and not yet received
  ended        \* run() has returned: doneCh is closed, the context cancelled

vars == <<md, lookups, metadataCh, ended>>

NoRow == [seen |-> FALSE, host |-> FALSE, geo |-> "none"]

\* rows: what the aggregator shows of an address; new: the lookups launched
\* by the handler that runs, started when it ends.
InitMetadata(mode) ==
  [dn42       |-> mode,
   generation |-> 0,
   inFlight   |-> [k \in Kinds |-> {}],
   attempts   |-> [k \in Kinds |-> [ip \in IPs |-> 0]],
   retryAt    |-> [k \in Kinds |-> [ip \in IPs |-> "none"]],
   cache      |-> [ip \in IPs |-> [host |-> FALSE, geo |-> "none"]],
   rows       |-> [ip \in IPs |-> NoRow],
   new        |-> {}]

Init ==
  /\ \E mode \in DN42 : md = InitMetadata(mode)
  /\ lookups = {}
  /\ metadataCh = {}
  /\ ended = FALSE

-----------------------------------------------------------------------------
(* Launching.                                                              *)

\* What metadataRetriesExhausted returns ...
RetriesExhausted(s, k, ip) ==
  s.attempts[k][ip] >= MaxTries /\ s.retryAt[k][ip] # "over"

\* ... and what it does to the maps: the first check that finds the retries
\* exhausted starts the cooldown, the first one after it forgets them.
CheckRetries(s, k, ip) ==
  IF s.attempts[k][ip] < MaxTries
  THEN [s EXCEPT !.retryAt[k][ip] = "none"]
  ELSE IF s.retryAt[k][ip] = "over"
  THEN [s EXCEPT !.attempts[k][ip] = 0, !.retryAt[k][ip] = "none"]
  ELSE [s EXCEPT !.retryAt[k][ip] = "waiting"]

\* go rt.runMetadataLookup; named: the query carries the host name.
Launch(s, k, ip, named) ==
  [s EXCEPT !.inFlight[k] = @ \cup {ip},
            !.attempts[k][ip] = @ + 1,
            !.new = @ \cup {[kind |-> k, ip |-> ip, gen |-> s.generation,
                             named |-> named, pc |-> "waiting", found |-> FALSE]}]

\* maybeLaunchGeoMetadataLookup for a result that carries what is cached.
LaunchGeo(s, ip, allowIPOnly) ==
  LET c == CheckRetries(s, "geo", ip)
  IN  IF ~ UseGeo \/ s.cache[ip].geo # "none" \/ ip \in s.inFlight["geo"]
      THEN s
      ELSE IF \/ RetriesExhausted(s, "geo", ip)
              \/ s.dn42 /\ UseRDNS /\ ~ s.cache[ip].host /\ ~ allowIPOnly
      THEN c
      ELSE Launch(c, "geo", ip, s.dn42 /\ s.cache[ip].host)

\* maybeLaunchHostMetadataLookup.
LaunchHost(s, ip) ==
  LET c == CheckRetries(s, "host", ip)
  IN  IF ~ UseRDNS \/ s.cache[ip].host \/ ip \in s.inFlight["host"]
      THEN s
      ELSE IF RetriesExhausted(s, "host", ip)
      THEN c
      ELSE Launch(c, "host", ip, FALSE)

\* The row of an address takes what it does not know yet.
PatchRow(row, host, geo) ==
  IF row.seen
  THEN [row EXCEPT !.host = @ \/ host, !.geo = IF @ = "none" THEN geo ELSE @]
  ELSE row

\* processProbeSuccess: the answer is shown with what the cache knows, and
\* what is missing is looked up.
ProcessAnswer(s, ip) ==
  LET known == s.cache[ip]
      s1    == LaunchHost(LaunchGeo(s, ip, FALSE), ip)
  IN  [s1 EXCEPT !.rows[ip] =
         PatchRow([@ EXCEPT !.seen = TRUE], known.host, known.geo)]

-----------------------------------------------------------------------------
(* Processing a patch.                                                     *)

\* Mutant: a success is not kept.
CachePatch_Drop(s, r) ==
  IF r.found
  THEN [s EXCEPT !.attempts[r.kind][r.ip] = 0, !.retryAt[r.kind][r.ip] = "none"]
  ELSE s

\* cacheMetadataPatch: the first success stays, and ends the retries.
CachePatch(s, r) ==
  IF ~ r.found
  THEN s
  ELSE LET c == [s EXCEPT !.attempts[r.kind][r.ip] = 0,
                          !.retryAt[r.kind][r.ip] = "none"]
       IN  IF r.kind = "host"
           THEN [c EXCEPT !.cache[r.ip].host = TRUE]
           ELSE [c EXCEPT !.cache[r.ip].geo =
                   IF @ # "none" THEN @ ELSE IF r.named THEN "named" ELSE "ip"]

\* maybeRetryMetadataLookup: a failure is retried at once.
MaybeRetry(s, r) ==
  IF r.found
  THEN s
  ELSE IF r.kind = "host"
  THEN LaunchHost(s, r.ip)
  ELSE LET mayWait == s.dn42 /\ UseRDNS /\ ~ s.cache[r.ip].host
           c       == IF mayWait THEN CheckRetries(s, "host", r.ip) ELSE s
       IN  LaunchGeo(c, r.ip, mayWait => RetriesExhausted(s, "host", r.ip))

\* maybeLaunchDN42GeoAfterHostResult: the geo lookup that waited for the host
\* name goes ahead, with the name or, when there is none, without it.
MaybeLaunchDN42Geo(s, r) ==
  IF r.kind # "host" \/ ~ (s.dn42 /\ UseRDNS /\ UseGeo) \/ s.cache[r.ip].geo # "none"
  THEN s
  ELSE IF s.cache[r.ip].host
  THEN LaunchGeo(s, r.ip, TRUE)
  ELSE LET c == CheckRetries(s, "host", r.ip)
       IN  IF RetriesExhausted(s, "host", r.ip) THEN LaunchGeo(c, r.ip, TRUE) ELSE c

\* Mutant: the generation of a patch is not looked at.
ProcessPatch_AnyGeneration(s, r) ==
  LET cleared == [s EXCEPT !.inFlight[r.kind] = @ \ {r.ip}]
      next    == MaybeLaunchDN42Geo(MaybeRetry(CachePatch(cleared, r), r), r)
  IN  [next EXCEPT !.rows[r.ip] =
         PatchRow(@, r.kind = "host" /\ r.found,
                  IF r.kind = "geo" /\ r.found
                  THEN IF r.named THEN "named" ELSE "ip"
                  ELSE "none")]

\* processMetadataResult.
ProcessPatch(s, r) ==
  LET cleared == [s EXCEPT !.inFlight[r.kind] = @ \ {r.ip}]
      next    == MaybeLaunchDN42Geo(MaybeRetry(CachePatch(cleared, r), r), r)
  IN  IF r.gen # s.generation
      THEN s
      ELSE [next EXCEPT !.rows[r.ip] =
              PatchRow(@, r.kind = "host" /\ r.found,
                       IF r.kind = "geo" /\ r.found
                       THEN IF r.named THEN "named" ELSE "ip"
                       ELSE "none")]

-----------------------------------------------------------------------------
(* Actions of the loop.                                                    *)

\* The handler that runs leaves s behind and starts its goroutines.
Commit(s) ==
  /\ md' = [s EXCEPT !.new = {}]
  /\ lookups' = lookups \cup s.new

\* A probe is answered by ip.
Answer(ip) ==
  /\ ~ ended
  /\ Commit(ProcessAnswer(md, ip))
  /\ UNCHANGED <<metadataCh, ended>>

\* case mr := <-rt.metadataCh
OnMetadata(r) ==
  /\ ~ ended
  /\ metadataCh' = metadataCh \ {r}
  /\ Commit(ProcessPatch(md, r))
  /\ UNCHANGED ended

\* The destination moves nearer and ClearHop erases the row of ip.
ClearHop(ip) ==
  /\ ~ ended
  /\ md.rows[ip].seen
  /\ md' = [md EXCEPT !.rows[ip] = NoRow]
  /\ UNCHANGED <<lookups, metadataCh, ended>>

\* Thirty seconds after the retries of ip were found exhausted.
CooldownOver(k, ip) ==
  /\ ~ ended
  /\ md.retryAt[k][ip] = "waiting"
  /\ md' = [md EXCEPT !.retryAt[k][ip] = "over"]
  /\ UNCHANGED <<lookups, metadataCh, ended>>

\* handleReset: a new generation with empty maps; the context of the old one
\* is cancelled, its goroutines are still there.
Reset ==
  /\ ~ ended
  /\ md.generation < MaxResets
  /\ md' = [InitMetadata(md.dn42) EXCEPT !.generation = md.generation + 1]
  /\ UNCHANGED <<lookups, metadataCh, ended>>

\* run() returns: the user cancels, or the probes are done and no lookup is
\* in flight.
End ==
  /\ ~ ended
  /\ ended' = TRUE
  /\ UNCHANGED <<md, lookups, metadataCh>>

-----------------------------------------------------------------------------
(* The goroutines.                                                         *)

\* generationCtx of l is cancelled.
Canceled(l) == ended \/ l.gen # md.generation

Holders(k) == {l \in lookups : l.kind = k /\ l.pc # "waiting"}

Step(l, n) == lookups' = (lookups \ {l}) \cup {n}

AcquireSlot(l) ==
  /\ l.pc = "waiting"
  /\ Cardinality(Holders(l.kind)) < Slots
  /\ Step(l, [l EXCEPT !.pc = "looking"])
  /\ UNCHANGED <<md, metadataCh, ended>>

\* The lookup answers or fails, by its deadline at the latest.
LookupReturns(l, found) ==
  /\ l.pc = "looking"
  /\ ~ Canceled(l)
  /\ Step(l, [l EXCEPT !.pc = "sending", !.found = found])
  /\ UNCHANGED <<md, metadataCh, ended>>

\* Mutant: a goroutine waits for room in metadataCh and for nothing else.
Abandon_NotSending(l) ==
  /\ Canceled(l)
  /\ l.pc # "sending"
  /\ lookups' = lookups \ {l}
  /\ UNCHANGED <<md, metadataCh, ended>>

\* A cancelled context ends the goroutine wherever it waits.
Abandon(l) ==
  /\ Canceled(l)
  /\ lookups' = lookups \ {l}
  /\ UNCHANGED <<md, metadataCh, ended>>

\* The patch is sent: the select may prefer it to the cancelled context.
SendPatch(l) ==
  /\ l.pc = "sending"
  /\ Cardinality(metadataCh) < ChCap
  /\ metadataCh' = metadataCh \cup {l}
  /\ lookups' = lookups \ {l}
  /\ UNCHANGED <<md, ended>>

Next ==
  \/ \E ip \in IPs : Answer(ip)
  \/ \E r \in metadataCh : OnMetadata(r)
  \/ \E ip \in IPs : ClearHop(ip)
  \/ \E k \in Kinds, ip \in IPs : CooldownOver(k, ip)
  \/ Reset
  \/ End
  \/ \E l \in lookups : AcquireSlot(l)
  \/ \E l \in lookups, found \in BOOLEAN : LookupReturns(l, found)
  \/ \E l \in lookups : Abandon(l)
  \/ \E l \in lookups : SendPatch(l)

Spec == Init /\ [][Next]_vars

(***************************************************************************)
(* The loop keeps selecting and every goroutine makes progress; a waiting  *)
(* sender or slot waiter is served in order (channels are FIFO), which     *)
(* strong fairness per address stands for. Answers, cooldowns, resets and  *)
(* the end of the run get no fairness.                                     *)
(***************************************************************************)
Lookup ==
  [kind : Kinds, ip : IPs, gen : 0 .. MaxResets, named : BOOLEAN,
   pc : {"waiting", "looking", "sending"}, found : BOOLEAN]

Of(k, ip, S) == {l \in S : l.kind = k /\ l.ip = ip}

Fairness ==
  \A k \in Kinds, ip \in IPs :
    /\ WF_vars(\E r \in Of(k, ip, metadataCh) : OnMetadata(r))
    /\ SF_vars(\E l \in Of(k, ip, lookups) : AcquireSlot(l))
    /\ WF_vars(\E l \in Of(k, ip, lookups), found \in BOOLEAN : LookupReturns(l, found))
    /\ SF_vars(\E l \in Of(k, ip, lookups) : SendPatch(l))
    /\ WF_vars(\E l \in Of(k, ip, lookups) : Abandon(l))

FairSpec == Spec /\ Fairness
-----------------------------------------------------------------------------
(* Properties.                                                             *)

\* Every field keeps its type; an address is never tried more than MaxTries
\* times in a row.
TypeOK ==
  /\ md \in
       [dn42       : DN42,
        generation : 0 .. MaxResets,
        inFlight   : [Kinds -> SUBSET IPs],
        attempts   : [Kinds -> [IPs -> 0 .. MaxTries]],
        retryAt    : [Kinds -> [IPs -> {"none", "waiting", "over"}]],
        cache      : [IPs -> [host : BOOLEAN, geo : {"none", "ip", "named"}]],
        rows       : [IPs -> [seen : BOOLEAN, host : BOOLEAN,
                              geo : {"none", "ip", "named"}]],
        new        : {{}}]
  /\ lookups \subseteq Lookup
  /\ metadataCh \subseteq Lookup
  /\ ended \in BOOLEAN

\* The lookups of the current generation, running or delivered.
Current(k, ip) ==
  {l \in lookups \cup metadataCh : l.kind = k /\ l.ip = ip /\ l.gen = md.generation}

\* The in-flight maps say which lookups of this generation are out, and there
\* is one at most per address and kind: isDone, which waits for both maps to
\* be empty, waits for exactly those, whatever resets left behind.
InFlightTracked ==
  ~ ended =>
    \A k \in Kinds, ip \in IPs :
      /\ Cardinality(Current(k, ip)) <= 1
      /\ ip \in md.inFlight[k] <=> Current(k, ip) # {}

\* A row shows what the cache knows of its address: no patch is lost, whether
\* it comes before, after or between the answers that create the row.
RowsMatchCache ==
  \A ip \in IPs :
    md.rows[ip].seen =>
      /\ md.rows[ip].host = md.cache[ip].host
      /\ md.rows[ip].geo = md.cache[ip].geo

\* The cache, the rows and the lookups under way agree.
LookupsTracked == InFlightTracked /\ RowsMatchCache

\* Between resets the cache changes only by a patch of this generation.
StalePatchIgnored ==
  [][md'.generation = md.generation /\ md'.cache # md.cache =>
       \E r \in metadataCh \ metadataCh' : r.gen = md.generation]_vars

\* What is in flight comes to an end: failures are retried a bounded number
\* of times, so lookups cannot keep a finished run alive.  In DN42 mode the
\* question whether the tries are used up may itself start a new series.
LookupsSettle ==
  \A k \in Kinds, ip \in IPs :
    ip \in md.inFlight[k] /\ ~ md.dn42 ~> (ip \notin md.inFlight[k] \/ ended)

\* When run() has returned, every lookup goroutine ends, even one that waits
\* for room in a channel nobody reads any more.
LookupsEndWithRun == ended ~> lookups = {}

\* No lookup goes on for ever, during the run or behind it.
LookupsEnd == LookupsSettle /\ LookupsEndWithRun
=============================================================================
