--------------------------- MODULE MTRAggregator ---------------------------
(***************************************************************************)
(* The statistics behind the MTR table (trace/mtr_stats.go and             *)
(* trace/mtr_stats_helpers.go).                                            *)
(*                                                                         *)
(* MTRAggregator keeps, per TTL, one accumulator for every address that    *)
(* answered there and one for the probes nobody answered.  Every exported  *)
(* operation holds agg.mu from end to end, so each is one action.  Update  *)
(* iterates over Go maps, whose order is random: the order numbers that    *)
(* new rows get within a TTL are a choice.                                 *)
(*                                                                         *)
(* Data: an attempt is a timeout or an answer from a peer with an RTT; its *)
(* host name and its geo are there or not.  RTTs are integers, so that     *)
(* sums are exact: a sum is the number of units it is made of.  The        *)
(* attempts of a TTL are a set; their numbers say in which order they      *)
(* came.  MPLS labels are left out.  So are attempts with a host name and  *)
(* no address (names are looked up by address, so no prober makes one) and *)
(* RTTs of 0, which the merges skip.                                       *)
(***************************************************************************)
EXTENDS Integers, FiniteSets, FiniteSetsExt

CONSTANTS
  TTLs,        \* TTLs probed
  Peers,       \* addresses that may answer, as numbers: the order of acc.ip
  RTTs,        \* round-trip times, in milliseconds
  Hosts,       \* whether an answer comes with a host name: a set of Booleans
  Geos,        \* whether an answer comes with a geo: a set of Booleans
  PerHop,      \* attempts of one TTL in one Result, at most
  MaxUpdates,  \* bound of the model: results since the last reset
  MaxClears    \* bound of the model: resets and hops cleared

ASSUME AggregatorAssumption ==
  /\ IsFiniteSet(TTLs) /\ TTLs \subseteq Nat \ {0}
  /\ IsFiniteSet(Peers) /\ Peers \subseteq Nat \ {0}
  /\ IsFiniteSet(RTTs) /\ RTTs \subseteq 1 .. 1000
  /\ Hosts \subseteq BOOLEAN /\ Geos \subseteq BOOLEAN
  /\ {PerHop, MaxUpdates, MaxClears} \subseteq Nat

VARIABLES
  stats,       \* [ttl][key] accumulators
  nextOrder,   \* order number of the next new row
  log,         \* history: per TTL the numbered attempts since it was last cleared
  bound        \* updates and resets so far

aggVars == <<stats, nextOrder, log, bound>>

(***************************************************************************)
(* Attempts and keys                                                       *)
(***************************************************************************)
Unknown == 0
MaxFloat64 == 1000000

NoAnswer == [ip |-> Unknown, rtt |-> 0, host |-> FALSE, geo |-> FALSE]

\* A Hop of a Result: only an answer has an address, an RTT and metadata.
Attempts ==
  {NoAnswer} \cup [ip : Peers, rtt : RTTs, host : Hosts, geo : Geos]

\* A peer's key is its address; attempts without one share a key.
mtrHopKey(a) == a.ip

HopKeys == Peers \cup {Unknown}

KeysOf(attempts) == {mtrHopKey(a) : a \in attempts}

\* Of numbered attempts: those of a key, those with an answer, the first and the last.
Of(attempts, k) == {a \in attempts : mtrHopKey(a) = k}
Answered(attempts) == {a \in attempts : a.ip # Unknown}
RttsOf(attempts) == {a.rtt : a \in attempts}
Oldest(attempts) == CHOOSE a \in attempts : \A b \in attempts : a.no <= b.no
Newest(attempts) == CHOOSE a \in attempts : \A b \in attempts : b.no <= a.no

Total(attempts) == Cardinality(UNION {{a} \X (1 .. a.rtt) : a \in attempts})
TotalSq(attempts) == Cardinality(UNION {{a} \X (1 .. a.rtt * a.rtt) : a \in attempts})

(***************************************************************************)
(* Grouping one TTL's attempts by key                                      *)
(***************************************************************************)
\* The group's host is the first attempt's, even when that one has none.
groupMTRHopAttempts(batch) ==
  [k \in KeysOf(batch) |->
     LET mine == Of(batch, k)
         ok   == Answered(mine)
     IN [count    |-> Cardinality(mine),
         host     |-> Oldest(mine).host,
         geo      |-> \E a \in mine : a.geo,
         received |-> Cardinality(ok),
         sum      |-> Total(ok),
         sumSq    |-> TotalSq(ok),
         last     |-> IF ok = {} THEN 0 ELSE Newest(ok).rtt,
         best     |-> Min(RttsOf(ok) \cup {MaxFloat64}),
         worst    |-> Max(RttsOf(ok) \cup {0})]]

newHopAccum(order) ==
  [order |-> order, host |-> FALSE, geo |-> FALSE,
   sent |-> 0, received |-> 0, sum |-> 0, sumSq |-> 0,
   last |-> 0, best |-> MaxFloat64, worst |-> 0]

mergeMTRHopGroupIntoAccum(acc, group) ==
  LET named == [acc EXCEPT !.host = @ \/ group.host,
                           !.geo  = @ \/ group.geo,
                           !.sent = @ + group.count]
  IN IF group.received = 0 THEN named
     ELSE [named EXCEPT !.sum = @ + group.sum,
                        !.sumSq = @ + group.sumSq,
                        !.received = @ + group.received,
                        !.last = group.last,
                        !.best = IF @ = MaxFloat64 \/ group.best < @
                                 THEN group.best ELSE @,
                        !.worst = IF group.worst > @ THEN group.worst ELSE @]

mergeMTRHopAccum(dst, src) ==
  LET d == [dst EXCEPT !.sent = @ + src.sent,
                       !.received = @ + src.received,
                       !.geo = @ \/ src.geo,
                       !.host = @ \/ src.host]
  IN IF src.received = 0 THEN d
     ELSE [d EXCEPT !.sum = @ + src.sum,
                    !.sumSq = @ + src.sumSq,
                    !.last = src.last,
                    !.best = IF src.best < @ THEN src.best ELSE @,
                    !.worst = IF src.worst > @ THEN src.worst ELSE @]

\* Mutant: the timeouts join a path even when there are two.
mergeUnknownIntoSingleKnown_AnyKnown(accMap) ==
  LET known == DOMAIN accMap \ {Unknown}
  IN IF Unknown \in DOMAIN accMap /\ known # {}
     THEN [k \in known |-> IF k = Max(known)
                           THEN mergeMTRHopAccum(accMap[k], accMap[Unknown])
                           ELSE accMap[k]]
     ELSE accMap

\* The timeouts of a hop join its only path; with two paths they stay apart.
mergeUnknownIntoSingleKnown(accMap) ==
  LET known == DOMAIN accMap \ {Unknown}
  IN IF Unknown \in DOMAIN accMap /\ Cardinality(known) = 1
     THEN [k \in known |-> mergeMTRHopAccum(accMap[k], accMap[Unknown])]
     ELSE accMap

(***************************************************************************)
(* The operations                                                          *)
(***************************************************************************)
AggInit ==
  /\ stats = [t \in TTLs |-> << >>]
  /\ nextOrder = 0
  /\ log = [t \in TTLs |-> {}]
  /\ bound = [updates |-> 0, resets |-> 0]

\* The attempts of one TTL in a Result, in their order; then numbered behind those before.
Batches == UNION {[1 .. n -> Attempts] : n \in 0 .. PerHop}
Numbered(t, batch) ==
  {[no |-> Cardinality(log[t]) + i, update |-> bound.updates, ip |-> batch[i].ip,
    rtt |-> batch[i].rtt, host |-> batch[i].host, geo |-> batch[i].geo] : i \in DOMAIN batch}

NewRows(res) ==
  {r \in TTLs \X HopKeys : r[2] \in KeysOf(res[r[1]]) \ DOMAIN stats[r[1]]}

\* Order numbers go up with the TTL; within one TTL the map's order decides.
Orders(res) ==
  LET new == NewRows(res)
      nums == nextOrder .. nextOrder + Cardinality(new) - 1
  IN {ord \in [new -> nums] :
        \A r, q \in new : /\ r # q => ord[r] # ord[q]
                          /\ r[1] < q[1] => ord[r] < ord[q]}

AccumFor(t, k, ord) ==
  IF k \in DOMAIN stats[t] THEN stats[t][k] ELSE newHopAccum(ord[<<t, k>>])

mergeGroups(t, batch, ord) ==
  LET groups == groupMTRHopAttempts(batch)
  IN [k \in DOMAIN stats[t] \cup DOMAIN groups |->
        IF k \in DOMAIN groups
        THEN mergeMTRHopGroupIntoAccum(AccumFor(t, k, ord), groups[k])
        ELSE stats[t][k]]

\* TTLs without attempts in the Result are skipped.
Update(res) ==
  /\ bound.updates < MaxUpdates
  /\ \E t \in TTLs : res[t] # {}
  /\ \E ord \in Orders(res) :
       stats' = [t \in TTLs |->
                   IF res[t] = {} THEN stats[t]
                   ELSE mergeUnknownIntoSingleKnown(
                          mergeGroups(t, res[t], ord))]
  /\ nextOrder' = nextOrder + Cardinality(NewRows(res))
  /\ log' = [t \in TTLs |-> log[t] \cup res[t]]
  /\ bound' = [bound EXCEPT !.updates = @ + 1]

ResetStats ==
  /\ bound.resets < MaxClears
  /\ stats' = [t \in TTLs |-> << >>]
  /\ nextOrder' = 0
  /\ log' = [t \in TTLs |-> {}]
  /\ bound' = [updates |-> 0, resets |-> bound.resets + 1]

\* nextOrder goes on: rows of other TTLs keep their numbers.
ClearHop(t) ==
  /\ bound.resets < MaxClears
  /\ stats' = [stats EXCEPT ![t] = << >>]
  /\ log' = [log EXCEPT ![t] = {}]
  /\ bound' = [bound EXCEPT !.resets = @ + 1]
  /\ UNCHANGED nextOrder

\* Late metadata fills what a row of that address lacks, on every TTL.
PatchMetadataByIP(ip, host, geo) ==
  /\ host \/ geo
  /\ stats' = [t \in TTLs |->
                 [k \in DOMAIN stats[t] |->
                    IF k # ip THEN stats[t][k]
                    ELSE [stats[t][k] EXCEPT !.host = @ \/ host,
                                             !.geo = @ \/ geo]]]
  /\ UNCHANGED <<nextOrder, log, bound>>

AggNext ==
  \/ \E res \in [TTLs -> Batches] : Update([t \in TTLs |-> Numbered(t, res[t])])
  \/ ResetStats
  \/ \E t \in TTLs : ClearHop(t)
  \/ \E ip \in Peers : PatchMetadataByIP(ip, TRUE, FALSE)
  \/ \E ip \in Peers : PatchMetadataByIP(ip, FALSE, TRUE)

AggSpec == AggInit /\ [][AggNext]_aggVars

(***************************************************************************)
(* Properties                                                              *)
(***************************************************************************)
Accums ==
  [order : Nat, host : BOOLEAN, geo : BOOLEAN, sent : Nat, received : Nat,
   sum : Nat, sumSq : Nat, last : Nat, best : Nat, worst : Nat]

\* Every accumulator has its type, and no order number is handed out twice.
AggTypeOK ==
  /\ DOMAIN stats = TTLs
  /\ \A t \in TTLs : /\ DOMAIN stats[t] \subseteq HopKeys
                     /\ \A k \in DOMAIN stats[t] : stats[t][k] \in Accums
  /\ nextOrder \in Nat
  /\ \A t, s \in TTLs : \A k \in DOMAIN stats[t], j \in DOMAIN stats[s] :
       /\ stats[t][k].order < nextOrder
       /\ stats[t][k].order = stats[s][j].order => t = s /\ k = j

PeersIn(attempts) == KeysOf(attempts) \ {Unknown}

Count(attempts, k) == Cardinality(Of(attempts, k))

Upto(attempts, n) == {a \in attempts : a.update <= n}

\* The attempts of a TTL before the update that shows its second path.
OnePathPrefix(attempts) ==
  Upto(attempts, Max({n \in -1 .. MaxUpdates :
                        Cardinality(PeersIn(Upto(attempts, n))) <= 1}))

\* Who is charged with which lost probes (mergeUnknownIntoSingleKnown): as long
\* as one path is known, every probe of the hop is charged to it; from the
\* result that shows a second path on, timeouts go to a row of their own.
\* Nothing sent is lost or counted twice.
AttributionExact ==
  \A t \in TTLs :
    LET pre   == OnePathPrefix(log[t])
        early == IF PeersIn(pre) = {} THEN 0 ELSE Count(pre, Unknown)
        late  == Count(log[t], Unknown) - early
        sent(k) == Count(log[t], k) + (IF k \in PeersIn(pre) THEN early ELSE 0)
    IN /\ DOMAIN stats[t] =
            PeersIn(log[t]) \cup (IF late > 0 THEN {Unknown} ELSE {})
       /\ \A k \in DOMAIN stats[t] :
            stats[t][k].sent = IF k = Unknown THEN late ELSE sent(k)

\* The RTT columns of a path (received, Avg, StDev, Last, Best, Wrst) are those
\* of its own answers in the order they came, whatever was merged into it
\* (includeAttempt, mergeMTRHopGroupIntoAccum, mergeMTRHopAccum).
RttExact ==
  \A t \in TTLs : \A k \in DOMAIN stats[t] \ {Unknown} :
    LET own == Of(log[t], k)
        acc == stats[t][k]
    IN /\ acc.received = Cardinality(own)
       /\ acc.sum = Total(own)
       /\ acc.sumSq = TotalSq(own)
       /\ acc.last = Newest(own).rtt
       /\ acc.best = Min(RttsOf(own)) /\ acc.worst = Max(RttsOf(own))

\* The table is what a reference computation over all results gives.
StatisticsExact == AttributionExact /\ RttExact
=============================================================================
