---------------------------- MODULE MTUDiscovery ----------------------------
(***************************************************************************)
(* Path MTU discovery (trace/mtu/runner.go, trace/mtu/socket_prober.go):   *)
(* UDP probes that must not be fragmented, from a size far above any link  *)
(* downwards, TTL by TTL.  A probe too large for the local link is refused *)
(* by the system; one too large further on draws an ICMP error that may    *)
(* name the size that fits.                                                *)
(*                                                                         *)
(* The path is part of the state and chosen in Init: link[h] is the MTU of *)
(* the h-th link, router h stands behind it, the destination behind the    *)
(* last.  Routers are honest but may be silent, late, or leave out the     *)
(* size.  The lookups of a hop's metadata and the stream of events to the  *)
(* printer change nothing here and are left out.                           *)
(***************************************************************************)
EXTENDS Integers, Sequences

CONSTANTS
  Sizes,      \* MTUs a link may have
  MaxDist,    \* length of the path, at most
  ProbeSize,  \* initialProbeMTU
  MinMTU,     \* minProbeMTU
  Starts,     \* MTUs initialPathMTU may report for the local device
  BeginHop,
  MaxHops,
  Queries,
  Tokens,     \* 2^32: token is a uint32
  Ports       \* destination ports from the configured one up to 65535

ASSUME MTUAssumption ==
  /\ Sizes \subseteq Nat \ {0}
  /\ Starts \subseteq Nat \ {0}
  /\ MaxDist \in Nat \ {0} /\ MaxHops \in Nat \ {0} /\ BeginHop \in Nat \ {0}
  /\ ProbeSize \in Nat \ {0} /\ MinMTU \in Nat \ {0}
  /\ Queries \in Nat \ {0} /\ Tokens \in Nat \ {0} /\ Ports \in Nat \ {0}
  /\ BeginHop <= MaxHops
  /\ MinMTU <= ProbeSize

VARIABLES
  dist, link,  \* the path
  startMTU,    \* res.StartMTU
  pathMTU,     \* res.PathMTU
  probeMTU,
  token,
  ttl, attempt,
  cur,         \* hop, gotHop, ttlPMTU and ttlSawRemote of the current TTL
  hops,        \* res.Hops
  late,        \* answers on the way whose probe has timed out
  pc

resVars == <<startMTU, pathMTU, probeMTU>>
vars == <<dist, link, resVars, token, ttl, attempt, cur, hops, late, pc>>

Hop(event, from, pmtu) == [event |-> event, from |-> from, pmtu |-> pmtu]

NewTTL == [hop |-> Hop("timeout", 0, 0), gotHop |-> FALSE,
           ttlPMTU |-> 0, ttlSawRemote |-> FALSE]

Init ==
  /\ dist \in 1 .. MaxDist
  /\ link \in [1 .. dist -> Sizes]
  /\ startMTU \in Starts
  /\ pathMTU = startMTU
  /\ probeMTU = ProbeSize
  /\ token = 1
  /\ ttl = BeginHop /\ attempt = 0
  /\ cur = NewTTL
  /\ hops = << >>
  /\ late = {}
  /\ pc = "probe"

(***************************************************************************)
(* Sizes                                                                   *)
(***************************************************************************)
\* Mutant: a discovered size replaces a smaller one.
candidatePathMTU_Latest(current, discovered) ==
  IF discovered <= 0 THEN current ELSE discovered

candidatePathMTU(current, discovered) ==
  IF discovered > 0 /\ (current = 0 \/ discovered < current)
  THEN discovered ELSE current

\* The size of the packet: header and at least the smallest payload.
PacketSize == IF probeMTU > MinMTU THEN probeMTU ELSE MinMTU

\* Only called with a current size that may still shrink.
nextLocalProbeMTU(current, reported) ==
  LET next == candidatePathMTU(current, reported)
  IN IF next < current THEN next ELSE current - 1

\* The second result of nextLocalProbeMTU, negated.
CannotShrink(current, reported) ==
  candidatePathMTU(current, reported) >= current /\ current <= MinMTU

(***************************************************************************)
(* The network                                                             *)
(***************************************************************************)
Fits(size, h) == \A g \in 1 .. h : size <= link[g]

\* What may come back for a packet of this size and TTL that has left the host.
\* A router that cannot forward it may name the next link's MTU or none.
Answers(size, t) ==
  {Hop("frag_needed", h - 1, IF told THEN link[h] ELSE 0) :
     h \in {g \in 2 .. dist : g <= t /\ Fits(size, g - 1) /\ link[g] < size},
     told \in BOOLEAN}
  \cup (IF t < dist /\ Fits(size, t) THEN {Hop("time_exceeded", t, 0)} ELSE {})
  \cup (IF t >= dist /\ Fits(size, dist) THEN {Hop("destination", dist, 0)} ELSE {})

\* Mutant: every probe goes to the same port.
probeDstPort_Same(n) == 0
\* The offset of the port that identifies a probe.
probeDstPort(n) == IF n = 0 THEN 0 ELSE (n - 1) % Ports

NextToken == token' = (token + 1) % Tokens

\* The own answer gets lost or comes later.
MayComeLater ==
  \/ late' = late
  \/ \E a \in Answers(PacketSize, ttl) :
       late' = late \cup {[port |-> probeDstPort(token), answer |-> a]}

(***************************************************************************)
(* One probe                                                               *)
(***************************************************************************)
Probing == pc = "probe"

\* Mutant: the packet that was refused is sent again as it is.
LocalMTUError_Retry(reported) ==
  /\ Probing /\ PacketSize > link[1]
  /\ UNCHANGED vars

\* The system refuses the packet; what it reports as MTU is unknown, right, or
\* not yet updated.  Attempts are not used up.
LocalMTUError(reported) ==
  LET known == IF reported <= 0 THEN pathMTU ELSE reported
      next  == nextLocalProbeMTU(probeMTU, known)
  IN /\ Probing /\ PacketSize > link[1]
     /\ ~ CannotShrink(probeMTU, known)
     /\ cur' = IF ttl = BeginHop /\ probeMTU > startMTU /\ next = startMTU
               THEN [cur EXCEPT !.ttlPMTU = candidatePathMTU(@, next)]
               ELSE cur
     /\ probeMTU' = next
     /\ pathMTU' = candidatePathMTU(pathMTU, next)
     /\ NextToken
     /\ UNCHANGED <<dist, link, startMTU, ttl, attempt, hops, late, pc>>

\* The run ends with the error.
LocalMTUFatal(reported) ==
  /\ Probing /\ PacketSize > link[1]
  /\ CannotShrink(probeMTU, IF reported <= 0 THEN pathMTU ELSE reported)
  /\ pc' = "too_small"
  /\ UNCHANGED <<dist, link, resVars, token, ttl, attempt, cur, hops, late>>

LoopTest == pc' = IF attempt + 1 < Queries THEN "probe" ELSE "ttl_end"

Timeout ==
  /\ Probing /\ PacketSize <= link[1]
  /\ MayComeLater
  /\ attempt' = attempt + 1 /\ NextToken
  /\ LoopTest
  /\ UNCHANGED <<dist, link, resVars, ttl, cur, hops>>

\* Frag needed or packet too big: smaller from now on, same TTL.
TooBig(a) ==
  /\ a.event = "frag_needed"
  /\ probeMTU' = candidatePathMTU(probeMTU, a.pmtu)
  /\ pathMTU' = candidatePathMTU(pathMTU, a.pmtu)
  /\ LET t == candidatePathMTU(cur.ttlPMTU, a.pmtu)
     IN cur' = [hop |-> [a EXCEPT !.pmtu = t], gotHop |-> TRUE,
                ttlPMTU |-> t, ttlSawRemote |-> TRUE]
  /\ LoopTest

\* Any other answer ends the TTL.
Answered(a) ==
  /\ a.event # "frag_needed"
  /\ cur' = [cur EXCEPT !.gotHop = TRUE,
                        !.hop = [a EXCEPT !.pmtu =
                          IF cur.ttlPMTU > 0 THEN cur.ttlPMTU
                          ELSE IF /\ ttl = 1 /\ ProbeSize > startMTU
                                  /\ pathMTU = startMTU
                          THEN startMTU ELSE @]]
  /\ pc' = "ttl_end"
  /\ UNCHANGED <<pathMTU, probeMTU>>

Handle(a) ==
  /\ TooBig(a) \/ Answered(a)
  /\ attempt' = attempt + 1 /\ NextToken
  /\ UNCHANGED <<dist, link, startMTU, ttl, hops>>

OwnAnswer ==
  /\ Probing /\ PacketSize <= link[1]
  /\ \E a \in Answers(PacketSize, ttl) : Handle(a)
  /\ UNCHANGED late

\* An answer to an earlier probe is taken if that had the same port.
LateAnswer ==
  /\ Probing /\ PacketSize <= link[1]
  /\ \E l \in late : l.port = probeDstPort(token) /\ Handle(l.answer)
  /\ MayComeLater

(***************************************************************************)
(* The end of a TTL and of the run                                         *)
(***************************************************************************)
FinalHop ==
  IF cur.gotHop /\ cur.ttlSawRemote /\ cur.hop.pmtu = 0
  THEN [cur.hop EXCEPT !.pmtu = cur.ttlPMTU] ELSE cur.hop

EndTTL ==
  /\ pc = "ttl_end"
  /\ hops' = Append(hops, FinalHop)
  /\ IF FinalHop.event = "destination" \/ ttl >= MaxHops
     THEN /\ pc' = "done"
          /\ pathMTU' = candidatePathMTU(startMTU, pathMTU)
          /\ UNCHANGED <<ttl, attempt, cur>>
     ELSE /\ pc' = "probe"
          /\ ttl' = ttl + 1 /\ attempt' = 0 /\ cur' = NewTTL
          /\ UNCHANGED pathMTU
  /\ UNCHANGED <<dist, link, startMTU, probeMTU, token, late>>

\* The context ends or a socket fails: Probe or sleepContext returns the error.
Cancel ==
  /\ pc \in {"probe", "ttl_end"}
  /\ pc' = "cancelled"
  /\ UNCHANGED <<dist, link, resVars, token, ttl, attempt, cur, hops, late>>

Reported == {0, link[1], probeMTU}

Step ==
  \/ \E r \in Reported : LocalMTUError(r)
  \/ \E r \in Reported : LocalMTUFatal(r)
  \/ Timeout
  \/ OwnAnswer
  \/ LateAnswer
  \/ EndTTL

Next == Step \/ Cancel

Spec == Init /\ [][Next]_vars

\* The runner is one goroutine that never waits without a deadline.
FairSpec == Spec /\ WF_vars(Step)

(***************************************************************************)
(* Properties                                                              *)
(***************************************************************************)
Events == {"timeout", "frag_needed", "time_exceeded", "destination"}
Hops == [event : Events, from : Nat, pmtu : Nat]

TypeOK ==
  /\ dist \in 1 .. MaxDist /\ link \in [1 .. dist -> Sizes]
  /\ startMTU \in Starts
  /\ pathMTU \in Nat \ {0} /\ probeMTU \in Nat \ {0}
  /\ token \in 0 .. Tokens /\ ttl \in BeginHop .. MaxHops /\ attempt \in 0 .. Queries
  /\ cur \in [hop : Hops, gotHop : BOOLEAN, ttlPMTU : Nat, ttlSawRemote : BOOLEAN]
  /\ hops \in Seq(Hops)
  /\ late \subseteq [port : Nat, answer : Hops]
  /\ pc \in {"probe", "ttl_end", "done", "too_small", "cancelled"}

\* No run sends so many probes that the token wraps: each either uses up a query
\* or shrinks the size.
EnoughTokens == ProbeSize + Queries * (MaxHops - BeginHop + 1) < Tokens

Reached == \E i \in DOMAIN hops : hops[i].event = "destination"

\* The result of a run that reached the destination: the path MTU is the
\* smallest of the local device's MTU and the links' (runStreamWithProber),
\* also when routers withhold sizes, answers are lost, or late answers are
\* taken for others.  Only where the largest probe fits every link is the
\* device's MTU reported untested.
PathMTUExact ==
  pc = "done" /\ Reached =>
    \/ \A h \in 1 .. dist : ProbeSize <= link[h] /\ pathMTU = startMTU
    \/ /\ \A h \in 1 .. dist : pathMTU <= link[h]
       /\ pathMTU <= startMTU
       /\ \/ pathMTU = startMTU
          \/ \E h \in 1 .. dist : pathMTU = link[h]

\* Whatever has been seen so far, the reported path MTU is never below what the
\* path and the local device carry.
NeverTooSmall ==
  pathMTU >= startMTU \/ \E h \in 1 .. dist : link[h] <= pathMTU

\* The run fails for its size only when the local link is too small for the
\* smallest probe (nextLocalProbeMTU counts down to it first).
FatalJustified == pc = "too_small" => link[1] < MinMTU

\* A hop that shows a time exceeded shows the router of its own TTL, as long as
\* no port has been used twice (probeDstPort): no answer that comes after its
\* probe has timed out is taken for one of a later TTL.
HopOfItsTTL ==
  EnoughTokens /\ token <= Ports =>
    \A i \in DOMAIN hops :
      hops[i].event = "time_exceeded" => hops[i].from = BeginHop + i - 1

\* Discovery ends, although refused packets do not count as attempts.
Ends == <>(pc \notin {"probe", "ttl_end"})

=============================================================================
