------------------------------- MODULE Tracer -------------------------------
(***************************************************************************)
(* The classic traceroute engines, trace/{icmp,tcp,udp}_ipv{4,6}.go, and   *)
(* the Result they fill (trace/trace.go).  Six files, one construction:    *)
(*                                                                         *)
(*   a dispatcher starts one launcher per TTL, a launcher one sender per   *)
(*   attempt; a sender registers its attempt, starts a timeout goroutine   *)
(*   and sends the packet.  Listeners queue replies, workers match them,   *)
(*   PrintFunc follows the completed TTLs and ends the trace.  Reply and   *)
(*   timeout race for an attempt: clearPending decides.                    *)
(*                                                                         *)
(* The files differ in what registers an attempt and what a reply is       *)
(* matched by: the operators of the section "Matching", by method.         *)
(*                                                                         *)
(* Granularity.  A step is one access that other goroutines can observe.   *)
(* The checks a sender makes before markPending, the checks a timeout      *)
(* goroutine or a worker makes right after clearPending, and PrintFunc's   *)
(* two reads are one step each: what happens between them can also happen  *)
(* before or after.  Adding to the Result stays a step of its own.         *)
(***************************************************************************)
EXTENDS Integers, Sequences, FiniteSets

CONSTANTS
  Traces,     \* the traces asked for: [method, begin, hops, n, m, env, par, span, ports,
              \* sizes, dists, fails, slow, cancel], see TraceConfig
  QueueCap    \* capacity of matchQ (60 in the code)

Methods == {"icmp4", "icmp6", "tcp4", "tcp6", "udp4", "udp6", "udpDarwin"}

\* begin, hops, n, m, par: BeginHop, MaxHops, NumMeasurements, MaxAttempts, ParallelRequests
\* (0: the default); env: NEXTTRACE_MAXATTEMPTS; span: the values of the index field of a
\* sequence number; ports, sizes: the source ports and payload sizes a probe may get;
\* dists: the lengths of the paths; fails, slow, cancel: may a send fail, a listener start
\* late, the user interrupt?
TraceConfig ==
  [method : Methods, begin : Nat \ {0}, hops : Nat, n : Nat, m : Int, env : Nat, par : Nat,
   span : Nat \ {0}, ports : SUBSET Nat, sizes : SUBSET Nat, dists : SUBSET Nat,
   fails : BOOLEAN, slow : BOOLEAN, cancel : BOOLEAN]

ASSUME TracerAssumption ==
  /\ Traces \subseteq TraceConfig
  /\ \A r \in Traces : {} \notin {r.ports, r.sizes, r.dists} /\ r.begin <= r.hops
  /\ QueueCap \in Nat \ {0}

VARIABLES
  cfg,      \* the configuration of the trace, normalised
  tr,       \* [started: the last TTL whose launcher runs, final, printed: PrintFunc's ttl,
            \*  ctx: "live" or the cause of its end, returned, panicked: res.add has indexed
            \*  beyond res.Hops, len: len(res.Hops), up: the listeners that are ready,
            \*  waiting: what waitAllReady still counts down, 0 once the probes start]
  att,      \* per attempt [s: its send goroutine, port, size, timer: its timeout goroutine]
  pending,  \* t.pending
  sentAt,   \* t.sentAt: [seq, ttl, i, port, size], one per seq
  matchQ,   \* replies waiting for a worker
  adding,   \* replies a worker is about to add: [ttl, i, seq, of]
  hops,     \* res.Hops and res.tailDone
  out       \* macOS: [q: t.ttlQueues, wire: the packets sent and not captured yet, in order]

vars == <<cfg, tr, att, pending, sentAt, matchQ, adding, hops, out>>

-----------------------------------------------------------------------------
(* The configuration.                                                      *)

applyTracerouteDefaults(r) ==
  LET n == IF r.n = 0 THEN 3 ELSE r.n
  IN [r EXCEPT !.hops = IF @ = 0 THEN 30 ELSE @, !.n = n,
               !.par = IF @ = 0 THEN n * 5 ELSE @]

\* M, the probes of a TTL: asked for, from the environment, or more than N.
deriveMaxAttempts(r) ==
  LET asked == IF r.m <= 0 /\ r.env > 0 THEN r.env ELSE r.m
  IN [r EXCEPT !.m = IF asked > 0 /\ asked >= r.n THEN asked
                     ELSE IF r.n <= 2 \/ r.n >= 10 THEN r.n
                     ELSE IF r.n <= 6 THEN r.n + 3 ELSE 10]

TTLs     == cfg.begin .. cfg.hops
Attempts == [ttl : TTLs, i : 0 .. cfg.m - 1]

\* The channels waitAllReady counts; "udp" is never closed, "out" at once but on macOS.
Listeners ==
  CASE cfg.method \in {"icmp4", "icmp6"} -> {"icmp"}
    [] cfg.method \in {"tcp4", "tcp6"} -> {"icmp", "tcp"}
    [] cfg.method = "udp6" -> {"icmp", "udp"}
    [] OTHER -> {"out", "icmp", "udp"}

\* n is the length of the bucket, valid whether it holds a reply, from the attempts that
\* filled it, each with the attempt whose probe was answered.
EmptyBucket == [n |-> 0, valid |-> FALSE, from |-> {}, tailDone |-> FALSE]

Init ==
  /\ cfg \in {deriveMaxAttempts(applyTracerouteDefaults(r)) : r \in Traces}
  /\ tr = [started |-> cfg.begin - 1, final |-> -1, printed |-> cfg.begin - 1, ctx |-> "live",
           returned |-> FALSE, panicked |-> FALSE, len |-> cfg.hops,
           up |-> IF cfg.method = "udp4" THEN {"out"} ELSE {}, waiting |-> Cardinality(Listeners)]
  /\ att = [a \in Attempts |-> [s |-> "none", port |-> 0, size |-> 0, timer |-> "off"]]
  /\ pending = {}
  /\ sentAt = {}
  /\ matchQ = {}
  /\ adding = {}
  /\ hops = [t \in TTLs |-> EmptyBucket]
  /\ out = [q |-> [t \in TTLs |-> <<>>], wire |-> <<>>]

TTLComp(t) == t <= tr.len /\ hops[t].n >= cfg.n

BeyondFinal(t) == tr.final # -1 /\ t > tr.final

-----------------------------------------------------------------------------
(* Matching: what the methods do differently.                              *)

\* seq = (ttl << 8) | (i & 0xFF), TCP 24 bits; on macOS the IP identification the kernel
\* chooses.
SeqOf(a) ==
  [ttl |-> a.ttl, i |-> IF cfg.method = "udpDarwin" THEN a.i ELSE a.i % cfg.span]

\* The key of pending: the sequence number, for UDP over IPv4 the attempt.
PendingKey(ttl, i) ==
  [ttl |-> ttl, i |-> IF cfg.method \in {"udp4", "udpDarwin"} THEN i ELSE i % cfg.span]

\* storeSent: what is known of a probe that is out.
Registration(a, ttl, i, port, size) ==
  [seq |-> SeqOf(a), ttl |-> ttl, i |-> i, port |-> port, size |-> size]
StoreSent(set, r) == {x \in set : x.seq # r.seq} \cup {r}

\* A reply to a's probe: it quotes sequence number and port or, from the TCP port itself,
\* acknowledges seq + 1 + the payload.
Replies(a, dst) ==
  LET quote == [seq |-> SeqOf(a), port |-> att[a].port, ack |-> 0, dst |-> dst, of |-> a.i]
  IN {quote} \cup
     IF dst /\ cfg.method \in {"tcp4", "tcp6"}
     THEN {[quote EXCEPT !.ack = SeqOf(a).i + 1 + att[a].size]} ELSE {}

\* Mutant: the acknowledgement is compared without the payload.
Matching_NoPayload(m) ==
  {r \in sentAt :
     /\ cfg.method \notin {"icmp4", "icmp6"} => r.port = m.port
     /\ IF m.ack = 0 THEN r.seq = m.seq
        ELSE r.seq.ttl = m.seq.ttl /\ r.seq.i + 1 = m.ack}

\* lookupSent with the comparison of the ports, lookupTCPSentByAck.
Matching(m) ==
  {r \in sentAt :
     /\ cfg.method \notin {"icmp4", "icmp6"} => r.port = m.port
     /\ IF m.ack = 0 THEN r.seq = m.seq
        ELSE r.seq.ttl = m.seq.ttl /\ r.seq.i + 1 + r.size = m.ack}

\* The attempt a registration stands for: decoded from seq, on macOS remembered.
Decoded(r) == IF cfg.method = "udpDarwin" THEN [ttl |-> r.ttl, i |-> r.i] ELSE r.seq

-----------------------------------------------------------------------------
(* The Result.                                                             *)

\* Mutant: the last attempt is audited like the others.
AddHop_NoLastAttempt(b, i, ok, of) ==
  LET stored == [b EXCEPT !.n = @ + 1, !.valid = @ \/ ok, !.from = @ \cup {<<i, of>>}]
  IN  IF i < cfg.n - 1 THEN stored
      ELSE IF b.n >= cfg.n \/ b.tailDone \/ ~ (b.valid \/ ok) THEN b
      ELSE [stored EXCEPT !.tailDone = TRUE]

\* Mutant: in a full bucket the newest outcome replaces the tail.
AddHop_Overwrite(b, i, ok, of) ==
  LET stored == [b EXCEPT !.n = @ + 1, !.valid = @ \/ ok, !.from = @ \cup {<<i, of>>}]
  IN  IF i < cfg.n - 1 THEN stored
      ELSE IF b.n >= cfg.n \/ b.tailDone
      THEN [b EXCEPT !.from = {e \in @ : e[1] < cfg.n - 1} \cup {<<i, of>>}]
      ELSE IF b.valid \/ ok \/ i >= cfg.m - 1 THEN [stored EXCEPT !.tailDone = TRUE] ELSE b

\* Result.add: the first N - 1 attempts enter; the N-th entry is audited: it
\* enters if the bucket has a reply, or it is one, or no attempt is left.
AddHop(b, i, ok, of) ==
  LET stored == [b EXCEPT !.n = @ + 1, !.valid = @ \/ ok, !.from = @ \cup {<<i, of>>}]
  IN  IF i < cfg.n - 1 THEN stored
      ELSE IF b.n >= cfg.n \/ b.tailDone THEN b
      ELSE IF b.valid \/ ok \/ i >= cfg.m - 1 THEN [stored EXCEPT !.tailDone = TRUE] ELSE b

\* s.Hops[k] is not bounds-checked: after reduce it may not exist any more.
Record(t, i, ok, of) ==
  IF t <= tr.len
  THEN hops' = [hops EXCEPT ![t] = AddHop(@, i, ok, of)] /\ UNCHANGED tr
  ELSE tr' = [tr EXCEPT !.panicked = TRUE] /\ UNCHANGED hops

-----------------------------------------------------------------------------
(* Launching and sending.                                                  *)

\* close(ready) of a listener that runs.
ListenerReady(l) ==
  /\ l \in Listeners \ (tr.up \cup {"udp"})
  /\ tr' = [tr EXCEPT !.up = @ \cup {l}]
  /\ UNCHANGED <<cfg, att, pending, sentAt, matchQ, adding, hops, out>>

\* waitAllReady counts receptions: a closed channel can be received from more than once.
\* It also ends with the context or after five seconds.  The tenth of a second that follows
\* is enough for the other listeners, unless they are slow.
waitAllReady ==
  /\ tr.waiting > 0
  /\ \/ /\ tr.up # {}
        /\ tr.waiting = 1 /\ ~ cfg.slow => Listeners \ {"udp"} \subseteq tr.up
        /\ tr' = [tr EXCEPT !.waiting = @ - 1]
     \/ (cfg.slow \/ tr.ctx # "live") /\ tr' = [tr EXCEPT !.waiting = 0]
  /\ UNCHANGED <<cfg, att, pending, sentAt, matchQ, adding, hops, out>>

\* The dispatcher starts the first TTL, the others each after TTLInterval.
Dispatch ==
  /\ tr.ctx = "live" /\ tr.waiting = 0
  /\ tr.started < cfg.hops
  /\ ~ BeyondFinal(tr.started + 1)
  /\ tr' = [tr EXCEPT !.started = @ + 1]
  /\ UNCHANGED <<cfg, att, pending, sentAt, matchQ, adding, hops, out>>

\* The launcher of TTL t starts its next attempt.
LaunchTTL(t) ==
  /\ tr.ctx = "live"
  /\ t <= tr.started
  /\ ~ TTLComp(t)
  /\ \E a \in Attempts :
       /\ a.ttl = t /\ att[a].s = "none"
       /\ \A b \in Attempts : b.ttl = t /\ b.i < a.i => att[b].s # "none"
       /\ att' = [att EXCEPT ![a].s = "queued"]
  /\ UNCHANGED <<cfg, tr, pending, sentAt, matchQ, adding, hops, out>>

\* Mutant: a sender waiting for its permit does not see the context.
SkipSend_NoContext(a) ==
  /\ att[a].s = "queued"
  /\ BeyondFinal(a.ttl) \/ TTLComp(a.ttl)
  /\ att' = [att EXCEPT ![a].s = "done"]
  /\ UNCHANGED <<cfg, tr, pending, sentAt, matchQ, adding, hops, out>>

\* The early returns of send: no permit, beyond the final hop, or complete.
SkipSend(a) ==
  /\ att[a].s = "queued"
  /\ tr.ctx # "live" \/ BeyondFinal(a.ttl) \/ TTLComp(a.ttl)
  /\ att' = [att EXCEPT ![a].s = "done"]
  /\ UNCHANGED <<cfg, tr, pending, sentAt, matchQ, adding, hops, out>>

Sending == {a \in Attempts : att[a].s = "sending"}

\* The sender holds a permit, has registered its attempt (on macOS its port too) and
\* started the timeout goroutine; the packet is being sent.
StartSend(a) ==
  /\ att[a].s = "queued"
  /\ tr.ctx = "live" /\ ~ BeyondFinal(a.ttl) /\ ~ TTLComp(a.ttl)
  /\ Cardinality(Sending) < cfg.par
  /\ \E port \in cfg.ports, size \in cfg.sizes :
       /\ att' = [att EXCEPT ![a] = [s |-> "sending", port |-> port, size |-> size, timer |-> "on"]]
       /\ out' = IF cfg.method = "udpDarwin"
                 THEN [out EXCEPT !.q[a.ttl] = Append(@, [i |-> a.i, port |-> port])] ELSE out
  /\ pending' = pending \cup {PendingKey(a.ttl, a.i)}
  /\ UNCHANGED <<cfg, tr, sentAt, matchQ, adding, hops>>

\* The packet is out; on macOS the capture will register it.
SendOK(a) ==
  /\ att[a].s = "sending"
  /\ att' = [att EXCEPT ![a].s = "sent"]
  /\ IF cfg.method = "udpDarwin"
     THEN out' = [out EXCEPT !.wire = Append(@, a)] /\ UNCHANGED sentAt
     ELSE /\ sentAt' = StoreSent(sentAt, Registration(a, 0, 0, att[a].port, att[a].size))
          /\ UNCHANGED out
  /\ UNCHANGED <<cfg, tr, pending, matchQ, adding, hops>>

SendError(a) ==
  /\ cfg.fails
  /\ att[a].s = "sending"
  /\ att' = [att EXCEPT ![a].s = "done"]
  /\ pending' = pending \ {PendingKey(a.ttl, a.i)}
  /\ UNCHANGED <<cfg, tr, sentAt, matchQ, adding, hops, out>>

\* UDP over IPv6: the payload that makes the checksum the sequence number may not exist;
\* nothing is registered then.
NoPayload(a) ==
  /\ cfg.method = "udp6" /\ cfg.fails
  /\ att[a].s = "queued" /\ tr.ctx = "live" /\ ~ BeyondFinal(a.ttl) /\ ~ TTLComp(a.ttl)
  /\ att' = [att EXCEPT ![a].s = "done"]
  /\ UNCHANGED <<cfg, tr, pending, sentAt, matchQ, adding, hops, out>>

\* macOS: the captured packet is given to the attempt at the head of its TTL's queue, if
\* the ports agree.
ListenOut(a) ==
  /\ out.wire # <<>> /\ a = Head(out.wire) /\ tr.ctx = "live"
  /\ LET q == out.q[a.ttl] IN
     IF "out" \in tr.up /\ q # <<>> /\ Head(q).port = att[a].port
     THEN /\ sentAt' = StoreSent(sentAt, Registration(a, a.ttl, Head(q).i, att[a].port, 0))
          /\ out' = [out EXCEPT !.wire = Tail(@), !.q[a.ttl] = Tail(@)]
     ELSE out' = [out EXCEPT !.wire = Tail(@)] /\ UNCHANGED sentAt
  /\ UNCHANGED <<cfg, tr, att, pending, matchQ, adding, hops>>

-----------------------------------------------------------------------------
(* Replies and timeouts.                                                   *)

\* The network answers an attempt, perhaps twice, perhaps before the sender
\* has noted that the packet is out.
Answers(t) == {dst \in BOOLEAN : \E d \in cfg.dists : dst <=> t >= d}

\* handleICMPMessage and the callback of ListenTCP; a reply that finds the queue full, or
\* no listener, is dropped.  A reply no worker could match is left out.
Reply(a, dst) ==
  /\ tr.ctx = "live"
  /\ att[a].s \in {"sending", "sent"}
  /\ dst \in Answers(a.ttl)
  /\ Cardinality(matchQ) < QueueCap
  /\ \E m \in Replies(a, dst) :
       /\ (IF m.ack = 0 THEN "icmp" ELSE "tcp") \in tr.up
       /\ att[a].s = "sending" \/ Matching(m) # {} \/ \E k \in DOMAIN out.wire : out.wire[k] = a
       /\ matchQ' = matchQ \cup {m}
  /\ UNCHANGED <<cfg, tr, att, pending, sentAt, adding, hops, out>>

\* The compare-and-swap loop of addHopWithIndex.
LowerFinal(t) == IF tr.final = -1 \/ t < tr.final THEN t ELSE tr.final

\* Mutant: the reply is used although the timeout has claimed the attempt.
Match_NoClaim(m) ==
  /\ ~ tr.returned
  /\ matchQ' = matchQ \ {m}
  /\ \/ Matching(m) = {} /\ UNCHANGED <<tr, pending, sentAt, adding>>
     \/ \E r \in Matching(m) :
          LET of == Decoded(r) IN
          /\ pending' = pending \ {PendingKey(of.ttl, of.i)}
          /\ IF ~ BeyondFinal(of.ttl)
             THEN /\ tr' = [tr EXCEPT !.final = IF m.dst THEN LowerFinal(of.ttl) ELSE @]
                  /\ adding' = adding \cup {[ttl |-> of.ttl, i |-> of.i, seq |-> r.seq, of |-> m.of]}
                  /\ UNCHANGED sentAt
             ELSE sentAt' = sentAt \ {r} /\ UNCHANGED <<tr, adding>>
  /\ UNCHANGED <<cfg, att, hops, out>>

\* A worker, its ten milliseconds over: it no longer looks at the context.
\* A reply of the destination lowers the final TTL before it is added.
Match(m) ==
  /\ ~ tr.returned
  /\ matchQ' = matchQ \ {m}
  /\ \/ Matching(m) = {} /\ UNCHANGED <<tr, pending, sentAt, adding>>
     \/ \E r \in Matching(m) :
          LET of == Decoded(r)
              key == PendingKey(of.ttl, of.i)
          IN
          /\ pending' = pending \ {key}
          /\ IF key \in pending /\ ~ BeyondFinal(of.ttl)
             THEN /\ tr' = [tr EXCEPT !.final = IF m.dst THEN LowerFinal(of.ttl) ELSE @]
                  /\ adding' = adding \cup {[ttl |-> of.ttl, i |-> of.i, seq |-> r.seq, of |-> m.of]}
                  /\ UNCHANGED sentAt
             ELSE sentAt' = sentAt \ {r} /\ UNCHANGED <<tr, adding>>
  /\ UNCHANGED <<cfg, att, hops, out>>

\* The worker adds the hop under the decoded index and forgets the probe.
AddReply(m) ==
  /\ adding' = adding \ {m}
  /\ sentAt' = {r \in sentAt : r.seq # m.seq}
  /\ Record(m.ttl, m.i, TRUE, m.of)
  /\ UNCHANGED <<cfg, att, pending, matchQ, out>>

\* The timeout goroutine wakes up, by its timer or by the context.
Timeout(a) ==
  /\ ~ tr.panicked
  /\ att[a].timer = "on"
  /\ pending' = pending \ {PendingKey(a.ttl, a.i)}
  /\ att' = [att EXCEPT ![a].timer =
       IF /\ tr.ctx = "live"
          /\ PendingKey(a.ttl, a.i) \in pending
          /\ ~ BeyondFinal(a.ttl) /\ ~ TTLComp(a.ttl)
       THEN "late" ELSE "off"]
  /\ UNCHANGED <<cfg, tr, sentAt, matchQ, adding, hops, out>>

\* It is not in the wait group: Execute may have returned by now.  dropSent, on macOS
\* dropByAttempt.
AddTimeout(a) ==
  /\ ~ tr.panicked
  /\ att[a].timer = "late"
  /\ att' = [att EXCEPT ![a].timer = "off"]
  /\ sentAt' = {r \in sentAt : IF cfg.method = "udpDarwin" THEN <<r.ttl, r.i>> # <<a.ttl, a.i>>
                               ELSE r.seq # SeqOf(a)}
  /\ Record(a.ttl, a.i, FALSE, a.i)
  /\ UNCHANGED <<cfg, pending, matchQ, adding, out>>

-----------------------------------------------------------------------------
(* The end of the trace.                                                   *)

\* Mutant: the printer ends the trace one hop early.
PrintHops_Early ==
  /\ ~ tr.returned /\ tr.ctx # "natural" /\ tr.waiting = 0
  /\ tr.printed < cfg.hops /\ TTLComp(tr.printed + 1)
  /\ tr' = [tr EXCEPT !.printed = @ + 1,
       !.ctx = IF @ = "live" /\ (tr.printed + 2 = tr.final \/ tr.printed + 1 >= cfg.hops)
               THEN "natural" ELSE @]
  /\ UNCHANGED <<cfg, att, pending, sentAt, matchQ, adding, hops, out>>

\* PrintFunc prints the next TTL once it is complete.
PrintHops ==
  /\ ~ tr.returned /\ tr.ctx # "natural" /\ tr.waiting = 0
  /\ tr.printed < cfg.hops /\ TTLComp(tr.printed + 1)
  /\ tr' = [tr EXCEPT !.printed = @ + 1,
       !.ctx = IF @ = "live" /\ (tr.printed + 1 = tr.final \/ tr.printed + 1 >= cfg.hops)
               THEN "natural" ELSE @]
  /\ UNCHANGED <<cfg, att, pending, sentAt, matchQ, adding, hops, out>>

Interrupt ==
  /\ cfg.cancel /\ tr.ctx = "live"
  /\ tr' = [tr EXCEPT !.ctx = "canceled"]
  /\ UNCHANGED <<cfg, att, pending, sentAt, matchQ, adding, hops, out>>

\* Execute: <-ctx.Done(), wg.Wait() for senders and workers, reduce(final).
Return ==
  /\ tr.ctx # "live" /\ ~ tr.returned /\ tr.waiting = 0
  /\ \A a \in Attempts : att[a].s \notin {"queued", "sending"}
  /\ adding = {}
  /\ tr' = [tr EXCEPT !.returned = TRUE, !.len = IF tr.final = -1 THEN @ ELSE tr.final]
  /\ UNCHANGED <<cfg, att, pending, sentAt, matchQ, adding, hops, out>>

-----------------------------------------------------------------------------
(* The goroutines of each tracer.  An attempt's goroutines are its sender  *)
(* and its timeout; Execute is the part of it that starts and ends them.   *)

Launch   == Dispatch \/ \E t \in TTLs : LaunchTTL(t)
Send(a)  == SkipSend(a) \/ StartSend(a) \/ SendOK(a) \/ SendError(a) \/ Timeout(a) \/ AddTimeout(a)
Worker   == (\E m \in matchQ : Match(m)) \/ (\E m \in adding : AddReply(m))
Listen   == (\E l \in Listeners : ListenerReady(l)) \/ \E a \in Attempts, dst \in BOOLEAN : Reply(a, dst)
Execute  == waitAllReady \/ Interrupt \/ Return
Is(m)    == cfg.method = m

ICMPv4Launch  == Is("icmp4") /\ (PrintHops \/ Launch)
ICMPv4Match   == Is("icmp4") /\ Worker
ICMPv4Execute == Is("icmp4") /\ (Listen \/ Execute)
ICMPv4Send    == Is("icmp4") /\ \E a \in Attempts : Send(a)

ICMPv6Launch  == Is("icmp6") /\ (PrintHops \/ Launch)
ICMPv6Match   == Is("icmp6") /\ Worker
ICMPv6Execute == Is("icmp6") /\ (Listen \/ Execute)
ICMPv6Send    == Is("icmp6") /\ \E a \in Attempts : Send(a)

TCPv4Launch  == Is("tcp4") /\ (PrintHops \/ Launch)
TCPv4Match   == Is("tcp4") /\ Worker
TCPv4Execute == Is("tcp4") /\ (Listen \/ Execute)
TCPv4Send    == Is("tcp4") /\ \E a \in Attempts : Send(a)

TCPv6Launch  == Is("tcp6") /\ (PrintHops \/ Launch)
TCPv6Match   == Is("tcp6") /\ Worker
TCPv6Execute == Is("tcp6") /\ (Listen \/ Execute)
TCPv6Send    == Is("tcp6") /\ \E a \in Attempts : Send(a)

IsUDP == cfg.method \in {"udp4", "udpDarwin"}
UDPLaunch  == IsUDP /\ (PrintHops \/ Launch)
UDPMatch   == IsUDP /\ Worker
UDPExecute == IsUDP /\ (Listen \/ Execute \/ \E a \in Attempts : ListenOut(a))
UDPSend    == IsUDP /\ \E a \in Attempts : Send(a)

UDPv6Launch  == Is("udp6") /\ (PrintHops \/ Launch)
UDPv6Match   == Is("udp6") /\ Worker
UDPv6Execute == Is("udp6") /\ (Listen \/ Execute)
UDPv6Send    == Is("udp6") /\ \E a \in Attempts : Send(a) \/ NoPayload(a)

Next ==
  \/ ICMPv4Launch \/ ICMPv4Match \/ ICMPv4Execute \/ ICMPv4Send
  \/ ICMPv6Launch \/ ICMPv6Match \/ ICMPv6Execute \/ ICMPv6Send
  \/ TCPv4Launch \/ TCPv4Match \/ TCPv4Execute \/ TCPv4Send
  \/ TCPv6Launch \/ TCPv6Match \/ TCPv6Execute \/ TCPv6Send
  \/ UDPLaunch \/ UDPMatch \/ UDPExecute \/ UDPSend
  \/ UDPv6Launch \/ UDPv6Match \/ UDPv6Execute \/ UDPv6Send

Spec == Init /\ [][Next]_vars

(***************************************************************************)
(* Every goroutine makes progress: timers fire, sends return, the          *)
(* semaphore wakes its waiters, workers and the printer run, waitAllReady  *)
(* gives up in the end.  Each of these steps is taken at most once per     *)
(* attempt, so fairness for all attempts together is fairness for each.    *)
(* The network owes no reply and the user no interrupt.                    *)
(***************************************************************************)
Fairness ==
  /\ WF_vars(waitAllReady)
  /\ WF_vars(\E l \in Listeners : ListenerReady(l))
  /\ WF_vars(Launch)
  /\ WF_vars(\E a \in Attempts : SkipSend(a) \/ StartSend(a))
  /\ WF_vars(\E a \in Attempts : SendOK(a) \/ SendError(a))
  /\ WF_vars(\E a \in Attempts : Timeout(a) \/ AddTimeout(a))
  /\ WF_vars(\E m \in matchQ : Match(m))
  /\ WF_vars(\E m \in adding : AddReply(m))
  /\ WF_vars(\E a \in Attempts : ListenOut(a))
  /\ WF_vars(PrintHops)
  /\ WF_vars(Return)

FairSpec == Spec /\ Fairness
-----------------------------------------------------------------------------
(* Properties.                                                             *)

\* A sequence number names one attempt: no more attempts than its index field has values.
Distinct == cfg.m <= cfg.span

\* A TTL never holds more than N entries, although add lets the first N - 1
\* attempts in without looking and they may come after the tail.
AtMostN == Distinct => \A t \in TTLs : hops[t].n <= cfg.n

\* An attempt ends in the Result at most once: clearPending gives it to the
\* worker or to the timeout goroutine, never to both, in whatever order the
\* packet is registered, captured, answered and timed out.
RecordedOnce ==
  Distinct =>
    \A t \in TTLs :
      LET recorded == {e[1] : e \in hops[t].from} IN
      /\ hops[t].n = Cardinality(recorded)
      /\ \A a \in Attempts : a.ttl = t /\ att[a].timer = "late" =>
           a.i \notin recorded /\ \A m \in adding : <<m.ttl, m.i>> # <<t, a.i>>
      /\ \A m \in adding : m.ttl = t => m.i \notin recorded

\* An entry holds the answer to its own probe: sequence number and port, an acknowledgement,
\* or the order of the captured packets tell the attempts of a TTL apart, as long as their
\* index fits the sequence number, TCP probes of one port have one size, and on macOS the
\* sends are one at a time, succeed, and find the capture ready.
AnswerOfItsProbe ==
  /\ Distinct
  /\ cfg.method \in {"tcp4", "tcp6"} => \E z \in cfg.sizes : cfg.sizes = {z}
  /\ cfg.method = "udpDarwin" => ~ cfg.fails /\ ~ cfg.slow /\ cfg.par = 1
  => \A t \in TTLs : \A e \in hops[t].from : e[1] = e[2]

\* A TTL is given up as silent only after its last attempt: a full bucket
\* without any reply holds the outcome of attempt M - 1.
SilentOnlyAfterLast ==
  \A t \in TTLs :
    hops[t].n >= cfg.n /\ ~ hops[t].valid => \E e \in hops[t].from : e[1] = cfg.m - 1

\* The buckets of the Result hold what they promise, in every order of replies, timeouts
\* and late sends.
BucketsSound == AtMostN /\ RecordedOnce /\ SilentOnlyAfterLast

\* A trace that ends by itself has N entries at every TTL it reports, even
\* if the final TTL is lowered while it ends.
NaturalIsComplete ==
  tr.ctx = "natural" => \A t \in TTLs : BeyondFinal(t) \/ hops[t].n >= cfg.n

\* Once Execute has returned from a trace that ended by itself, no straggling
\* timeout goroutine changes what it returned, as long as a sequence number names one
\* attempt (else a full bucket may lack an early attempt, which still enters).
ReturnedResultStable ==
  [][Distinct /\ tr.returned /\ tr.ctx = "natural" =>
       \A t \in cfg.begin .. tr.len : hops'[t] = hops[t]]_vars

\* Every TTL that is probed gets its N entries (or turns out to lie beyond the
\* destination) as long as the trace goes on, whatever replies are lost before a listener
\* is ready.
GroupsComplete ==
  \A t \in 1 .. 2 :
    t \in TTLs /\ tr.started >= t ~> \/ t \notin TTLs \/ hops[t].n >= cfg.n
                                     \/ BeyondFinal(t)
                                     \/ tr.ctx # "live"

\* On a path of one length, and with no attempts beyond the N entries of a TTL,
\* the trace ends: by itself or when it is interrupted, whatever is lost.
\* (PrintFunc compares the final TTL with the one just printed; a reply to a
\* surplus attempt, or from a shorter path, may lower it behind the printer.)
Terminates ==
  Cardinality(cfg.dists) = 1 /\ cfg.m = cfg.n ~> tr.returned
=============================================================================
