---------------------------- MODULE TracerProofs ----------------------------
(***************************************************************************)
(* Proofs about Tracer for every method, every number of TTLs, attempts,   *)
(* measurements, ports and permits.  The inductive invariant follows an    *)
(* attempt from its sender to the Result: it is pending, claimed by its    *)
(* timeout goroutine, on its way from a worker, or recorded, and never two *)
(* of these; the buckets count what they recorded; the printer is behind   *)
(* what is complete; and every reply, registration and captured packet     *)
(* still names the attempt whose probe it belongs to.                      *)
(***************************************************************************)
EXTENDS Tracer, FiniteSetTheorems, SequenceTheorems, TLAPS

(***************************************************************************)
(* Types                                                                   *)
(***************************************************************************)
Idx == 0 .. cfg.m - 1

CfgOK ==
  /\ cfg.method \in Methods
  /\ cfg.begin \in Nat \ {0} /\ cfg.hops \in Nat /\ cfg.begin <= cfg.hops
  /\ cfg.n \in Nat \ {0} /\ cfg.m \in Nat /\ cfg.n <= cfg.m
  /\ cfg.par \in Nat /\ cfg.span \in Nat \ {0}
  /\ cfg.ports \subseteq Nat /\ cfg.sizes \subseteq Nat
  /\ cfg.fails \in BOOLEAN /\ cfg.slow \in BOOLEAN /\ cfg.cancel \in BOOLEAN

Progress ==
  [started : Int, final : Int, printed : Int, ctx : {"live", "natural", "canceled"},
   returned : BOOLEAN, panicked : BOOLEAN, len : Int,
   up : SUBSET {"icmp", "tcp", "udp", "out"}, waiting : Nat]

Attempt ==
  [s : {"none", "queued", "sending", "sent", "done"}, port : Nat, size : Nat,
   timer : {"off", "on", "late"}]

Registered == [seq : Attempts, ttl : Nat, i : Nat, port : Nat, size : Nat]
Queued     == [seq : Attempts, port : Nat, ack : Nat, dst : BOOLEAN, of : Idx]
Claimed    == [ttl : TTLs, i : Idx, seq : Attempts, of : Idx]
Bucket     == [n : Nat, valid : BOOLEAN, from : SUBSET (Idx \X Idx), tailDone : BOOLEAN]
Captured   == [i : Idx, port : Nat]

\* tr's bounds: the final TTL is one of the TTLs once it is known.
ProgressOK ==
  /\ tr \in Progress
  /\ tr.final = -1 \/ tr.final \in TTLs
  /\ cfg.begin - 1 <= tr.printed

Types ==
  /\ CfgOK
  /\ ProgressOK
  /\ att \in [Attempts -> Attempt]
  /\ pending \subseteq Attempts
  /\ sentAt \subseteq Registered
  /\ \A r \in sentAt : Decoded(r) \in Attempts
  /\ matchQ \subseteq Queued
  /\ adding \subseteq Claimed
  /\ hops \in [TTLs -> Bucket]
  /\ out \in [q : [TTLs -> Seq(Captured)], wire : Seq(Attempts)]

(***************************************************************************)
(* The buckets                                                             *)
(***************************************************************************)
Rec(t) == {e[1] : e \in hops[t].from}

\* A worker is about to add attempt a, or it is in the Result.
Taken(a) ==
  \/ a.i \in Rec(a.ttl)
  \/ \E m \in adding : m.ttl = a.ttl /\ m.i = a.i

\* An attempt is in one place at most.
OnePlace(a) ==
  /\ att[a].s \in {"none", "queued"} => a \notin pending /\ att[a].timer = "off" /\ ~ Taken(a)
  /\ a \in pending => att[a].timer # "late" /\ ~ Taken(a)
  /\ att[a].timer = "late" => ~ Taken(a)

PlaceInv ==
  Distinct =>
    /\ \A a \in Attempts : OnePlace(a)
    /\ \A m \in adding : m.i \notin Rec(m.ttl)
    /\ \A m1, m2 \in adding : m1.ttl = m2.ttl /\ m1.i = m2.i => m1 = m2

\* A bucket counts the attempts it recorded, of which at most one is audited.
Counts(t) ==
  /\ hops[t].n = Cardinality(Rec(t))
  /\ \A i \in Rec(t) : i >= cfg.n - 1 => hops[t].tailDone
  /\ \A i, j \in Rec(t) : i >= cfg.n - 1 /\ j >= cfg.n - 1 => i = j

CountInv == Distinct => \A t \in TTLs : Counts(t)

\* A bucket without a reply holds timeouts only, each of another attempt, whether or not
\* a sequence number names one attempt.
Silent(t) ==
  ~ hops[t].valid =>
    /\ hops[t].n = Cardinality(Rec(t))
    /\ \A i \in Rec(t) : i >= cfg.n - 1 => cfg.m - 1 \in Rec(t)
    /\ \A a \in Attempts :
         a.ttl = t /\ (att[a].s \in {"none", "queued"} \/ att[a].timer # "off") =>
           a.i \notin Rec(t)

SilentInv ==
  /\ \A a \in Attempts : att[a].s \in {"none", "queued"} => att[a].timer = "off"
  /\ \A t \in TTLs : Silent(t)

(***************************************************************************)
(* The end of the trace                                                    *)
(***************************************************************************)
PrintInv ==
  /\ \A t \in TTLs : t <= tr.printed => hops[t].n >= cfg.n
  /\ tr.ctx = "natural" => tr.printed >= cfg.hops \/ (tr.final # -1 /\ tr.final <= tr.printed)
  /\ tr.returned => adding = {} /\ tr.ctx # "live"
  /\ tr.len = IF tr.returned /\ tr.final # -1 THEN tr.final ELSE cfg.hops

(***************************************************************************)
(* Replies and probes                                                      *)
(***************************************************************************)
IsTCP    == cfg.method \in {"tcp4", "tcp6"}
IsDarwin == cfg.method = "udpDarwin"

\* The conditions under which replies tell the attempts of a TTL apart.
Tellable ==
  /\ Distinct
  /\ IsTCP => \E z \in cfg.sizes : cfg.sizes = {z}
  /\ IsDarwin => ~ cfg.fails /\ ~ cfg.slow /\ cfg.par = 1

\* Whatever refers to a probe on its way to the Result refers to its own attempt.
AnswerInv ==
  Tellable =>
    /\ \A t \in TTLs : \A e \in hops[t].from : e[1] = e[2]
    /\ \A m \in adding : m.i = m.of
    /\ \A m \in matchQ :
         /\ m.seq.i = m.of
         /\ m.ack # 0 => IsTCP /\ \E z \in cfg.sizes : m.ack = m.seq.i + 1 + z
    /\ \A r \in sentAt : Decoded(r) = r.seq /\ (IsTCP => r.size \in cfg.sizes)
    /\ \A a \in Attempts : att[a].s \in {"sending", "sent"} => att[a].size \in cfg.sizes

\* macOS: the attempt at place k of the queue of TTL t.
At(t, k) == [ttl |-> t, i |-> out.q[t][k].i]

OnWire(a) == \E p \in DOMAIN out.wire : out.wire[p] = a

\* The capture is ready before the first probe is out.
CaptureReady ==
  /\ tr.waiting = 0 /\ tr.ctx = "live" => "out" \in tr.up
  /\ tr.started >= cfg.begin => "out" \in tr.up
  /\ \A a \in Attempts : att[a].s # "none" => "out" \in tr.up

\* One packet at a time is being sent, and the packets on the wire have been sent.
WireInv ==
  /\ \A a, b \in Attempts : att[a].s = "sending" /\ att[b].s = "sending" => a = b
  /\ \A p \in DOMAIN out.wire : att[out.wire[p]].s = "sent"
  /\ \A p1, p2 \in DOMAIN out.wire : out.wire[p1] = out.wire[p2] => p1 = p2

\* The queue of a TTL holds the attempts whose packets are on the wire, and last the one
\* that is being sent.
QueueInv ==
  /\ \A t \in TTLs : \A k \in DOMAIN out.q[t] :
       /\ out.q[t][k].port = att[At(t, k)].port
       /\ \/ att[At(t, k)].s = "sending" /\ k = Len(out.q[t])
          \/ OnWire(At(t, k))
  /\ \A t \in TTLs : \A j, k \in DOMAIN out.q[t] : out.q[t][j].i = out.q[t][k].i => j = k
  /\ \A a \in Attempts : att[a].s = "sending" \/ OnWire(a) =>
       \E k \in DOMAIN out.q[a.ttl] : At(a.ttl, k) = a

\* The queues and the wire are in the same order.
OrderInv ==
  \A t \in TTLs : \A j, k \in DOMAIN out.q[t] : \A p \in DOMAIN out.wire :
    j < k /\ out.wire[p] = At(t, k) => \E o \in DOMAIN out.wire : o < p /\ out.wire[o] = At(t, j)

CaptureInv == Tellable /\ IsDarwin => CaptureReady /\ WireInv /\ QueueInv /\ OrderInv

TracerInv ==
  /\ Types
  /\ PlaceInv
  /\ CountInv
  /\ SilentInv
  /\ PrintInv
  /\ AnswerInv
  /\ CaptureInv

-----------------------------------------------------------------------------
(***************************************************************************)
(* The operators                                                           *)
(***************************************************************************)
\* The configuration of a trace: there are at least as many attempts as entries.
LEMMA ConfigSound ==
  ASSUME NEW r \in Traces, cfg = deriveMaxAttempts(applyTracerouteDefaults(r))
  PROVE  CfgOK
<1> DEFINE d == applyTracerouteDefaults(r)
<1>1. r \in TraceConfig /\ r.begin <= r.hops
  BY TracerAssumption
<1> DEFINE n == IF r.n = 0 THEN 3 ELSE r.n
           h == IF r.hops = 0 THEN 30 ELSE r.hops
           p == IF r.par = 0 THEN n * 5 ELSE r.par
<1>a. n \in Nat \ {0} /\ h \in Nat /\ p \in Nat
  BY <1>1 DEF TraceConfig
<1>b. d = [[[r EXCEPT !.hops = h] EXCEPT !.n = n] EXCEPT !.par = p]
  BY DEF applyTracerouteDefaults
<1>c. h = IF r.hops = 0 THEN 30 ELSE r.hops
  OBVIOUS
<1> HIDE DEF n, h, p, d
<1>2. /\ d \in TraceConfig /\ d.n \in Nat \ {0} /\ d.begin = r.begin
      /\ d.hops = IF r.hops = 0 THEN 30 ELSE r.hops
  BY <1>1, <1>a, <1>b, <1>c DEF TraceConfig
<1>3. d.begin <= d.hops
  BY <1>1, <1>2 DEF TraceConfig
<1> DEFINE asked == IF d.m <= 0 /\ d.env > 0 THEN d.env ELSE d.m
           m == IF asked > 0 /\ asked >= d.n THEN asked
                ELSE IF d.n <= 2 \/ d.n >= 10 THEN d.n
                ELSE IF d.n <= 6 THEN d.n + 3 ELSE 10
<1>d. cfg = deriveMaxAttempts(d)
  BY DEF d
<1>4. cfg = [d EXCEPT !.m = m]
  BY <1>d DEF deriveMaxAttempts
<1>5. m \in Nat /\ d.n <= m
  BY <1>2 DEF TraceConfig
<1> HIDE DEF d, m
<1> QED
  BY <1>2, <1>3, <1>4, <1>5 DEF CfgOK, TraceConfig

\* The TTLs and indices are those of the configuration.
LEMMA Ranges ==
  ASSUME CfgOK
  PROVE  /\ TTLs \subseteq Nat \ {0} /\ Idx \subseteq Nat
         /\ \A t \in TTLs, i \in Idx : [ttl |-> t, i |-> i] \in Attempts
         /\ \A a \in Attempts : /\ a.ttl \in TTLs /\ a.i \in Idx
                                /\ a = [ttl |-> a.ttl, i |-> a.i]
         /\ \A i \in Idx : i % cfg.span \in Idx /\ (Distinct => i % cfg.span = i)
         /\ 0 \in Idx /\ cfg.m - 1 \in Idx
<1>1. \A x \in Nat, y \in Nat \ {0} : x % y \in Nat /\ x % y <= x /\ (x < y => x % y = x)
  OBVIOUS
<1>2. cfg.begin \in Nat \ {0} /\ cfg.hops \in Nat /\ cfg.m \in Nat \ {0} /\ cfg.span \in Nat \ {0}
  BY DEF CfgOK
<1>3. TTLs \subseteq Nat \ {0} /\ Idx \subseteq Nat /\ 0 \in Idx /\ cfg.m - 1 \in Idx
  BY <1>2 DEF TTLs, Idx
<1>4. \A i \in Idx : i % cfg.span \in Idx /\ (Distinct => i % cfg.span = i)
  BY <1>1, <1>2 DEF Idx, Distinct
<1>5. Attempts = [ttl : TTLs, i : Idx]
  BY DEF Attempts, Idx
<1> QED
  BY <1>3, <1>4, <1>5

\* What a sequence number and a key of pending are.
LEMMA Names ==
  ASSUME CfgOK, NEW a \in Attempts
  PROVE  /\ SeqOf(a) \in Attempts /\ SeqOf(a).ttl = a.ttl
         /\ PendingKey(a.ttl, a.i) \in Attempts
         /\ Distinct => SeqOf(a) = a /\ PendingKey(a.ttl, a.i) = a
BY Ranges DEF SeqOf, PendingKey

\* What Result.add does to a bucket when it lets an entry in.
Entered(b, c, i, ok, of) ==
  /\ c.n = b.n + 1
  /\ c.valid = (b.valid \/ ok)
  /\ c.from = b.from \cup {<<i, of>>}
  /\ \/ i < cfg.n - 1 /\ c.tailDone = b.tailDone
     \/ /\ i >= cfg.n - 1 /\ b.n < cfg.n /\ ~ b.tailDone
        /\ b.valid \/ ok \/ i >= cfg.m - 1
        /\ c.tailDone

\* Result.add lets an entry in or leaves the bucket as it is, which it does to audited
\* entries only.
LEMMA AddHopSound ==
  ASSUME CfgOK, NEW b \in Bucket, NEW i \in Idx, NEW ok \in BOOLEAN, NEW of \in Idx
  PROVE  /\ AddHop(b, i, ok, of) \in Bucket
         /\ \/ AddHop(b, i, ok, of) = b /\ i >= cfg.n - 1
            \/ Entered(b, AddHop(b, i, ok, of), i, ok, of)
<1> DEFINE v == b.valid \/ ok
           c == [b EXCEPT !.n = @ + 1, !.valid = v, !.from = @ \cup {<<i, of>>}]
           d == [c EXCEPT !.tailDone = TRUE]
<1>0. i \in Nat /\ cfg.n \in Nat /\ cfg.m \in Nat
  BY Ranges DEF CfgOK
<1>u. v \in BOOLEAN
  BY Zenon
<1>v. v = (b.valid \/ ok)
  BY Zenon
<1> HIDE DEF v
<1>f. <<i, of>> \in Idx \X Idx
  OBVIOUS
<1> DEFINE f == b.from \cup {<<i, of>>}
<1>g. f \in SUBSET (Idx \X Idx) /\ c = [b EXCEPT !.n = b.n + 1, !.valid = v, !.from = f]
  BY <1>f DEF Bucket
<1>h. f = b.from \cup {<<i, of>>}
  OBVIOUS
<1> HIDE DEF f, c
<1>1. c \in Bucket /\ c.n = b.n + 1 /\ c.valid = v
      /\ c.from = b.from \cup {<<i, of>>} /\ c.tailDone = b.tailDone
  <2> DEFINE P == SUBSET (Idx \X Idx)
  <2>1. /\ f \in P /\ b \in [n : Nat, valid : BOOLEAN, from : P, tailDone : BOOLEAN]
        /\ Bucket = [n : Nat, valid : BOOLEAN, from : P, tailDone : BOOLEAN]
    BY <1>g DEF Bucket
  <2> HIDE DEF P
  <2> DEFINE B == [n : Nat, valid : BOOLEAN, from : P, tailDone : BOOLEAN]
             c1 == [b EXCEPT !.n = b.n + 1]
             c2 == [c1 EXCEPT !.valid = v]
             c3 == [c2 EXCEPT !.from = f]
  <2>a. c1 \in B /\ c1.n = b.n + 1 /\ c1.tailDone = b.tailDone
    BY <2>1
  <2>b. c = c3
    BY <1>g
  <2> HIDE DEF c1
  <2>c. c2 \in B /\ c2.n = c1.n /\ c2.valid = v /\ c2.tailDone = c1.tailDone
    BY <1>u, <2>a
  <2> HIDE DEF c2
  <2>d. c3 \in B /\ c3.n = c2.n /\ c3.valid = c2.valid /\ c3.from = f
        /\ c3.tailDone = c2.tailDone
    BY <2>1, <2>c
  <2>2. /\ c \in [n : Nat, valid : BOOLEAN, from : P, tailDone : BOOLEAN]
        /\ c.n = b.n + 1 /\ c.valid = v /\ c.from = f /\ c.tailDone = b.tailDone
    BY <2>a, <2>b, <2>c, <2>d, Zenon
  <2> QED
    BY <1>h, <2>1, <2>2
<1>2. d \in Bucket /\ d.n = b.n + 1 /\ d.valid = v
      /\ d.from = b.from \cup {<<i, of>>} /\ d.tailDone
  BY <1>1 DEF Bucket
<1>3. b.n \in Nat
  BY DEF Bucket
<1> HIDE DEF c, d
<1>4. CASE i < cfg.n - 1
  <2>1. AddHop(b, i, ok, of) = c
    BY <1>4 DEF AddHop, c, v
  <2> QED
    BY <1>4, <1>1, <1>v, <2>1, Zenon DEF Entered
<1>5. CASE i >= cfg.n - 1
  <2>0. ~ (i < cfg.n - 1)
    BY <1>5, <1>0
  <2>1. CASE b.n >= cfg.n \/ b.tailDone
    BY <1>5, <2>0, <2>1 DEF AddHop
  <2>2. CASE ~ (b.n >= cfg.n \/ b.tailDone) /\ (b.valid \/ ok \/ i >= cfg.m - 1)
    <3>1. AddHop(b, i, ok, of) = d
      BY <2>0, <2>2 DEF AddHop, d, c, v
    <3>2. b.n < cfg.n
      BY <2>2, <1>0, <1>3
    <3> QED
      BY <1>5, <1>2, <1>v, <3>1, <3>2, <2>2, Zenon DEF Entered
  <2>3. CASE ~ (b.n >= cfg.n \/ b.tailDone) /\ ~ (b.valid \/ ok \/ i >= cfg.m - 1)
    BY <1>5, <2>0, <2>3 DEF AddHop
  <2> QED
    BY <2>1, <2>2, <2>3
<1> QED
  BY <1>0, <1>4, <1>5

\* The channels waitAllReady counts.
LEMMA ListenersSound ==
  ASSUME CfgOK
  PROVE  /\ Listeners \subseteq {"icmp", "tcp", "udp", "out"}
         /\ IsFiniteSet(Listeners) /\ Cardinality(Listeners) \in Nat \ {0}
         /\ IsDarwin => Listeners = {"out", "icmp", "udp"}
<1>1. Listeners \in {{"icmp"}, {"icmp", "tcp"}, {"icmp", "udp"}, {"out", "icmp", "udp"}}
  BY Zenon DEF Listeners
<1>2. IsDarwin => Listeners = {"out", "icmp", "udp"}
  <2>1. /\ "udpDarwin" \notin {"icmp4", "icmp6"} /\ "udpDarwin" \notin {"tcp4", "tcp6"}
        /\ "udpDarwin" # "udp6"
    OBVIOUS
  <2> QED
    BY <2>1, Zenon DEF Listeners, IsDarwin
<1>3. /\ Listeners \subseteq {"icmp", "tcp", "udp", "out"}
      /\ "icmp" \in Listeners
  BY <1>1
<1>4. IsFiniteSet({"icmp", "tcp", "udp", "out"})
  <2>1. IsFiniteSet({"icmp"}) /\ IsFiniteSet({"tcp"}) /\ IsFiniteSet({"udp"}) /\ IsFiniteSet({"out"})
    BY FS_Singleton
  <2>2. IsFiniteSet({"icmp"} \cup {"tcp"}) /\ IsFiniteSet({"udp"} \cup {"out"})
    BY <2>1, FS_Union
  <2>3. IsFiniteSet(({"icmp"} \cup {"tcp"}) \cup ({"udp"} \cup {"out"}))
    BY <2>2, FS_Union
  <2>4. {"icmp", "tcp", "udp", "out"} = ({"icmp"} \cup {"tcp"}) \cup ({"udp"} \cup {"out"})
    OBVIOUS
  <2> QED
    BY <2>3, <2>4
<1>5. IsFiniteSet(Listeners) /\ Cardinality(Listeners) \in Nat
  BY <1>3, <1>4, FS_Subset, FS_CardinalityType
<1>6. Cardinality(Listeners) # 0
  BY <1>3, <1>5, FS_EmptySet
<1> QED
  BY <1>2, <1>3, <1>5, <1>6

\* The configuration never changes, nor what depends on it alone.
LEMMA ConfigFixed ==
  ASSUME cfg' = cfg
  PROVE  /\ TTLs' = TTLs /\ Attempts' = Attempts /\ Idx' = Idx
         /\ Registered' = Registered /\ Queued' = Queued /\ Claimed' = Claimed
         /\ Bucket' = Bucket /\ Captured' = Captured
         /\ CfgOK' <=> CfgOK
         /\ Distinct' <=> Distinct
         /\ Tellable' <=> Tellable
         /\ IsDarwin' <=> IsDarwin
         /\ IsTCP' <=> IsTCP
         /\ \A r : Decoded(r)' = Decoded(r)
<1>1. TTLs' = TTLs /\ Attempts' = Attempts /\ Idx' = Idx
  BY DEF TTLs, Attempts, Idx
<1>2. Registered' = Registered /\ Queued' = Queued /\ Claimed' = Claimed
  BY <1>1 DEF Registered, Queued, Claimed
<1>3. Bucket' = Bucket /\ Captured' = Captured
  BY <1>1 DEF Bucket, Captured
<1>4. CfgOK' <=> CfgOK
  BY DEF CfgOK
<1>5. /\ Distinct' <=> Distinct
      /\ Tellable' <=> Tellable
      /\ IsDarwin' <=> IsDarwin
      /\ IsTCP' <=> IsTCP
  BY DEF Distinct, Tellable, IsDarwin, IsTCP
<1>6. \A r : Decoded(r)' = Decoded(r)
  BY DEF Decoded
<1> QED
  BY <1>1, <1>2, <1>3, <1>4, <1>5, <1>6

\* A goroutine of attempt a moves on.
LEMMA SetSender ==
  ASSUME att \in [Attempts -> Attempt], NEW a \in Attempts,
         NEW s \in {"none", "queued", "sending", "sent", "done"},
         att' = [att EXCEPT ![a].s = s]
  PROVE  /\ att' \in [Attempts -> Attempt]
         /\ att'[a].s = s /\ att'[a].timer = att[a].timer
         /\ att'[a].port = att[a].port /\ att'[a].size = att[a].size
         /\ \A b \in Attempts : b # a => att'[b] = att[b]
BY DEF Attempt

LEMMA SetTimer ==
  ASSUME att \in [Attempts -> Attempt], NEW a \in Attempts, NEW z \in {"off", "on", "late"},
         att' = [att EXCEPT ![a].timer = z]
  PROVE  /\ att' \in [Attempts -> Attempt]
         /\ att'[a].timer = z /\ att'[a].s = att[a].s
         /\ att'[a].port = att[a].port /\ att'[a].size = att[a].size
         /\ \A b \in Attempts : b # a => att'[b] = att[b]
BY DEF Attempt

(***************************************************************************)
(* What the actions do                                                     *)
(***************************************************************************)
\* The steps of the dispatcher, the printer and Execute, which change tr alone.
ControlStep ==
  \/ \E l \in Listeners : ListenerReady(l)
  \/ waitAllReady \/ Dispatch \/ PrintHops \/ Interrupt \/ Return

\* The steps of a sender that change nothing but its attempt.
SenderStep ==
  \/ \E t \in TTLs : LaunchTTL(t)
  \/ \E a \in Attempts : SkipSend(a) \/ NoPayload(a)

\* The next-state relation, one disjunct per goroutine step.
LEMMA NextCases ==
  ASSUME Next
  PROVE  \/ ControlStep
         \/ SenderStep
         \/ \E a \in Attempts : StartSend(a)
         \/ \E a \in Attempts : SendOK(a)
         \/ \E a \in Attempts : SendError(a)
         \/ \E a \in Attempts : IsUDP /\ ListenOut(a)
         \/ \E a \in Attempts, dst \in BOOLEAN : Reply(a, dst)
         \/ \E m \in matchQ : Match(m)
         \/ \E m \in adding : AddReply(m)
         \/ \E a \in Attempts : Timeout(a)
         \/ \E a \in Attempts : AddTimeout(a)
<1>1. Launch => ControlStep \/ SenderStep
  BY Zenon DEF Launch, ControlStep, SenderStep
<1>2. PrintHops \/ Execute \/ (\E l \in Listeners : ListenerReady(l)) => ControlStep
  BY Zenon DEF Execute, ControlStep
<1>3. \A a \in Attempts : NoPayload(a) \/ SkipSend(a) => SenderStep
  BY Zenon DEF SenderStep
<1>4. \/ PrintHops \/ Launch \/ Worker \/ Listen \/ Execute
      \/ (\E a \in Attempts : Send(a)) \/ (\E a \in Attempts : NoPayload(a))
      \/ IsUDP /\ \E a \in Attempts : ListenOut(a)
  BY Zenon DEF Next, ICMPv4Launch, ICMPv4Match, ICMPv4Execute, ICMPv4Send, ICMPv6Launch,
     ICMPv6Match, ICMPv6Execute, ICMPv6Send, TCPv4Launch, TCPv4Match, TCPv4Execute,
     TCPv4Send, TCPv6Launch, TCPv6Match, TCPv6Execute, TCPv6Send, UDPLaunch, UDPMatch,
     UDPExecute, UDPSend, UDPv6Launch, UDPv6Match, UDPv6Execute, UDPv6Send
<1> QED
  BY <1>1, <1>2, <1>3, <1>4, Zenon DEF Worker, Listen, Send

\* tr's fields that say how far the trace is.
SameEnd == /\ tr'.printed = tr.printed /\ tr'.ctx = tr.ctx /\ tr'.final = tr.final
           /\ tr'.returned = tr.returned /\ tr'.len = tr.len
SameStart == tr'.up = tr.up /\ tr'.waiting = tr.waiting /\ tr'.started = tr.started

LEMMA ControlEffect ==
  ASSUME Types, ControlStep
  PROVE  /\ UNCHANGED <<cfg, att, pending, sentAt, matchQ, adding, hops, out>>
         /\ ProgressOK'
<1>0. CfgOK /\ tr \in Progress /\ (tr.final = -1 \/ tr.final \in TTLs) /\ cfg.begin - 1 <= tr.printed
  BY DEF Types, ProgressOK
<1>1. UNCHANGED <<cfg, att, pending, sentAt, matchQ, adding, hops, out>>
  BY Zenon DEF ControlStep, ListenerReady, waitAllReady, Dispatch, PrintHops, Interrupt, Return
<1>2. TTLs' = TTLs /\ cfg' = cfg
  BY <1>1, ConfigFixed
<1>n. cfg.hops \in Int /\ cfg.begin \in Int
  BY <1>0 DEF CfgOK
<1>3. ASSUME NEW l \in Listeners, ListenerReady(l) PROVE ProgressOK'
  <2>1. l \in {"icmp", "tcp", "udp", "out"}
    BY <1>0, ListenersSound
  <2> QED
    BY <1>0, <1>2, <1>3, <2>1 DEF ListenerReady, ProgressOK, Progress
<1>4. ASSUME waitAllReady PROVE ProgressOK'
  <2>1. tr.waiting \in Nat /\ tr.waiting > 0
    BY <1>0, <1>4 DEF waitAllReady, Progress
  <2>2. PICK w \in Nat : tr' = [tr EXCEPT !.waiting = w]
    <3>1. tr.waiting - 1 \in Nat /\ 0 \in Nat
      BY <2>1
    <3> QED
      BY <1>4, <3>1, Zenon DEF waitAllReady
  <2> QED
    BY <1>0, <1>2, <2>2 DEF ProgressOK, Progress
<1>5. ASSUME Dispatch PROVE ProgressOK'
  BY <1>0, <1>2, <1>5 DEF Dispatch, ProgressOK, Progress
<1>6. ASSUME PrintHops PROVE ProgressOK'
  <2>1. PICK c \in {"live", "natural", "canceled"}, p \in Int :
          tr' = [tr EXCEPT !.printed = p, !.ctx = c] /\ p = tr.printed + 1
    <3> DEFINE p == tr.printed + 1
    <3> DEFINE c == IF tr.ctx = "live" /\ (tr.printed + 1 = tr.final \/ tr.printed + 1 >= cfg.hops)
                    THEN "natural" ELSE tr.ctx
    <3>1. c \in {"live", "natural", "canceled"} /\ p \in Int /\ p = tr.printed + 1
      BY <1>0 DEF Progress
    <3>2. tr' = [tr EXCEPT !.printed = p, !.ctx = c]
      BY <1>6 DEF PrintHops
    <3> QED
      BY <3>1, <3>2, Zenon
  <2>2. tr' \in Progress /\ tr'.printed = p /\ tr'.final = tr.final
    BY <1>0, <2>1 DEF Progress
  <2>3. cfg.begin - 1 <= p
    BY <1>0, <1>n, <2>1 DEF Progress
  <2> QED
    BY <1>0, <1>2, <2>2, <2>3 DEF ProgressOK
<1>7. ASSUME Interrupt PROVE ProgressOK'
  BY <1>0, <1>2, <1>7 DEF Interrupt, ProgressOK, Progress
<1>8. ASSUME Return PROVE ProgressOK'
  <2>1. PICK l \in Int : tr' = [tr EXCEPT !.returned = TRUE, !.len = l]
    <3> DEFINE l == IF tr.final = -1 THEN tr.len ELSE tr.final
    <3>1. l \in Int
      BY <1>0 DEF Progress
    <3>2. tr' = [tr EXCEPT !.returned = TRUE, !.len = l]
      BY <1>8 DEF Return
    <3> QED
      BY <3>1, <3>2, Zenon
  <2> QED
    BY <1>0, <1>2, <2>1 DEF ProgressOK, Progress
<1> QED
  BY <1>1, <1>3, <1>4, <1>5, <1>6, <1>7, <1>8, Zenon DEF ControlStep

LEMMA SenderEffect ==
  ASSUME Types, SenderStep
  PROVE  /\ UNCHANGED <<cfg, tr, pending, sentAt, matchQ, adding, hops, out>>
         /\ att' \in [Attempts -> Attempt]
         /\ \E a \in Attempts :
              /\ \/ att[a].s = "none" /\ att'[a].s = "queued" /\ tr.started >= a.ttl
                 \/ att[a].s = "queued" /\ att'[a].s = "done"
              /\ att'[a].timer = att[a].timer
              /\ att'[a].port = att[a].port /\ att'[a].size = att[a].size
              /\ \A b \in Attempts : b # a => att'[b] = att[b]
<1>0. CfgOK /\ tr \in Progress /\ att \in [Attempts -> Attempt]
  BY DEF Types, ProgressOK
<1>1. UNCHANGED <<cfg, tr, pending, sentAt, matchQ, adding, hops, out>>
  BY Zenon DEF SenderStep, LaunchTTL, SkipSend, NoPayload
<1>2. ASSUME NEW t \in TTLs, LaunchTTL(t)
      PROVE  /\ att' \in [Attempts -> Attempt]
             /\ \E a \in Attempts :
                  /\ att[a].s = "none" /\ att'[a].s = "queued" /\ tr.started >= a.ttl
                  /\ att'[a].timer = att[a].timer
                  /\ att'[a].port = att[a].port /\ att'[a].size = att[a].size
                  /\ \A b \in Attempts : b # a => att'[b] = att[b]
  <2>1. PICK a \in Attempts : /\ a.ttl = t /\ att[a].s = "none"
                              /\ att' = [att EXCEPT ![a].s = "queued"]
    BY <1>2 DEF LaunchTTL
  <2>2. tr.started >= a.ttl
    BY <1>0, <1>2, <2>1, Ranges DEF LaunchTTL, Progress
  <2> QED
    BY <1>0, <2>1, <2>2, SetSender
<1>3. ASSUME NEW a \in Attempts, SkipSend(a) \/ NoPayload(a)
      PROVE  /\ att' \in [Attempts -> Attempt]
             /\ att[a].s = "queued" /\ att'[a].s = "done"
             /\ att'[a].timer = att[a].timer
             /\ att'[a].port = att[a].port /\ att'[a].size = att[a].size
             /\ \A b \in Attempts : b # a => att'[b] = att[b]
  <2>1. att[a].s = "queued" /\ att' = [att EXCEPT ![a].s = "done"]
    BY <1>3, Zenon DEF SkipSend, NoPayload
  <2> QED
    BY <1>0, <2>1, SetSender
<1> QED
  BY <1>1, <1>2, <1>3 DEF SenderStep

\* markPending and the start of the timeout goroutine.
LEMMA StartEffect ==
  ASSUME Types, NEW a \in Attempts, StartSend(a)
  PROVE  /\ UNCHANGED <<cfg, tr, sentAt, matchQ, adding, hops>>
         /\ pending' = pending \cup {PendingKey(a.ttl, a.i)}
         /\ att' \in [Attempts -> Attempt]
         /\ att[a].s = "queued" /\ att'[a].s = "sending" /\ att'[a].timer = "on"
         /\ att'[a].size \in cfg.sizes
         /\ \A b \in Attempts : b # a => att'[b] = att[b]
         /\ out' \in [q : [TTLs -> Seq(Captured)], wire : Seq(Attempts)]
         /\ out'.wire = out.wire
         /\ IF IsDarwin
            THEN /\ out'.q[a.ttl] = Append(out.q[a.ttl], [i |-> a.i, port |-> att'[a].port])
                 /\ \A t \in TTLs : t # a.ttl => out'.q[t] = out.q[t]
            ELSE out' = out
<1>0. CfgOK /\ tr \in Progress /\ att \in [Attempts -> Attempt]
      /\ out \in [q : [TTLs -> Seq(Captured)], wire : Seq(Attempts)]
  BY DEF Types, ProgressOK
<1>1. PICK port \in cfg.ports, size \in cfg.sizes :
        /\ att' = [att EXCEPT ![a] = [s |-> "sending", port |-> port, size |-> size, timer |-> "on"]]
        /\ out' = IF cfg.method = "udpDarwin"
                  THEN [out EXCEPT !.q[a.ttl] = Append(@, [i |-> a.i, port |-> port])] ELSE out
  BY DEF StartSend
<1>2. port \in Nat /\ size \in Nat /\ a.ttl \in TTLs /\ a.i \in Idx
  BY <1>0, Ranges DEF CfgOK
<1>3. /\ att' \in [Attempts -> Attempt]
      /\ att'[a] = [s |-> "sending", port |-> port, size |-> size, timer |-> "on"]
      /\ \A b \in Attempts : b # a => att'[b] = att[b]
  BY <1>0, <1>1, <1>2 DEF Attempt
<1>4. UNCHANGED <<cfg, tr, sentAt, matchQ, adding, hops>> /\ att[a].s = "queued"
      /\ pending' = pending \cup {PendingKey(a.ttl, a.i)}
  BY DEF StartSend
<1>5. CASE IsDarwin
  <2>1. [i |-> a.i, port |-> port] \in Captured
    BY <1>2 DEF Captured
  <2> DEFINE c == [i |-> a.i, port |-> port]
             s == Append(out.q[a.ttl], c)
  <2>2. out' = [out EXCEPT !.q[a.ttl] = s]
    BY <1>1, <1>5 DEF IsDarwin
  <2> HIDE DEF c
  <2>3. s \in Seq(Captured)
    BY <1>0, <1>2, <2>1 DEF c
  <2> HIDE DEF s
  <2>4. /\ out' \in [q : [TTLs -> Seq(Captured)], wire : Seq(Attempts)]
        /\ out'.wire = out.wire /\ out'.q[a.ttl] = s
        /\ \A t \in TTLs : t # a.ttl => out'.q[t] = out.q[t]
    BY <1>0, <1>2, <2>2, <2>3
  <2> QED
    BY <1>3, <1>4, <1>5, <2>4 DEF s, c
<1>6. CASE ~ IsDarwin
  <2>1. out' = out
    BY <1>1, <1>6 DEF IsDarwin
  <2> QED
    BY <1>0, <1>3, <1>4, <1>6, <2>1
<1> QED
  BY <1>5, <1>6

\* The packet is registered, on macOS it goes past the capture first.
LEMMA SendOKEffect ==
  ASSUME Types, NEW a \in Attempts, SendOK(a)
  PROVE  /\ UNCHANGED <<cfg, tr, pending, matchQ, adding, hops>>
         /\ att' \in [Attempts -> Attempt]
         /\ att[a].s = "sending" /\ att'[a].s = "sent"
         /\ att'[a].timer = att[a].timer
         /\ att'[a].port = att[a].port /\ att'[a].size = att[a].size
         /\ \A b \in Attempts : b # a => att'[b] = att[b]
         /\ out' \in [q : [TTLs -> Seq(Captured)], wire : Seq(Attempts)]
         /\ out'.q = out.q
         /\ IF IsDarwin
            THEN out'.wire = Append(out.wire, a) /\ sentAt' = sentAt
            ELSE out' = out
         /\ sentAt' \subseteq Registered
         /\ \A r \in sentAt' : Decoded(r) \in Attempts
         /\ \A r \in sentAt' : r \in sentAt \/ (~ IsDarwin /\ r.size = att[a].size)
<1>0. CfgOK /\ att \in [Attempts -> Attempt] /\ sentAt \subseteq Registered
      /\ out \in [q : [TTLs -> Seq(Captured)], wire : Seq(Attempts)]
      /\ \A r \in sentAt : Decoded(r) \in Attempts
  BY DEF Types
<1>1. /\ UNCHANGED <<cfg, tr, pending, matchQ, adding, hops>>
      /\ att[a].s = "sending" /\ att' = [att EXCEPT ![a].s = "sent"]
  BY DEF SendOK
<1>2. /\ att' \in [Attempts -> Attempt] /\ att'[a].s = "sent"
      /\ att'[a].timer = att[a].timer
      /\ att'[a].port = att[a].port /\ att'[a].size = att[a].size
      /\ \A b \in Attempts : b # a => att'[b] = att[b]
  BY <1>0, <1>1, SetSender
<1>3. CASE IsDarwin
  <2>1. out' = [out EXCEPT !.wire = Append(@, a)] /\ sentAt' = sentAt
    BY <1>3 DEF SendOK, IsDarwin
  <2> DEFINE w == Append(out.wire, a)
  <2>w. w \in Seq(Attempts) /\ out' = [out EXCEPT !.wire = w]
    BY <1>0, <2>1
  <2> HIDE DEF w
  <2>3. /\ out' \in [q : [TTLs -> Seq(Captured)], wire : Seq(Attempts)]
        /\ out'.q = out.q /\ out'.wire = w
    BY <1>0, <2>w
  <2>2. /\ out' \in [q : [TTLs -> Seq(Captured)], wire : Seq(Attempts)]
        /\ out'.q = out.q /\ out'.wire = Append(out.wire, a)
    BY <2>3 DEF w
  <2> QED
    BY <1>0, <1>1, <1>2, <1>3, <2>1, <2>2
<1>4. CASE ~ IsDarwin
  <2> DEFINE r == [seq |-> SeqOf(a), ttl |-> 0, i |-> 0, port |-> att[a].port, size |-> att[a].size]
  <2>1. out' = out /\ sentAt' = {x \in sentAt : x.seq # r.seq} \cup {r}
    BY <1>4 DEF SendOK, IsDarwin, StoreSent, Registration
  <2>2. SeqOf(a) \in Attempts /\ att[a].port \in Nat /\ att[a].size \in Nat
    BY <1>0, Names DEF Attempt
  <2>3. r \in Registered /\ r.size = att[a].size /\ r.seq = SeqOf(a)
    BY <2>2 DEF Registered
  <2> HIDE DEF r
  <2>4. Decoded(r) \in Attempts
    BY <1>4, <2>2, <2>3 DEF Decoded, IsDarwin
  <2> QED
    BY <1>0, <1>1, <1>2, <1>4, <2>1, <2>3, <2>4
<1> QED
  BY <1>3, <1>4

LEMMA SendErrorEffect ==
  ASSUME Types, NEW a \in Attempts, SendError(a)
  PROVE  /\ UNCHANGED <<cfg, tr, sentAt, matchQ, adding, hops, out>>
         /\ cfg.fails
         /\ pending' \subseteq pending
         /\ att' \in [Attempts -> Attempt]
         /\ att[a].s = "sending" /\ att'[a].s = "done"
         /\ att'[a].timer = att[a].timer
         /\ att'[a].port = att[a].port /\ att'[a].size = att[a].size
         /\ \A b \in Attempts : b # a => att'[b] = att[b]
<1>0. att \in [Attempts -> Attempt]
  BY DEF Types
<1>1. /\ UNCHANGED <<cfg, tr, sentAt, matchQ, adding, hops, out>> /\ cfg.fails
      /\ att[a].s = "sending" /\ att' = [att EXCEPT ![a].s = "done"]
      /\ pending' \subseteq pending
  BY DEF SendError
<1> QED
  BY <1>0, <1>1, SetSender

\* macOS: the capture gives the packet to the head of its queue.
LEMMA ListenOutEffect ==
  ASSUME Types, NEW a \in Attempts, IsUDP, ListenOut(a)
  PROVE  /\ UNCHANGED <<cfg, tr, att, pending, matchQ, adding, hops>>
         /\ out.wire # <<>> /\ a = Head(out.wire)
         /\ out' \in [q : [TTLs -> Seq(Captured)], wire : Seq(Attempts)]
         /\ out'.wire = Tail(out.wire)
         /\ sentAt' \subseteq Registered
         /\ \A r \in sentAt' : Decoded(r) \in Attempts
         /\ ~ IsTCP
         /\ IF /\ "out" \in tr.up /\ out.q[a.ttl] # <<>>
               /\ Head(out.q[a.ttl]).port = att[a].port
            THEN /\ out'.q[a.ttl] = Tail(out.q[a.ttl])
                 /\ \A t \in TTLs : t # a.ttl => out'.q[t] = out.q[t]
                 /\ \A r \in sentAt' :
                      \/ r \in sentAt
                      \/ r.seq = SeqOf(a) /\ r.ttl = a.ttl /\ r.i = Head(out.q[a.ttl]).i
            ELSE sentAt' = sentAt
<1>0. CfgOK /\ att \in [Attempts -> Attempt] /\ sentAt \subseteq Registered
      /\ out \in [q : [TTLs -> Seq(Captured)], wire : Seq(Attempts)]
      /\ \A r \in sentAt : Decoded(r) \in Attempts
  BY DEF Types
<1> DEFINE q == out.q[a.ttl]
           Given == "out" \in tr.up /\ q # <<>> /\ Head(q).port = att[a].port
           w == Tail(out.wire)
<1>1. /\ UNCHANGED <<cfg, tr, att, pending, matchQ, adding, hops>>
      /\ out.wire # <<>> /\ a = Head(out.wire)
  BY DEF ListenOut
<1>2. ~ IsTCP
  BY DEF IsUDP, IsTCP
<1>3. w \in Seq(Attempts)
  BY <1>0, <1>1
<1>t. a.ttl \in TTLs /\ a.i \in Idx /\ q \in Seq(Captured) /\ SeqOf(a) \in Attempts
  BY <1>0, Ranges, Names
<1>4. CASE Given
  <2> DEFINE s == Tail(q)
             r == [seq |-> SeqOf(a), ttl |-> a.ttl, i |-> Head(q).i, port |-> att[a].port, size |-> 0]
  <2>1. out' = [out EXCEPT !.wire = w, !.q[a.ttl] = s]
    BY <1>4 DEF ListenOut
  <2>2. sentAt' = {x \in sentAt : x.seq # r.seq} \cup {r}
    BY <1>4 DEF ListenOut, StoreSent, Registration
  <2>3. s \in Seq(Captured) /\ Head(q) \in Captured
    BY <1>t, <1>4
  <2>4. Head(q).i \in Idx /\ Head(q).i \in Nat /\ a.ttl \in Nat /\ att[a].port \in Nat
    BY <1>0, <1>t, <2>3, Ranges DEF Captured, Attempt
  <2>5. r \in Registered /\ r.seq = SeqOf(a) /\ r.ttl = a.ttl /\ r.i = Head(q).i
    BY <1>t, <2>4 DEF Registered
  <2> HIDE DEF s, r, w
  <2>6. Decoded(r) \in Attempts
    BY <1>0, <1>t, <2>4, <2>5, Ranges DEF Decoded
  <2>7. /\ out' \in [q : [TTLs -> Seq(Captured)], wire : Seq(Attempts)]
        /\ out'.wire = w /\ out'.q[a.ttl] = s
        /\ \A t \in TTLs : t # a.ttl => out'.q[t] = out.q[t]
    BY <1>0, <1>3, <1>t, <2>1, <2>3
  <2>8. sentAt' \subseteq Registered /\ \A x \in sentAt' : Decoded(x) \in Attempts
    BY <1>0, <2>2, <2>5, <2>6
  <2>9. \A x \in sentAt' : \/ x \in sentAt
                           \/ x.seq = SeqOf(a) /\ x.ttl = a.ttl /\ x.i = Head(q).i
    BY <2>2, <2>5
  <2> QED
    BY <1>1, <1>2, <1>4, <2>7, <2>8, <2>9 DEF w, s
<1>5. CASE ~ Given
  <2>1. out' = [out EXCEPT !.wire = w] /\ sentAt' = sentAt
    BY <1>5 DEF ListenOut
  <2> HIDE DEF w
  <2>2. /\ out' \in [q : [TTLs -> Seq(Captured)], wire : Seq(Attempts)]
        /\ out'.wire = w
    BY <1>0, <1>3, <2>1
  <2> QED
    BY <1>0, <1>1, <1>2, <1>5, <2>1, <2>2 DEF w
<1> QED
  BY <1>4, <1>5

\* A reply to an attempt whose packet may be out is queued.
LEMMA ReplyEffect ==
  ASSUME Types, NEW a \in Attempts, NEW dst \in BOOLEAN, Reply(a, dst)
  PROVE  /\ UNCHANGED <<cfg, tr, att, pending, sentAt, adding, hops, out>>
         /\ att[a].s \in {"sending", "sent"}
         /\ matchQ' \subseteq Queued
         /\ \A m \in matchQ' :
              \/ m \in matchQ
              \/ /\ m.seq = SeqOf(a) /\ m.of = a.i
                 /\ m.ack # 0 => IsTCP /\ m.ack = SeqOf(a).i + 1 + att[a].size
<1>0. CfgOK /\ att \in [Attempts -> Attempt] /\ matchQ \subseteq Queued
  BY DEF Types
<1>1. /\ UNCHANGED <<cfg, tr, att, pending, sentAt, adding, hops, out>>
      /\ att[a].s \in {"sending", "sent"}
  BY DEF Reply
<1>2. PICK m \in Replies(a, dst) : matchQ' = matchQ \cup {m}
  BY DEF Reply
<1> DEFINE k == SeqOf(a).i + 1 + att[a].size
           q == [seq |-> SeqOf(a), port |-> att[a].port, ack |-> 0, dst |-> dst, of |-> a.i]
<1>3. m = q \/ (IsTCP /\ m = [q EXCEPT !.ack = k])
  BY <1>2 DEF Replies, IsTCP
<1>4. SeqOf(a) \in Attempts /\ att[a].port \in Nat /\ a.i \in Idx /\ k \in Nat
  <2>1. SeqOf(a) \in Attempts /\ att[a].port \in Nat /\ a.i \in Idx /\ att[a].size \in Nat
    BY <1>0, Names, Ranges DEF Attempt
  <2>2. SeqOf(a).i \in Nat
    BY <1>0, <2>1, Ranges
  <2> QED
    BY <2>1, <2>2
<1> HIDE DEF k
<1>5. m \in Queued /\ m.seq = SeqOf(a) /\ m.of = a.i /\ (m.ack # 0 => IsTCP /\ m.ack = k)
  BY <1>3, <1>4 DEF Queued
<1> QED
  BY <1>0, <1>1, <1>2, <1>5 DEF k

\* A worker matches a reply: nothing, a claim lost, or a claim won.
LEMMA MatchEffect ==
  ASSUME Types, NEW m \in matchQ, Match(m)
  PROVE  /\ UNCHANGED <<cfg, att, hops, out>>
         /\ ~ tr.returned
         /\ ProgressOK'
         /\ SameStart /\ tr'.printed = tr.printed /\ tr'.ctx = tr.ctx
         /\ tr'.returned = tr.returned /\ tr'.len = tr.len
         /\ tr'.final = tr.final \/ (tr'.final \in TTLs /\ (tr.final = -1 \/ tr'.final < tr.final))
         /\ matchQ' \subseteq matchQ
         /\ sentAt' \subseteq sentAt
         /\ pending' \subseteq pending
         /\ \/ adding' = adding
            \/ \E r \in Matching(m) :
                 LET of == Decoded(r) IN
                 /\ PendingKey(of.ttl, of.i) \in pending
                 /\ PendingKey(of.ttl, of.i) \notin pending'
                 /\ adding' = adding \cup {[ttl |-> of.ttl, i |-> of.i, seq |-> r.seq, of |-> m.of]}
<1>0. CfgOK /\ tr \in Progress /\ (tr.final = -1 \/ tr.final \in TTLs) /\ cfg.begin - 1 <= tr.printed
      /\ \A r \in sentAt : Decoded(r) \in Attempts
  BY DEF Types, ProgressOK
<1>1. UNCHANGED <<cfg, att, hops, out>> /\ ~ tr.returned /\ matchQ' \subseteq matchQ
  BY DEF Match
<1>f. TTLs' = TTLs /\ cfg' = cfg
  BY <1>1, ConfigFixed
<1>2. CASE Matching(m) = {} /\ UNCHANGED <<tr, pending, sentAt, adding>>
  <2>1. ProgressOK'
    BY <1>0, <1>f, <1>2 DEF ProgressOK
  <2> QED
    BY <1>1, <1>2, <2>1 DEF SameStart
<1>3. ASSUME NEW r \in Matching(m),
             LET of == Decoded(r)
                 key == PendingKey(of.ttl, of.i)
             IN
             /\ pending' = pending \ {key}
             /\ IF key \in pending /\ ~ BeyondFinal(of.ttl)
                THEN /\ tr' = [tr EXCEPT !.final = IF m.dst THEN LowerFinal(of.ttl) ELSE @]
                     /\ adding' = adding \cup {[ttl |-> of.ttl, i |-> of.i, seq |-> r.seq, of |-> m.of]}
                     /\ UNCHANGED sentAt
                ELSE sentAt' = sentAt \ {r} /\ UNCHANGED <<tr, adding>>
      PROVE  /\ ProgressOK'
             /\ SameStart /\ tr'.printed = tr.printed /\ tr'.ctx = tr.ctx
             /\ tr'.returned = tr.returned /\ tr'.len = tr.len
             /\ tr'.final = tr.final
                  \/ (tr'.final \in TTLs /\ (tr.final = -1 \/ tr'.final < tr.final))
             /\ sentAt' \subseteq sentAt
             /\ pending' \subseteq pending
             /\ \/ adding' = adding
                \/ LET of == Decoded(r) IN
                   /\ PendingKey(of.ttl, of.i) \in pending
                   /\ PendingKey(of.ttl, of.i) \notin pending'
                   /\ adding' = adding \cup {[ttl |-> of.ttl, i |-> of.i, seq |-> r.seq, of |-> m.of]}
  <2> DEFINE of == Decoded(r)
             key == PendingKey(of.ttl, of.i)
             f == IF m.dst THEN LowerFinal(of.ttl) ELSE tr.final
  <2>1. pending' = pending \ {key}
    BY <1>3
  <2>2. CASE key \in pending /\ ~ BeyondFinal(of.ttl)
    <3>1. /\ tr' = [tr EXCEPT !.final = f] /\ sentAt' = sentAt
          /\ adding' = adding \cup {[ttl |-> of.ttl, i |-> of.i, seq |-> r.seq, of |-> m.of]}
      BY <1>3, <2>2
    <3>2. of.ttl \in TTLs
      <4>1. r \in sentAt
        BY DEF Matching
      <4> QED
        BY <1>0, <4>1, Ranges
    <3>3. f \in Int /\ (f = tr.final \/ (f \in TTLs /\ (tr.final = -1 \/ f < tr.final)))
      <4>1. of.ttl \in Int /\ tr.final \in Int
        BY <1>0, <3>2, Ranges DEF Progress
      <4> HIDE DEF of
      <4> QED
        BY <3>2, <4>1 DEF LowerFinal
    <3> HIDE DEF f
    <3>4. tr' \in Progress /\ tr'.final = f /\ SameStart /\ tr'.printed = tr.printed
          /\ tr'.ctx = tr.ctx /\ tr'.returned = tr.returned /\ tr'.len = tr.len
      BY <1>0, <3>1, <3>3 DEF Progress, SameStart
    <3>5. ProgressOK'
      BY <1>0, <1>f, <3>3, <3>4 DEF ProgressOK
    <3> QED
      BY <2>1, <2>2, <3>1, <3>3, <3>4, <3>5
  <2>3. CASE ~ (key \in pending /\ ~ BeyondFinal(of.ttl))
    <3>1. sentAt' = sentAt \ {r} /\ tr' = tr /\ adding' = adding
      BY <1>3, <2>3
    <3>2. ProgressOK'
      BY <1>0, <1>f, <3>1 DEF ProgressOK
    <3> QED
      BY <2>1, <3>1, <3>2 DEF SameStart
  <2> QED
    BY <2>2, <2>3
<1> QED
  BY <1>1, <1>2, <1>3 DEF Match

\* Result.add, within its bounds or not.
LEMMA RecordEffect ==
  ASSUME Types, cfg' = cfg, NEW t \in TTLs, NEW i \in Idx, NEW ok \in BOOLEAN, NEW of \in Idx,
         Record(t, i, ok, of)
  PROVE  /\ hops' \in [TTLs -> Bucket]
         /\ \A u \in TTLs : u # t => hops'[u] = hops[u]
         /\ \/ hops'[t] = hops[t] /\ (tr.len < t \/ i >= cfg.n - 1)
            \/ Entered(hops[t], hops'[t], i, ok, of)
         /\ ProgressOK' /\ SameStart /\ SameEnd
<1>0. CfgOK /\ tr \in Progress /\ (tr.final = -1 \/ tr.final \in TTLs) /\ cfg.begin - 1 <= tr.printed
      /\ hops \in [TTLs -> Bucket]
  BY DEF Types, ProgressOK
<1>f. TTLs' = TTLs /\ cfg' = cfg
  BY ConfigFixed
<1>n. tr.len \in Int /\ t \in Int
  BY <1>0, Ranges DEF Progress
<1>1. CASE t <= tr.len
  <2> DEFINE c == AddHop(hops[t], i, ok, of)
  <2>1. hops' = [hops EXCEPT ![t] = c] /\ tr' = tr
    BY <1>1 DEF Record
  <2>2. c \in Bucket /\ ((c = hops[t] /\ i >= cfg.n - 1) \/ Entered(hops[t], c, i, ok, of))
    BY <1>0, AddHopSound
  <2> HIDE DEF c
  <2>3. hops' \in [TTLs -> Bucket] /\ hops'[t] = c /\ \A u \in TTLs : u # t => hops'[u] = hops[u]
    BY <1>0, <2>1, <2>2
  <2>4. ProgressOK' /\ SameStart /\ SameEnd
    BY <1>0, <1>f, <2>1 DEF ProgressOK, SameStart, SameEnd
  <2> QED
    BY <2>2, <2>3, <2>4
<1>2. CASE ~ (t <= tr.len)
  <2>1. hops' = hops /\ tr' = [tr EXCEPT !.panicked = TRUE]
    BY <1>2 DEF Record
  <2>2. tr' \in Progress /\ SameStart /\ SameEnd
    BY <1>0, <2>1 DEF Progress, SameStart, SameEnd
  <2>3. ProgressOK'
    BY <1>0, <1>f, <2>2 DEF ProgressOK, SameEnd
  <2> QED
    BY <1>0, <1>n, <1>2, <2>1, <2>2, <2>3
<1> QED
  BY <1>1, <1>2

LEMMA AddReplyEffect ==
  ASSUME Types, NEW m \in adding, AddReply(m)
  PROVE  /\ UNCHANGED <<cfg, att, pending, matchQ, out>>
         /\ adding' = adding \ {m}
         /\ sentAt' \subseteq sentAt
         /\ m.ttl \in TTLs /\ m.i \in Idx /\ m.of \in Idx
         /\ hops' \in [TTLs -> Bucket]
         /\ \A u \in TTLs : u # m.ttl => hops'[u] = hops[u]
         /\ \/ hops'[m.ttl] = hops[m.ttl] /\ (tr.len < m.ttl \/ m.i >= cfg.n - 1)
            \/ Entered(hops[m.ttl], hops'[m.ttl], m.i, TRUE, m.of)
         /\ ProgressOK' /\ SameStart /\ SameEnd
<1>1. /\ UNCHANGED <<cfg, att, pending, matchQ, out>> /\ adding' = adding \ {m}
      /\ sentAt' \subseteq sentAt /\ Record(m.ttl, m.i, TRUE, m.of)
  BY DEF AddReply
<1>2. m.ttl \in TTLs /\ m.i \in Idx /\ m.of \in Idx
  BY DEF Types, Claimed
<1> QED
  BY <1>1, <1>2, RecordEffect

LEMMA TimeoutEffect ==
  ASSUME Types, NEW a \in Attempts, Timeout(a)
  PROVE  /\ UNCHANGED <<cfg, tr, sentAt, matchQ, adding, hops, out>>
         /\ pending' = pending \ {PendingKey(a.ttl, a.i)}
         /\ att' \in [Attempts -> Attempt]
         /\ att[a].timer = "on"
         /\ \/ att'[a].timer = "late" /\ PendingKey(a.ttl, a.i) \in pending
            \/ att'[a].timer = "off"
         /\ att'[a].s = att[a].s
         /\ att'[a].port = att[a].port /\ att'[a].size = att[a].size
         /\ \A b \in Attempts : b # a => att'[b] = att[b]
<1>0. att \in [Attempts -> Attempt]
  BY DEF Types
<1>1. /\ UNCHANGED <<cfg, tr, sentAt, matchQ, adding, hops, out>>
      /\ pending' = pending \ {PendingKey(a.ttl, a.i)}
      /\ att[a].timer = "on"
  BY DEF Timeout
<1>2. \/ att' = [att EXCEPT ![a].timer = "late"] /\ PendingKey(a.ttl, a.i) \in pending
      \/ att' = [att EXCEPT ![a].timer = "off"]
  BY Zenon DEF Timeout
<1> QED
  BY <1>0, <1>1, <1>2, SetTimer

LEMMA AddTimeoutEffect ==
  ASSUME Types, NEW a \in Attempts, AddTimeout(a)
  PROVE  /\ UNCHANGED <<cfg, pending, matchQ, adding, out>>
         /\ sentAt' \subseteq sentAt
         /\ att' \in [Attempts -> Attempt]
         /\ att[a].timer = "late" /\ att'[a].timer = "off"
         /\ att'[a].s = att[a].s
         /\ att'[a].port = att[a].port /\ att'[a].size = att[a].size
         /\ \A b \in Attempts : b # a => att'[b] = att[b]
         /\ a.ttl \in TTLs /\ a.i \in Idx
         /\ hops' \in [TTLs -> Bucket]
         /\ \A u \in TTLs : u # a.ttl => hops'[u] = hops[u]
         /\ \/ hops'[a.ttl] = hops[a.ttl] /\ (tr.len < a.ttl \/ a.i >= cfg.n - 1)
            \/ Entered(hops[a.ttl], hops'[a.ttl], a.i, FALSE, a.i)
         /\ ProgressOK' /\ SameStart /\ SameEnd
<1>0. CfgOK /\ att \in [Attempts -> Attempt]
  BY DEF Types
<1>1. /\ UNCHANGED <<cfg, pending, matchQ, adding, out>>
      /\ sentAt' \subseteq sentAt /\ Record(a.ttl, a.i, FALSE, a.i)
      /\ att[a].timer = "late" /\ att' = [att EXCEPT ![a].timer = "off"]
  BY DEF AddTimeout
<1>2. a.ttl \in TTLs /\ a.i \in Idx
  BY <1>0, Ranges
<1>3. /\ att' \in [Attempts -> Attempt] /\ att'[a].timer = "off"
      /\ att'[a].s = att[a].s
      /\ att'[a].port = att[a].port /\ att'[a].size = att[a].size
      /\ \A b \in Attempts : b # a => att'[b] = att[b]
  BY <1>0, <1>1, SetTimer
<1> QED
  BY <1>1, <1>2, <1>3, RecordEffect

(***************************************************************************)
(* Every step keeps the types                                              *)
(***************************************************************************)
\* What the invariants share: the configuration stays.
LEMMA ConfigKept ==
  ASSUME Types, [Next]_vars
  PROVE  cfg' = cfg
<1>1. CASE UNCHANGED vars
  BY <1>1 DEF vars
<1>2. CASE Next
  BY <1>2, NextCases, ControlEffect, SenderEffect, StartEffect, SendOKEffect, SendErrorEffect,
     ListenOutEffect, ReplyEffect, MatchEffect, AddReplyEffect, TimeoutEffect, AddTimeoutEffect, Zenon
<1> QED
  BY <1>1, <1>2

LEMMA TypesInit ==
  ASSUME Init
  PROVE  Types
<1>1. PICK r \in Traces : cfg = deriveMaxAttempts(applyTracerouteDefaults(r))
  BY DEF Init
<1>2. CfgOK
  BY <1>1, ConfigSound
<1>3. tr = [started |-> cfg.begin - 1, final |-> -1, printed |-> cfg.begin - 1, ctx |-> "live",
            returned |-> FALSE, panicked |-> FALSE, len |-> cfg.hops,
            up |-> IF cfg.method = "udp4" THEN {"out"} ELSE {}, waiting |-> Cardinality(Listeners)]
  BY DEF Init
<1>4. Cardinality(Listeners) \in Nat
  BY <1>2, ListenersSound
<1>5. (IF cfg.method = "udp4" THEN {"out"} ELSE {}) \in SUBSET {"icmp", "tcp", "udp", "out"}
  OBVIOUS
<1> DEFINE up == IF cfg.method = "udp4" THEN {"out"} ELSE {}
           w == Cardinality(Listeners)
<1>6. tr = [started |-> cfg.begin - 1, final |-> -1, printed |-> cfg.begin - 1, ctx |-> "live",
            returned |-> FALSE, panicked |-> FALSE, len |-> cfg.hops, up |-> up, waiting |-> w]
  BY <1>3
<1> HIDE DEF up, w
<1>7. cfg.begin \in Int /\ cfg.hops \in Int
  BY <1>2 DEF CfgOK
<1>8. tr \in Progress /\ tr.final = -1 /\ tr.printed = cfg.begin - 1
  BY <1>4, <1>5, <1>6, <1>7 DEF Progress, up, w
<1>9. ProgressOK
  BY <1>7, <1>8 DEF ProgressOK
<1>10. att \in [Attempts -> Attempt]
  BY DEF Init, Attempt
<1>11. hops \in [TTLs -> Bucket]
  BY DEF Init, EmptyBucket, Bucket
<1>12. out \in [q : [TTLs -> Seq(Captured)], wire : Seq(Attempts)]
  BY DEF Init
<1> QED
  BY <1>2, <1>9, <1>10, <1>11, <1>12 DEF Init, Types

LEMMA TypesStep ==
  ASSUME Types, [Next]_vars
  PROVE  Types'
<1>0. cfg' = cfg
  BY ConfigKept
<1>1. /\ (CfgOK' <=> CfgOK) /\ TTLs' = TTLs /\ Attempts' = Attempts
      /\ Registered' = Registered /\ Queued' = Queued /\ Claimed' = Claimed
      /\ Bucket' = Bucket /\ Captured' = Captured
      /\ \A r : Decoded(r)' = Decoded(r)
  BY <1>0, ConfigFixed
<1>2. /\ CfgOK /\ ProgressOK
      /\ att \in [Attempts -> Attempt] /\ pending \subseteq Attempts
      /\ sentAt \subseteq Registered /\ \A r \in sentAt : Decoded(r) \in Attempts
      /\ matchQ \subseteq Queued /\ adding \subseteq Claimed /\ hops \in [TTLs -> Bucket]
      /\ out \in [q : [TTLs -> Seq(Captured)], wire : Seq(Attempts)]
  BY DEF Types
<1> DEFINE Goal ==
      /\ ProgressOK'
      /\ att' \in [Attempts -> Attempt] /\ pending' \subseteq Attempts
      /\ sentAt' \subseteq Registered /\ \A r \in sentAt' : Decoded(r) \in Attempts
      /\ matchQ' \subseteq Queued /\ adding' \subseteq Claimed /\ hops' \in [TTLs -> Bucket]
      /\ out' \in [q : [TTLs -> Seq(Captured)], wire : Seq(Attempts)]
<1>3. tr' = tr => ProgressOK'
  BY <1>0, <1>1, <1>2 DEF ProgressOK
<1>4. ASSUME UNCHANGED vars PROVE Goal
  BY <1>2, <1>3, <1>4 DEF vars
<1>5. ASSUME ControlStep PROVE Goal
  BY <1>2, <1>5, ControlEffect
<1>6. ASSUME SenderStep PROVE Goal
  BY <1>2, <1>3, <1>6, SenderEffect
<1>7. ASSUME NEW a \in Attempts, StartSend(a) PROVE Goal
  <2>1. /\ UNCHANGED <<cfg, tr, sentAt, matchQ, adding, hops>>
        /\ pending' = pending \cup {PendingKey(a.ttl, a.i)}
        /\ att' \in [Attempts -> Attempt]
        /\ out' \in [q : [TTLs -> Seq(Captured)], wire : Seq(Attempts)]
    BY <1>7, StartEffect
  <2>2. PendingKey(a.ttl, a.i) \in Attempts
    BY <1>2, Names
  <2> QED
    BY <1>2, <1>3, <2>1, <2>2
<1>8. ASSUME NEW a \in Attempts, SendOK(a) PROVE Goal
  BY <1>2, <1>3, <1>8, SendOKEffect
<1>9. ASSUME NEW a \in Attempts, SendError(a) PROVE Goal
  BY <1>2, <1>3, <1>9, SendErrorEffect
<1>10. ASSUME NEW a \in Attempts, IsUDP, ListenOut(a) PROVE Goal
  BY <1>2, <1>3, <1>10, ListenOutEffect
<1>11. ASSUME NEW a \in Attempts, NEW dst \in BOOLEAN, Reply(a, dst) PROVE Goal
  BY <1>2, <1>3, <1>11, ReplyEffect
<1>12. ASSUME NEW m \in matchQ, Match(m) PROVE Goal
  <2>1. /\ UNCHANGED <<cfg, att, hops, out>> /\ ProgressOK'
        /\ matchQ' \subseteq matchQ /\ sentAt' \subseteq sentAt /\ pending' \subseteq pending
    BY <1>12, MatchEffect
  <2>2. adding' \subseteq Claimed
    <3>1. CASE adding' = adding
      BY <1>2, <3>1
    <3>2. ASSUME NEW r \in Matching(m),
                 adding' = adding \cup {[ttl |-> Decoded(r).ttl, i |-> Decoded(r).i,
                                         seq |-> r.seq, of |-> m.of]}
          PROVE  adding' \subseteq Claimed
      <4>1. r \in sentAt /\ m \in Queued
        BY <1>2 DEF Matching
      <4>2. Decoded(r).ttl \in TTLs /\ Decoded(r).i \in Idx /\ r.seq \in Attempts /\ m.of \in Idx
        BY <1>2, <4>1, Ranges DEF Registered, Queued
      <4>3. [ttl |-> Decoded(r).ttl, i |-> Decoded(r).i, seq |-> r.seq, of |-> m.of] \in Claimed
        BY <4>2 DEF Claimed
      <4> QED
        BY <1>2, <3>2, <4>3
    <3> QED
      BY <1>12, <3>1, <3>2, MatchEffect
  <2> QED
    BY <1>2, <2>1, <2>2
<1>13. ASSUME NEW m \in adding, AddReply(m) PROVE Goal
  BY <1>2, <1>13, AddReplyEffect
<1>14. ASSUME NEW a \in Attempts, Timeout(a) PROVE Goal
  BY <1>2, <1>3, <1>14, TimeoutEffect
<1>15. ASSUME NEW a \in Attempts, AddTimeout(a) PROVE Goal
  BY <1>2, <1>15, AddTimeoutEffect
<1>16. Goal
  <2> HIDE DEF Goal
  <2> QED
    <3>1. ASSUME Next PROVE Goal
      BY <3>1, <1>5, <1>6, <1>7, <1>8, <1>9, <1>10, <1>11, <1>12, <1>13, <1>14, <1>15, NextCases
    <3> QED
      BY <1>4, <3>1
<1> QED
  BY <1>1, <1>2, <1>16 DEF Types

(***************************************************************************)
(* An attempt is in one place                                              *)
(***************************************************************************)
\* What a step of Result.add does to the recorded attempts.
LEMMA Recorded ==
  ASSUME Types, NEW t \in TTLs, NEW i \in Idx, NEW ok \in BOOLEAN, NEW of \in Idx,
         \A u \in TTLs : u # t => hops'[u] = hops[u],
         hops'[t] = hops[t] \/ Entered(hops[t], hops'[t], i, ok, of)
  PROVE  /\ \A u \in TTLs : u # t => Rec(u)' = Rec(u)
         /\ hops'[t] = hops[t] => Rec(t)' = Rec(t)
         /\ Entered(hops[t], hops'[t], i, ok, of) => Rec(t)' = Rec(t) \cup {i}
<1>1. \A u \in TTLs : hops'[u] = hops[u] => Rec(u)' = Rec(u)
  BY DEF Rec
<1>2. ASSUME Entered(hops[t], hops'[t], i, ok, of) PROVE Rec(t)' = Rec(t) \cup {i}
  <2>1. hops'[t].from = hops[t].from \cup {<<i, of>>}
    BY <1>2 DEF Entered
  <2>2. <<i, of>>[1] = i
    OBVIOUS
  <2> QED
    BY <2>1, <2>2 DEF Rec
<1> QED
  BY <1>1, <1>2

\* The recorded attempts are finitely many.
LEMMA RecFinite ==
  ASSUME Types, NEW t \in TTLs
  PROVE  Rec(t) \subseteq Idx /\ IsFiniteSet(Rec(t)) /\ Cardinality(Rec(t)) \in Nat
<1>1. hops[t].from \subseteq Idx \X Idx
  BY DEF Types, Bucket
<1>2. Rec(t) \subseteq Idx
  BY <1>1 DEF Rec
<1>3. IsFiniteSet(Idx)
  <2>1. cfg.m - 1 \in Int
    BY DEF Types, CfgOK
  <2> QED
    BY <2>1, FS_Interval DEF Idx
<1> QED
  BY <1>2, <1>3, FS_Subset, FS_CardinalityType

\* The entries of the Result and of the workers stay as they are.
LEMMA SameTaken ==
  ASSUME hops' = hops, adding' = adding
  PROVE  /\ \A a : Taken(a)' <=> Taken(a)
         /\ \A t : Rec(t)' = Rec(t)
BY DEF Taken, Rec

LEMMA PlaceStep ==
  ASSUME Types, PlaceInv, [Next]_vars
  PROVE  PlaceInv'
<1>0. cfg' = cfg /\ CfgOK
  BY ConfigKept DEF Types
<1>1. (Distinct' <=> Distinct) /\ Attempts' = Attempts
  BY <1>0, ConfigFixed
<1> SUFFICES ASSUME Distinct
             PROVE  /\ \A a \in Attempts : OnePlace(a)'
                    /\ \A m \in adding' : m.i \notin Rec(m.ttl)'
                    /\ \A m1, m2 \in adding' : m1.ttl = m2.ttl /\ m1.i = m2.i => m1 = m2
  BY <1>1 DEF PlaceInv
<1> DEFINE Goal ==
      /\ \A a \in Attempts : OnePlace(a)'
      /\ \A m \in adding' : m.i \notin Rec(m.ttl)'
      /\ \A m1, m2 \in adding' : m1.ttl = m2.ttl /\ m1.i = m2.i => m1 = m2
<1>2. /\ \A a \in Attempts : OnePlace(a)
      /\ \A m \in adding : m.i \notin Rec(m.ttl)
      /\ \A m1, m2 \in adding : m1.ttl = m2.ttl /\ m1.i = m2.i => m1 = m2
  BY DEF PlaceInv
<1>3. adding \subseteq Claimed /\ att \in [Attempts -> Attempt] /\ pending \subseteq Attempts
  BY DEF Types
<1>k. \A a \in Attempts : PendingKey(a.ttl, a.i) = a
  BY <1>0, Names
<1>r. \A a, b \in Attempts : a.ttl = b.ttl /\ a.i = b.i => a = b
  BY <1>0, Ranges
<1>4. ASSUME UNCHANGED <<att, pending, hops, adding>> PROVE Goal
  <2>1. \A a : OnePlace(a)' <=> OnePlace(a)
    BY <1>4, SameTaken DEF OnePlace
  <2> QED
    BY <1>2, <1>4, <2>1, SameTaken
<1>5. ASSUME UNCHANGED <<hops, adding>>, NEW a \in Attempts,
             \A b \in Attempts : b # a => att'[b] = att[b],
             \A b \in Attempts : b # a => (b \in pending' => b \in pending), OnePlace(a)'
      PROVE  Goal
  <2>1. \A b \in Attempts : b # a => OnePlace(b)'
    BY <1>2, <1>5, SameTaken DEF OnePlace
  <2> QED
    BY <1>2, <1>5, <2>1, SameTaken
<1>6. ASSUME UNCHANGED vars PROVE Goal
  BY <1>4, <1>6 DEF vars
<1>7. ASSUME ControlStep PROVE Goal
  BY <1>4, <1>7, ControlEffect
<1>8. ASSUME SenderStep PROVE Goal
  <2>1. PICK a \in Attempts :
          /\ att[a].s \in {"none", "queued"}
          /\ att'[a].timer = att[a].timer
          /\ \A b \in Attempts : b # a => att'[b] = att[b]
    BY <1>8, SenderEffect
  <2>2. UNCHANGED <<hops, adding, pending>>
    BY <1>8, SenderEffect
  <2>3. OnePlace(a)'
    BY <1>2, <2>1, <2>2, SameTaken DEF OnePlace
  <2> QED
    BY <1>5, <2>1, <2>2, <2>3
<1>9. ASSUME NEW a \in Attempts, StartSend(a) PROVE Goal
  <2>1. /\ UNCHANGED <<hops, adding>> /\ pending' = pending \cup {a}
        /\ att[a].s = "queued" /\ att'[a].s = "sending" /\ att'[a].timer = "on"
        /\ \A b \in Attempts : b # a => att'[b] = att[b]
    BY <1>9, <1>k, StartEffect
  <2>2. OnePlace(a)'
    BY <1>2, <2>1, SameTaken DEF OnePlace
  <2> QED
    BY <1>5, <2>1, <2>2
<1>10. ASSUME NEW a \in Attempts, SendOK(a) \/ SendError(a) PROVE Goal
  <2>1. /\ UNCHANGED <<hops, adding>> /\ pending' \subseteq pending
        /\ att'[a].s \in {"sent", "done"} /\ att'[a].timer = att[a].timer
        /\ \A b \in Attempts : b # a => att'[b] = att[b]
    BY <1>10, SendOKEffect, SendErrorEffect
  <2>2. OnePlace(a)'
    BY <1>2, <2>1, SameTaken DEF OnePlace
  <2> QED
    BY <1>5, <2>1, <2>2
<1>11. ASSUME NEW a \in Attempts, IsUDP, ListenOut(a) PROVE Goal
  BY <1>4, <1>11, ListenOutEffect
<1>12. ASSUME NEW a \in Attempts, NEW dst \in BOOLEAN, Reply(a, dst) PROVE Goal
  BY <1>4, <1>12, ReplyEffect
<1>13. ASSUME NEW m \in matchQ, Match(m) PROVE Goal
  <2>1. /\ UNCHANGED <<att, hops>> /\ pending' \subseteq pending
    BY <1>13, MatchEffect
  <2>2. ASSUME adding' = adding PROVE Goal
    <3>1. \A a \in Attempts : OnePlace(a)'
      BY <1>2, <2>1, <2>2, SameTaken DEF OnePlace
    <3> QED
      BY <1>2, <2>1, <2>2, <3>1, SameTaken
  <2>3. ASSUME NEW r \in Matching(m),
               PendingKey(Decoded(r).ttl, Decoded(r).i) \in pending,
               PendingKey(Decoded(r).ttl, Decoded(r).i) \notin pending',
               adding' = adding \cup {[ttl |-> Decoded(r).ttl, i |-> Decoded(r).i,
                                       seq |-> r.seq, of |-> m.of]}
        PROVE  Goal
    <3>1. PICK k \in Attempts : k = Decoded(r)
      BY DEF Matching, Types
    <3> DEFINE n == [ttl |-> k.ttl, i |-> k.i, seq |-> r.seq, of |-> m.of]
    <3>2. k \in pending /\ k \notin pending' /\ adding' = adding \cup {n}
      BY <1>k, <2>3, <3>1
    <3>3. n.ttl = k.ttl /\ n.i = k.i
      OBVIOUS
    <3> HIDE DEF n
    <3>4. ~ Taken(k) /\ att[k].timer # "late" /\ att[k].s \notin {"none", "queued"}
      BY <1>2, <3>1, <3>2 DEF OnePlace
    <3>5. \A t : Rec(t)' = Rec(t)
      BY <2>1 DEF Rec
    <3>6. \A a \in Attempts : a # k => (Taken(a)' <=> Taken(a))
      BY <1>r, <3>1, <3>2, <3>3, <3>5 DEF Taken
    <3>7. \A a \in Attempts : OnePlace(a)'
      <4>1. \A a \in Attempts : a # k => OnePlace(a)'
        BY <1>2, <2>1, <3>6 DEF OnePlace
      <4>2. OnePlace(k)'
        BY <2>1, <3>2, <3>4 DEF OnePlace
      <4> QED
        BY <4>1, <4>2
    <3>8. \A x \in adding : ~ (x.ttl = k.ttl /\ x.i = k.i)
      BY <3>4 DEF Taken
    <3>9. k.i \notin Rec(k.ttl)
      BY <3>4 DEF Taken
    <3> QED
      BY <1>2, <3>2, <3>3, <3>5, <3>7, <3>8, <3>9
  <2> HIDE DEF Goal
  <2> QED
    BY <1>13, <2>2, <2>3, MatchEffect
<1>14. ASSUME NEW m \in adding, AddReply(m) PROVE Goal
  <2>1. /\ UNCHANGED <<att, pending>> /\ adding' = adding \ {m}
        /\ m.ttl \in TTLs /\ m.i \in Idx /\ m.of \in Idx
        /\ \A u \in TTLs : u # m.ttl => hops'[u] = hops[u]
        /\ hops'[m.ttl] = hops[m.ttl] \/ Entered(hops[m.ttl], hops'[m.ttl], m.i, TRUE, m.of)
    BY <1>14, AddReplyEffect
  <2>2. \A u \in TTLs : u # m.ttl => Rec(u)' = Rec(u)
    BY <2>1, Recorded
  <2>3. Rec(m.ttl)' \subseteq Rec(m.ttl) \cup {m.i}
    BY <2>1, Recorded
  <2>4. \A a \in Attempts : Taken(a)' => Taken(a)
    <3>1. \A a \in Attempts : a.ttl \in TTLs
      BY <1>0, Ranges
    <3> QED
      BY <1>14, <2>1, <2>2, <2>3, <3>1 DEF Taken
  <2>5. \A a \in Attempts : OnePlace(a)'
    BY <1>2, <2>1, <2>4 DEF OnePlace
  <2>6. \A x \in adding' : x.ttl \in TTLs /\ ~ (x.ttl = m.ttl /\ x.i = m.i)
    BY <1>2, <1>3, <2>1 DEF Claimed
  <2>7. \A x \in adding' : x.i \notin Rec(x.ttl)'
    BY <1>2, <2>1, <2>2, <2>3, <2>6
  <2> QED
    BY <1>2, <2>1, <2>5, <2>7
<1>15. ASSUME NEW a \in Attempts, Timeout(a) PROVE Goal
  <2>1. /\ UNCHANGED <<hops, adding>> /\ pending' = pending \ {a}
        /\ att[a].timer = "on" /\ att'[a].s = att[a].s
        /\ (att'[a].timer = "late" /\ a \in pending) \/ att'[a].timer = "off"
        /\ \A b \in Attempts : b # a => att'[b] = att[b]
    BY <1>15, <1>k, TimeoutEffect
  <2>2. OnePlace(a)'
    BY <1>2, <2>1, SameTaken DEF OnePlace
  <2> QED
    BY <1>5, <2>1, <2>2
<1>16. ASSUME NEW a \in Attempts, AddTimeout(a) PROVE Goal
  <2>1. /\ UNCHANGED <<pending, adding>>
        /\ att[a].timer = "late" /\ att'[a].timer = "off" /\ att'[a].s = att[a].s
        /\ \A b \in Attempts : b # a => att'[b] = att[b]
        /\ a.ttl \in TTLs /\ a.i \in Idx
        /\ \A u \in TTLs : u # a.ttl => hops'[u] = hops[u]
        /\ hops'[a.ttl] = hops[a.ttl] \/ Entered(hops[a.ttl], hops'[a.ttl], a.i, FALSE, a.i)
    BY <1>16, AddTimeoutEffect
  <2>2. \A u \in TTLs : u # a.ttl => Rec(u)' = Rec(u)
    BY <2>1, Recorded
  <2>3. Rec(a.ttl)' \subseteq Rec(a.ttl) \cup {a.i}
    BY <2>1, Recorded
  <2>4. a \notin pending /\ ~ Taken(a) /\ att[a].s \notin {"none", "queued"}
    BY <1>2, <2>1 DEF OnePlace
  <2>5. \A b \in Attempts : b # a => (Taken(b)' => Taken(b))
    <3>1. \A b \in Attempts : b.ttl \in TTLs
      BY <1>0, Ranges
    <3> QED
      BY <1>r, <2>1, <2>2, <2>3, <3>1 DEF Taken
  <2>6. \A b \in Attempts : OnePlace(b)'
    <3>1. \A b \in Attempts : b # a => OnePlace(b)'
      BY <1>2, <2>1, <2>5 DEF OnePlace
    <3>2. OnePlace(a)'
      BY <2>1, <2>4 DEF OnePlace
    <3> QED
      BY <3>1, <3>2
  <2>7. \A x \in adding' : x.ttl \in TTLs /\ ~ (x.ttl = a.ttl /\ x.i = a.i)
    BY <1>3, <2>1, <2>4 DEF Claimed, Taken
  <2>8. \A x \in adding' : x.i \notin Rec(x.ttl)'
    BY <1>2, <2>1, <2>2, <2>3, <2>7
  <2> QED
    BY <1>2, <2>1, <2>6, <2>8
<1> HIDE DEF Goal
<1>17. ASSUME Next PROVE Goal
  BY <1>17, <1>7, <1>8, <1>9, <1>10, <1>11, <1>12, <1>13, <1>14, <1>15, <1>16, NextCases
<1>18. Goal
  BY <1>6, <1>17
<1> QED
  BY <1>18 DEF Goal

(***************************************************************************)
(* What the buckets count                                                  *)
(***************************************************************************)
\* A step that records attempt i of TTL t, with what was known of it.
LEMMA CountsStep ==
  ASSUME Types, cfg' = cfg, NEW t \in TTLs, NEW i \in Idx, NEW ok \in BOOLEAN, NEW of \in Idx,
         \A u \in TTLs : u # t => hops'[u] = hops[u],
         hops'[t] = hops[t] \/ Entered(hops[t], hops'[t], i, ok, of),
         i \notin Rec(t), \A u \in TTLs : Counts(u)
  PROVE  \A u \in TTLs : Counts(u)'
<1>1. \A u \in TTLs : hops'[u] = hops[u] => Rec(u)' = Rec(u)
  BY DEF Rec
<1>2. \A u \in TTLs : hops'[u] = hops[u] => Counts(u)'
  BY <1>1 DEF Counts
<1>3. ASSUME Entered(hops[t], hops'[t], i, ok, of) PROVE Counts(t)'
  <2>1. Rec(t)' = Rec(t) \cup {i}
    BY <1>3, Recorded
  <2>2. IsFiniteSet(Rec(t)) /\ Cardinality(Rec(t)) \in Nat /\ Rec(t) \subseteq Idx
    BY RecFinite
  <2>3. Cardinality(Rec(t) \cup {i}) = Cardinality(Rec(t)) + 1
    BY <2>2, FS_AddElement
  <2>4. hops'[t].n = Cardinality(Rec(t)')
    BY <1>3, <2>1, <2>3 DEF Entered, Counts
  <2>5. /\ \A x \in Rec(t) : x >= cfg.n - 1 => hops[t].tailDone
        /\ \A x, y \in Rec(t) : x >= cfg.n - 1 /\ y >= cfg.n - 1 => x = y
    BY DEF Counts
  <2>6. CASE i < cfg.n - 1 /\ hops'[t].tailDone = hops[t].tailDone
    <3>1. ~ (i >= cfg.n - 1)
      BY <2>6, Ranges DEF Types, CfgOK
    <3> QED
      BY <2>1, <2>4, <2>5, <2>6, <3>1 DEF Counts
  <2>7. CASE i >= cfg.n - 1 /\ ~ hops[t].tailDone /\ hops'[t].tailDone
    <3>1. \A x \in Rec(t) : ~ (x >= cfg.n - 1)
      BY <2>5, <2>7
    <3> QED
      BY <2>1, <2>4, <2>7, <3>1 DEF Counts
  <2> QED
    BY <1>3, <2>6, <2>7 DEF Entered
<1> QED
  BY <1>2, <1>3

LEMMA CountStep ==
  ASSUME Types, PlaceInv, CountInv, [Next]_vars
  PROVE  CountInv'
<1>0. cfg' = cfg /\ CfgOK
  BY ConfigKept DEF Types
<1>1. (Distinct' <=> Distinct) /\ TTLs' = TTLs
  BY <1>0, ConfigFixed
<1> SUFFICES ASSUME Distinct PROVE \A t \in TTLs : Counts(t)'
  BY <1>1 DEF CountInv
<1>2. \A t \in TTLs : Counts(t)
  BY DEF CountInv
<1>3. ASSUME hops' = hops PROVE \A t \in TTLs : Counts(t)'
  BY <1>0, <1>2, <1>3 DEF Counts, Rec
<1>4. ASSUME NEW m \in adding, AddReply(m) PROVE \A t \in TTLs : Counts(t)'
  <2>1. m.i \notin Rec(m.ttl)
    BY DEF PlaceInv
  <2> QED
    BY <1>0, <1>2, <1>4, <2>1, AddReplyEffect, CountsStep
<1>5. ASSUME NEW a \in Attempts, AddTimeout(a) PROVE \A t \in TTLs : Counts(t)'
  <2>1. a.i \notin Rec(a.ttl)
    BY <1>5, AddTimeoutEffect DEF PlaceInv, OnePlace, Taken
  <2> QED
    BY <1>0, <1>2, <1>5, <2>1, AddTimeoutEffect, CountsStep
<1>6. CASE UNCHANGED vars
  BY <1>3, <1>6 DEF vars
<1>7. CASE Next
  <2>1. \/ hops' = hops
        \/ \E m \in adding : AddReply(m)
        \/ \E a \in Attempts : AddTimeout(a)
    BY <1>7, NextCases, ControlEffect, SenderEffect, StartEffect, SendOKEffect, SendErrorEffect,
       ListenOutEffect, ReplyEffect, MatchEffect, TimeoutEffect, Zenon
  <2> QED
    BY <1>3, <1>4, <1>5, <2>1
<1> QED
  BY <1>6, <1>7

LEMMA SilentStep ==
  ASSUME Types, SilentInv, [Next]_vars
  PROVE  SilentInv'
<1>0. cfg' = cfg /\ CfgOK /\ att \in [Attempts -> Attempt]
  BY ConfigKept DEF Types
<1>1. TTLs' = TTLs /\ Attempts' = Attempts
  BY <1>0, ConfigFixed
<1> DEFINE Started == \A a \in Attempts : att[a].s \in {"none", "queued"} => att[a].timer = "off"
           Goal == Started' /\ \A t \in TTLs : Silent(t)'
<1>2. Started /\ \A t \in TTLs : Silent(t)
  BY DEF SilentInv
<1>r. \A a, b \in Attempts : a.ttl = b.ttl /\ a.i = b.i => a = b
  BY <1>0, Ranges
<1>3. ASSUME UNCHANGED <<att, hops>> PROVE Goal
  <2>1. Started'
    BY <1>1, <1>2, <1>3
  <2>2. \A t \in TTLs : Rec(t)' = Rec(t)
    BY <1>3 DEF Rec
  <2> QED
    BY <1>0, <1>1, <1>2, <1>3, <2>1, <2>2 DEF Silent
<1>4. ASSUME hops' = hops, NEW a \in Attempts,
             \A b \in Attempts : b # a => att'[b] = att[b],
             att'[a].s \in {"none", "queued"} => att'[a].timer = "off",
             att'[a].s \in {"none", "queued"} \/ att'[a].timer # "off" =>
               att[a].s \in {"none", "queued"} \/ att[a].timer # "off"
      PROVE  Goal
  <2>1. Started'
    BY <1>1, <1>2, <1>4
  <2>2. \A t \in TTLs : Rec(t)' = Rec(t)
    BY <1>4 DEF Rec
  <2> QED
    BY <1>0, <1>1, <1>2, <1>4, <2>1, <2>2 DEF Silent
<1>5. ASSUME UNCHANGED vars PROVE Goal
  BY <1>3, <1>5 DEF vars
<1>6. ASSUME ControlStep PROVE Goal
  BY <1>3, <1>6, ControlEffect
<1>7. ASSUME SenderStep PROVE Goal
  <2>1. PICK a \in Attempts :
          /\ att[a].s \in {"none", "queued"} /\ att'[a].s \in {"queued", "done"}
          /\ att'[a].timer = att[a].timer
          /\ \A b \in Attempts : b # a => att'[b] = att[b]
    BY <1>7, SenderEffect
  <2> QED
    BY <1>2, <1>4, <1>7, <2>1, SenderEffect
<1>8. ASSUME NEW a \in Attempts, StartSend(a) PROVE Goal
  BY <1>4, <1>8, StartEffect
<1>9. ASSUME NEW a \in Attempts, SendOK(a) \/ SendError(a) PROVE Goal
  <2>1. /\ hops' = hops /\ att'[a].s \in {"sent", "done"} /\ att'[a].timer = att[a].timer
        /\ \A b \in Attempts : b # a => att'[b] = att[b]
    BY <1>9, SendOKEffect, SendErrorEffect
  <2> QED
    BY <1>4, <2>1
<1>10. ASSUME NEW a \in Attempts, IsUDP, ListenOut(a) PROVE Goal
  BY <1>3, <1>10, ListenOutEffect
<1>11. ASSUME NEW a \in Attempts, NEW dst \in BOOLEAN, Reply(a, dst) PROVE Goal
  BY <1>3, <1>11, ReplyEffect
<1>12. ASSUME NEW m \in matchQ, Match(m) PROVE Goal
  BY <1>3, <1>12, MatchEffect
<1>13. ASSUME NEW m \in adding, AddReply(m) PROVE Goal
  <2>1. /\ att' = att
        /\ m.ttl \in TTLs /\ m.i \in Idx /\ m.of \in Idx
        /\ \A u \in TTLs : u # m.ttl => hops'[u] = hops[u]
        /\ hops'[m.ttl] = hops[m.ttl] \/ Entered(hops[m.ttl], hops'[m.ttl], m.i, TRUE, m.of)
    BY <1>13, AddReplyEffect
  <2>2. Started'
    BY <1>1, <1>2, <2>1
  <2>3. ASSUME NEW u \in TTLs, hops'[u] = hops[u] PROVE Silent(u)'
    <3>1. Rec(u)' = Rec(u)
      BY <2>3 DEF Rec
    <3> QED
      BY <1>0, <1>1, <1>2, <2>1, <2>3, <3>1 DEF Silent
  <2>4. ASSUME NEW u \in TTLs, hops'[u].valid PROVE Silent(u)'
    BY <2>4 DEF Silent
  <2>5. Entered(hops[m.ttl], hops'[m.ttl], m.i, TRUE, m.of) => hops'[m.ttl].valid
    BY Zenon DEF Entered
  <2> QED
    BY <2>1, <2>2, <2>3, <2>4, <2>5
<1>14. ASSUME NEW a \in Attempts, Timeout(a) PROVE Goal
  <2>1. /\ hops' = hops /\ att[a].timer = "on" /\ att'[a].s = att[a].s
        /\ \A b \in Attempts : b # a => att'[b] = att[b]
    BY <1>14, TimeoutEffect
  <2>2. att[a].s \notin {"none", "queued"}
    BY <1>2, <2>1
  <2> QED
    BY <1>4, <2>1, <2>2
<1>15. ASSUME NEW a \in Attempts, AddTimeout(a) PROVE Goal
  <2>1. /\ att[a].timer = "late" /\ att'[a].timer = "off" /\ att'[a].s = att[a].s
        /\ \A b \in Attempts : b # a => att'[b] = att[b]
        /\ a.ttl \in TTLs /\ a.i \in Idx
        /\ \A u \in TTLs : u # a.ttl => hops'[u] = hops[u]
        /\ hops'[a.ttl] = hops[a.ttl] \/ Entered(hops[a.ttl], hops'[a.ttl], a.i, FALSE, a.i)
    BY <1>15, AddTimeoutEffect
  <2>2. att[a].s \notin {"none", "queued"}
    BY <1>2, <2>1
  <2>3. Started'
    BY <1>1, <1>2, <2>1
  <2>4. ASSUME NEW u \in TTLs, hops'[u] = hops[u] PROVE Silent(u)'
    <3>1. Rec(u)' = Rec(u)
      BY <2>4 DEF Rec
    <3> QED
      BY <1>0, <1>1, <1>2, <2>1, <2>2, <2>4, <3>1 DEF Silent
  <2>5. ASSUME Entered(hops[a.ttl], hops'[a.ttl], a.i, FALSE, a.i), ~ hops'[a.ttl].valid
        PROVE  Silent(a.ttl)'
    <3> DEFINE t == a.ttl
    <3>1. ~ hops[t].valid /\ hops'[t].n = hops[t].n + 1
          /\ (a.i < cfg.n - 1 \/ a.i >= cfg.m - 1)
      BY <2>5, Zenon DEF Entered
    <3>2. Rec(t)' = Rec(t) \cup {a.i}
      BY <2>1, <2>5, Recorded
    <3>3. a.i \notin Rec(t)
      BY <1>2, <2>1, <3>1 DEF Silent
    <3>4. IsFiniteSet(Rec(t)) /\ Cardinality(Rec(t)) \in Nat
      BY <2>1, RecFinite
    <3>5. hops'[t].n = Cardinality(Rec(t)')
      BY <1>2, <2>1, <3>1, <3>2, <3>3, <3>4, FS_AddElement, ZenonT(40) DEF Silent
    <3>6. a.i >= cfg.n - 1 => a.i = cfg.m - 1
      BY <1>0, <2>1, <3>1 DEF CfgOK, Idx
    <3>7. \A i \in Rec(t)' : i >= cfg.n - 1 => cfg.m - 1 \in Rec(t)'
      BY <1>2, <2>1, <3>1, <3>2, <3>6 DEF Silent
    <3>8. \A b \in Attempts : b # a /\ b.ttl = t => b.i # a.i
      BY <1>r
    <3>9. \A b \in Attempts :
            b.ttl = t /\ (att'[b].s \in {"none", "queued"} \/ att'[b].timer # "off") =>
              b.i \notin Rec(t)'
      BY <1>2, <2>1, <2>2, <3>1, <3>2, <3>8 DEF Silent
    <3> QED
      BY <1>0, <1>1, <3>5, <3>7, <3>9 DEF Silent
  <2>6. ASSUME NEW u \in TTLs, hops'[u].valid PROVE Silent(u)'
    BY <2>6 DEF Silent
  <2> QED
    BY <2>1, <2>3, <2>4, <2>5, <2>6
<1> HIDE DEF Goal
<1>16. ASSUME Next PROVE Goal
  BY <1>16, <1>6, <1>7, <1>8, <1>9, <1>10, <1>11, <1>12, <1>13, <1>14, <1>15, NextCases
<1>17. Goal
  BY <1>5, <1>16
<1> QED
  BY <1>1, <1>17 DEF Goal, SilentInv

(***************************************************************************)
(* The printer is behind what is complete                                  *)
(***************************************************************************)
LEMMA PrintStep ==
  ASSUME Types, PrintInv, [Next]_vars
  PROVE  PrintInv'
<1>0. /\ cfg' = cfg /\ CfgOK /\ tr \in Progress /\ (tr.final = -1 \/ tr.final \in TTLs)
      /\ cfg.begin - 1 <= tr.printed /\ hops \in [TTLs -> Bucket]
  BY ConfigKept DEF Types, ProgressOK
<1>1. TTLs' = TTLs /\ TTLs \subseteq Nat \ {0}
  BY <1>0, ConfigFixed, Ranges
<1>2. /\ \A t \in TTLs : t <= tr.printed => hops[t].n >= cfg.n
      /\ tr.ctx = "natural" => tr.printed >= cfg.hops \/ (tr.final # -1 /\ tr.final <= tr.printed)
      /\ tr.returned => adding = {} /\ tr.ctx # "live"
      /\ tr.len = IF tr.returned /\ tr.final # -1 THEN tr.final ELSE cfg.hops
  BY DEF PrintInv
<1>n. /\ cfg.n \in Nat /\ cfg.hops \in Nat /\ cfg.begin \in Nat \ {0}
      /\ tr.printed \in Int /\ tr.final \in Int /\ tr.len \in Int
      /\ \A t \in TTLs : t \in Nat /\ hops[t].n \in Nat
  BY <1>0, <1>1 DEF CfgOK, Progress, Bucket
<1>3. ASSUME SameEnd, adding' \subseteq adding, \A t \in TTLs : hops'[t].n >= hops[t].n,
             \A t \in TTLs : hops'[t].n \in Nat
      PROVE  PrintInv'
  <2>1. \A t \in TTLs : t <= tr'.printed => hops'[t].n >= cfg.n
    BY <1>2, <1>3, <1>n DEF SameEnd
  <2> QED
    BY <1>0, <1>1, <1>2, <1>3, <2>1 DEF PrintInv, SameEnd
<1>4. ASSUME tr' = tr, hops' = hops, adding' = adding PROVE PrintInv'
  BY <1>0, <1>1, <1>2, <1>4 DEF PrintInv
<1>5. ASSUME UNCHANGED vars PROVE PrintInv'
  BY <1>4, <1>5 DEF vars
<1>6. ASSUME ControlStep PROVE PrintInv'
  <2>0. hops' = hops /\ adding' = adding
    BY <1>6, ControlEffect
  <2>1. ASSUME SameEnd PROVE PrintInv'
    BY <1>0, <1>1, <1>2, <2>0, <2>1 DEF PrintInv, SameEnd
  <2>2. ASSUME NEW l \in Listeners, ListenerReady(l) PROVE SameEnd
    BY <1>0, <2>2 DEF ListenerReady, SameEnd, Progress
  <2>3. ASSUME waitAllReady PROVE SameEnd
    BY <1>0, <2>3 DEF waitAllReady, SameEnd, Progress
  <2>4. ASSUME Dispatch PROVE SameEnd
    BY <1>0, <2>4 DEF Dispatch, SameEnd, Progress
  <2>5. ASSUME PrintHops PROVE PrintInv'
    <3> DEFINE p == tr.printed + 1
               c == IF tr.ctx = "live" /\ (p = tr.final \/ p >= cfg.hops)
                    THEN "natural" ELSE tr.ctx
    <3>1. /\ tr' = [tr EXCEPT !.printed = p, !.ctx = c]
          /\ ~ tr.returned /\ tr.ctx # "natural" /\ TTLComp(p)
      BY <2>5 DEF PrintHops
    <3>2. p \in Int /\ p = tr.printed + 1 /\ (c = tr.ctx \/ (c = "natural" /\ (p = tr.final \/ p >= cfg.hops)))
      BY <1>n
    <3> HIDE DEF p, c
    <3>3. /\ tr'.printed = p /\ tr'.ctx = c /\ tr'.final = tr.final
          /\ tr'.returned = tr.returned /\ tr'.len = tr.len
      BY <1>0, <3>1 DEF Progress
    <3>4. \A t \in TTLs : t <= p => hops[t].n >= cfg.n
      <4>1. hops[p].n >= cfg.n
        BY <3>1 DEF TTLComp
      <4>2. \A t \in TTLs : t <= p => t = p \/ t <= tr.printed
        BY <1>n, <3>2
      <4> QED
        BY <1>2, <4>1, <4>2
    <3>5. c = "natural" => p >= cfg.hops \/ (tr.final # -1 /\ tr.final <= p)
      BY <1>0, <1>n, <3>1, <3>2
    <3> QED
      BY <1>0, <1>1, <1>2, <2>0, <3>1, <3>3, <3>4, <3>5 DEF PrintInv
  <2>6. ASSUME Interrupt PROVE PrintInv'
    <3>1. /\ tr'.printed = tr.printed /\ tr'.ctx = "canceled" /\ tr'.final = tr.final
          /\ tr'.returned = tr.returned /\ tr'.len = tr.len
      BY <1>0, <2>6 DEF Interrupt, Progress
    <3> QED
      BY <1>0, <1>1, <1>2, <2>0, <3>1 DEF PrintInv
  <2>7. ASSUME Return PROVE PrintInv'
    <3> DEFINE l == IF tr.final = -1 THEN tr.len ELSE tr.final
    <3>1. /\ tr' = [tr EXCEPT !.returned = TRUE, !.len = l]
          /\ tr.ctx # "live" /\ ~ tr.returned /\ adding = {}
      BY <2>7 DEF Return
    <3>2. l = IF tr.final # -1 THEN tr.final ELSE cfg.hops
      BY <1>2, <3>1
    <3> HIDE DEF l
    <3>3. /\ tr'.printed = tr.printed /\ tr'.ctx = tr.ctx /\ tr'.final = tr.final
          /\ tr'.returned /\ tr'.len = l
      BY <1>0, <3>1 DEF Progress
    <3> QED
      BY <1>0, <1>1, <1>2, <2>0, <3>1, <3>2, <3>3 DEF PrintInv
  <2> QED
    BY <1>6, <2>1, <2>2, <2>3, <2>4, <2>5, <2>6, <2>7, Zenon DEF ControlStep
<1>7. ASSUME NEW m \in matchQ, Match(m) PROVE PrintInv'
  <2>1. /\ UNCHANGED <<cfg, hops>> /\ ~ tr.returned
        /\ tr'.printed = tr.printed /\ tr'.ctx = tr.ctx
        /\ tr'.returned = tr.returned /\ tr'.len = tr.len
        /\ tr'.final = tr.final \/ (tr'.final \in TTLs /\ (tr.final = -1 \/ tr'.final < tr.final))
    BY <1>7, MatchEffect
  <2>2. tr.ctx = "natural" =>
          tr.printed >= cfg.hops \/ (tr'.final # -1 /\ tr'.final <= tr.printed)
    BY <1>2, <1>n, <2>1
  <2> QED
    BY <1>0, <1>1, <1>2, <2>1, <2>2 DEF PrintInv
<1>8. ASSUME NEW t \in TTLs, NEW i, NEW ok, NEW of, SameEnd, adding' \subseteq adding,
             hops' \in [TTLs -> Bucket], \A u \in TTLs : u # t => hops'[u] = hops[u],
             hops'[t] = hops[t] \/ Entered(hops[t], hops'[t], i, ok, of)
      PROVE  PrintInv'
  <2>1. \A u \in TTLs : hops'[u].n \in Nat
    BY <1>8 DEF Bucket
  <2>2. hops'[t].n >= hops[t].n
    BY <1>8, <1>n DEF Entered
  <2>3. \A u \in TTLs : hops'[u].n >= hops[u].n
    BY <1>8, <1>n, <2>2
  <2> QED
    BY <1>3, <1>8, <2>1, <2>3
<1>9. ASSUME NEW m \in adding, AddReply(m) PROVE PrintInv'
  <2>1. m.ttl \in TTLs /\ m.i \in Idx /\ m.of \in Idx /\ adding' \subseteq adding
    BY <1>9, AddReplyEffect
  <2> QED
    BY <1>8, <1>9, <2>1, AddReplyEffect
<1>10. ASSUME NEW a \in Attempts, AddTimeout(a) PROVE PrintInv'
  <2>1. a.ttl \in TTLs /\ a.i \in Idx /\ adding' \subseteq adding
    BY <1>10, AddTimeoutEffect
  <2> QED
    BY <1>8, <1>10, <2>1, AddTimeoutEffect
<1>11. ASSUME Next PROVE PrintInv'
  <2>1. \/ tr' = tr /\ hops' = hops /\ adding' = adding
        \/ ControlStep
        \/ \E m \in matchQ : Match(m)
        \/ \E m \in adding : AddReply(m)
        \/ \E a \in Attempts : AddTimeout(a)
    BY <1>11, NextCases, SenderEffect, StartEffect, SendOKEffect, SendErrorEffect,
       ListenOutEffect, ReplyEffect, TimeoutEffect, Zenon
  <2> QED
    BY <1>4, <1>6, <1>7, <1>9, <1>10, <2>1
<1> QED
  BY <1>5, <1>11

(***************************************************************************)
(* The capture of macOS                                                    *)
(***************************************************************************)
\* Sequences by their elements.
LEMMA AppendElements ==
  ASSUME NEW S, NEW s \in Seq(S), NEW e \in S
  PROVE  /\ DOMAIN s = 1 .. Len(s) /\ Len(s) \in Nat
         /\ DOMAIN Append(s, e) = 1 .. Len(s) + 1 /\ Len(Append(s, e)) = Len(s) + 1
         /\ \A k \in 1 .. Len(s) : Append(s, e)[k] = s[k]
         /\ Append(s, e)[Len(s) + 1] = e
OBVIOUS

LEMMA TailElements ==
  ASSUME NEW S, NEW s \in Seq(S), s # <<>>
  PROVE  /\ DOMAIN s = 1 .. Len(s) /\ Len(s) \in Nat /\ 1 <= Len(s) /\ Head(s) = s[1]
         /\ DOMAIN Tail(s) = 1 .. Len(s) - 1 /\ Len(Tail(s)) = Len(s) - 1
         /\ \A k \in 1 .. Len(s) - 1 : Tail(s)[k] = s[k + 1]
BY HeadTailProperties

LEMMA AttemptsFinite ==
  ASSUME CfgOK
  PROVE  IsFiniteSet(Attempts)
<1> DEFINE f == [p \in TTLs \X Idx |-> [ttl |-> p[1], i |-> p[2]]]
<1>1. IsFiniteSet(TTLs) /\ IsFiniteSet(Idx)
  <2>1. cfg.begin \in Int /\ cfg.hops \in Int /\ cfg.m - 1 \in Int
    BY DEF CfgOK
  <2>2. IsFiniteSet(cfg.begin .. cfg.hops)
    BY <2>1, FS_Interval
  <2>3. IsFiniteSet(0 .. cfg.m - 1)
    BY <2>1, FS_Interval
  <2> QED
    BY <2>2, <2>3 DEF TTLs, Idx
<1>2. IsFiniteSet(TTLs \X Idx)
  BY <1>1, FS_Product
<1>3. \A a \in Attempts : \E p \in TTLs \X Idx : f[p] = a
  <2>1. SUFFICES ASSUME NEW a \in Attempts PROVE \E p \in TTLs \X Idx : f[p] = a
    OBVIOUS
  <2>2. a.ttl \in TTLs /\ a.i \in Idx /\ a = [ttl |-> a.ttl, i |-> a.i]
    BY Ranges
  <2>3. <<a.ttl, a.i>> \in TTLs \X Idx /\ f[<<a.ttl, a.i>>] = a
    BY <2>2
  <2> QED
    BY <2>3
<1>4. f \in [TTLs \X Idx -> Attempts]
  <2>1. \A p \in TTLs \X Idx : [ttl |-> p[1], i |-> p[2]] \in Attempts
    BY Ranges
  <2> QED
    BY <2>1
<1>5. f \in Surjection(TTLs \X Idx, Attempts)
  <2> HIDE DEF f
  <2> QED
    BY <1>3, <1>4 DEF Surjection
<1> QED
  BY <1>2, <1>5, FS_Surjection

\* The places of the queues and of the wire hold attempts.
LEMMA PlacesHold ==
  ASSUME Types
  PROVE  /\ \A t \in TTLs : \A k \in DOMAIN out.q[t] :
              k \in Nat /\ k >= 1 /\ k <= Len(out.q[t]) /\ At(t, k) \in Attempts /\ At(t, k).ttl = t
         /\ \A p \in DOMAIN out.wire :
              p \in Nat /\ p >= 1 /\ p <= Len(out.wire) /\ out.wire[p] \in Attempts
<1>0. CfgOK /\ out \in [q : [TTLs -> Seq(Captured)], wire : Seq(Attempts)]
  BY DEF Types
<1>1. \A S : \A s \in Seq(S) : \A k \in DOMAIN s : k \in Nat /\ k >= 1 /\ k <= Len(s) /\ s[k] \in S
  OBVIOUS
<1>2. \A t \in TTLs : out.q[t] \in Seq(Captured)
  BY <1>0
<1>3. \A c \in Captured : c.i \in Idx
  BY DEF Captured
<1>4. \A t \in TTLs : \A k \in DOMAIN out.q[t] :
        k \in Nat /\ k >= 1 /\ k <= Len(out.q[t]) /\ out.q[t][k].i \in Idx
  BY <1>1, <1>2, <1>3
<1> QED
  BY <1>0, <1>1, <1>4, Ranges DEF At

\* The packet that is captured is that of the attempt at the head of its queue.
LEMMA HeadIsNext ==
  ASSUME Types, WireInv, QueueInv, OrderInv, out.wire # <<>>, NEW a, a = Head(out.wire)
  PROVE  /\ a \in Attempts /\ att[a].s = "sent"
         /\ out.q[a.ttl] # <<>> /\ Head(out.q[a.ttl]).i = a.i /\ At(a.ttl, 1) = a
         /\ Head(out.q[a.ttl]).port = att[a].port
<1>0. CfgOK /\ out \in [q : [TTLs -> Seq(Captured)], wire : Seq(Attempts)]
  BY DEF Types
<1>1. out.wire \in Seq(Attempts) /\ 1 \in DOMAIN out.wire /\ out.wire[1] = a /\ a \in Attempts
      /\ DOMAIN out.wire = 1 .. Len(out.wire)
  BY <1>0, TailElements
<1>2. a.ttl \in TTLs /\ out.q[a.ttl] \in Seq(Captured)
  BY <1>0, <1>1, Ranges
<1>3. PICK k \in DOMAIN out.q[a.ttl] : At(a.ttl, k) = a
  BY <1>1 DEF QueueInv, OnWire
<1>4. k \in Nat /\ k >= 1 /\ 1 \in DOMAIN out.q[a.ttl] /\ out.q[a.ttl] # <<>>
  <2>1. \A q \in Seq(Captured) : \A j \in DOMAIN q :
          j \in Nat /\ j >= 1 /\ 1 \in DOMAIN q /\ q # <<>>
    OBVIOUS
  <2> QED
    BY <1>2, <1>3, <2>1
<1>5. k = 1
  <2>1. SUFFICES ASSUME 1 < k PROVE FALSE
    BY <1>4
  <2>2. \E o \in DOMAIN out.wire : o < 1
    BY <1>1, <1>2, <1>3, <1>4, <2>1 DEF OrderInv
  <2> QED
    BY <1>1, <2>2
<1>6. Head(out.q[a.ttl]) = out.q[a.ttl][1]
  BY <1>2, <1>4
<1>7. Head(out.q[a.ttl]).i = a.i
  BY <1>3, <1>5, <1>6 DEF At
<1>8. Head(out.q[a.ttl]).port = att[a].port
  BY <1>2, <1>3, <1>4, <1>5, <1>6 DEF QueueInv
<1> QED
  BY <1>1, <1>3, <1>4, <1>5, <1>7, <1>8 DEF WireInv

\* The queues follow the packets when nothing is sent or captured.
LEMMA QueueFrame ==
  ASSUME Types, Attempts' = Attempts, TTLs' = TTLs, WireInv, QueueInv, OrderInv, out' = out,
         \A a \in Attempts :
           /\ att[a].s \in {"sending", "sent"} \/ att'[a].s \in {"sending", "sent"} =>
                att'[a].s = att[a].s
           /\ att[a].s \in {"sending", "sent"} => att'[a].port = att[a].port
  PROVE  WireInv' /\ QueueInv' /\ OrderInv'
<1>0. CfgOK /\ out \in [q : [TTLs -> Seq(Captured)], wire : Seq(Attempts)]
  BY DEF Types
<1>1. \A t, k : At(t, k)' = At(t, k)
  BY DEF At
<1>2. \A a : OnWire(a)' <=> OnWire(a)
  BY DEF OnWire
<1>3. \A t \in TTLs : \A k \in DOMAIN out.q[t] : At(t, k) \in Attempts
  BY PlacesHold
<1>4. \A p \in DOMAIN out.wire : out.wire[p] \in Attempts
  BY <1>0
<1>5. WireInv'
  BY <1>4 DEF WireInv
<1>6. \A t \in TTLs : \A k \in DOMAIN out.q[t] : att[At(t, k)].s \in {"sending", "sent"}
  BY DEF QueueInv, WireInv, OnWire
<1>7. QueueInv'
  BY <1>1, <1>2, <1>3, <1>6 DEF QueueInv
<1>8. OrderInv'
  BY <1>1 DEF OrderInv
<1> QED
  BY <1>5, <1>7, <1>8

\* A sender registers its attempt in the queue of its TTL, alone.
LEMMA QueueStart ==
  ASSUME Types, cfg' = cfg, WireInv, QueueInv, OrderInv, IsDarwin, cfg.par = 1,
         NEW a \in Attempts, StartSend(a)
  PROVE  WireInv' /\ QueueInv' /\ OrderInv'
<1>0. CfgOK /\ out \in [q : [TTLs -> Seq(Captured)], wire : Seq(Attempts)]
      /\ TTLs' = TTLs /\ Attempts' = Attempts
  BY ConfigFixed DEF Types
<1> DEFINE t0 == a.ttl
           q == out.q[t0]
           c == [i |-> a.i, port |-> att'[a].port]
<1>1. /\ att[a].s = "queued" /\ att'[a].s = "sending"
      /\ \A b \in Attempts : b # a => att'[b] = att[b]
      /\ out'.wire = out.wire
      /\ out'.q[t0] = Append(q, c)
      /\ \A t \in TTLs : t # t0 => out'.q[t] = out.q[t]
      /\ att' \in [Attempts -> Attempt]
  BY StartEffect
<1>2. t0 \in TTLs /\ a.i \in Idx /\ q \in Seq(Captured) /\ c \in Captured
      /\ a = [ttl |-> t0, i |-> a.i]
  BY <1>0, <1>1, Ranges DEF Captured, Attempt
<1>3. /\ DOMAIN q = 1 .. Len(q) /\ Len(q) \in Nat
      /\ DOMAIN out'.q[t0] = 1 .. Len(q) + 1 /\ Len(out'.q[t0]) = Len(q) + 1
      /\ \A k \in 1 .. Len(q) : out'.q[t0][k] = q[k]
      /\ out'.q[t0][Len(q) + 1] = c
  BY <1>1, <1>2, AppendElements
<1>4. \A b \in Attempts : att[b].s # "sending"
  <2>1. Cardinality(Sending) < 1
    BY DEF StartSend
  <2>2. IsFiniteSet(Sending)
    BY <1>0, AttemptsFinite, FS_Subset DEF Sending
  <2>3. Sending = {}
    BY <2>1, <2>2, FS_EmptySet, FS_CardinalityType
  <2> QED
    BY <2>3 DEF Sending
<1>5. \A p \in DOMAIN out.wire : out.wire[p] \in Attempts /\ att[out.wire[p]].s = "sent"
      /\ out.wire[p] # a
  BY <1>0, <1>1 DEF WireInv
<1>6. \A b : OnWire(b)' <=> OnWire(b)
  BY <1>1 DEF OnWire
<1>7. WireInv'
  <2>1. \A x, y \in Attempts : att'[x].s = "sending" /\ att'[y].s = "sending" => x = y
    BY <1>1, <1>4
  <2>2. \A p \in DOMAIN out.wire : att'[out.wire[p]].s = "sent"
    BY <1>1, <1>5
  <2> QED
    BY <1>0, <1>1, <2>1, <2>2 DEF WireInv
\* The places: those there were, and the new one.
<1> DEFINE Old(t, k) == k \in DOMAIN out.q[t]
           New(t, k) == t = t0 /\ k = Len(q) + 1
<1>8. \A t \in TTLs : \A k \in DOMAIN out'.q[t] : Old(t, k) \/ New(t, k)
  BY <1>1, <1>2, <1>3
<1>9. \A t \in TTLs : \A k : Old(t, k) => k \in DOMAIN out'.q[t] /\ out'.q[t][k] = out.q[t][k]
                                          /\ ~ New(t, k) /\ k \in Nat
  <2>1. \A s \in Seq(Captured) : \A k \in DOMAIN s : k \in Nat
    OBVIOUS
  <2> QED
    BY <1>0, <1>1, <1>2, <1>3, <2>1
<1>10. \A t \in TTLs : \A k : Old(t, k) =>
         /\ At(t, k)' = At(t, k) /\ OnWire(At(t, k)) /\ At(t, k) # a
         /\ out.q[t][k].port = att'[At(t, k)].port
  <2>1. \A t \in TTLs : \A k : Old(t, k) => At(t, k)' = At(t, k)
    BY <1>9 DEF At
  <2>2. \A t \in TTLs : \A k : Old(t, k) =>
          OnWire(At(t, k)) \/ att[At(t, k)].s = "sending"
    BY DEF QueueInv
  <2>3. \A t \in TTLs : \A k : Old(t, k) => At(t, k) \in Attempts
    BY PlacesHold
  <2>4. \A t \in TTLs : \A k : Old(t, k) => OnWire(At(t, k)) /\ At(t, k) # a
    BY <1>4, <1>5, <2>2, <2>3 DEF OnWire
  <2>5. \A t \in TTLs : \A k : Old(t, k) => out.q[t][k].port = att[At(t, k)].port
    BY DEF QueueInv
  <2> QED
    BY <1>1, <2>1, <2>3, <2>4, <2>5
<1>11. \A t \in TTLs : \A k : New(t, k) =>
         /\ At(t, k)' = a /\ k = Len(out'.q[t]) /\ k \in DOMAIN out'.q[t]
         /\ out'.q[t][k] = c
  BY <1>2, <1>3 DEF At
<1> HIDE DEF Old, New
<1>12. QueueInv'
  <2>1. ASSUME NEW t \in TTLs, NEW k \in DOMAIN out'.q[t]
        PROVE  /\ out'.q[t][k].port = att'[At(t, k)'].port
               /\ \/ att'[At(t, k)'].s = "sending" /\ k = Len(out'.q[t])
                  \/ OnWire(At(t, k))'
    <3>1. CASE Old(t, k)
      <4>1. OnWire(At(t, k))'
        BY <1>1, <1>10, <3>1 DEF OnWire
      <4> QED
        BY <1>9, <1>10, <2>1, <3>1, <4>1
    <3>2. CASE New(t, k)
      BY <1>1, <1>11, <2>1, <3>2
    <3> QED
      BY <1>8, <2>1, <3>1, <3>2
  <2>2. ASSUME NEW t \in TTLs, NEW j \in DOMAIN out'.q[t], NEW k \in DOMAIN out'.q[t],
               out'.q[t][j].i = out'.q[t][k].i
        PROVE  j = k
    <3>0. At(t, j)' = At(t, k)'
      BY <2>2 DEF At
    <3>1. CASE Old(t, j) /\ Old(t, k)
      BY <1>9, <2>2, <3>1 DEF QueueInv, Old
    <3>2. CASE New(t, j) /\ New(t, k)
      BY <3>2 DEF New
    <3>3. CASE Old(t, j) /\ New(t, k)
      BY <1>10, <1>11, <2>2, <3>0, <3>3
    <3>4. CASE New(t, j) /\ Old(t, k)
      BY <1>10, <1>11, <2>2, <3>0, <3>4
    <3> QED
      BY <1>8, <2>2, <3>1, <3>2, <3>3, <3>4
  <2>3. ASSUME NEW b \in Attempts, att'[b].s = "sending" \/ OnWire(b)
        PROVE  \E k \in DOMAIN out'.q[b.ttl] : At(b.ttl, k)' = b
    <3>1. CASE b = a
      <4>1. New(b.ttl, Len(q) + 1)
        BY <3>1 DEF New
      <4> QED
        BY <1>2, <1>11, <3>1, <4>1
    <3>2. CASE b # a
      <4>1. OnWire(b)
        BY <1>1, <1>4, <2>3, <3>2
      <4>2. PICK k \in DOMAIN out.q[b.ttl] : At(b.ttl, k) = b
        BY <4>1 DEF QueueInv
      <4>3. Old(b.ttl, k) /\ b.ttl \in TTLs
        BY <1>0, <4>2, Ranges DEF Old
      <4> QED
        BY <1>9, <1>10, <4>2, <4>3
    <3> QED
      BY <3>1, <3>2
  <2> QED
    BY <1>0, <1>6, <2>1, <2>2, <2>3 DEF QueueInv
<1>13. OrderInv'
  <2>1. SUFFICES ASSUME NEW t \in TTLs, NEW j \in DOMAIN out'.q[t], NEW k \in DOMAIN out'.q[t],
                        NEW p \in DOMAIN out.wire, j < k, out.wire[p] = At(t, k)'
                 PROVE  \E o \in DOMAIN out.wire : o < p /\ out.wire[o] = At(t, j)'
    BY <1>0, <1>1 DEF OrderInv
  <2>2. Old(t, k)
    BY <1>5, <1>8, <1>11, <2>1
  <2>3. Old(t, j)
    <3>1. \A s \in Seq(Captured) : \A x \in DOMAIN s : x <= Len(s)
      OBVIOUS
    <3>2. ~ New(t, j)
      BY <1>2, <1>3, <2>1, <2>2, <3>1 DEF New, Old
    <3> QED
      BY <1>8, <2>1, <3>2
  <2> QED
    BY <1>10, <2>1, <2>2, <2>3 DEF OrderInv, Old
<1> QED
  BY <1>7, <1>12, <1>13

\* A packet goes past the capture: it is the last of its queue and now the last on the wire.
LEMMA QueueSent ==
  ASSUME Types, cfg' = cfg, WireInv, QueueInv, OrderInv, IsDarwin,
         NEW a \in Attempts, SendOK(a)
  PROVE  WireInv' /\ QueueInv' /\ OrderInv'
<1>0. CfgOK /\ out \in [q : [TTLs -> Seq(Captured)], wire : Seq(Attempts)]
      /\ TTLs' = TTLs /\ Attempts' = Attempts
  BY ConfigFixed DEF Types
<1> DEFINE w == out.wire
           n == Len(w) + 1
<1>1. /\ att[a].s = "sending" /\ att'[a].s = "sent" /\ att'[a].port = att[a].port
      /\ \A b \in Attempts : b # a => att'[b] = att[b]
      /\ out'.q = out.q /\ out'.wire = Append(w, a)
  BY SendOKEffect
<1>2. /\ DOMAIN w = 1 .. Len(w) /\ Len(w) \in Nat
      /\ DOMAIN out'.wire = 1 .. n
      /\ \A p \in DOMAIN w : p \in DOMAIN out'.wire /\ out'.wire[p] = w[p] /\ p < n /\ p # n
      /\ n \in DOMAIN out'.wire /\ out'.wire[n] = a
      /\ \A p \in DOMAIN out'.wire : p \in DOMAIN w \/ p = n
  <2>1. w \in Seq(Attempts)
    BY <1>0
  <2>2. /\ DOMAIN w = 1 .. Len(w) /\ Len(w) \in Nat
        /\ DOMAIN out'.wire = 1 .. Len(w) + 1
        /\ \A p \in 1 .. Len(w) : out'.wire[p] = w[p]
        /\ out'.wire[Len(w) + 1] = a
    BY <1>1, <2>1, AppendElements
  <2> HIDE DEF w
  <2> QED
    BY <2>2
<1>3. \A p \in DOMAIN w : w[p] \in Attempts /\ att[w[p]].s = "sent" /\ w[p] # a
  BY <1>1, PlacesHold DEF WireInv
<1>4. \A t, k : At(t, k)' = At(t, k)
  BY <1>1 DEF At
<1> HIDE DEF w, n
<1>5. \A b : OnWire(b)' <=> OnWire(b) \/ b = a
  BY <1>2 DEF OnWire, w
<1>6. WireInv'
  <2>1. \A x, y \in Attempts : att'[x].s = "sending" /\ att'[y].s = "sending" => x = y
    BY <1>1 DEF WireInv
  <2>2. \A p \in DOMAIN out'.wire : att'[out'.wire[p]].s = "sent"
    BY <1>1, <1>2, <1>3
  <2>3. \A p1, p2 \in DOMAIN out'.wire : out'.wire[p1] = out'.wire[p2] => p1 = p2
    BY <1>2, <1>3 DEF WireInv, w
  <2> QED
    BY <1>0, <2>1, <2>2, <2>3 DEF WireInv
<1>7. \A t \in TTLs : \A k \in DOMAIN out.q[t] :
        /\ At(t, k) \in Attempts
        /\ out.q[t][k].port = att'[At(t, k)].port
        /\ At(t, k) = a \/ OnWire(At(t, k))
        /\ k < Len(out.q[t]) => OnWire(At(t, k))
  <2>1. \A t \in TTLs : \A k \in DOMAIN out.q[t] :
          At(t, k) \in Attempts /\ out.q[t][k].port = att[At(t, k)].port
    BY PlacesHold DEF QueueInv
  <2>2. \A t \in TTLs : \A k \in DOMAIN out.q[t] :
          \/ OnWire(At(t, k))
          \/ att[At(t, k)].s = "sending" /\ k = Len(out.q[t])
    BY DEF QueueInv
  <2>3. \A t \in TTLs : \A k \in DOMAIN out.q[t] : OnWire(At(t, k)) \/ (At(t, k) = a /\ k = Len(out.q[t]))
    BY <1>1, <2>1, <2>2 DEF WireInv
  <2>4. \A t \in TTLs : \A k \in DOMAIN out.q[t] : k \in Nat
    BY PlacesHold
  <2> QED
    BY <1>1, <2>1, <2>3, <2>4
<1>8. QueueInv'
  <2>1. \A t \in TTLs : \A k \in DOMAIN out.q[t] : OnWire(At(t, k))'
    <3>1. \A t \in TTLs : \A k \in DOMAIN out.q[t] :
            \E p \in DOMAIN out'.wire : out'.wire[p] = At(t, k)
      BY <1>2, <1>7 DEF OnWire, w
    <3> QED
      BY <1>4, <3>1 DEF OnWire
  <2>2. \A b \in Attempts : att'[b].s = "sending" \/ OnWire(b)' =>
          \E k \in DOMAIN out.q[b.ttl] : At(b.ttl, k) = b
    BY <1>1, <1>5 DEF QueueInv
  <2>3. \A t \in TTLs : \A j, k \in DOMAIN out.q[t] : out.q[t][j].i = out.q[t][k].i => j = k
    BY DEF QueueInv
  <2> QED
    BY <1>0, <1>1, <1>4, <1>7, <2>1, <2>2, <2>3 DEF QueueInv
<1>9. OrderInv'
  <2>1. SUFFICES ASSUME NEW t \in TTLs, NEW j \in DOMAIN out.q[t], NEW k \in DOMAIN out.q[t],
                        NEW p \in DOMAIN out'.wire, j < k, out'.wire[p] = At(t, k)
                 PROVE  \E o \in DOMAIN out'.wire : o < p /\ out'.wire[o] = At(t, j)
    BY <1>0, <1>1, <1>4 DEF OrderInv
  <2>2. CASE p \in DOMAIN w
    <3>1. \E o \in DOMAIN w : o < p /\ w[o] = At(t, j)
      BY <1>2, <2>1, <2>2 DEF OrderInv, w
    <3> QED
      BY <1>2, <3>1
  <2>3. CASE p = n
    <3>1. j < Len(out.q[t])
      BY <2>1, PlacesHold
    <3>2. \E o \in DOMAIN w : w[o] = At(t, j)
      BY <1>7, <3>1 DEF OnWire, w
    <3> QED
      BY <1>2, <2>3, <3>2
  <2> QED
    BY <1>2, <2>2, <2>3
<1> QED
  BY <1>6, <1>8, <1>9

\* The capture takes the first packet and the head of its queue.
LEMMA QueueCaptured ==
  ASSUME Types, cfg' = cfg, WireInv, QueueInv, OrderInv, IsDarwin, IsUDP,
         NEW a \in Attempts, "out" \in tr.up, ListenOut(a)
  PROVE  WireInv' /\ QueueInv' /\ OrderInv'
<1>0. CfgOK /\ out \in [q : [TTLs -> Seq(Captured)], wire : Seq(Attempts)]
      /\ TTLs' = TTLs /\ Attempts' = Attempts
  BY ConfigFixed DEF Types
<1> DEFINE w == out.wire
           t0 == a.ttl
           q == out.q[t0]
<1>1. /\ att' = att /\ w # <<>> /\ a = Head(w) /\ out'.wire = Tail(w)
      /\ q # <<>> /\ At(t0, 1) = a
      /\ out'.q[t0] = Tail(q)
      /\ \A t \in TTLs : t # t0 => out'.q[t] = out.q[t]
  <2>1. w # <<>> /\ a = Head(w)
    BY ListenOutEffect
  <2>2. q # <<>> /\ At(t0, 1) = a /\ Head(q).port = att[a].port
    BY <2>1, HeadIsNext
  <2> QED
    BY <2>1, <2>2, ListenOutEffect
<1>2. /\ DOMAIN w = 1 .. Len(w) /\ Len(w) \in Nat /\ 1 <= Len(w) /\ w[1] = a
      /\ DOMAIN out'.wire = 1 .. Len(w) - 1
      /\ \A p \in 1 .. Len(w) - 1 : out'.wire[p] = w[p + 1]
  BY <1>0, <1>1, TailElements
<1>3. t0 \in TTLs /\ q \in Seq(Captured)
  BY <1>0, Ranges
<1>4. /\ DOMAIN q = 1 .. Len(q) /\ Len(q) \in Nat /\ 1 <= Len(q)
      /\ DOMAIN out'.q[t0] = 1 .. Len(q) - 1 /\ Len(out'.q[t0]) = Len(q) - 1
      /\ \A k \in 1 .. Len(q) - 1 : out'.q[t0][k] = q[k + 1]
  <2>1. q # <<>> /\ out'.q[t0] = Tail(q)
    BY <1>1
  <2> HIDE DEF q
  <2> QED
    BY <1>3, <2>1, TailElements
\* A place after the step was one before it, further back by one in a's queue.
<1> DEFINE Was(t, k) == IF t = t0 THEN k + 1 ELSE k
<1>5. \A t \in TTLs : \A k \in DOMAIN out'.q[t] :
        /\ k \in Nat /\ Was(t, k) \in DOMAIN out.q[t]
        /\ out'.q[t][k] = out.q[t][Was(t, k)]
        /\ t = t0 => Was(t, k) # 1
        /\ k = Len(out'.q[t]) <=> Was(t, k) = Len(out.q[t])
  <2>1. \A k \in DOMAIN out'.q[t0] :
          /\ k \in Nat /\ k + 1 \in DOMAIN q /\ out'.q[t0][k] = q[k + 1] /\ k + 1 # 1
          /\ k = Len(out'.q[t0]) <=> k + 1 = Len(q)
    <3>1. \A n \in Nat : \A k \in 1 .. n - 1 :
            k \in Nat /\ k + 1 \in 1 .. n /\ k + 1 # 1 /\ (k = n - 1 <=> k + 1 = n)
      OBVIOUS
    <3> HIDE DEF q
    <3>2. SUFFICES ASSUME NEW k \in DOMAIN out'.q[t0]
                   PROVE  /\ k \in Nat /\ k + 1 \in DOMAIN q /\ out'.q[t0][k] = q[k + 1] /\ k + 1 # 1
                          /\ k = Len(out'.q[t0]) <=> k + 1 = Len(q)
      OBVIOUS
    <3>3. k \in 1 .. Len(q) - 1
      BY <1>4, <3>2
    <3>4. k \in Nat /\ k + 1 \in 1 .. Len(q) /\ k + 1 # 1 /\ (k = Len(q) - 1 <=> k + 1 = Len(q))
      BY <1>4, <3>1, <3>3
    <3>5. out'.q[t0][k] = q[k + 1] /\ k + 1 \in DOMAIN q
      BY <1>4, <3>3, <3>4
    <3>6. Len(out'.q[t0]) = Len(q) - 1
      BY <1>4
    <3> QED
      BY <3>4, <3>5, <3>6
  <2>2. \A t \in TTLs : t # t0 => \A k \in DOMAIN out'.q[t] :
          /\ k \in Nat /\ k \in DOMAIN out.q[t] /\ out'.q[t][k] = out.q[t][k]
          /\ k = Len(out'.q[t]) <=> k = Len(out.q[t])
    BY <1>1, PlacesHold
  <2> QED
    BY <2>1, <2>2
<1>6. \A t \in TTLs : \A k \in DOMAIN out'.q[t] :
        /\ At(t, k)' = At(t, Was(t, k)) /\ At(t, Was(t, k)) \in Attempts /\ At(t, Was(t, k)) # a
  <2>1. \A t \in TTLs : \A k \in DOMAIN out'.q[t] : At(t, k)' = At(t, Was(t, k))
    BY <1>5 DEF At
  <2>2. \A t \in TTLs : \A k \in DOMAIN out'.q[t] :
          At(t, Was(t, k)) \in Attempts /\ At(t, Was(t, k)).ttl = t
    BY <1>5, PlacesHold
  <2>3. \A k \in DOMAIN q : k # 1 => At(t0, k) # a
    <3>1. \A j, k \in DOMAIN q : q[j].i = q[k].i => j = k
      BY <1>3 DEF QueueInv
    <3>2. a.i = q[1].i /\ \A k : At(t0, k).i = q[k].i
      BY <1>1 DEF At
    <3>3. 1 \in DOMAIN q
      BY <1>4
    <3>4. \A k \in DOMAIN q : k # 1 => q[k].i # q[1].i
      BY <3>1, <3>3
    <3> HIDE DEF q
    <3> QED
      BY <3>2, <3>4
  <2> HIDE DEF Was
  <2> QED
    BY <1>5, <2>1, <2>2, <2>3
<1> HIDE DEF Was
<1>7. \A b : OnWire(b)' => OnWire(b)
  <2>1. \A p \in DOMAIN out'.wire : p + 1 \in DOMAIN w /\ out'.wire[p] = w[p + 1]
    BY <1>2
  <2> QED
    BY <2>1 DEF OnWire
<1>8. \A p \in DOMAIN w : w[p] # a => \E o \in DOMAIN out'.wire : o + 1 = p /\ out'.wire[o] = w[p]
  <2>1. \A p \in DOMAIN w : w[p] # a => p # 1 /\ p \in Nat
    BY <1>2
  <2>2. \A p \in DOMAIN w : p # 1 => p - 1 \in DOMAIN out'.wire /\ (p - 1) + 1 = p
    BY <1>2
  <2> HIDE DEF w
  <2> QED
    BY <1>2, <2>1, <2>2
<1>9. \A b : OnWire(b) /\ b # a => OnWire(b)'
  BY <1>8 DEF OnWire
<1>10. ~ OnWire(a)'
  <2>1. \A p \in DOMAIN out'.wire :
          p + 1 \in DOMAIN w /\ 1 \in DOMAIN w /\ p + 1 # 1 /\ out'.wire[p] = w[p + 1]
    BY <1>2
  <2>2. \A p \in DOMAIN w : w[p] = w[1] => p = 1
    BY <1>2 DEF WireInv
  <2> QED
    BY <1>2, <2>1, <2>2 DEF OnWire
<1>11. WireInv'
  <2>1. \A p \in DOMAIN out'.wire : p + 1 \in DOMAIN w /\ out'.wire[p] = w[p + 1]
    BY <1>2
  <2>2. \A p \in DOMAIN out'.wire : att[out'.wire[p]].s = "sent"
    BY <2>1 DEF WireInv
  <2>3. \A p1, p2 \in DOMAIN out'.wire : out'.wire[p1] = out'.wire[p2] => p1 = p2
    <3>1. \A p1, p2 \in DOMAIN out'.wire : out'.wire[p1] = out'.wire[p2] => p1 + 1 = p2 + 1
      BY <2>1 DEF WireInv
    <3>2. \A p \in DOMAIN out'.wire : p \in Nat
      BY <1>2
    <3> QED
      BY <3>1, <3>2
  <2>4. \A x, y \in Attempts : att[x].s = "sending" /\ att[y].s = "sending" => x = y
    BY DEF WireInv
  <2> QED
    BY <1>0, <1>1, <2>2, <2>3, <2>4 DEF WireInv
<1> HIDE DEF w
<1>12. QueueInv'
  <2>1. ASSUME NEW t \in TTLs, NEW k \in DOMAIN out'.q[t]
        PROVE  /\ out'.q[t][k].port = att'[At(t, k)'].port
               /\ \/ att'[At(t, k)'].s = "sending" /\ k = Len(out'.q[t])
                  \/ OnWire(At(t, k))'
    <3>1. /\ out.q[t][Was(t, k)].port = att[At(t, Was(t, k))].port
          /\ \/ att[At(t, Was(t, k))].s = "sending" /\ Was(t, k) = Len(out.q[t])
             \/ OnWire(At(t, Was(t, k)))
      BY <1>5, <2>1 DEF QueueInv
    <3>2. OnWire(At(t, Was(t, k))) => OnWire(At(t, k))'
      <4>1. SUFFICES ASSUME OnWire(At(t, Was(t, k))) PROVE OnWire(At(t, k))'
        OBVIOUS
      <4>2. \E p \in DOMAIN out'.wire : out'.wire[p] = At(t, Was(t, k))
        BY <1>6, <1>8, <2>1, <4>1 DEF OnWire, w
      <4> QED
        BY <1>6, <2>1, <4>2 DEF OnWire
    <3> QED
      BY <1>1, <1>5, <1>6, <2>1, <3>1, <3>2
  <2>2. ASSUME NEW t \in TTLs, NEW j \in DOMAIN out'.q[t], NEW k \in DOMAIN out'.q[t],
               out'.q[t][j].i = out'.q[t][k].i
        PROVE  j = k
    <3>1. Was(t, j) = Was(t, k)
      BY <1>5, <2>2 DEF QueueInv
    <3> QED
      BY <1>5, <2>2, <3>1 DEF Was
  <2>3. ASSUME NEW b \in Attempts, att[b].s = "sending" \/ OnWire(b)'
        PROVE  \E k \in DOMAIN out'.q[b.ttl] : At(b.ttl, k)' = b
    <3>1. b # a /\ b.ttl \in TTLs
      <4>1. att[a].s = "sent"
        BY <1>1, HeadIsNext DEF w
      <4> QED
        BY <1>0, <1>10, <2>3, <4>1, Ranges
    <3>2. PICK k \in DOMAIN out.q[b.ttl] : At(b.ttl, k) = b
      BY <1>7, <2>3 DEF QueueInv
    <3>3. CASE b.ttl = t0
      <4>1. k # 1 /\ k \in DOMAIN q
        BY <1>1, <3>1, <3>2, <3>3
      <4>2. k - 1 \in DOMAIN out'.q[t0] /\ Was(t0, k - 1) = k
        BY <1>4, <4>1 DEF Was
      <4> QED
        BY <1>3, <1>6, <3>2, <3>3, <4>2
    <3>4. CASE b.ttl # t0
      <4>1. k \in DOMAIN out'.q[b.ttl] /\ Was(b.ttl, k) = k
        BY <1>1, <3>1, <3>2, <3>4 DEF Was
      <4> QED
        BY <1>6, <3>1, <3>2, <4>1
    <3> QED
      BY <3>3, <3>4
  <2> QED
    BY <1>0, <1>1, <2>1, <2>2, <2>3 DEF QueueInv
<1>13. OrderInv'
  <2>1. SUFFICES ASSUME NEW t \in TTLs, NEW j \in DOMAIN out'.q[t], NEW k \in DOMAIN out'.q[t],
                        NEW p \in DOMAIN out'.wire, j < k, out'.wire[p] = At(t, k)'
                 PROVE  \E o \in DOMAIN out'.wire : o < p /\ out'.wire[o] = At(t, j)'
    BY <1>0 DEF OrderInv
  <2>2. p + 1 \in DOMAIN w /\ w[p + 1] = At(t, Was(t, k)) /\ p \in Nat
    BY <1>2, <1>6, <2>1
  <2>3. Was(t, j) < Was(t, k)
    BY <1>5, <2>1 DEF Was
  <2>4. PICK o \in DOMAIN w : o < p + 1 /\ w[o] = At(t, Was(t, j))
    BY <1>5, <2>1, <2>2, <2>3 DEF OrderInv, w
  <2>5. PICK x \in DOMAIN out'.wire : x + 1 = o /\ out'.wire[x] = At(t, j)'
    BY <1>6, <1>8, <2>1, <2>4
  <2>6. x \in Nat
    BY <1>2, <2>5
  <2> QED
    BY <2>2, <2>4, <2>5, <2>6
<1> QED
  BY <1>11, <1>12, <1>13

\* The capture is ready when a probe is out, unless it is slow.
LEMMA ReadyStep ==
  ASSUME Types, CaptureReady, [Next]_vars, IsDarwin, ~ cfg.slow
  PROVE  CaptureReady'
<1>0. /\ cfg' = cfg /\ CfgOK /\ tr \in Progress /\ tr' \in Progress
      /\ att \in [Attempts -> Attempt] /\ Attempts' = Attempts
  BY ConfigKept, TypesStep, ConfigFixed DEF Types, ProgressOK
<1>1. /\ tr.waiting = 0 /\ tr.ctx = "live" => "out" \in tr.up
      /\ tr.started >= cfg.begin => "out" \in tr.up
      /\ \A a \in Attempts : att[a].s # "none" => "out" \in tr.up
  BY DEF CaptureReady
<1>2. ASSUME tr'.up = tr.up, tr'.waiting = tr.waiting, tr'.started = tr.started,
             tr'.ctx = "live" => tr.ctx = "live",
             \A a \in Attempts : att'[a].s # "none" => att[a].s # "none" \/ "out" \in tr.up
      PROVE  CaptureReady'
  BY <1>0, <1>1, <1>2 DEF CaptureReady
<1>3. ASSUME tr' = tr, \A a \in Attempts : att'[a].s # "none" => att[a].s # "none"
      PROVE  CaptureReady'
  BY <1>2, <1>3
<1>4. ASSUME UNCHANGED vars PROVE CaptureReady'
  BY <1>3, <1>4 DEF vars
<1>5. ASSUME ControlStep PROVE CaptureReady'
  <2>0. att' = att
    BY <1>5, ControlEffect
  <2>1. ASSUME NEW l \in Listeners, ListenerReady(l) PROVE CaptureReady'
    <3>1. /\ tr'.up = tr.up \cup {l} /\ tr'.waiting = tr.waiting
          /\ tr'.started = tr.started /\ tr'.ctx = tr.ctx
      BY <1>0, <2>1 DEF ListenerReady, Progress
    <3> QED
      BY <1>0, <1>1, <2>0, <3>1 DEF CaptureReady
  <2>2. ASSUME waitAllReady PROVE CaptureReady'
    <3>1. tr'.up = tr.up /\ tr'.started = tr.started /\ tr'.ctx = tr.ctx
      BY <1>0, <2>2 DEF waitAllReady, Progress
    <3>2. tr.ctx = "live" =>
            /\ tr'.waiting = tr.waiting - 1 /\ tr.waiting \in Nat /\ tr.waiting > 0
            /\ tr.waiting = 1 => Listeners \ {"udp"} \subseteq tr.up
      BY <1>0, <2>2 DEF waitAllReady, Progress
    <3>3. "out" \in Listeners \ {"udp"}
      BY <1>0, ListenersSound
    <3>4. tr'.waiting = 0 /\ tr.ctx = "live" => "out" \in tr.up
      BY <3>2, <3>3
    <3> QED
      BY <1>0, <1>1, <2>0, <3>1, <3>4 DEF CaptureReady
  <2>3. ASSUME Dispatch PROVE CaptureReady'
    <3>1. tr'.up = tr.up /\ tr'.ctx = tr.ctx /\ "out" \in tr.up
      BY <1>0, <1>1, <2>3 DEF Dispatch, Progress
    <3> QED
      BY <3>1 DEF CaptureReady
  <2>4. ASSUME PrintHops \/ Interrupt \/ Return PROVE CaptureReady'
    <3>1. /\ tr'.up = tr.up /\ tr'.waiting = tr.waiting /\ tr'.started = tr.started
          /\ tr'.ctx = "live" => tr.ctx = "live"
      <4>1. ASSUME PrintHops
            PROVE  /\ tr'.up = tr.up /\ tr'.waiting = tr.waiting /\ tr'.started = tr.started
                   /\ tr'.ctx = "live" => tr.ctx = "live"
        <5>1. \/ tr' = [tr EXCEPT !.printed = @ + 1, !.ctx = "natural"]
              \/ tr' = [tr EXCEPT !.printed = @ + 1, !.ctx = tr.ctx]
          BY <4>1, Zenon DEF PrintHops
        <5> QED
          BY <1>0, <5>1 DEF Progress
      <4>2. ASSUME Interrupt
            PROVE  /\ tr'.up = tr.up /\ tr'.waiting = tr.waiting /\ tr'.started = tr.started
                   /\ tr'.ctx = "live" => tr.ctx = "live"
        BY <1>0, <4>2 DEF Interrupt, Progress
      <4>3. ASSUME Return
            PROVE  /\ tr'.up = tr.up /\ tr'.waiting = tr.waiting /\ tr'.started = tr.started
                   /\ tr'.ctx = "live" => tr.ctx = "live"
        BY <1>0, <4>3 DEF Return, Progress
      <4> QED
        BY <2>4, <4>1, <4>2, <4>3
    <3> QED
      BY <1>2, <2>0, <3>1
  <2> QED
    BY <1>5, <2>1, <2>2, <2>3, <2>4 DEF ControlStep
<1>6. ASSUME SenderStep PROVE CaptureReady'
  <2>1. PICK a \in Attempts :
          /\ (att[a].s = "none" /\ tr.started >= a.ttl) \/ att[a].s # "none"
          /\ \A b \in Attempts : b # a => att'[b] = att[b]
    BY <1>6, SenderEffect
  <2>2. tr' = tr
    BY <1>6, SenderEffect
  <2>3. att[a].s # "none" \/ "out" \in tr.up
    <3>1. a.ttl \in Nat /\ a.ttl >= cfg.begin /\ cfg.begin \in Nat /\ tr.started \in Int
      BY <1>0, Ranges DEF TTLs, CfgOK, Progress
    <3> QED
      BY <1>1, <2>1, <3>1
  <2> QED
    BY <1>2, <2>1, <2>2, <2>3
<1>7. ASSUME NEW a \in Attempts, att[a].s # "none", \A b \in Attempts : b # a => att'[b] = att[b]
      PROVE  \A b \in Attempts : att'[b].s # "none" => att[b].s # "none"
  BY <1>7
<1>8. ASSUME NEW a \in Attempts, StartSend(a) \/ SendOK(a) \/ SendError(a) PROVE CaptureReady'
  <2>1. tr' = tr /\ att[a].s # "none" /\ \A b \in Attempts : b # a => att'[b] = att[b]
    BY <1>8, StartEffect, SendOKEffect, SendErrorEffect
  <2> QED
    BY <1>3, <1>7, <2>1
<1>9. ASSUME NEW a \in Attempts, Timeout(a) PROVE CaptureReady'
  <2>1. tr' = tr /\ att'[a].s = att[a].s /\ \A b \in Attempts : b # a => att'[b] = att[b]
    BY <1>9, TimeoutEffect
  <2> QED
    BY <1>3, <2>1
<1>10. ASSUME NEW a \in Attempts, AddTimeout(a) PROVE CaptureReady'
  <2>1. /\ SameStart /\ SameEnd
        /\ att'[a].s = att[a].s /\ \A b \in Attempts : b # a => att'[b] = att[b]
    BY <1>10, AddTimeoutEffect
  <2> QED
    BY <1>2, <2>1 DEF SameStart, SameEnd
<1>11. ASSUME NEW m \in matchQ, Match(m) PROVE CaptureReady'
  BY <1>2, <1>11, MatchEffect DEF SameStart
<1>12. ASSUME NEW m \in adding, AddReply(m) PROVE CaptureReady'
  BY <1>2, <1>12, AddReplyEffect DEF SameStart, SameEnd
<1>13. ASSUME NEW a \in Attempts, NEW dst \in BOOLEAN, Reply(a, dst) PROVE CaptureReady'
  BY <1>3, <1>13, ReplyEffect
<1>14. ASSUME NEW a \in Attempts, IsUDP, ListenOut(a) PROVE CaptureReady'
  BY <1>3, <1>14, ListenOutEffect
<1>15. ASSUME Next PROVE CaptureReady'
  BY <1>15, <1>5, <1>6, <1>8, <1>9, <1>10, <1>11, <1>12, <1>13, <1>14, NextCases
<1> QED
  BY <1>4, <1>15

LEMMA CaptureStep ==
  ASSUME Types, SilentInv, CaptureInv, [Next]_vars
  PROVE  CaptureInv'
<1>0. cfg' = cfg /\ CfgOK /\ TTLs' = TTLs /\ Attempts' = Attempts
      /\ (Tellable' <=> Tellable) /\ (IsDarwin' <=> IsDarwin)
  BY ConfigKept, ConfigFixed DEF Types
<1> SUFFICES ASSUME Tellable, IsDarwin
             PROVE  CaptureReady' /\ WireInv' /\ QueueInv' /\ OrderInv'
  BY <1>0 DEF CaptureInv
<1>1. CaptureReady /\ WireInv /\ QueueInv /\ OrderInv
  BY DEF CaptureInv
<1>2. ~ cfg.slow /\ ~ cfg.fails /\ cfg.par = 1
  BY DEF Tellable
<1>3. CaptureReady'
  BY <1>1, <1>2, ReadyStep
<1> DEFINE Goal == WireInv' /\ QueueInv' /\ OrderInv'
<1>4. ASSUME out' = out,
             \A a \in Attempts :
               /\ att[a].s \in {"sending", "sent"} \/ att'[a].s \in {"sending", "sent"} =>
                    att'[a].s = att[a].s
               /\ att[a].s \in {"sending", "sent"} => att'[a].port = att[a].port
      PROVE  Goal
  BY <1>0, <1>1, <1>4, QueueFrame
<1>5. ASSUME UNCHANGED <<att, out>> PROVE Goal
  BY <1>4, <1>5
<1>6. ASSUME UNCHANGED vars PROVE Goal
  BY <1>5, <1>6 DEF vars
<1>7. ASSUME SenderStep PROVE Goal
  <2>1. PICK a \in Attempts :
          /\ att[a].s \in {"none", "queued"} /\ att'[a].s \in {"queued", "done"}
          /\ \A b \in Attempts : b # a => att'[b] = att[b]
    BY <1>7, SenderEffect
  <2>2. out' = out
    BY <1>7, SenderEffect
  <2> QED
    BY <1>4, <2>1, <2>2
<1>8. ASSUME NEW a \in Attempts, Timeout(a) \/ AddTimeout(a) PROVE Goal
  <2>1. /\ out' = out /\ att'[a].s = att[a].s /\ att'[a].port = att[a].port
        /\ \A b \in Attempts : b # a => att'[b] = att[b]
    BY <1>8, TimeoutEffect, AddTimeoutEffect
  <2> QED
    BY <1>4, <2>1
<1>9. ASSUME NEW a \in Attempts, StartSend(a) PROVE Goal
  BY <1>0, <1>1, <1>2, <1>9, QueueStart
<1>10. ASSUME NEW a \in Attempts, SendOK(a) PROVE Goal
  BY <1>0, <1>1, <1>10, QueueSent
<1>11. ASSUME NEW a \in Attempts, SendError(a) PROVE Goal
  BY <1>2, <1>11, SendErrorEffect
<1>12. ASSUME NEW a \in Attempts, IsUDP, ListenOut(a) PROVE Goal
  <2>1. att[a].s = "sent"
    BY <1>1, <1>12, ListenOutEffect, HeadIsNext
  <2>2. "out" \in tr.up
    BY <1>1, <2>1 DEF CaptureReady
  <2> QED
    BY <1>0, <1>1, <1>12, <2>2, QueueCaptured
<1> HIDE DEF Goal
<1>13. ASSUME Next PROVE Goal
  <2>1. \/ UNCHANGED <<att, out>>
        \/ SenderStep
        \/ \E a \in Attempts : Timeout(a) \/ AddTimeout(a)
        \/ \E a \in Attempts : StartSend(a)
        \/ \E a \in Attempts : SendOK(a)
        \/ \E a \in Attempts : SendError(a)
        \/ \E a \in Attempts : IsUDP /\ ListenOut(a)
    BY <1>13, NextCases, ControlEffect, ReplyEffect, MatchEffect, AddReplyEffect, Zenon
  <2> QED
    BY <1>5, <1>7, <1>8, <1>9, <1>10, <1>11, <1>12, <2>1
<1>14. Goal
  BY <1>6, <1>13
<1> QED
  BY <1>3, <1>14 DEF Goal

(***************************************************************************)
(* An entry holds the answer to its own probe                              *)
(***************************************************************************)
LEMMA AnswerInit ==
  ASSUME Init, Types
  PROVE  AnswerInv
<1>1. /\ \A t \in TTLs : hops[t].from = {}
      /\ adding = {} /\ matchQ = {} /\ sentAt = {}
      /\ \A a \in Attempts : att[a].s = "none"
  BY DEF Init, EmptyBucket
<1> QED
  BY <1>1 DEF AnswerInv

\* The entries of the Result after a step of Result.add.
LEMMA OwnEntries ==
  ASSUME NEW t \in TTLs, NEW i, NEW ok, \A u \in TTLs : u # t => hops'[u] = hops[u],
         hops'[t] = hops[t] \/ Entered(hops[t], hops'[t], i, ok, i),
         \A u \in TTLs : \A e \in hops[u].from : e[1] = e[2]
  PROVE  \A u \in TTLs : \A e \in hops'[u].from : e[1] = e[2]
<1>1. <<i, i>>[1] = i /\ <<i, i>>[2] = i
  OBVIOUS
<1>2. Entered(hops[t], hops'[t], i, ok, i) => hops'[t].from = hops[t].from \cup {<<i, i>>}
  BY Zenon DEF Entered
<1>3. \A e \in hops'[t].from : e[1] = e[2]
  BY <1>1, <1>2
<1> QED
  BY <1>3

LEMMA AnswerStep ==
  ASSUME Types, AnswerInv, CaptureInv, [Next]_vars
  PROVE  AnswerInv'
<1>0. cfg' = cfg /\ CfgOK /\ TTLs' = TTLs /\ Attempts' = Attempts
      /\ (Tellable' <=> Tellable) /\ (IsDarwin' <=> IsDarwin) /\ (IsTCP' <=> IsTCP)
      /\ \A r : Decoded(r)' = Decoded(r)
  BY ConfigKept, ConfigFixed DEF Types
<1> DEFINE Entries == \A t \in TTLs : \A e \in hops[t].from : e[1] = e[2]
           Adding  == \A m \in adding : m.i = m.of
           Query(m) == /\ m.seq.i = m.of
                       /\ m.ack # 0 => IsTCP /\ \E z \in cfg.sizes : m.ack = m.seq.i + 1 + z
           Sent(r) == Decoded(r) = r.seq /\ (IsTCP => r.size \in cfg.sizes)
           Sizes   == \A a \in Attempts : att[a].s \in {"sending", "sent"} => att[a].size \in cfg.sizes
           Goal == /\ \A t \in TTLs : \A e \in hops'[t].from : e[1] = e[2]
                   /\ \A m \in adding' : m.i = m.of
                   /\ \A m \in matchQ' : Query(m)
                   /\ \A r \in sentAt' : Sent(r)
                   /\ \A a \in Attempts : att'[a].s \in {"sending", "sent"} => att'[a].size \in cfg.sizes
<1> SUFFICES ASSUME Tellable PROVE Goal
  BY <1>0 DEF AnswerInv
<1>1. Entries /\ Adding /\ (\A m \in matchQ : Query(m)) /\ (\A r \in sentAt : Sent(r)) /\ Sizes
  BY DEF AnswerInv
<1>2. Distinct /\ (IsTCP => \E z \in cfg.sizes : cfg.sizes = {z})
  BY DEF Tellable
<1>k. \A a \in Attempts : SeqOf(a) = a
  BY <1>0, <1>2, Names
<1> HIDE DEF Query, Sent
<1>3. ASSUME UNCHANGED <<hops, att>>, adding' \subseteq adding, matchQ' \subseteq matchQ,
             sentAt' \subseteq sentAt
      PROVE  Goal
  BY <1>1, <1>3
<1>4. ASSUME UNCHANGED vars PROVE Goal
  BY <1>3, <1>4 DEF vars
<1>5. ASSUME ControlStep PROVE Goal
  BY <1>3, <1>5, ControlEffect
<1>6. ASSUME hops' = hops, adding' = adding, matchQ' = matchQ, sentAt' \subseteq sentAt, NEW a \in Attempts,
             \A b \in Attempts : b # a => att'[b] = att[b],
             att'[a].s \in {"sending", "sent"} => att'[a].size \in cfg.sizes
      PROVE  Goal
  BY <1>1, <1>6
<1>7. ASSUME SenderStep PROVE Goal
  <2>1. PICK a \in Attempts :
          /\ att'[a].s \in {"queued", "done"}
          /\ \A b \in Attempts : b # a => att'[b] = att[b]
    BY <1>7, SenderEffect
  <2> QED
    BY <1>6, <1>7, <2>1, SenderEffect
<1>8. ASSUME NEW a \in Attempts, StartSend(a) PROVE Goal
  BY <1>6, <1>8, StartEffect
<1>9. ASSUME NEW a \in Attempts, SendOK(a) PROVE Goal
  <2>1. /\ UNCHANGED <<matchQ, adding, hops>>
        /\ att[a].s = "sending" /\ att'[a].size = att[a].size
        /\ \A b \in Attempts : b # a => att'[b] = att[b]
    BY <1>9, SendOKEffect
  <2>2. att[a].size \in cfg.sizes
    BY <1>1, <2>1
  <2>3. \A r \in sentAt' : Sent(r)
    <3>1. \A r \in sentAt' : r \in sentAt \/ (~ IsDarwin /\ r.size = att[a].size)
      BY <1>9, SendOKEffect
    <3>2. ~ IsDarwin => \A r : Decoded(r) = r.seq
      BY DEF Decoded, IsDarwin
    <3> QED
      BY <1>1, <2>2, <3>1, <3>2 DEF Sent
  <2> QED
    BY <1>1, <2>1, <2>2, <2>3
<1>10. ASSUME NEW a \in Attempts, SendError(a) PROVE Goal
  BY <1>6, <1>10, SendErrorEffect
<1>11. ASSUME NEW a \in Attempts, IsUDP, ListenOut(a) PROVE Goal
  <2>1. UNCHANGED <<att, matchQ, adding, hops>> /\ ~ IsTCP
    BY <1>11, ListenOutEffect
  <2>2. \A r \in sentAt' :
          \/ r \in sentAt
          \/ r.seq = SeqOf(a) /\ r.ttl = a.ttl /\ r.i = Head(out.q[a.ttl]).i
    BY <1>11, ListenOutEffect
  <2>3. \A r \in sentAt' : Sent(r)
    <3>1. CASE ~ IsDarwin
      <4>1. \A r : Decoded(r) = r.seq
        BY <3>1 DEF Decoded, IsDarwin
      <4> QED
        BY <2>1, <4>1 DEF Sent
    <3>2. CASE IsDarwin
      <4>1. Head(out.q[a.ttl]).i = a.i
        BY <1>11, <3>2, ListenOutEffect, HeadIsNext DEF CaptureInv
      <4>2. a = [ttl |-> a.ttl, i |-> a.i]
        BY <1>0, Ranges
      <4>3. \A r : r.seq = SeqOf(a) /\ r.ttl = a.ttl /\ r.i = a.i => Decoded(r) = r.seq
        BY <1>k, <3>2, <4>2 DEF Decoded, IsDarwin
      <4> QED
        BY <1>1, <2>1, <2>2, <4>1, <4>3 DEF Sent
    <3> QED
      BY <3>1, <3>2
  <2> QED
    BY <1>1, <2>1, <2>3
<1>12. ASSUME NEW a \in Attempts, NEW dst \in BOOLEAN, Reply(a, dst) PROVE Goal
  <2>1. UNCHANGED <<att, sentAt, adding, hops>> /\ att[a].size \in cfg.sizes
    BY <1>1, <1>12, ReplyEffect
  <2>2. \A m \in matchQ' :
          \/ m \in matchQ
          \/ /\ m.seq = a /\ m.of = a.i
             /\ m.ack # 0 => IsTCP /\ m.ack = a.i + 1 + att[a].size
    BY <1>12, <1>k, ReplyEffect
  <2>3. \A m \in matchQ' : Query(m)
    BY <1>1, <2>1, <2>2 DEF Query
  <2> QED
    BY <1>1, <2>1, <2>3
<1>13. ASSUME NEW m \in matchQ, Match(m) PROVE Goal
  <2>1. UNCHANGED <<att, hops>> /\ matchQ' \subseteq matchQ /\ sentAt' \subseteq sentAt
    BY <1>13, MatchEffect
  <2>2. \A x \in adding' : x.i = x.of
    <3>1. CASE adding' = adding
      BY <1>1, <3>1
    <3>2. ASSUME NEW r \in Matching(m),
                 adding' = adding \cup {[ttl |-> Decoded(r).ttl, i |-> Decoded(r).i,
                                         seq |-> r.seq, of |-> m.of]}
          PROVE  \A x \in adding' : x.i = x.of
      <4>1. /\ r \in sentAt
            /\ IF m.ack = 0 THEN r.seq = m.seq
               ELSE r.seq.ttl = m.seq.ttl /\ r.seq.i + 1 + r.size = m.ack
        BY DEF Matching
      <4>2. Sent(r) /\ Query(m)
        BY <1>1, <4>1
      <4>3. r.seq \in Attempts /\ r.size \in Nat /\ m.seq \in Attempts
        BY <4>1 DEF Types, Registered, Queued
      <4>4. r.seq.i \in Nat /\ m.seq.i \in Nat
        BY <1>0, <4>3, Ranges
      <4>5. r.seq.i = m.of
        <5>1. CASE m.ack = 0
          BY <4>1, <4>2, <5>1 DEF Query
        <5>2. CASE m.ack # 0
          <6>1. PICK z \in cfg.sizes : m.ack = m.seq.i + 1 + z
            BY <4>2, <5>2 DEF Query
          <6>2. r.size = z /\ IsTCP
            BY <1>2, <4>2, <5>2 DEF Query, Sent
          <6> QED
            BY <4>1, <4>2, <4>3, <4>4, <5>2, <6>1, <6>2 DEF Query
        <5> QED
          BY <5>1, <5>2
      <4>6. Decoded(r).i = m.of
        BY <4>2, <4>5 DEF Sent
      <4> QED
        BY <1>1, <3>2, <4>6
    <3> QED
      BY <1>13, <3>1, <3>2, MatchEffect
  <2> QED
    BY <1>1, <2>1, <2>2
<1>14. ASSUME NEW m \in adding, AddReply(m) PROVE Goal
  <2>1. /\ UNCHANGED <<att, matchQ>> /\ adding' \subseteq adding /\ sentAt' \subseteq sentAt
        /\ m.ttl \in TTLs /\ m.of = m.i
    BY <1>1, <1>14, AddReplyEffect
  <2>2. /\ \A u \in TTLs : u # m.ttl => hops'[u] = hops[u]
        /\ hops'[m.ttl] = hops[m.ttl] \/ Entered(hops[m.ttl], hops'[m.ttl], m.i, TRUE, m.i)
    BY <1>14, <2>1, AddReplyEffect
  <2>3. \A t \in TTLs : \A e \in hops'[t].from : e[1] = e[2]
    BY <1>1, <2>1, <2>2, OwnEntries
  <2> QED
    BY <1>1, <2>1, <2>3
<1>15. ASSUME NEW a \in Attempts, Timeout(a) PROVE Goal
  <2>1. /\ UNCHANGED <<sentAt, matchQ, adding, hops>>
        /\ att'[a].s = att[a].s /\ att'[a].size = att[a].size
        /\ \A b \in Attempts : b # a => att'[b] = att[b]
    BY <1>15, TimeoutEffect
  <2> QED
    BY <1>1, <1>6, <2>1
<1>16. ASSUME NEW a \in Attempts, AddTimeout(a) PROVE Goal
  <2>1. /\ UNCHANGED <<matchQ, adding>> /\ sentAt' \subseteq sentAt
        /\ att'[a].s = att[a].s /\ att'[a].size = att[a].size
        /\ \A b \in Attempts : b # a => att'[b] = att[b]
        /\ a.ttl \in TTLs
        /\ \A u \in TTLs : u # a.ttl => hops'[u] = hops[u]
        /\ hops'[a.ttl] = hops[a.ttl] \/ Entered(hops[a.ttl], hops'[a.ttl], a.i, FALSE, a.i)
    BY <1>16, AddTimeoutEffect
  <2>2. \A t \in TTLs : \A e \in hops'[t].from : e[1] = e[2]
    BY <1>1, <2>1, OwnEntries
  <2> QED
    BY <1>1, <2>1, <2>2
<1> HIDE DEF Goal
<1>17. ASSUME Next PROVE Goal
  BY <1>17, <1>5, <1>7, <1>8, <1>9, <1>10, <1>11, <1>12, <1>13, <1>14, <1>15, <1>16, NextCases
<1> QED
  BY <1>4, <1>17

-----------------------------------------------------------------------------
(***************************************************************************)
(* The theorems                                                            *)
(***************************************************************************)
LEMMA TracerInit ==
  ASSUME Init
  PROVE  TracerInv
<1>1. Types
  BY TypesInit
<1>c. CfgOK
  BY <1>1 DEF Types
<1>2. /\ att = [a \in Attempts |-> [s |-> "none", port |-> 0, size |-> 0, timer |-> "off"]]
      /\ pending = {} /\ adding = {} /\ hops = [t \in TTLs |-> EmptyBucket]
      /\ out = [q |-> [t \in TTLs |-> <<>>], wire |-> <<>>]
  BY DEF Init
<1>3. \A t \in TTLs : hops[t].n = 0 /\ hops[t].from = {} /\ Rec(t) = {} /\ ~ hops[t].tailDone
  BY <1>2 DEF EmptyBucket, Rec
<1>4. \A a \in Attempts : att[a].s = "none" /\ att[a].timer = "off" /\ a.ttl \in TTLs
  BY <1>c, <1>2, Ranges
<1>5. PlaceInv
  BY <1>2, <1>3, <1>4 DEF PlaceInv, OnePlace, Taken
<1>6. CountInv
  BY <1>3, FS_EmptySet DEF CountInv, Counts
<1>7. SilentInv
  BY <1>3, <1>4, FS_EmptySet DEF SilentInv, Silent
<1>8. /\ tr.started = cfg.begin - 1 /\ tr.final = -1 /\ tr.printed = cfg.begin - 1
      /\ tr.ctx = "live" /\ ~ tr.returned /\ tr.len = cfg.hops
      /\ tr.waiting = Cardinality(Listeners)
  BY DEF Init
<1>9. PrintInv
  <2>1. \A t \in TTLs : ~ (t <= tr.printed)
    BY <1>c, <1>8 DEF TTLs, CfgOK
  <2> QED
    BY <1>2, <1>8, <2>1 DEF PrintInv
<1>10. AnswerInv
  BY <1>1, AnswerInit
<1>11. CaptureInv
  <2>1. CaptureReady
    <3>1. ~ (tr.started >= cfg.begin)
      BY <1>c, <1>8 DEF CfgOK
    <3>2. tr.waiting # 0
      BY <1>c, <1>8, ListenersSound
    <3> QED
      BY <1>4, <3>1, <3>2 DEF CaptureReady
  <2>2. DOMAIN out.wire = {} /\ \A t \in TTLs : DOMAIN out.q[t] = {}
    BY <1>2
  <2>3. WireInv /\ OrderInv
    BY <1>4, <2>2 DEF WireInv, OrderInv
  <2>4. QueueInv
    BY <1>4, <2>2 DEF QueueInv, OnWire
  <2> QED
    BY <2>1, <2>3, <2>4 DEF CaptureInv
<1> QED
  BY <1>1, <1>5, <1>6, <1>7, <1>9, <1>10, <1>11 DEF TracerInv

\* The invariant is inductive.
LEMMA TracerStep ==
  ASSUME TracerInv, [Next]_vars
  PROVE  TracerInv'
BY TypesStep, PlaceStep, CountStep, SilentStep, PrintStep, AnswerStep, CaptureStep DEF TracerInv

LEMMA TracerInductive == Spec => []TracerInv
<1>1. Init => TracerInv
  BY TracerInit
<1>2. TracerInv /\ [Next]_vars => TracerInv'
  BY TracerStep
<1> QED
  BY <1>1, <1>2, PTL DEF Spec

\* The attempts that enter without audit are N - 1.
LEMMA EarlyAttempts ==
  ASSUME NEW n \in Nat \ {0}
  PROVE  IsFiniteSet(0 .. n - 2) /\ Cardinality(0 .. n - 2) = n - 1
<1> DEFINE b == n - 2
<1>1. b \in Int /\ (0 > b => n - 1 = 0) /\ b - 0 + 1 = n - 1
  OBVIOUS
<1> HIDE DEF b
<1>2. IsFiniteSet(0 .. b) /\ Cardinality(0 .. b) = IF 0 > b THEN 0 ELSE b - 0 + 1
  BY <1>1, FS_Interval
<1>3. IsFiniteSet(0 .. b) /\ Cardinality(0 .. b) = n - 1
  BY <1>1, <1>2
<1> QED
  BY <1>3 DEF b

\* A bucket that recorded distinct attempts, one audited at most, has N entries at most, and
\* a full one has recorded every attempt that enters without audit.
LEMMA FullBucket ==
  ASSUME Types, NEW t \in TTLs, Counts(t)
  PROVE  /\ hops[t].n <= cfg.n
         /\ hops[t].n >= cfg.n => \A i \in Idx : i < cfg.n - 1 => i \in Rec(t)
<1>0. CfgOK /\ cfg.n \in Nat \ {0} /\ Idx \subseteq Nat
  BY Ranges DEF Types, CfgOK
<1>1. Rec(t) \subseteq Idx /\ IsFiniteSet(Rec(t)) /\ Cardinality(Rec(t)) \in Nat
  BY RecFinite
<1> DEFINE Low == 0 .. cfg.n - 2
           High == {i \in Rec(t) : i >= cfg.n - 1}
<1>2. IsFiniteSet(Low) /\ Cardinality(Low) = cfg.n - 1
  BY <1>0, EarlyAttempts
<1>3. IsFiniteSet(High) /\ Cardinality(High) <= 1 /\ Cardinality(High) \in Nat
  <2>1. CASE High = {}
    BY <2>1, FS_EmptySet
  <2>2. CASE High # {}
    <3>1. PICK x \in High : TRUE
      BY <2>2
    <3>2. High = {x}
      BY <3>1 DEF Counts
    <3>3. IsFiniteSet({x}) /\ Cardinality({x}) = 1
      BY FS_Singleton
    <3> QED
      BY <3>2, <3>3
  <2> QED
    BY <2>1, <2>2
<1>4. \A L : L \subseteq Low => IsFiniteSet(L) /\ Cardinality(L) <= cfg.n - 1 /\ Cardinality(L) \in Nat
  BY <1>2, FS_Subset, FS_CardinalityType, ZenonT(40)
<1> DEFINE Early == {i \in Rec(t) : i < cfg.n - 1}
<1>5. Early \subseteq Low /\ Rec(t) = Early \cup High
  <2>1. \A i \in Rec(t) : i \in Nat
    BY <1>0, <1>1
  <2> QED
    BY <1>0, <2>1
<1> HIDE DEF Low, High, Early
<1>6. Cardinality(Rec(t)) <= Cardinality(Early) + Cardinality(High)
  <2>1. IsFiniteSet(Early)
    BY <1>4, <1>5
  <2>2. Cardinality(Early \cup High) = Cardinality(Early) + Cardinality(High) - Cardinality(Early \cap High)
    BY <1>3, <2>1, FS_Union
  <2>3. Cardinality(Early \cap High) \in Nat
    BY <1>3, FS_Subset, FS_CardinalityType, Early \cap High \subseteq High
  <2>4. Cardinality(Early) \in Nat
    BY <1>4, <1>5
  <2> QED
    BY <1>3, <1>5, <2>2, <2>3, <2>4
<1>7. hops[t].n = Cardinality(Rec(t))
  BY DEF Counts
<1>8. hops[t].n <= cfg.n
  BY <1>0, <1>1, <1>3, <1>4, <1>5, <1>6, <1>7
<1>9. ASSUME hops[t].n >= cfg.n, NEW i \in Idx, i < cfg.n - 1, i \notin Rec(t) PROVE FALSE
  <2>1. i \in Low /\ i \notin Early
    BY <1>0, <1>9 DEF Low, Early
  <2>2. Early \subseteq Low \ {i}
    BY <1>5, <2>1
  <2>3. IsFiniteSet(Low \ {i}) /\ Cardinality(Low \ {i}) = cfg.n - 2
    <3>1. cfg.n - 1 \in Nat /\ (cfg.n - 1) - 1 = cfg.n - 2
      BY <1>0
    <3>2. IsFiniteSet(Low \ {i}) /\ Cardinality(Low \ {i}) = Cardinality(Low) - 1
      BY <1>2, <2>1, FS_RemoveElement
    <3> QED
      BY <1>2, <3>1, <3>2
  <2>4. Cardinality(Early) <= cfg.n - 2 /\ Cardinality(Early) \in Nat
    BY <1>4, <1>5, <2>2, <2>3, FS_Subset
  <2> QED
    BY <1>0, <1>1, <1>3, <1>6, <1>7, <1>9, <2>4
<1> QED
  BY <1>8, <1>9

\* A full bucket without a reply holds the outcome of the last attempt.
LEMMA LastRecorded ==
  ASSUME Types, NEW t \in TTLs, Silent(t), ~ hops[t].valid, hops[t].n >= cfg.n
  PROVE  cfg.m - 1 \in Rec(t)
<1>0. cfg.n \in Nat \ {0} /\ Idx \subseteq Nat
  BY Ranges DEF Types, CfgOK
<1>1. Rec(t) \subseteq Idx /\ IsFiniteSet(Rec(t)) /\ Cardinality(Rec(t)) \in Nat
  BY RecFinite
<1>2. SUFFICES ASSUME \A i \in Rec(t) : ~ (i >= cfg.n - 1) PROVE FALSE
  BY DEF Silent
<1>3. Rec(t) \subseteq 0 .. cfg.n - 2
  <2>1. \A i \in Rec(t) : i \in Nat
    BY <1>0, <1>1
  <2> QED
    BY <1>0, <1>2, <2>1
<1>4. IsFiniteSet(0 .. cfg.n - 2) /\ Cardinality(0 .. cfg.n - 2) = cfg.n - 1
  BY <1>0, EarlyAttempts
<1>5. Cardinality(Rec(t)) <= cfg.n - 1
  <2>1. Cardinality(Rec(t)) <= Cardinality(0 .. cfg.n - 2)
    BY <1>3, <1>4, FS_Subset
  <2> QED
    BY <1>4, <2>1
<1>6. hops[t].n = Cardinality(Rec(t))
  BY DEF Silent
<1> QED
  BY <1>0, <1>1, <1>5, <1>6

\* In every order of sends, captures, replies, timeouts and stragglers, for every method: a
\* TTL never holds more than N entries, an attempt is recorded once at most, and a TTL is
\* given up as silent only after its last attempt (Result.add, clearPending).
THEOREM BucketsHold == Spec => []BucketsSound
<1>1. ASSUME TracerInv PROVE BucketsSound
  <2>0. Types /\ PlaceInv /\ CountInv /\ SilentInv
    BY <1>1 DEF TracerInv
  <2>1. AtMostN
    BY <2>0, FullBucket DEF AtMostN, CountInv
  <2>2. RecordedOnce
    <3>1. SUFFICES ASSUME Distinct, NEW t \in TTLs
                   PROVE  /\ hops[t].n = Cardinality(Rec(t))
                          /\ \A a \in Attempts : a.ttl = t /\ att[a].timer = "late" =>
                               a.i \notin Rec(t) /\ \A m \in adding : <<m.ttl, m.i>> # <<t, a.i>>
                          /\ \A m \in adding : m.ttl = t => m.i \notin Rec(t)
      BY DEF RecordedOnce, Rec
    <3>2. hops[t].n = Cardinality(Rec(t))
      BY <2>0, <3>1 DEF CountInv, Counts
    <3>3. \A m \in adding : m.ttl = t => m.i \notin Rec(t)
      BY <2>0, <3>1 DEF PlaceInv
    <3>4. \A a \in Attempts : att[a].timer = "late" => ~ Taken(a)
      BY <2>0, <3>1 DEF PlaceInv, OnePlace
    <3> QED
      BY <3>2, <3>3, <3>4 DEF Taken
  <2>3. SilentOnlyAfterLast
    <3>1. SUFFICES ASSUME NEW t \in TTLs, hops[t].n >= cfg.n, ~ hops[t].valid
                   PROVE  \E e \in hops[t].from : e[1] = cfg.m - 1
      BY DEF SilentOnlyAfterLast
    <3>2. cfg.m - 1 \in Rec(t)
      BY <2>0, <3>1, LastRecorded DEF SilentInv
    <3> QED
      BY <3>2 DEF Rec
  <2> QED
    BY <2>1, <2>2, <2>3 DEF BucketsSound
<1> QED
  BY <1>1, TracerInductive, PTL

\* What a state of a trace that ended by itself holds.
LEMMA CompleteWhenNatural ==
  ASSUME TracerInv
  PROVE  NaturalIsComplete
<1>1. /\ tr \in Progress /\ (tr.final = -1 \/ tr.final \in TTLs) /\ CfgOK
      /\ \A t \in TTLs : t <= tr.printed => hops[t].n >= cfg.n
      /\ tr.ctx = "natural" => tr.printed >= cfg.hops \/ (tr.final # -1 /\ tr.final <= tr.printed)
  BY DEF TracerInv, PrintInv, Types, ProgressOK
<1>2. /\ cfg.hops \in Nat /\ tr.printed \in Int /\ tr.final \in Int
      /\ \A t \in TTLs : t \in Nat /\ t <= cfg.hops
  BY <1>1, Ranges DEF CfgOK, Progress, TTLs
<1>3. SUFFICES ASSUME tr.ctx = "natural", NEW t \in TTLs, ~ BeyondFinal(t)
               PROVE  hops[t].n >= cfg.n
  BY DEF NaturalIsComplete
<1>4. tr.final = -1 \/ t <= tr.final
  BY <1>2, <1>3 DEF BeyondFinal
<1>5. t <= tr.printed
  BY <1>1, <1>2, <1>3, <1>4
<1> QED
  BY <1>1, <1>5

\* A trace that ends by itself has N entries at every TTL it reports, even if a late reply
\* lowers the final TTL while PrintFunc ends it.
THEOREM CompleteAtEnd == Spec => []NaturalIsComplete
BY TracerInductive, CompleteWhenNatural, PTL

\* What Execute returned of a trace that ended by itself stays as it is: a straggling timeout
\* goroutine finds a full bucket in which its attempt cannot be one of the early ones.
THEOREM ReturnedStays == Spec => ReturnedResultStable
<1>1. ASSUME TracerInv, [Next]_vars
      PROVE  [Distinct /\ tr.returned /\ tr.ctx = "natural" =>
                \A t \in cfg.begin .. tr.len : hops'[t] = hops[t]]_vars
  <2>1. SUFFICES ASSUME Next, Distinct, tr.returned, tr.ctx = "natural", NEW t \in cfg.begin .. tr.len
                 PROVE  hops'[t] = hops[t]
    BY <1>1 DEF vars
  <2>2. /\ Types /\ PlaceInv /\ CountInv /\ PrintInv /\ CfgOK /\ tr \in Progress
        /\ (tr.final = -1 \/ tr.final \in TTLs)
    BY <1>1 DEF TracerInv, Types, ProgressOK
  <2>3. adding = {} /\ tr.len = IF tr.final # -1 THEN tr.final ELSE cfg.hops
    BY <2>1, <2>2 DEF PrintInv
  <2>4. t \in TTLs /\ ~ BeyondFinal(t) /\ t \in Nat
    <3>1. cfg.begin \in Nat \ {0} /\ cfg.hops \in Nat /\ tr.final \in Int
      BY <2>2 DEF CfgOK, Progress
    <3>2. tr.final # -1 => tr.final <= cfg.hops
      BY <2>2, <3>1 DEF TTLs
    <3> QED
      BY <2>1, <2>3, <3>1, <3>2 DEF TTLs, BeyondFinal
  <2>5. hops[t].n >= cfg.n
    BY <1>1, <2>1, <2>4, CompleteWhenNatural DEF NaturalIsComplete
  <2>6. \A i \in Idx : i < cfg.n - 1 => i \in Rec(t)
    BY <2>1, <2>2, <2>4, <2>5, FullBucket DEF CountInv
  <2>7. ASSUME NEW a \in Attempts, AddTimeout(a) PROVE hops'[t] = hops[t]
    <3>1. /\ att[a].timer = "late" /\ a.i \in Idx
          /\ \A u \in TTLs : u # a.ttl => hops'[u] = hops[u]
          /\ \/ hops'[a.ttl] = hops[a.ttl] /\ (tr.len < a.ttl \/ a.i >= cfg.n - 1)
             \/ Entered(hops[a.ttl], hops'[a.ttl], a.i, FALSE, a.i)
      BY <2>2, <2>7, AddTimeoutEffect
    <3>2. CASE t = a.ttl
      <4>1. a.i \notin Rec(t)
        BY <2>1, <2>2, <3>1, <3>2 DEF PlaceInv, OnePlace, Taken
      <4>2. ~ (a.i < cfg.n - 1)
        BY <2>6, <3>1, <4>1
      <4>3. ~ (hops[t].n < cfg.n)
        <5>1. hops[t].n \in Nat /\ cfg.n \in Nat
          BY <2>2, <2>4 DEF Types, Bucket, CfgOK
        <5> QED
          BY <2>5, <5>1
      <4> QED
        BY <3>1, <3>2, <4>2, <4>3, Zenon DEF Entered
    <3> QED
      BY <2>4, <3>1, <3>2
  <2>8. ASSUME ~ \E a \in Attempts : AddTimeout(a) PROVE hops' = hops
    <3>1. ~ \E m \in adding : AddReply(m)
      BY <2>3
    <3> QED
      BY <2>1, <2>2, <2>8, <3>1, NextCases, ControlEffect, SenderEffect, StartEffect, SendOKEffect,
         SendErrorEffect, ListenOutEffect, ReplyEffect, MatchEffect, TimeoutEffect, Zenon
  <2> QED
    BY <2>7, <2>8
<1> QED
  BY <1>1, TracerInductive, PTL DEF Spec, ReturnedResultStable

\* Every entry holds the answer to its own probe, for all paths, ports, payload sizes and
\* orders of captures, replies and timeouts, under the conditions AnswerOfItsProbe names.
THEOREM OwnAnswers == Spec => []AnswerOfItsProbe
<1>1. ASSUME TracerInv PROVE AnswerOfItsProbe
  BY <1>1 DEF TracerInv, AnswerInv, AnswerOfItsProbe, Tellable, IsTCP, IsDarwin
<1> QED
  BY <1>1, TracerInductive, PTL

=============================================================================
