------------------------------ MODULE MTRProofs ------------------------------
(***************************************************************************)
(* Proofs about what MTR does beside scheduling its probes: the background *)
(* lookups (MTRMetadata) and the runs by rounds (MTRRounds), two models    *)
(* that share no state, each for every value of its constants.             *)
(***************************************************************************)
EXTENDS MTRMetadata, MTRRounds, FiniteSetTheorems, SequenceTheorems, TLAPS

(***************************************************************************)
(*                            The lookups                                  *)
(*                                                                         *)
(* A handler of the loop is a composition of the operators that check the  *)
(* retries, launch lookups and cache what they found; each is shown to     *)
(* keep the maps in step with the goroutines, so the handlers do.          *)
(***************************************************************************)
(***************************************************************************)
(* The inductive invariant                                                 *)
(***************************************************************************)
\* The metadata fields while a handler runs: it may have launched lookups.
Meta ==
  [dn42       : DN42,
   generation : 0 .. MaxResets,
   inFlight   : [Kinds -> SUBSET IPs],
   attempts   : [Kinds -> [IPs -> 0 .. MaxTries]],
   retryAt    : [Kinds -> [IPs -> {"none", "waiting", "over"}]],
   cache      : [IPs -> [host : BOOLEAN, geo : {"none", "ip", "named"}]],
   rows       : [IPs -> [seen : BOOLEAN, host : BOOLEAN, geo : {"none", "ip", "named"}]],
   new        : SUBSET Lookup]

\* l is a lookup of kind k for address ip in the generation of s.
For(s, l, k, ip) == l.kind = k /\ l.ip = ip /\ l.gen = s.generation

\* The in-flight maps of s name the lookups of its generation that run (in L, or about to be
\* started by the handler) or have sent their patch (in M), each once.
Tracked(s, L, M) ==
  /\ \A l \in L \cup s.new \cup M : l.gen <= s.generation
  /\ \A k \in Kinds, ip \in IPs :
       ip \in s.inFlight[k] <=> \E l \in L \cup s.new \cup M : For(s, l, k, ip)
  /\ \A k \in Kinds, ip \in IPs : \A l1, l2 \in L \cup s.new :
       For(s, l1, k, ip) /\ For(s, l2, k, ip) => l1 = l2
  /\ \A k \in Kinds, ip \in IPs : \A l1, l2 \in M :
       For(s, l1, k, ip) /\ For(s, l2, k, ip) => l1 = l2
  /\ \A k \in Kinds, ip \in IPs : \A l1 \in L \cup s.new, l2 \in M :
       ~ (For(s, l1, k, ip) /\ For(s, l2, k, ip))

\* A row shows what the cache knows, or nothing.
Shown(s) ==
  \A ip \in IPs :
    IF s.rows[ip].seen
    THEN s.rows[ip].host = s.cache[ip].host /\ s.rows[ip].geo = s.cache[ip].geo
    ELSE s.rows[ip] = NoRow

IInv ==
  /\ TypeOK
  /\ ~ ended => Tracked(md, lookups, metadataCh)
  /\ Shown(md)

(***************************************************************************)
(* Checking the retries                                                    *)
(***************************************************************************)
\* What the launching operators leave alone.
Same(s, t) ==
  t.dn42 = s.dn42 /\ t.generation = s.generation /\ t.cache = s.cache /\ t.rows = s.rows

Quiet(s, t) == Same(s, t) /\ t.inFlight = s.inFlight /\ t.new = s.new

LEMMA SetRetry ==
  ASSUME NEW s \in Meta, NEW k \in Kinds, NEW ip \in IPs, NEW v \in {"none", "waiting", "over"}
  PROVE  /\ [s EXCEPT !.retryAt[k][ip] = v] \in Meta
         /\ Quiet(s, [s EXCEPT !.retryAt[k][ip] = v])
         /\ [s EXCEPT !.retryAt[k][ip] = v].attempts = s.attempts
<1> DEFINE f == [s.retryAt EXCEPT ![k][ip] = v]
           t == [s EXCEPT !.retryAt[k][ip] = v]
<1>1. f \in [Kinds -> [IPs -> {"none", "waiting", "over"}]]
  BY DEF Meta
<1>2. t = [s EXCEPT !.retryAt = f]
  BY DEF Meta
<1> HIDE DEF f, t
<1>3. t \in Meta /\ Quiet(s, t) /\ t.attempts = s.attempts
  BY <1>1, <1>2 DEF Meta, Quiet, Same
<1> QED
  BY <1>3 DEF t

LEMMA SetAttempts ==
  ASSUME NEW s \in Meta, NEW k \in Kinds, NEW ip \in IPs, NEW n \in 0 .. MaxTries
  PROVE  /\ [s EXCEPT !.attempts[k][ip] = n] \in Meta
         /\ Quiet(s, [s EXCEPT !.attempts[k][ip] = n])
         /\ [s EXCEPT !.attempts[k][ip] = n].attempts[k][ip] = n
<1> DEFINE f == [s.attempts EXCEPT ![k][ip] = n]
           t == [s EXCEPT !.attempts[k][ip] = n]
<1>1. f \in [Kinds -> [IPs -> 0 .. MaxTries]] /\ f[k][ip] = n
  BY DEF Meta
<1>2. t = [s EXCEPT !.attempts = f]
  BY DEF Meta
<1> HIDE DEF f, t
<1>3. t \in Meta /\ Quiet(s, t) /\ t.attempts[k][ip] = n
  BY <1>1, <1>2 DEF Meta, Quiet, Same
<1> QED
  BY <1>3 DEF t

\* A success, or the end of a cooldown, forgets the retries.
LEMMA ForgetRetries ==
  ASSUME NEW s \in Meta, NEW k \in Kinds, NEW ip \in IPs
  PROVE  /\ [s EXCEPT !.attempts[k][ip] = 0, !.retryAt[k][ip] = "none"] \in Meta
         /\ Quiet(s, [s EXCEPT !.attempts[k][ip] = 0, !.retryAt[k][ip] = "none"])
         /\ [s EXCEPT !.attempts[k][ip] = 0, !.retryAt[k][ip] = "none"].attempts[k][ip] = 0
<1> DEFINE a == [s EXCEPT !.attempts[k][ip] = 0]
           t == [a EXCEPT !.retryAt[k][ip] = "none"]
<1>1. 0 \in 0 .. MaxTries
  BY MetadataAssumption
<1>2. a \in Meta /\ Quiet(s, a) /\ a.attempts[k][ip] = 0
  BY <1>1, SetAttempts
<1>3. t = [s EXCEPT !.attempts[k][ip] = 0, !.retryAt[k][ip] = "none"]
  OBVIOUS
<1> HIDE DEF a
<1>4. t \in Meta /\ Quiet(a, t) /\ t.attempts = a.attempts
  BY <1>2, SetRetry
<1> HIDE DEF t
<1>5. Quiet(s, t) /\ t.attempts[k][ip] = 0
  BY <1>2, <1>4 DEF Quiet, Same
<1> QED
  BY <1>3, <1>4, <1>5

\* A lookup that is allowed has tries left, after the check if not before.
LEMMA RetriesChecked ==
  ASSUME NEW s \in Meta, NEW k \in Kinds, NEW ip \in IPs
  PROVE  /\ CheckRetries(s, k, ip) \in Meta
         /\ Quiet(s, CheckRetries(s, k, ip))
         /\ ~ RetriesExhausted(s, k, ip) => CheckRetries(s, k, ip).attempts[k][ip] < MaxTries
<1> DEFINE c == CheckRetries(s, k, ip)
<1>0. s.attempts[k][ip] \in Nat /\ MaxTries \in Nat /\ 0 < MaxTries
  BY MetadataAssumption DEF Meta
<1>1. CASE s.attempts[k][ip] < MaxTries
  <2>1. c = [s EXCEPT !.retryAt[k][ip] = "none"]
    BY <1>1, Zenon DEF CheckRetries
  <2> HIDE DEF c
  <2>2. c \in Meta /\ Quiet(s, c) /\ c.attempts = s.attempts
    BY <2>1, SetRetry
  <2> QED
    BY <1>1, <2>2 DEF c
<1>2. CASE ~ (s.attempts[k][ip] < MaxTries) /\ s.retryAt[k][ip] = "over"
  <2>1. c = [s EXCEPT !.attempts[k][ip] = 0, !.retryAt[k][ip] = "none"]
    BY <1>2, Zenon DEF CheckRetries
  <2> HIDE DEF c
  <2>2. c \in Meta /\ Quiet(s, c) /\ c.attempts[k][ip] = 0
    BY <2>1, ForgetRetries
  <2> QED
    BY <1>0, <2>2 DEF c
<1>3. CASE ~ (s.attempts[k][ip] < MaxTries) /\ s.retryAt[k][ip] # "over"
  <2>1. c = [s EXCEPT !.retryAt[k][ip] = "waiting"]
    BY <1>3, Zenon DEF CheckRetries
  <2> HIDE DEF c
  <2>2. c \in Meta /\ Quiet(s, c)
    BY <2>1, SetRetry
  <2>3. RetriesExhausted(s, k, ip)
    BY <1>0, <1>3 DEF RetriesExhausted
  <2> QED
    BY <2>2, <2>3 DEF c
<1> QED
  BY <1>1, <1>2, <1>3

(***************************************************************************)
(* Launching                                                               *)
(***************************************************************************)
\* s is a state of a handler that keeps the maps in step with the goroutines.
Good(s, L, M) == s \in Meta /\ Tracked(s, L, M)

\* Only the in-flight maps, the generation and the new lookups matter to that.
LEMMA StillTracked ==
  ASSUME NEW L, NEW M, NEW s, NEW t, Tracked(s, L, M),
         t.inFlight = s.inFlight, t.generation = s.generation, t.new = s.new
  PROVE  Tracked(t, L, M)
<1> QED
  BY DEF Tracked, For

LEMMA LaunchTracked ==
  ASSUME NEW L, NEW M, NEW s, Good(s, L, M), NEW k \in Kinds, NEW ip \in IPs,
         NEW named \in BOOLEAN, s.attempts[k][ip] < MaxTries, ip \notin s.inFlight[k]
  PROVE  /\ Good(Launch(s, k, ip, named), L, M)
         /\ Same(s, Launch(s, k, ip, named))
<1> DEFINE l == [kind |-> k, ip |-> ip, gen |-> s.generation,
                 named |-> named, pc |-> "waiting", found |-> FALSE]
           f == [s.inFlight EXCEPT ![k] = @ \cup {ip}]
           a == [s.attempts EXCEPT ![k][ip] = @ + 1]
           t == [s EXCEPT !.inFlight = f, !.attempts = a, !.new = s.new \cup {l}]
<1>0. s \in Meta /\ Tracked(s, L, M)
  BY DEF Good
<1>1. Launch(s, k, ip, named) = t
  BY <1>0 DEF Launch, Meta
<1>2. l \in Lookup /\ l.kind = k /\ l.ip = ip /\ l.gen = s.generation
  BY <1>0 DEF Meta, Lookup
<1>3. /\ f \in [Kinds -> SUBSET IPs]
      /\ \A j \in Kinds, q \in IPs :
           q \in f[j] <=> (q \in s.inFlight[j] \/ (j = k /\ q = ip))
  BY <1>0 DEF Meta
<1>4. a \in [Kinds -> [IPs -> 0 .. MaxTries]]
  <2>1. s.attempts[k][ip] + 1 \in 0 .. MaxTries
    BY <1>0, MetadataAssumption DEF Meta
  <2> QED
    BY <1>0, <2>1 DEF Meta
<1> HIDE DEF l, f, a
<1>5. /\ t \in Meta
      /\ Same(s, t)
      /\ t.inFlight = f
      /\ t.generation = s.generation
      /\ t.new = s.new \cup {l}
  BY <1>0, <1>2, <1>3, <1>4 DEF Meta, Same
<1> HIDE DEF t
<1>6. Tracked(t, L, M)
  <2>1. \A m : \A j \in Kinds, q \in IPs : For(t, m, j, q) <=> For(s, m, j, q)
    BY <1>5 DEF For
  <2>2. \A j \in Kinds, q \in IPs : For(s, l, j, q) <=> (j = k /\ q = ip)
    BY <1>2 DEF For
  <2>3. \A m \in L \cup s.new \cup M : ~ For(s, m, k, ip)
    BY <1>0 DEF Tracked
  <2>4. \A m \in L \cup t.new \cup M : m.gen <= t.generation
    BY <1>0, <1>2, <1>5 DEF Tracked, Meta
  <2>5. \A j \in Kinds, q \in IPs :
          q \in t.inFlight[j] <=> \E m \in L \cup t.new \cup M : For(t, m, j, q)
    BY <1>0, <1>3, <1>5, <2>1, <2>2 DEF Tracked
  <2>6. \A j \in Kinds, q \in IPs : \A m1, m2 \in L \cup t.new :
          For(t, m1, j, q) /\ For(t, m2, j, q) => m1 = m2
    BY <1>0, <1>5, <2>1, <2>2, <2>3 DEF Tracked
  <2>7. \A j \in Kinds, q \in IPs : \A m1, m2 \in M :
          For(t, m1, j, q) /\ For(t, m2, j, q) => m1 = m2
    BY <1>0, <2>1 DEF Tracked
  <2>8. \A j \in Kinds, q \in IPs : \A m1 \in L \cup t.new, m2 \in M :
          ~ (For(t, m1, j, q) /\ For(t, m2, j, q))
    BY <1>0, <1>5, <2>1, <2>2, <2>3 DEF Tracked
  <2> QED
    BY <2>4, <2>5, <2>6, <2>7, <2>8 DEF Tracked
<1> QED
  BY <1>1, <1>5, <1>6 DEF Good

LEMMA LaunchGeoTracked ==
  ASSUME NEW L, NEW M, NEW s, Good(s, L, M), NEW ip \in IPs, NEW allow \in BOOLEAN
  PROVE  Good(LaunchGeo(s, ip, allow), L, M) /\ Same(s, LaunchGeo(s, ip, allow))
<1> DEFINE c == CheckRetries(s, "geo", ip)
           nm == s.dn42 /\ s.cache[ip].host
           t == LaunchGeo(s, ip, allow)
           Idle == ~ UseGeo \/ s.cache[ip].geo # "none" \/ ip \in s.inFlight["geo"]
           Held == \/ RetriesExhausted(s, "geo", ip)
                   \/ s.dn42 /\ UseRDNS /\ ~ s.cache[ip].host /\ ~ allow
<1>0. s \in Meta /\ "geo" \in Kinds
  BY DEF Good, Kinds
<1>1. /\ Good(c, L, M)
      /\ Quiet(s, c)
      /\ ~ RetriesExhausted(s, "geo", ip) => c.attempts["geo"][ip] < MaxTries
  BY <1>0, RetriesChecked, StillTracked DEF Good, Quiet, Same
<1>2. nm \in BOOLEAN
  OBVIOUS
<1>3. ASSUME Idle PROVE t = s
  BY <1>3, Zenon DEF LaunchGeo
<1>4. ASSUME ~ Idle, Held PROVE t = c
  BY <1>4, Zenon DEF LaunchGeo
<1>5. ASSUME ~ Idle, ~ Held PROVE t = Launch(c, "geo", ip, nm)
  BY <1>5, Zenon DEF LaunchGeo
<1>6. ASSUME ~ Idle, ~ Held PROVE Good(t, L, M) /\ Same(s, t)
  <2>1. c.attempts["geo"][ip] < MaxTries /\ ip \notin c.inFlight["geo"]
    BY <1>1, <1>6 DEF Quiet
  <2>2. t = Launch(c, "geo", ip, nm)
    BY <1>5, <1>6
  <2> HIDE DEF nm, c, t, Idle, Held
  <2>3. Good(t, L, M) /\ Same(c, t)
    BY <1>0, <1>1, <1>2, <2>1, <2>2, LaunchTracked
  <2> QED
    BY <1>1, <2>3 DEF Quiet, Same
<1> HIDE DEF c, nm, t, Idle, Held
<1>7. Good(t, L, M) /\ Same(s, t)
  BY <1>1, <1>3, <1>4, <1>6 DEF Quiet, Same
<1> QED
  BY <1>7 DEF t

LEMMA LaunchHostTracked ==
  ASSUME NEW L, NEW M, NEW s, Good(s, L, M), NEW ip \in IPs
  PROVE  Good(LaunchHost(s, ip), L, M) /\ Same(s, LaunchHost(s, ip))
<1> DEFINE c == CheckRetries(s, "host", ip)
           t == LaunchHost(s, ip)
           Idle == ~ UseRDNS \/ s.cache[ip].host \/ ip \in s.inFlight["host"]
           Held == RetriesExhausted(s, "host", ip)
<1>0. s \in Meta /\ "host" \in Kinds
  BY DEF Good, Kinds
<1>1. /\ Good(c, L, M)
      /\ Quiet(s, c)
      /\ ~ Held => c.attempts["host"][ip] < MaxTries
  BY <1>0, RetriesChecked, StillTracked DEF Good, Quiet, Same
<1>3. ASSUME Idle PROVE t = s
  BY <1>3, Zenon DEF LaunchHost
<1>4. ASSUME ~ Idle, Held PROVE t = c
  BY <1>4, Zenon DEF LaunchHost
<1>5. ASSUME ~ Idle, ~ Held PROVE t = Launch(c, "host", ip, FALSE)
  BY <1>5, Zenon DEF LaunchHost
<1>6. ASSUME ~ Idle, ~ Held PROVE Good(t, L, M) /\ Same(s, t)
  <2>1. c.attempts["host"][ip] < MaxTries /\ ip \notin c.inFlight["host"]
    BY <1>1, <1>6 DEF Quiet
  <2>2. t = Launch(c, "host", ip, FALSE)
    BY <1>5, <1>6
  <2>3. PICK no \in BOOLEAN : no = FALSE
    OBVIOUS
  <2> HIDE DEF c, t, Idle, Held
  <2>4. Good(t, L, M) /\ Same(c, t)
    BY <1>0, <1>1, <2>1, <2>2, <2>3, LaunchTracked
  <2> QED
    BY <1>1, <2>4 DEF Quiet, Same
<1> HIDE DEF c, t, Idle, Held
<1>7. Good(t, L, M) /\ Same(s, t)
  BY <1>1, <1>3, <1>4, <1>6 DEF Quiet, Same
<1> QED
  BY <1>7 DEF t

(***************************************************************************)
(* Processing a patch                                                      *)
(***************************************************************************)
\* What a patch brings.
GotHost(r) == r.kind = "host" /\ r.found

GotGeo(r) ==
  IF r.kind = "geo" /\ r.found THEN IF r.named THEN "named" ELSE "ip" ELSE "none"

LEMMA GotTyped ==
  ASSUME NEW r \in Lookup
  PROVE  GotHost(r) \in BOOLEAN /\ GotGeo(r) \in {"none", "ip", "named"}
<1> QED
  BY DEF GotHost, GotGeo

\* The cache of t is that of s with what r brings.
Learned(s, t, r) ==
  \A q \in IPs :
    /\ t.cache[q].host <=> (s.cache[q].host \/ (q = r.ip /\ GotHost(r)))
    /\ t.cache[q].geo = IF q = r.ip /\ s.cache[q].geo = "none"
                        THEN GotGeo(r)
                        ELSE s.cache[q].geo

CacheEntry == [host : BOOLEAN, geo : {"none", "ip", "named"}]

LEMMA CachePatched ==
  ASSUME NEW L, NEW M, NEW s, Good(s, L, M), NEW r \in Lookup
  PROVE  /\ Good(CachePatch(s, r), L, M)
         /\ Learned(s, CachePatch(s, r), r)
         /\ CachePatch(s, r).rows = s.rows
         /\ CachePatch(s, r).dn42 = s.dn42
         /\ CachePatch(s, r).generation = s.generation
<1> DEFINE c == [s EXCEPT !.attempts[r.kind][r.ip] = 0, !.retryAt[r.kind][r.ip] = "none"]
           t == CachePatch(s, r)
           geo == IF c.cache[r.ip].geo # "none" THEN c.cache[r.ip].geo
                  ELSE IF r.named THEN "named" ELSE "ip"
           h == [c.cache[r.ip] EXCEPT !.host = TRUE]
           g == [c.cache[r.ip] EXCEPT !.geo = geo]
<1>0. s \in Meta /\ Tracked(s, L, M) /\ r.kind \in Kinds /\ r.ip \in IPs
  BY DEF Good, Lookup
<1>1. c \in Meta /\ Quiet(s, c)
  BY <1>0, ForgetRetries
<1>2. ASSUME ~ r.found PROVE t = s
  BY <1>2, Zenon DEF CachePatch
<1>3. ASSUME r.found, r.kind = "host" PROVE t = [c EXCEPT !.cache[r.ip].host = TRUE]
  BY <1>3, Zenon DEF CachePatch
<1>4. ASSUME r.found, r.kind # "host"
      PROVE  t = [c EXCEPT !.cache[r.ip].geo =
                    IF @ # "none" THEN @ ELSE IF r.named THEN "named" ELSE "ip"]
  BY <1>4, Zenon DEF CachePatch
<1>5. c.cache \in [IPs -> CacheEntry]
  BY <1>1 DEF Meta, CacheEntry
<1>6. ASSUME r.found, r.kind = "host" PROVE t = [c EXCEPT !.cache = [c.cache EXCEPT ![r.ip] = h]]
  BY <1>3, <1>6
<1>7. ASSUME r.found, r.kind # "host" PROVE t = [c EXCEPT !.cache = [c.cache EXCEPT ![r.ip] = g]]
  BY <1>4, <1>7
<1> HIDE DEF c, t
<1>8. h \in CacheEntry /\ h.host = TRUE /\ h.geo = c.cache[r.ip].geo
  BY <1>0, <1>5 DEF CacheEntry
<1>9. g \in CacheEntry /\ g.host = c.cache[r.ip].host /\ g.geo = geo
  BY <1>0, <1>5 DEF CacheEntry
<1> HIDE DEF h, g
<1>10. ASSUME ~ r.found
       PROVE  Good(t, L, M) /\ Learned(s, t, r) /\ t.rows = s.rows /\ t.dn42 = s.dn42
              /\ t.generation = s.generation
  BY <1>0, <1>2, <1>10 DEF Good, Learned, GotHost, GotGeo
<1>11. ASSUME NEW e \in CacheEntry, t = [c EXCEPT !.cache = [c.cache EXCEPT ![r.ip] = e]]
       PROVE  /\ Good(t, L, M) /\ t.rows = s.rows /\ t.dn42 = s.dn42
              /\ t.generation = s.generation
              /\ \A q \in IPs : t.cache[q] = IF q = r.ip THEN e ELSE s.cache[q]
  <2>1. [c.cache EXCEPT ![r.ip] = e] \in [IPs -> CacheEntry]
    BY <1>5
  <2>2. t \in Meta
    BY <1>1, <1>11, <2>1 DEF Meta, CacheEntry
  <2>3. /\ t.inFlight = s.inFlight /\ t.new = s.new /\ t.rows = s.rows /\ t.dn42 = s.dn42
        /\ t.generation = s.generation /\ t.cache = [c.cache EXCEPT ![r.ip] = e]
        /\ c.cache = s.cache
    BY <1>1, <1>11 DEF Meta, Quiet, Same
  <2> QED
    BY <1>0, <1>5, <2>2, <2>3, StillTracked DEF Good
<1>12. ASSUME r.found, r.kind = "host"
       PROVE  Good(t, L, M) /\ Learned(s, t, r) /\ t.rows = s.rows /\ t.dn42 = s.dn42
              /\ t.generation = s.generation
  <2>1. /\ Good(t, L, M) /\ t.rows = s.rows /\ t.dn42 = s.dn42
        /\ t.generation = s.generation
        /\ \A q \in IPs : t.cache[q] = IF q = r.ip THEN h ELSE s.cache[q]
    BY <1>6, <1>8, <1>11, <1>12
  <2>2. GotHost(r) /\ GotGeo(r) = "none"
    BY <1>12 DEF GotHost, GotGeo
  <2>3. h.host /\ h.geo = s.cache[r.ip].geo
    BY <1>1, <1>8 DEF Quiet, Same
  <2>4. Learned(s, t, r)
    BY <2>1, <2>2, <2>3 DEF Learned
  <2> QED
    BY <2>1, <2>4
<1>13. ASSUME r.found, r.kind # "host"
       PROVE  Good(t, L, M) /\ Learned(s, t, r) /\ t.rows = s.rows /\ t.dn42 = s.dn42
              /\ t.generation = s.generation
  <2>1. /\ Good(t, L, M) /\ t.rows = s.rows /\ t.dn42 = s.dn42
        /\ t.generation = s.generation
        /\ \A q \in IPs : t.cache[q] = IF q = r.ip THEN g ELSE s.cache[q]
    BY <1>7, <1>9, <1>11, <1>13
  <2>2. r.kind = "geo"
    BY <1>0, <1>13 DEF Kinds
  <2>3. ~ GotHost(r) /\ GotGeo(r) = IF r.named THEN "named" ELSE "ip"
    BY <1>13, <2>2 DEF GotHost, GotGeo
  <2>4. g.host = s.cache[r.ip].host
        /\ g.geo = IF s.cache[r.ip].geo = "none" THEN GotGeo(r) ELSE s.cache[r.ip].geo
    BY <1>1, <1>9, <2>3 DEF Quiet, Same
  <2>5. Learned(s, t, r)
    BY <2>1, <2>3, <2>4 DEF Learned
  <2> QED
    BY <2>1, <2>5
<1>14. Good(t, L, M) /\ Learned(s, t, r) /\ t.rows = s.rows /\ t.dn42 = s.dn42
       /\ t.generation = s.generation
  BY <1>10, <1>12, <1>13
<1> QED
  BY <1>14 DEF t

LEMMA Retried ==
  ASSUME NEW L, NEW M, NEW s, Good(s, L, M), NEW r \in Lookup
  PROVE  Good(MaybeRetry(s, r), L, M) /\ Same(s, MaybeRetry(s, r))
<1> DEFINE t == MaybeRetry(s, r)
           mayWait == s.dn42 /\ UseRDNS /\ ~ s.cache[r.ip].host
           c == IF mayWait THEN CheckRetries(s, "host", r.ip) ELSE s
           allow == mayWait => RetriesExhausted(s, "host", r.ip)
<1>0. s \in Meta /\ Tracked(s, L, M) /\ "host" \in Kinds /\ r.ip \in IPs
  BY DEF Good, Lookup, Kinds
<1>1. allow \in BOOLEAN
  OBVIOUS
<1>2. Good(c, L, M) /\ Same(s, c)
  BY <1>0, RetriesChecked, StillTracked DEF Good, Quiet, Same
<1>3. ASSUME r.found PROVE t = s
  BY <1>3, Zenon DEF MaybeRetry
<1>4. ASSUME ~ r.found, r.kind = "host" PROVE t = LaunchHost(s, r.ip)
  BY <1>4, Zenon DEF MaybeRetry
<1>5. ASSUME ~ r.found, r.kind # "host" PROVE t = LaunchGeo(c, r.ip, allow)
  BY <1>5, Zenon DEF MaybeRetry
<1> HIDE DEF t, c, allow
<1>6. Good(t, L, M) /\ Same(s, t)
  BY <1>0, <1>1, <1>2, <1>3, <1>4, <1>5, LaunchHostTracked, LaunchGeoTracked DEF Same
<1> QED
  BY <1>6 DEF t

LEMMA DN42GeoLaunched ==
  ASSUME NEW L, NEW M, NEW s, Good(s, L, M), NEW r \in Lookup
  PROVE  Good(MaybeLaunchDN42Geo(s, r), L, M) /\ Same(s, MaybeLaunchDN42Geo(s, r))
<1> DEFINE t == MaybeLaunchDN42Geo(s, r)
           c == CheckRetries(s, "host", r.ip)
           Idle == \/ r.kind # "host"
                   \/ ~ (s.dn42 /\ UseRDNS /\ UseGeo)
                   \/ s.cache[r.ip].geo # "none"
           Held == RetriesExhausted(s, "host", r.ip)
<1>0. s \in Meta /\ Tracked(s, L, M) /\ "host" \in Kinds /\ r.ip \in IPs
  BY DEF Good, Lookup, Kinds
<1>1. Good(c, L, M) /\ Same(s, c)
  BY <1>0, RetriesChecked, StillTracked DEF Good, Quiet, Same
<1>2. PICK yes \in BOOLEAN : yes = TRUE
  OBVIOUS
<1>3. ASSUME Idle PROVE t = s
  BY <1>3, Zenon DEF MaybeLaunchDN42Geo
<1>4. ASSUME ~ Idle, s.cache[r.ip].host PROVE t = LaunchGeo(s, r.ip, TRUE)
  BY <1>4, Zenon DEF MaybeLaunchDN42Geo
<1>5. ASSUME ~ Idle, ~ s.cache[r.ip].host, Held PROVE t = LaunchGeo(c, r.ip, TRUE)
  BY <1>5, Zenon DEF MaybeLaunchDN42Geo
<1>6. ASSUME ~ Idle, ~ s.cache[r.ip].host, ~ Held PROVE t = c
  BY <1>6, Zenon DEF MaybeLaunchDN42Geo
<1>7. /\ Good(LaunchGeo(s, r.ip, TRUE), L, M) /\ Same(s, LaunchGeo(s, r.ip, TRUE))
      /\ Good(LaunchGeo(c, r.ip, TRUE), L, M) /\ Same(c, LaunchGeo(c, r.ip, TRUE))
  <2> HIDE DEF c
  <2> QED
    BY <1>0, <1>1, <1>2, LaunchGeoTracked
<1> HIDE DEF t, c, Idle, Held
<1>8. Good(t, L, M) /\ Same(s, t)
  BY <1>1, <1>3, <1>4, <1>5, <1>6, <1>7 DEF Same
<1> QED
  BY <1>8 DEF t

(***************************************************************************)
(* The rows                                                                *)
(***************************************************************************)
Row == [seen : BOOLEAN, host : BOOLEAN, geo : {"none", "ip", "named"}]

LEMMA RowPatched ==
  ASSUME NEW row \in Row, NEW host \in BOOLEAN, NEW geo \in {"none", "ip", "named"}
  PROVE  /\ PatchRow(row, host, geo) \in Row
         /\ ~ row.seen => PatchRow(row, host, geo) = row
         /\ row.seen => /\ PatchRow(row, host, geo).seen
                        /\ PatchRow(row, host, geo).host <=> (row.host \/ host)
                        /\ PatchRow(row, host, geo).geo =
                             IF row.geo = "none" THEN geo ELSE row.geo
<1>1. CASE ~ row.seen
  BY <1>1 DEF PatchRow, Row
<1>2. CASE row.seen
  <2> DEFINE h == row.host \/ host
             g == IF row.geo = "none" THEN geo ELSE row.geo
             p == [row EXCEPT !.host = h, !.geo = g]
  <2>1. h \in BOOLEAN /\ g \in {"none", "ip", "named"}
    BY DEF Row
  <2>2. PatchRow(row, host, geo) = p
    BY <1>2 DEF PatchRow, Row
  <2>3. (h <=> (row.host \/ host)) /\ g = IF row.geo = "none" THEN geo ELSE row.geo
    OBVIOUS
  <2> HIDE DEF h, g
  <2>4. p \in Row /\ p.seen = row.seen /\ p.host = h /\ p.geo = g
    BY <2>1 DEF Row
  <2> HIDE DEF p
  <2> QED
    BY <1>2, <2>2, <2>3, <2>4
<1> QED
  BY <1>1, <1>2

\* A handler ends by writing one row.
LEMMA RowWritten ==
  ASSUME NEW L, NEW M, NEW s, Good(s, L, M), NEW ip \in IPs, NEW row \in Row
  PROVE  /\ Good([s EXCEPT !.rows[ip] = row], L, M)
         /\ [s EXCEPT !.rows[ip] = row].generation = s.generation
         /\ [s EXCEPT !.rows[ip] = row].cache = s.cache
         /\ [s EXCEPT !.rows[ip] = row].rows = [s.rows EXCEPT ![ip] = row]
<1> DEFINE f == [s.rows EXCEPT ![ip] = row]
           t == [s EXCEPT !.rows[ip] = row]
<1>0. s \in Meta /\ Tracked(s, L, M)
  BY DEF Good
<1>1. f \in [IPs -> Row]
  BY <1>0 DEF Meta, Row
<1>2. t = [s EXCEPT !.rows = f]
  BY <1>0 DEF Meta
<1> HIDE DEF f, t
<1>3. /\ t \in Meta /\ t.generation = s.generation /\ t.cache = s.cache /\ t.rows = f
      /\ t.inFlight = s.inFlight /\ t.new = s.new
  BY <1>0, <1>1, <1>2 DEF Meta, Row
<1>4. Good(t, L, M)
  BY <1>0, <1>3, StillTracked DEF Good
<1> QED
  BY <1>3, <1>4 DEF t, f

LEMMA AnswerProcessed ==
  ASSUME NEW L, NEW M, NEW s, Good(s, L, M), Shown(s), NEW ip \in IPs
  PROVE  /\ Good(ProcessAnswer(s, ip), L, M)
         /\ Shown(ProcessAnswer(s, ip))
         /\ ProcessAnswer(s, ip).generation = s.generation
         /\ ProcessAnswer(s, ip).cache = s.cache
<1> DEFINE a == LaunchGeo(s, ip, FALSE)
           b == LaunchHost(a, ip)
           known == s.cache[ip]
           host == known.host
           geo == known.geo
           seen == [b.rows[ip] EXCEPT !.seen = TRUE]
           row == PatchRow(seen, host, geo)
           t == [b EXCEPT !.rows[ip] = row]
<1>0. s \in Meta
  BY DEF Good
<1>1. PICK no \in BOOLEAN : no = FALSE
  OBVIOUS
<1>2. Good(a, L, M) /\ Same(s, a)
  BY <1>1, LaunchGeoTracked
<1>3. Good(b, L, M) /\ Same(a, b)
  <2> HIDE DEF a
  <2> QED
    BY <1>2, LaunchHostTracked
<1>4. ProcessAnswer(s, ip) = t
  BY Zenon DEF ProcessAnswer
<1> HIDE DEF a, b
<1>5. b \in Meta /\ Same(s, b)
  BY <1>2, <1>3 DEF Good, Same
<1>6. b.rows = s.rows /\ s.rows[ip] \in Row
  BY <1>0, <1>5 DEF Same, Meta, Row
<1>7. /\ seen \in Row /\ seen.seen
      /\ seen.host = s.rows[ip].host /\ seen.geo = s.rows[ip].geo
  BY <1>6 DEF Row
<1>8. host \in BOOLEAN /\ geo \in {"none", "ip", "named"}
  BY <1>0 DEF Meta
<1>9. IF s.rows[ip].seen
      THEN s.rows[ip].host = host /\ s.rows[ip].geo = geo
      ELSE s.rows[ip].host = FALSE /\ s.rows[ip].geo = "none"
  BY DEF Shown, NoRow
<1>9a. host = s.cache[ip].host /\ geo = s.cache[ip].geo
  OBVIOUS
<1> HIDE DEF seen, host, geo
<1>10. /\ row \in Row /\ row.seen
       /\ row.host <=> (seen.host \/ host)
       /\ row.geo = IF seen.geo = "none" THEN geo ELSE seen.geo
  BY <1>7, <1>8, RowPatched
<1>11. row.host = host /\ row.geo = geo
  <2>1. (row.host <=> host) /\ row.geo = geo
    BY <1>7, <1>8, <1>9, <1>10
  <2> QED
    BY <1>8, <1>10, <2>1 DEF Row
<1> HIDE DEF row
<1>12. /\ Good(t, L, M) /\ t.generation = s.generation /\ t.cache = s.cache
       /\ t.rows = [s.rows EXCEPT ![ip] = row]
  BY <1>3, <1>5, <1>6, <1>10, RowWritten DEF Same
<1> HIDE DEF t
<1>13. Shown(t)
  BY <1>0, <1>9a, <1>10, <1>11, <1>12 DEF Shown, Meta
<1> QED
  BY <1>4, <1>12, <1>13

\* The lookup of a patch that is of this generation is no longer in flight.
LEMMA Cleared ==
  ASSUME NEW L, NEW M, NEW s, Good(s, L, M), NEW r \in Lookup, r \in M,
         r.gen = s.generation
  PROVE  /\ Good([s EXCEPT !.inFlight[r.kind] = @ \ {r.ip}], L, M \ {r})
         /\ Same(s, [s EXCEPT !.inFlight[r.kind] = @ \ {r.ip}])
<1> DEFINE f == [s.inFlight EXCEPT ![r.kind] = @ \ {r.ip}]
           t == [s EXCEPT !.inFlight[r.kind] = @ \ {r.ip}]
<1>0. s \in Meta /\ Tracked(s, L, M) /\ r.kind \in Kinds /\ r.ip \in IPs
  BY DEF Good, Lookup
<1>1. /\ f \in [Kinds -> SUBSET IPs]
      /\ \A k \in Kinds, ip \in IPs :
           ip \in f[k] <=> (ip \in s.inFlight[k] /\ ~ (k = r.kind /\ ip = r.ip))
  BY <1>0 DEF Meta
<1>2. t = [s EXCEPT !.inFlight = f]
  BY <1>0 DEF Meta
<1> HIDE DEF f, t
<1>3. /\ t \in Meta /\ Same(s, t) /\ t.inFlight = f /\ t.new = s.new
      /\ t.generation = s.generation
  BY <1>0, <1>1, <1>2 DEF Meta, Same
<1>4. \A m : \A k \in Kinds, ip \in IPs : For(t, m, k, ip) <=> For(s, m, k, ip)
  BY <1>3 DEF For
<1>5. \A k \in Kinds, ip \in IPs : For(s, r, k, ip) <=> (k = r.kind /\ ip = r.ip)
  BY DEF For
<1>6. \A l \in L \cup t.new \cup (M \ {r}) : l.gen <= t.generation
  BY <1>0, <1>3 DEF Tracked
<1>7. \A k \in Kinds, ip \in IPs :
        ip \in t.inFlight[k] <=> \E l \in L \cup t.new \cup (M \ {r}) : For(t, l, k, ip)
  <2> SUFFICES ASSUME NEW k \in Kinds, NEW ip \in IPs
               PROVE  ip \in t.inFlight[k]
                        <=> \E l \in L \cup t.new \cup (M \ {r}) : For(s, l, k, ip)
    BY <1>4
  <2>1. CASE k = r.kind /\ ip = r.ip
    <3>1. For(s, r, k, ip)
      BY <1>5, <2>1
    <3>2. \A l \in L \cup s.new \cup (M \ {r}) : ~ For(s, l, k, ip)
      BY <1>0, <3>1 DEF Tracked
    <3> QED
      BY <1>1, <1>3, <2>1, <3>2
  <2>2. CASE ~ (k = r.kind /\ ip = r.ip)
    <3>1. ~ For(s, r, k, ip)
      BY <1>5, <2>2
    <3>2. ip \in s.inFlight[k] <=> \E l \in L \cup s.new \cup M : For(s, l, k, ip)
      BY <1>0 DEF Tracked
    <3> QED
      BY <1>1, <1>3, <2>2, <3>1, <3>2
  <2> QED
    BY <2>1, <2>2
<1>8. \A k \in Kinds, ip \in IPs : \A l1, l2 \in L \cup t.new :
        For(t, l1, k, ip) /\ For(t, l2, k, ip) => l1 = l2
  BY <1>0, <1>3, <1>4 DEF Tracked
<1>9. \A k \in Kinds, ip \in IPs : \A l1, l2 \in M \ {r} :
        For(t, l1, k, ip) /\ For(t, l2, k, ip) => l1 = l2
  BY <1>0, <1>4 DEF Tracked
<1>10. \A k \in Kinds, ip \in IPs : \A l1 \in L \cup t.new, l2 \in M \ {r} :
         ~ (For(t, l1, k, ip) /\ For(t, l2, k, ip))
  BY <1>0, <1>3, <1>4 DEF Tracked
<1>11. Tracked(t, L, M \ {r})
  BY <1>6, <1>7, <1>8, <1>9, <1>10 DEF Tracked
<1> QED
  BY <1>3, <1>11 DEF Good, t

LEMMA PatchProcessed ==
  ASSUME NEW L, NEW M, NEW s, Good(s, L, M), Shown(s), NEW r \in Lookup, r \in M
  PROVE  /\ Good(ProcessPatch(s, r), L, M \ {r})
         /\ Shown(ProcessPatch(s, r))
         /\ ProcessPatch(s, r).generation = s.generation
         /\ r.gen # s.generation => ProcessPatch(s, r) = s
<1>1. CASE r.gen # s.generation
  <2>1. ProcessPatch(s, r) = s
    BY <1>1, Zenon DEF ProcessPatch
  <2>2. \A k \in Kinds, ip \in IPs : ~ For(s, r, k, ip)
    BY <1>1 DEF For
  <2>3. Tracked(s, L, M \ {r})
    BY <2>2 DEF Good, Tracked
  <2> QED
    BY <2>1, <2>3 DEF Good
<1>2. CASE r.gen = s.generation
  <2> DEFINE a == [s EXCEPT !.inFlight[r.kind] = @ \ {r.ip}]
             b == CachePatch(a, r)
             c == MaybeRetry(b, r)
             d == MaybeLaunchDN42Geo(c, r)
             host == GotHost(r)
             geo == GotGeo(r)
             old == d.rows[r.ip]
             row == PatchRow(old, host, geo)
             t == [d EXCEPT !.rows[r.ip] = row]
             N == M \ {r}
  <2>0. s \in Meta /\ r.ip \in IPs /\ r.kind \in Kinds
    BY DEF Good, Lookup
  <2>1. Good(a, L, N) /\ Same(s, a)
    BY <1>2, Cleared
  <2>2. /\ Good(b, L, N) /\ Learned(a, b, r)
        /\ b.rows = a.rows /\ b.generation = a.generation
    <3> HIDE DEF a, N
    <3> QED
      BY <2>1, CachePatched
  <2>3. Good(c, L, N) /\ Same(b, c)
    <3> HIDE DEF b, N
    <3> QED
      BY <2>2, Retried
  <2>4. Good(d, L, N) /\ Same(c, d)
    <3> HIDE DEF c, N
    <3> QED
      BY <2>3, DN42GeoLaunched
  <2>5. ProcessPatch(s, r) = t
    BY <1>2, Zenon DEF ProcessPatch, GotHost, GotGeo
  <2> HIDE DEF a, b, c, d, N
  <2>6. /\ d.rows = s.rows /\ d.generation = s.generation /\ d.cache = b.cache
        /\ a.cache = s.cache
    BY <2>1, <2>2, <2>3, <2>4 DEF Same
  <2>7. old = s.rows[r.ip] /\ old \in Row
    BY <2>0, <2>6 DEF Meta, Row
  <2>8a. (host <=> GotHost(r)) /\ geo = GotGeo(r)
    OBVIOUS
  <2>8c. host \in BOOLEAN /\ geo \in {"none", "ip", "named"}
    BY GotTyped
  <2> HIDE DEF host, geo, old
  <2>8b. /\ row \in Row
         /\ ~ old.seen => row = old
         /\ old.seen => /\ row.seen
                        /\ row.host <=> (old.host \/ host)
                        /\ row.geo = IF old.geo = "none" THEN geo ELSE old.geo
    <3>1. old \in Row
      BY <2>7
    <3>2. ~ old.seen => row = old
      BY <2>8c, <3>1, RowPatched
    <3>3. old.seen => /\ row.seen
                      /\ row.host <=> (old.host \/ host)
                      /\ row.geo = IF old.geo = "none" THEN geo ELSE old.geo
      BY <2>8c, <3>1, RowPatched
    <3>4. row \in Row
      BY <2>8c, <3>1, RowPatched
    <3> QED
      BY <3>2, <3>3, <3>4
  <2> HIDE DEF row
  <2>8. /\ row \in Row
        /\ ~ s.rows[r.ip].seen => row = s.rows[r.ip]
        /\ s.rows[r.ip].seen =>
             /\ row.seen
             /\ row.host <=> (s.rows[r.ip].host \/ host)
             /\ row.geo = IF s.rows[r.ip].geo = "none" THEN geo ELSE s.rows[r.ip].geo
    BY <2>7, <2>8b
  <2>9. /\ Good(t, L, N) /\ t.generation = s.generation /\ t.cache = b.cache
        /\ t.rows = [s.rows EXCEPT ![r.ip] = row]
    BY <2>0, <2>4, <2>6, <2>8, RowWritten
  <2> HIDE DEF t
  <2>10. Shown(t)
    <3> SUFFICES ASSUME NEW q \in IPs
                 PROVE  IF t.rows[q].seen
                        THEN /\ t.rows[q].host = t.cache[q].host
                             /\ t.rows[q].geo = t.cache[q].geo
                        ELSE t.rows[q] = NoRow
      BY DEF Shown
    <3>1. IF s.rows[q].seen
          THEN s.rows[q].host = s.cache[q].host /\ s.rows[q].geo = s.cache[q].geo
          ELSE s.rows[q] = NoRow
      BY DEF Shown
    <3>2. /\ t.cache[q].host <=> (s.cache[q].host \/ (q = r.ip /\ GotHost(r)))
          /\ t.cache[q].geo = IF q = r.ip /\ s.cache[q].geo = "none"
                              THEN GotGeo(r)
                              ELSE s.cache[q].geo
      BY <2>2, <2>6, <2>9 DEF Learned
    <3>3. t.cache[q].host \in BOOLEAN /\ t.rows[q].host \in BOOLEAN
      BY <2>9 DEF Good, Meta
    <3>4. CASE q = r.ip
      <4>1. t.rows[q] = row
        BY <2>0, <2>9, <3>4 DEF Meta
      <4>2. CASE ~ s.rows[q].seen
        BY <2>8, <3>1, <3>4, <4>1, <4>2 DEF NoRow
      <4>3. CASE s.rows[q].seen
        <5>1. row.seen /\ row.geo = t.cache[q].geo
          BY <2>8, <2>8a, <3>1, <3>2, <3>4, <4>3
        <5>2. row.host <=> t.cache[q].host
          BY <2>8, <2>8a, <3>1, <3>2, <3>4, <4>3
        <5> QED
          BY <3>3, <4>1, <5>1, <5>2
      <4> QED
        BY <4>2, <4>3
    <3>5. CASE q # r.ip
      <4>1. t.rows[q] = s.rows[q]
        BY <2>0, <2>9, <3>5 DEF Meta
      <4>2. (t.cache[q].host <=> s.cache[q].host) /\ t.cache[q].geo = s.cache[q].geo
        BY <3>2, <3>5
      <4>3. s.cache[q].host \in BOOLEAN
        BY <2>0 DEF Meta
      <4> QED
        BY <3>1, <3>3, <4>1, <4>2, <4>3
    <3> QED
      BY <3>4, <3>5
  <2> QED
    BY <1>2, <2>5, <2>9, <2>10 DEF N
<1> QED
  BY <1>1, <1>2

(***************************************************************************)
(* The steps                                                               *)
(***************************************************************************)
LEMMA StartsGood == TypeOK /\ ~ ended /\ IInv => Good(md, lookups, metadataCh) /\ md.new = {}
<1> SUFFICES ASSUME TypeOK, ~ ended, IInv
             PROVE  Good(md, lookups, metadataCh) /\ md.new = {}
  OBVIOUS
<1>1. md \in Meta /\ md.new = {}
  BY DEF TypeOK, Meta
<1> QED
  BY <1>1 DEF IInv, Good

\* What a handler leaves behind is as good when its goroutines have started.
LEMMA Committed ==
  ASSUME NEW t, NEW M, Good(t, lookups, M), Shown(t), Commit(t), lookups \subseteq Lookup,
         metadataCh' = M, M \subseteq Lookup, UNCHANGED ended, ended \in BOOLEAN
  PROVE  IInv'
<1>1. t \in Meta /\ Tracked(t, lookups, M)
  BY DEF Good
<1>2. PICK u : u = [t EXCEPT !.new = {}]
  OBVIOUS
<1>3. md' = u /\ lookups' = lookups \cup t.new
  BY <1>2 DEF Commit
<1>4. /\ u \in Meta /\ u.new = {} /\ u.inFlight = t.inFlight
      /\ u.generation = t.generation /\ u.cache = t.cache /\ u.rows = t.rows
  BY <1>1, <1>2 DEF Meta
<1>5. TypeOK'
  <2>1. u \in [dn42       : DN42,
               generation : 0 .. MaxResets,
               inFlight   : [Kinds -> SUBSET IPs],
               attempts   : [Kinds -> [IPs -> 0 .. MaxTries]],
               retryAt    : [Kinds -> [IPs -> {"none", "waiting", "over"}]],
               cache      : [IPs -> [host : BOOLEAN, geo : {"none", "ip", "named"}]],
               rows       : [IPs -> [seen : BOOLEAN, host : BOOLEAN,
                                     geo : {"none", "ip", "named"}]],
               new        : {{}}]
    BY <1>4 DEF Meta
  <2>2. lookups' \subseteq Lookup
    BY <1>1, <1>3 DEF Meta
  <2> QED
    BY <1>3, <2>1, <2>2 DEF TypeOK
<1>6. Tracked(md, lookups, metadataCh)'
  <2>1. \A l : \A k \in Kinds, ip \in IPs : For(u, l, k, ip) <=> For(t, l, k, ip)
    BY <1>4 DEF For
  <2>2. lookups' \cup u.new = lookups \cup t.new
    BY <1>3, <1>4
  <2>3. Tracked(u, lookups', M)
    BY <1>1, <1>4, <2>1, <2>2 DEF Tracked
  <2> QED
    BY <1>3, <2>3 DEF Tracked, For
<1>7. Shown(md)'
  <2>1. Shown(u)
    BY <1>4 DEF Shown
  <2> QED
    BY <1>3, <2>1 DEF Shown
<1> QED
  BY <1>5, <1>6, <1>7 DEF IInv

LEMMA InitHolds == Init => IInv
<1> SUFFICES ASSUME Init PROVE IInv
  OBVIOUS
<1>1. PICK dn42 \in DN42 : md = InitMetadata(dn42)
  BY DEF Init
<1>2. TypeOK
  <2>1. 0 \in 0 .. MaxResets /\ 0 \in 0 .. MaxTries
    BY MetadataAssumption
  <2>2. /\ [k \in Kinds |-> {}] \in [Kinds -> SUBSET IPs]
        /\ [k \in Kinds |-> [ip \in IPs |-> 0]] \in [Kinds -> [IPs -> 0 .. MaxTries]]
        /\ [k \in Kinds |-> [ip \in IPs |-> "none"]]
             \in [Kinds -> [IPs -> {"none", "waiting", "over"}]]
        /\ [ip \in IPs |-> [host |-> FALSE, geo |-> "none"]]
             \in [IPs -> [host : BOOLEAN, geo : {"none", "ip", "named"}]]
        /\ [ip \in IPs |-> NoRow]
             \in [IPs -> [seen : BOOLEAN, host : BOOLEAN, geo : {"none", "ip", "named"}]]
    BY <2>1 DEF NoRow
  <2>3. md \in [dn42       : DN42,
                generation : 0 .. MaxResets,
                inFlight   : [Kinds -> SUBSET IPs],
                attempts   : [Kinds -> [IPs -> 0 .. MaxTries]],
                retryAt    : [Kinds -> [IPs -> {"none", "waiting", "over"}]],
                cache      : [IPs -> [host : BOOLEAN, geo : {"none", "ip", "named"}]],
                rows       : [IPs -> [seen : BOOLEAN, host : BOOLEAN,
                                      geo : {"none", "ip", "named"}]],
                new        : {{}}]
    BY <1>1, <2>1, <2>2 DEF InitMetadata
  <2> QED
    BY <2>3 DEF Init, TypeOK
<1>3. /\ \A k \in Kinds : md.inFlight[k] = {}
      /\ md.new = {} /\ md.rows = [ip \in IPs |-> NoRow]
  BY <1>1 DEF InitMetadata
<1>4. Tracked(md, lookups, metadataCh)
  BY <1>3 DEF Init, Tracked
<1>5. Shown(md)
  BY <1>3 DEF Shown, NoRow
<1> QED
  BY <1>2, <1>4, <1>5 DEF IInv

LEMMA AnswerStep ==
  ASSUME IInv, NEW ip \in IPs, Answer(ip)
  PROVE  IInv'
<1>1. Good(md, lookups, metadataCh) /\ Shown(md)
  BY StartsGood DEF IInv, Answer
<1> DEFINE t == ProcessAnswer(md, ip)
<1>2. Good(t, lookups, metadataCh) /\ Shown(t)
  BY <1>1, AnswerProcessed
<1> HIDE DEF t
<1>3. PICK M : M = metadataCh
  OBVIOUS
<1>4. /\ Commit(t) /\ metadataCh' = M /\ UNCHANGED ended /\ ended \in BOOLEAN
      /\ lookups \subseteq Lookup /\ M \subseteq Lookup
  BY <1>3 DEF Answer, t, IInv, TypeOK
<1> QED
  BY <1>2, <1>3, <1>4, Committed

LEMMA OnMetadataStep ==
  ASSUME IInv, NEW r \in metadataCh, OnMetadata(r)
  PROVE  /\ IInv'
         /\ r.gen # md.generation => md'.cache = md.cache
<1>0. r \in Lookup
  BY DEF IInv, TypeOK
<1>1. Good(md, lookups, metadataCh) /\ Shown(md)
  BY StartsGood DEF IInv, OnMetadata
<1> DEFINE t == ProcessPatch(md, r)
<1>2. /\ Good(t, lookups, metadataCh \ {r})
      /\ Shown(t)
      /\ r.gen # md.generation => t = md
  BY <1>0, <1>1, PatchProcessed
<1> HIDE DEF t
<1>3. PICK M : M = metadataCh \ {r}
  OBVIOUS
<1>4. /\ Commit(t) /\ metadataCh' = M /\ UNCHANGED ended /\ ended \in BOOLEAN
      /\ lookups \subseteq Lookup /\ M \subseteq Lookup
  BY <1>3 DEF OnMetadata, t, IInv, TypeOK
<1>5. IInv'
  BY <1>2, <1>3, <1>4, Committed
<1>6. ASSUME r.gen # md.generation PROVE md'.cache = md.cache
  BY <1>1, <1>2, <1>4, <1>6 DEF Commit, Good, Meta
<1> QED
  BY <1>5, <1>6

\* The other steps of the loop write one field of md.
LEMMA ClearHopStep ==
  ASSUME IInv, NEW ip \in IPs, ClearHop(ip)
  PROVE  IInv' /\ md'.cache = md.cache
<1>1. Good(md, lookups, metadataCh) /\ Shown(md)
  BY StartsGood DEF IInv, ClearHop
<1>2. NoRow \in Row
  BY DEF NoRow, Row
<1>3. PICK row \in Row : row = NoRow
  BY <1>2
<1> DEFINE t == [md EXCEPT !.rows[ip] = row]
<1>4. /\ Good(t, lookups, metadataCh)
      /\ t.cache = md.cache /\ t.rows = [md.rows EXCEPT ![ip] = row]
  BY <1>1, RowWritten
<1>5. md' = t
  BY <1>3 DEF ClearHop
<1> HIDE DEF t
<1>6. Shown(t)
  <2>1. ASSUME NEW q \in IPs PROVE t.rows[q] = IF q = ip THEN NoRow ELSE md.rows[q]
    BY <1>1, <1>3, <1>4, <2>1 DEF Good, Meta
  <2>2. NoRow.seen = FALSE
    BY DEF NoRow
  <2> QED
    BY <1>1, <1>4, <2>1, <2>2 DEF Shown
<1>7. t.new = {} /\ Commit(t)
  <2>1. md \in Meta /\ md.new = {}
    BY StartsGood, <1>1 DEF IInv, ClearHop, Good
  <2>2. t.new = {}
    BY <2>1 DEF t, Meta
  <2>3. [t EXCEPT !.new = {}] = t
    BY <1>4, <2>2 DEF Good, Meta
  <2> QED
    BY <1>5, <2>2, <2>3 DEF Commit, ClearHop
<1>8. PICK M : M = metadataCh
  OBVIOUS
<1>9. /\ metadataCh' = M /\ UNCHANGED ended /\ ended \in BOOLEAN
      /\ lookups \subseteq Lookup /\ M \subseteq Lookup
  BY <1>8 DEF ClearHop, IInv, TypeOK
<1>10. IInv'
  BY <1>4, <1>6, <1>7, <1>8, <1>9, Committed
<1> QED
  BY <1>4, <1>5, <1>10

LEMMA CooldownOverStep ==
  ASSUME IInv, NEW k \in Kinds, NEW ip \in IPs, CooldownOver(k, ip)
  PROVE  IInv' /\ md'.cache = md.cache
<1>1. Good(md, lookups, metadataCh) /\ Shown(md) /\ md \in Meta /\ md.new = {}
  BY StartsGood DEF IInv, CooldownOver, Good
<1>2. PICK v \in {"none", "waiting", "over"} : v = "over"
  OBVIOUS
<1> DEFINE t == [md EXCEPT !.retryAt[k][ip] = v]
<1>3. t \in Meta /\ Quiet(md, t)
  BY <1>1, SetRetry
<1>4. md' = t
  BY <1>2 DEF CooldownOver
<1> HIDE DEF t
<1>5. Good(t, lookups, metadataCh) /\ Shown(t) /\ t.new = {}
  BY <1>1, <1>3, StillTracked DEF Good, Shown, Quiet, Same
<1>6. [t EXCEPT !.new = {}] = t
  BY <1>3, <1>5 DEF Meta
<1>7. Commit(t)
  BY <1>4, <1>5, <1>6 DEF Commit, CooldownOver
<1>8. PICK M : M = metadataCh
  OBVIOUS
<1>9. /\ metadataCh' = M /\ UNCHANGED ended /\ ended \in BOOLEAN
      /\ lookups \subseteq Lookup /\ M \subseteq Lookup
  BY <1>8 DEF CooldownOver, IInv, TypeOK
<1>10. IInv'
  BY <1>5, <1>7, <1>8, <1>9, Committed
<1> QED
  BY <1>3, <1>4, <1>10 DEF Quiet, Same

\* After a reset no lookup is of the current generation, and none is in flight.
LEMMA ResetStep ==
  ASSUME IInv, Reset
  PROVE  IInv' /\ md'.generation # md.generation
<1>0. md \in Meta /\ Tracked(md, lookups, metadataCh)
  BY StartsGood DEF IInv, Reset, Good
<1>1. md.generation + 1 \in 0 .. MaxResets /\ md.generation \in Nat
  BY <1>0, MetadataAssumption DEF Meta, Reset
<1> DEFINE i == InitMetadata(md.dn42)
<1>2. /\ i.dn42 = md.dn42
      /\ i.inFlight = [k \in Kinds |-> {}]
      /\ i.attempts = [k \in Kinds |-> [ip \in IPs |-> 0]]
      /\ i.retryAt = [k \in Kinds |-> [ip \in IPs |-> "none"]]
      /\ i.cache = [ip \in IPs |-> [host |-> FALSE, geo |-> "none"]]
      /\ i.rows = [ip \in IPs |-> NoRow]
      /\ i.new = {}
      /\ i \in Meta
  <2>1. 0 \in 0 .. MaxResets /\ 0 \in 0 .. MaxTries
    BY MetadataAssumption
  <2> QED
    BY <1>0, <2>1 DEF InitMetadata, Meta, NoRow
<1>3. PICK n \in 0 .. MaxResets : n = md.generation + 1
  BY <1>1
<1>4. md' = [i EXCEPT !.generation = n]
  BY <1>3 DEF Reset
<1> HIDE DEF i
<1>5. /\ md' \in Meta
      /\ md'.generation = n /\ md'.new = {}
      /\ md'.inFlight = [k \in Kinds |-> {}]
      /\ md'.cache = [ip \in IPs |-> [host |-> FALSE, geo |-> "none"]]
      /\ md'.rows = [ip \in IPs |-> NoRow]
  BY <1>2, <1>4 DEF Meta
<1>6. TypeOK'
  BY <1>5 DEF Meta, Reset, IInv, TypeOK
<1>7. lookups \subseteq Lookup /\ metadataCh \subseteq Lookup
  BY DEF IInv, TypeOK
<1>8. \A l \in lookups \cup metadataCh : l.gen < n
  BY <1>0, <1>1, <1>3, <1>7 DEF Tracked, Lookup
<1>9. Tracked(md, lookups, metadataCh)'
  <2>1. lookups' = lookups /\ metadataCh' = metadataCh
    BY DEF Reset
  <2>2. \A l \in lookups \cup metadataCh : l.gen <= n /\ l.gen # n
    BY <1>1, <1>3, <1>7, <1>8 DEF Lookup
  <2>3. \A l \in lookups \cup metadataCh : \A k \in Kinds, ip \in IPs : ~ For(md', l, k, ip)
    BY <1>5, <2>2 DEF For
  <2> QED
    BY <1>5, <2>1, <2>2, <2>3 DEF Tracked, For
<1>10. Shown(md)'
  BY <1>5 DEF Shown, NoRow
<1>11. md'.generation # md.generation
  BY <1>1, <1>3, <1>5
<1> QED
  BY <1>6, <1>9, <1>10, <1>11 DEF IInv

\* A goroutine that goes on keeps its address, kind and generation.
LEMMA GoroutineStep ==
  ASSUME IInv, NEW l \in lookups, NEW n \in Lookup, Step(l, n),
         n.kind = l.kind, n.ip = l.ip, n.gen = l.gen,
         UNCHANGED <<md, metadataCh, ended>>
  PROVE  IInv'
<1>1. lookups' = (lookups \ {l}) \cup {n}
  BY DEF Step
<1>2. TypeOK'
  BY <1>1 DEF IInv, TypeOK
<1>3. Shown(md)'
  BY DEF IInv, Shown
<1>4. ASSUME ~ ended' PROVE Tracked(md, lookups, metadataCh)'
  <2>1. Tracked(md, lookups, metadataCh) /\ md.new = {} /\ lookups \subseteq Lookup
    BY <1>4, StartsGood DEF IInv, TypeOK
  <2>2. \A k \in Kinds, ip \in IPs : For(md, n, k, ip) <=> For(md, l, k, ip)
    BY DEF For
  <2>3. l \in lookups
    OBVIOUS
  <2> SUFFICES Tracked(md, (lookups \ {l}) \cup {n}, metadataCh)
    BY <1>1 DEF Tracked, For
  <2>4. \A m \in ((lookups \ {l}) \cup {n}) \cup md.new \cup metadataCh :
          m.gen <= md.generation
    BY <2>1, <2>3 DEF Tracked
  <2>5. \A k \in Kinds, ip \in IPs :
          ip \in md.inFlight[k]
            <=> \E m \in ((lookups \ {l}) \cup {n}) \cup md.new \cup metadataCh :
                  For(md, m, k, ip)
    BY <2>1, <2>2, <2>3 DEF Tracked
  <2>6. \A k \in Kinds, ip \in IPs :
          \A m1, m2 \in ((lookups \ {l}) \cup {n}) \cup md.new :
            For(md, m1, k, ip) /\ For(md, m2, k, ip) => m1 = m2
    BY <2>1, <2>2, <2>3 DEF Tracked
  <2>7. \A k \in Kinds, ip \in IPs :
          \A m1 \in ((lookups \ {l}) \cup {n}) \cup md.new, m2 \in metadataCh :
            ~ (For(md, m1, k, ip) /\ For(md, m2, k, ip))
    BY <2>1, <2>2, <2>3 DEF Tracked
  <2> QED
    BY <2>1, <2>4, <2>5, <2>6, <2>7 DEF Tracked
<1> QED
  BY <1>2, <1>3, <1>4 DEF IInv

LEMMA AbandonStep ==
  ASSUME IInv, NEW l \in lookups, Abandon(l)
  PROVE  IInv'
<1>1. TypeOK'
  BY DEF IInv, TypeOK, Abandon
<1>2. Shown(md)'
  BY DEF IInv, Shown, Abandon
<1>3. ASSUME ~ ended' PROVE Tracked(md, lookups, metadataCh)'
  <2>1. Tracked(md, lookups, metadataCh) /\ ~ ended
    BY <1>3 DEF IInv, Abandon
  <2>2. \A k \in Kinds, ip \in IPs : ~ For(md, l, k, ip)
    BY <2>1 DEF Abandon, Canceled, For
  <2>3. Tracked(md, lookups \ {l}, metadataCh)
    BY <2>1, <2>2 DEF Tracked
  <2> QED
    BY <2>3 DEF Abandon, Tracked, For
<1> QED
  BY <1>1, <1>2, <1>3 DEF IInv

LEMMA SendPatchStep ==
  ASSUME IInv, NEW l \in lookups, SendPatch(l)
  PROVE  IInv'
<1>1. TypeOK'
  BY DEF IInv, TypeOK, SendPatch
<1>2. Shown(md)'
  BY DEF IInv, Shown, SendPatch
<1>3. ASSUME ~ ended' PROVE Tracked(md, lookups, metadataCh)'
  <2>1. Tracked(md, lookups, metadataCh) /\ md.new = {}
    BY <1>3, StartsGood DEF IInv, SendPatch
  <2>2. l \in lookups
    OBVIOUS
  <2>3. \A m \in (lookups \ {l}) \cup md.new \cup (metadataCh \cup {l}) :
          m.gen <= md.generation
    BY <2>1, <2>2 DEF Tracked
  <2>4. \A k \in Kinds, ip \in IPs :
          ip \in md.inFlight[k]
            <=> \E m \in (lookups \ {l}) \cup md.new \cup (metadataCh \cup {l}) :
                  For(md, m, k, ip)
    BY <2>1, <2>2 DEF Tracked
  <2>5. \A k \in Kinds, ip \in IPs : \A m1, m2 \in (lookups \ {l}) \cup md.new :
          For(md, m1, k, ip) /\ For(md, m2, k, ip) => m1 = m2
    BY <2>1 DEF Tracked
  <2>6. \A k \in Kinds, ip \in IPs : \A m1, m2 \in metadataCh \cup {l} :
          For(md, m1, k, ip) /\ For(md, m2, k, ip) => m1 = m2
    BY <2>1, <2>2 DEF Tracked
  <2>7. \A k \in Kinds, ip \in IPs :
          \A m1 \in (lookups \ {l}) \cup md.new, m2 \in metadataCh \cup {l} :
            ~ (For(md, m1, k, ip) /\ For(md, m2, k, ip))
    BY <2>1, <2>2 DEF Tracked
  <2>8. Tracked(md, lookups \ {l}, metadataCh \cup {l})
    BY <2>3, <2>4, <2>5, <2>6, <2>7 DEF Tracked
  <2> QED
    BY <2>8 DEF SendPatch, Tracked, For
<1> QED
  BY <1>1, <1>2, <1>3 DEF IInv

LEMMA StepHolds == IInv /\ [Next]_vars => IInv'
<1> SUFFICES ASSUME IInv, [Next]_vars PROVE IInv'
  OBVIOUS
<1>0. lookups \subseteq Lookup
  BY DEF IInv, TypeOK
<1>1. CASE UNCHANGED vars
  BY <1>1 DEF vars, IInv, TypeOK, Tracked, For, Shown
<1>2. ASSUME NEW ip \in IPs, Answer(ip) PROVE IInv'
  BY <1>2, AnswerStep
<1>3. ASSUME NEW r \in metadataCh, OnMetadata(r) PROVE IInv'
  BY <1>3, OnMetadataStep
<1>4. ASSUME NEW ip \in IPs, ClearHop(ip) PROVE IInv'
  BY <1>4, ClearHopStep
<1>5. ASSUME NEW k \in Kinds, NEW ip \in IPs, CooldownOver(k, ip) PROVE IInv'
  BY <1>5, CooldownOverStep
<1>6. CASE Reset
  BY <1>6, ResetStep
<1>7. CASE End
  BY <1>7 DEF End, IInv, TypeOK, Shown
<1>8. ASSUME NEW l \in lookups, AcquireSlot(l) PROVE IInv'
  <2>1. PICK n : n = [l EXCEPT !.pc = "looking"]
    OBVIOUS
  <2>2. n \in Lookup /\ n.kind = l.kind /\ n.ip = l.ip /\ n.gen = l.gen
    BY <1>0, <2>1 DEF Lookup
  <2>3. Step(l, n) /\ UNCHANGED <<md, metadataCh, ended>>
    BY <1>8, <2>1 DEF AcquireSlot
  <2> QED
    BY <2>2, <2>3, GoroutineStep
<1>9. ASSUME NEW l \in lookups, NEW found \in BOOLEAN, LookupReturns(l, found) PROVE IInv'
  <2>1. PICK n : n = [l EXCEPT !.pc = "sending", !.found = found]
    OBVIOUS
  <2>2. n \in Lookup /\ n.kind = l.kind /\ n.ip = l.ip /\ n.gen = l.gen
    BY <1>0, <2>1 DEF Lookup
  <2>3. Step(l, n) /\ UNCHANGED <<md, metadataCh, ended>>
    BY <1>9, <2>1 DEF LookupReturns
  <2> QED
    BY <2>2, <2>3, GoroutineStep
<1>10. ASSUME NEW l \in lookups, Abandon(l) PROVE IInv'
  BY <1>10, AbandonStep
<1>11. ASSUME NEW l \in lookups, SendPatch(l) PROVE IInv'
  BY <1>11, SendPatchStep
<1> QED
  BY <1>1, <1>2, <1>3, <1>4, <1>5, <1>6, <1>7, <1>8, <1>9, <1>10, <1>11 DEF Next

(***************************************************************************)
(* Theorems                                                                *)
(***************************************************************************)
LEMMA Invariance == Spec => []IInv
<1> QED
  BY InitHolds, StepHolds, PTL DEF Spec

\* The fields keep their types; an address is tried at most MaxTries times in
\* a row, whichever path of the loop asks for the lookup
\* (metadataRetriesExhausted comes before every attempt).
THEOREM MetadataTyped == Spec => []TypeOK
<1>1. IInv => TypeOK
  BY DEF IInv
<1> QED
  BY <1>1, Invariance, PTL

LEMMA AtMostOne ==
  ASSUME NEW S, \A a, b \in S : a = b
  PROVE  Cardinality(S) <= 1
<1>1. CASE S = {}
  BY <1>1, FS_EmptySet
<1>2. CASE S # {}
  <2>1. PICK a \in S : TRUE
    BY <1>2
  <2>2. S = {a}
    BY <2>1
  <2> QED
    BY <2>2, FS_Singleton
<1> QED
  BY <1>1, <1>2

LEMMA TrackedHolds == IInv => LookupsTracked
<1> SUFFICES ASSUME IInv PROVE LookupsTracked
  OBVIOUS
<1>1. ASSUME ~ ended, NEW k \in Kinds, NEW ip \in IPs
      PROVE  /\ Cardinality(Current(k, ip)) <= 1
             /\ ip \in md.inFlight[k] <=> Current(k, ip) # {}
  <2>1. Tracked(md, lookups, metadataCh) /\ md.new = {}
    BY <1>1, StartsGood DEF IInv
  <2>2. \A l : l \in Current(k, ip) <=> l \in lookups \cup metadataCh /\ For(md, l, k, ip)
    BY DEF Current, For
  <2>3. \A l1, l2 \in Current(k, ip) : l1 = l2
    BY <2>1, <2>2 DEF Tracked
  <2>4. ip \in md.inFlight[k]
          <=> \E l \in lookups \cup md.new \cup metadataCh : For(md, l, k, ip)
    BY <2>1 DEF Tracked
  <2>5. ip \in md.inFlight[k] <=> Current(k, ip) # {}
    BY <2>1, <2>2, <2>4
  <2> QED
    BY <2>3, <2>5, AtMostOne
<1>2. InFlightTracked
  BY <1>1 DEF InFlightTracked
<1>3. RowsMatchCache
  BY DEF IInv, Shown, RowsMatchCache
<1> QED
  BY <1>2, <1>3 DEF LookupsTracked

\* While the run lasts, an address is in an in-flight map exactly when one
\* lookup of this generation runs for it or has its patch in the channel, so
\* isDone waits for those and no others; and no row lags behind the cache.
THEOREM LookupsAreTracked == Spec => []LookupsTracked
<1> QED
  BY TrackedHolds, Invariance, PTL

LEMMA StaleStep ==
  ASSUME IInv, [Next]_vars
  PROVE  md'.generation = md.generation /\ md'.cache # md.cache =>
           \E r \in metadataCh \ metadataCh' : r.gen = md.generation
<1> SUFFICES ASSUME md'.generation = md.generation, md'.cache # md.cache
             PROVE  \E r \in metadataCh \ metadataCh' : r.gen = md.generation
  OBVIOUS
<1>1. CASE UNCHANGED vars
  BY <1>1 DEF vars
<1>2. ASSUME NEW ip \in IPs, Answer(ip) PROVE FALSE
  <2>1. Good(md, lookups, metadataCh) /\ Shown(md)
    BY <1>2, StartsGood DEF IInv, Answer
  <2> DEFINE t == ProcessAnswer(md, ip)
  <2>2. Good(t, lookups, metadataCh) /\ t.cache = md.cache
    BY <2>1, AnswerProcessed
  <2>3. Commit(t)
    BY <1>2 DEF Answer
  <2> HIDE DEF t
  <2> QED
    BY <2>2, <2>3 DEF Commit, Good, Meta
<1>3. ASSUME NEW r \in metadataCh, OnMetadata(r)
      PROVE  \E q \in metadataCh \ metadataCh' : q.gen = md.generation
  <2>1. r.gen = md.generation
    BY <1>3, OnMetadataStep
  <2>2. r \in metadataCh \ metadataCh'
    BY <1>3 DEF OnMetadata
  <2> QED
    BY <2>1, <2>2
<1>4. ASSUME NEW ip \in IPs, ClearHop(ip) PROVE FALSE
  BY <1>4, ClearHopStep
<1>5. ASSUME NEW k \in Kinds, NEW ip \in IPs, CooldownOver(k, ip) PROVE FALSE
  BY <1>5, CooldownOverStep
<1>6. CASE Reset
  BY <1>6, ResetStep
<1>7. CASE End
  BY <1>7 DEF End
<1>8. ASSUME NEW l \in lookups, AcquireSlot(l) PROVE FALSE
  BY <1>8 DEF AcquireSlot
<1>9. ASSUME NEW l \in lookups, NEW found \in BOOLEAN, LookupReturns(l, found) PROVE FALSE
  BY <1>9 DEF LookupReturns
<1>10. ASSUME NEW l \in lookups, Abandon(l) PROVE FALSE
  BY <1>10 DEF Abandon
<1>11. ASSUME NEW l \in lookups, SendPatch(l) PROVE FALSE
  BY <1>11 DEF SendPatch
<1> QED
  BY <1>1, <1>2, <1>3, <1>4, <1>5, <1>6, <1>7, <1>8, <1>9, <1>10, <1>11 DEF Next

\* Between resets the cache changes only by a patch of the present generation:
\* what a lookup finds out after the reset that outlived it is dropped.
THEOREM StaleIgnored == Spec => StalePatchIgnored
<1>1. IInv /\ [Next]_vars =>
        [md'.generation = md.generation /\ md'.cache # md.cache =>
           \E r \in metadataCh \ metadataCh' : r.gen = md.generation]_vars
  BY StaleStep
<1> QED
  BY <1>1, Invariance, PTL DEF Spec, StalePatchIgnored

(***************************************************************************)
(*                          The runs by rounds                             *)
(***************************************************************************)
\* A probe that was answered, and the table of what a round found.
RdRow == [peer : {"dst", "router", "silent"}, round : Nat, ttl : Nat]

Partial(S, T) == UNION {[D -> T] : D \in SUBSET S}

Places == {"start", "top", "paused", "sweep", "wait", "build", "built", "error", "backoff",
           "interval", "tracing", "over"}

RdTypes ==
  /\ ui \in [paused : BOOLEAN, reset : BOOLEAN, resets : Nat, cancelled : BOOLEAN]
  /\ loop \in [pc : Places, iter : Nat, errs : Nat, backoff : Nat, res : Partial(Nat, RdRow)]
  /\ eng \in [round : Nat, rf : Nat, known : Nat, gen : Nat, seq : Nat, open : BOOLEAN,
              ttl : Nat, max : Nat, lim : Nat, stale : BOOLEAN]
  /\ maps \in [sentAt  : Partial(Nat, [ttl : Nat, round : Nat]),
               replied : Partial(Nat, RdRow),
               cur     : Partial(Nat, Nat)]
  /\ cand \subseteq [gen : Nat, round : Nat, ttl : Nat]
  /\ raw \in [flying : BOOLEAN, failed : BOOLEAN, hops : Nat, seen : Nat, out : Nat]
  /\ net \subseteq [seq : Nat, ttl : Nat, round : Nat]
  /\ agg \in Seq([round : Nat, rows : Partial(Nat, RdRow)])
  /\ shown \in Nat
  /\ reused \in BOOLEAN

\* Where the loop may be, by the kind of run.
PlaceKept ==
  /\ loop.pc \in {"sweep", "wait", "build"} => mode = "icmp"
  /\ mode = "raw" => loop.pc \in {"start", "top", "tracing", "interval", "over"}
  /\ loop.pc = "tracing" => mode = "raw"
  /\ raw.flying => loop.pc = "tracing"
  /\ mode # "icmp" => maps.cur = << >>
  /\ raw.out = raw.seen /\ raw.seen <= raw.hops

\* The iteration shown is the number of rounds in the table.
TableKept ==
  /\ IF mode = "raw" THEN Len(agg) = 0 /\ shown = 0 ELSE loop.iter = Len(agg)
  /\ loop.pc = "start" => Len(agg) = 0 /\ shown = 0

\* A number on the wire names one probe ...
NumbersKept ==
  /\ \A p \in net : p.seq <= eng.seq
  /\ \A p, q \in net : p.seq = q.seq => p = q
  /\ \A s \in DOMAIN maps.replied : s <= eng.seq
  /\ \A t \in DOMAIN maps.cur : maps.cur[t] <= eng.seq

\* ... that of the TTL and the round it was sent for.
RoundKept ==
  \A t \in DOMAIN maps.cur :
    /\ \A p \in net : p.seq = maps.cur[t] => p.ttl = t /\ p.round = eng.round
    /\ maps.cur[t] \in DOMAIN maps.replied =>
         maps.replied[maps.cur[t]].ttl = t /\ maps.replied[maps.cur[t]].round = eng.round

BuiltKept ==
  loop.pc = "built" => \A t \in DOMAIN loop.res :
                         loop.res[t].ttl = t /\ loop.res[t].round = eng.round

Numbered == ~ reused => NumbersKept /\ RoundKept /\ BuiltKept /\ RowsOfTheirRound

RdInv == RdTypes /\ PlaceKept /\ TableKept /\ Numbered

(***************************************************************************)
(* Functions on a part of a set                                            *)
(***************************************************************************)
LEMMA PartialEmpty == ASSUME NEW S, NEW T PROVE << >> \in Partial(S, T)
<1>1. << >> \in [{} -> T]
  OBVIOUS
<1> QED
  BY <1>1 DEF Partial

LEMMA PartialIs ==
  ASSUME NEW S, NEW T, NEW f \in Partial(S, T)
  PROVE  DOMAIN f \subseteq S /\ f \in [DOMAIN f -> T]
<1> QED
  BY DEF Partial

LEMMA PartialMade ==
  ASSUME NEW S, NEW T, NEW D, D \subseteq S, NEW f \in [D -> T]
  PROVE  f \in Partial(S, T)
<1> QED
  BY DEF Partial

LEMMA PartialPut ==
  ASSUME NEW S, NEW T, NEW f \in Partial(S, T), NEW x \in S, NEW y \in T
  PROVE  /\ Put(f, x, y) \in Partial(S, T)
         /\ DOMAIN Put(f, x, y) = DOMAIN f \cup {x}
         /\ \A z \in DOMAIN f \cup {x} :
              Put(f, x, y)[z] = IF z = x THEN y ELSE f[z]
<1> DEFINE g == [z \in DOMAIN f \cup {x} |-> IF z = x THEN y ELSE f[z]]
<1>1. Put(f, x, y) = g
  BY DEF Put
<1>2. DOMAIN f \subseteq S /\ f \in [DOMAIN f -> T]
  BY PartialIs
<1>3. g \in [DOMAIN f \cup {x} -> T] /\ DOMAIN f \cup {x} \subseteq S
  BY <1>2
<1> HIDE DEF g
<1>4. g \in Partial(S, T)
  BY <1>3, PartialMade
<1> QED
  BY <1>1, <1>4 DEF g

LEMMA PartialDrop ==
  ASSUME NEW S, NEW T, NEW f \in Partial(S, T), NEW x
  PROVE  [z \in DOMAIN f \ {x} |-> f[z]] \in Partial(S, T)
<1>1. DOMAIN f \subseteq S /\ f \in [DOMAIN f -> T]
  BY PartialIs
<1>2. [z \in DOMAIN f \ {x} |-> f[z]] \in [DOMAIN f \ {x} -> T]
  BY <1>1
<1> QED
  BY <1>1, <1>2, PartialMade

(***************************************************************************)
(* The initial states                                                      *)
(***************************************************************************)
LEMMA RdInitHolds == RdInit => RdInv
<1> SUFFICES ASSUME RdInit PROVE RdInv
  OBVIOUS
<1>1. << >> \in Partial(Nat, RdRow) /\ << >> \in Partial(Nat, Nat)
      /\ << >> \in Partial(Nat, [ttl : Nat, round : Nat])
  BY PartialEmpty
<1>2. PICK lim \in MaxSeqs : eng = [round |-> 0, rf |-> 0, known |-> 0, gen |-> 0, seq |-> 0,
                                    open |-> FALSE, ttl |-> 0, max |-> 0, lim |-> lim,
                                    stale |-> FALSE]
  BY DEF RdInit
<1>3. lim \in Nat
  BY RoundsAssumption
<1>4. RdTypes
  <2>1. eng \in [round : Nat, rf : Nat, known : Nat, gen : Nat, seq : Nat, open : BOOLEAN,
                 ttl : Nat, max : Nat, lim : Nat, stale : BOOLEAN]
    BY <1>2, <1>3
  <2>2. agg \in Seq([round : Nat, rows : Partial(Nat, RdRow)])
    BY DEF RdInit
  <2>3. loop \in [pc : Places, iter : Nat, errs : Nat, backoff : Nat, res : Partial(Nat, RdRow)]
    BY <1>1 DEF RdInit, Places
  <2>4. maps \in [sentAt  : Partial(Nat, [ttl : Nat, round : Nat]),
                  replied : Partial(Nat, RdRow),
                  cur     : Partial(Nat, Nat)]
    BY <1>1 DEF RdInit, NoMaps
  <2> QED
    BY <2>1, <2>2, <2>3, <2>4 DEF RdInit, RdTypes, NoRaw
<1>5. PlaceKept
  BY DEF RdInit, PlaceKept, NoMaps, NoRaw
<1>6. TableKept
  BY DEF RdInit, TableKept
<1>7. Numbered
  BY DEF RdInit, Numbered, NumbersKept, RoundKept, BuiltKept, RowsOfTheirRound, NoMaps
<1> QED
  BY <1>4, <1>5, <1>6, <1>7 DEF RdInv

(***************************************************************************)
(* The steps of the loop                                                   *)
(***************************************************************************)
\* Most steps touch neither the numbers nor what the rounds found.
LEMMA NumberedStays ==
  ASSUME Numbered, UNCHANGED <<agg, reused>>, net' \subseteq net,
         maps'.replied = maps.replied, maps'.cur = maps.cur,
         eng'.seq = eng.seq, eng'.round = eng.round,
         loop'.pc = "built" => loop.pc = "built" /\ loop'.res = loop.res
  PROVE  Numbered'
<1> SUFFICES ASSUME ~ reused'
             PROVE  (NumbersKept /\ RoundKept /\ BuiltKept /\ RowsOfTheirRound)'
  BY DEF Numbered
<1>0. NumbersKept /\ RoundKept /\ BuiltKept /\ RowsOfTheirRound
  BY DEF Numbered
<1>1. NumbersKept'
  BY <1>0 DEF NumbersKept
<1>2. RoundKept'
  BY <1>0 DEF RoundKept
<1>3. BuiltKept'
  BY <1>0 DEF BuiltKept
<1>4. RowsOfTheirRound'
  BY <1>0 DEF RowsOfTheirRound
<1> QED
  BY <1>1, <1>2, <1>3, <1>4

\* A step to another place of the loop, and no more.
LEMMA GotoStep ==
  ASSUME RdInv, NEW pc \in Places, Goto(pc), pc \notin {"built", "start", "tracing"},
         pc \in {"sweep", "wait", "build"} => mode = "icmp",
         mode = "raw" => pc \in {"top", "interval", "over"},
         ~ raw.flying,
         UNCHANGED <<mode, limit, ui, eng, maps, cand, raw, net, agg, shown, reused>>
  PROVE  RdInv'
<1>0. RdTypes /\ PlaceKept /\ TableKept /\ Numbered
  BY DEF RdInv
<1>1. /\ loop' \in [pc : Places, iter : Nat, errs : Nat, backoff : Nat, res : Partial(Nat, RdRow)]
      /\ loop'.pc = pc /\ loop'.iter = loop.iter
  BY <1>0 DEF RdTypes, Goto
<1>2. RdTypes'
  BY <1>0, <1>1 DEF RdTypes
<1>3. PlaceKept'
  BY <1>0, <1>1 DEF PlaceKept
<1>4. TableKept'
  BY <1>0, <1>1 DEF TableKept
<1>5. Numbered'
  BY <1>0, <1>1, NumberedStays
<1> QED
  BY <1>2, <1>3, <1>4, <1>5 DEF RdInv

\* The run ends: what was counted stays.
LEMMA EndRunStep ==
  ASSUME RdInv, NEW l, EndRun(l), NEW e \in Nat,
         l = loop \/ l = [loop EXCEPT !.errs = e],
         ~ raw.flying, shown' \in Nat, mode = "raw" => shown' = 0,
         UNCHANGED <<mode, limit, ui, maps, notify, cand, raw, net, agg, reused>>
  PROVE  RdInv'
<1>0. RdTypes /\ PlaceKept /\ TableKept /\ Numbered
  BY DEF RdInv
<1>1. << >> \in Partial(Nat, RdRow)
  BY PartialEmpty
<1>2. /\ loop' \in [pc : Places, iter : Nat, errs : Nat, backoff : Nat, res : Partial(Nat, RdRow)]
      /\ loop'.pc = "over" /\ loop'.iter = loop.iter
  BY <1>0, <1>1 DEF RdTypes, EndRun, Places
<1>3. /\ eng' \in [round : Nat, rf : Nat, known : Nat, gen : Nat, seq : Nat, open : BOOLEAN,
                   ttl : Nat, max : Nat, lim : Nat, stale : BOOLEAN]
      /\ eng'.seq = eng.seq /\ eng'.round = eng.round
  BY <1>0 DEF RdTypes, EndRun
<1>4. RdTypes'
  BY <1>0, <1>2, <1>3 DEF RdTypes
<1>5. PlaceKept'
  BY <1>0, <1>2 DEF PlaceKept
<1>6. TableKept'
  BY <1>0, <1>2 DEF TableKept
<1>7. Numbered'
  BY <1>0, <1>2, <1>3, NumberedStays
<1> QED
  BY <1>4, <1>5, <1>6, <1>7 DEF RdInv

LEMMA NotFlying ==
  ASSUME RdInv, loop.pc # "tracing"
  PROVE  ~ raw.flying
<1> QED
  BY DEF RdInv, PlaceKept

LEMMA EndCancelledStep ==
  ASSUME RdInv, EndCancelled, mode # "raw", loop.pc # "tracing"
  PROVE  RdInv'
<1>1. shown' \in Nat /\ ~ raw.flying
  BY NotFlying DEF EndCancelled, emitSnapshot, RdInv, RdTypes
<1>2. EndRun(loop) /\ UNCHANGED <<mode, limit, ui, maps, notify, cand, raw, net, agg, reused>>
  BY DEF EndCancelled
<1> QED
  BY <1>1, <1>2, EndRunStep

LEMMA StartStep ==
  ASSUME RdInv, Start
  PROVE  RdInv'
<1>0. RdTypes /\ PlaceKept /\ TableKept /\ Numbered /\ ~ raw.flying
  BY NotFlying DEF RdInv, Start
<1>1. CASE EndRun(loop)
  BY <1>0, <1>1, EndRunStep DEF Start, RdTypes, TableKept
<1>2. CASE Goto("top") /\ eng' = [eng EXCEPT !.open = (mode = "icmp")]
  <2>1. /\ loop' \in [pc : Places, iter : Nat, errs : Nat, backoff : Nat,
                      res : Partial(Nat, RdRow)]
        /\ loop'.pc = "top" /\ loop'.iter = loop.iter
    BY <1>0, <1>2 DEF RdTypes, Goto, Places
  <2>2. PICK open \in BOOLEAN : eng' = [eng EXCEPT !.open = open]
    BY <1>2
  <2>3. /\ eng' \in [round : Nat, rf : Nat, known : Nat, gen : Nat, seq : Nat, open : BOOLEAN,
                     ttl : Nat, max : Nat, lim : Nat, stale : BOOLEAN]
        /\ eng'.seq = eng.seq /\ eng'.round = eng.round
    BY <1>0, <2>2 DEF RdTypes
  <2>4. UNCHANGED <<mode, limit, ui, maps, notify, cand, raw, net, agg, shown, reused>>
    BY DEF Start
  <2>5. RdTypes' /\ PlaceKept' /\ TableKept'
    BY <1>0, <2>1, <2>3, <2>4 DEF RdTypes, PlaceKept, TableKept
  <2>6. Numbered'
    BY <1>0, <2>1, <2>3, <2>4, NumberedStays
  <2> QED
    BY <2>5, <2>6 DEF RdInv
<1>3. CASE Goto("top") /\ UNCHANGED eng
  <2>1. "top" \in Places /\ UNCHANGED <<mode, limit, ui, maps, notify, cand, raw, net, agg,
                                        shown, reused>>
    BY DEF Start, Places
  <2> QED
    BY <1>0, <1>3, <2>1, GotoStep
<1> QED
  BY <1>1, <1>2, <1>3 DEF Start

LEMMA LoopTopStep ==
  ASSUME RdInv, LoopTop
  PROVE  RdInv'
<1>0. RdTypes /\ PlaceKept /\ TableKept /\ Numbered /\ ~ raw.flying
  BY NotFlying DEF RdInv, LoopTop
<1>1. "paused" \in Places
  BY DEF Places
<1>2. CASE ~ ui.reset
  BY <1>0, <1>1, <1>2, GotoStep DEF LoopTop
<1>3. CASE ui.reset
  <2>0. /\ agg' = << >> /\ ui' = [ui EXCEPT !.reset = FALSE]
        /\ loop' = [loop EXCEPT !.pc = "paused", !.iter = 0, !.errs = 0, !.backoff = 1]
        /\ eng' = [eng EXCEPT !.known = 0]
        /\ UNCHANGED <<mode, limit, maps, notify, cand, raw, net, shown, reused>>
        /\ mode # "raw"
    BY <1>3 DEF LoopTop
  <2>1. /\ loop' \in [pc : Places, iter : Nat, errs : Nat, backoff : Nat,
                      res : Partial(Nat, RdRow)]
        /\ loop'.pc = "paused" /\ loop'.iter = 0
    BY <1>0, <1>1, <2>0 DEF RdTypes
  <2>2. /\ eng' \in [round : Nat, rf : Nat, known : Nat, gen : Nat, seq : Nat, open : BOOLEAN,
                     ttl : Nat, max : Nat, lim : Nat, stale : BOOLEAN]
        /\ eng'.seq = eng.seq /\ eng'.round = eng.round
    BY <1>0, <2>0 DEF RdTypes
  <2>3. agg' \in Seq([round : Nat, rows : Partial(Nat, RdRow)]) /\ Len(agg') = 0
    BY <2>0
  <2>4. RdTypes'
    BY <1>0, <2>0, <2>1, <2>2, <2>3 DEF RdTypes
  <2>5. PlaceKept' /\ TableKept'
    BY <1>0, <2>0, <2>1, <2>3 DEF PlaceKept, TableKept
  <2>6. Numbered'
    <3>1. ~ reused => NumbersKept' /\ RoundKept' /\ BuiltKept'
      BY <1>0, <2>0, <2>1, <2>2 DEF Numbered, NumbersKept, RoundKept, BuiltKept
    <3>2. RowsOfTheirRound'
      BY <2>0 DEF RowsOfTheirRound
    <3> QED
      BY <2>0, <3>1, <3>2 DEF Numbered
  <2> QED
    BY <2>4, <2>5, <2>6 DEF RdInv
<1> QED
  BY <1>2, <1>3

LEMMA LoopCancelledStep ==
  ASSUME RdInv, LoopCancelled
  PROVE  RdInv'
<1> QED
  BY EndCancelledStep DEF LoopCancelled

\* A round that starts with new maps: no reply that is still out is mistaken for its own.
LEMMA FreshMaps ==
  ASSUME Numbered, maps' = NoMaps, net' \subseteq net, ~ reused' => ~ reused,
         ~ reused' => \A p \in net' : p.seq <= eng'.seq,
         UNCHANGED agg, loop'.pc # "built"
  PROVE  Numbered'
<1> SUFFICES ASSUME ~ reused'
             PROVE  (NumbersKept /\ RoundKept /\ BuiltKept /\ RowsOfTheirRound)'
  BY DEF Numbered
<1>0. NumbersKept /\ RowsOfTheirRound
  BY DEF Numbered
<1>1. NumbersKept' /\ RoundKept'
  BY <1>0 DEF NumbersKept, RoundKept, NoMaps
<1>2. RowsOfTheirRound' /\ BuiltKept'
  BY <1>0 DEF RowsOfTheirRound, BuiltKept
<1> QED
  BY <1>1, <1>2

Engines == [round : Nat, rf : Nat, known : Nat, gen : Nat, seq : Nat, open : BOOLEAN,
            ttl : Nat, max : Nat, lim : Nat, stale : BOOLEAN]

Loops == [pc : Places, iter : Nat, errs : Nat, backoff : Nat, res : Partial(Nat, RdRow)]

MapTypes == [sentAt  : Partial(Nat, [ttl : Nat, round : Nat]),
             replied : Partial(Nat, RdRow),
             cur     : Partial(Nat, Nat)]

LEMMA NoMapsTyped == NoMaps \in MapTypes
<1> QED
  BY PartialEmpty DEF NoMaps, MapTypes

LEMMA RoundPrepared ==
  ASSUME NEW e \in Engines, prepareProbeRound(e)
  PROVE  /\ eng' \in Engines /\ eng'.seq = e.seq
         /\ maps' = NoMaps
<1>0. PICK r \in Nat : r = e.round + 1
  BY DEF Engines
<1>1. PICK m \in Nat : eng' = [e EXCEPT !.round = r, !.rf = 0, !.stale = FALSE, !.ttl = 1, !.max = m]
  <2> DEFINE m == IF e.known > 0 /\ e.known < MaxHops THEN e.known ELSE MaxHops
  <2>1. m \in Nat
    BY RoundsAssumption DEF Engines
  <2>2. eng' = [e EXCEPT !.round = r, !.rf = 0, !.stale = FALSE, !.ttl = 1, !.max = m]
    BY <1>0 DEF prepareProbeRound
  <2> HIDE DEF m
  <2> QED
    BY <2>1, <2>2
<1>2. eng' \in Engines /\ eng'.seq = e.seq
  BY <1>1 DEF Engines
<1> QED
  BY <1>2 DEF prepareProbeRound

LEMMA BeginRoundStep ==
  ASSUME RdInv, BeginRound
  PROVE  RdInv'
<1>0. /\ RdTypes /\ PlaceKept /\ TableKept /\ Numbered /\ ~ raw.flying
      /\ eng \in Engines /\ loop \in Loops
  BY NotFlying DEF RdInv, BeginRound, RdTypes, Engines, Loops
<1>1. mode = "icmp" /\ UNCHANGED <<mode, limit, ui, cand, raw, agg, shown>>
  BY DEF BeginRound
<1>2. ASSUME NEW pc \in {"sweep", "error"}, Goto(pc), eng' \in Engines, maps' = NoMaps,
             net' \subseteq net, ~ reused' => ~ reused, reused' \in BOOLEAN,
             ~ reused' => \A p \in net' : p.seq <= eng'.seq
      PROVE  RdInv'
  <2>1. loop' \in Loops /\ loop'.pc = pc /\ loop'.iter = loop.iter
    BY <1>0, <1>2 DEF Goto, Loops, Places
  <2>2. RdTypes'
    BY <1>0, <1>1, <1>2, <2>1, NoMapsTyped DEF RdTypes, Engines, Loops, MapTypes
  <2>3. PlaceKept' /\ TableKept'
    BY <1>0, <1>1, <2>1 DEF PlaceKept, TableKept
  <2>4. Numbered'
    BY <1>0, <1>1, <1>2, <2>1, FreshMaps
  <2> QED
    BY <2>2, <2>3, <2>4 DEF RdInv
<1>3. CASE ~ Wraps /\ prepareProbeRound(eng) /\ Goto("sweep") /\ UNCHANGED <<net, reused>>
  <2>1. eng' \in Engines /\ eng'.seq = eng.seq /\ maps' = NoMaps
    BY <1>0, <1>3, RoundPrepared
  <2>2. ~ reused => \A p \in net : p.seq <= eng.seq
    BY <1>0 DEF Numbered, NumbersKept
  <2>3. reused \in BOOLEAN
    BY <1>0 DEF RdTypes
  <2> QED
    BY <1>2, <1>3, <2>1, <2>2, <2>3
<1>4. CASE /\ prepareProbeRound([eng EXCEPT !.gen = @ + 1, !.seq = 0])
           /\ \E same \in BOOLEAN :
                /\ net' = IF same THEN net ELSE {}
                /\ reused' = (reused \/ (same /\ net # {}))
           /\ Goto("sweep")
  <2>0. PICK g \in Nat : g = eng.gen + 1
    BY <1>0 DEF Engines
  <2>1. [eng EXCEPT !.gen = @ + 1, !.seq = 0] \in Engines
    BY <1>0, <2>0 DEF Engines
  <2>2. eng' \in Engines /\ maps' = NoMaps
    BY <1>4, <2>1, RoundPrepared
  <2>3. PICK same \in BOOLEAN : /\ net' = IF same THEN net ELSE {}
                                /\ reused' = (reused \/ (same /\ net # {}))
    BY <1>4
  <2>4. reused' \in BOOLEAN /\ net' \subseteq net
    BY <2>3
  <2>5. ~ reused' => ~ reused /\ net' = {}
    BY <2>3
  <2> QED
    BY <1>2, <1>4, <2>2, <2>4, <2>5
<1>5. CASE /\ Goto("error")
           /\ eng' = [eng EXCEPT !.round = @ + 1, !.rf = 0, !.stale = FALSE, !.seq = 0, !.open = FALSE]
           /\ maps' = NoMaps /\ net' = {} /\ UNCHANGED reused
  <2>0. PICK r \in Nat : r = eng.round + 1
    BY <1>0 DEF Engines
  <2>1. eng' \in Engines
    BY <1>0, <1>5, <2>0 DEF Engines
  <2>2. reused' \in BOOLEAN
    BY <1>0, <1>5 DEF RdTypes
  <2> QED
    BY <1>2, <1>5, <2>1, <2>2
<1> QED
  BY <1>3, <1>4, <1>5 DEF BeginRound

LEMMA emitPreviewStep ==
  ASSUME RdInv, emitPreview
  PROVE  RdInv'
<1>0. RdTypes /\ PlaceKept /\ TableKept /\ Numbered
  BY DEF RdInv
<1>1. /\ UNCHANGED <<mode, limit, ui, loop, eng, maps, notify, net, reused, cand, raw, agg>>
      /\ shown' \in Nat /\ mode = "icmp" /\ loop.pc # "start"
  <2>1. /\ UNCHANGED <<mode, limit, ui, loop, eng, maps, notify, net, reused, cand, raw, agg>>
        /\ shown' = loop.iter + 1 /\ mode = "icmp" /\ loop.pc # "start"
    BY DEF emitPreview, engVars
  <2>2. loop.iter \in Nat
    BY <1>0 DEF RdTypes
  <2> QED
    BY <2>1, <2>2
<1>2. RdTypes' /\ PlaceKept' /\ TableKept'
  BY <1>0, <1>1 DEF RdTypes, PlaceKept, TableKept
<1>3. Numbered'
  BY <1>0, <1>1, NumberedStays
<1> QED
  BY <1>2, <1>3 DEF RdInv

\* A new number is above every number in use, so the maps and the probes that are out
\* still agree about the others.
LEMMA SendProbeStep ==
  ASSUME RdInv, SendProbe
  PROVE  RdInv'
<1>0. /\ RdTypes /\ PlaceKept /\ TableKept /\ Numbered /\ ~ raw.flying
      /\ eng \in Engines /\ loop \in Loops /\ maps \in MapTypes
  BY NotFlying DEF RdInv, SendProbe, RdTypes, Engines, Loops, MapTypes
<1>1. mode = "icmp" /\ UNCHANGED <<mode, limit, ui, notify, cand, raw, agg, shown, reused>>
  BY <1>0 DEF SendProbe, PlaceKept
<1>2. CASE ~ eng.open
  BY <1>0, <1>1, <1>2, EndRunStep DEF SendProbe, RdTypes
<1>3. CASE eng.open
  <2> DEFINE seq == eng.seq + 1
  <2>1. /\ eng' = [eng EXCEPT !.seq = seq, !.ttl = @ + 1]
        /\ UNCHANGED loop
        /\ \/ /\ maps' = [maps EXCEPT
                            !.sentAt = Put(@, seq, [ttl |-> eng.ttl, round |-> eng.round]),
                            !.cur = Put(@, eng.ttl, seq)]
              /\ net' = net \cup {[seq |-> seq, ttl |-> eng.ttl, round |-> eng.round]}
           \/ UNCHANGED <<maps, net>>
    BY <1>3 DEF SendProbe
  <2>2. /\ eng' \in Engines /\ eng'.seq = seq /\ eng'.round = eng.round /\ seq \in Nat
        /\ eng.seq < seq
    <3>1. PICK n \in Nat : n = seq /\ eng.seq < n
      BY <1>0 DEF Engines
    <3>2. PICK t \in Nat : t = eng.ttl + 1
      BY <1>0 DEF Engines
    <3>3. eng' = [eng EXCEPT !.seq = n, !.ttl = t]
      BY <2>1, <3>1, <3>2
    <3>4. eng' \in Engines /\ eng'.seq = n /\ eng'.round = eng.round
      BY <1>0, <3>3 DEF Engines
    <3> QED
      BY <3>1, <3>4
  <2> HIDE DEF seq
  <2>4. CASE UNCHANGED <<maps, net>>
    <3>0. PlaceKept' /\ TableKept'
      BY <1>0, <1>1, <2>1, <2>4 DEF PlaceKept, TableKept
    <3>1. RdTypes'
      BY <1>0, <1>1, <2>1, <2>2, <2>4 DEF RdTypes, Engines
    <3>2. ~ reused => /\ \A p \in net : p.seq \in Nat /\ p.seq <= eng.seq
                      /\ \A x \in DOMAIN maps.replied : x \in Nat /\ x <= eng.seq
                      /\ \A t \in DOMAIN maps.cur : maps.cur[t] \in Nat /\ maps.cur[t] <= eng.seq
      <4>1. maps.replied \in Partial(Nat, RdRow) /\ maps.cur \in Partial(Nat, Nat)
        BY <1>0 DEF MapTypes
      <4>2. DOMAIN maps.replied \subseteq Nat /\ \A t \in DOMAIN maps.cur : maps.cur[t] \in Nat
        BY <4>1, PartialIs
      <4> QED
        BY <1>0, <4>2 DEF Numbered, NumbersKept, RdTypes
    <3>3. Numbered'
      <4> SUFFICES ASSUME ~ reused'
                   PROVE  (NumbersKept /\ RoundKept /\ BuiltKept /\ RowsOfTheirRound)'
        BY DEF Numbered
      <4>1. NumbersKept /\ RoundKept /\ BuiltKept /\ RowsOfTheirRound
        BY <1>0, <1>1 DEF Numbered
      <4>2. eng.seq \in Nat
        BY <1>0 DEF Engines
      <4>3. NumbersKept'
        BY <1>1, <2>2, <2>4, <3>2, <4>1, <4>2 DEF NumbersKept
      <4>4. RoundKept'
        BY <2>2, <2>4, <4>1 DEF RoundKept
      <4>5. BuiltKept' /\ RowsOfTheirRound'
        BY <1>1, <2>1, <2>2, <4>1 DEF BuiltKept, RowsOfTheirRound
      <4> QED
        BY <4>3, <4>4, <4>5
    <3> QED
      BY <3>0, <3>1, <3>3 DEF RdInv
  <2>5. CASE /\ maps' = [maps EXCEPT
                           !.sentAt = Put(@, seq, [ttl |-> eng.ttl, round |-> eng.round]),
                           !.cur = Put(@, eng.ttl, seq)]
             /\ net' = net \cup {[seq |-> seq, ttl |-> eng.ttl, round |-> eng.round]}
    <3>1. PICK n : n = [seq |-> seq, ttl |-> eng.ttl, round |-> eng.round]
      OBVIOUS
    <3>2. /\ n \in [seq : Nat, ttl : Nat, round : Nat]
          /\ n.seq = seq /\ n.ttl = eng.ttl /\ n.round = eng.round
          /\ net' = net \cup {n}
      BY <1>0, <2>2, <2>5, <3>1 DEF Engines
    <3>3. /\ maps.replied \in Partial(Nat, RdRow) /\ maps.cur \in Partial(Nat, Nat)
          /\ maps.sentAt \in Partial(Nat, [ttl : Nat, round : Nat])
          /\ eng.ttl \in Nat /\ eng.round \in Nat /\ eng.seq \in Nat
      BY <1>0 DEF MapTypes, Engines
    <3>4. PICK meta \in [ttl : Nat, round : Nat] :
            meta = [ttl |-> eng.ttl, round |-> eng.round]
      BY <3>3
    <3> DEFINE sentAt == Put(maps.sentAt, seq, meta)
               cur == Put(maps.cur, eng.ttl, seq)
    <3>5. sentAt \in Partial(Nat, [ttl : Nat, round : Nat])
      BY <2>2, <3>3, PartialPut
    <3>6. /\ cur \in Partial(Nat, Nat)
          /\ DOMAIN cur = DOMAIN maps.cur \cup {eng.ttl}
          /\ \A t \in DOMAIN maps.cur \cup {eng.ttl} :
               cur[t] = IF t = eng.ttl THEN seq ELSE maps.cur[t]
      <4>1. cur \in Partial(Nat, Nat)
        BY <2>2, <3>3, PartialPut
      <4>2. DOMAIN cur = DOMAIN maps.cur \cup {eng.ttl}
        BY DEF Put
      <4>3. ASSUME NEW t \in DOMAIN maps.cur \cup {eng.ttl}
            PROVE  cur[t] = IF t = eng.ttl THEN seq ELSE maps.cur[t]
        BY DEF Put
      <4> QED
        BY <4>1, <4>2, <4>3
    <3>7. maps' = [maps EXCEPT !.sentAt = sentAt, !.cur = cur]
      BY <2>5, <3>4
    <3> HIDE DEF sentAt, cur
    <3>8. maps' \in MapTypes /\ maps'.replied = maps.replied /\ maps'.cur = cur
      BY <1>0, <3>5, <3>6, <3>7 DEF MapTypes
    <3>9. RdTypes'
      BY <1>0, <1>1, <2>1, <2>2, <3>2, <3>8 DEF RdTypes, Engines, MapTypes
    <3>10. PlaceKept' /\ TableKept'
      BY <1>0, <1>1, <2>1 DEF PlaceKept, TableKept
    <3>11. Numbered'
      <4> SUFFICES ASSUME ~ reused'
                   PROVE  (NumbersKept /\ RoundKept /\ BuiltKept /\ RowsOfTheirRound)'
        BY DEF Numbered
      <4>1. NumbersKept /\ RoundKept /\ BuiltKept /\ RowsOfTheirRound
        BY <1>0, <1>1 DEF Numbered
      <4>2. /\ DOMAIN maps.replied \subseteq Nat
            /\ \A t \in DOMAIN maps.cur : maps.cur[t] \in Nat
        BY <3>3, PartialIs
      <4>3. net \subseteq [seq : Nat, ttl : Nat, round : Nat]
        BY <1>0 DEF RdTypes
      <4>4. /\ \A p \in net : p.seq \in Nat /\ p.seq < seq
            /\ \A x \in DOMAIN maps.replied : x < seq
            /\ \A t \in DOMAIN maps.cur : maps.cur[t] < seq
        BY <2>2, <3>3, <4>1, <4>2, <4>3 DEF NumbersKept
      <4>5. NumbersKept'
        <5>1. \A p \in net' : p.seq <= eng'.seq
          BY <2>2, <3>2, <4>4
        <5>2. \A p, q \in net' : p.seq = q.seq => p = q
          BY <2>2, <3>2, <4>1, <4>4 DEF NumbersKept
        <5>3. \A x \in DOMAIN maps'.replied : x <= eng'.seq
          BY <2>2, <3>8, <4>2, <4>4
        <5>4. \A t \in DOMAIN maps'.cur : maps'.cur[t] <= eng'.seq
          BY <2>2, <3>6, <3>8, <4>2, <4>4
        <5> QED
          BY <5>1, <5>2, <5>3, <5>4 DEF NumbersKept
      <4>6. RoundKept'
        <5> SUFFICES ASSUME NEW t \in DOMAIN cur
                     PROVE  /\ \A p \in net' : p.seq = cur[t] => p.ttl = t /\ p.round = eng.round
                            /\ cur[t] \in DOMAIN maps.replied =>
                                 /\ maps.replied[cur[t]].ttl = t
                                 /\ maps.replied[cur[t]].round = eng.round
          BY <2>2, <3>8 DEF RoundKept
        <5>1. CASE t = eng.ttl
          <6>1. cur[t] = seq
            BY <3>6, <5>1
          <6> QED
            BY <2>2, <3>2, <4>2, <4>4, <5>1, <6>1
        <5>2. CASE t # eng.ttl
          <6>1. cur[t] = maps.cur[t] /\ t \in DOMAIN maps.cur
            BY <3>6, <5>2
          <6>2. cur[t] # seq
            BY <2>2, <4>2, <4>4, <6>1
          <6> QED
            BY <3>2, <4>1, <6>1, <6>2 DEF RoundKept
        <5> QED
          BY <5>1, <5>2
      <4>7. BuiltKept' /\ RowsOfTheirRound'
        BY <1>1, <2>1, <2>2, <4>1 DEF BuiltKept, RowsOfTheirRound
      <4> QED
        BY <4>5, <4>6, <4>7
    <3> QED
      BY <3>9, <3>10, <3>11 DEF RdInv
  <2> QED
    BY <2>1, <2>4, <2>5
<1> QED
  BY <1>2, <1>3

LEMMA SweepDoneStep ==
  ASSUME RdInv, SweepDone
  PROVE  RdInv'
<1>1. ~ raw.flying /\ mode = "icmp"
  BY NotFlying DEF RdInv, PlaceKept, SweepDone
<1>2. PICK pc \in {"error", "wait"} : Goto(pc)
  BY DEF SweepDone
<1>3. /\ pc \in Places /\ pc \notin {"built", "start", "tracing"}
      /\ UNCHANGED <<mode, limit, ui, eng, maps, cand, raw, net, agg, shown, reused>>
  BY DEF SweepDone, engVars, Places
<1> QED
  BY <1>1, <1>2, <1>3, GotoStep

LEMMA WaitRepliesStep ==
  ASSUME RdInv, WaitReplies
  PROVE  RdInv'
<1>0. RdTypes /\ PlaceKept /\ TableKept /\ Numbered /\ ~ raw.flying /\ mode = "icmp"
  BY NotFlying DEF RdInv, PlaceKept, WaitReplies
<1>1. UNCHANGED <<mode, limit, ui, eng, maps, cand, raw, net, agg, shown, reused>>
  BY DEF WaitReplies
<1>2. CASE Goto("build")
  BY <1>0, <1>1, <1>2, GotoStep DEF Places
<1>3. CASE UNCHANGED loop
  BY <1>0, <1>1, <1>3, NumberedStays DEF RdInv, RdTypes, PlaceKept, TableKept
<1> QED
  BY <1>2, <1>3 DEF WaitReplies

\* A row is the answer to the probe of its TTL and this round, or nothing.
LEMMA RowIsOfRound ==
  ASSUME RdInv, NEW t \in Nat
  PROVE  /\ RowOf(t) \in RdRow
         /\ ~ reused => RowOf(t).ttl = t /\ RowOf(t).round = eng.round
<1>0. RdTypes /\ Numbered
  BY DEF RdInv
<1>1. maps.replied \in Partial(Nat, RdRow) /\ eng.round \in Nat
  BY <1>0 DEF RdTypes
<1>2. CASE t \in DOMAIN maps.cur /\ maps.cur[t] \in DOMAIN maps.replied
  <2>1. RowOf(t) = maps.replied[maps.cur[t]]
    BY <1>2, Zenon DEF RowOf
  <2>2. RowOf(t) \in RdRow
    BY <1>1, <1>2, <2>1, PartialIs
  <2> QED
    BY <1>0, <1>2, <2>1, <2>2 DEF Numbered, RoundKept
<1>3. CASE ~ (t \in DOMAIN maps.cur /\ maps.cur[t] \in DOMAIN maps.replied)
  <2>1. RowOf(t) = [peer |-> Silent, round |-> eng.round, ttl |-> t]
    BY <1>3, Zenon DEF RowOf
  <2> QED
    BY <1>1, <2>1 DEF RdRow, Silent
<1> QED
  BY <1>2, <1>3

LEMMA BuildRoundStep ==
  ASSUME RdInv, BuildRound
  PROVE  RdInv'
<1>0. /\ RdTypes /\ PlaceKept /\ TableKept /\ Numbered /\ ~ raw.flying
      /\ eng \in Engines /\ loop \in Loops /\ mode = "icmp"
  BY NotFlying DEF RdInv, BuildRound, RdTypes, Engines, Loops, PlaceKept
<1>1. UNCHANGED <<mode, limit, ui, maps, notify, cand, raw, net, agg, shown, reused>>
  BY DEF BuildRound
<1>2. PICK last \in Nat :
        loop' = [loop EXCEPT !.pc = "built", !.res = [t \in 1 .. last |-> RowOf(t)]]
  <2> DEFINE n == IF eng.rf > 0 /\ eng.rf < eng.max THEN eng.rf ELSE eng.max
  <2>1. n \in Nat
    BY <1>0 DEF Engines
  <2>2. loop' = [loop EXCEPT !.pc = "built", !.res = [t \in 1 .. n |-> RowOf(t)]]
    BY Zenon DEF BuildRound
  <2> HIDE DEF n
  <2> QED
    BY <2>1, <2>2
<1>3. PICK known \in Nat : eng' = [eng EXCEPT !.known = known]
  <2> DEFINE n == IF eng.rf > 0 /\ (eng.known = 0 \/ eng.rf < eng.known) THEN eng.rf ELSE eng.known
  <2>1. n \in Nat
    BY <1>0 DEF Engines
  <2>2. eng' = [eng EXCEPT !.known = n]
    BY Zenon DEF BuildRound
  <2> HIDE DEF n
  <2> QED
    BY <2>1, <2>2
<1>4. eng' \in Engines /\ eng'.seq = eng.seq /\ eng'.round = eng.round
  BY <1>0, <1>3 DEF Engines
<1> DEFINE res == [t \in 1 .. last |-> RowOf(t)]
<1>5. res \in Partial(Nat, RdRow)
  <2>1. res \in [1 .. last -> RdRow] /\ 1 .. last \subseteq Nat
    BY RowIsOfRound
  <2> HIDE DEF res
  <2> QED
    BY <2>1, PartialMade
<1>6. ~ reused => \A t \in DOMAIN res : res[t].ttl = t /\ res[t].round = eng.round
  <2>1. ASSUME NEW t \in 1 .. last PROVE t \in Nat /\ res[t] = RowOf(t)
    OBVIOUS
  <2>2. DOMAIN res = 1 .. last
    OBVIOUS
  <2> HIDE DEF res
  <2> QED
    BY <2>1, <2>2, RowIsOfRound
<1> HIDE DEF res
<1>7. loop' \in Loops /\ loop'.pc = "built" /\ loop'.iter = loop.iter /\ loop'.res = res
  BY <1>0, <1>2, <1>5 DEF Loops, Places, res
<1>8. RdTypes'
  BY <1>0, <1>1, <1>4, <1>7 DEF RdTypes, Engines, Loops
<1>9. PlaceKept' /\ TableKept'
  BY <1>0, <1>1, <1>7 DEF PlaceKept, TableKept
<1>10. Numbered'
  <2> SUFFICES ASSUME ~ reused'
               PROVE  (NumbersKept /\ RoundKept /\ BuiltKept /\ RowsOfTheirRound)'
    BY DEF Numbered
  <2>1. NumbersKept /\ RoundKept /\ RowsOfTheirRound
    BY <1>0, <1>1 DEF Numbered
  <2>2. NumbersKept' /\ RoundKept'
    BY <1>1, <1>4, <2>1 DEF NumbersKept, RoundKept
  <2>3. BuiltKept' /\ RowsOfTheirRound'
    BY <1>1, <1>4, <1>6, <1>7, <2>1 DEF BuiltKept, RowsOfTheirRound
  <2> QED
    BY <2>2, <2>3
<1> QED
  BY <1>8, <1>9, <1>10 DEF RdInv

LEMMA FallbackRoundStep ==
  ASSUME RdInv, FallbackRound
  PROVE  RdInv'
<1>0. /\ RdTypes /\ PlaceKept /\ TableKept /\ Numbered /\ ~ raw.flying
      /\ eng \in Engines /\ loop \in Loops /\ mode = "fallback"
  BY NotFlying DEF RdInv, FallbackRound, RdTypes, Engines, Loops
<1>1. UNCHANGED <<mode, limit, ui, maps, notify, cand, raw, net, agg, shown, reused>>
  BY DEF FallbackRound
<1>2. PICK round \in Nat : round = eng.round + 1
  BY <1>0 DEF Engines
<1>3. eng' \in Engines /\ eng'.seq = eng.seq /\ eng'.round = round
  BY <1>0, <1>2 DEF Engines, FallbackRound
<1>4. PICK res \in Partial(Nat, RdRow), pc \in {"error", "built"} :
        /\ loop' = [loop EXCEPT !.pc = pc, !.res = res]
        /\ pc = "built" => \A t \in DOMAIN res : res[t].ttl = t /\ res[t].round = round
  <2>1. CASE Goto("error")
    <3>1. loop.res \in Partial(Nat, RdRow) /\ loop' = [loop EXCEPT !.pc = "error", !.res = loop.res]
      BY <1>0, <2>1 DEF Goto, Loops
    <3> QED
      BY <3>1
  <2>2. CASE loop' = [loop EXCEPT !.pc = "built",
                !.res = [t \in 1 .. 1 |-> [peer |-> Dst, round |-> eng.round + 1, ttl |-> 1]]]
    <3>1. PICK res : res = [t \in 1 .. 1 |-> [peer |-> Dst, round |-> round, ttl |-> 1]]
      OBVIOUS
    <3>2. res \in [1 .. 1 -> RdRow]
      BY <3>1 DEF RdRow, Dst
    <3>3. res \in Partial(Nat, RdRow)
      BY <3>2, PartialMade
    <3>4. \A t \in DOMAIN res : res[t].ttl = t /\ res[t].round = round
      BY <3>1
    <3>5. loop' = [loop EXCEPT !.pc = "built", !.res = res]
      BY <1>2, <2>2, <3>1
    <3> QED
      BY <3>3, <3>4, <3>5
  <2> QED
    BY <2>1, <2>2 DEF FallbackRound
<1>5. loop' \in Loops /\ loop'.pc = pc /\ loop'.iter = loop.iter /\ loop'.res = res
  BY <1>0, <1>4 DEF Loops, Places
<1>6. RdTypes'
  BY <1>0, <1>1, <1>3, <1>5 DEF RdTypes, Engines, Loops
<1>7. PlaceKept' /\ TableKept'
  BY <1>0, <1>1, <1>4, <1>5 DEF PlaceKept, TableKept
<1>8. Numbered'
  <2> SUFFICES ASSUME ~ reused'
               PROVE  (NumbersKept /\ RoundKept /\ BuiltKept /\ RowsOfTheirRound)'
    BY DEF Numbered
  <2>1. NumbersKept /\ RowsOfTheirRound /\ maps.cur = << >>
    BY <1>0, <1>1 DEF Numbered, PlaceKept
  <2>2. NumbersKept' /\ RoundKept'
    BY <1>1, <1>3, <2>1 DEF NumbersKept, RoundKept
  <2>3. BuiltKept' /\ RowsOfTheirRound'
    BY <1>1, <1>3, <1>4, <1>5, <2>1 DEF BuiltKept, RowsOfTheirRound
  <2> QED
    BY <2>2, <2>3
<1> QED
  BY <1>6, <1>7, <1>8 DEF RdInv

LEMMA DropResultStep ==
  ASSUME RdInv, DropResult
  PROVE  RdInv'
<1>1. ~ raw.flying /\ mode = "icmp" /\ Goto("error")
      /\ UNCHANGED <<mode, limit, ui, eng, maps, cand, raw, net, agg, shown, reused>>
  BY NotFlying DEF DropResult, engVars
<1> QED
  BY <1>1, GotoStep DEF Places

LEMMA recordSuccessStep ==
  ASSUME RdInv, recordSuccess
  PROVE  RdInv'
<1>0. /\ RdTypes /\ PlaceKept /\ TableKept /\ Numbered /\ ~ raw.flying
      /\ eng \in Engines /\ loop \in Loops /\ mode # "raw"
  BY NotFlying DEF RdInv, recordSuccess, RdTypes, Engines, Loops, PlaceKept
<1>1. UNCHANGED <<mode, limit, ui, maps, notify, cand, raw, net, reused>>
  BY DEF recordSuccess
<1>2. PICK iter \in Nat : iter = loop.iter + 1
  BY <1>0 DEF Loops
<1>3. PICK l : l = [loop EXCEPT !.iter = @ + 1, !.errs = 0, !.backoff = 1]
  OBVIOUS
<1>4. l \in Loops /\ l.iter = iter
  BY <1>0, <1>2, <1>3 DEF Loops
<1>5. /\ agg' = Append(agg, [round |-> eng.round, rows |-> loop.res])
      /\ shown' = iter
      /\ EndRun(l) \/ (loop' = [l EXCEPT !.pc = "interval", !.res = << >>] /\ UNCHANGED eng)
  BY <1>3, <1>4 DEF recordSuccess
<1>6. << >> \in Partial(Nat, RdRow)
  BY PartialEmpty
<1>7. loop' \in Loops /\ loop'.iter = iter /\ loop'.pc \in {"over", "interval"}
  BY <1>4, <1>5, <1>6 DEF EndRun, Loops, Places
<1>8. eng' \in Engines /\ eng'.seq = eng.seq /\ eng'.round = eng.round
  BY <1>0, <1>5 DEF EndRun, Engines
<1> DEFINE e == [round |-> eng.round, rows |-> loop.res]
           Entry == [round : Nat, rows : Partial(Nat, RdRow)]
<1>9. e \in Entry /\ agg \in Seq(Entry)
  BY <1>0 DEF Engines, Loops, RdTypes
<1>10. e.round = eng.round /\ e.rows = loop.res
  OBVIOUS
<1> HIDE DEF e, Entry
<1>11. /\ agg' \in Seq(Entry) /\ Len(agg') = Len(agg) + 1 /\ Len(agg) \in Nat
       /\ \A i \in 1 .. Len(agg) : agg'[i] = agg[i]
       /\ agg'[Len(agg) + 1] = e
       /\ DOMAIN agg' = 1 .. (Len(agg) + 1) /\ DOMAIN agg = 1 .. Len(agg)
  <2>1. agg' = Append(agg, e)
    BY <1>5 DEF e
  <2> QED
    BY <1>9, <2>1
<1>12. RdTypes'
  BY <1>0, <1>1, <1>2, <1>5, <1>7, <1>8, <1>11 DEF RdTypes, Engines, Loops, Entry
<1>13. PlaceKept' /\ TableKept'
  BY <1>0, <1>1, <1>2, <1>7, <1>11 DEF PlaceKept, TableKept
<1>14. Numbered'
  <2> SUFFICES ASSUME ~ reused'
               PROVE  (NumbersKept /\ RoundKept /\ BuiltKept /\ RowsOfTheirRound)'
    BY DEF Numbered
  <2>1. NumbersKept /\ RoundKept /\ BuiltKept /\ RowsOfTheirRound
    BY <1>0, <1>1 DEF Numbered
  <2>2. NumbersKept' /\ RoundKept'
    BY <1>1, <1>8, <2>1 DEF NumbersKept, RoundKept
  <2>3. BuiltKept'
    BY <1>7 DEF BuiltKept
  <2>4. RowsOfTheirRound'
    <3> SUFFICES ASSUME NEW i \in DOMAIN agg', NEW t \in DOMAIN agg'[i].rows
                 PROVE  agg'[i].rows[t].ttl = t /\ agg'[i].rows[t].round = agg'[i].round
      BY DEF RowsOfTheirRound
    <3>1. CASE i \in DOMAIN agg
      BY <1>1, <1>11, <2>1, <3>1 DEF RowsOfTheirRound
    <3>2. CASE i \notin DOMAIN agg
      <4>1. agg'[i] = e
        BY <1>11, <3>2
      <4> QED
        BY <1>10, <2>1, <4>1 DEF BuiltKept, recordSuccess
    <3> QED
      BY <3>1, <3>2
  <2> QED
    BY <2>2, <2>3, <2>4
<1> QED
  BY <1>12, <1>13, <1>14 DEF RdInv

LEMMA handleProbeErrorStep ==
  ASSUME RdInv, handleProbeError
  PROVE  RdInv'
<1>0. /\ RdTypes /\ PlaceKept /\ TableKept /\ Numbered /\ ~ raw.flying
      /\ loop \in Loops /\ mode # "raw" /\ loop.pc = "error"
  BY NotFlying DEF RdInv, handleProbeError, RdTypes, Loops, PlaceKept
<1>1. CASE ui.cancelled
  BY <1>0, <1>1, EndCancelledStep DEF handleProbeError
<1>2. CASE ~ ui.cancelled
  <2>1. PICK errs \in Nat : errs = loop.errs + 1
    BY <1>0 DEF Loops
  <2>2. PICK l : l = [loop EXCEPT !.errs = errs]
    OBVIOUS
  <2>3. /\ EndRun(l) \/ (loop' = [l EXCEPT !.pc = "backoff"] /\ UNCHANGED eng)
        /\ UNCHANGED <<mode, limit, ui, maps, notify, cand, raw, net, agg, shown, reused>>
    BY <1>2, <2>1, <2>2 DEF handleProbeError
  <2>4. CASE EndRun(l)
    BY <1>0, <2>2, <2>3, <2>4, EndRunStep DEF RdTypes
  <2>5. CASE loop' = [l EXCEPT !.pc = "backoff"] /\ UNCHANGED eng
    <3>1. loop' \in Loops /\ loop'.pc = "backoff" /\ loop'.iter = loop.iter
      BY <1>0, <2>2, <2>5 DEF Loops, Places
    <3>2. RdTypes' /\ PlaceKept' /\ TableKept'
      BY <1>0, <2>3, <2>5, <3>1 DEF RdTypes, PlaceKept, TableKept, Loops
    <3>3. Numbered'
      BY <1>0, <2>3, <2>5, <3>1, NumberedStays
    <3> QED
      BY <3>2, <3>3 DEF RdInv
  <2> QED
    BY <2>3, <2>4, <2>5
<1> QED
  BY <1>1, <1>2

LEMMA WaitOverStep ==
  ASSUME RdInv, WaitOver
  PROVE  RdInv'
<1>0. /\ RdTypes /\ PlaceKept /\ TableKept /\ Numbered /\ ~ raw.flying
      /\ loop \in Loops /\ mode # "raw"
  BY NotFlying DEF RdInv, WaitOver, RdTypes, Loops
<1>1. UNCHANGED <<mode, limit, ui, eng, maps, cand, raw, net, agg, shown, reused>>
  BY DEF WaitOver, engVars
<1>2. PICK b \in Nat : loop' = [loop EXCEPT !.pc = "top", !.backoff = b]
  <2> DEFINE n == IF loop.pc = "interval" THEN loop.backoff
                  ELSE IF 2 * loop.backoff > MaxBackoff THEN MaxBackoff ELSE 2 * loop.backoff
  <2>1. n \in Nat
    BY <1>0, RoundsAssumption DEF Loops
  <2>2. loop' = [loop EXCEPT !.pc = "top", !.backoff = n]
    BY Zenon DEF WaitOver
  <2> HIDE DEF n
  <2> QED
    BY <2>1, <2>2
<1>3. loop' \in Loops /\ loop'.pc = "top" /\ loop'.iter = loop.iter
  BY <1>0, <1>2 DEF Loops, Places
<1>4. RdTypes' /\ PlaceKept' /\ TableKept'
  BY <1>0, <1>1, <1>3 DEF RdTypes, PlaceKept, TableKept, Loops
<1>5. Numbered'
  BY <1>0, <1>1, <1>3, NumberedStays
<1> QED
  BY <1>4, <1>5 DEF RdInv

(***************************************************************************)
(* The listener, raw mode and the user                                     *)
(***************************************************************************)
\* The answer that a round takes is to a probe of its own: the number of the probe is
\* that of one TTL of this round only.
LEMMA onICMPStep ==
  ASSUME RdInv, NEW p \in net, onICMP(p)
  PROVE  RdInv'
<1>0. /\ RdTypes /\ PlaceKept /\ TableKept /\ Numbered
      /\ maps \in MapTypes /\ eng \in Engines
      /\ p \in [seq : Nat, ttl : Nat, round : Nat]
  BY DEF RdInv, RdTypes, MapTypes, Engines
<1>1. /\ net' = net \ {p}
      /\ UNCHANGED <<mode, limit, ui, loop, eng, notify, raw, agg, shown, reused>>
  BY DEF onICMP
<1>2. /\ maps.sentAt \in Partial(Nat, [ttl : Nat, round : Nat])
      /\ maps.replied \in Partial(Nat, RdRow) /\ maps.cur \in Partial(Nat, Nat)
  BY <1>0 DEF MapTypes
<1>3. PICK m \in MapTypes : m = Drop(p.seq) /\ m.replied = maps.replied /\ m.cur = maps.cur
  <2> DEFINE sentAt == [q \in DOMAIN maps.sentAt \ {p.seq} |-> maps.sentAt[q]]
  <2>1. sentAt \in Partial(Nat, [ttl : Nat, round : Nat])
    BY <1>2, PartialDrop
  <2>2. Drop(p.seq) = [maps EXCEPT !.sentAt = sentAt]
    BY DEF Drop
  <2> HIDE DEF sentAt
  <2> QED
    BY <1>0, <2>1, <2>2 DEF MapTypes
<1>4. PICK d \in Dists, inTime \in BOOLEAN :
        LET peer == IF p.ttl >= d THEN Dst ELSE Router
            meta == maps.sentAt[p.seq]
        IN IF p.seq \notin DOMAIN maps.sentAt THEN UNCHANGED <<maps, cand>>
           ELSE IF meta.round # eng.round \/ ~ inTime
           THEN maps' = Drop(p.seq) /\ UNCHANGED cand
           ELSE /\ maps' = [Drop(p.seq) EXCEPT
                     !.replied = Put(@, p.seq, [peer |-> peer, round |-> p.round, ttl |-> p.ttl])]
                /\ cand' = cand \cup {[gen |-> eng.gen, round |-> eng.round,
                                       ttl |-> FinalTTLCandidate(peer, meta.ttl)]}
  BY DEF onICMP
<1>5. PICK peer \in {"dst", "router", "silent"} : peer = IF p.ttl >= d THEN Dst ELSE Router
  BY DEF Dst, Router
<1>6. CASE maps'.replied = maps.replied /\ maps'.cur = maps.cur /\ maps' \in MapTypes
           /\ cand' = cand
  <2>1. RdTypes' /\ PlaceKept' /\ TableKept'
    <3>1. RdTypes'
      BY <1>0, <1>1, <1>6 DEF RdTypes, MapTypes
    <3>2. PlaceKept'
      BY <1>0, <1>1, <1>6 DEF PlaceKept, MapTypes
    <3>3. TableKept'
      BY <1>0, <1>1, <1>6 DEF TableKept, MapTypes
    <3> QED
      BY <3>1, <3>2, <3>3
  <2>2. Numbered'
    BY <1>0, <1>1, <1>6, NumberedStays
  <2> QED
    BY <2>1, <2>2 DEF RdInv
<1>7. CASE /\ p.seq \in DOMAIN maps.sentAt
           /\ maps' = [m EXCEPT
                !.replied = Put(@, p.seq, [peer |-> peer, round |-> p.round, ttl |-> p.ttl])]
           /\ cand' = cand \cup {[gen |-> eng.gen, round |-> eng.round,
                                  ttl |-> FinalTTLCandidate(peer, maps.sentAt[p.seq].ttl)]}
  <2>1. PICK row \in RdRow : /\ row = [peer |-> peer, round |-> p.round, ttl |-> p.ttl]
                             /\ row.round = p.round /\ row.ttl = p.ttl
    <3> DEFINE r == [peer |-> peer, round |-> p.round, ttl |-> p.ttl]
    <3>1. p.round \in Nat /\ p.ttl \in Nat
      BY <1>0
    <3>2. r \in RdRow
      BY <3>1 DEF RdRow
    <3>3. r.round = p.round /\ r.ttl = p.ttl
      OBVIOUS
    <3> HIDE DEF r
    <3> QED
      BY <3>2, <3>3 DEF r
  <2> DEFINE new == Put(maps.replied, p.seq, row)
  <2>2. new \in Partial(Nat, RdRow)
    BY <1>0, <1>2, PartialPut
  <2>3. DOMAIN new = DOMAIN maps.replied \cup {p.seq}
    BY DEF Put
  <2>4. ASSUME NEW x \in DOMAIN new
        PROVE  new[x] = IF x = p.seq THEN row ELSE maps.replied[x]
    BY <2>4 DEF Put
  <2>5. maps' = [m EXCEPT !.replied = new]
    BY <1>3, <1>7, <2>1
  <2> HIDE DEF new
  <2>6. maps' \in MapTypes /\ maps'.replied = new /\ maps'.cur = maps.cur
    BY <1>3, <2>2, <2>5 DEF MapTypes
  <2>7. cand' \subseteq [gen : Nat, round : Nat, ttl : Nat]
    <3>0. maps.sentAt \in [DOMAIN maps.sentAt -> [ttl : Nat, round : Nat]]
      BY <1>2, PartialIs
    <3>1. maps.sentAt[p.seq] \in [ttl : Nat, round : Nat]
      BY <1>7, <3>0
    <3>2. FinalTTLCandidate(peer, maps.sentAt[p.seq].ttl) \in Nat
      BY <3>1 DEF FinalTTLCandidate
    <3>3. PICK x \in Nat : x = FinalTTLCandidate(peer, maps.sentAt[p.seq].ttl)
      BY <3>2
    <3>4. cand' = cand \cup {[gen |-> eng.gen, round |-> eng.round, ttl |-> x]}
      BY <1>7, <3>3
    <3>5. [gen |-> eng.gen, round |-> eng.round, ttl |-> x] \in [gen : Nat, round : Nat, ttl : Nat]
      BY <1>0 DEF Engines
    <3> QED
      BY <1>0, <3>4, <3>5 DEF RdTypes
  <2>8. RdTypes' /\ PlaceKept' /\ TableKept'
    <3>1. RdTypes'
      BY <1>0, <1>1, <2>6, <2>7 DEF RdTypes, MapTypes
    <3>2. PlaceKept'
      BY <1>0, <1>1, <2>6, <2>7 DEF PlaceKept, MapTypes
    <3>3. TableKept'
      BY <1>0, <1>1, <2>6, <2>7 DEF TableKept, MapTypes
    <3> QED
      BY <3>1, <3>2, <3>3
  <2>9. Numbered'
    <3> SUFFICES ASSUME ~ reused'
                 PROVE  (NumbersKept /\ RoundKept /\ BuiltKept /\ RowsOfTheirRound)'
      BY DEF Numbered
    <3>1. NumbersKept /\ RoundKept /\ BuiltKept /\ RowsOfTheirRound
      BY <1>0, <1>1 DEF Numbered
    <3>2. NumbersKept'
      BY <1>1, <2>3, <2>6, <3>1 DEF NumbersKept
    <3>3. RoundKept'
      <4> SUFFICES ASSUME NEW t \in DOMAIN maps.cur
                   PROVE  /\ \A q \in net' : q.seq = maps.cur[t] =>
                               q.ttl = t /\ q.round = eng.round
                          /\ maps.cur[t] \in DOMAIN new =>
                               new[maps.cur[t]].ttl = t /\ new[maps.cur[t]].round = eng.round
        BY <1>1, <2>6 DEF RoundKept
      <4>1. \A q \in net : q.seq = maps.cur[t] => q.ttl = t /\ q.round = eng.round
        BY <3>1 DEF RoundKept
      <4>2. CASE maps.cur[t] = p.seq
        BY <1>1, <2>1, <2>3, <2>4, <4>1, <4>2
      <4>3. CASE maps.cur[t] # p.seq
        BY <1>1, <2>3, <2>4, <3>1, <4>1, <4>3 DEF RoundKept
      <4> QED
        BY <4>2, <4>3
    <3>4. BuiltKept' /\ RowsOfTheirRound'
      BY <1>1, <3>1 DEF BuiltKept, RowsOfTheirRound
    <3> QED
      BY <3>2, <3>3, <3>4
  <2> QED
    BY <2>8, <2>9 DEF RdInv
<1>8. CASE p.seq \notin DOMAIN maps.sentAt
  BY <1>0, <1>4, <1>6, <1>8
<1>9. CASE p.seq \in DOMAIN maps.sentAt /\ (maps.sentAt[p.seq].round # eng.round \/ ~ inTime)
  BY <1>3, <1>4, <1>6, <1>9
<1>10. CASE p.seq \in DOMAIN maps.sentAt
            /\ ~ (maps.sentAt[p.seq].round # eng.round \/ ~ inTime)
  BY <1>3, <1>4, <1>5, <1>7, <1>10, Zenon
<1> QED
  BY <1>8, <1>9, <1>10

LEMMA updateRoundFinalTTLStep ==
  ASSUME RdInv, NEW c \in cand, updateRoundFinalTTL(c)
  PROVE  RdInv'
<1>0. /\ RdTypes /\ PlaceKept /\ TableKept /\ Numbered
      /\ eng \in Engines /\ c \in [gen : Nat, round : Nat, ttl : Nat]
  BY DEF RdInv, RdTypes, Engines
<1>1. /\ cand' = cand \ {c}
      /\ UNCHANGED <<mode, limit, ui, loop, maps, raw, net, agg, shown, reused>>
  BY DEF updateRoundFinalTTL
<1>2. \/ eng' = eng
      \/ \E stale \in BOOLEAN : eng' = [eng EXCEPT !.rf = c.ttl, !.stale = stale]
  BY DEF updateRoundFinalTTL
<1>3. eng' \in Engines /\ eng'.seq = eng.seq /\ eng'.round = eng.round
  BY <1>0, <1>2 DEF Engines
<1>4. RdTypes' /\ PlaceKept' /\ TableKept'
  <2>1. RdTypes'
    BY <1>0, <1>1, <1>3 DEF RdTypes, Engines
  <2>2. PlaceKept'
    BY <1>0, <1>1, <1>3 DEF PlaceKept, Engines
  <2>3. TableKept'
    BY <1>0, <1>1, <1>3 DEF TableKept, Engines
  <2> QED
    BY <2>1, <2>2, <2>3
<1>5. Numbered'
  BY <1>0, <1>1, <1>3, NumberedStays
<1> QED
  BY <1>4, <1>5 DEF RdInv

RawRounds == [flying : BOOLEAN, failed : BOOLEAN, hops : Nat, seen : Nat, out : Nat]

LEMMA RawTopStep ==
  ASSUME RdInv, RawTop
  PROVE  RdInv'
<1>0. /\ RdTypes /\ PlaceKept /\ TableKept /\ Numbered /\ ~ raw.flying
      /\ eng \in Engines /\ loop \in Loops /\ mode = "raw"
  BY NotFlying DEF RdInv, RawTop, RdTypes, Engines, Loops
<1>1. UNCHANGED <<mode, limit, ui, maps, notify, cand, net, agg, shown, reused>>
  BY DEF RawTop
<1>2. CASE ui.cancelled
  BY <1>0, <1>1, <1>2, GotoStep DEF RawTop, Places
<1>3. CASE ~ ui.cancelled
  <2>1. PICK i \in Nat, r \in Nat : i = loop.iter + 1 /\ r = eng.round + 1
    BY <1>0 DEF Engines, Loops
  <2>2. /\ loop' = [loop EXCEPT !.pc = "tracing", !.iter = i]
        /\ raw' = [NoRaw EXCEPT !.flying = TRUE]
        /\ eng' = [eng EXCEPT !.round = r]
    BY <1>3, <2>1 DEF RawTop
  <2>3. loop' \in Loops /\ loop'.pc = "tracing"
    BY <1>0, <2>2 DEF Loops, Places
  <2>4. eng' \in Engines /\ eng'.seq = eng.seq
    BY <1>0, <2>2 DEF Engines
  <2>5. raw' \in RawRounds /\ raw'.out = 0 /\ raw'.seen = 0 /\ raw'.hops = 0
    BY <2>2 DEF RawRounds, NoRaw
  <2>6. RdTypes'
    BY <1>0, <1>1, <2>3, <2>4, <2>5 DEF RdTypes, Engines, Loops, RawRounds
  <2>7. PlaceKept' /\ TableKept'
    BY <1>0, <1>1, <2>3, <2>5 DEF PlaceKept, TableKept
  <2>8. Numbered'
    <3> SUFFICES ASSUME ~ reused'
                 PROVE  (NumbersKept /\ RoundKept /\ BuiltKept /\ RowsOfTheirRound)'
      BY DEF Numbered
    <3>1. NumbersKept /\ RowsOfTheirRound /\ maps.cur = << >>
      BY <1>0, <1>1 DEF Numbered, PlaceKept
    <3>2. NumbersKept' /\ RoundKept' /\ BuiltKept' /\ RowsOfTheirRound'
      BY <1>1, <2>3, <2>4, <3>1 DEF NumbersKept, RoundKept, BuiltKept, RowsOfTheirRound
    <3> QED
      BY <3>2
  <2> QED
    BY <2>6, <2>7, <2>8 DEF RdInv
<1> QED
  BY <1>2, <1>3

\* What the printer wrote is what it has seen.
LEMMA RawRoundStep ==
  ASSUME RdInv, RawHop \/ RawPrint \/ RawTraced
  PROVE  RdInv'
<1>0. RdTypes /\ PlaceKept /\ TableKept /\ Numbered /\ raw \in RawRounds /\ raw.flying
  BY DEF RdInv, RdTypes, RawRounds, RawHop, RawPrint, RawTraced
<1>1. UNCHANGED <<mode, limit, ui, loop, eng, maps, notify, net, reused, cand, agg, shown>>
  BY DEF RawHop, RawPrint, RawTraced, engVars
<1>2. raw.out = raw.seen /\ raw.seen <= raw.hops
  BY <1>0 DEF PlaceKept
<1>3. /\ raw' \in RawRounds /\ raw'.out = raw'.seen /\ raw'.seen <= raw'.hops
  <2>1. CASE RawHop
    <3>1. PICK h \in Nat : h = raw.hops + 1
      BY <1>0 DEF RawRounds
    <3>2. raw' = [raw EXCEPT !.hops = h]
      BY <2>1, <3>1 DEF RawHop
    <3> QED
      BY <1>0, <1>2, <3>1, <3>2 DEF RawRounds
  <2>2. CASE RawPrint
    <3>1. PICK o \in Nat : o = raw.out + (raw.hops - raw.seen) /\ o = raw.hops
      BY <1>0, <1>2 DEF RawRounds
    <3>2. raw' = [raw EXCEPT !.seen = raw.hops, !.out = o]
      BY <2>2, <3>1 DEF RawPrint
    <3>3. raw.hops \in Nat /\ raw' \in RawRounds
      BY <1>0, <3>1, <3>2 DEF RawRounds
    <3>4. raw'.out = o /\ raw'.seen = raw.hops /\ raw'.hops = raw.hops
      BY <1>0, <3>2 DEF RawRounds
    <3> QED
      BY <3>1, <3>3, <3>4
  <2>3. CASE RawTraced
    <3>1. PICK f \in BOOLEAN : raw' = [raw EXCEPT !.flying = FALSE, !.failed = f]
      BY <2>3 DEF RawTraced
    <3> QED
      BY <1>0, <1>2, <3>1 DEF RawRounds
  <2> QED
    BY <2>1, <2>2, <2>3
<1>4. RdTypes' /\ PlaceKept' /\ TableKept'
  BY <1>0, <1>1, <1>3 DEF RdTypes, PlaceKept, TableKept, RawRounds
<1>5. Numbered'
  BY <1>0, <1>1, NumberedStays
<1> QED
  BY <1>4, <1>5 DEF RdInv

LEMMA RawLoopStep ==
  ASSUME RdInv, RawReturns \/ RawInterval
  PROVE  RdInv'
<1>1. /\ ~ raw.flying /\ loop.pc # "built"
      /\ UNCHANGED <<mode, limit, ui, eng, maps, cand, raw, net, agg, shown, reused>>
  BY NotFlying DEF RawReturns, RawInterval, engVars
<1>2. PICK pc \in {"over", "interval", "top"} : Goto(pc)
  BY DEF RawReturns, RawInterval
<1> QED
  BY <1>1, <1>2, GotoStep DEF Places

LEMMA AskStep ==
  ASSUME RdInv, Ask
  PROVE  RdInv'
<1>0. RdTypes /\ PlaceKept /\ TableKept /\ Numbered
  BY DEF RdInv
<1>1. UNCHANGED <<mode, limit, loop, eng, maps, notify, net, reused, cand, raw, agg, shown>>
  BY DEF Ask, engVars
<1>2. ui' \in [paused : BOOLEAN, reset : BOOLEAN, resets : Nat, cancelled : BOOLEAN]
  <2>0. ui \in [paused : BOOLEAN, reset : BOOLEAN, resets : Nat, cancelled : BOOLEAN]
    BY <1>0 DEF RdTypes
  <2>1. PICK n \in Nat : n = ui.resets + 1
    BY <2>0
  <2>2. CASE ui' = [ui EXCEPT !.paused = ~ @]
    <3>1. PICK paused \in BOOLEAN : ui' = [ui EXCEPT !.paused = paused]
      BY <2>2
    <3> QED
      BY <2>0, <3>1
  <2>3. CASE ui' = [ui EXCEPT !.reset = TRUE, !.resets = n]
    BY <2>0, <2>3
  <2>4. CASE ui' = [ui EXCEPT !.cancelled = TRUE]
    BY <2>0, <2>4
  <2> QED
    BY <2>1, <2>2, <2>3, <2>4 DEF Ask
<1>3. RdTypes' /\ PlaceKept' /\ TableKept'
  BY <1>0, <1>1, <1>2 DEF RdTypes, PlaceKept, TableKept
<1>4. Numbered'
  BY <1>0, <1>1, NumberedStays
<1> QED
  BY <1>3, <1>4 DEF RdInv

LEMMA RdStepHolds == RdInv /\ [RdNext]_rdVars => RdInv'
<1> SUFFICES ASSUME RdInv, [RdNext]_rdVars PROVE RdInv'
  OBVIOUS
<1>1. CASE UNCHANGED rdVars
  BY <1>1, NumberedStays DEF rdVars, RdInv, RdTypes, PlaceKept, TableKept
<1>2. CASE LoopStep
  BY <1>2, StartStep, LoopTopStep, LoopCancelledStep, BeginRoundStep, SendProbeStep,
     SweepDoneStep, WaitRepliesStep, BuildRoundStep, FallbackRoundStep, DropResultStep,
     recordSuccessStep, handleProbeErrorStep, WaitOverStep DEF LoopStep
<1>3. CASE RawStep \/ RawHop \/ RawPrint
  BY <1>3, RawTopStep, RawRoundStep, RawLoopStep DEF RawStep
<1>4. CASE emitPreview \/ Ask
  BY <1>4, emitPreviewStep, AskStep
<1>5. ASSUME NEW p \in net, onICMP(p) PROVE RdInv'
  BY <1>5, onICMPStep
<1>6. ASSUME NEW c \in cand, updateRoundFinalTTL(c) PROVE RdInv'
  BY <1>6, updateRoundFinalTTLStep
<1> QED
  BY <1>1, <1>2, <1>3, <1>4, <1>5, <1>6 DEF RdNext

(***************************************************************************)
(* Theorems about the rounds                                               *)
(***************************************************************************)
LEMMA RdInvariance == RdSpec => []RdInv
<1> QED
  BY RdInitHolds, RdStepHolds, PTL DEF RdSpec

(***************************************************************************)
(* The final TTL of a round                                                *)
(***************************************************************************)
\* A probe that may still be answered is the one its TTL is registered with, and has no
\* answer yet; numbers and TTLs not used yet are beyond those in the maps.
RegisteredKept ==
  /\ \A q \in DOMAIN maps.sentAt :
       /\ q \notin DOMAIN maps.replied /\ q <= eng.seq
       /\ maps.sentAt[q].ttl \in DOMAIN maps.cur /\ maps.cur[maps.sentAt[q].ttl] = q
  /\ \A q \in DOMAIN maps.replied : q <= eng.seq
  /\ \A t \in DOMAIN maps.cur : t < eng.ttl

\* What an onICMP of this round is about to report is in the maps.
CandidatesKept ==
  \A c \in cand :
    /\ c.round <= eng.round
    /\ c.ttl > 0 /\ c.round = eng.round => RowOf(c.ttl).peer = Dst

FinalInv == RegisteredKept /\ CandidatesKept /\ FinalTTLOfThisRound

\* The steps that leave the maps and the candidates alone.
LEMMA FinalStays ==
  ASSUME RdInv, RdInv', FinalInv, UNCHANGED <<maps, cand>>,
         eng'.rf = eng.rf, eng'.stale = eng.stale, eng'.seq = eng.seq, eng'.ttl = eng.ttl,
         eng'.round = eng.round \/ eng'.round = eng.round + 1
  PROVE  FinalInv'
<1>0. /\ RegisteredKept /\ CandidatesKept /\ FinalTTLOfThisRound
      /\ eng \in Engines /\ cand \subseteq [gen : Nat, round : Nat, ttl : Nat]
  BY DEF FinalInv, RdInv, RdTypes, Engines
<1>1. \A t : RowOf(t)'.peer = RowOf(t).peer
  BY DEF RowOf
<1>2. RegisteredKept'
  BY <1>0 DEF RegisteredKept
<1>3. CandidatesKept'
  <2> SUFFICES ASSUME NEW c \in cand
               PROVE  /\ c.round <= eng'.round
                      /\ c.ttl > 0 /\ c.round = eng'.round => RowOf(c.ttl)'.peer = Dst
    BY DEF CandidatesKept
  <2>1. c.round \in Nat /\ eng.round \in Nat /\ c.round <= eng.round
    BY <1>0 DEF CandidatesKept, Engines
  <2>2. c.round <= eng'.round /\ (c.round = eng'.round => c.round = eng.round)
    BY <2>1
  <2> QED
    BY <1>0, <1>1, <2>2 DEF CandidatesKept
<1>4. FinalTTLOfThisRound'
  BY <1>0, <1>1 DEF FinalTTLOfThisRound
<1> QED
  BY <1>2, <1>3, <1>4 DEF FinalInv

\* A round begins with empty maps and no final TTL; what is still to be reported is of an
\* earlier round.
LEMMA FinalBegins ==
  ASSUME RdInv, FinalInv, maps' = NoMaps, cand' = cand, eng'.rf = 0,
         eng'.round = eng.round + 1
  PROVE  FinalInv'
<1>0. CandidatesKept /\ eng \in Engines /\ cand \subseteq [gen : Nat, round : Nat, ttl : Nat]
  BY DEF FinalInv, RdInv, RdTypes, Engines
<1>1. \A c \in cand : c.round <= eng'.round /\ c.round # eng'.round
  BY <1>0 DEF CandidatesKept, Engines
<1>2. RegisteredKept'
  BY DEF RegisteredKept, NoMaps
<1>3. CandidatesKept'
  BY <1>1 DEF CandidatesKept
<1>4. FinalTTLOfThisRound'
  BY DEF FinalTTLOfThisRound
<1> QED
  BY <1>2, <1>3, <1>4 DEF FinalInv

LEMMA FinalBeginRound ==
  ASSUME RdInv, RdInv', FinalInv, BeginRound
  PROVE  FinalInv'
<1>0. eng \in Engines /\ cand' = cand
  BY DEF RdInv, RdTypes, Engines, BeginRound
<1>1. /\ maps' = NoMaps
      /\ \/ eng' = [eng EXCEPT !.round = @ + 1, !.rf = 0, !.stale = FALSE, !.seq = 0, !.open = FALSE]
         \/ prepareProbeRound(eng)
         \/ prepareProbeRound([eng EXCEPT !.gen = @ + 1, !.seq = 0])
  BY DEF BeginRound, prepareProbeRound
<1>2. ASSUME NEW e, e \in {eng, [eng EXCEPT !.gen = @ + 1, !.seq = 0]}, prepareProbeRound(e)
      PROVE  eng'.rf = 0 /\ eng'.round = eng.round + 1
  <2>1. PICK m : eng' = [e EXCEPT !.round = @ + 1, !.rf = 0, !.stale = FALSE, !.ttl = 1, !.max = m]
    BY <1>2 DEF prepareProbeRound
  <2>2. e.round = eng.round /\ DOMAIN e = DOMAIN eng
    BY <1>0, <1>2 DEF Engines
  <2> QED
    BY <1>0, <2>1, <2>2 DEF Engines
<1>3. eng'.rf = 0 /\ eng'.round = eng.round + 1
  BY <1>0, <1>1, <1>2 DEF Engines
<1> QED
  BY <1>0, <1>1, <1>3, FinalBegins

\* A row of the destination is in the maps.
LEMMA DstRow ==
  ASSUME NEW t, RowOf(t).peer = Dst
  PROVE  /\ t \in DOMAIN maps.cur /\ maps.cur[t] \in DOMAIN maps.replied
         /\ maps.replied[maps.cur[t]].peer = Dst
<1>1. CASE t \in DOMAIN maps.cur /\ maps.cur[t] \in DOMAIN maps.replied
  BY <1>1 DEF RowOf
<1>2. CASE ~ (t \in DOMAIN maps.cur /\ maps.cur[t] \in DOMAIN maps.replied)
  BY <1>2 DEF RowOf, Dst, Silent
<1> QED
  BY <1>1, <1>2

\* The steps that keep the rows of the destination and what is to be reported of them.
LEMMA DstStays ==
  ASSUME FinalInv, RegisteredKept', cand' \subseteq cand,
         eng'.rf = eng.rf, eng'.stale = eng.stale, eng'.round = eng.round,
         \A t : RowOf(t).peer = Dst => RowOf(t)'.peer = Dst
  PROVE  FinalInv'
<1>1. CandidatesKept /\ FinalTTLOfThisRound
  BY DEF FinalInv
<1>2. CandidatesKept'
  BY <1>1 DEF CandidatesKept
<1>3. FinalTTLOfThisRound'
  BY <1>1 DEF FinalTTLOfThisRound
<1> QED
  BY <1>2, <1>3 DEF FinalInv

\* A new number and its TTL are in no map yet.
LEMMA FinalSendProbe ==
  ASSUME RdInv, RdInv', FinalInv, SendProbe
  PROVE  FinalInv'
<1>0. /\ RegisteredKept /\ eng \in Engines /\ maps \in MapTypes /\ cand' = cand
      /\ eng.seq \in Nat /\ eng.ttl \in Nat
  BY DEF FinalInv, RdInv, RdTypes, Engines, MapTypes, SendProbe
<1>1. CASE ~ eng.open
  <2>1. maps' = maps /\ eng' = [eng EXCEPT !.open = FALSE]
    BY <1>1 DEF SendProbe, EndRun
  <2>2. /\ eng'.rf = eng.rf /\ eng'.stale = eng.stale /\ eng'.seq = eng.seq
        /\ eng'.ttl = eng.ttl /\ eng'.round = eng.round
    BY <1>0, <2>1 DEF Engines
  <2> QED
    BY <1>0, <2>1, <2>2, FinalStays
<1>2. CASE eng.open
  <2> DEFINE seq == eng.seq + 1
             probe == [ttl |-> eng.ttl, round |-> eng.round]
  <2>1. /\ eng' = [eng EXCEPT !.seq = seq, !.ttl = @ + 1]
        /\ \/ maps' = [maps EXCEPT !.sentAt = Put(@, seq, probe), !.cur = Put(@, eng.ttl, seq)]
           \/ UNCHANGED maps
    BY <1>2 DEF SendProbe
  <2>2. /\ eng'.rf = eng.rf /\ eng'.stale = eng.stale /\ eng'.round = eng.round
        /\ eng'.seq = eng.seq + 1 /\ eng'.ttl = eng.ttl + 1
    BY <1>0, <2>1 DEF Engines
  <2>3. /\ DOMAIN maps.replied \subseteq Nat /\ DOMAIN maps.cur \subseteq Nat
        /\ \A t \in DOMAIN maps.cur : maps.cur[t] \in Nat
        /\ \A q \in DOMAIN maps.sentAt : q \in Nat
    BY <1>0, PartialIs DEF MapTypes
  <2>4. CASE UNCHANGED maps
    <3>1. RegisteredKept'
      BY <1>0, <2>2, <2>3, <2>4 DEF RegisteredKept
    <3>2. \A t : RowOf(t)'.peer = RowOf(t).peer
      BY <2>4 DEF RowOf
    <3> QED
      BY <1>0, <2>2, <3>1, <3>2, DstStays
  <2>5. CASE maps' = [maps EXCEPT !.sentAt = Put(@, seq, probe), !.cur = Put(@, eng.ttl, seq)]
    <3>1. /\ maps'.sentAt = Put(maps.sentAt, seq, probe)
          /\ maps'.cur = Put(maps.cur, eng.ttl, seq) /\ maps'.replied = maps.replied
      BY <1>0, <2>5 DEF MapTypes
    <3> HIDE DEF seq, probe
    <3>2. /\ DOMAIN maps'.sentAt = DOMAIN maps.sentAt \cup {seq}
          /\ \A q \in DOMAIN maps'.sentAt :
               maps'.sentAt[q] = IF q = seq THEN probe ELSE maps.sentAt[q]
          /\ DOMAIN maps'.cur = DOMAIN maps.cur \cup {eng.ttl}
          /\ \A t \in DOMAIN maps'.cur : maps'.cur[t] = IF t = eng.ttl THEN seq ELSE maps.cur[t]
      BY <3>1 DEF Put
    <3>3. seq \notin DOMAIN maps.replied /\ eng.ttl \notin DOMAIN maps.cur
          /\ probe.ttl = eng.ttl /\ seq = eng.seq + 1
      BY <1>0, <2>3 DEF RegisteredKept, seq, probe
    <3>4. RegisteredKept'
      <4>1. ASSUME NEW q \in DOMAIN maps'.sentAt
            PROVE  /\ q \notin DOMAIN maps.replied /\ q <= eng'.seq
                   /\ maps'.sentAt[q].ttl \in DOMAIN maps'.cur
                   /\ maps'.cur[maps'.sentAt[q].ttl] = q
        <5>1. CASE q = seq
          BY <1>0, <2>2, <3>2, <3>3, <5>1
        <5>2. CASE q # seq
          <6>0. q <= eng.seq /\ q \in Nat
            BY <1>0, <2>3, <3>2, <4>1, <5>2 DEF RegisteredKept
          <6>1. /\ q \notin DOMAIN maps.replied /\ maps'.sentAt[q] = maps.sentAt[q]
                /\ maps.sentAt[q].ttl \in DOMAIN maps.cur /\ maps.cur[maps.sentAt[q].ttl] = q
            BY <1>0, <3>2, <4>1, <5>2 DEF RegisteredKept
          <6> QED
            BY <1>0, <2>2, <3>2, <3>3, <6>0, <6>1
        <5> QED
          BY <5>1, <5>2
      <4>2. \A q \in DOMAIN maps.replied : q <= eng'.seq
        BY <1>0, <2>2, <2>3 DEF RegisteredKept
      <4>3. \A t \in DOMAIN maps'.cur : t < eng'.ttl
        BY <1>0, <2>2, <2>3, <3>2 DEF RegisteredKept
      <4> QED
        BY <3>1, <4>1, <4>2, <4>3 DEF RegisteredKept
    <3>5. ASSUME NEW t, RowOf(t).peer = Dst
          PROVE  RowOf(t)'.peer = Dst
      <4>1. /\ t \in DOMAIN maps.cur /\ maps.cur[t] \in DOMAIN maps.replied
            /\ maps.replied[maps.cur[t]].peer = Dst
        BY <3>5, DstRow
      <4>2. t \in DOMAIN maps'.cur /\ maps'.cur[t] = maps.cur[t]
        BY <3>2, <3>3, <4>1
      <4> QED
        BY <3>1, <4>1, <4>2 DEF RowOf
    <3> QED
      BY <1>0, <2>2, <3>4, <3>5, DstStays
  <2> QED
    BY <2>1, <2>4, <2>5
<1> QED
  BY <1>1, <1>2

\* An answer moves a registered number to the answered ones and may be reported.
LEMMA FinalAnswer ==
  ASSUME RdInv, RdInv', FinalInv, NEW p \in net, onICMP(p)
  PROVE  FinalInv'
<1>0. /\ RegisteredKept /\ CandidatesKept /\ FinalTTLOfThisRound
      /\ eng \in Engines /\ maps \in MapTypes /\ eng' = eng
      /\ cand \subseteq [gen : Nat, round : Nat, ttl : Nat]
  BY DEF FinalInv, RdInv, RdTypes, Engines, MapTypes, onICMP
<1>1. PICK d \in Dists, inTime \in BOOLEAN :
        LET peer == IF p.ttl >= d THEN Dst ELSE Router
            meta == maps.sentAt[p.seq]
        IN IF p.seq \notin DOMAIN maps.sentAt THEN UNCHANGED <<maps, cand>>
           ELSE IF meta.round # eng.round \/ ~ inTime
           THEN maps' = Drop(p.seq) /\ UNCHANGED cand
           ELSE /\ maps' = [Drop(p.seq) EXCEPT
                     !.replied = Put(@, p.seq, [peer |-> peer, round |-> p.round, ttl |-> p.ttl])]
                /\ cand' = cand \cup {[gen |-> eng.gen, round |-> eng.round,
                                       ttl |-> FinalTTLCandidate(peer, meta.ttl)]}
  BY DEF onICMP
<1> DEFINE left == [q \in DOMAIN maps.sentAt \ {p.seq} |-> maps.sentAt[q]]
<1>2. Drop(p.seq) = [maps EXCEPT !.sentAt = left]
  BY DEF Drop
<1>3. DOMAIN left = DOMAIN maps.sentAt \ {p.seq} /\ \A q \in DOMAIN left : left[q] = maps.sentAt[q]
  OBVIOUS
<1> HIDE DEF left
<1>4. CASE UNCHANGED <<maps, cand>>
  BY <1>0, <1>4, FinalStays
<1>5. CASE maps' = Drop(p.seq) /\ cand' = cand
  <2>1. maps'.sentAt = left /\ maps'.replied = maps.replied /\ maps'.cur = maps.cur
    BY <1>0, <1>2, <1>5 DEF MapTypes
  <2>2. RegisteredKept'
    BY <1>0, <1>3, <2>1 DEF RegisteredKept
  <2>3. \A t : RowOf(t)'.peer = RowOf(t).peer
    BY <1>0, <2>1 DEF RowOf
  <2> QED
    BY <1>0, <1>5, <2>2, <2>3, DstStays
<1>6. ASSUME NEW peer, p.seq \in DOMAIN maps.sentAt, NEW row, row.peer = peer,
             maps' = [Drop(p.seq) EXCEPT !.replied = Put(@, p.seq, row)],
             cand' = cand \cup {[gen |-> eng.gen, round |-> eng.round,
                                ttl |-> FinalTTLCandidate(peer, maps.sentAt[p.seq].ttl)]}
      PROVE  FinalInv'
  <2>1. maps'.sentAt = left /\ maps'.replied = Put(maps.replied, p.seq, row) /\ maps'.cur = maps.cur
    BY <1>0, <1>2, <1>6 DEF MapTypes
  <2>2. /\ DOMAIN maps'.replied = DOMAIN maps.replied \cup {p.seq}
        /\ \A q \in DOMAIN maps'.replied :
             maps'.replied[q] = IF q = p.seq THEN row ELSE maps.replied[q]
    BY <2>1 DEF Put
  <2>0. PICK t0 : t0 = maps.sentAt[p.seq].ttl
    OBVIOUS
  <2>3. p.seq \notin DOMAIN maps.replied /\ t0 \in DOMAIN maps.cur /\ maps.cur[t0] = p.seq
    BY <1>0, <1>6, <2>0 DEF RegisteredKept
  <2>4. p.seq <= eng.seq
    BY <1>0, <1>6 DEF RegisteredKept
  <2>5. RegisteredKept'
    BY <1>0, <1>3, <2>1, <2>2, <2>4 DEF RegisteredKept
  <2>6. ASSUME NEW t, RowOf(t).peer = Dst
        PROVE  RowOf(t)'.peer = Dst
    <3>1. /\ t \in DOMAIN maps.cur /\ maps.cur[t] \in DOMAIN maps.replied
          /\ maps.replied[maps.cur[t]].peer = Dst
      BY <2>6, DstRow
    <3> QED
      BY <2>1, <2>2, <2>3, <3>1 DEF RowOf
  <2>7. peer = Dst => RowOf(t0)'.peer = Dst
    BY <1>6, <2>1, <2>2, <2>3 DEF RowOf
  <2>8. CandidatesKept'
    <3>1. ASSUME NEW c \in cand
          PROVE  c.round <= eng.round /\ (c.ttl > 0 /\ c.round = eng.round => RowOf(c.ttl)'.peer = Dst)
      BY <1>0, <2>6, <3>1 DEF CandidatesKept
    <3>2. FinalTTLCandidate(peer, t0) > 0 => RowOf(FinalTTLCandidate(peer, t0))'.peer = Dst
      BY <2>7 DEF FinalTTLCandidate
    <3>3. eng.round <= eng.round
      BY <1>0 DEF Engines
    <3>0. PICK x : x = FinalTTLCandidate(peer, t0)
      OBVIOUS
    <3>4. ASSUME NEW c, c = [gen |-> eng.gen, round |-> eng.round, ttl |-> x]
          PROVE  c.round <= eng.round /\ (c.ttl > 0 => RowOf(c.ttl)'.peer = Dst)
      <4>1. c.round = eng.round /\ c.ttl = x
        BY <3>4
      <4> QED
        BY <3>0, <3>2, <3>3, <4>1
    <3>5. cand' = cand \cup {[gen |-> eng.gen, round |-> eng.round, ttl |-> x]}
      BY <1>6, <2>0, <3>0
    <3> QED
      BY <1>0, <3>1, <3>4, <3>5 DEF CandidatesKept
  <2>9. FinalTTLOfThisRound'
    BY <1>0, <2>6 DEF FinalTTLOfThisRound
  <2> QED
    BY <2>5, <2>8, <2>9 DEF FinalInv
<1>7. CASE p.seq \in DOMAIN maps.sentAt /\ ~ (maps.sentAt[p.seq].round # eng.round \/ ~ inTime)
  <2>1. PICK peer : peer = IF p.ttl >= d THEN Dst ELSE Router
    OBVIOUS
  <2>2. PICK row : row = [peer |-> peer, round |-> p.round, ttl |-> p.ttl]
    OBVIOUS
  <2>3. row.peer = peer
    BY <2>2
  <2>4. /\ maps' = [Drop(p.seq) EXCEPT !.replied = Put(@, p.seq, row)]
        /\ cand' = cand \cup {[gen |-> eng.gen, round |-> eng.round,
                               ttl |-> FinalTTLCandidate(peer, maps.sentAt[p.seq].ttl)]}
    BY <1>1, <1>7, <2>1, <2>2, Zenon
  <2> QED
    BY <1>6, <1>7, <2>3, <2>4
<1> QED
  BY <1>1, <1>4, <1>5, <1>7

\* updateRoundFinalTTL: a candidate of this round has its answer in the maps.
LEMMA FinalUpdated ==
  ASSUME RdInv, RdInv', FinalInv, NEW c \in cand, updateRoundFinalTTL(c)
  PROVE  FinalInv'
<1>0. /\ RegisteredKept /\ CandidatesKept /\ FinalTTLOfThisRound /\ eng \in Engines
      /\ maps' = maps /\ cand' = cand \ {c}
  BY DEF FinalInv, RdInv, RdTypes, Engines, updateRoundFinalTTL
<1>1. CASE eng' = eng
  <2>1. RegisteredKept' /\ \A t : RowOf(t)'.peer = RowOf(t).peer
    BY <1>0, <1>1 DEF RegisteredKept, RowOf
  <2> QED
    BY <1>0, <1>1, <2>1, DstStays
<1>2. CASE c.ttl > 0 /\ eng' = [eng EXCEPT !.rf = c.ttl, !.stale = c.round # eng.round]
  <2>1. /\ eng'.rf = c.ttl /\ eng'.stale = (c.round # eng.round)
        /\ eng'.round = eng.round /\ eng'.seq = eng.seq /\ eng'.ttl = eng.ttl
    BY <1>0, <1>2 DEF Engines
  <2>2. \A t : RowOf(t)'.peer = RowOf(t).peer
    BY <1>0, <2>1 DEF RowOf
  <2>3. RegisteredKept'
    BY <1>0, <2>1 DEF RegisteredKept
  <2>4. CandidatesKept'
    BY <1>0, <2>1, <2>2 DEF CandidatesKept
  <2>5. FinalTTLOfThisRound'
    <3> SUFFICES ASSUME ~ eng'.stale PROVE RowOf(c.ttl)'.peer = Dst
      BY <2>1 DEF FinalTTLOfThisRound
    <3>1. RowOf(c.ttl).peer = Dst
      BY <1>0, <1>2, <2>1 DEF CandidatesKept
    <3> QED
      BY <2>2, <3>1
  <2> QED
    BY <2>3, <2>4, <2>5 DEF FinalInv
<1> QED
  BY <1>1, <1>2 DEF updateRoundFinalTTL

\* The other steps do not touch what is known of the round's answers.
LEMMA FinalOther ==
  ASSUME RdInv, RdInv', FinalInv,
         \/ Start \/ LoopTop \/ LoopCancelled \/ SweepDone \/ WaitReplies \/ BuildRound
         \/ FallbackRound \/ DropResult \/ recordSuccess \/ handleProbeError \/ WaitOver
         \/ RawStep \/ RawHop \/ RawPrint \/ emitPreview \/ Ask
  PROVE  FinalInv'
<1>0. eng \in Engines
  BY DEF RdInv, RdTypes, Engines
<1> DEFINE Unmoved ==
      /\ UNCHANGED <<maps, cand>>
      /\ eng'.rf = eng.rf /\ eng'.stale = eng.stale /\ eng'.seq = eng.seq /\ eng'.ttl = eng.ttl
      /\ eng'.round = eng.round \/ eng'.round = eng.round + 1
<1> SUFFICES Unmoved
  BY FinalStays
<1>1. CASE SweepDone \/ DropResult \/ WaitOver \/ emitPreview \/ Ask \/ RawHop \/ RawPrint
  BY <1>1 DEF SweepDone, DropResult, WaitOver, emitPreview, Ask, RawHop, RawPrint, engVars
<1>2. CASE WaitReplies
  BY <1>2 DEF WaitReplies
<1>3. ASSUME EndCancelled PROVE Unmoved
  BY <1>0, <1>3 DEF EndCancelled, EndRun, Engines
<1>4. CASE Start
  BY <1>0, <1>4 DEF Start, EndRun, Engines
<1>5. CASE LoopTop
  BY <1>0, <1>5 DEF LoopTop, Engines
<1>6. CASE LoopCancelled
  BY <1>3, <1>6 DEF LoopCancelled
<1>7. CASE BuildRound
  <2>1. PICK known : eng' = [eng EXCEPT !.known = known]
    BY <1>7 DEF BuildRound
  <2> QED
    BY <1>0, <1>7, <2>1 DEF BuildRound, Engines
<1>8. CASE FallbackRound
  BY <1>0, <1>8 DEF FallbackRound, Engines
<1>9. CASE recordSuccess
  BY <1>0, <1>9 DEF recordSuccess, EndRun, Engines
<1>10. CASE handleProbeError
  BY <1>0, <1>3, <1>10 DEF handleProbeError, EndRun, Engines
<1>11. CASE RawStep
  BY <1>0, <1>11 DEF RawStep, RawTop, RawReturns, RawInterval, RawTraced, engVars, Engines
<1> QED
  BY <1>1, <1>2, <1>4, <1>5, <1>6, <1>7, <1>8, <1>9, <1>10, <1>11

LEMMA FinalInitHolds == RdInit => FinalInv
<1> SUFFICES ASSUME RdInit PROVE FinalInv
  OBVIOUS
<1>1. maps = NoMaps /\ cand = {} /\ eng.rf = 0
  BY DEF RdInit
<1> QED
  BY <1>1 DEF FinalInv, RegisteredKept, CandidatesKept, FinalTTLOfThisRound, NoMaps

LEMMA FinalStepHolds ==
  ASSUME RdInv, RdInv', FinalInv, [RdNext]_rdVars
  PROVE  FinalInv'
<1>1. CASE UNCHANGED rdVars
  BY <1>1, FinalStays DEF rdVars
<1>2. CASE BeginRound \/ SendProbe
  BY <1>2, FinalBeginRound, FinalSendProbe
<1>3. CASE LoopStep /\ ~ (BeginRound \/ SendProbe)
  BY <1>3, FinalOther DEF LoopStep
<1>4. CASE RawStep \/ RawHop \/ RawPrint \/ emitPreview \/ Ask
  BY <1>4, FinalOther
<1>5. ASSUME NEW p \in net, onICMP(p) PROVE FinalInv'
  BY <1>5, FinalAnswer
<1>6. ASSUME NEW c \in cand, updateRoundFinalTTL(c) PROVE FinalInv'
  BY <1>6, FinalUpdated
<1> QED
  BY <1>1, <1>2, <1>3, <1>4, <1>5, <1>6 DEF RdNext

\* Whatever the number of hops and however late, lost or misattributed replies are, the TTL
\* at which the rows of a round end is that of an answer the destination gave in the round,
\* unless an onICMP that left the mutex before the round began set it afterwards: that
\* window between e.mu and updateRoundFinalTTL is the only way to a final TTL of another
\* round.
THEOREM FinalTTLsOwn == RdSpec => []FinalTTLOfThisRound
<1>1. RdInit => FinalInv
  BY FinalInitHolds
<1>2. RdInv /\ RdInv' /\ FinalInv /\ [RdNext]_rdVars => FinalInv'
  BY FinalStepHolds
<1>3. FinalInv => FinalTTLOfThisRound
  BY DEF FinalInv
<1> QED
  BY <1>1, <1>2, <1>3, RdInvariance, PTL DEF RdSpec

\* Whatever the number of hops, however late replies are and however often the engine is
\* rotated, a row that was counted is the answer to its round's probe of its TTL unless a
\* rotation drew an identifier again with probes out, and a round ends at a TTL of its own
\* (FinalTTLsOwn); and RunMTRRaw returns when no round of it runs and has written no hop
\* twice.
THEOREM RoundsAreSound == RdSpec => []RoundsSound
<1>1. RdInv => RowsOfTheirRound
  <2>1. CASE ~ reused
    BY <2>1 DEF RdInv, Numbered
  <2>2. CASE reused
    BY <2>2 DEF RowsOfTheirRound
  <2> QED
    BY <2>1, <2>2
<1>2. RdInv => RawReturnsClean
  BY DEF RdInv, PlaceKept, RawReturnsClean, Over
<1>3. RowsOfTheirRound /\ FinalTTLOfThisRound /\ RawReturnsClean => RoundsSound
  BY DEF RoundsSound
<1> QED
  BY <1>1, <1>2, <1>3, FinalTTLsOwn, RdInvariance, PTL

(***************************************************************************)
(* The runs by rounds implement MTRRun, liveness apart: each step is a     *)
(* step of the run as its reader sees it, or none.                         *)
(***************************************************************************)
TableStep == [Table!Next]_(Table!runVars)

\* Nothing the reader sees.
LEMMA Unseen ==
  ASSUME UNCHANGED <<agg, shown>>, ui'.cancelled = ui.cancelled, Over' = Over
  PROVE  TableStep
<1> QED
  BY DEF TableStep, Table!runVars

\* The run ends, with the table shown if it was cancelled.
LEMMA Ended ==
  ASSUME ~ Over, Over', agg' = agg, ui'.cancelled = ui.cancelled,
         shown' = IF ui.cancelled THEN Len(agg) ELSE shown
  PROVE  TableStep
<1>1. Over' = TRUE
  BY DEF Over
<1>2. Table!End
  BY <1>1 DEF Table!End
<1> QED
  BY <1>2 DEF TableStep, Table!Next

LEMMA CancelledShown ==
  ASSUME RdInv, EndCancelled, mode # "raw", loop.pc # "over"
  PROVE  TableStep
<1>1. ui.cancelled /\ shown' = loop.iter /\ agg' = agg /\ ui' = ui
  BY DEF EndCancelled, emitSnapshot
<1>2. loop.iter = Len(agg)
  BY DEF RdInv, TableKept
<1>3. loop \in Loops
  BY DEF RdInv, RdTypes, Loops
<1>4. Over' /\ ~ Over
  BY <1>3 DEF EndCancelled, EndRun, Over, Loops
<1> QED
  BY <1>1, <1>2, <1>4, Ended

LEMMA RdInitShown == RdInit => Table!Init
<1> SUFFICES ASSUME RdInit PROVE Table!Init
  OBVIOUS
<1>1. Len(agg) = 0 /\ shown = 0 /\ ui.cancelled = FALSE /\ loop.pc = "start"
  BY DEF RdInit
<1>2. Over = FALSE
  BY <1>1 DEF Over
<1> QED
  BY <1>1, <1>2 DEF Table!Init

LEMMA LoopShown ==
  ASSUME RdInv, LoopStep
  PROVE  TableStep
<1>0. /\ loop \in Loops /\ TableKept /\ PlaceKept
      /\ ui \in [paused : BOOLEAN, reset : BOOLEAN, resets : Nat, cancelled : BOOLEAN]
      /\ agg \in Seq([round : Nat, rows : Partial(Nat, RdRow)])
  BY DEF RdInv, RdTypes, Loops
<1>1. CASE Start
  <2>1. UNCHANGED <<agg, shown, ui>> /\ ~ Over
    BY <1>1 DEF Start, Over
  <2>2. CASE EndRun(loop)
    <3>1. Over'
      BY <1>0, <2>2 DEF EndRun, Over, Loops
    <3>2. shown = Len(agg)
      BY <1>0, <1>1 DEF TableKept, Start
    <3> QED
      BY <2>1, <3>1, <3>2, Ended
  <2>3. CASE Goto("top")
    <3>1. loop'.pc = "top"
      BY <1>0, <2>3 DEF Goto, Loops
    <3>2. Over' = Over
      BY <2>1, <3>1 DEF Over
    <3> QED
      BY <2>1, <3>2, Unseen
  <2> QED
    BY <1>1, <2>2, <2>3 DEF Start
<1>2. CASE LoopTop
  <2>1. ~ Over /\ shown' = shown /\ loop.pc = "top"
    BY <1>2 DEF LoopTop, Over
  <2>2. loop'.pc = "paused" /\ ui'.cancelled = ui.cancelled
    BY <1>0, <1>2 DEF LoopTop, Goto, Loops
  <2>3. Over' = Over
    BY <2>1, <2>2 DEF Over
  <2>4. CASE ~ ui.reset
    BY <1>2, <2>1, <2>2, <2>3, <2>4, Unseen DEF LoopTop
  <2>5. CASE ui.reset
    <3>1. Len(agg') = 0
      BY <1>2, <2>5 DEF LoopTop
    <3>2. Table!Reset
      BY <2>1, <2>2, <2>3, <3>1 DEF Table!Reset
    <3> QED
      BY <3>2 DEF TableStep, Table!Next
  <2> QED
    BY <2>4, <2>5
<1>3. CASE LoopCancelled
  BY <1>3, CancelledShown DEF LoopCancelled
<1>4. CASE BeginRound
  <2>1. loop.pc = "paused" /\ loop'.pc \in {"sweep", "error"}
    BY <1>0, <1>4 DEF BeginRound, Goto, Loops
  <2>2. Over' = Over
    BY <2>1 DEF Over
  <2> QED
    BY <1>4, <2>2, Unseen DEF BeginRound
<1>5. CASE SendProbe
  <2>1. UNCHANGED <<agg, shown, ui>> /\ ~ Over /\ ~ ui.cancelled
    BY <1>5 DEF SendProbe, Over
  <2>2. CASE EndRun(loop)
    <3>1. Over'
      BY <1>0, <2>2 DEF EndRun, Over, Loops
    <3> QED
      BY <2>1, <3>1, Ended
  <2>3. CASE UNCHANGED loop
    BY <2>1, <2>3, Unseen DEF Over
  <2> QED
    BY <1>5, <2>2, <2>3 DEF SendProbe
<1>6. CASE SweepDone \/ WaitReplies
  <2>1. loop.pc \in {"sweep", "wait"} /\ loop'.pc \in {"error", "wait", "build"}
    BY <1>0, <1>6 DEF SweepDone, WaitReplies, Goto, Loops
  <2>2. Over' = Over
    BY <2>1 DEF Over
  <2> QED
    BY <1>6, <2>2, Unseen DEF SweepDone, WaitReplies
<1>7. CASE BuildRound \/ FallbackRound \/ DropResult
  <2>1. loop.pc \in {"build", "paused", "built"} /\ UNCHANGED <<agg, shown, ui>>
    BY <1>7 DEF BuildRound, FallbackRound, DropResult
  <2>2. loop'.pc \in {"built", "error"}
    BY <1>0, <1>7 DEF BuildRound, FallbackRound, DropResult, Goto, Loops
  <2>3. Over' = Over
    BY <2>1, <2>2 DEF Over
  <2> QED
    BY <2>1, <2>3, Unseen
<1>8. CASE recordSuccess
  <2>1. mode # "raw" /\ ~ Over /\ ui' = ui
    BY <1>0, <1>8 DEF recordSuccess, PlaceKept, Over
  <2>2. shown' = loop.iter + 1
    BY <1>0, <1>8 DEF recordSuccess, Loops
  <2>3. Len(agg') = Len(agg) + 1
    BY <1>0, <1>8 DEF recordSuccess
  <2>4. loop.iter = Len(agg)
    BY <1>0, <2>1 DEF TableKept
  <2>5. Over' \in BOOLEAN
    BY DEF Over
  <2>6. Table!Count
    BY <2>1, <2>2, <2>3, <2>4, <2>5 DEF Table!Count
  <2> QED
    BY <2>6 DEF TableStep, Table!Next
<1>9. CASE handleProbeError
  <2>1. mode # "raw" /\ ~ Over /\ loop.pc = "error"
    BY <1>0, <1>9 DEF handleProbeError, PlaceKept, Over
  <2>2. CASE ui.cancelled
    BY <1>9, <2>1, <2>2, CancelledShown DEF handleProbeError
  <2>3. CASE ~ ui.cancelled
    <3>1. PICK l : /\ l = [loop EXCEPT !.errs = @ + 1]
                   /\ EndRun(l) \/ loop' = [l EXCEPT !.pc = "backoff"]
                   /\ UNCHANGED <<agg, shown, ui>>
      BY <1>9, <2>3 DEF handleProbeError
    <3>2. CASE EndRun(l)
      <4>1. Over'
        BY <1>0, <3>1, <3>2 DEF EndRun, Over, Loops
      <4> QED
        BY <2>1, <2>3, <3>1, <4>1, Ended
    <3>3. CASE loop' = [l EXCEPT !.pc = "backoff"]
      <4>1. loop'.pc = "backoff"
        BY <1>0, <3>1, <3>3 DEF Loops
      <4>2. Over' = Over
        BY <2>1, <4>1 DEF Over
      <4> QED
        BY <3>1, <4>2, Unseen
    <3> QED
      BY <3>1, <3>2, <3>3
  <2> QED
    BY <2>2, <2>3
<1>10. CASE WaitOver
  <2>1. loop.pc \in {"backoff", "interval"} /\ loop'.pc = "top"
    BY <1>0, <1>10 DEF WaitOver, Loops
  <2>2. Over' = Over
    BY <2>1 DEF Over
  <2> QED
    BY <1>10, <2>2, Unseen DEF WaitOver
<1> QED
  BY <1>1, <1>2, <1>3, <1>4, <1>5, <1>6, <1>7, <1>8, <1>9, <1>10 DEF LoopStep

LEMMA RawShown ==
  ASSUME RdInv, RawStep \/ RawHop \/ RawPrint
  PROVE  TableStep
<1>0. loop \in Loops /\ TableKept /\ PlaceKept
  BY DEF RdInv, RdTypes, Loops
<1>1. UNCHANGED <<agg, shown, ui>>
  BY DEF RawStep, RawTop, RawReturns, RawInterval, RawTraced, RawHop, RawPrint
<1>2. CASE UNCHANGED loop
  BY <1>1, <1>2, Unseen DEF Over
<1>3. CASE RawTop \/ RawReturns \/ RawInterval
  <2>1. mode = "raw" /\ loop.pc # "over" /\ loop'.pc \in {"over", "tracing", "top", "interval"}
    BY <1>0, <1>3 DEF RawTop, RawReturns, RawInterval, Goto, Loops, PlaceKept
  <2>2. shown = Len(agg)
    BY <1>0, <2>1 DEF TableKept
  <2>3. CASE loop'.pc = "over"
    BY <1>1, <2>1, <2>2, <2>3, Ended DEF Over
  <2>4. CASE loop'.pc # "over"
    <3>1. Over' = Over
      BY <2>1, <2>4 DEF Over
    <3> QED
      BY <1>1, <3>1, Unseen
  <2> QED
    BY <2>3, <2>4
<1> QED
  BY <1>2, <1>3 DEF RawStep, RawTraced, RawHop, RawPrint

LEMMA StepShown == RdInv /\ [RdNext]_rdVars => TableStep
<1> SUFFICES ASSUME RdInv, [RdNext]_rdVars PROVE TableStep
  OBVIOUS
<1>0. /\ TableKept
      /\ ui \in [paused : BOOLEAN, reset : BOOLEAN, resets : Nat, cancelled : BOOLEAN]
  BY DEF RdInv, RdTypes
<1>1. CASE UNCHANGED rdVars
  BY <1>1, Unseen DEF rdVars, Over
<1>2. CASE LoopStep
  BY <1>2, LoopShown
<1>3. CASE RawStep \/ RawHop \/ RawPrint
  BY <1>3, RawShown
<1>4. CASE emitPreview
  <2>1. /\ ~ Over /\ shown' = loop.iter + 1 /\ mode # "raw"
        /\ UNCHANGED <<agg, ui, loop>>
    BY <1>4 DEF emitPreview, Over
  <2>2. loop.iter = Len(agg)
    BY <1>0, <2>1 DEF TableKept
  <2>3. Over' = Over
    BY <2>1 DEF Over
  <2>4. Table!Preview
    BY <2>1, <2>2, <2>3 DEF Table!Preview
  <2> QED
    BY <2>4 DEF TableStep, Table!Next
<1>5. CASE Ask
  <2>1. UNCHANGED <<agg, shown, loop>>
    BY <1>5 DEF Ask
  <2>2. Over' = Over
    BY <2>1 DEF Over
  <2>3. CASE ui'.cancelled = ui.cancelled
    BY <2>1, <2>2, <2>3, Unseen
  <2>4. CASE ui'.cancelled # ui.cancelled
    <3>1. ~ ui.cancelled /\ ui' = [ui EXCEPT !.cancelled = TRUE]
      BY <1>0, <1>5, <2>4 DEF Ask
    <3>2. ui'.cancelled = TRUE
      BY <1>0, <3>1
    <3>3. Table!Cancel
      BY <2>1, <2>2, <3>1, <3>2 DEF Table!Cancel
    <3> QED
      BY <3>3 DEF TableStep, Table!Next
  <2> QED
    BY <2>3, <2>4
<1>6. ASSUME NEW p \in net, onICMP(p) PROVE TableStep
  BY <1>6, Unseen DEF onICMP, Over
<1>7. ASSUME NEW c \in cand, updateRoundFinalTTL(c) PROVE TableStep
  BY <1>7, Unseen DEF updateRoundFinalTTL, Over
<1> QED
  BY <1>1, <1>2, <1>3, <1>4, <1>5, <1>6, <1>7 DEF RdNext

\* The safety part of TableSpec: for every number of hops, rounds and errors, the table
\* counts each completed round once, previews are never counted, a cancelled run ends with
\* its table shown, and a run that ended shows and counts nothing more
\* (mtrLoopRuntime.run, runMTRRawRoundBased).
THEOREM RoundsImplementRun == RdSpec => Table!Init /\ [][Table!Next]_(Table!runVars)
<1>1. RdInv /\ [RdNext]_rdVars => [Table!Next]_(Table!runVars)
  BY StepShown DEF TableStep
<1> QED
  BY <1>1, RdInitShown, RdInvariance, PTL DEF RdSpec

=============================================================================
