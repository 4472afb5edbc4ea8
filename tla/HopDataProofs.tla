--------------------------- MODULE HopDataProofs ---------------------------
(***************************************************************************)
(* Proofs about the components that make the data of a hop: the locations  *)
(* (GeoLookup with ApiV4), the ICMP engine (MTRICMPEngine) and the         *)
(* statistics (MTRAggregator), for any number of hops, addresses,          *)
(* connections, calls, rotations, paths, results and resets.               *)
(***************************************************************************)
EXTENDS MTRICMPEngine, GeoLookup, MTRAggregator, FiniteSetTheorems, SequenceTheorems,
        WellFoundedInduction, TLAPS

(***************************************************************************)
(* Types of the lookups                                                    *)
(***************************************************************************)
Keys == {<< >>} \cup (Nat \X Resolvers)
V4Calls == [pc : {"none", "fastIP", "insert", "request"}, key : Keys, try : Nat]
Flights == [pc : {"none", "drain", "connect", "send", "receive", "answer", "v4", "other"},
            conn : 0 .. MaxConns, timeout : Nat, v4 : V4Calls]
Locations == {Absent, "data", "error"}
HopRows == [pc : {"none", "start", "cache", "try", "wait", "answered", "load", "update",
                  "done", "dropped"},
            host : BOOLEAN, try : Nat,
            got : {Absent, "data", "error", "fail", "timeout"},
            row : {Absent, "pending", "timeout", "data", "error"}]
States == {"none", "up", "down", "replaced", "closing", "closed"}
Answer == [addr : Addrs, geo : {"data", "error"}]
Sockets == [cur : 0 .. MaxConns, state : [Conns -> States],
            sent : [Conns -> Seq(Addrs)], recv : [Conns -> Seq(Answer)]]

ApiType == api \in [cache : SUBSET Keys, order : Seq(Keys), fastIP : BOOLEAN]
FlightType == flight \in [Queries -> Flights]
HopType ==
  /\ opts \in Cases
  /\ hop \in [Hops -> HopRows]
  /\ geoCache \in [Queries -> Locations \cup {"timeout"}]
  /\ pool \in [Addrs -> Locations]
TraceType ==
  trace \in [pc : {"tracing", "waiting", "marking", "returned"},
             geoCanceled : BOOLEAN, ctxDone : BOOLEAN]
LoopType ==
  loop \in [pc : {"off", "top", "range", "decide"}, conn : 0 .. MaxConns,
            running : BOOLEAN, restart : BOOLEAN]
WsType == ws \in Sockets

GeoTypes ==
  ApiType /\ FlightType /\ HopType /\ TraceType /\ LoopType /\ WsType

(***************************************************************************)
(* The invariants                                                          *)
(***************************************************************************)
\* What a lookup has found when it comes to write it, when it is given up, and the row
\* it leaves (RowsSettled): r is what hop h may be.
GoodRow(h, r) ==
  /\ r.pc = "none" => r.got = Absent
  /\ r.pc \in {"load", "update", "done"} => r.got # "fail"
  /\ r.pc = "answered" => r.got # Absent
  /\ r.pc \in {"cache", "try", "wait", "answered"} => opts.source # "nil"
  /\ h \notin opts.direct =>
       /\ r.pc \in {"load", "update"} /\ opts.source # "nil" => r.got # Absent
       /\ r.pc = "done" /\ opts.source # "nil" => r.row = r.got
       /\ trace.pc = "returned" => r.row # "pending"
       /\ r.pc = "dropped" => trace.pc \in {"marking", "returned"}

RowInv ==
  /\ \A h \in Hops : GoodRow(h, hop[h])
  /\ trace.geoCanceled => trace.pc \in {"marking", "returned"}

\* Only the connection in use is up or may come up again.
ConnInv ==
  /\ \A d \in Conns : d # ws.cur => ws.state[d] \notin {"up", "down"}
  /\ ws.cur # 0 => ws.state[ws.cur] # "none"

\* A lookup on a connection, and the loop that will read it.
ServeInv ==
  /\ \A q \in Queries :
       flight[q].pc \in {"connect", "send", "receive", "answer"} =>
         flight[q].conn \in Conns /\ ws.state[flight[q].conn] # "none"
  /\ loop.running <=> loop.pc # "off"
  /\ loop.pc = "range" => loop.conn \in Conns
  /\ \A q \in Queries :
       flight[q].pc = "answer" /\ flight[q].conn = ws.cur
         /\ ws.state[ws.cur] \in {"up", "down"} =>
         loop.pc \in {"top", "range"} \/ (loop.pc = "decide" /\ loop.restart)

\* The bookkeeping of the cache of API v4 clients, with what makes it countable.
CacheInv == CacheConsistent /\ IsFiniteSet(api.cache)

GeoInv == GeoTypes /\ RowInv /\ ConnInv /\ ServeInv /\ CacheInv

(***************************************************************************)
(* The cache of API v4 clients                                             *)
(***************************************************************************)
\* A client that is not in the cache goes to the end of the order; the oldest goes
\* if there are too many.
LEMMA EvictKeeps ==
  ASSUME NEW cache \in SUBSET Keys, NEW order \in Seq(Keys), NEW key \in Keys,
         IsFiniteSet(cache), Cardinality(cache) <= CacheMaxSize,
         IsInjective(order), ToSet(order) = cache, key \notin cache
  PROVE  LET kept == Evict(cache \cup {key}, Append(order, key))
         IN  /\ kept.cache \in SUBSET Keys /\ kept.order \in Seq(Keys)
             /\ IsFiniteSet(kept.cache) /\ Cardinality(kept.cache) <= CacheMaxSize
             /\ IsInjective(kept.order) /\ ToSet(kept.order) = kept.cache
<1> DEFINE all == cache \cup {key}
           list == Append(order, key)
           n == Len(order) + 1
           over == Cardinality(all) - CacheMaxSize
           gone == IF over <= 0 THEN 0 ELSE IF over > Len(list) THEN Len(list) ELSE over
<1>1. /\ list \in Seq(Keys) /\ Len(list) = n /\ n \in Nat \ {0} /\ DOMAIN list = 1 .. n
      /\ \A i \in 1 .. n - 1 : list[i] = order[i]
      /\ list[n] = key /\ DOMAIN order = 1 .. n - 1
  BY AppendProperties, LenProperties
<1>2. /\ ToSet(list) = all
      /\ \A i, j \in 1 .. n : list[i] = list[j] => i = j
  <2>1. \A i \in 1 .. n - 1 : order[i] \in cache
    BY <1>1 DEF ToSet
  <2>2. \A i, j \in 1 .. n - 1 : order[i] = order[j] => i = j
    BY <1>1 DEF IsInjective
  <2>3. \A i \in 1 .. n : i \in 1 .. n - 1 \/ i = n
    BY <1>1
  <2>4. \A x \in cache : \E i \in 1 .. n - 1 : x = order[i]
    BY <1>1 DEF ToSet
  <2>5. n \in 1 .. n /\ \A i \in 1 .. n - 1 : i \in 1 .. n
    BY <1>1
  <2>6. ToSet(list) = all
    BY <1>1, <2>1, <2>3, <2>4, <2>5 DEF ToSet
  <2>7. \A i, j \in 1 .. n : list[i] = list[j] => i = j
    BY <1>1, <2>1, <2>2, <2>3
  <2> QED
    BY <2>6, <2>7
<1>3. IsFiniteSet(all) /\ Cardinality(all) = Cardinality(cache) + 1 /\ Cardinality(cache) \in Nat
  BY FS_AddElement, FS_CardinalityType
<1>4. /\ CacheMaxSize \in Nat \ {0} /\ over \in Int /\ over <= 1
      /\ gone \in {0, 1}
      /\ gone = 0 => Cardinality(all) <= CacheMaxSize
  BY <1>1, <1>3, ApiV4Assumption
<1> DEFINE rest == SubSeq(list, gone + 1, n)
           left == all \ ToSet(SubSeq(list, 1, gone))
<1>5. Evict(all, list) = [cache |-> left, order |-> rest]
  BY <1>1 DEF Evict
<1>a. all \subseteq Keys
  OBVIOUS
<1> HIDE DEF all, list, n, over, gone
<1> DEFINE Sound(c, o) ==
      /\ c \in SUBSET Keys /\ o \in Seq(Keys)
      /\ IsFiniteSet(c) /\ Cardinality(c) <= CacheMaxSize
      /\ IsInjective(o) /\ ToSet(o) = c
<1>6. ASSUME gone = 0 PROVE Sound(left, rest)
  <2>1. SubSeq(list, 1, 0) = << >> /\ ToSet(<< >>) = {}
    BY SubSeqEmpty DEF ToSet
  <2>2. rest = list
    BY <1>1, <1>6, SubSeqFull
  <2>3. left = all
    BY <1>6, <2>1
  <2>4. IsInjective(list)
    BY <1>1, <1>2 DEF IsInjective
  <2>5. Sound(all, list)
    BY <1>a, <1>1, <1>2, <1>3, <1>4, <1>6, <2>4
  <2> QED
    BY <2>2, <2>3, <2>5
<1>7. ASSUME gone = 1 PROVE Sound(left, rest)
  <2>1. /\ rest \in Seq(Keys) /\ Len(rest) = n - 1
        /\ \A i \in 1 .. n - 1 : rest[i] = list[i + 1]
    <3>1. \A i \in 2 .. n : list[i] \in Keys
      BY <1>1, ElementOfSeq
    <3>2. 2 \in Int /\ n \in Int /\ (IF 2 <= n THEN n - 2 + 1 ELSE 0) = n - 1
          /\ n - 2 + 1 = n - 1 /\ \A i \in 1 .. n - 1 : 2 + i - 1 = i + 1
      BY <1>1
    <3> QED
      BY <1>7, <3>1, <3>2, SubSeqProperties
  <2>2. DOMAIN rest = 1 .. n - 1
    BY <2>1, LenProperties
  <2>3. ToSet(SubSeq(list, 1, 1)) = {list[1]}
    <3>1. list[1] \in Keys
      BY <1>1, ElementOfSeq
    <3>2. /\ SubSeq(list, 1, 1) \in Seq(Keys) /\ Len(SubSeq(list, 1, 1)) = 1
          /\ SubSeq(list, 1, 1)[1] = list[1]
      BY <3>1, SubSeqProperties
    <3>3. DOMAIN SubSeq(list, 1, 1) = {1}
      BY <3>2, LenProperties
    <3> QED
      BY <3>2, <3>3 DEF ToSet
  <2>4. IsInjective(rest)
    <3>1. \A i, j \in 1 .. n - 1 : i + 1 \in 1 .. n /\ j + 1 \in 1 .. n /\ (i + 1 = j + 1 => i = j)
      BY <1>1
    <3>2. \A i, j \in 1 .. n - 1 : rest[i] = rest[j] => i = j
      BY <1>2, <2>1, <3>1, Zenon
    <3> QED
      BY <2>2, <3>2, Zenon DEF IsInjective
  <2>5. list[1] \in all /\ ToSet(rest) = all \ {list[1]}
    <3>1. list[1] \in all /\ ToSet(list) = {list[i] : i \in 1 .. n}
      BY <1>1, <1>2 DEF ToSet
    <3>2. ToSet(rest) = {list[i + 1] : i \in 1 .. n - 1}
      BY <2>1, <2>2 DEF ToSet
    <3>3. \A i \in 1 .. n : i = 1 \/ (i - 1 \in 1 .. n - 1 /\ i = (i - 1) + 1)
      BY <1>1
    <3>4. \A i \in 1 .. n - 1 : i + 1 \in 1 .. n /\ i + 1 # 1
      BY <1>1
    <3>5. \A i \in 1 .. n - 1 : list[i + 1] # list[1] /\ list[i + 1] \in all
      BY <1>1, <1>2, <3>1, <3>4
    <3>6. \A x \in all : x # list[1] => \E i \in 1 .. n - 1 : x = list[i + 1]
      BY <1>2, <3>1, <3>3
    <3> QED
      BY <3>1, <3>2, <3>5, <3>6
  <2>6. IsFiniteSet(all \ {list[1]}) /\ Cardinality(all \ {list[1]}) = Cardinality(all) - 1
    BY <1>3, <2>5, FS_RemoveElement
  <2>7. Cardinality(all \ {list[1]}) <= CacheMaxSize
    BY <1>3, <1>4, <2>6 DEF over
  <2>8. left = all \ {list[1]}
    BY <1>7, <2>3
  <2>9. Sound(all \ {list[1]}, rest)
    BY <1>a, <2>1, <2>4, <2>5, <2>6, <2>7
  <2> HIDE DEF rest, left
  <2> QED
    BY <2>8, <2>9
<1>8. Sound(left, rest)
  BY <1>4, <1>6, <1>7
<1> HIDE DEF rest, left
<1>9. Evict(all, list).cache = left /\ Evict(all, list).order = rest
  BY <1>5
<1> QED
  BY <1>8, <1>9 DEF all, list

\* The cache keeps its bookkeeping: only V4Client adds to it, and it looks again under
\* the write lock whether the client is still missing.
LEMMA CacheKept ==
  ASSUME ApiType, FlightType, CacheInv, [GeoNext]_geoVars
  PROVE  ApiType' /\ CacheInv'
<1>1. CASE UNCHANGED api
  BY <1>1 DEF ApiType, CacheInv, CacheConsistent
<1>2. ASSUME NEW found \in BOOLEAN, api' = [api EXCEPT !.fastIP = @ \/ found]
      PROVE  ApiType' /\ CacheInv'
  <2>1. api'.cache = api.cache /\ api'.order = api.order /\ ApiType'
    BY <1>2 DEF ApiType
  <2> QED
    BY <2>1 DEF CacheInv, CacheConsistent
<1>3. ASSUME NEW key \in Keys, InsertClient(key)
      PROVE  ApiType' /\ CacheInv'
  <2> DEFINE kept == Evict(api.cache \cup {key}, Append(api.order, key))
  <2>1. CASE key \in api.cache
    BY <1>1, <1>3, <2>1 DEF InsertClient
  <2>2. CASE key \notin api.cache
    <3>1. /\ kept.cache \in SUBSET Keys /\ kept.order \in Seq(Keys)
          /\ IsFiniteSet(kept.cache) /\ Cardinality(kept.cache) <= CacheMaxSize
          /\ IsInjective(kept.order) /\ ToSet(kept.order) = kept.cache
      <4>1. /\ api.cache \in SUBSET Keys /\ api.order \in Seq(Keys)
            /\ IsFiniteSet(api.cache) /\ Cardinality(api.cache) <= CacheMaxSize
            /\ IsInjective(api.order) /\ ToSet(api.order) = api.cache
        BY DEF ApiType, CacheInv, CacheConsistent
      <4> QED
        BY <4>1, <2>2, EvictKeeps
    <3>2. api' = [api EXCEPT !.cache = kept.cache, !.order = kept.order]
      BY <1>3, <2>2 DEF InsertClient
    <3> HIDE DEF kept
    <3>3. /\ api'.cache = kept.cache /\ api'.order = kept.order
          /\ api' \in [cache : SUBSET Keys, order : Seq(Keys), fastIP : BOOLEAN]
      BY <3>1, <3>2 DEF ApiType
    <3> QED
      BY <3>1, <3>3 DEF ApiType, CacheInv, CacheConsistent
  <2> QED
    BY <2>1, <2>2
<1>4. ASSUME NEW q \in Queries, V4Prepare(q)
      PROVE  ApiType' /\ CacheInv'
  BY <1>2, <1>4 DEF V4Prepare, PrepareFastIP
<1>5. ASSUME NEW q \in Queries, V4Client(q)
      PROVE  ApiType' /\ CacheInv'
  <2>1. flight[q].v4.key \in Keys
    BY DEF FlightType, Flights, V4Calls
  <2> QED
    BY <1>3, <1>5, <2>1 DEF V4Client
<1>6. ASSUME NEW h \in Hops, HopStep(h)
      PROVE  UNCHANGED api
  BY <1>6, Zenon DEF HopStep, AddHop, LookupIPGeo, FetchIPData, ReadGeoCache, StartTry, TryTimesOut,
     TakeResult, CheckCanceled, UpdateHop, WaitGeoOver
<1>7. ASSUME NEW c \in Conns, ConnStep(c)
      PROVE  UNCHANGED api
  BY <1>7, Zenon DEF ConnStep, ReplaceConn, CloseConn, BreakConn, AnswerRequest
<1>8. ASSUME TraceStep \/ LoopStep
      PROVE  UNCHANGED api
  BY <1>8, Zenon DEF TraceStep, ContextDone, ExecuteReturns, GiveUpWaiting, TracerouteReturns,
     ClearCaches, LoopStep, ReceiveParse, DispatchLeoMessage, ReceiveParseConnEnds,
     RunReceiveParseLoop
<1>9. ASSUME NEW q \in Queries, FlightStep(q)
      PROVE  UNCHANGED api \/ V4Prepare(q) \/ V4Client(q)
  BY <1>9, Zenon DEF FlightStep, DrainStaleGeo, WaitUntilConnected, SendIPRequest,
     StartReceiveParse, ReceiveGeo, LeoTimesOut, OtherSource, V4Lookup
<1>10. CASE UNCHANGED geoVars
  BY <1>1, <1>10 DEF geoVars
<1> QED
  BY <1>1, <1>4, <1>5, <1>6, <1>7, <1>8, <1>9, <1>10 DEF GeoNext

(***************************************************************************)
(* The rows of the hops                                                    *)
(***************************************************************************)
\* A step that changes one row, to a good one.
LEMMA SetRow ==
  ASSUME HopType, RowInv, NEW h \in Hops, NEW r \in HopRows, GoodRow(h, r),
         hop' = [hop EXCEPT ![h] = r], UNCHANGED <<opts, trace>>
  PROVE  hop' \in [Hops -> HopRows] /\ RowInv'
<1>1. hop' \in [Hops -> HopRows]
  BY DEF HopType
<1>2. \A g \in Hops : GoodRow(g, hop'[g])
  BY DEF HopType, RowInv
<1>3. \A g \in Hops : GoodRow(g, hop[g])'
  BY <1>2 DEF GoodRow
<1> QED
  BY <1>1, <1>3 DEF RowInv

\* Got and AfterFailure make good rows.
LEMMA GotRow ==
  ASSUME HopType, NEW h \in Hops, NEW geo \in {"data", "error", "timeout"},
         hop[h].pc \in {"cache", "try", "wait", "answered"}, RowInv
  PROVE  \E r \in HopRows : Got(h, geo) = [hop EXCEPT ![h] = r] /\ GoodRow(h, r)
<1> DEFINE r == [hop[h] EXCEPT !.got = geo, !.pc = IF h \in opts.direct THEN "done" ELSE "load"]
<1>1. hop[h] \in HopRows /\ GoodRow(h, hop[h])
  BY DEF HopType, RowInv
<1>2. r \in HopRows /\ r.got = geo /\ r.row = hop[h].row
      /\ r.pc = IF h \in opts.direct THEN "done" ELSE "load"
  BY <1>1 DEF HopRows
<1>3. Got(h, geo) = [hop EXCEPT ![h] = r]
  BY DEF Got, HopType
<1>4. GoodRow(h, r)
  BY <1>1, <1>2 DEF GoodRow, Absent
<1> QED
  BY <1>2, <1>3, <1>4

LEMMA FailedRow ==
  ASSUME HopType, NEW h \in Hops, hop[h].pc \in {"wait", "answered"}, RowInv
  PROVE  \E r \in HopRows : AfterFailure(h) = [hop EXCEPT ![h] = r] /\ GoodRow(h, r)
<1> DEFINE r == [hop[h] EXCEPT !.pc = "try", !.try = hop[h].try + 1]
<1>1. hop[h] \in HopRows /\ GoodRow(h, hop[h])
  BY DEF HopType, RowInv
<1>2. r \in HopRows /\ r.got = hop[h].got /\ r.row = hop[h].row /\ r.pc = "try"
  <2>1. hop[h].try + 1 \in Nat
    BY <1>1 DEF HopRows
  <2> QED
    BY <1>1, <2>1 DEF HopRows
<1>3. GoodRow(h, r)
  BY <1>1, <1>2 DEF GoodRow, Absent
<1>4. [hop EXCEPT ![h].pc = "try", ![h].try = @ + 1] = [hop EXCEPT ![h] = r]
  BY DEF HopType
<1>5. CASE hop[h].try < opts.retries /\ ~ Stopped(h)
  BY <1>2, <1>3, <1>4, <1>5 DEF AfterFailure
<1>6. CASE ~ (hop[h].try < opts.retries /\ ~ Stopped(h))
  BY <1>6, GotRow DEF AfterFailure
<1> QED
  BY <1>5, <1>6

\* Every step keeps the rows good: one row at a time for the lookups, ...
LEMMA HopStepRows ==
  ASSUME HopType, TraceType, RowInv, NEW h \in Hops, HopStep(h)
  PROVE  HopType' /\ RowInv'
<1>1. hop[h] \in HopRows /\ GoodRow(h, hop[h]) /\ opts \in Cases
  BY DEF HopType, RowInv
<1>2. /\ opts.source \in {"nil", "ws", "v4", "other"} /\ opts.addr[h] \in Addrs
      /\ Query(h) \in Queries
  <2>1. opts.addr \in [Hops -> Addrs] /\ opts.dn42 \in BOOLEAN
        /\ opts.source \in {"nil", "ws", "v4", "other"} /\ hop[h].host \in BOOLEAN
    BY <1>1, GeoAssumption DEF HopRows
  <2> QED
    BY <2>1 DEF Query, Queries
<1>3. ASSUME NEW r \in HopRows, GoodRow(h, r), hop' = [hop EXCEPT ![h] = r],
             UNCHANGED <<opts, trace, pool>>,
             geoCache' \in [Queries -> Locations \cup {"timeout"}]
      PROVE  HopType' /\ RowInv'
  BY <1>3, SetRow DEF HopType
<1>4. geoCache \in [Queries -> Locations \cup {"timeout"}]
  BY DEF HopType
<1>5. CASE AddHop(h)
  <2> DEFINE r == [Idle EXCEPT !.pc = "start",
                               !.row = IF opts.source = "nil" THEN Absent ELSE "pending"]
  <2>1. r \in HopRows /\ r.pc = "start"
    BY DEF HopRows, Idle, Absent
  <2>2. GoodRow(h, r)
    BY <1>5, <2>1 DEF GoodRow, AddHop
  <2> QED
    BY <1>3, <1>4, <1>5, <2>1, <2>2 DEF AddHop
<1>6. CASE LookupIPGeo(h)
  <2> DEFINE r == [hop[h] EXCEPT !.pc = IF opts.addr[h] \in Reserved THEN "done" ELSE "cache"]
  <2>1. r \in HopRows /\ r.pc \in {"done", "cache"} /\ r.got = hop[h].got /\ r.row = hop[h].row
    BY <1>1 DEF HopRows
  <2>2. GoodRow(h, r)
    BY <1>1, <1>6, <2>1 DEF GoodRow, LookupIPGeo, Absent
  <2>3. hop' = [hop EXCEPT ![h] = r]
    BY <1>6 DEF LookupIPGeo, HopType
  <2>4. geoCache' \in [Queries -> Locations \cup {"timeout"}]
    BY <1>2, <1>4, <1>6 DEF LookupIPGeo, Locations
  <2> QED
    BY <1>3, <1>6, <2>1, <2>2, <2>3, <2>4 DEF LookupIPGeo
<1>7. ASSUME NEW named \in BOOLEAN, FetchIPData(h, named)
      PROVE  HopType' /\ RowInv'
  <2> DEFINE known == opts.addr[h] \in Reserved /\ ~ opts.dn42
             r == [hop[h] EXCEPT !.host = named,
                                 !.got = IF known /\ opts.source # "nil" THEN "data" ELSE Absent,
                                 !.pc = IF opts.source = "nil" \/ known THEN "load" ELSE "cache"]
  <2>1. /\ r \in HopRows
        /\ r.got = IF known /\ opts.source # "nil" THEN "data" ELSE Absent
        /\ r.pc = IF opts.source = "nil" \/ known THEN "load" ELSE "cache"
        /\ r.row = hop[h].row
    BY <1>1 DEF HopRows, Absent
  <2>2. GoodRow(h, r)
    BY <1>1, <2>1 DEF GoodRow, Absent
  <2>3. hop' = [hop EXCEPT ![h] = r]
    BY <1>7 DEF FetchIPData, HopType
  <2> QED
    BY <1>3, <1>4, <1>7, <2>1, <2>2, <2>3 DEF FetchIPData
<1>8. CASE ReadGeoCache(h)
  <2>1. CASE geoCache[Query(h)] # Absent
    <3>1. geoCache[Query(h)] \in {"data", "error", "timeout"}
      BY <1>2, <1>4, <2>1 DEF Locations
    <3> QED
      BY <1>3, <1>4, <1>8, <2>1, <3>1, GotRow DEF ReadGeoCache
  <2>2. CASE geoCache[Query(h)] = Absent
    <3> DEFINE r == [hop[h] EXCEPT !.pc = "try"]
    <3>1. r \in HopRows /\ r.pc = "try" /\ r.got = hop[h].got /\ r.row = hop[h].row
      BY <1>1 DEF HopRows
    <3>2. GoodRow(h, r)
      BY <1>1, <1>8, <3>1 DEF GoodRow, ReadGeoCache
    <3>3. hop' = [hop EXCEPT ![h] = r]
      BY <1>8, <2>2 DEF ReadGeoCache, HopType
    <3> QED
      BY <1>3, <1>4, <1>8, <3>1, <3>2, <3>3 DEF ReadGeoCache
  <2> QED
    BY <2>1, <2>2
<1>9. CASE StartTry(h)
  <2>1. CASE Stopped(h)
    BY <1>3, <1>4, <1>9, <2>1, GotRow DEF StartTry
  <2>2. CASE ~ Stopped(h)
    <3> DEFINE r == [hop[h] EXCEPT !.pc = "wait"]
    <3>1. r \in HopRows /\ r.pc = "wait" /\ r.got = hop[h].got /\ r.row = hop[h].row
      BY <1>1 DEF HopRows
    <3>2. GoodRow(h, r)
      BY <1>1, <1>9, <3>1 DEF GoodRow, StartTry
    <3>3. hop' = [hop EXCEPT ![h] = r]
      BY <1>9, <2>2 DEF StartTry, HopType
    <3> QED
      BY <1>3, <1>4, <1>9, <3>1, <3>2, <3>3 DEF StartTry
  <2> QED
    BY <2>1, <2>2
<1>10. CASE TryTimesOut(h)
  BY <1>3, <1>4, <1>10, FailedRow DEF TryTimesOut
<1>11. CASE TakeResult(h)
  <2>1. CASE hop[h].got = "fail"
    BY <1>3, <1>4, <1>11, <2>1, FailedRow DEF TakeResult
  <2>2. CASE hop[h].got # "fail"
    <3>1. hop[h].got \in {"data", "error", "timeout"}
      BY <1>1, <1>11, <2>2 DEF TakeResult, GoodRow, HopRows
    <3>2. geoCache' \in [Queries -> Locations \cup {"timeout"}]
      BY <1>2, <1>4, <1>11, <2>2, <3>1 DEF TakeResult, Locations
    <3> QED
      BY <1>3, <1>11, <2>2, <3>1, <3>2, GotRow DEF TakeResult
  <2> QED
    BY <2>1, <2>2
<1>12. CASE CheckCanceled(h)
  <2> DEFINE r == [hop[h] EXCEPT !.pc = IF trace.geoCanceled THEN "dropped" ELSE "update"]
  <2>1. /\ r \in HopRows /\ r.got = hop[h].got /\ r.row = hop[h].row
        /\ r.pc = IF trace.geoCanceled THEN "dropped" ELSE "update"
    BY <1>1 DEF HopRows
  <2>2. GoodRow(h, r)
    BY <1>1, <1>12, <2>1 DEF GoodRow, CheckCanceled, RowInv
  <2>3. hop' = [hop EXCEPT ![h] = r]
    BY <1>12 DEF CheckCanceled, HopType
  <2> QED
    BY <1>3, <1>4, <1>12, <2>1, <2>2, <2>3 DEF CheckCanceled
<1>13. CASE UpdateHop(h)
  <2> DEFINE r == [hop[h] EXCEPT !.pc = "done",
                                 !.row = IF hop[h].got = Absent THEN hop[h].row ELSE hop[h].got]
  <2>1. hop[h].got # "fail"
    BY <1>1, <1>13 DEF GoodRow, UpdateHop
  <2>2. /\ r \in HopRows /\ r.got = hop[h].got /\ r.pc = "done"
        /\ r.row = IF hop[h].got = Absent THEN hop[h].row ELSE hop[h].got
    BY <1>1, <2>1 DEF HopRows
  <2>3. GoodRow(h, r)
    BY <1>1, <1>13, <2>1, <2>2 DEF GoodRow, UpdateHop, HopRows, Absent
  <2>4. hop' = [hop EXCEPT ![h] = r]
    BY <1>13 DEF UpdateHop, HopType
  <2> QED
    BY <1>3, <1>4, <1>13, <2>2, <2>3, <2>4 DEF UpdateHop
<1>14. CASE WaitGeoOver(h)
  <2> DEFINE r == [hop[h] EXCEPT !.row = "timeout"]
  <2>1. r \in HopRows /\ r.got = hop[h].got /\ r.pc = hop[h].pc /\ r.row = "timeout"
    BY <1>1 DEF HopRows
  <2>2. hop[h].got # "pending" /\ hop[h].row = "pending" /\ trace.pc = "tracing"
    BY <1>1, <1>14 DEF WaitGeoOver, HopRows, Absent
  <2>4. GoodRow(h, r)
    BY <1>1, <2>1, <2>2 DEF GoodRow
  <2>3. hop' = [hop EXCEPT ![h] = r]
    BY <1>14 DEF WaitGeoOver, MarkPending, HopType
  <2> QED
    BY <1>3, <1>4, <1>14, <2>1, <2>3, <2>4 DEF WaitGeoOver
<1> QED
  BY <1>5, <1>6, <1>7, <1>8, <1>9, <1>10, <1>11, <1>12, <1>13, <1>14 DEF HopStep

\* ... all that wait when a flight lands, ...
LEMMA LandRows ==
  ASSUME HopType, RowInv, NEW q \in Queries, NEW outcome \in {"data", "error", "fail"},
         Land(q, outcome), UNCHANGED <<opts, trace>>
  PROVE  hop' \in [Hops -> HopRows] /\ RowInv'
<1>1. ASSUME NEW h \in Hops
      PROVE  hop'[h] \in HopRows /\ GoodRow(h, hop[h])'
  <2>1. hop[h] \in HopRows /\ GoodRow(h, hop[h])
    BY DEF HopType, RowInv
  <2>2. CASE hop[h].pc = "wait" /\ Query(h) = q
    <3> DEFINE r == [hop[h] EXCEPT !.pc = "answered", !.got = outcome]
    <3>1. r \in HopRows /\ r.pc = "answered" /\ r.got = outcome /\ r.row = hop[h].row
      BY <2>1 DEF HopRows
    <3>2. hop'[h] = r
      BY <2>2 DEF Land
    <3> HIDE DEF r
    <3>3. hop'[h] \in HopRows /\ hop'[h].pc = "answered" /\ hop'[h].got = outcome
          /\ hop'[h].row = hop[h].row
      BY <3>1, <3>2
    <3> QED
      BY <2>1, <2>2, <3>3 DEF GoodRow, Absent
  <2>3. CASE ~ (hop[h].pc = "wait" /\ Query(h) = q)
    <3>1. hop'[h] = hop[h]
      BY <2>3 DEF Land
    <3> QED
      BY <2>1, <3>1 DEF GoodRow
  <2> QED
    BY <2>2, <2>3
<1>2. hop' \in [Hops -> HopRows]
  <2>1. hop' = [h \in Hops |-> hop'[h]]
    BY DEF Land
  <2> QED
    BY <1>1, <2>1
<1> QED
  BY <1>1, <1>2 DEF RowInv

LEMMA AfterTryValues ==
  ASSUME NEW v4, NEW outcome \in Outcomes, NEW stopped \in BOOLEAN
  PROVE  AfterTry(v4, outcome, stopped) \in {"data", "again", "fail"}
<1>1. CASE outcome = "data"
  BY <1>1, Zenon DEF AfterTry
<1>2. CASE outcome # "data" /\ outcome = "retryable" /\ v4.try < MaxAttempts /\ ~ stopped
  BY <1>2, Zenon DEF AfterTry
<1>3. CASE outcome # "data" /\ ~ (outcome = "retryable" /\ v4.try < MaxAttempts /\ ~ stopped)
  BY <1>3, Zenon DEF AfterTry
<1> QED
  BY <1>1, <1>2, <1>3

LEMMA FlightStepRows ==
  ASSUME HopType, RowInv, NEW q \in Queries, FlightStep(q)
  PROVE  HopType' /\ RowInv'
<1>0. geoCache \in [Queries -> Locations \cup {"timeout"}] /\ pool \in [Addrs -> Locations]
      /\ q[1] \in Addrs /\ opts \in Cases
  BY DEF HopType, Queries
<1>1. UNCHANGED <<opts, trace, geoCache>>
  BY Zenon DEF FlightStep, DrainStaleGeo, WaitUntilConnected, SendIPRequest, StartReceiveParse,
     ReceiveGeo, LeoTimesOut, OtherSource, V4Lookup, V4Prepare, V4Client
<1>2. ASSUME UNCHANGED hop, pool' \in [Addrs -> Locations]
      PROVE  HopType' /\ RowInv'
  BY <1>1, <1>2 DEF HopType, RowInv, GoodRow
<1>3. ASSUME NEW outcome \in {"data", "error", "fail"}, Land(q, outcome),
             pool' \in [Addrs -> Locations]
      PROVE  HopType' /\ RowInv'
  <2>1. hop' \in [Hops -> HopRows] /\ RowInv'
    BY <1>1, <1>3, LandRows
  <2> QED
    BY <1>0, <1>1, <1>3, <2>1 DEF HopType
<1>4. CASE DrainStaleGeo(q)
  <2>1. pool' \in [Addrs -> Locations]
    BY <1>0, <1>4 DEF DrainStaleGeo, Locations
  <2> QED
    BY <1>2, <1>3, <1>4, <2>1 DEF DrainStaleGeo
<1>5. CASE WaitUntilConnected(q)
  BY <1>0, <1>2, <1>3, <1>5 DEF WaitUntilConnected
<1>6. CASE SendIPRequest(q) \/ StartReceiveParse(q) \/ V4Prepare(q) \/ V4Client(q)
  BY <1>0, <1>2, <1>6 DEF SendIPRequest, StartReceiveParse, V4Prepare, V4Client
<1>7. CASE ReceiveGeo(q)
  <2>1. pool' \in [Addrs -> Locations] /\ pool[q[1]] \in {"data", "error", "fail"}
    BY <1>0, <1>7 DEF ReceiveGeo, Locations
  <2> QED
    BY <1>3, <1>7, <2>1 DEF ReceiveGeo
<1>8. CASE LeoTimesOut(q)
  BY <1>0, <1>3, <1>8 DEF LeoTimesOut
<1>9. CASE OtherSource(q)
  BY <1>0, <1>3, <1>9 DEF OtherSource
<1>10. ASSUME NEW outcome \in Outcomes, NEW stopped \in BOOLEAN, V4Lookup(q, outcome, stopped)
       PROVE  HopType' /\ RowInv'
  <2> DEFINE after == AfterTry(flight[q].v4, outcome, stopped)
  <2>1. after \in {"data", "again", "fail"}
    BY AfterTryValues
  <2>2. UNCHANGED pool /\ IF after = "again" THEN UNCHANGED hop ELSE Land(q, after)
    BY <1>10 DEF V4Lookup
  <2> HIDE DEF after
  <2>3. CASE after = "again"
    BY <1>0, <1>2, <2>2, <2>3
  <2>4. CASE after # "again"
    BY <1>0, <1>3, <2>1, <2>2, <2>4
  <2> QED
    BY <2>3, <2>4
<1> QED
  BY <1>4, <1>5, <1>6, <1>7, <1>8, <1>9, <1>10 DEF FlightStep

\* ... and all that are pending when the trace ends.
LEMMA TraceStepRows ==
  ASSUME HopType, TraceType, RowInv, TraceStep
  PROVE  HopType' /\ TraceType' /\ RowInv'
<1>1. ASSUME NEW pc \in {"waiting", "marking"}, NEW canceled \in BOOLEAN,
             trace' = [trace EXCEPT !.pc = pc, !.geoCanceled = canceled],
             canceled => pc = "marking", UNCHANGED <<opts, hop, geoCache, pool>>,
             trace.pc \in {"tracing", "waiting"}
      PROVE  HopType' /\ TraceType' /\ RowInv'
  <2>1. TraceType' /\ trace'.pc = pc /\ trace'.geoCanceled = canceled
    BY <1>1 DEF TraceType
  <2>2. HopType'
    BY <1>1 DEF HopType
  <2>3. \A h \in Hops : GoodRow(h, hop[h])'
    BY <1>1, <2>1 DEF RowInv, GoodRow
  <2> QED
    BY <1>1, <2>1, <2>2, <2>3 DEF RowInv
<1>2. CASE ContextDone
  <2>1. TraceType' /\ trace'.pc = trace.pc /\ trace'.geoCanceled = trace.geoCanceled
    BY <1>2 DEF ContextDone, TraceType
  <2> QED
    BY <1>2, <2>1 DEF ContextDone, HopType, RowInv, GoodRow
<1>3. CASE ExecuteReturns
  <2>1. ~ trace.geoCanceled /\ trace.geoCanceled \in BOOLEAN
    BY <1>3 DEF ExecuteReturns, RowInv, TraceType
  <2>2. trace' = [trace EXCEPT !.pc = "waiting", !.geoCanceled = FALSE]
    BY <1>3, <2>1 DEF ExecuteReturns, TraceType
  <2> QED
    BY <1>1, <1>3, <2>2 DEF ExecuteReturns
<1>4. CASE GiveUpWaiting
  BY <1>1, <1>4 DEF GiveUpWaiting
<1>5. CASE TracerouteReturns
  <2>1. TraceType' /\ trace'.pc = "returned"
    BY <1>5 DEF TracerouteReturns, TraceType
  <2>2. ASSUME NEW h \in Hops
        PROVE  hop'[h] \in HopRows /\ GoodRow(h, hop[h])'
    <3>1. hop[h] \in HopRows /\ GoodRow(h, hop[h])
      BY DEF HopType, RowInv
    <3>2. CASE hop[h].row = "pending"
      <4>1. hop'[h] = [hop[h] EXCEPT !.row = "timeout"]
        BY <1>5, <3>2 DEF TracerouteReturns, MarkPending
      <4>2. hop'[h] \in HopRows /\ hop'[h].pc = hop[h].pc /\ hop'[h].got = hop[h].got
            /\ hop'[h].row = "timeout"
        BY <3>1, <4>1 DEF HopRows
      <4>3. hop[h].got # "pending"
        BY <3>1 DEF HopRows, Absent
      <4> QED
        BY <1>5, <2>1, <3>1, <3>2, <4>2, <4>3 DEF GoodRow, TracerouteReturns
    <3>3. CASE hop[h].row # "pending"
      <4>1. hop'[h] = hop[h]
        BY <1>5, <3>3 DEF TracerouteReturns, MarkPending
      <4> QED
        BY <1>5, <2>1, <3>1, <3>3, <4>1 DEF GoodRow, TracerouteReturns
    <3> QED
      BY <3>2, <3>3
  <2>3. hop' \in [Hops -> HopRows]
    <3>1. hop' = [h \in Hops |-> hop'[h]]
      BY <1>5 DEF TracerouteReturns, MarkPending
    <3> QED
      BY <2>2, <3>1
  <2> QED
    BY <1>5, <2>1, <2>2, <2>3 DEF HopType, RowInv, TracerouteReturns
<1>6. CASE ClearCaches
  BY <1>6 DEF ClearCaches, HopType, TraceType, RowInv, GoodRow, Locations
<1> QED
  BY <1>2, <1>3, <1>4, <1>5, <1>6 DEF TraceStep

LEMMA RowsKept ==
  ASSUME HopType, TraceType, LoopType, WsType, RowInv, [GeoNext]_geoVars,
         loop.pc = "range" => loop.conn \in Conns
  PROVE  HopType' /\ TraceType' /\ RowInv'
<1>1. CASE UNCHANGED <<opts, hop, trace, geoCache, pool>>
  BY <1>1 DEF HopType, TraceType, RowInv, GoodRow
<1>2. ASSUME NEW h \in Hops, HopStep(h)
      PROVE  UNCHANGED trace
  BY <1>2, Zenon DEF HopStep, AddHop, LookupIPGeo, FetchIPData, ReadGeoCache, StartTry, TryTimesOut,
     TakeResult, CheckCanceled, UpdateHop, WaitGeoOver
<1>3. ASSUME NEW q \in Queries, FlightStep(q)
      PROVE  UNCHANGED trace
  BY <1>3, Zenon DEF FlightStep, DrainStaleGeo, WaitUntilConnected, SendIPRequest,
     StartReceiveParse, ReceiveGeo, LeoTimesOut, OtherSource, V4Lookup, V4Prepare, V4Client
<1>4. ASSUME NEW c \in Conns, ConnStep(c)
      PROVE  UNCHANGED <<opts, hop, trace, geoCache, pool>>
  BY <1>4, Zenon DEF ConnStep, ReplaceConn, CloseConn, BreakConn, AnswerRequest
<1>5. CASE DispatchLeoMessage
  <2>1. ws.recv[loop.conn] \in Seq(Answer) /\ ws.recv[loop.conn] # << >>
    BY <1>5 DEF DispatchLeoMessage, WsType, Sockets
  <2>2. Head(ws.recv[loop.conn]) \in Answer
    BY <2>1, HeadTailProperties
  <2>3. pool' \in [Addrs -> Locations]
    BY <1>5, <2>2 DEF DispatchLeoMessage, HopType, Answer, Locations
  <2> QED
    BY <1>5, <2>3 DEF DispatchLeoMessage, HopType, TraceType, RowInv, GoodRow
<1>6. CASE ReceiveParse \/ ReceiveParseConnEnds \/ RunReceiveParseLoop
  BY <1>1, <1>6 DEF ReceiveParse, ReceiveParseConnEnds, RunReceiveParseLoop
<1>7. CASE UNCHANGED geoVars
  BY <1>1, <1>7 DEF geoVars
<1>8. UNCHANGED trace => (TraceType => TraceType')
  BY DEF TraceType
<1> QED
  BY <1>1, <1>2, <1>3, <1>4, <1>5, <1>6, <1>7, <1>8, HopStepRows, FlightStepRows, TraceStepRows
  DEF GeoNext, LoopStep

(***************************************************************************)
(* Connections, flights and the receive loop                               *)
(***************************************************************************)
\* A connection, once made, is never unmade; only the one in use may be up.
SocketsMove ==
  /\ \A c \in Conns : ws.state[c] # "none" => ws'.state[c] # "none"
  /\ \/ /\ ws'.cur = ws.cur
        /\ \A c \in Conns : ws'.state[c] \in {"up", "down"} => ws.state[c] \in {"up", "down"}
     \/ ws'.cur \in Conns /\ ws.state[ws'.cur] = "none"

LEMMA SocketsKept ==
  ASSUME WsType, FlightType, ConnInv, ServeInv, [GeoNext]_geoVars
  PROVE  WsType' /\ ConnInv' /\ SocketsMove
<1>0. /\ ws.cur \in 0 .. MaxConns /\ ws.state \in [Conns -> States]
      /\ ws.sent \in [Conns -> Seq(Addrs)] /\ ws.recv \in [Conns -> Seq(Answer)]
  BY DEF WsType, Sockets
<1>1. CASE UNCHANGED ws
  BY <1>1 DEF WsType, ConnInv, SocketsMove
<1>2. ASSUME ws' \in Sockets, ws'.cur = ws.cur,
             \A c \in Conns : /\ ws.state[c] # "none" => ws'.state[c] # "none"
                              /\ ws'.state[c] \in {"up", "down"} => ws.state[c] \in {"up", "down"}
      PROVE  WsType' /\ ConnInv' /\ SocketsMove
  <2>1. ws.cur # 0 => ws.cur \in Conns
    BY <1>0 DEF Conns
  <2> QED
    BY <1>2, <2>1 DEF WsType, ConnInv, SocketsMove
<1>3. ASSUME NEW q \in Queries, SendIPRequest(q)
      PROVE  ws' \in Sockets /\ ws'.cur = ws.cur /\ ws'.state = ws.state
  <2> DEFINE c == flight[q].conn
  <2>1. c \in Conns /\ q[1] \in Addrs
    BY <1>3 DEF SendIPRequest, ServeInv, Queries
  <2>2. Append(ws.sent[c], q[1]) \in Seq(Addrs)
    BY <1>0, <2>1
  <2>3. ws' = [ws EXCEPT !.sent = [ws.sent EXCEPT ![c] = Append(ws.sent[c], q[1])]]
    BY <1>3 DEF SendIPRequest, WsType, Sockets
  <2> HIDE DEF c
  <2> QED
    BY <2>1, <2>2, <2>3 DEF WsType, Sockets
<1>4. CASE DispatchLeoMessage
  <2> DEFINE c == loop.conn
  <2>1. c \in Conns
    BY <1>4 DEF DispatchLeoMessage, ServeInv
  <2>2. Tail(ws.recv[c]) \in Seq(Answer)
    BY <1>0, <1>4, <2>1 DEF DispatchLeoMessage
  <2>3. ws' = [ws EXCEPT !.recv = [ws.recv EXCEPT ![c] = Tail(ws.recv[c])]]
    BY <1>4 DEF DispatchLeoMessage, WsType, Sockets
  <2> HIDE DEF c
  <2>4. ws' \in Sockets /\ ws'.cur = ws.cur /\ ws'.state = ws.state
    BY <2>1, <2>2, <2>3 DEF WsType, Sockets
  <2> QED
    BY <1>2, <2>4
<1>5. ASSUME NEW c \in Conns, ReplaceConn(c)
      PROVE  WsType' /\ ConnInv' /\ SocketsMove
  <2>1. PICK up \in {"up", "down"} :
          ws' = [ws EXCEPT !.cur = c,
                           !.state = [d \in Conns |->
                             IF d = c THEN up
                             ELSE IF d = ws.cur /\ ws.state[d] = "down" THEN "replaced"
                             ELSE ws.state[d]]]
    BY <1>5, Zenon DEF ReplaceConn
  <2> DEFINE st == [d \in Conns |-> IF d = c THEN up
                                    ELSE IF d = ws.cur /\ ws.state[d] = "down" THEN "replaced"
                                    ELSE ws.state[d]]
  <2>2. st \in [Conns -> States]
    BY <1>0 DEF States
  <2>3. c \in 0 .. MaxConns
    BY DEF Conns
  <2>4. ws' = [ws EXCEPT !.cur = c, !.state = st]
    BY <2>1
  <2>5. ws' \in Sockets /\ ws'.cur = c /\ ws'.state = st
    <3> HIDE DEF st
    <3> QED
      BY <2>2, <2>3, <2>4 DEF WsType, Sockets
  <2>6. ASSUME NEW d \in Conns
        PROVE  /\ d # c => st[d] \notin {"up", "down"}
               /\ ws.state[d] # "none" => st[d] # "none"
    <3>1. CASE d = c
      BY <3>1
    <3>2. CASE d # c /\ d # ws.cur
      BY <3>2 DEF ConnInv
    <3>3. CASE d # c /\ d = ws.cur
      <4>1. ws.cur # 0
        BY <3>3 DEF Conns
      <4>2. ws.state[d] \in {"down", "closing", "closed"}
        BY <1>5, <3>3, <4>1 DEF ReplaceConn
      <4> QED
        BY <3>3, <4>2
    <3> QED
      BY <3>1, <3>2, <3>3
  <2>7. ws.state[c] = "none" /\ st[c] # "none"
    BY <1>5 DEF ReplaceConn
  <2> HIDE DEF st
  <2> QED
    BY <2>5, <2>6, <2>7 DEF WsType, ConnInv, SocketsMove
<1>6. ASSUME NEW c \in Conns, NEW new \in {"up", "down", "closing", "closed"},
             NEW sent \in [Conns -> Seq(Addrs)], NEW recv \in [Conns -> Seq(Answer)],
             new \in {"up", "down"} => ws.state[c] \in {"up", "down"},
             ws' = [ws EXCEPT !.state = [ws.state EXCEPT ![c] = new], !.sent = sent, !.recv = recv]
      PROVE  WsType' /\ ConnInv' /\ SocketsMove
  <2> DEFINE st == [ws.state EXCEPT ![c] = new]
  <2>1. st \in [Conns -> States] /\ \A d \in Conns : st[d] = IF d = c THEN new ELSE ws.state[d]
    BY <1>0 DEF States
  <2>2. ws' = [ws EXCEPT !.state = st, !.sent = sent, !.recv = recv]
    BY <1>6
  <2> HIDE DEF st
  <2>3. ws' \in Sockets /\ ws'.cur = ws.cur /\ ws'.state = st
    BY <2>1, <2>2 DEF WsType, Sockets
  <2> QED
    BY <1>2, <1>6, <2>1, <2>3
<1>7. ASSUME NEW c \in Conns, CloseConn(c)
      PROVE  WsType' /\ ConnInv' /\ SocketsMove
  <2> DEFINE new == IF ws.state[c] = "closing" THEN "closed" ELSE "closing"
             sent == [ws.sent EXCEPT ![c] = << >>]
  <2>1. new \in {"closing", "closed"} /\ sent \in [Conns -> Seq(Addrs)]
    BY <1>0
  <2>2. ws' = [ws EXCEPT !.state = [ws.state EXCEPT ![c] = new], !.sent = sent, !.recv = ws.recv]
    BY <1>7 DEF CloseConn, WsType, Sockets
  <2> HIDE DEF new, sent
  <2> QED
    BY <1>0, <1>6, <2>1, <2>2
<1>8. ASSUME NEW c \in Conns, BreakConn(c)
      PROVE  WsType' /\ ConnInv' /\ SocketsMove
  <2> DEFINE new == IF ws.state[c] = "up" THEN "down" ELSE "up"
  <2>1. new \in {"up", "down"} /\ ws.state[c] \in {"up", "down"}
    BY <1>8 DEF BreakConn
  <2>2. ws' = [ws EXCEPT !.state = [ws.state EXCEPT ![c] = new], !.sent = ws.sent, !.recv = ws.recv]
    BY <1>8 DEF BreakConn, WsType, Sockets
  <2> HIDE DEF new
  <2> QED
    BY <1>0, <1>6, <2>1, <2>2
<1>9. ASSUME NEW c \in Conns, NEW answered \in BOOLEAN, AnswerRequest(c, answered)
      PROVE  ws' \in Sockets /\ ws'.cur = ws.cur /\ ws'.state = ws.state
  <2> DEFINE geo == IF ws.state[c] = "up" THEN "data" ELSE "error"
             msg == [addr |-> Head(ws.sent[c]), geo |-> geo]
             in == IF answered THEN Append(ws.recv[c], msg) ELSE ws.recv[c]
  <2>1. Tail(ws.sent[c]) \in Seq(Addrs) /\ Head(ws.sent[c]) \in Addrs
    BY <1>0, <1>9, HeadTailProperties DEF AnswerRequest
  <2>2. msg \in Answer
    BY <2>1 DEF Answer
  <2>3. in \in Seq(Answer)
    BY <1>0, <2>2
  <2>4. ws' = [ws EXCEPT !.sent = [ws.sent EXCEPT ![c] = Tail(ws.sent[c])],
                         !.recv = [ws.recv EXCEPT ![c] = in]]
    BY <1>9 DEF AnswerRequest, WsType, Sockets
  <2> HIDE DEF in
  <2> QED
    BY <2>1, <2>3, <2>4 DEF WsType, Sockets
<1>10. ASSUME NEW h \in Hops, HopStep(h)
       PROVE  UNCHANGED ws
  BY <1>10, Zenon DEF HopStep, AddHop, LookupIPGeo, FetchIPData, ReadGeoCache, StartTry,
     TryTimesOut, TakeResult, CheckCanceled, UpdateHop, WaitGeoOver
<1>11. ASSUME NEW q \in Queries, FlightStep(q)
       PROVE  UNCHANGED ws \/ SendIPRequest(q)
  BY <1>11, Zenon DEF FlightStep, DrainStaleGeo, WaitUntilConnected, StartReceiveParse,
     ReceiveGeo, LeoTimesOut, OtherSource, V4Lookup, V4Prepare, V4Client
<1>12. ASSUME TraceStep \/ LoopStep
       PROVE  UNCHANGED ws \/ DispatchLeoMessage
  BY <1>12, Zenon DEF TraceStep, ContextDone, ExecuteReturns, GiveUpWaiting, TracerouteReturns,
     ClearCaches, LoopStep, ReceiveParse, ReceiveParseConnEnds, RunReceiveParseLoop
<1>13. CASE UNCHANGED geoVars
  BY <1>1, <1>13 DEF geoVars
<1>14. ASSUME NEW c \in Conns, ConnStep(c)
       PROVE  WsType' /\ ConnInv' /\ SocketsMove
  BY <1>2, <1>5, <1>7, <1>8, <1>9, <1>14 DEF ConnStep
<1>15. ASSUME NEW q \in Queries, SendIPRequest(q)
       PROVE  WsType' /\ ConnInv' /\ SocketsMove
  BY <1>2, <1>3, <1>15
<1> QED
  BY <1>1, <1>4, <1>10, <1>11, <1>12, <1>13, <1>14, <1>15 DEF GeoNext

\* What a step may make of a flight: where it waits on a connection, it took that one
\* when it was in use; nothing but StartReceiveParse makes it wait for an answer.
OnConn == {"connect", "send", "receive", "answer"}
FlightsMove ==
  \A q \in Queries :
    /\ flight'[q].pc \in OnConn =>
         \/ flight[q].pc \in OnConn /\ flight'[q].conn = flight[q].conn
         \/ flight'[q].conn = ws.cur /\ ws.cur # 0 /\ flight'[q].pc = "connect" /\ UNCHANGED ws
    /\ flight'[q].pc = "answer" => flight[q].pc = "answer" \/ StartReceiveParse(q)

LEMMA FlightsKept ==
  ASSUME HopType, RowInv, FlightType, WsType, ServeInv, [GeoNext]_geoVars
  PROVE  FlightType' /\ FlightsMove
<1> DEFINE Goal == FlightType' /\ FlightsMove
<1>0. ASSUME UNCHANGED flight PROVE Goal
  BY <1>0 DEF FlightType, FlightsMove
<1>1. ASSUME NEW q \in Queries, NEW f \in Flights, flight' = [flight EXCEPT ![q] = f],
             f.pc \in OnConn =>
                \/ flight[q].pc \in OnConn /\ f.conn = flight[q].conn
                \/ f.conn = ws.cur /\ ws.cur # 0 /\ f.pc = "connect" /\ UNCHANGED ws,
             f.pc = "answer" => flight[q].pc = "answer" \/ StartReceiveParse(q)
      PROVE  Goal
  <2>1. FlightType' /\ \A p \in Queries : flight'[p] = IF p = q THEN f ELSE flight[p]
    BY <1>1 DEF FlightType
  <2> QED
    BY <1>1, <2>1, Zenon DEF FlightsMove
<1>2. NoCall \in V4Calls /\ NewCall \in V4Calls
  BY DEF NoCall, NewCall, V4Calls, Keys
<1>3. NoFlight \in Flights /\ NoFlight.pc = "none"
  BY <1>2, GeoAssumption DEF NoFlight, Flights
<1>4. ASSUME NEW q \in Queries, NEW outcome, Land(q, outcome)
      PROVE  Goal
  BY <1>1, <1>3, <1>4 DEF Land, OnConn
<1>5. ASSUME NEW q \in Queries
      PROVE  flight[q] \in Flights /\ flight[q].v4 \in V4Calls
  BY DEF FlightType, Flights
<1>6. ASSUME NEW h \in Hops, StartTry(h)
      PROVE  Goal
  <2> DEFINE f == [NoFlight EXCEPT !.pc = FirstStep[opts.source], !.v4 = NewCall,
                                   !.timeout = hop[h].try]
  <2>1. Query(h) \in Queries /\ hop[h].try \in Nat /\ opts.source \in {"ws", "v4", "other"}
    <3>1. opts.addr \in [Hops -> Addrs] /\ opts.dn42 \in BOOLEAN
          /\ opts.source \in {"nil", "ws", "v4", "other"}
          /\ hop[h].host \in BOOLEAN /\ hop[h].try \in Nat
      BY GeoAssumption DEF HopType, HopRows
    <3>2. opts.source # "nil"
      BY <1>6 DEF StartTry, RowInv, GoodRow
    <3> QED
      BY <3>1, <3>2 DEF Query, Queries
  <2>2. FirstStep[opts.source] \in {"drain", "v4", "other"}
    BY <2>1 DEF FirstStep
  <2>3. f \in Flights /\ f.pc \notin OnConn
    BY <1>2, <1>3, <2>1, <2>2 DEF Flights, OnConn
  <2>4. UNCHANGED flight \/ flight' = [flight EXCEPT ![Query(h)] = f]
    BY <1>6, Zenon DEF StartTry
  <2> HIDE DEF f
  <2> QED
    BY <1>0, <1>1, <2>1, <2>3, <2>4 DEF OnConn
<1>7. ASSUME NEW h \in Hops, HopStep(h)
      PROVE  UNCHANGED flight \/ StartTry(h)
  BY <1>7, Zenon DEF HopStep, AddHop, LookupIPGeo, FetchIPData, ReadGeoCache,
     TryTimesOut, TakeResult, CheckCanceled, UpdateHop, WaitGeoOver
<1>8. ASSUME NEW q \in Queries, DrainStaleGeo(q)
      PROVE  Goal
  <2>1. CASE ws.cur = 0
    BY <1>4, <1>8, <2>1 DEF DrainStaleGeo
  <2>2. CASE ws.cur # 0
    <3> DEFINE f == [flight[q] EXCEPT !.pc = "connect", !.conn = ws.cur]
    <3>1. f \in Flights /\ f.pc = "connect" /\ f.conn = ws.cur
      BY <1>5 DEF Flights, WsType, Sockets
    <3>2. flight' = [flight EXCEPT ![q] = f]
      BY <1>8, <2>2 DEF DrainStaleGeo, FlightType
    <3>3. UNCHANGED ws
      BY <1>8 DEF DrainStaleGeo
    <3> HIDE DEF f
    <3> QED
      BY <1>1, <2>2, <3>1, <3>2, <3>3
  <2> QED
    BY <2>1, <2>2
<1>9. ASSUME NEW q \in Queries, NEW pc \in OnConn, flight[q].pc \in OnConn,
             flight' = [flight EXCEPT ![q].pc = pc], pc = "answer" => StartReceiveParse(q)
      PROVE  Goal
  <2> DEFINE f == [flight[q] EXCEPT !.pc = pc]
  <2>1. f \in Flights /\ f.pc = pc /\ f.conn = flight[q].conn
    BY <1>5 DEF Flights, OnConn
  <2>2. flight' = [flight EXCEPT ![q] = f]
    BY <1>9 DEF FlightType
  <2> HIDE DEF f
  <2> QED
    BY <1>1, <1>9, <2>1, <2>2
<1>10. ASSUME NEW q \in Queries, WaitUntilConnected(q)
       PROVE  Goal
  BY <1>4, <1>9, <1>10 DEF WaitUntilConnected, OnConn
<1>11. ASSUME NEW q \in Queries, SendIPRequest(q)
       PROVE  Goal
  BY <1>9, <1>11 DEF SendIPRequest, OnConn
<1>12. ASSUME NEW q \in Queries, StartReceiveParse(q)
       PROVE  Goal
  <2>1. flight[q].pc = "receive" /\ flight' = [flight EXCEPT ![q].pc = "answer"]
    BY <1>12 DEF StartReceiveParse
  <2> QED
    BY <1>9, <1>12, <2>1 DEF OnConn
<1>13. ASSUME NEW q \in Queries, ReceiveGeo(q) \/ LeoTimesOut(q) \/ OtherSource(q)
       PROVE  Goal
  BY <1>4, <1>13 DEF ReceiveGeo, LeoTimesOut, OtherSource
<1>14. ASSUME NEW q \in Queries, NEW v \in V4Calls, flight' = [flight EXCEPT ![q].v4 = v]
       PROVE  Goal
  <2> DEFINE f == [flight[q] EXCEPT !.v4 = v]
  <2>1. f \in Flights /\ f.pc = flight[q].pc /\ f.conn = flight[q].conn
    BY <1>5 DEF Flights
  <2>2. flight' = [flight EXCEPT ![q] = f]
    BY <1>14 DEF FlightType
  <2> HIDE DEF f
  <2> QED
    BY <1>1, <2>1, <2>2
<1>15. ASSUME NEW q \in Queries, V4Prepare(q)
       PROVE  Goal
  <2>1. PICK r \in Resolvers :
          flight' = [flight EXCEPT ![q].v4 = ReadCache(flight[q].v4, flight[q].timeout, r)]
    BY <1>15, Zenon DEF V4Prepare
  <2>2. ReadCache(flight[q].v4, flight[q].timeout, r) \in V4Calls
    <3>1. flight[q].timeout \in Nat /\ flight[q].v4 \in V4Calls
      BY <1>5 DEF Flights
    <3>2. <<flight[q].timeout, r>> \in Keys
      BY <3>1 DEF Keys
    <3> QED
      BY <3>1, <3>2 DEF ReadCache, V4Calls
  <2> QED
    BY <1>14, <2>1, <2>2
<1>16. ASSUME NEW q \in Queries, V4Client(q)
       PROVE  Goal
  <2>1. [flight[q].v4 EXCEPT !.pc = "request"] \in V4Calls
    BY <1>5 DEF V4Calls
  <2>2. flight' = [flight EXCEPT ![q].v4 = [flight[q].v4 EXCEPT !.pc = "request"]]
    BY <1>5, <1>16 DEF V4Client, FlightType, Flights
  <2> QED
    BY <1>14, <2>1, <2>2
<1>17. ASSUME NEW q \in Queries, NEW outcome \in Outcomes, NEW stopped \in BOOLEAN,
              V4Lookup(q, outcome, stopped)
       PROVE  Goal
  <2>1. flight[q].v4.try + 1 \in Nat
    BY <1>5 DEF V4Calls
  <2>2. [flight[q].v4 EXCEPT !.try = flight[q].v4.try + 1] \in V4Calls
    BY <1>5, <2>1 DEF V4Calls
  <2>3. \/ \E o : Land(q, o)
        \/ flight' = [flight EXCEPT ![q].v4.try = @ + 1]
    BY <1>17, Zenon DEF V4Lookup
  <2>4. CASE flight' = [flight EXCEPT ![q].v4.try = @ + 1]
    <3>1. flight' = [flight EXCEPT ![q].v4 = [flight[q].v4 EXCEPT !.try = flight[q].v4.try + 1]]
      BY <1>5, <2>4 DEF FlightType, Flights
    <3> QED
      BY <1>14, <2>2, <3>1
  <2> QED
    BY <1>4, <2>3, <2>4
<1>18. ASSUME NEW c \in Conns, ConnStep(c)
       PROVE  UNCHANGED flight
  BY <1>18, Zenon DEF ConnStep, ReplaceConn, CloseConn, BreakConn, AnswerRequest
<1>19. ASSUME TraceStep \/ LoopStep
       PROVE  UNCHANGED flight
  BY <1>19, Zenon DEF TraceStep, ContextDone, ExecuteReturns, GiveUpWaiting, TracerouteReturns,
     ClearCaches, LoopStep, ReceiveParse, ReceiveParseConnEnds, RunReceiveParseLoop,
     DispatchLeoMessage
<1>20. ASSUME UNCHANGED geoVars PROVE Goal
  BY <1>0, <1>20 DEF geoVars
<1>21. ASSUME NEW q \in Queries, FlightStep(q)
       PROVE  Goal
  BY <1>8, <1>10, <1>11, <1>12, <1>13, <1>15, <1>16, <1>17, <1>21 DEF FlightStep
<1> HIDE DEF Goal
<1>22. Goal
  BY <1>0, <1>6, <1>7, <1>18, <1>19, <1>20, <1>21 DEF GeoNext
<1> QED
  BY <1>22 DEF Goal

\* The loop reads the connection in use, or will, while a lookup waits there: it ends
\* only after a connection that is closed, and a lookup that comes meanwhile makes it
\* look again.
LEMMA ServeKept ==
  ASSUME HopType, RowInv, FlightType, WsType, LoopType, ConnInv, ServeInv, [GeoNext]_geoVars
  PROVE  LoopType' /\ ServeInv'
<1>1. FlightType' /\ FlightsMove /\ WsType' /\ SocketsMove
  BY FlightsKept, SocketsKept
<1>2. /\ ws.cur \in 0 .. MaxConns /\ ws'.cur \in 0 .. MaxConns
      /\ loop.conn \in 0 .. MaxConns /\ loop.restart \in BOOLEAN /\ loop.running \in BOOLEAN
      /\ loop.pc \in {"off", "top", "range", "decide"}
      /\ \A c \in 0 .. MaxConns : c # 0 => c \in Conns
      /\ 0 \notin Conns
  BY <1>1 DEF WsType, Sockets, LoopType, Conns
<1> DEFINE Placed == \A q \in Queries :
                       flight[q].pc \in OnConn =>
                         flight[q].conn \in Conns /\ ws.state[flight[q].conn] # "none"
           Waits == \E q \in Queries : flight[q].pc = "answer" /\ flight[q].conn = ws.cur
           Open == ws.state[ws.cur] \in {"up", "down"}
           Awake == loop.pc \in {"top", "range"} \/ (loop.pc = "decide" /\ loop.restart)
           LoopOK == /\ loop.running <=> loop.pc # "off"
                     /\ loop.pc = "range" => loop.conn \in Conns
<1>3. ServeInv <=> Placed /\ LoopOK /\ (Waits /\ Open => Awake)
  BY DEF ServeInv, OnConn
<1>4. (ServeInv <=> Placed /\ LoopOK /\ (Waits /\ Open => Awake))'
  BY DEF ServeInv, OnConn
<1>5. Placed'
  <2> SUFFICES ASSUME NEW q \in Queries, flight'[q].pc \in OnConn
               PROVE  flight'[q].conn \in Conns /\ ws'.state[flight'[q].conn] # "none"
    OBVIOUS
  <2>1. CASE flight[q].pc \in OnConn /\ flight'[q].conn = flight[q].conn
    BY <1>1, <1>3, <2>1 DEF SocketsMove
  <2>2. CASE flight'[q].conn = ws.cur /\ ws.cur # 0 /\ UNCHANGED ws
    <3>1. ws.state[ws.cur] # "none"
      BY <2>2 DEF ConnInv
    <3> QED
      BY <1>2, <2>2, <3>1
  <2> QED
    BY <1>1, <2>1, <2>2 DEF FlightsMove
<1>6. ASSUME \A q \in Queries : ~ StartReceiveParse(q), Waits', Open'
      PROVE  Waits /\ Open
  <2>1. PICK q \in Queries : flight'[q].pc = "answer" /\ flight'[q].conn = ws'.cur
    BY <1>6
  <2>2. flight[q].pc = "answer" /\ flight[q].conn = flight'[q].conn
    <3>1. ~ StartReceiveParse(q)
      BY <1>6
    <3>2. flight'[q].pc \in OnConn /\ flight'[q].pc # "connect"
      BY <2>1 DEF OnConn
    <3> QED
      BY <1>1, <2>1, <3>1, <3>2 DEF FlightsMove
  <2>3. flight[q].conn \in Conns /\ ws.state[flight[q].conn] # "none"
    BY <1>3, <2>2 DEF OnConn
  <2>4. ws'.cur = ws.cur /\ ws'.state[ws.cur] \in {"up", "down"} /\ ws.cur \in Conns
    BY <1>1, <1>6, <2>1, <2>2, <2>3 DEF SocketsMove
  <2> QED
    BY <1>1, <2>1, <2>2, <2>3, <2>4 DEF SocketsMove
<1>7. ASSUME LoopType', LoopOK', Waits' /\ Open' => Awake'
      PROVE  LoopType' /\ ServeInv'
  BY <1>4, <1>5, <1>7
<1> HIDE DEF Placed, Waits, Open
<1>8. ASSUME UNCHANGED loop, \A q \in Queries : ~ StartReceiveParse(q)
      PROVE  LoopType' /\ ServeInv'
  BY <1>3, <1>6, <1>7, <1>8 DEF LoopType
<1>9. ASSUME NEW q \in Queries, StartReceiveParse(q)
      PROVE  LoopType' /\ ServeInv'
  <2>1. CASE loop.running
    <3>1. LoopType' /\ loop'.pc = loop.pc /\ loop'.conn = loop.conn /\ loop'.running = loop.running
          /\ loop'.restart = TRUE
      BY <1>9, <2>1 DEF StartReceiveParse, LoopType
    <3> QED
      BY <1>2, <1>3, <1>7, <2>1, <3>1
  <2>2. CASE ~ loop.running
    <3>1. loop' = [pc |-> "top", conn |-> 0, running |-> TRUE, restart |-> FALSE]
      BY <1>9, <2>2 DEF StartReceiveParse
    <3>2. LoopType'
      BY <3>1, GeoAssumption DEF LoopType
    <3> QED
      BY <1>7, <3>1, <3>2
  <2> QED
    BY <2>1, <2>2
<1>10. ASSUME ReceiveParse, \A q \in Queries : ~ StartReceiveParse(q)
       PROVE  LoopType' /\ ServeInv'
  <2>1. /\ LoopType' /\ loop'.pc = (IF ws.cur = 0 THEN "decide" ELSE "range")
        /\ loop'.conn = ws.cur /\ loop'.running = loop.running
    BY <1>2, <1>10 DEF ReceiveParse, LoopType
  <2>2. LoopOK'
    BY <1>2, <1>3, <1>10, <2>1 DEF ReceiveParse
  <2>3. Waits /\ Open => ws.cur # 0
    BY <1>2, <1>3 DEF Waits, Placed, OnConn
  <2> QED
    BY <1>6, <1>7, <1>10, <2>1, <2>2, <2>3
<1>11. ASSUME ReceiveParseConnEnds, \A q \in Queries : ~ StartReceiveParse(q)
       PROVE  LoopType' /\ ServeInv'
  <2>1. /\ LoopType' /\ loop'.pc = (IF ws.cur # loop.conn THEN "top" ELSE "decide")
        /\ loop'.conn = loop.conn /\ loop'.running = loop.running
        /\ loop.pc = "range" /\ ws.state[loop.conn] = "closed"
    BY <1>11 DEF ReceiveParseConnEnds, LoopType
  <2>2. LoopOK'
    BY <1>3, <2>1
  <2>3. Open => ws.cur # loop.conn
    BY <2>1 DEF Open
  <2> QED
    BY <1>6, <1>7, <1>11, <2>1, <2>2, <2>3
<1>12. ASSUME RunReceiveParseLoop, \A q \in Queries : ~ StartReceiveParse(q)
       PROVE  LoopType' /\ ServeInv'
  <2>1. CASE loop.restart
    <3>1. LoopType' /\ loop'.pc = "top" /\ loop'.running = loop.running
      BY <1>12, <2>1 DEF RunReceiveParseLoop, LoopType
    <3>2. loop.pc = "decide"
      BY <1>12 DEF RunReceiveParseLoop
    <3> QED
      BY <1>3, <1>7, <3>1, <3>2
  <2>2. CASE ~ loop.restart
    <3>1. LoopType' /\ loop'.pc = "off" /\ loop'.running = FALSE
      BY <1>12, <2>2 DEF RunReceiveParseLoop, LoopType
    <3>2. ~ Awake
      BY <1>12, <2>2 DEF RunReceiveParseLoop
    <3> QED
      BY <1>3, <1>6, <1>7, <1>12, <3>1, <3>2
  <2> QED
    BY <2>1, <2>2
<1>13. ASSUME NEW h \in Hops, HopStep(h)
       PROVE  UNCHANGED loop
  BY <1>13, Zenon DEF HopStep, AddHop, LookupIPGeo, FetchIPData, ReadGeoCache, StartTry,
     TryTimesOut, TakeResult, CheckCanceled, UpdateHop, WaitGeoOver
<1>14. ASSUME NEW q \in Queries, FlightStep(q)
       PROVE  UNCHANGED loop \/ StartReceiveParse(q)
  BY <1>14, Zenon DEF FlightStep, DrainStaleGeo, WaitUntilConnected, SendIPRequest,
     ReceiveGeo, LeoTimesOut, OtherSource, V4Lookup, V4Prepare, V4Client
<1>15. ASSUME NEW c \in Conns, ConnStep(c)
       PROVE  UNCHANGED loop
  BY <1>15, Zenon DEF ConnStep, ReplaceConn, CloseConn, BreakConn, AnswerRequest
<1>16. ASSUME TraceStep \/ DispatchLeoMessage
       PROVE  UNCHANGED loop
  BY <1>16, Zenon DEF TraceStep, ContextDone, ExecuteReturns, GiveUpWaiting, TracerouteReturns,
     ClearCaches, DispatchLeoMessage
<1>17. UNCHANGED geoVars => UNCHANGED loop
  BY DEF geoVars
<1> QED
  BY <1>8, <1>9, <1>10, <1>11, <1>12, <1>13, <1>14, <1>15, <1>16, <1>17 DEF GeoNext, LoopStep

(***************************************************************************)
(* The theorems about the locations                                        *)
(***************************************************************************)
LEMMA GeoInitInv == GeoInit => GeoInv
<1> SUFFICES ASSUME GeoInit PROVE GeoInv
  OBVIOUS
<1>1. NoCall \in V4Calls /\ 0 \in 0 .. MaxConns
  BY GeoAssumption DEF NoCall, V4Calls, Keys
<1>2. ApiType /\ CacheInv
  <2>1. api.cache = {} /\ api.order = << >> /\ ApiType
    BY DEF GeoInit, InitApi, ApiType
  <2>2. IsFiniteSet({}) /\ Cardinality({}) = 0
    BY FS_EmptySet
  <2>3. ToSet(<< >>) = {} /\ IsInjective(<< >>)
    BY DEF ToSet, IsInjective
  <2> QED
    BY <2>1, <2>2, <2>3, ApiV4Assumption DEF CacheInv, CacheConsistent
<1>3. FlightType
  BY <1>1 DEF GeoInit, FlightType, NoFlight, Flights
<1>4. HopType /\ TraceType
  BY DEF GeoInit, HopType, TraceType, Idle, HopRows, Absent, Locations
<1>5. LoopType /\ WsType
  BY <1>1 DEF GeoInit, LoopType, WsType, Sockets, States
<1>6. RowInv
  BY DEF GeoInit, RowInv, GoodRow, Idle, Absent
<1>7. ConnInv /\ ServeInv
  BY DEF GeoInit, ConnInv, ServeInv, NoFlight
<1> QED
  BY <1>2, <1>3, <1>4, <1>5, <1>6, <1>7 DEF GeoInv, GeoTypes

LEMMA GeoInvKept == GeoInv /\ [GeoNext]_geoVars => GeoInv'
<1> SUFFICES ASSUME GeoInv, [GeoNext]_geoVars PROVE GeoInv'
  OBVIOUS
<1>1. loop.pc = "range" => loop.conn \in Conns
  BY DEF GeoInv, ServeInv
<1> QED
  BY <1>1, CacheKept, RowsKept, SocketsKept, FlightsKept, ServeKept DEF GeoInv, GeoTypes

LEMMA GeoInvAlways == GeoSpec => []GeoInv
  BY GeoInitInv, GeoInvKept, PTL DEF GeoSpec

\* The cache of API v4 clients (cachedNextTraceAPIV4Client): the order lists each cached
\* client once and the cache stays within its bound, for any number of lookups that
\* miss at the same time and any bound.
THEOREM CacheSound == GeoSpec => []CacheConsistent
<1>1. GeoInv => CacheConsistent
  BY DEF GeoInv, CacheInv
<1> QED
  BY <1>1, GeoInvAlways, PTL

\* The rows of a trace (updateHop against markAllPendingGeoTimeout): a row shows what
\* its lookup found, none is pending once Traceroute has returned, and only the end of
\* the trace makes a lookup drop what it found.
THEOREM RowsSound == GeoSpec => []RowsSettled
<1>1. GeoInv => RowsSettled
  BY DEF GeoInv, RowInv, GoodRow, RowsSettled
<1> QED
  BY <1>1, GeoInvAlways, PTL

\* The receive loop (startReceiveParse, runReceiveParseLoop): while a lookup waits for an
\* answer on the connection in use, the one loop reads that connection or will come
\* to it, however connections break and are replaced.
THEOREM ReceiverSound == GeoSpec => []ReceiverServes
<1>1. GeoInv => ReceiverServes
  <2> SUFFICES ASSUME GeoInv, NEW q \in Queries, flight[q].pc = "answer", flight[q].conn = ws.cur,
                      ws.state[ws.cur] = "up"
               PROVE  \/ loop.pc = "top"
                      \/ loop.pc = "range" /\ (loop.conn = ws.cur \/ ws.state[loop.conn] # "up")
                      \/ loop.pc = "decide" /\ loop.restart
    BY DEF ReceiverServes
  <2>1. loop.pc \in {"top", "range"} \/ (loop.pc = "decide" /\ loop.restart)
    BY DEF GeoInv, ServeInv
  <2>2. loop.pc = "range" => loop.conn = ws.cur \/ ws.state[loop.conn] # "up"
    BY DEF GeoInv, ServeInv, ConnInv
  <2> QED
    BY <2>1, <2>2
<1> QED
  BY <1>1, GeoInvAlways, PTL

(***************************************************************************)
(* The ICMP engine: types and invariants                                   *)
(***************************************************************************)
Registered == {"header", "send", "rollback", "wait"}
WithNumber == Registered \cup {"load", "register"}
Rotating == {"rotateID", "rotateSpec", "rotateMaps", "rotateWait"}
NotSent == {"load", "register", "header", "send"}

Ids == EchoIDs \cup {Nil}
Packets == [call : Calls, id : Ids, seq : Seqs]
CallRecords == [pc : PCs, seq : 0 .. MaxSeq, round : 0 .. MaxResets, id : Ids, result : Results]

CallType == call \in [Calls -> CallRecords]
SocketType ==
  /\ sendMu \in Calls \cup {None} /\ seqCounter \in 0 .. MaxSeq
  /\ spec \in Specs \cup {Nil} /\ closed \subseteq Specs
  /\ ids \in [Specs -> Ids] /\ echoID \in EchoIDs
RoundType == roundID \in 0 .. MaxResets /\ reset \in {"idle", "bumped"}
MapType ==
  /\ DOMAIN sentAt \subseteq Seqs /\ DOMAIN replied \subseteq Seqs
  /\ sentAt \in [DOMAIN sentAt -> [call : Calls, round : 0 .. MaxResets]]
  /\ probeNotify \in [DOMAIN probeNotify -> Calls]
  /\ replied \in [DOMAIN replied -> Calls]
  /\ done \subseteq Calls
AirType == air \subseteq Packets /\ held \in [Specs -> SUBSET Packets]

EngineTypes == CallType /\ SocketType /\ RoundType /\ MapType /\ AirType

\* A number belongs to one call at a time; sendMu is held throughout a rotation.
CallInv ==
  /\ \A c \in Calls :
       /\ call[c].pc \in WithNumber => call[c].seq \in Seqs
       /\ call[c].pc \notin WithNumber \cup {"returned"} => call[c].seq = 0
       /\ call[c].pc \in Rotating => sendMu = c
       /\ call[c].pc \in {"rotateMaps", "rotateWait"} => seqCounter = 0
  /\ \A c, d \in Calls :
       call[c].pc \in WithNumber /\ call[d].pc \in WithNumber /\ call[c].seq = call[d].seq => c = d

\* The sockets are made one after the other; the open one, if any, is spec.
SpecInv ==
  /\ \A c \in Calls :
       /\ call[c].pc \in Rotating => spec # Nil
       /\ call[c].pc \in {"rotateID", "rotateSpec"} => closed = 0 .. spec /\ spec < MaxRotations
       /\ call[c].pc = "rotateMaps" => ids[spec] = Nil
  /\ spec # Nil /\ (\A c \in Calls : call[c].pc \notin {"rotateID", "rotateSpec"}) =>
       closed = 0 .. spec - 1
  /\ \A s \in Specs \ closed : ids[s] # Nil => s = spec
  /\ (\A c \in Calls : call[c].pc \notin {"rotateSpec", "rotateMaps"}) =>
       \E s \in Specs : ids[s] = echoID

\* The maps agree: an entry is of the call that has the number, and a registered call
\* has its entry until its channel is closed.
MapInv ==
  /\ DOMAIN probeNotify = DOMAIN sentAt
  /\ \A seq \in DOMAIN sentAt :
       LET c == probeNotify[seq]
       IN  /\ sentAt[seq].call = c /\ sentAt[seq].round = call[c].round
           /\ call[c].pc \in Registered /\ call[c].seq = seq
           /\ c \notin done
  /\ \A c \in done : call[c].pc \in Registered \cup {"returned"}
  /\ \A c \in Calls : call[c].pc \in Registered /\ c \notin done =>
       call[c].seq \in DOMAIN sentAt /\ probeNotify[call[c].seq] = c

\* An answer that waits to be taken is one of the current round.
RoundInv ==
  \A c \in Calls :
    /\ call[c].pc \in Registered \cup {"register"}
    /\ call[c].seq \in DOMAIN replied
    /\ reset = "idle"
    => call[c].round = roundID

\* Where an answer can be, and whose it is: on its way it carries the identifier of the
\* socket it was sent from, and its number is not handed out again before the old
\* listeners have dealt with it.
ReplyInv ==
  /\ \A c \in Calls : call[c].pc \in NotSent => call[c].seq <= seqCounter /\ sendMu = None
  /\ \A c \in Calls : call[c].pc = "send" =>
       call[c].id # Nil /\ \E s \in Specs : ids[s] = call[c].id
  /\ \A p \in air : p.id # Nil /\ \E s \in Specs : ids[s] = p.id
  /\ \A p \in air : spec # Nil /\ p.id = ids[spec] =>
       /\ p.seq <= seqCounter
       /\ \A c \in Calls : call[c].pc \in WithNumber /\ call[c].seq = p.seq => c = p.call
  /\ \A s \in Specs : \A p \in held[s] :
       /\ p \in air /\ p.id = ids[s]
       /\ \A c \in Calls : call[c].pc \in WithNumber /\ call[c].seq = p.seq => c = p.call
  /\ (\A c \in Calls : call[c].pc # "rotateMaps") =>
       \A seq \in DOMAIN sentAt \cup DOMAIN replied : seq <= seqCounter
  /\ \A c \in Calls : call[c].pc \in WithNumber /\ call[c].seq \in DOMAIN replied =>
       replied[call[c].seq] = c
  /\ \A c \in Calls : call[c].result \in Calls => call[c].result = c

EngineInv ==
  /\ EngineTypes /\ CallInv /\ SpecInv /\ MapInv /\ RoundInv
  /\ FreshIDs /\ passed = {} => ReplyInv

(***************************************************************************)
(* The ICMP engine: every step keeps the invariant                         *)
(***************************************************************************)
\* A step that changes the record of one call.
LEMMA SetCall ==
  ASSUME CallType, NEW c \in Calls, NEW r \in CallRecords, call' = [call EXCEPT ![c] = r]
  PROVE  /\ CallType' /\ call'[c] = r
         /\ \A d \in Calls : d # c => call'[d] = call[d]
  BY DEF CallType

LEMMA MovePc ==
  ASSUME CallType, NEW c \in Calls, NEW pc \in PCs, call' = [call EXCEPT ![c].pc = pc]
  PROVE  /\ CallType' /\ call'[c].pc = pc /\ call'[c].seq = call[c].seq
         /\ call'[c].round = call[c].round /\ call'[c].id = call[c].id
         /\ call'[c].result = call[c].result
         /\ \A d \in Calls : d # c => call'[d] = call[d]
<1> DEFINE r == [call[c] EXCEPT !.pc = pc]
<1>1. /\ r \in CallRecords /\ r.pc = pc /\ r.seq = call[c].seq /\ r.round = call[c].round
      /\ r.id = call[c].id /\ r.result = call[c].result
  BY DEF CallType, CallRecords
<1>2. call' = [call EXCEPT ![c] = r]
  BY DEF CallType
<1> HIDE DEF r
<1> QED
  BY <1>1, <1>2, SetCall

LEMMA ReturnSets ==
  ASSUME CallType, NEW c \in Calls, NEW result \in Results, Return(c, result)
  PROVE  /\ CallType' /\ call'[c].pc = "returned" /\ call'[c].seq = call[c].seq
         /\ call'[c].round = call[c].round /\ call'[c].id = call[c].id
         /\ call'[c].result = result
         /\ \A d \in Calls : d # c => call'[d] = call[d]
<1> DEFINE r == [call[c] EXCEPT !.pc = "returned", !.result = result]
<1>1. /\ r \in CallRecords /\ r.pc = "returned" /\ r.seq = call[c].seq /\ r.round = call[c].round
      /\ r.id = call[c].id /\ r.result = result
  BY DEF CallType, CallRecords, PCs
<1>2. call' = [call EXCEPT ![c] = r]
  BY DEF CallType, Return
<1> HIDE DEF r
<1> QED
  BY <1>1, <1>2, SetCall

\* The number a call is given is the next one: no number is skipped or wraps.
LEMMA AllocSets ==
  ASSUME CallType, NEW c \in Calls, NEW counter \in 0 .. MaxSeq, ~ seqWillWrap(counter, 1),
         Alloc(c, counter)
  PROVE  /\ CallType' /\ call'[c].pc = "load" /\ call'[c].seq = counter + 1
         /\ call'[c].round = call[c].round /\ call'[c].id = call[c].id
         /\ call'[c].result = call[c].result
         /\ \A d \in Calls : d # c => call'[d] = call[d]
         /\ seqCounter' = counter + 1 /\ counter + 1 \in Seqs /\ NotLapped(counter + 1)
<1>1. MaxSeq \in Nat \ {0} /\ counter \in Nat
  BY EngineAssumption
<1>2. \A x, y \in Nat : x < y => x % y = x
  OBVIOUS
<1>3. counter % (MaxSeq + 1) = counter
  BY <1>1, <1>2
<1>4. counter + 1 <= MaxSeq /\ counter + 1 \in 0 .. MaxSeq /\ counter + 1 \in Seqs
  BY <1>1, <1>3 DEF seqWillWrap, Seqs
<1>5. (counter + 1) % (MaxSeq + 1) = counter + 1
  BY <1>1, <1>2, <1>4
<1>6. NotLapped(counter + 1) /\ seqCounter' = counter + 1
      /\ call' = [call EXCEPT ![c].pc = "load", ![c].seq = counter + 1]
  BY <1>5 DEF Alloc
<1> DEFINE r == [call[c] EXCEPT !.pc = "load", !.seq = counter + 1]
<1>7. /\ r \in CallRecords /\ r.pc = "load" /\ r.seq = counter + 1 /\ r.round = call[c].round
      /\ r.id = call[c].id /\ r.result = call[c].result
  BY <1>4 DEF CallType, CallRecords, PCs
<1>8. call' = [call EXCEPT ![c] = r]
  BY <1>6 DEF CallType
<1> HIDE DEF r
<1>9. /\ CallType' /\ call'[c] = r
      /\ \A d \in Calls : d # c => call'[d] = call[d]
  BY <1>7, <1>8, SetCall
<1> QED
  BY <1>4, <1>6, <1>7, <1>9

\* Steps of one call that change nothing but its record.
LEMMA CallOnlyKept ==
  ASSUME EngineInv, NEW c \in Calls, NEW from \in PCs, NEW to \in PCs,
         <<from, to>> \in {<<"idle", "lock">>, <<"load", "register">>, <<"header", "send">>,
                           <<"send", "rollback">>},
         CallType', call[c].pc = from, call'[c].pc = to, call'[c].seq = call[c].seq,
         call'[c].result = call[c].result,
         call'[c].round = IF from = "load" THEN roundID ELSE call[c].round,
         call'[c].id = IF from = "header" THEN echoID ELSE call[c].id,
         \A d \in Calls : d # c => call'[d] = call[d],
         UNCHANGED <<engineVars, roundID, mapVars, air, held, reset, passed>>
  PROVE  EngineInv'
<1>0. /\ EngineTypes /\ CallInv /\ SpecInv /\ MapInv /\ RoundInv
      /\ FreshIDs /\ passed = {} => ReplyInv
  BY DEF EngineInv
<1>1. /\ UNCHANGED <<sendMu, seqCounter, spec, closed, ids, echoID>>
      /\ UNCHANGED <<sentAt, replied, probeNotify, done>>
      /\ UNCHANGED <<roundID, air, held, reset, passed>>
  BY DEF engineVars, mapVars
<1>2. EngineTypes'
  BY <1>0, <1>1 DEF EngineTypes, SocketType, RoundType, MapType, AirType
<1>3. CallInv'
  BY <1>0, <1>1 DEF CallInv, WithNumber, Registered, Rotating
<1>4. SpecInv'
  BY <1>0, <1>1 DEF SpecInv, Rotating
<1>5. MapInv'
  <2>1. \A d \in Calls : call[d].pc \in Registered => call'[d].round = call[d].round
    BY <1>1 DEF Registered
  <2>2. \A d \in Calls : /\ call'[d].pc \in Registered <=> call[d].pc \in Registered
                         /\ call'[d].pc = "returned" <=> call[d].pc = "returned"
                         /\ call'[d].seq = call[d].seq
    BY DEF Registered
  <2>3. \A seq \in DOMAIN sentAt : probeNotify[seq] \in Calls
    BY <1>0 DEF MapInv, EngineTypes, MapType
  <2>4. done \subseteq Calls
    BY <1>0 DEF EngineTypes, MapType
  <2> QED
    BY <1>0, <1>1, <2>1, <2>2, <2>3, <2>4 DEF MapInv
<1>6. RoundInv'
  BY <1>0, <1>1 DEF RoundInv, Registered
<1>7. ASSUME (FreshIDs /\ passed = {})' PROVE ReplyInv'
  <2>1. ReplyInv
    BY <1>0, <1>1, <1>7 DEF FreshIDs
  <2>2. from = "header" => echoID # Nil /\ \E s \in Specs : ids[s] = echoID
    <3>1. from = "header" => \A d \in Calls : call[d].pc \notin Rotating
      BY <1>0, <2>1, EngineAssumption DEF CallInv, ReplyInv, NotSent, Rotating, None
    <3>2. echoID # Nil
      BY <1>0, EngineAssumption DEF EngineTypes, SocketType, EchoIDs, Nil
    <3> QED
      BY <1>0, <3>1, <3>2 DEF SpecInv, Rotating
  <2>3. \A d \in Calls : /\ call'[d].pc \in WithNumber <=> call[d].pc \in WithNumber
                         /\ call'[d].pc \in NotSent => call[d].pc \in NotSent
                         /\ call'[d].seq = call[d].seq /\ call'[d].result = call[d].result
                         /\ call'[d].pc = "rotateMaps" <=> call[d].pc = "rotateMaps"
    BY DEF WithNumber, Registered, NotSent
  <2>4. \A d \in Calls : call'[d].pc = "send" =>
          call'[d].id # Nil /\ \E s \in Specs : ids[s] = call'[d].id
    BY <2>1, <2>2 DEF ReplyInv
  <2> QED
    BY <1>1, <2>1, <2>3, <2>4 DEF ReplyInv
<1> QED
  BY <1>2, <1>3, <1>4, <1>5, <1>6, <1>7 DEF EngineInv

LEMMA LaunchKept ==
  ASSUME EngineInv, NEW c \in Calls, Launch(c)
  PROVE  EngineInv'
<1>1. CallType
  BY DEF EngineInv, EngineTypes
<1>2. call[c].pc = "idle" /\ call' = [call EXCEPT ![c].pc = "lock"]
  BY DEF Launch, At
<1>3. "idle" \in PCs /\ "lock" \in PCs
  BY DEF PCs
<1> QED
  BY <1>1, <1>2, <1>3, MovePc, CallOnlyKept, ZenonT(40) DEF Launch

LEMMA SendFailsKept ==
  ASSUME EngineInv, NEW c \in Calls, SendFails(c)
  PROVE  EngineInv'
<1>1. CallType
  BY DEF EngineInv, EngineTypes
<1>2. call[c].pc = "send" /\ call' = [call EXCEPT ![c].pc = "rollback"]
  BY DEF SendFails, At
<1>3. "send" \in PCs /\ "rollback" \in PCs
  BY DEF PCs
<1> QED
  BY <1>1, <1>2, <1>3, MovePc, CallOnlyKept, ZenonT(40) DEF SendFails

LEMMA LoadRoundKept ==
  ASSUME EngineInv, NEW c \in Calls, LoadRound(c)
  PROVE  EngineInv'
<1>1. CallType /\ roundID \in 0 .. MaxResets
  BY DEF EngineInv, EngineTypes, RoundType
<1> DEFINE r == [call[c] EXCEPT !.pc = "register", !.round = roundID]
<1>2. /\ r \in CallRecords /\ r.pc = "register" /\ r.seq = call[c].seq /\ r.round = roundID
      /\ r.id = call[c].id /\ r.result = call[c].result
  BY <1>1 DEF CallType, CallRecords, PCs
<1>3. call[c].pc = "load" /\ call' = [call EXCEPT ![c] = r]
  BY <1>1 DEF LoadRound, At, CallType
<1>4. "load" \in PCs /\ "register" \in PCs
  BY DEF PCs
<1> HIDE DEF r
<1>5. /\ CallType' /\ call'[c] = r
      /\ \A d \in Calls : d # c => call'[d] = call[d]
  BY <1>1, <1>2, <1>3, SetCall
<1> QED
  BY <1>2, <1>3, <1>4, <1>5, CallOnlyKept DEF LoadRound

LEMMA HeaderKept ==
  ASSUME EngineInv, NEW c \in Calls, Header(c)
  PROVE  EngineInv'
<1>1. CallType /\ echoID \in Ids
  BY DEF EngineInv, EngineTypes, SocketType, Ids
<1> DEFINE r == [call[c] EXCEPT !.pc = "send", !.id = echoID]
<1>2. /\ r \in CallRecords /\ r.pc = "send" /\ r.seq = call[c].seq /\ r.round = call[c].round
      /\ r.id = echoID /\ r.result = call[c].result
  BY <1>1 DEF CallType, CallRecords, PCs
<1>3. call[c].pc = "header" /\ call' = [call EXCEPT ![c] = r]
  BY <1>1 DEF Header, At, CallType
<1>4. "header" \in PCs /\ "send" \in PCs
  BY DEF PCs
<1> HIDE DEF r
<1>5. /\ CallType' /\ call'[c] = r
      /\ \A d \in Calls : d # c => call'[d] = call[d]
  BY <1>1, <1>2, <1>3, SetCall
<1> QED
  BY <1>2, <1>3, <1>4, <1>5, CallOnlyKept DEF Header

\* A call gets a number no other call of the moment has, nor an answer an old listener
\* still holds.
LEMMA AllocKept ==
  ASSUME EngineInv, NEW c \in Calls, ~ seqWillWrap(seqCounter, 1), Alloc(c, seqCounter),
         \/ call[c].pc = "lock" /\ sendMu = None
         \/ call[c].pc = "rotateWait",
         sendMu' = None,
         UNCHANGED <<spec, closed, ids, echoID, roundID, mapVars, air, held, reset, passed>>
  PROVE  EngineInv'
<1>0. /\ EngineTypes /\ CallInv /\ SpecInv /\ MapInv /\ RoundInv
      /\ FreshIDs /\ passed = {} => ReplyInv
  BY DEF EngineInv
<1>1. /\ UNCHANGED <<sentAt, replied, probeNotify, done>>
      /\ UNCHANGED <<spec, closed, ids, echoID, roundID, air, held, reset, passed>>
  BY DEF mapVars
<1>2. seqCounter \in 0 .. MaxSeq /\ CallType /\ MaxSeq \in Nat
  BY <1>0, EngineAssumption DEF EngineTypes, SocketType
<1> DEFINE seq == seqCounter + 1
<1>3. /\ CallType' /\ call'[c].pc = "load" /\ call'[c].seq = seq
      /\ call'[c].result = call[c].result
      /\ \A d \in Calls : d # c => call'[d] = call[d]
      /\ seqCounter' = seq /\ seq \in Seqs /\ NotLapped(seq)
  BY <1>2, AllocSets
<1>4. seq \in Nat /\ \A n \in Seqs : n <= seqCounter => n # seq /\ n <= seq
  BY <1>2 DEF Seqs
<1> HIDE DEF seq
<1>5. \A d \in Calls : d # c => call[d].pc \notin Rotating
  BY <1>0, EngineAssumption DEF CallInv, Rotating, None
<1>6. \A d \in Calls : call[d].pc \in WithNumber => call[d].seq # seq
  BY <1>3 DEF NotLapped, Active, WithNumber, Registered
<1>7. EngineTypes'
  <2>1. SocketType'
    BY <1>0, <1>1, <1>3, <1>4 DEF EngineTypes, SocketType, Seqs
  <2> QED
    BY <1>0, <1>1, <1>3, <2>1 DEF EngineTypes, RoundType, MapType, AirType
<1>8. CallInv'
  <2>1. \A d \in Calls : call'[d].pc \notin Rotating
    BY <1>3, <1>5 DEF Rotating
  <2>2. ASSUME NEW d \in Calls
        PROVE  /\ call'[d].pc \in WithNumber => call'[d].seq \in Seqs
               /\ call'[d].pc \notin WithNumber \cup {"returned"} => call'[d].seq = 0
    BY <1>0, <1>3 DEF CallInv, WithNumber
  <2>3. ASSUME NEW d \in Calls, NEW e \in Calls, call'[d].pc \in WithNumber,
               call'[e].pc \in WithNumber, call'[d].seq = call'[e].seq
        PROVE  d = e
    BY <1>0, <1>3, <1>6, <2>3 DEF CallInv
  <2> QED
    BY <2>1, <2>2, <2>3 DEF CallInv, Rotating
<1>9. SpecInv'
  <2>1. \A d \in Calls : /\ call'[d].pc \notin Rotating
                         /\ call[d].pc \notin {"rotateID", "rotateSpec", "rotateMaps"}
    BY <1>3, <1>5 DEF Rotating
  <2> QED
    BY <1>0, <1>1, <2>1 DEF SpecInv, Rotating
<1>10. MapInv'
  <2>1. \A d \in Calls : call'[d].pc \in Registered \/ call[d].pc \in Registered => d # c
    BY <1>3 DEF Registered
  <2>2. c \notin done
    BY <1>0 DEF MapInv, Registered
  <2>3. \A n \in DOMAIN sentAt : probeNotify[n] \in Calls
    BY <1>0 DEF MapInv, EngineTypes, MapType
  <2>4. done \subseteq Calls
    BY <1>0 DEF EngineTypes, MapType
  <2> QED
    BY <1>0, <1>1, <1>3, <2>1, <2>2, <2>3, <2>4 DEF MapInv
<1>11. RoundInv'
  BY <1>0, <1>1, <1>3 DEF RoundInv, Registered
<1>12. ASSUME (FreshIDs /\ passed = {})' PROVE ReplyInv'
  <2>1. ReplyInv
    BY <1>0, <1>1, <1>12 DEF FreshIDs
  <2>2. air \subseteq Packets /\ \A p \in Packets : p.seq \in Seqs
    BY <1>0 DEF EngineTypes, AirType, Packets
  <2>3. \A d \in Calls : call'[d].pc \in NotSent => call'[d].seq <= seqCounter' /\ sendMu' = None
    <3>1. ASSUME NEW d \in Calls, d # c, call[d].pc \in NotSent
          PROVE  call[d].seq <= seq
      BY <1>0, <1>4, <2>1, <3>1 DEF ReplyInv, CallInv, NotSent, WithNumber, Registered
    <3> QED
      BY <1>3, <1>4, <3>1
  <2>4. \A p \in air : spec # Nil /\ p.id = ids[spec] =>
          /\ p.seq <= seq
          /\ \A d \in Calls : call'[d].pc \in WithNumber /\ call'[d].seq = p.seq => d = p.call
    BY <1>3, <1>4, <2>1, <2>2 DEF ReplyInv
  <2>5. \A s \in Specs : \A p \in held[s] : p.seq # seq
    <3> SUFFICES ASSUME NEW s \in Specs, NEW p \in held[s] PROVE p.seq # seq
      OBVIOUS
    <3>1. CASE s \in closed
      BY <1>3, <3>1 DEF NotLapped
    <3>2. CASE s \notin closed
      <4>1. p \in air /\ p.id = ids[s] /\ p.id # Nil
        BY <2>1 DEF ReplyInv
      <4>2. s = spec /\ spec # Nil
        BY <1>0, <3>2, <4>1, EngineAssumption DEF SpecInv, Specs, Nil
      <4>3. p.seq <= seqCounter
        BY <2>1, <4>1, <4>2 DEF ReplyInv
      <4> QED
        BY <1>4, <2>2, <4>1, <4>3
    <3> QED
      BY <3>1, <3>2
  <2>6. \A s \in Specs : \A p \in held[s] :
          /\ p \in air /\ p.id = ids[s]
          /\ \A d \in Calls : call'[d].pc \in WithNumber /\ call'[d].seq = p.seq => d = p.call
    BY <1>3, <2>1, <2>5 DEF ReplyInv
  <2>7. \A n \in DOMAIN sentAt \cup DOMAIN replied : n # seq /\ n <= seq
    <3>1. \A d \in Calls : call[d].pc # "rotateMaps"
      BY <1>5 DEF Rotating
    <3>2. DOMAIN sentAt \cup DOMAIN replied \subseteq Seqs
      BY <1>0 DEF EngineTypes, MapType
    <3> QED
      BY <1>4, <2>1, <3>1, <3>2 DEF ReplyInv
  <2>8. \A d \in Calls : call'[d].pc \in WithNumber /\ call'[d].seq \in DOMAIN replied =>
          replied[call'[d].seq] = d
    BY <1>3, <2>1, <2>7 DEF ReplyInv
  <2>9. \A d \in Calls : call'[d].pc = "send" =>
          call'[d].id # Nil /\ \E s \in Specs : ids[s] = call'[d].id
    BY <1>3, <2>1 DEF ReplyInv
  <2>10. \A d \in Calls : call'[d].result \in Calls => call'[d].result = d
    BY <1>3, <2>1 DEF ReplyInv
  <2>11. \A p \in air : p.id # Nil /\ \E s \in Specs : ids[s] = p.id
    BY <2>1 DEF ReplyInv
  <2> QED
    BY <1>1, <1>3, <2>3, <2>4, <2>6, <2>7, <2>8, <2>9, <2>10, <2>11 DEF ReplyInv
<1> QED
  BY <1>7, <1>8, <1>9, <1>10, <1>11, <1>12 DEF EngineInv

LEMMA AllocateKept ==
  ASSUME EngineInv, NEW c \in Calls, Allocate(c)
  PROVE  EngineInv'
<1>1. /\ ~ seqWillWrap(seqCounter, 1) /\ Alloc(c, seqCounter) /\ call[c].pc = "lock"
      /\ sendMu = None /\ sendMu' = None
      /\ UNCHANGED <<spec, closed, ids, echoID, roundID, mapVars, air, held, reset, passed>>
  BY DEF Allocate, At
<1> QED
  BY <1>1, AllocKept

LEMMA RotateReadyKept ==
  ASSUME EngineInv, NEW c \in Calls, RotateReady(c)
  PROVE  EngineInv'
<1>1. /\ Alloc(c, seqCounter) /\ call[c].pc = "rotateWait" /\ sendMu' = None
      /\ UNCHANGED <<spec, closed, ids, echoID, roundID, mapVars, air, held, reset, passed>>
  BY DEF RotateReady, At
<1>2. ~ seqWillWrap(seqCounter, 1)
  <2>1. seqCounter = 0 /\ MaxSeq \in Nat \ {0}
    BY <1>1, EngineAssumption DEF EngineInv, CallInv
  <2>2. 0 % (MaxSeq + 1) = 0
    <3>1. \A y \in Nat \ {0} : 0 % y = 0
      OBVIOUS
    <3> QED
      BY <2>1, <3>1
  <2> QED
    BY <2>1, <2>2 DEF seqWillWrap
<1> QED
  BY <1>1, <1>2, AllocKept

\* A call without a number moves: the maps do not concern it.
LEMMA MapsAside ==
  ASSUME EngineInv, NEW c \in Calls, call[c].pc \in Rotating \cup {"lock"},
         call'[c].pc \in Rotating \cup {"returned"},
         \A d \in Calls : d # c => call'[d] = call[d],
         UNCHANGED <<roundID, mapVars, reset>>
  PROVE  MapInv' /\ RoundInv'
<1>0. MapInv /\ RoundInv /\ MapType
  BY DEF EngineInv, EngineTypes
<1>1. UNCHANGED <<sentAt, replied, probeNotify, done, roundID, reset>>
  BY DEF mapVars
<1>2. \A d \in Calls : call'[d].pc \in Registered \/ call[d].pc \in Registered => d # c
  BY DEF Registered, Rotating
<1>3. c \notin done
  BY <1>0 DEF MapInv, Registered, Rotating
<1>4. \A n \in DOMAIN sentAt : probeNotify[n] \in Calls
  BY <1>0 DEF MapInv, MapType
<1>5. done \subseteq Calls
  BY <1>0 DEF MapType
<1>6. MapInv'
  BY <1>0, <1>1, <1>2, <1>3, <1>4, <1>5 DEF MapInv
<1>7. call'[c].pc \notin Registered \cup {"register"}
  BY DEF Registered, Rotating
<1>8. RoundInv'
  BY <1>0, <1>1, <1>7 DEF RoundInv
<1> QED
  BY <1>6, <1>8

\* The old socket is closed: nobody that has not sent is passed unnoticed.
LEMMA RotateCloseKept ==
  ASSUME EngineInv, NEW c \in Calls, RotateClose(c)
  PROVE  EngineInv'
<1>0. /\ EngineTypes /\ CallInv /\ SpecInv /\ MapInv /\ RoundInv
      /\ FreshIDs /\ passed = {} => ReplyInv
  BY DEF EngineInv
<1>1. /\ UNCHANGED <<sentAt, replied, probeNotify, done, mapVars>>
      /\ UNCHANGED <<seqCounter, spec, ids, echoID, roundID, air, held, reset>>
      /\ call[c].pc = "lock" /\ sendMu = None /\ sendMu' = c /\ passed' = passed \cup Unsent
  BY DEF mapVars, RotateClose, At
<1>2. \A d \in Calls : call[d].pc \notin Rotating
  BY <1>0, <1>1, EngineAssumption DEF CallInv, None
<1>3. ASSUME (FreshIDs /\ passed = {})'
      PROVE  ReplyInv /\ \A d \in Calls : call[d].pc \notin NotSent
  BY <1>0, <1>1, <1>3 DEF FreshIDs, Unsent, NotSent
<1>4. CASE spec = Nil
  <2>1. UNCHANGED <<call, closed>>
    BY <1>4 DEF RotateClose
  <2>2. EngineTypes'
    BY <1>0, <1>1, <2>1 DEF EngineTypes, CallType, SocketType, RoundType, MapType, AirType
  <2>3. CallInv' /\ SpecInv'
    BY <1>0, <1>1, <1>2, <2>1 DEF CallInv, SpecInv, Rotating
  <2>4. MapInv' /\ RoundInv'
    BY <1>0, <1>1, <2>1 DEF MapInv, RoundInv
  <2>5. ASSUME (FreshIDs /\ passed = {})' PROVE ReplyInv'
    BY <1>1, <1>3, <2>1, <2>5 DEF ReplyInv
  <2> QED
    BY <2>2, <2>3, <2>4, <2>5 DEF EngineInv
<1>5. CASE spec # Nil
  <2>1. closed' = closed \cup {spec} /\ call' = [call EXCEPT ![c].pc = "rotateID"]
    BY <1>5 DEF RotateClose
  <2>2. /\ CallType' /\ call'[c].pc = "rotateID" /\ call'[c].seq = call[c].seq
        /\ call'[c].result = call[c].result
        /\ \A d \in Calls : d # c => call'[d] = call[d]
    <3>1. "rotateID" \in PCs
      BY DEF PCs
    <3> QED
      BY <1>0, <2>1, <3>1, MovePc DEF EngineTypes
  <2>3. closed' = 0 .. spec /\ spec < MaxRotations /\ spec \in Specs
    <3>1. closed = 0 .. spec - 1
      BY <1>0, <1>2, <1>5 DEF SpecInv, Rotating
    <3>2. spec \in 0 .. MaxRotations /\ MaxRotations \in Nat
      BY <1>0, <1>5, EngineAssumption DEF EngineTypes, SocketType, Specs
    <3>3. Cardinality(0 .. spec - 1) = spec
      <4>1. Cardinality(0 .. spec - 1) = IF 0 > spec - 1 THEN 0 ELSE spec - 1 - 0 + 1
        BY <3>2, FS_Interval
      <4> QED
        BY <3>2, <4>1
    <3>4. Cardinality(closed) < MaxRotations
      BY DEF RotateClose
    <3> QED
      BY <2>1, <3>1, <3>2, <3>3, <3>4 DEF Specs
  <2>4. EngineTypes'
    <3>1. SocketType'
      BY <1>0, <1>1, <2>1, <2>3 DEF EngineTypes, SocketType
    <3> QED
      BY <1>0, <1>1, <2>2, <3>1 DEF EngineTypes, RoundType, MapType, AirType
  <2>5. CallInv'
    BY <1>0, <1>1, <1>2, <2>2 DEF CallInv, Rotating, WithNumber, Registered
  <2>6. SpecInv'
    BY <1>0, <1>1, <1>2, <1>5, <2>1, <2>2, <2>3 DEF SpecInv, Rotating
  <2>7. MapInv' /\ RoundInv'
    BY <1>1, <2>2, MapsAside DEF Rotating
  <2>8. ASSUME (FreshIDs /\ passed = {})' PROVE ReplyInv'
    <3>1. \A d \in Calls : /\ call'[d].pc \in WithNumber => d # c
                           /\ call'[d].pc \notin NotSent
                           /\ call'[d].result = call[d].result
                           /\ call[d].pc # "rotateMaps"
      BY <1>2, <1>3, <2>2, <2>8 DEF WithNumber, Registered, NotSent, Rotating
    <3>2. \A d \in Calls : call'[d].pc # "send"
      BY <3>1 DEF NotSent
    <3> QED
      BY <1>1, <1>3, <2>2, <2>8, <3>1, <3>2 DEF ReplyInv
  <2> QED
    BY <2>4, <2>5, <2>6, <2>7, <2>8 DEF EngineInv
<1> QED
  BY <1>4, <1>5

LEMMA RotateIDKept ==
  ASSUME EngineInv, NEW c \in Calls, RotateID(c)
  PROVE  EngineInv'
<1>0. /\ EngineTypes /\ CallInv /\ SpecInv /\ MapInv /\ RoundInv
      /\ FreshIDs /\ passed = {} => ReplyInv
  BY DEF EngineInv
<1>1. /\ UNCHANGED <<sentAt, replied, probeNotify, done, mapVars>>
      /\ UNCHANGED <<sendMu, seqCounter, spec, closed, ids, roundID, air, held, reset, passed>>
      /\ call[c].pc = "rotateID" /\ echoID' \in EchoIDs
      /\ call' = [call EXCEPT ![c].pc = "rotateSpec"]
  BY DEF mapVars, RotateID, At
<1>2. /\ CallType' /\ call'[c].pc = "rotateSpec" /\ call'[c].seq = call[c].seq
      /\ call'[c].result = call[c].result
      /\ \A d \in Calls : d # c => call'[d] = call[d]
  <2>1. "rotateSpec" \in PCs
    BY DEF PCs
  <2> QED
    BY <1>0, <1>1, <2>1, MovePc DEF EngineTypes
<1>3. EngineTypes'
  <2>1. SocketType'
    BY <1>0, <1>1 DEF EngineTypes, SocketType
  <2> QED
    BY <1>0, <1>1, <1>2, <2>1 DEF EngineTypes, RoundType, MapType, AirType
<1>4. CallInv'
  BY <1>0, <1>1, <1>2 DEF CallInv, Rotating, WithNumber, Registered
<1>5. SpecInv'
  BY <1>0, <1>1, <1>2 DEF SpecInv, Rotating
<1>6. MapInv' /\ RoundInv'
  BY <1>1, <1>2, MapsAside DEF Rotating
<1>7. ASSUME (FreshIDs /\ passed = {})' PROVE ReplyInv'
  <2>1. ReplyInv
    BY <1>0, <1>1, <1>7 DEF FreshIDs
  <2>2. \A d \in Calls : /\ call'[d].pc \in WithNumber \cup NotSent => d # c
                         /\ call'[d].result = call[d].result
                         /\ call'[d].pc = "rotateMaps" <=> call[d].pc = "rotateMaps"
                         /\ call'[d].pc = "send" => d # c
    BY <1>1, <1>2 DEF WithNumber, Registered, NotSent
  <2> QED
    BY <1>1, <1>2, <2>1, <2>2 DEF ReplyInv
<1> QED
  BY <1>3, <1>4, <1>5, <1>6, <1>7 DEF EngineInv

\* The numbers start again: no listener accepts the new socket's identifier yet.
LEMMA RotateSpecKept ==
  ASSUME EngineInv, NEW c \in Calls, RotateSpec(c)
  PROVE  EngineInv'
<1>0. /\ EngineTypes /\ CallInv /\ SpecInv /\ MapInv /\ RoundInv
      /\ FreshIDs /\ passed = {} => ReplyInv
  BY DEF EngineInv
<1>1. /\ UNCHANGED <<sentAt, replied, probeNotify, done, mapVars>>
      /\ UNCHANGED <<sendMu, closed, ids, echoID, roundID, air, held, reset, passed>>
      /\ call[c].pc = "rotateSpec" /\ seqCounter' = 0 /\ spec' = spec + 1
      /\ call' = [call EXCEPT ![c].pc = "rotateMaps"]
  BY DEF mapVars, RotateSpec, At
<1>2. /\ CallType' /\ call'[c].pc = "rotateMaps" /\ call'[c].seq = call[c].seq
      /\ call'[c].result = call[c].result
      /\ \A d \in Calls : d # c => call'[d] = call[d]
  <2>1. "rotateMaps" \in PCs
    BY DEF PCs
  <2> QED
    BY <1>0, <1>1, <2>1, MovePc DEF EngineTypes
<1>3. \A d \in Calls : d # c => call[d].pc \notin Rotating
  BY <1>0, <1>1 DEF CallInv, Rotating
<1>4. /\ spec \in Nat /\ closed = 0 .. spec /\ spec < MaxRotations /\ spec + 1 \in Specs
      /\ spec + 1 \notin closed /\ spec + 1 # spec /\ spec + 1 # Nil /\ MaxSeq \in Nat
      /\ closed = 0 .. (spec + 1) - 1
  <2>1. spec # Nil /\ closed = 0 .. spec /\ spec < MaxRotations
    BY <1>0, <1>1 DEF SpecInv, Rotating
  <2>2. spec \in 0 .. MaxRotations
    BY <1>0, <2>1 DEF EngineTypes, SocketType, Specs
  <2> QED
    BY <2>1, <2>2, EngineAssumption DEF Specs, Nil
<1>5. ids[spec + 1] = Nil
  BY <1>0, <1>4 DEF SpecInv
<1>6. EngineTypes'
  <2>1. SocketType'
    BY <1>0, <1>1, <1>4 DEF EngineTypes, SocketType
  <2> QED
    BY <1>0, <1>1, <1>2, <2>1 DEF EngineTypes, RoundType, MapType, AirType
<1>7. CallInv'
  BY <1>0, <1>1, <1>2, <1>3 DEF CallInv, Rotating, WithNumber, Registered
<1>8. SpecInv'
  <2>1. \A d \in Calls : /\ call'[d].pc \in Rotating => d = c
                         /\ call'[d].pc \notin {"rotateID", "rotateSpec"}
    BY <1>2, <1>3 DEF Rotating
  <2>2. \A s \in Specs \ closed : ids[s] = Nil
    BY <1>0, <1>4 DEF SpecInv
  <2> QED
    BY <1>1, <1>2, <1>4, <1>5, <2>1, <2>2 DEF SpecInv
<1>9. MapInv' /\ RoundInv'
  BY <1>1, <1>2, MapsAside DEF Rotating
<1>10. ASSUME (FreshIDs /\ passed = {})' PROVE ReplyInv'
  <2>1. ReplyInv
    BY <1>0, <1>1, <1>10 DEF FreshIDs
  <2>2. \A d \in Calls : call[d].pc \notin NotSent
    BY <1>0, <1>1, <2>1, EngineAssumption DEF ReplyInv, CallInv, Rotating, None
  <2>3. \A d \in Calls : /\ call'[d].pc \in WithNumber => d # c
                         /\ call'[d].result = call[d].result
                         /\ call'[d].pc \notin NotSent
    BY <1>1, <1>2, <2>2 DEF WithNumber, Registered, NotSent
  <2>4. \A d \in Calls : call'[d].pc # "send"
    BY <2>3 DEF NotSent
  <2>5. \A p \in air : p.id # ids[spec']
    BY <1>1, <1>5, <2>1 DEF ReplyInv
  <2> QED
    BY <1>1, <1>2, <2>1, <2>3, <2>4, <2>5 DEF ReplyInv
<1> QED
  BY <1>6, <1>7, <1>8, <1>9, <1>10 DEF EngineInv

\* What ClearMaps leaves: nothing registered, and every registered call's channel closed.
LEMMA ClearMapsSets ==
  ASSUME MapType, MapInv, ClearMaps
  PROVE  /\ MapType' /\ DOMAIN sentAt' = {} /\ DOMAIN replied' = {} /\ DOMAIN probeNotify' = {}
         /\ \A d \in Calls : call[d].pc \in Registered => d \in done'
         /\ \A d \in done' : call[d].pc \in Registered \cup {"returned"}
<1>1. /\ sentAt' = << >> /\ replied' = << >> /\ probeNotify' = << >>
      /\ done' = done \cup Range(probeNotify)
  BY DEF ClearMaps
<1>2. DOMAIN sentAt' = {} /\ DOMAIN replied' = {} /\ DOMAIN probeNotify' = {}
  BY <1>1
<1>3. Range(probeNotify) = {probeNotify[n] : n \in DOMAIN probeNotify}
  BY DEF Range
<1>4. done' \subseteq Calls
  BY <1>1, <1>3 DEF MapType
<1>5. /\ sentAt' \in [{} -> [call : Calls, round : 0 .. MaxResets]]
      /\ probeNotify' \in [{} -> Calls] /\ replied' \in [{} -> Calls]
  BY <1>1
<1>6. MapType'
  BY <1>2, <1>4, <1>5 DEF MapType
<1>7. \A d \in Calls : call[d].pc \in Registered => d \in done'
  BY <1>1, <1>3 DEF MapInv
<1>8. \A d \in done' : call[d].pc \in Registered \cup {"returned"}
  BY <1>1, <1>3 DEF MapInv
<1> QED
  BY <1>2, <1>6, <1>7, <1>8

LEMMA ClearMapsKeeps ==
  ASSUME MapType, MapInv, ClearMaps,
         \A d \in Calls : /\ call'[d].pc \in Registered <=> call[d].pc \in Registered
                          /\ call'[d].pc = "returned" <=> call[d].pc = "returned"
  PROVE  MapInv' /\ RoundInv'
<1>1. /\ MapType' /\ DOMAIN sentAt' = {} /\ DOMAIN replied' = {} /\ DOMAIN probeNotify' = {}
      /\ \A d \in Calls : call[d].pc \in Registered => d \in done'
      /\ \A d \in done' : call[d].pc \in Registered \cup {"returned"}
  BY ClearMapsSets
<1>2. done' \subseteq Calls
  BY <1>1 DEF MapType
<1>3. MapInv'
  BY <1>1, <1>2 DEF MapInv
<1>4. RoundInv'
  BY <1>1 DEF RoundInv
<1> QED
  BY <1>3, <1>4

\* The new socket's listener gets its identifier; the maps start empty.
LEMMA RotateMapsKept ==
  ASSUME EngineInv, NEW c \in Calls, RotateMaps(c)
  PROVE  EngineInv'
<1>0. /\ EngineTypes /\ CallInv /\ SpecInv /\ MapInv /\ RoundInv
      /\ FreshIDs /\ passed = {} => ReplyInv
  BY DEF EngineInv
<1>1. /\ UNCHANGED <<sendMu, seqCounter, spec, closed, echoID, roundID, air, held, reset, passed>>
      /\ call[c].pc = "rotateMaps" /\ ClearMaps /\ ids' = [ids EXCEPT ![spec] = echoID]
      /\ call' = [call EXCEPT ![c].pc = "rotateWait"]
  BY DEF RotateMaps, At
<1>2. /\ CallType' /\ call'[c].pc = "rotateWait" /\ call'[c].seq = call[c].seq
      /\ call'[c].result = call[c].result
      /\ \A d \in Calls : d # c => call'[d] = call[d]
  <2>1. "rotateWait" \in PCs
    BY DEF PCs
  <2> QED
    BY <1>0, <1>1, <2>1, MovePc DEF EngineTypes
<1>3. \A d \in Calls : d # c => call[d].pc \notin Rotating
  BY <1>0, <1>1 DEF CallInv, Rotating
<1>4. /\ spec \in Specs /\ spec # Nil /\ ids[spec] = Nil /\ ids' \in [Specs -> Ids]
      /\ ids'[spec] = echoID /\ \A s \in Specs : s # spec => ids'[s] = ids[s]
  BY <1>0, <1>1 DEF SpecInv, Rotating, EngineTypes, SocketType, Ids
<1>5. EngineTypes'
  <2>1. SocketType'
    BY <1>0, <1>1, <1>4 DEF EngineTypes, SocketType
  <2>2. MapType'
    BY <1>0, <1>1, ClearMapsSets DEF EngineTypes
  <2> QED
    BY <1>0, <1>1, <1>2, <2>1, <2>2 DEF EngineTypes, RoundType, AirType
<1>6. CallInv'
  BY <1>0, <1>1, <1>2, <1>3 DEF CallInv, Rotating, WithNumber, Registered
<1>7. SpecInv'
  <2>1. \A d \in Calls : /\ call'[d].pc \in Rotating => d = c
                         /\ call'[d].pc \notin {"rotateID", "rotateSpec", "rotateMaps"}
                         /\ call[d].pc \notin {"rotateID", "rotateSpec"}
    BY <1>1, <1>2, <1>3 DEF Rotating
  <2> QED
    BY <1>0, <1>1, <1>4, <2>1 DEF SpecInv
<1>8. MapInv' /\ RoundInv'
  <2>1. \A d \in Calls : /\ call'[d].pc \in Registered <=> call[d].pc \in Registered
                         /\ call'[d].pc = "returned" <=> call[d].pc = "returned"
    BY <1>1, <1>2 DEF Registered
  <2> QED
    BY <1>0, <1>1, <2>1, ClearMapsKeeps DEF EngineTypes
<1>9. ASSUME (FreshIDs /\ passed = {})' PROVE ReplyInv'
  <2>1. FreshIDs
    BY <1>4, <1>9 DEF FreshIDs
  <2>2. ReplyInv
    BY <1>0, <1>1, <1>9, <2>1
  <2>3. \A d \in Calls : call[d].pc \notin NotSent
    BY <1>0, <1>1, <2>2, EngineAssumption DEF ReplyInv, CallInv, Rotating, None
  <2>4. \A d \in Calls : /\ call'[d].pc \in WithNumber => d # c
                         /\ call'[d].result = call[d].result
                         /\ call'[d].pc \notin NotSent
    BY <1>1, <1>2, <2>3 DEF WithNumber, Registered, NotSent
  <2>5. \A d \in Calls : call'[d].pc # "send"
    BY <2>4 DEF NotSent
  <2>6. \A p \in air : p.id # Nil /\ \E s \in Specs : s # spec /\ ids'[s] = p.id
    BY <1>4, <2>2 DEF ReplyInv
  <2>7. \A p \in air : p.id # ids'[spec]
    BY <1>4, <1>9, <2>6 DEF FreshIDs
  <2>8. \A s \in Specs : \A p \in held[s] : p \in air /\ p.id = ids'[s]
    BY <1>4, <2>2 DEF ReplyInv
  <2>9. DOMAIN sentAt' = {} /\ DOMAIN replied' = {}
    BY <1>0, <1>1, ClearMapsSets DEF EngineTypes
  <2> QED
    BY <1>1, <1>2, <2>2, <2>4, <2>5, <2>6, <2>7, <2>8, <2>9 DEF ReplyInv
<1> QED
  BY <1>5, <1>6, <1>7, <1>8, <1>9 DEF EngineInv

LEMMA RotateFailsKept ==
  ASSUME EngineInv, NEW c \in Calls, RotateFails(c)
  PROVE  EngineInv'
<1>0. /\ EngineTypes /\ CallInv /\ SpecInv /\ MapInv /\ RoundInv
      /\ FreshIDs /\ passed = {} => ReplyInv
  BY DEF EngineInv
<1>1. /\ UNCHANGED <<sentAt, replied, probeNotify, done, mapVars>>
      /\ UNCHANGED <<seqCounter, ids, echoID, roundID, air, held, reset, passed>>
      /\ call[c].pc = "rotateWait" /\ closed' = closed \cup {spec} /\ spec' = Nil
      /\ sendMu' = None /\ Return(c, "error")
  BY DEF mapVars, RotateFails, At
<1>2. /\ CallType' /\ call'[c].pc = "returned" /\ call'[c].seq = call[c].seq
      /\ call'[c].result = "error" /\ "error" \notin Calls
      /\ \A d \in Calls : d # c => call'[d] = call[d]
  BY <1>0, <1>1, ReturnSets, EngineAssumption DEF EngineTypes, Results
<1>3. \A d \in Calls : d # c => call[d].pc \notin Rotating
  BY <1>0, <1>1 DEF CallInv, Rotating
<1>4. spec # Nil /\ spec \in Specs
  BY <1>0, <1>1 DEF SpecInv, Rotating, EngineTypes, SocketType
<1>5. EngineTypes'
  <2>1. SocketType'
    BY <1>0, <1>1, <1>4 DEF EngineTypes, SocketType
  <2> QED
    BY <1>0, <1>1, <1>2, <2>1 DEF EngineTypes, RoundType, MapType, AirType
<1>6. CallInv'
  BY <1>0, <1>1, <1>2, <1>3 DEF CallInv, Rotating, WithNumber, Registered
<1>7. SpecInv'
  <2>1. \A d \in Calls : /\ call'[d].pc \notin Rotating
                         /\ call[d].pc \notin {"rotateSpec", "rotateMaps"}
    BY <1>1, <1>2, <1>3 DEF Rotating
  <2> QED
    BY <1>0, <1>1, <2>1 DEF SpecInv, Rotating
<1>8. MapInv' /\ RoundInv'
  BY <1>1, <1>2, MapsAside DEF Rotating
<1>9. ASSUME (FreshIDs /\ passed = {})' PROVE ReplyInv'
  <2>1. ReplyInv
    BY <1>0, <1>1, <1>9 DEF FreshIDs
  <2>2. \A d \in Calls : /\ call'[d].pc \in WithNumber \cup NotSent => d # c
                         /\ call'[d].pc = "send" => d # c
                         /\ call[d].pc # "rotateMaps"
                         /\ d # c => call'[d].result = call[d].result
    BY <1>1, <1>2, <1>3 DEF WithNumber, Registered, NotSent, Rotating
  <2> QED
    BY <1>1, <1>2, <2>1, <2>2 DEF ReplyInv
<1> QED
  BY <1>5, <1>6, <1>7, <1>8, <1>9 DEF EngineInv

LEMMA RegisterKept ==
  ASSUME EngineInv, NEW c \in Calls, Register(c)
  PROVE  EngineInv'
<1>0. /\ EngineTypes /\ CallInv /\ SpecInv /\ MapInv /\ RoundInv
      /\ FreshIDs /\ passed = {} => ReplyInv
  BY DEF EngineInv
<1> DEFINE seq == call[c].seq
<1>1. /\ UNCHANGED <<sendMu, seqCounter, spec, closed, ids, echoID>>
      /\ UNCHANGED <<roundID, replied, done, air, held, reset, passed>>
      /\ call[c].pc = "register" /\ call' = [call EXCEPT ![c].pc = "header"]
      /\ sentAt' = With(sentAt, seq, [call |-> c, round |-> call[c].round])
      /\ probeNotify' = With(probeNotify, seq, c)
  BY DEF engineVars, Register, At
<1>2. /\ CallType' /\ call'[c].pc = "header" /\ call'[c].seq = seq
      /\ call'[c].round = call[c].round /\ call'[c].result = call[c].result
      /\ \A d \in Calls : d # c => call'[d] = call[d]
  <2>1. "header" \in PCs
    BY DEF PCs
  <2> QED
    BY <1>0, <1>1, <2>1, MovePc DEF EngineTypes
<1>3. seq \in Seqs /\ call[c].round \in 0 .. MaxResets
  BY <1>0, <1>1 DEF CallInv, WithNumber, EngineTypes, CallType, CallRecords
<1>4. /\ DOMAIN sentAt' = DOMAIN sentAt \cup {seq}
      /\ DOMAIN probeNotify' = DOMAIN probeNotify \cup {seq}
      /\ sentAt'[seq].call = c /\ sentAt'[seq].round = call[c].round /\ probeNotify'[seq] = c
      /\ \A n \in DOMAIN sentAt : n # seq => sentAt'[n] = sentAt[n]
      /\ \A n \in DOMAIN probeNotify : n # seq => probeNotify'[n] = probeNotify[n]
  BY <1>1 DEF With
<1>5. MapType'
  <2>1. sentAt' \in [DOMAIN sentAt' -> [call : Calls, round : 0 .. MaxResets]]
    BY <1>0, <1>1, <1>3 DEF EngineTypes, MapType, With
  <2>2. probeNotify' \in [DOMAIN probeNotify' -> Calls]
    BY <1>0, <1>1 DEF EngineTypes, MapType, With
  <2> QED
    BY <1>0, <1>1, <1>3, <1>4, <2>1, <2>2 DEF EngineTypes, MapType
<1> HIDE DEF seq
<1>6. EngineTypes'
  BY <1>0, <1>1, <1>2, <1>5 DEF EngineTypes, SocketType, RoundType, AirType
<1>7. CallInv'
  <2>1. \A d \in Calls : /\ call'[d].pc \in WithNumber <=> call[d].pc \in WithNumber
                         /\ call'[d].pc = "returned" <=> call[d].pc = "returned"
                         /\ call'[d].pc \in Rotating => call[d].pc \in Rotating /\ d # c
                         /\ call'[d].seq = call[d].seq
    BY <1>1, <1>2 DEF WithNumber, Registered, Rotating, seq
  <2> QED
    BY <1>0, <1>1, <1>2, <2>1 DEF CallInv, Rotating
<1>8. SpecInv'
  BY <1>0, <1>1, <1>2 DEF SpecInv, Rotating
<1>9. MapInv'
  <2>1. c \notin done
    BY <1>0, <1>1 DEF MapInv, Registered
  <2>2. \A n \in DOMAIN sentAt : probeNotify[n] \in Calls /\ probeNotify[n] # c
    BY <1>0, <1>1 DEF MapInv, EngineTypes, MapType, Registered
  <2>3. \A d \in Calls : call[d].pc \in Registered => d # c /\ call[d].seq # seq
    BY <1>0, <1>1 DEF CallInv, WithNumber, Registered, seq
  <2>4. "header" \in Registered /\ done \subseteq Calls
    BY <1>0 DEF Registered, EngineTypes, MapType
  <2>5. DOMAIN probeNotify' = DOMAIN sentAt'
    BY <1>0, <1>4 DEF MapInv
  <2>6. ASSUME NEW n \in DOMAIN sentAt'
        PROVE  LET d == probeNotify'[n]
               IN  /\ sentAt'[n].call = d /\ sentAt'[n].round = call'[d].round
                   /\ call'[d].pc \in Registered /\ call'[d].seq = n
                   /\ d \notin done
    <3>1. CASE n = seq
      BY <1>2, <1>4, <2>1, <2>4, <3>1
    <3>2. CASE n # seq
      BY <1>0, <1>2, <1>4, <2>2, <3>2 DEF MapInv
    <3> QED
      BY <3>1, <3>2
  <2>7. \A d \in done : call'[d].pc \in Registered \cup {"returned"}
    BY <1>0, <1>2, <2>1, <2>4 DEF MapInv
  <2>8. \A d \in Calls : call'[d].pc \in Registered /\ d \notin done =>
          call'[d].seq \in DOMAIN sentAt' /\ probeNotify'[call'[d].seq] = d
    BY <1>0, <1>2, <1>4, <2>3 DEF MapInv
  <2> QED
    BY <1>1, <2>5, <2>6, <2>7, <2>8 DEF MapInv
<1>10. RoundInv'
  BY <1>0, <1>1, <1>2 DEF RoundInv, Registered, seq
<1>11. ASSUME (FreshIDs /\ passed = {})' PROVE ReplyInv'
  <2>1. ReplyInv
    BY <1>0, <1>1, <1>11 DEF FreshIDs
  <2>2. \A d \in Calls : /\ call'[d].pc \in WithNumber <=> call[d].pc \in WithNumber
                         /\ call'[d].pc \in NotSent => call[d].pc \in NotSent
                         /\ call'[d].seq = call[d].seq /\ call'[d].result = call[d].result
                         /\ call'[d].pc = "rotateMaps" <=> call[d].pc = "rotateMaps"
                         /\ call'[d].pc = "send" => d # c
    BY <1>1, <1>2 DEF WithNumber, Registered, NotSent, seq
  <2>3. seq <= seqCounter
    BY <1>1, <2>1 DEF ReplyInv, NotSent, seq
  <2>4. (\A d \in Calls : call'[d].pc # "rotateMaps") =>
          \A n \in DOMAIN sentAt' \cup DOMAIN replied' : n <= seqCounter'
    BY <1>1, <1>4, <2>1, <2>2, <2>3 DEF ReplyInv
  <2>5. \A d \in Calls : call'[d].pc = "send" =>
          call'[d].id # Nil /\ \E s \in Specs : ids[s] = call'[d].id
    BY <1>2, <2>1, <2>2 DEF ReplyInv
  <2> QED
    BY <1>1, <2>1, <2>2, <2>4, <2>5 DEF ReplyInv
<1> QED
  BY <1>6, <1>7, <1>8, <1>9, <1>10, <1>11 DEF EngineInv

\* The packet carries the identifier of the socket in use, if no rotation came between.
LEMMA SendKept ==
  ASSUME EngineInv, NEW c \in Calls, Send(c)
  PROVE  EngineInv'
<1>0. /\ EngineTypes /\ CallInv /\ SpecInv /\ MapInv /\ RoundInv
      /\ FreshIDs /\ passed = {} => ReplyInv
  BY DEF EngineInv
<1> DEFINE sent == [call |-> c, id |-> call[c].id, seq |-> call[c].seq]
<1>1. /\ UNCHANGED <<sendMu, seqCounter, spec, closed, ids, echoID>>
      /\ UNCHANGED <<sentAt, replied, probeNotify, done>>
      /\ UNCHANGED <<roundID, held, reset, passed>>
      /\ call[c].pc = "send" /\ call' = [call EXCEPT ![c].pc = "wait"]
      /\ air' = air \cup {sent}
  BY DEF engineVars, mapVars, Send, At
<1>2. /\ CallType' /\ call'[c].pc = "wait" /\ call'[c].seq = call[c].seq
      /\ call'[c].round = call[c].round /\ call'[c].result = call[c].result
      /\ \A d \in Calls : d # c => call'[d] = call[d]
  <2>1. "wait" \in PCs
    BY DEF PCs
  <2> QED
    BY <1>0, <1>1, <2>1, MovePc DEF EngineTypes
<1>3. sent \in Packets /\ sent.call = c /\ sent.id = call[c].id /\ sent.seq = call[c].seq
  <2>1. call[c].seq \in Seqs /\ call[c].id \in Ids
    BY <1>0, <1>1 DEF CallInv, WithNumber, Registered, EngineTypes, CallType, CallRecords
  <2> QED
    BY <2>1 DEF Packets
<1> HIDE DEF sent
<1>4. EngineTypes'
  <2>1. AirType'
    BY <1>0, <1>1, <1>3 DEF EngineTypes, AirType
  <2> QED
    BY <1>0, <1>1, <1>2, <2>1 DEF EngineTypes, SocketType, RoundType, MapType
<1>5. \A d \in Calls : /\ call'[d].pc \in WithNumber <=> call[d].pc \in WithNumber
                       /\ call'[d].pc \in Registered <=> call[d].pc \in Registered
                       /\ call'[d].pc = "returned" <=> call[d].pc = "returned"
                       /\ call'[d].pc \in Rotating => call[d].pc \in Rotating /\ d # c
                       /\ call'[d].pc \in NotSent => call[d].pc \in NotSent
                       /\ call'[d].pc = "rotateMaps" <=> call[d].pc = "rotateMaps"
                       /\ call'[d].pc = "send" => d # c
                       /\ call'[d].seq = call[d].seq /\ call'[d].result = call[d].result
                       /\ call'[d].round = call[d].round
  BY <1>1, <1>2 DEF WithNumber, Registered, Rotating, NotSent
<1>6. CallInv'
  BY <1>0, <1>1, <1>2, <1>5 DEF CallInv, Rotating
<1>7. SpecInv'
  BY <1>0, <1>1, <1>2 DEF SpecInv, Rotating
<1>8. MapInv'
  <2>1. done \subseteq Calls /\ \A n \in DOMAIN sentAt : probeNotify[n] \in Calls
    BY <1>0 DEF MapInv, EngineTypes, MapType
  <2> QED
    BY <1>0, <1>1, <1>5, <2>1 DEF MapInv
<1>9. RoundInv'
  BY <1>0, <1>1, <1>2 DEF RoundInv, Registered
<1>10. ASSUME (FreshIDs /\ passed = {})' PROVE ReplyInv'
  <2>1. ReplyInv
    BY <1>0, <1>1, <1>10 DEF FreshIDs
  <2>2. /\ sent.id # Nil /\ \E s \in Specs : ids[s] = sent.id
        /\ sent.seq <= seqCounter
        /\ \A d \in Calls : call'[d].pc \in WithNumber /\ call'[d].seq = sent.seq => d = sent.call
    BY <1>0, <1>1, <1>3, <1>5, <2>1 DEF ReplyInv, NotSent, CallInv, WithNumber, Registered
  <2>3. \A p \in air' : p.id # Nil /\ \E s \in Specs : ids[s] = p.id
    BY <1>1, <2>1, <2>2 DEF ReplyInv
  <2>4. \A p \in air' : spec # Nil /\ p.id = ids[spec] =>
          /\ p.seq <= seqCounter
          /\ \A d \in Calls : call'[d].pc \in WithNumber /\ call'[d].seq = p.seq => d = p.call
    BY <1>1, <1>5, <2>1, <2>2 DEF ReplyInv
  <2>5. \A d \in Calls : call'[d].pc = "send" =>
          call'[d].id # Nil /\ \E s \in Specs : ids[s] = call'[d].id
    BY <1>2, <1>5, <2>1 DEF ReplyInv
  <2> QED
    BY <1>1, <1>5, <2>1, <2>3, <2>4, <2>5 DEF ReplyInv
<1> QED
  BY <1>4, <1>6, <1>7, <1>8, <1>9, <1>10 DEF EngineInv

LEMMA AsideKept ==
  ASSUME EngineInv, UNCHANGED <<call, engineVars, roundID, mapVars, air, held, reset, passed>>
  PROVE  EngineInv'
<1>1. /\ UNCHANGED <<call, sendMu, seqCounter, spec, closed, ids, echoID>>
      /\ UNCHANGED <<sentAt, replied, probeNotify, done>>
      /\ UNCHANGED <<roundID, air, held, reset, passed>>
  BY DEF engineVars, mapVars
<1>2. EngineTypes' /\ CallInv' /\ SpecInv' /\ MapInv' /\ RoundInv'
  BY <1>1 DEF EngineInv, EngineTypes, CallType, SocketType, RoundType, MapType, AirType, CallInv,
     SpecInv, MapInv, RoundInv
<1>3. (FreshIDs /\ passed = {})' => ReplyInv'
  BY <1>1 DEF EngineInv, FreshIDs, ReplyInv
<1> QED
  BY <1>2, <1>3 DEF EngineInv

LEMMA ResetBumpKept ==
  ASSUME EngineInv, ResetBump
  PROVE  EngineInv'
<1>1. /\ UNCHANGED <<call, sendMu, seqCounter, spec, closed, ids, echoID>>
      /\ UNCHANGED <<sentAt, replied, probeNotify, done>>
      /\ UNCHANGED <<air, held, passed>>
      /\ roundID < MaxResets /\ roundID' = roundID + 1 /\ reset' = "bumped"
  BY DEF engineVars, mapVars, ResetBump
<1>2. RoundType'
  BY <1>1, EngineAssumption DEF EngineInv, EngineTypes, RoundType
<1>3. EngineTypes' /\ CallInv' /\ SpecInv' /\ MapInv'
  BY <1>1, <1>2 DEF EngineInv, EngineTypes, CallType, SocketType, MapType, AirType, CallInv,
     SpecInv, MapInv
<1>4. RoundInv'
  BY <1>1 DEF RoundInv
<1>5. (FreshIDs /\ passed = {})' => ReplyInv'
  BY <1>1 DEF EngineInv, FreshIDs, ReplyInv
<1> QED
  BY <1>3, <1>4, <1>5 DEF EngineInv

LEMMA ResetClearKept ==
  ASSUME EngineInv, ResetClear
  PROVE  EngineInv'
<1>0. EngineTypes /\ MapType /\ CallInv /\ SpecInv /\ MapInv
  BY DEF EngineInv, EngineTypes
<1>1. /\ UNCHANGED <<call, sendMu, seqCounter, spec, closed, ids, echoID>>
      /\ UNCHANGED <<roundID, air, held, passed>>
      /\ ClearMaps /\ reset' = "idle"
  BY DEF engineVars, ResetClear
<1>2. MapType' /\ DOMAIN sentAt' = {} /\ DOMAIN replied' = {}
  BY <1>0, <1>1, ClearMapsSets
<1>3. EngineTypes' /\ CallInv' /\ SpecInv'
  BY <1>0, <1>1, <1>2 DEF EngineTypes, CallType, SocketType, RoundType, AirType, CallInv, SpecInv
<1>4. MapInv' /\ RoundInv'
  BY <1>0, <1>1, ClearMapsKeeps
<1>5. (FreshIDs /\ passed = {})' => ReplyInv'
  BY <1>1, <1>2 DEF EngineInv, FreshIDs, ReplyInv
<1> QED
  BY <1>3, <1>4, <1>5 DEF EngineInv

\* The entry under a call's number, if there is one, is its own.
LEMMA OwnEntry ==
  ASSUME EngineInv, NEW c \in Calls, call[c].pc \in WithNumber, call[c].seq \in DOMAIN sentAt
  PROVE  probeNotify[call[c].seq] = c /\ c \notin done /\ sentAt[call[c].seq].round = call[c].round
<1> DEFINE d == probeNotify[call[c].seq]
<1>1. d \in Calls
  BY DEF EngineInv, EngineTypes, MapType, MapInv
<1>2. call[d].pc \in Registered /\ call[d].seq = call[c].seq /\ d \notin done
      /\ sentAt[call[c].seq].round = call[d].round
  BY DEF EngineInv, MapInv
<1>3. d = c
  BY <1>1, <1>2 DEF EngineInv, CallInv, WithNumber
<1> QED
  BY <1>2, <1>3

\* The facts about f without one of its arguments.
LEMMA WithoutFacts ==
  ASSUME NEW f, NEW n
  PROVE  /\ DOMAIN Without(f, n) = DOMAIN f \ {n}
         /\ \A m \in DOMAIN f \ {n} : Without(f, n)[m] = f[m]
         /\ \A T : f \in [DOMAIN f -> T] => Without(f, n) \in [DOMAIN f \ {n} -> T]
  BY DEF Without, Restrict

\* A call returns and takes its entries with it.
LEMMA EndsKept ==
  ASSUME EngineInv, NEW c \in Calls, NEW result \in Results, call[c].pc \in {"rollback", "wait"},
         Return(c, result), FreshIDs /\ passed = {} /\ result \in Calls => result = c,
         UNCHANGED <<engineVars, roundID, air, held, reset, passed>>,
         sentAt' = Without(sentAt, call[c].seq), probeNotify' = Without(probeNotify, call[c].seq),
         replied' = replied \/ replied' = Without(replied, call[c].seq),
         done \subseteq done', done' \subseteq done \cup {c}
  PROVE  EngineInv'
<1>0. /\ EngineTypes /\ CallInv /\ SpecInv /\ MapInv /\ RoundInv
      /\ FreshIDs /\ passed = {} => ReplyInv
  BY DEF EngineInv
<1> DEFINE seq == call[c].seq
<1>1. /\ UNCHANGED <<sendMu, seqCounter, spec, closed, ids, echoID>>
      /\ UNCHANGED <<roundID, air, held, reset, passed>>
  BY DEF engineVars
<1>2. /\ CallType' /\ call'[c].pc = "returned" /\ call'[c].seq = call[c].seq
      /\ call'[c].result = result
      /\ \A d \in Calls : d # c => call'[d] = call[d]
  BY <1>0, ReturnSets DEF EngineTypes
<1>3. /\ DOMAIN sentAt' = DOMAIN sentAt \ {seq} /\ DOMAIN probeNotify' = DOMAIN probeNotify \ {seq}
      /\ \A n \in DOMAIN sentAt \ {seq} : sentAt'[n] = sentAt[n]
      /\ \A n \in DOMAIN probeNotify \ {seq} : probeNotify'[n] = probeNotify[n]
  BY DEF Without, Restrict
<1>4. /\ DOMAIN replied' \subseteq DOMAIN replied
      /\ \A n \in DOMAIN replied' : replied'[n] = replied[n]
      /\ replied' \in [DOMAIN replied' -> Calls]
  <2>1. replied \in [DOMAIN replied -> Calls]
    BY <1>0 DEF EngineTypes, MapType
  <2>2. CASE replied' = replied
    BY <2>1, <2>2
  <2>3. CASE replied' = Without(replied, seq)
    BY <2>1, <2>3 DEF Without, Restrict
  <2> QED
    BY <2>2, <2>3
<1>5. MapType'
  <2>1. /\ sentAt' \in [DOMAIN sentAt' -> [call : Calls, round : 0 .. MaxResets]]
        /\ probeNotify' \in [DOMAIN probeNotify' -> Calls]
    BY <1>0, <1>3, WithoutFacts DEF EngineTypes, MapType
  <2>2. done' \subseteq Calls
    BY <1>0 DEF EngineTypes, MapType
  <2> QED
    BY <1>0, <1>3, <1>4, <2>1, <2>2 DEF EngineTypes, MapType
<1>6. EngineTypes'
  BY <1>0, <1>1, <1>2, <1>5 DEF EngineTypes, SocketType, RoundType, AirType
<1>7. \A d \in Calls : /\ call'[d].pc \in WithNumber => call[d].pc \in WithNumber /\ d # c
                       /\ call'[d].pc \in Registered <=> call[d].pc \in Registered /\ d # c
                       /\ call[d].pc = "returned" => call'[d].pc = "returned"
                       /\ call'[d].pc \in Rotating <=> call[d].pc \in Rotating
                       /\ call'[d].pc \in NotSent => call[d].pc \in NotSent /\ d # c
                       /\ call'[d].pc = "rotateMaps" <=> call[d].pc = "rotateMaps"
                       /\ call'[d].pc = "send" => call[d].pc = "send" /\ d # c
  BY <1>2 DEF WithNumber, Registered, Rotating, NotSent
<1>8. \A d \in Calls : call[d].pc \in WithNumber /\ d # c => call[d].seq # seq
  BY <1>0 DEF CallInv, WithNumber, Registered
<1> HIDE DEF seq
<1>9. CallInv'
  BY <1>0, <1>1, <1>2 DEF CallInv, Rotating, WithNumber, Registered
<1>10. SpecInv'
  BY <1>0, <1>1, <1>2 DEF SpecInv, Rotating
<1>11. MapInv'
  <2>1. DOMAIN probeNotify' = DOMAIN sentAt'
    BY <1>0, <1>3 DEF MapInv
  <2>2. ASSUME NEW n \in DOMAIN sentAt'
        PROVE  LET d == probeNotify'[n]
               IN  /\ sentAt'[n].call = d /\ sentAt'[n].round = call'[d].round
                   /\ call'[d].pc \in Registered /\ call'[d].seq = n
                   /\ d \notin done'
    <3>1. n \in DOMAIN sentAt /\ n # seq /\ probeNotify'[n] = probeNotify[n]
          /\ sentAt'[n] = sentAt[n]
      BY <1>0, <1>3 DEF MapInv
    <3>2. probeNotify[n] # c /\ probeNotify[n] \in Calls
      BY <1>0, <3>1 DEF MapInv, seq, EngineTypes, MapType
    <3> QED
      BY <1>0, <1>2, <3>1, <3>2 DEF MapInv
  <2>3. \A d \in done' : call'[d].pc \in Registered \cup {"returned"}
    <3>1. done' \subseteq Calls
      BY <1>5 DEF MapType
    <3> QED
      BY <1>0, <1>2, <3>1 DEF MapInv
  <2>4. \A d \in Calls : call'[d].pc \in Registered /\ d \notin done' =>
          call'[d].seq \in DOMAIN sentAt' /\ probeNotify'[call'[d].seq] = d
    BY <1>0, <1>2, <1>3, <1>7, <1>8 DEF MapInv, WithNumber
  <2> QED
    BY <2>1, <2>2, <2>3, <2>4 DEF MapInv
<1>12. RoundInv'
  BY <1>0, <1>1, <1>2, <1>4 DEF RoundInv, Registered
<1>13. ASSUME (FreshIDs /\ passed = {})' PROVE ReplyInv'
  <2>1. ReplyInv /\ (result \in Calls => result = c)
    BY <1>0, <1>1, <1>13 DEF FreshIDs
  <2>2. \A d \in Calls : call'[d].pc \in WithNumber /\ call'[d].seq \in DOMAIN replied' =>
          replied'[call'[d].seq] = d
    BY <1>2, <1>4, <1>7, <2>1 DEF ReplyInv
  <2>3. (\A d \in Calls : call'[d].pc # "rotateMaps") =>
          \A n \in DOMAIN sentAt' \cup DOMAIN replied' : n <= seqCounter'
    BY <1>1, <1>3, <1>4, <1>7, <2>1 DEF ReplyInv
  <2>4. \A d \in Calls : call'[d].result \in Calls => call'[d].result = d
    BY <1>2, <2>1 DEF ReplyInv
  <2> QED
    BY <1>1, <1>2, <1>7, <2>1, <2>2, <2>3, <2>4 DEF ReplyInv
<1> QED
  BY <1>6, <1>9, <1>10, <1>11, <1>12, <1>13 DEF EngineInv

LEMMA RollbackKept ==
  ASSUME EngineInv, NEW c \in Calls, Rollback(c)
  PROVE  EngineInv'
<1>1. /\ call[c].pc = "rollback" /\ Return(c, IF cancelled THEN "error" ELSE "timeout")
      /\ UNCHANGED <<engineVars, roundID, replied, air, held, reset, passed>>
      /\ sentAt' = Without(sentAt, call[c].seq) /\ probeNotify' = Without(probeNotify, call[c].seq)
      /\ done' = done \cup (IF call[c].seq \in DOMAIN probeNotify
                            THEN {probeNotify[call[c].seq]} ELSE {})
  BY DEF Rollback, At, closeProbeNotifyLocked
<1>2. DOMAIN probeNotify = DOMAIN sentAt
  BY DEF EngineInv, MapInv
<1>3. done' \subseteq done \cup {c} /\ done \subseteq done'
  BY <1>1, <1>2, OwnEntry DEF WithNumber, Registered
<1>4. /\ (IF cancelled THEN "error" ELSE "timeout") \in Results
      /\ (IF cancelled THEN "error" ELSE "timeout") \notin Calls
  BY EngineAssumption DEF Results
<1> QED
  BY <1>1, <1>3, <1>4, EndsKept

LEMMA ExpireKept ==
  ASSUME EngineInv, NEW c \in Calls, Expire(c)
  PROVE  EngineInv'
<1>1. /\ call[c].pc = "wait" /\ (Return(c, "timeout") \/ Return(c, "error"))
      /\ UNCHANGED <<engineVars, roundID, replied, done, air, held, reset, passed>>
      /\ sentAt' = Without(sentAt, call[c].seq) /\ probeNotify' = Without(probeNotify, call[c].seq)
  BY DEF Expire, At
<1>2. {"timeout", "error"} \subseteq Results /\ "timeout" \notin Calls /\ "error" \notin Calls
  BY EngineAssumption DEF Results
<1> QED
  BY <1>1, <1>2, EndsKept

\* What a call takes is under its own number, and its own.
LEMMA TakeKept ==
  ASSUME EngineInv, NEW c \in Calls, Take(c)
  PROVE  EngineInv'
<1> DEFINE seq == call[c].seq
           result == IF seq \in DOMAIN replied THEN replied[seq] ELSE "timeout"
<1>1. /\ call[c].pc = "wait" /\ c \in done /\ Return(c, result)
      /\ replied' = Without(replied, seq)
      /\ UNCHANGED <<engineVars, roundID, sentAt, probeNotify, done, air, held, reset, passed>>
  BY DEF Take, At
<1>2. seq \notin DOMAIN sentAt /\ seq \notin DOMAIN probeNotify
  BY <1>1, OwnEntry DEF WithNumber, Registered, EngineInv, MapInv
<1>3. sentAt' = Without(sentAt, seq) /\ probeNotify' = Without(probeNotify, seq)
  <2>1. /\ sentAt = [n \in DOMAIN sentAt |-> sentAt[n]]
        /\ probeNotify = [n \in DOMAIN probeNotify |-> probeNotify[n]]
    BY DEF EngineInv, EngineTypes, MapType
  <2>2. DOMAIN sentAt \ {seq} = DOMAIN sentAt /\ DOMAIN probeNotify \ {seq} = DOMAIN probeNotify
    BY <1>2
  <2> HIDE DEF seq
  <2> QED
    BY <1>1, <2>1, <2>2 DEF Without, Restrict
<1>4. result \in Results
  BY DEF EngineInv, EngineTypes, MapType, Results
<1>5. FreshIDs /\ passed = {} /\ result \in Calls => result = c
  <2>1. "timeout" \notin Calls
    BY EngineAssumption
  <2>2. FreshIDs /\ passed = {} /\ seq \in DOMAIN replied => replied[seq] = c
    BY <1>1 DEF EngineInv, ReplyInv, WithNumber, Registered
  <2> QED
    BY <2>1, <2>2
<1> HIDE DEF result
<1> QED
  BY <1>1, <1>3, <1>4, <1>5, EndsKept

\* An open listener is the one of the socket in use.
LEMMA ReceiveKept ==
  ASSUME EngineInv, NEW t \in Specs, Receive(t)
  PROVE  EngineInv'
<1>0. /\ EngineTypes /\ CallInv /\ SpecInv /\ MapInv /\ RoundInv
      /\ FreshIDs /\ passed = {} => ReplyInv
  BY DEF EngineInv
<1>1. /\ UNCHANGED <<call, sendMu, seqCounter, spec, closed, ids, echoID>>
      /\ UNCHANGED <<sentAt, replied, probeNotify, done>>
      /\ UNCHANGED <<roundID, air, reset, passed>>
      /\ t \notin closed /\ ids[t] # Nil
  BY DEF engineVars, mapVars, Receive
<1>2. PICK p \in air : p.id = ids[t] /\ held' = [held EXCEPT ![t] = {p}]
  BY DEF Receive
<1>3. /\ held' \in [Specs -> SUBSET Packets] /\ held'[t] = {p}
      /\ \A s \in Specs : s # t => held'[s] = held[s]
  BY <1>0, <1>2 DEF EngineTypes, AirType
<1>4. t = spec /\ spec # Nil
  BY <1>0, <1>1, EngineAssumption DEF SpecInv, Specs, Nil
<1>5. EngineTypes'
  BY <1>0, <1>1, <1>3 DEF EngineTypes, CallType, SocketType, RoundType, MapType, AirType
<1>6. CallInv' /\ SpecInv' /\ MapInv' /\ RoundInv'
  BY <1>0, <1>1 DEF CallInv, SpecInv, MapInv, RoundInv
<1>7. ASSUME (FreshIDs /\ passed = {})' PROVE ReplyInv'
  <2>1. ReplyInv
    BY <1>0, <1>1, <1>7 DEF FreshIDs
  <2>2. \A d \in Calls : call[d].pc \in WithNumber /\ call[d].seq = p.seq => d = p.call
    BY <1>2, <1>4, <2>1 DEF ReplyInv
  <2>3. \A s \in Specs : \A q \in held'[s] :
          /\ q \in air /\ q.id = ids[s]
          /\ \A d \in Calls : call[d].pc \in WithNumber /\ call[d].seq = q.seq => d = q.call
    BY <1>2, <1>3, <2>1, <2>2 DEF ReplyInv
  <2> QED
    BY <1>1, <2>1, <2>3 DEF ReplyInv
<1> QED
  BY <1>5, <1>6, <1>7 DEF EngineInv

\* An answer goes to the call that has its number, which is the one that sent it.
LEMMA OnICMPKept ==
  ASSUME EngineInv, NEW t \in Specs, NEW inRange \in BOOLEAN, onICMP(t, inRange)
  PROVE  EngineInv'
<1>0. /\ EngineTypes /\ CallInv /\ SpecInv /\ MapInv /\ RoundInv
      /\ FreshIDs /\ passed = {} => ReplyInv
  BY DEF EngineInv
<1>1. PICK p \in held[t] :
        /\ held' = [held EXCEPT ![t] = {}]
        /\ IF p.seq \notin DOMAIN sentAt THEN UNCHANGED mapVars
           ELSE /\ replied' = IF shouldDiscardProbeReplyLocked(sentAt[p.seq], inRange)
                              THEN replied ELSE With(replied, p.seq, p.call)
                /\ sentAt' = Without(sentAt, p.seq)
                /\ closeProbeNotifyLocked(p.seq)
  BY DEF onICMP
<1>2. /\ UNCHANGED <<call, sendMu, seqCounter, spec, closed, ids, echoID>>
      /\ UNCHANGED <<roundID, air, reset, passed>>
  BY DEF engineVars, onICMP
<1> DEFINE seq == p.seq
<1>3. /\ held' \in [Specs -> SUBSET Packets] /\ p \in Packets
      /\ seq \in Seqs /\ p.call \in Calls
      /\ \A s \in Specs : held'[s] \subseteq held[s]
  <2>1. p \in Packets
    BY <1>0 DEF EngineTypes, AirType
  <2> QED
    BY <1>0, <1>1, <2>1 DEF EngineTypes, AirType, Packets
<1>4. CallInv' /\ SpecInv' /\ AirType' /\ CallType' /\ SocketType' /\ RoundType'
  BY <1>0, <1>2, <1>3 DEF EngineTypes, CallInv, SpecInv, AirType, CallType, SocketType, RoundType
<1>5. CASE seq \notin DOMAIN sentAt
  <2>1. UNCHANGED <<sentAt, replied, probeNotify, done>>
    BY <1>1, <1>5 DEF mapVars
  <2>2. EngineTypes' /\ MapInv' /\ RoundInv'
    BY <1>0, <1>2, <1>4, <2>1 DEF EngineTypes, MapType, MapInv, RoundInv
  <2>3. (FreshIDs /\ passed = {})' => ReplyInv'
    BY <1>0, <1>2, <1>3, <2>1 DEF FreshIDs, ReplyInv
  <2> QED
    BY <1>4, <2>2, <2>3 DEF EngineInv
<1>6. CASE seq \in DOMAIN sentAt
  <2> DEFINE o == probeNotify[seq]
  <2>1. /\ o \in Calls /\ call[o].pc \in Registered /\ call[o].seq = seq
        /\ sentAt[seq].round = call[o].round /\ DOMAIN probeNotify = DOMAIN sentAt
    BY <1>0, <1>6 DEF MapInv, EngineTypes, MapType
  <2>2. /\ sentAt' = Without(sentAt, seq) /\ probeNotify' = Without(probeNotify, seq)
        /\ done' = done \cup {o}
        /\ \/ replied' = replied
           \/ replied' = With(replied, seq, p.call) /\ sentAt[seq].round = roundID
    BY <1>1, <1>6, <2>1 DEF closeProbeNotifyLocked, shouldDiscardProbeReplyLocked
  <2> HIDE DEF o
  <2>3. /\ DOMAIN sentAt' = DOMAIN sentAt \ {seq}
        /\ DOMAIN probeNotify' = DOMAIN probeNotify \ {seq}
        /\ \A n \in DOMAIN sentAt \ {seq} : sentAt'[n] = sentAt[n]
        /\ \A n \in DOMAIN probeNotify \ {seq} : probeNotify'[n] = probeNotify[n]
    BY <2>2, WithoutFacts
  <2>4. \/ replied' = replied
        \/ /\ DOMAIN replied' = DOMAIN replied \cup {seq} /\ replied'[seq] = p.call
           /\ \A n \in DOMAIN replied : n # seq => replied'[n] = replied[n]
           /\ sentAt[seq].round = roundID
    BY <2>2 DEF With
  <2>5. MapType'
    <3>1. /\ sentAt' \in [DOMAIN sentAt' -> [call : Calls, round : 0 .. MaxResets]]
          /\ probeNotify' \in [DOMAIN probeNotify' -> Calls]
      BY <1>0, <2>2, <2>3, WithoutFacts DEF EngineTypes, MapType
    <3>2. replied' \in [DOMAIN replied' -> Calls]
      BY <1>0, <1>3, <2>2 DEF EngineTypes, MapType, With
    <3> QED
      BY <1>0, <1>3, <2>1, <2>2, <2>3, <2>4, <3>1, <3>2 DEF EngineTypes, MapType
  <2>6. \A d \in Calls : call[d].pc \in WithNumber /\ call[d].seq = seq => d = o
    BY <1>0, <2>1 DEF CallInv, WithNumber
  <2>7. MapInv'
    <3>1. DOMAIN probeNotify' = DOMAIN sentAt'
      BY <2>1, <2>3
    <3>2. ASSUME NEW n \in DOMAIN sentAt'
          PROVE  LET d == probeNotify'[n]
                 IN  /\ sentAt'[n].call = d /\ sentAt'[n].round = call[d].round
                     /\ call[d].pc \in Registered /\ call[d].seq = n
                     /\ d \notin done'
      BY <1>0, <2>1, <2>2, <2>3 DEF MapInv
    <3>3. \A d \in done' : call[d].pc \in Registered \cup {"returned"}
      BY <1>0, <2>1, <2>2 DEF MapInv
    <3>4. \A d \in Calls : call[d].pc \in Registered /\ d \notin done' =>
            call[d].seq \in DOMAIN sentAt' /\ probeNotify'[call[d].seq] = d
      BY <1>0, <2>1, <2>2, <2>3, <2>6 DEF MapInv, WithNumber
    <3> QED
      BY <1>2, <3>1, <3>2, <3>3, <3>4 DEF MapInv
  <2>8. RoundInv'
    BY <1>0, <1>2, <2>1, <2>4, <2>6 DEF RoundInv, WithNumber
  <2>9. ASSUME (FreshIDs /\ passed = {})' PROVE ReplyInv'
    <3>1. ReplyInv
      BY <1>0, <1>2, <2>9 DEF FreshIDs
    <3>2. \A d \in Calls : call[d].pc \in WithNumber /\ call[d].seq = seq => d = p.call
      BY <3>1 DEF ReplyInv
    <3>3. \A d \in Calls : call[d].pc \in WithNumber /\ call[d].seq \in DOMAIN replied' =>
            replied'[call[d].seq] = d
      BY <2>4, <3>1, <3>2 DEF ReplyInv
    <3>4. (\A d \in Calls : call[d].pc # "rotateMaps") =>
            \A n \in DOMAIN sentAt' \cup DOMAIN replied' : n <= seqCounter
      BY <1>6, <2>3, <2>4, <3>1 DEF ReplyInv
    <3>5. \A s \in Specs : \A q \in held'[s] :
            /\ q \in air /\ q.id = ids[s]
            /\ \A d \in Calls : call[d].pc \in WithNumber /\ call[d].seq = q.seq => d = q.call
      BY <1>3, <3>1 DEF ReplyInv
    <3> QED
      BY <1>2, <3>1, <3>3, <3>4, <3>5 DEF ReplyInv
  <2> QED
    BY <1>4, <2>5, <2>7, <2>8, <2>9 DEF EngineInv, EngineTypes
<1> QED
  BY <1>5, <1>6

(***************************************************************************)
(* The theorems about the engine                                           *)
(***************************************************************************)
LEMMA EngineInitInv == Init => EngineInv
<1> SUFFICES ASSUME Init PROVE EngineInv
  OBVIOUS
<1>1. MaxSeq \in Nat \ {0} /\ MaxRotations \in Nat /\ MaxResets \in Nat
  BY EngineAssumption
<1>2. /\ DOMAIN sentAt = {} /\ DOMAIN replied = {} /\ DOMAIN probeNotify = {}
      /\ sentAt \in [{} -> [call : Calls, round : 0 .. MaxResets]]
      /\ probeNotify \in [{} -> Calls] /\ replied \in [{} -> Calls]
  BY DEF Init
<1>3. MapType
  BY <1>2 DEF Init, MapType
<1>4. CallType
  BY <1>1 DEF Init, CallType, CallRecords, IdleCall, PCs, Ids, Results
<1>5. SocketType /\ RoundType /\ AirType
  BY <1>1 DEF Init, SocketType, RoundType, AirType, Specs, EchoIDs, Ids
<1>6. \A c \in Calls : call[c].pc = "idle" /\ call[c].seq = 0 /\ call[c].result = "none"
  BY DEF Init, IdleCall, None
<1>7. CallInv
  BY <1>6 DEF CallInv, WithNumber, Registered, Rotating
<1>8. SpecInv
  <2>1. ids[0] = 0 /\ echoID = 0 /\ 0 \in Specs /\ spec = 0 /\ closed = {}
    BY <1>1 DEF Init, Specs
  <2>2. \A s \in Specs : ids[s] # Nil => s = spec
    BY <2>1 DEF Init
  <2>3. closed = 0 .. spec - 1
    BY <2>1
  <2> QED
    BY <1>6, <2>1, <2>2, <2>3 DEF SpecInv, Rotating
<1>9. MapInv /\ RoundInv
  BY <1>2, <1>6 DEF Init, MapInv, RoundInv, Registered
<1>10. ReplyInv
  BY <1>2, <1>6, EngineAssumption DEF Init, ReplyInv, WithNumber, Registered, NotSent
<1> QED
  BY <1>3, <1>4, <1>5, <1>7, <1>8, <1>9, <1>10 DEF EngineInv, EngineTypes

LEMMA EngineInvKept == EngineInv /\ [Next]_vars => EngineInv'
<1> SUFFICES ASSUME EngineInv, [Next]_vars PROVE EngineInv'
  OBVIOUS
<1>1. CASE UNCHANGED vars
  BY <1>1, AsideKept DEF vars
<1>2. ASSUME NEW c \in Calls, SendPanics(c) PROVE EngineInv'
  BY <1>2, AsideKept DEF SendPanics
<1>3. CASE Cancel
  BY <1>3, AsideKept DEF Cancel
<1>4. ASSUME NEW c \in Calls, Step(c) PROVE EngineInv'
  BY <1>2, <1>4, AllocateKept, RotateCloseKept, RotateIDKept, RotateSpecKept, RotateMapsKept,
     RotateReadyKept, RotateFailsKept, LoadRoundKept, RegisterKept, HeaderKept, SendKept,
     SendFailsKept, RollbackKept, TakeKept, ExpireKept DEF Step
<1> QED
  BY <1>1, <1>3, <1>4, LaunchKept, ReceiveKept, OnICMPKept, ResetBumpKept, ResetClearKept DEF Next

LEMMA EngineInvAlways == Spec => []EngineInv
  BY EngineInitInv, EngineInvKept, PTL DEF Spec

\* Types of the engine: no number outside of 1 .. MaxSeq is registered or sent, however
\* often the engine rotates.
THEOREM EngineTyped == Spec => []TypeOK
<1>1. EngineInv => TypeOK
  BY EngineAssumption DEF EngineInv, EngineTypes, CallType, CallRecords, SocketType, RoundType,
     MapType, AirType, Packets, TypeOK, Seqs
<1> QED
  BY <1>1, EngineInvAlways, PTL

\* The answer a call of ProbeTTL returns answers its own packet, for any number of calls,
\* rotations and resets, and answers delayed without limit: as long as the identifiers
\* drawn differ and no rotation passes a call that has its number and has not sent.
THEOREM RepliesRight == Spec => []RightReply
<1>1. EngineInv => RightReply
  BY DEF EngineInv, ReplyInv, RightReply
<1> QED
  BY <1>1, EngineInvAlways, PTL

\* A call that waits can be woken (ProbeTTL, onICMP, rotateEngine, Reset): its channel is
\* closed, or both maps hold it under its number.
THEOREM WaitersReachable == Spec => []WaiterReachable
<1>1. EngineInv => WaiterReachable
  BY DEF EngineInv, MapInv, WaiterReachable, Registered
<1> QED
  BY <1>1, EngineInvAlways, PTL

\* After Reset no call takes an answer that was matched in an older round: what is left
\* in replied was put there since the maps were cleared.
THEOREM StaleRoundsFail == Spec => StaleRoundFails
<1> DEFINE Fresh == \A c \in Calls :
                      call[c].result = None /\ call'[c].result \in Calls =>
                        call[c].round = roundID \/ reset = "bumped"
<1>1. EngineInv /\ [Next]_vars => [Fresh]_vars
  <2> SUFFICES ASSUME EngineInv, [Next]_vars, NEW c \in Calls, call[c].result = None,
                      call'[c].result \in Calls, reset # "bumped"
               PROVE  call[c].round = roundID
    OBVIOUS
  <2>1. "error" \notin Calls /\ "timeout" \notin Calls /\ None \notin Calls
        /\ "error" \in Results /\ "timeout" \in Results
    BY EngineAssumption DEF None, Results
  <2>2. CallType /\ reset = "idle" /\ RoundInv
    BY DEF EngineInv, EngineTypes, RoundType
  <2>3. call'[c] # call[c]
    BY <2>1
  <2>4. ASSUME NEW d \in Calls, NEW pc, call' = [call EXCEPT ![d].pc = pc] PROVE FALSE
    BY <2>1, <2>2, <2>4 DEF CallType, CallRecords
  <2>5. ASSUME NEW d \in Calls, NEW result \in Results, Return(d, result)
        PROVE  c = d /\ result \in Calls
    BY <2>2, <2>3, <2>5, ReturnSets
  <2>6. ASSUME NEW d \in Calls, Take(d) PROVE call[c].round = roundID
    <3> DEFINE result == IF call[d].seq \in DOMAIN replied THEN replied[call[d].seq] ELSE "timeout"
    <3>1. call[d].pc = "wait" /\ Return(d, result)
      BY <2>6 DEF Take, At
    <3>2. result \in Results
      BY <2>1 DEF EngineInv, EngineTypes, MapType, Results
    <3>3. c = d /\ call[d].seq \in DOMAIN replied
      BY <2>1, <2>5, <3>1, <3>2
    <3> QED
      BY <2>2, <3>1, <3>3 DEF RoundInv, Registered
  <2>7. ASSUME NEW d \in Calls, Rollback(d) \/ Expire(d) \/ RotateFails(d) PROVE FALSE
    <3>1. Return(d, "error") \/ Return(d, "timeout")
      BY <2>7 DEF Rollback, Expire, RotateFails
    <3> QED
      BY <2>1, <2>5, <3>1
  <2>8. ASSUME NEW d \in Calls, LoadRound(d) \/ Header(d) \/ Allocate(d) \/ RotateReady(d)
        PROVE  FALSE
    BY <2>1, <2>2, <2>8 DEF LoadRound, Header, Allocate, RotateReady, Alloc, CallType, CallRecords
  <2>9. ASSUME NEW d \in Calls, Launch(d) \/ RotateClose(d) \/ RotateID(d) \/ RotateSpec(d)
                 \/ RotateMaps(d) \/ Register(d) \/ Send(d) \/ SendFails(d) \/ SendPanics(d)
        PROVE  FALSE
    BY <2>3, <2>4, <2>9 DEF Launch, RotateClose, RotateID, RotateSpec, RotateMaps, Register, Send,
       SendFails, SendPanics
  <2>10. ASSUME \/ \E s \in Specs : Receive(s)
                \/ \E s \in Specs, inRange \in BOOLEAN : onICMP(s, inRange)
                \/ ResetBump \/ ResetClear \/ Cancel \/ UNCHANGED vars
         PROVE  FALSE
    BY <2>3, <2>10 DEF Receive, onICMP, ResetBump, ResetClear, Cancel, vars
  <2> QED
    BY <2>6, <2>7, <2>8, <2>9, <2>10 DEF Next, Step
<1> QED
  BY <1>1, EngineInvAlways, PTL DEF Spec, StaleRoundFails

(***************************************************************************)
(* The statistics.  Numbered attempts are of the code's types, those that  *)
(* came later have greater numbers, and those of one Result share an       *)
(* update.                                                                 *)
(***************************************************************************)
\* No answer takes longer (AggregatorAssumption).
Slowest == 1000

NumberedAttempts == [no : Nat, update : Nat, ip : HopKeys, rtt : Nat, host : BOOLEAN, geo : BOOLEAN]

Logged(L) ==
  /\ IsFiniteSet(L) /\ L \subseteq NumberedAttempts
  /\ \A a \in L : /\ a.no <= Cardinality(L)
                  /\ a.ip # Unknown => a.rtt \in 1 .. Slowest
  /\ \A a, b \in L : a.no = b.no => a = b

Precede(L, S) == \A a \in L, b \in S : a.no < b.no

\* A Result's attempts S of a TTL, made in the n-th update, behind the attempts L.
Behind(L, S, n) ==
  /\ \A a \in L : a.update < n
  /\ \A b \in S : b.update = n
  /\ Precede(L, S)

\* What the columns of a row say of the answers it counts.
RowRight(acc, own) ==
  /\ acc.received = Cardinality(own)
  /\ acc.sum = Total(own) /\ acc.sumSq = TotalSq(own)
  /\ IF own = {} THEN acc.last = 0 /\ acc.best = MaxFloat64 /\ acc.worst = 0
     ELSE /\ acc.last = Newest(own).rtt
          /\ acc.best = Min(RttsOf(own)) /\ acc.worst = Max(RttsOf(own))

\* Of the lost probes of a hop, those charged to its first path, and the others.
Early(L) == LET pre == OnePathPrefix(L)
            IN IF PeersIn(pre) = {} THEN 0 ELSE Count(pre, Unknown)
Late(L) == Count(L, Unknown) - Early(L)
SentOn(L, k) ==
  IF k = Unknown THEN Late(L)
  ELSE Count(L, k) + (IF k \in PeersIn(OnePathPrefix(L)) THEN Early(L) ELSE 0)
Attributed(rows, L) ==
  /\ DOMAIN rows = PeersIn(L) \cup (IF Late(L) > 0 THEN {Unknown} ELSE {})
  /\ \A k \in DOMAIN rows : rows[k].sent = SentOn(L, k)

TableOf(rows, L) ==
  /\ Attributed(rows, L)
  /\ \A k \in DOMAIN rows : rows[k] \in Accums /\ RowRight(rows[k], Answered(Of(L, k)))

OrdersApart ==
  \A t, s \in TTLs : \A k \in DOMAIN stats[t], j \in DOMAIN stats[s] :
    /\ stats[t][k].order < nextOrder
    /\ stats[t][k].order = stats[s][j].order => t = s /\ k = j

AggInv ==
  /\ DOMAIN stats = TTLs /\ DOMAIN log = TTLs /\ nextOrder \in Nat
  /\ bound \in [updates : 0 .. MaxUpdates, resets : Nat]
  /\ \A t \in TTLs : /\ Logged(log[t]) /\ \A a \in log[t] : a.update < bound.updates
                     /\ TableOf(stats[t], log[t])
  /\ OrdersApart

\* A nonempty set of natural numbers has a least element.
LEMMA LeastNat ==
  ASSUME NEW D \in SUBSET Nat, D # {}
  PROVE  \E x \in D : \A y \in D : x <= y
<1> DEFINE R == OpToRel(<, Nat)
<1>1. \E x \in D : \A y \in D : ~ (<<y, x>> \in R)
  <2> HIDE DEF R
  <2>1. IsWellFoundedOn(R, Nat)
    BY NatLessThanWellFounded DEF R
  <2> QED BY <2>1, WFMin
<1>2. PICK x \in D : \A y \in D : ~ (<<y, x>> \in R)
  BY <1>1
<1>3. \A y \in D : x <= y
  <2> TAKE y \in D
  <2>1. x \in Nat /\ y \in Nat
    OBVIOUS
  <2>2. ~ (<<y, x>> \in R)
    BY <1>2
  <2>3. ~ (y < x)
    BY <2>1, <2>2 DEF OpToRel
  <2> QED BY <2>1, <2>3
<1> QED BY <1>3

\* A bounded one has a greatest element.
LEMMA GreatestNat ==
  ASSUME NEW n \in Nat, NEW D \in SUBSET (0 .. n), D # {}
  PROVE  \E x \in D : \A y \in D : y <= x
<1> DEFINE E == {n - x : x \in D}
<1>1. E \in SUBSET Nat /\ E # {}
  <2>1. \A x \in D : n - x \in Nat
    OBVIOUS
  <2> QED
    BY <2>1
<1>2. PICK e \in E : \A y \in E : e <= y
  <2> HIDE DEF E
  <2> QED
    BY <1>1, LeastNat
<1>3. PICK x \in D : e = n - x
  BY <1>2
<1>4. \A y \in D : y <= x
  <2> TAKE y \in D
  <2>1. e <= n - y
    BY <1>2
  <2> QED
    BY <2>1, <1>3
<1> QED
  BY <1>4

LEMMA MinIs ==
  ASSUME NEW D \in SUBSET Nat, NEW x \in D, \A y \in D : x <= y
  PROVE  Min(D) = x
<1>1. Min(D) \in D /\ \A y \in D : Min(D) <= y
  BY DEF Min
<1>2. Min(D) \in Nat /\ x \in Nat /\ Min(D) <= x /\ x <= Min(D)
  BY <1>1
<1> QED
  BY <1>2

LEMMA MaxIs ==
  ASSUME NEW D \in SUBSET Int, NEW x \in D, \A y \in D : y <= x
  PROVE  Max(D) = x
<1>1. Max(D) \in D /\ \A y \in D : y <= Max(D)
  BY DEF Max
<1>2. Max(D) \in Int /\ x \in Int /\ Max(D) <= x /\ x <= Max(D)
  BY <1>1
<1> QED
  BY <1>2

LEMMA MinMaxOf ==
  ASSUME NEW n \in Nat, NEW D \in SUBSET (0 .. n), D # {}
  PROVE  /\ Min(D) \in D /\ \A y \in D : Min(D) <= y
         /\ Max(D) \in D /\ \A y \in D : y <= Max(D)
<1>1. PICK x \in D : \A y \in D : x <= y
  BY LeastNat
<1>2. PICK z \in D : \A y \in D : y <= z
  BY GreatestNat
<1> QED
  BY <1>1, <1>2, MinIs, MaxIs

(***************************************************************************)
(* Counting attempts and adding up their times.                            *)
(***************************************************************************)
LEMMA LoggedSubset ==
  ASSUME NEW L, Logged(L), NEW S \in SUBSET L
  PROVE  /\ IsFiniteSet(S) /\ Cardinality(S) \in Nat
         /\ S # {} => /\ Newest(S) \in S /\ \A b \in S : b.no <= Newest(S).no
                      /\ Oldest(S) \in S
<1>1. IsFiniteSet(L) /\ IsFiniteSet(S) /\ Cardinality(S) \in Nat /\ Cardinality(L) \in Nat
  BY FS_Subset, FS_CardinalityType DEF Logged
<1>2. ASSUME S # {} PROVE Newest(S) \in S /\ \A b \in S : b.no <= Newest(S).no
  <2> DEFINE D == {a.no : a \in S}
  <2>1. D \in SUBSET (0 .. Cardinality(L)) /\ D # {}
    BY <1>1, <1>2 DEF Logged, NumberedAttempts
  <2>2. PICK x \in D : \A y \in D : y <= x
    <3> HIDE DEF D
    <3> QED
      BY <1>1, <2>1, GreatestNat
  <2>3. PICK a \in S : x = a.no
    BY <2>2
  <2>4. \A b \in S : b.no <= a.no
    BY <2>2, <2>3
  <2> QED
    BY <2>4 DEF Newest
<1>3. ASSUME S # {} PROVE Oldest(S) \in S
  <2> DEFINE D == {a.no : a \in S}
  <2>1. D \in SUBSET Nat /\ D # {}
    BY <1>3 DEF Logged, NumberedAttempts
  <2>2. PICK x \in D : \A y \in D : x <= y
    <3> HIDE DEF D
    <3> QED
      BY <2>1, LeastNat
  <2>3. PICK a \in S : x = a.no
    BY <2>2
  <2>4. \A b \in S : a.no <= b.no
    BY <2>2, <2>3
  <2> QED
    BY <2>4 DEF Oldest
<1> QED
  BY <1>1, <1>2, <1>3

LEMMA CountOf ==
  ASSUME NEW L, IsFiniteSet(L), NEW k
  PROVE  /\ Count(L, k) \in Nat /\ IsFiniteSet(Of(L, k))
         /\ Count(L, k) = 0 <=> k \notin KeysOf(L)
<1>1. Of(L, k) \subseteq L
  BY DEF Of
<1>2. IsFiniteSet(Of(L, k)) /\ Count(L, k) \in Nat
  BY <1>1, FS_Subset, FS_CardinalityType DEF Count
<1>3. Of(L, k) = {} <=> k \notin KeysOf(L)
  BY DEF Of, KeysOf
<1> QED
  BY <1>2, <1>3, FS_EmptySet DEF Count

LEMMA DisjointSum ==
  ASSUME NEW X, NEW Y, IsFiniteSet(X), IsFiniteSet(Y), X \cap Y = {}
  PROVE  Cardinality(X \cup Y) = Cardinality(X) + Cardinality(Y)
<1>1. Cardinality(X \cup Y) = Cardinality(X) + Cardinality(Y) - Cardinality(X \cap Y)
  BY FS_Union
<1>2. Cardinality(X \cap Y) = 0 /\ Cardinality(X) \in Nat /\ Cardinality(Y) \in Nat
  BY FS_EmptySet, FS_CardinalityType
<1> QED
  BY <1>1, <1>2

LEMMA CountUnion ==
  ASSUME NEW L, NEW S, IsFiniteSet(L), IsFiniteSet(S), L \cap S = {}, NEW k
  PROVE  Count(L \cup S, k) = Count(L, k) + Count(S, k)
<1>1. Of(L \cup S, k) = Of(L, k) \cup Of(S, k) /\ Of(L, k) \cap Of(S, k) = {}
  BY DEF Of
<1>2. IsFiniteSet(Of(L, k)) /\ IsFiniteSet(Of(S, k))
  BY CountOf
<1> QED
  BY <1>1, <1>2, DisjointSum DEF Count

\* Units of the times of attempts, f[a] of them for a; the sums Total and TotalSq.
Units(Z, f) == UNION {{a} \X (1 .. f[a]) : a \in Z}

LEMMA UnitsUnion ==
  ASSUME NEW X, NEW Y, IsFiniteSet(X), IsFiniteSet(Y), X \cap Y = {},
         NEW f, \A a \in X \cup Y : f[a] \in Nat
  PROVE  /\ Cardinality(Units(X \cup Y, f)) = Cardinality(Units(X, f)) + Cardinality(Units(Y, f))
         /\ Cardinality(Units(X, f)) \in Nat
<1>1. ASSUME NEW Z \in SUBSET (X \cup Y), IsFiniteSet(Z) PROVE IsFiniteSet(Units(Z, f))
  <2> DEFINE g == [a \in Z |-> {a} \X (1 .. f[a])]
  <2>1. IsFiniteSet({g[a] : a \in Z})
    <3>1. g \in Surjection(Z, {g[a] : a \in Z})
      BY DEF Surjection
    <3> HIDE DEF g
    <3> QED
      BY <1>1, <3>1, FS_Surjection
  <2>2. ASSUME NEW a \in Z PROVE IsFiniteSet(g[a])
    <3>1. IsFiniteSet({a})
      BY FS_Singleton, Zenon
    <3>2. f[a] \in Int /\ 1 \in Int
      OBVIOUS
    <3>3. IsFiniteSet(1 .. f[a])
      BY <3>2, FS_Interval, Zenon
    <3> QED
      BY <3>1, <3>3, FS_Product
  <2>3. IsFiniteSet(UNION {g[a] : a \in Z})
    <3> HIDE DEF g
    <3>1. \A T \in {g[a] : a \in Z} : IsFiniteSet(T)
      BY <2>2
    <3> QED
      BY <2>1, <3>1, FS_UNION
  <2>4. Units(Z, f) = UNION {g[a] : a \in Z}
    BY DEF Units
  <2> QED
    BY <2>3, <2>4
<1>2. Units(X \cup Y, f) = Units(X, f) \cup Units(Y, f)
  BY DEF Units
<1>3. Units(X, f) \cap Units(Y, f) = {}
  BY DEF Units
<1>4. IsFiniteSet(Units(X, f)) /\ IsFiniteSet(Units(Y, f))
  BY <1>1
<1> QED
  BY <1>2, <1>3, <1>4, DisjointSum, FS_CardinalityType

LEMMA TotalUnion ==
  ASSUME NEW X, NEW Y, IsFiniteSet(X), IsFiniteSet(Y), X \cap Y = {},
         \A a \in X \cup Y : a.rtt \in Nat
  PROVE  /\ Total(X \cup Y) = Total(X) + Total(Y) /\ Total(X) \in Nat
         /\ TotalSq(X \cup Y) = TotalSq(X) + TotalSq(Y) /\ TotalSq(X) \in Nat
<1>1. Total(X \cup Y) = Total(X) + Total(Y) /\ Total(X) \in Nat
  <2>1. PICK f : f = [a \in X \cup Y |-> a.rtt]
    OBVIOUS
  <2>2. \A a \in X \cup Y : f[a] \in Nat /\ f[a] = a.rtt
    BY <2>1
  <2>3. /\ Units(X, f) = UNION {{a} \X (1 .. a.rtt) : a \in X}
        /\ Units(Y, f) = UNION {{a} \X (1 .. a.rtt) : a \in Y}
        /\ Units(X \cup Y, f) = UNION {{a} \X (1 .. a.rtt) : a \in X \cup Y}
    BY <2>2 DEF Units
  <2>4. \A a \in X \cup Y : f[a] \in Nat
    BY <2>2
  <2>5. /\ Cardinality(Units(X \cup Y, f)) = Cardinality(Units(X, f)) + Cardinality(Units(Y, f))
        /\ Cardinality(Units(X, f)) \in Nat
    BY <2>4, UnitsUnion
  <2> QED
    BY <2>3, <2>5, Zenon DEF Total
<1>2. TotalSq(X \cup Y) = TotalSq(X) + TotalSq(Y) /\ TotalSq(X) \in Nat
  <2>1. PICK f : f = [a \in X \cup Y |-> a.rtt * a.rtt]
    OBVIOUS
  <2>2. \A a \in X \cup Y : f[a] \in Nat /\ f[a] = a.rtt * a.rtt
    BY <2>1
  <2>3. /\ Units(X, f) = UNION {{a} \X (1 .. a.rtt * a.rtt) : a \in X}
        /\ Units(Y, f) = UNION {{a} \X (1 .. a.rtt * a.rtt) : a \in Y}
        /\ Units(X \cup Y, f) = UNION {{a} \X (1 .. a.rtt * a.rtt) : a \in X \cup Y}
    BY <2>2 DEF Units
  <2>4. \A a \in X \cup Y : f[a] \in Nat
    BY <2>2
  <2>5. /\ Cardinality(Units(X \cup Y, f)) = Cardinality(Units(X, f)) + Cardinality(Units(Y, f))
        /\ Cardinality(Units(X, f)) \in Nat
    BY <2>4, UnitsUnion
  <2> QED
    BY <2>3, <2>5, Zenon DEF TotalSq
<1> QED
  BY <1>1, <1>2

LEMMA TotalEmpty == Total({}) = 0 /\ TotalSq({}) = 0
<1>1. \A f : UNION {f[a] : a \in {}} = {}
  OBVIOUS
<1>2. /\ UNION {{a} \X (1 .. a.rtt) : a \in {}} = {}
      /\ UNION {{a} \X (1 .. a.rtt * a.rtt) : a \in {}} = {}
  OBVIOUS
<1> QED
  BY <1>2, FS_EmptySet DEF Total, TotalSq

LEMMA InfiniteTime == Slowest \in Nat /\ MaxFloat64 \in Nat /\ MaxFloat64 > Slowest
BY DEF MaxFloat64, Slowest

\* The least and the greatest of times, alone, with the bounds of a new row, and together.
LEMMA Extremes ==
  ASSUME NEW P, NEW Q, Q # {}, \A y \in P \cup Q : y \in Nat /\ 1 <= y /\ y <= Slowest
  PROVE  /\ Min(Q \cup {MaxFloat64}) = Min(Q) /\ Min(Q) \in 1 .. Slowest
         /\ Max(Q \cup {0}) = Max(Q) /\ Max(Q) \in 1 .. Slowest
         /\ P # {} => Min(P) \in 1 .. Slowest /\ Max(P) \in 1 .. Slowest
         /\ Min(P \cup Q) = IF P # {} /\ Min(P) <= Min(Q) THEN Min(P) ELSE Min(Q)
         /\ Max(P \cup Q) = IF P # {} /\ Max(P) >= Max(Q) THEN Max(P) ELSE Max(Q)
<1>1. P \in SUBSET (0 .. Slowest) /\ Q \in SUBSET (0 .. Slowest) /\ P \cup Q \in SUBSET Nat
  OBVIOUS
<1>2. PICK x \in Q, z \in Q : x = Min(Q) /\ z = Max(Q) /\ \A y \in Q : x <= y /\ y <= z
  <2>1. /\ Min(Q) \in Q /\ \A y \in Q : Min(Q) <= y
        /\ Max(Q) \in Q /\ \A y \in Q : y <= Max(Q)
    BY <1>1, InfiniteTime, MinMaxOf
  <2> QED
    BY <2>1
<1>3. x \in 1 .. Slowest /\ z \in 1 .. Slowest
  OBVIOUS
<1>4. Min(Q \cup {MaxFloat64}) = x
  <2>1. Q \cup {MaxFloat64} \in SUBSET Nat /\ \A y \in Q \cup {MaxFloat64} : x <= y
    BY <1>1, <1>2, InfiniteTime
  <2> QED
    BY <2>1, MinIs
<1>5. Max(Q \cup {0}) = z
  <2>1. Q \cup {0} \in SUBSET Int /\ \A y \in Q \cup {0} : y <= z
    BY <1>1, <1>2
  <2> QED
    BY <2>1, MaxIs
<1>6. CASE P = {}
  <2>1. P \cup Q = Q
    BY <1>6
  <2> QED
    BY <1>2, <1>3, <1>4, <1>5, <1>6, <2>1
<1>7. CASE P # {}
  <2>1. PICK v \in P, w \in P : v = Min(P) /\ w = Max(P) /\ \A y \in P : v <= y /\ y <= w
    <3>1. /\ Min(P) \in P /\ \A y \in P : Min(P) <= y
          /\ Max(P) \in P /\ \A y \in P : y <= Max(P)
      BY <1>1, <1>7, InfiniteTime, MinMaxOf
    <3> QED
      BY <3>1
  <2>2. ASSUME NEW m \in P \cup Q, m <= v, m <= x PROVE Min(P \cup Q) = m
    <3>1. \A y \in P \cup Q : m <= y
      BY <1>2, <2>1, <2>2
    <3> QED
      BY <1>1, <3>1, MinIs
  <2>3. ASSUME NEW m \in P \cup Q, m >= w, m >= z PROVE Max(P \cup Q) = m
    <3>1. \A y \in P \cup Q : y <= m
      BY <1>2, <2>1, <2>3
    <3> QED
      BY <1>1, <3>1, MaxIs
  <2>4. v \in 1 .. Slowest /\ w \in 1 .. Slowest /\ x \in Nat /\ z \in Nat
    OBVIOUS
  <2>5. Min(P \cup Q) = IF v <= x THEN v ELSE x
    BY <2>2, <2>4, InfiniteTime
  <2>6. Max(P \cup Q) = IF w >= z THEN w ELSE z
    BY <2>3, <2>4, InfiniteTime
  <2> QED
    BY <1>2, <1>3, <1>4, <1>5, <1>7, <2>1, <2>4, <2>5, <2>6
<1> QED
  BY <1>6, <1>7

\* The columns of two sets of answers together, the ones in Y later than those in X.
TogetherRight(X, Y) ==
  /\ Cardinality(X \cup Y) = Cardinality(X) + Cardinality(Y)
  /\ Total(X \cup Y) = Total(X) + Total(Y) /\ TotalSq(X \cup Y) = TotalSq(X) + TotalSq(Y)
  /\ Newest(X \cup Y) = Newest(Y)
  /\ Min(RttsOf(Y) \cup {MaxFloat64}) = Min(RttsOf(Y)) /\ Min(RttsOf(Y)) \in 1 .. Slowest
  /\ Max(RttsOf(Y) \cup {0}) = Max(RttsOf(Y)) /\ Max(RttsOf(Y)) \in 1 .. Slowest
  /\ X # {} => Min(RttsOf(X)) \in 1 .. Slowest /\ Max(RttsOf(X)) \in 1 .. Slowest
  /\ Min(RttsOf(X \cup Y)) = IF X # {} /\ Min(RttsOf(X)) <= Min(RttsOf(Y))
                                  THEN Min(RttsOf(X)) ELSE Min(RttsOf(Y))
  /\ Max(RttsOf(X \cup Y)) = IF X # {} /\ Max(RttsOf(X)) >= Max(RttsOf(Y))
                                  THEN Max(RttsOf(X)) ELSE Max(RttsOf(Y))

GroupRight(g, S, k, Y) ==
  /\ g.count = Count(S, k) /\ g.host \in BOOLEAN /\ g.geo \in BOOLEAN
  /\ g.received = Cardinality(Y) /\ g.sum = Total(Y) /\ g.sumSq = TotalSq(Y)
  /\ g.last = IF Y = {} THEN 0 ELSE Newest(Y).rtt
  /\ g.best = Min(RttsOf(Y) \cup {MaxFloat64}) /\ g.worst = Max(RttsOf(Y) \cup {0})

LEMMA ColumnsUnion ==
  ASSUME NEW L, Logged(L), NEW X \in SUBSET L, NEW Y \in SUBSET L, Y # {},
         \A a \in X, b \in Y : a.no < b.no, \A a \in X \cup Y : a.ip # Unknown
  PROVE  TogetherRight(X, Y)
<1>1. /\ IsFiniteSet(X) /\ IsFiniteSet(Y) /\ X \cup Y \in SUBSET L /\ X \cup Y # {}
      /\ \A a \in L : a.no \in Nat /\ a.rtt \in Nat
      /\ \A a \in X \cup Y : a.rtt \in 1 .. Slowest
  BY LoggedSubset DEF Logged, NumberedAttempts
<1>2. X \cap Y = {}
  BY <1>1
<1>3. Cardinality(X \cup Y) = Cardinality(X) + Cardinality(Y)
  BY <1>1, <1>2, DisjointSum
<1>4. Total(X \cup Y) = Total(X) + Total(Y) /\ TotalSq(X \cup Y) = TotalSq(X) + TotalSq(Y)
  <2>1. \A a \in X \cup Y : a.rtt \in Nat
    BY <1>1
  <2> QED
    BY <1>1, <1>2, <2>1, TotalUnion, Zenon
<1>5. Newest(X \cup Y) = Newest(Y)
  <2>1. Newest(Y) \in Y /\ \A b \in Y : b.no <= Newest(Y).no
    BY LoggedSubset
  <2>2. Newest(X \cup Y) \in X \cup Y /\ \A b \in X \cup Y : b.no <= Newest(X \cup Y).no
    BY <1>1, LoggedSubset
  <2>3. Newest(X \cup Y).no = Newest(Y).no
    <3> DEFINE p == Newest(X \cup Y)
               q == Newest(Y)
    <3>1. q \in Y /\ p \in X \cup Y /\ q.no <= p.no /\ p.no \in Nat /\ q.no \in Nat
      BY <1>1, <2>1, <2>2
    <3>2. p \in X => p.no < q.no
      BY <3>1
    <3>3. p \in Y => p.no <= q.no
      BY <2>1
    <3> HIDE DEF p, q
    <3>4. p.no = q.no
      BY <3>1, <3>2, <3>3
    <3> QED
      BY <3>4 DEF p, q
  <2> QED
    BY <1>1, <2>1, <2>2, <2>3 DEF Logged
<1>6. /\ RttsOf(X \cup Y) = RttsOf(X) \cup RttsOf(Y)
      /\ RttsOf(Y) # {} /\ (RttsOf(X) # {} <=> X # {})
      /\ \A y \in RttsOf(X) \cup RttsOf(Y) : y \in Nat /\ 1 <= y /\ y <= Slowest
  <2>1. RttsOf(X \cup Y) = RttsOf(X) \cup RttsOf(Y)
    BY DEF RttsOf
  <2>2. RttsOf(Y) # {} /\ (RttsOf(X) # {} <=> X # {})
    BY DEF RttsOf
  <2>3. \A y \in RttsOf(X \cup Y) : \E a \in X \cup Y : y = a.rtt
    BY DEF RttsOf
  <2>4. \A y \in RttsOf(X \cup Y) : y \in Nat /\ 1 <= y /\ y <= Slowest
    BY <1>1, <2>3, InfiniteTime
  <2> QED
    BY <2>1, <2>2, <2>4
<1>7. /\ Min(RttsOf(Y) \cup {MaxFloat64}) = Min(RttsOf(Y)) /\ Min(RttsOf(Y)) \in 1 .. Slowest
      /\ Max(RttsOf(Y) \cup {0}) = Max(RttsOf(Y)) /\ Max(RttsOf(Y)) \in 1 .. Slowest
      /\ X # {} => Min(RttsOf(X)) \in 1 .. Slowest /\ Max(RttsOf(X)) \in 1 .. Slowest
      /\ Min(RttsOf(X \cup Y)) = IF X # {} /\ Min(RttsOf(X)) <= Min(RttsOf(Y))
                                 THEN Min(RttsOf(X)) ELSE Min(RttsOf(Y))
      /\ Max(RttsOf(X \cup Y)) = IF X # {} /\ Max(RttsOf(X)) >= Max(RttsOf(Y))
                                 THEN Max(RttsOf(X)) ELSE Max(RttsOf(Y))
  <2> DEFINE P == RttsOf(X)
             Q == RttsOf(Y)
  <2>1. Q # {} /\ (P # {} <=> X # {}) /\ RttsOf(X \cup Y) = P \cup Q
    BY <1>6, Zenon
  <2>2. \A y \in P \cup Q : y \in Nat /\ 1 <= y /\ y <= Slowest
    BY <1>6, Zenon
  <2> HIDE DEF P, Q
  <2>3. /\ Min(Q \cup {MaxFloat64}) = Min(Q) /\ Min(Q) \in 1 .. Slowest
        /\ Max(Q \cup {0}) = Max(Q) /\ Max(Q) \in 1 .. Slowest
        /\ P # {} => Min(P) \in 1 .. Slowest /\ Max(P) \in 1 .. Slowest
        /\ Min(P \cup Q) = IF P # {} /\ Min(P) <= Min(Q) THEN Min(P) ELSE Min(Q)
        /\ Max(P \cup Q) = IF P # {} /\ Max(P) >= Max(Q) THEN Max(P) ELSE Max(Q)
    BY <2>1, <2>2, Extremes
  <2> QED
    BY <2>1, <2>3, Zenon DEF P, Q
<1> QED
  BY <1>3, <1>4, <1>5, <1>7 DEF TogetherRight
\* A Result's attempts S of a key merged into its row make it right for them all.
LEMMA GroupFields ==
  ASSUME NEW L, Logged(L), NEW S \in SUBSET L, NEW k \in KeysOf(S)
  PROVE  GroupRight(groupMTRHopAttempts(S)[k], S, k, Answered(Of(S, k)))
<1>0. PICK g, Y : g = groupMTRHopAttempts(S)[k] /\ Y = Answered(Of(S, k))
  OBVIOUS
<1>1. g = [count    |-> Cardinality(Of(S, k)),
           host     |-> Oldest(Of(S, k)).host,
           geo      |-> \E a \in Of(S, k) : a.geo,
           received |-> Cardinality(Y),
           sum      |-> Total(Y),
           sumSq    |-> TotalSq(Y),
           last     |-> IF Y = {} THEN 0 ELSE Newest(Y).rtt,
           best     |-> Min(RttsOf(Y) \cup {MaxFloat64}),
           worst    |-> Max(RttsOf(Y) \cup {0})]
  BY <1>0, Zenon DEF groupMTRHopAttempts
<1>2. Oldest(Of(S, k)).host \in BOOLEAN
  <2>1. Of(S, k) \in SUBSET L /\ Of(S, k) # {}
    BY DEF Of, KeysOf
  <2>2. Oldest(Of(S, k)) \in L
    BY <2>1, LoggedSubset
  <2> QED
    BY <2>2 DEF Logged, NumberedAttempts
<1>3. (\E a \in Of(S, k) : a.geo) \in BOOLEAN
  BY Zenon
<1>4. g.host = Oldest(Of(S, k)).host /\ g.geo = \E a \in Of(S, k) : a.geo
  BY <1>1
<1>5. g.host \in BOOLEAN /\ g.geo \in BOOLEAN
  BY <1>2, <1>3, <1>4, Zenon
<1>6. g.count = Cardinality(Of(S, k)) /\ g.received = Cardinality(Y)
  BY <1>1
<1>7. g.sum = Total(Y) /\ g.sumSq = TotalSq(Y)
  BY <1>1
<1>8. /\ g.last = IF Y = {} THEN 0 ELSE Newest(Y).rtt
      /\ g.best = Min(RttsOf(Y) \cup {MaxFloat64}) /\ g.worst = Max(RttsOf(Y) \cup {0})
  BY <1>1
<1> QED
  BY <1>0, <1>5, <1>6, <1>7, <1>8, Zenon DEF Count, GroupRight

LEMMA MergeFields ==
  ASSUME NEW acc \in Accums, NEW g, g.host \in BOOLEAN, g.geo \in BOOLEAN, NEW m,
         m = mergeMTRHopGroupIntoAccum(acc, g)
  PROVE  /\ m.order = acc.order /\ m.host \in BOOLEAN /\ m.geo \in BOOLEAN
         /\ m.sent = acc.sent + g.count
         /\ DOMAIN m = {"order", "host", "geo", "sent", "received",
                        "sum", "sumSq", "last", "best", "worst"}
         /\ m = [f \in DOMAIN m |-> m[f]]
         /\ IF g.received = 0
            THEN /\ m.received = acc.received /\ m.sum = acc.sum /\ m.sumSq = acc.sumSq
                 /\ m.last = acc.last /\ m.best = acc.best /\ m.worst = acc.worst
            ELSE /\ m.received = acc.received + g.received
                 /\ m.sum = acc.sum + g.sum /\ m.sumSq = acc.sumSq + g.sumSq
                 /\ m.last = g.last
                 /\ m.best = IF acc.best = MaxFloat64 \/ g.best < acc.best
                             THEN g.best ELSE acc.best
                 /\ m.worst = IF g.worst > acc.worst THEN g.worst ELSE acc.worst
<1>1. PICK named : named = [acc EXCEPT !.host = @ \/ g.host, !.geo = @ \/ g.geo,
                                       !.sent = @ + g.count]
  OBVIOUS
<1>2. /\ named.order = acc.order /\ named.host \in BOOLEAN /\ named.geo \in BOOLEAN
      /\ named.sent = acc.sent + g.count /\ named.received = acc.received
      /\ named.sum = acc.sum /\ named.sumSq = acc.sumSq
      /\ named.last = acc.last /\ named.best = acc.best /\ named.worst = acc.worst
      /\ DOMAIN named = {"order", "host", "geo", "sent", "received",
                         "sum", "sumSq", "last", "best", "worst"}
      /\ named = [f \in DOMAIN named |-> named[f]]
  BY <1>1 DEF Accums
<1>3. m = IF g.received = 0 THEN named
          ELSE [named EXCEPT !.sum = @ + g.sum, !.sumSq = @ + g.sumSq,
                             !.received = @ + g.received, !.last = g.last,
                             !.best = IF @ = MaxFloat64 \/ g.best < @ THEN g.best ELSE @,
                             !.worst = IF g.worst > @ THEN g.worst ELSE @]
  BY <1>1, Zenon DEF mergeMTRHopGroupIntoAccum
<1>4. CASE g.received = 0
  <2>1. m = named
    BY <1>3, <1>4
  <2> QED
    BY <1>2, <1>4, <2>1
<1>5. CASE g.received # 0
  <2>1. m = [named EXCEPT !.sum = @ + g.sum, !.sumSq = @ + g.sumSq,
                          !.received = @ + g.received, !.last = g.last,
                          !.best = IF @ = MaxFloat64 \/ g.best < @ THEN g.best ELSE @,
                          !.worst = IF g.worst > @ THEN g.worst ELSE @]
    BY <1>3, <1>5, Zenon
  <2>2. PICK sum, sumSq, received, last, best, worst :
          /\ sum = named.sum + g.sum /\ sumSq = named.sumSq + g.sumSq
          /\ received = named.received + g.received /\ last = g.last
          /\ best = IF named.best = MaxFloat64 \/ g.best < named.best THEN g.best ELSE named.best
          /\ worst = IF g.worst > named.worst THEN g.worst ELSE named.worst
    OBVIOUS
  <2>3. m = [named EXCEPT !.sum = sum, !.sumSq = sumSq, !.received = received, !.last = last,
                          !.best = best, !.worst = worst]
    BY <2>1, <2>2
  <2>4. /\ m.order = named.order /\ m.host = named.host /\ m.geo = named.geo
        /\ m.sent = named.sent /\ m.sum = sum /\ m.sumSq = sumSq /\ m.received = received
        /\ m.last = last /\ m.best = best /\ m.worst = worst
        /\ DOMAIN m = DOMAIN named /\ m = [f \in DOMAIN m |-> m[f]]
    BY <1>2, <2>3
  <2> QED
    BY <1>2, <1>5, <2>2, <2>4
<1> QED
  BY <1>4, <1>5

MergedRight(m, acc, L, S, k) ==
  /\ m \in Accums /\ m.order = acc.order /\ m.sent = acc.sent + Count(S, k)
  /\ RowRight(m, Answered(Of(L \cup S, k)))

LEMMA GroupMerges ==
  ASSUME NEW L, NEW S, Logged(L \cup S), Precede(L, S),
         NEW k \in KeysOf(S), NEW acc \in Accums, RowRight(acc, Answered(Of(L, k))),
         NEW m, m = mergeMTRHopGroupIntoAccum(acc, groupMTRHopAttempts(S)[k])
  PROVE  MergedRight(m, acc, L, S, k)
<1>1. PICK X, Y : X = Answered(Of(L, k)) /\ Y = Answered(Of(S, k))
  OBVIOUS
<1>2. PICK g : g = groupMTRHopAttempts(S)[k]
  OBVIOUS
<1>3. /\ X \in SUBSET (L \cup S) /\ Y \in SUBSET (L \cup S) /\ Y \in SUBSET S
      /\ \A a \in X, b \in Y : a.no < b.no
      /\ \A a \in X \cup Y : a.ip # Unknown
      /\ Answered(Of(L \cup S, k)) = X \cup Y
  BY <1>1 DEF Answered, Of, Precede
<1>4. /\ g.count = Count(S, k) /\ g.host \in BOOLEAN /\ g.geo \in BOOLEAN
      /\ g.received = Cardinality(Y) /\ g.sum = Total(Y) /\ g.sumSq = TotalSq(Y)
      /\ g.last = IF Y = {} THEN 0 ELSE Newest(Y).rtt
      /\ g.best = Min(RttsOf(Y) \cup {MaxFloat64}) /\ g.worst = Max(RttsOf(Y) \cup {0})
  <2>1. S \in SUBSET (L \cup S)
    OBVIOUS
  <2>2. GroupRight(g, S, k, Y)
    BY <1>1, <1>2, <2>1, GroupFields
  <2> QED
    BY <2>2, Zenon DEF GroupRight
<1>5. Count(S, k) \in Nat
  <2>1. S \in SUBSET (L \cup S)
    OBVIOUS
  <2> QED
    BY <2>1, LoggedSubset, CountOf
<1>6. /\ m.order = acc.order /\ m.host \in BOOLEAN /\ m.geo \in BOOLEAN
      /\ m.sent = acc.sent + g.count
      /\ DOMAIN m = {"order", "host", "geo", "sent", "received",
                     "sum", "sumSq", "last", "best", "worst"}
      /\ m = [f \in DOMAIN m |-> m[f]]
      /\ g.received = 0 =>
           /\ m.received = acc.received /\ m.sum = acc.sum /\ m.sumSq = acc.sumSq
           /\ m.last = acc.last /\ m.best = acc.best /\ m.worst = acc.worst
      /\ g.received # 0 =>
           /\ m.received = acc.received + g.received
           /\ m.sum = acc.sum + g.sum /\ m.sumSq = acc.sumSq + g.sumSq
           /\ m.last = g.last
           /\ m.best = IF acc.best = MaxFloat64 \/ g.best < acc.best
                       THEN g.best ELSE acc.best
           /\ m.worst = IF g.worst > acc.worst THEN g.worst ELSE acc.worst
  BY <1>2, <1>4, MergeFields
<1>7. /\ acc.order \in Nat /\ acc.sent \in Nat /\ acc.received \in Nat /\ acc.sum \in Nat
      /\ acc.sumSq \in Nat /\ acc.last \in Nat /\ acc.best \in Nat /\ acc.worst \in Nat
  BY DEF Accums
<1>8. RowRight(acc, X)
  BY <1>1
<1>9. IsFiniteSet(Y) /\ Cardinality(Y) \in Nat /\ (Cardinality(Y) = 0 <=> Y = {})
  BY <1>3, LoggedSubset, FS_EmptySet
<1>10. CASE Y = {}
  <2>1. X \cup Y = X
    BY <1>10
  <2>2. /\ m.received = acc.received /\ m.sum = acc.sum /\ m.sumSq = acc.sumSq
        /\ m.last = acc.last /\ m.best = acc.best /\ m.worst = acc.worst
    BY <1>4, <1>6, <1>9, <1>10
  <2>3. RowRight(m, X)
    BY <1>8, <2>2, Zenon DEF RowRight
  <2>4. m \in Accums
    BY <1>4, <1>5, <1>6, <1>7, <2>2 DEF Accums
  <2> QED
    BY <1>3, <1>4, <1>6, <2>1, <2>3, <2>4 DEF MergedRight
<1>11. CASE Y # {}
  <2>1. /\ Cardinality(X \cup Y) = Cardinality(X) + Cardinality(Y)
        /\ Total(X \cup Y) = Total(X) + Total(Y) /\ TotalSq(X \cup Y) = TotalSq(X) + TotalSq(Y)
        /\ Newest(X \cup Y) = Newest(Y)
        /\ Min(RttsOf(Y) \cup {MaxFloat64}) = Min(RttsOf(Y)) /\ Min(RttsOf(Y)) \in 1 .. Slowest
        /\ Max(RttsOf(Y) \cup {0}) = Max(RttsOf(Y)) /\ Max(RttsOf(Y)) \in 1 .. Slowest
        /\ X # {} => Min(RttsOf(X)) \in 1 .. Slowest /\ Max(RttsOf(X)) \in 1 .. Slowest
        /\ Min(RttsOf(X \cup Y)) = IF X # {} /\ Min(RttsOf(X)) <= Min(RttsOf(Y))
                                   THEN Min(RttsOf(X)) ELSE Min(RttsOf(Y))
        /\ Max(RttsOf(X \cup Y)) = IF X # {} /\ Max(RttsOf(X)) >= Max(RttsOf(Y))
                                   THEN Max(RttsOf(X)) ELSE Max(RttsOf(Y))
    <3>1. PICK T : T = L \cup S
      OBVIOUS
    <3>2. Logged(T) /\ X \in SUBSET T /\ Y \in SUBSET T /\ Y # {}
      BY <1>3, <1>11, <3>1
    <3>3. \A a \in X, b \in Y : a.no < b.no
      BY <1>3
    <3>4. \A a \in X \cup Y : a.ip # Unknown
      BY <1>3
    <3>5. TogetherRight(X, Y)
      BY <3>2, <3>3, <3>4, ColumnsUnion
    <3> QED
      BY <3>5, Zenon DEF TogetherRight
  <2>2. /\ m.received = acc.received + g.received
        /\ m.sum = acc.sum + g.sum /\ m.sumSq = acc.sumSq + g.sumSq
        /\ m.last = Newest(Y).rtt
        /\ m.best = IF acc.best = MaxFloat64 \/ g.best < acc.best
                    THEN g.best ELSE acc.best
        /\ m.worst = IF g.worst > acc.worst THEN g.worst ELSE acc.worst
    BY <1>4, <1>6, <1>9, <1>11
  <2>3. g.best = Min(RttsOf(Y)) /\ g.worst = Max(RttsOf(Y))
    BY <1>4, <2>1
  <2>4. m.received = Cardinality(X \cup Y) /\ m.sum = Total(X \cup Y) /\ m.sumSq = TotalSq(X \cup Y)
    BY <1>4, <1>8, <2>1, <2>2 DEF RowRight
  <2>5. m.best = Min(RttsOf(X \cup Y)) /\ m.worst = Max(RttsOf(X \cup Y))
    <3>1. CASE X = {}
      <4>1. acc.best = MaxFloat64 /\ acc.worst = 0
        BY <1>8, <3>1, Zenon DEF RowRight
      <4> QED
        BY <2>1, <2>2, <2>3, <3>1, <4>1, InfiniteTime
    <3>2. CASE X # {}
      <4>1. acc.best = Min(RttsOf(X)) /\ acc.worst = Max(RttsOf(X))
        BY <1>8, <3>2, Zenon DEF RowRight
      <4> QED
        BY <2>1, <2>2, <2>3, <3>2, <4>1, InfiniteTime
    <3> QED
      BY <3>1, <3>2
  <2>6. m.last = Newest(X \cup Y).rtt
    BY <2>1, <2>2, Zenon
  <2>7. RowRight(m, X \cup Y)
    <3>1. X \cup Y # {}
      BY <1>11
    <3> QED
      BY <2>4, <2>5, <2>6, <3>1, Zenon DEF RowRight
  <2>8. m \in Accums
    <3>1. /\ m.order \in Nat /\ m.sent \in Nat /\ m.received \in Nat
          /\ m.best \in Nat /\ m.worst \in Nat
      BY <1>4, <1>5, <1>6, <1>7, <1>9, <2>1, <2>2, <2>3, InfiniteTime
    <3>2. m.sum \in Nat /\ m.sumSq \in Nat
      <4>1. \A a \in Y : a.rtt \in Nat
        BY <1>3 DEF Logged, NumberedAttempts
      <4>2. Total(Y) \in Nat /\ TotalSq(Y) \in Nat
        <5>1. IsFiniteSet({}) /\ Y \cap {} = {} /\ \A a \in Y \cup {} : a.rtt \in Nat
          BY <4>1, FS_EmptySet
        <5> QED
          BY <1>9, <5>1, TotalUnion
      <4> QED
        BY <1>4, <1>7, <2>2, <4>2
    <3>3. m.last \in Nat
      <4>1. Newest(Y) \in Y
        BY <1>3, <1>11, LoggedSubset
      <4> QED
        BY <1>3, <2>2, <4>1 DEF Logged, NumberedAttempts
    <3> QED
      BY <1>6, <3>1, <3>2, <3>3 DEF Accums
  <2> QED
    BY <1>3, <1>4, <1>6, <2>7, <2>8 DEF MergedRight
<1> QED
  BY <1>10, <1>11

\* The timeouts' row, which has no answer, joins a path's row: only its sent counts.
LEMMA UnansweredMerges ==
  ASSUME NEW acc \in Accums, NEW src \in Accums, src.received = 0, NEW own, RowRight(acc, own),
         NEW m, m = mergeMTRHopAccum(acc, src)
  PROVE  /\ m \in Accums /\ m.order = acc.order /\ m.sent = acc.sent + src.sent
         /\ RowRight(m, own)
<1>1. m = [acc EXCEPT !.sent = @ + src.sent,
                      !.received = @ + src.received,
                      !.geo = @ \/ src.geo,
                      !.host = @ \/ src.host]
  BY DEF mergeMTRHopAccum
<1>2. src.sent \in Nat /\ src.geo \in BOOLEAN /\ src.host \in BOOLEAN
  BY DEF Accums
<1>3. /\ m.order = acc.order /\ m.host \in BOOLEAN /\ m.geo \in BOOLEAN
      /\ m.sent = acc.sent + src.sent /\ m.received = acc.received + src.received
      /\ DOMAIN m = {"order", "host", "geo", "sent", "received",
                     "sum", "sumSq", "last", "best", "worst"}
      /\ m = [f \in DOMAIN m |-> m[f]]
      /\ m.sum = acc.sum /\ m.sumSq = acc.sumSq
      /\ m.last = acc.last /\ m.best = acc.best /\ m.worst = acc.worst
  BY <1>1, <1>2 DEF Accums
<1>4. /\ acc.order \in Nat /\ acc.sent \in Nat /\ acc.received \in Nat /\ acc.sum \in Nat
      /\ acc.sumSq \in Nat /\ acc.last \in Nat /\ acc.best \in Nat /\ acc.worst \in Nat
  BY DEF Accums
<1>5. m.received = acc.received
  BY <1>3, <1>4
<1>6. m \in Accums
  BY <1>2, <1>3, <1>4, <1>5 DEF Accums
<1> QED
  BY <1>3, <1>5, <1>6, Zenon DEF RowRight

\* A new row is right for no answers.
LEMMA NewRowRight ==
  ASSUME NEW order \in Nat
  PROVE  newHopAccum(order) \in Accums /\ newHopAccum(order).sent = 0
         /\ newHopAccum(order).order = order /\ RowRight(newHopAccum(order), {})
<1>1. newHopAccum(order) \in Accums
  BY InfiniteTime DEF newHopAccum, Accums
<1>2. RowRight(newHopAccum(order), {})
  BY TotalEmpty, FS_EmptySet DEF newHopAccum, RowRight
<1> QED
  BY <1>1, <1>2 DEF newHopAccum

(***************************************************************************)
(* The attempts before the update that shows a second path.                *)
(***************************************************************************)
One(A) == Cardinality(PeersIn(A)) <= 1

LEMMA PathsFinite ==
  ASSUME NEW A \in SUBSET NumberedAttempts, NEW B \in SUBSET A
  PROVE  /\ IsFiniteSet(PeersIn(A)) /\ Cardinality(PeersIn(A)) \in Nat
         /\ PeersIn(B) \in SUBSET PeersIn(A)
         /\ Cardinality(PeersIn(B)) <= Cardinality(PeersIn(A))
<1>1. PeersIn(A) \in SUBSET Peers /\ PeersIn(B) \in SUBSET PeersIn(A)
  BY DEF PeersIn, KeysOf, mtrHopKey, NumberedAttempts, HopKeys
<1>2. IsFiniteSet(PeersIn(A))
  BY <1>1, FS_Subset, AggregatorAssumption DEF AggregatorAssumption
<1> QED
  BY <1>1, <1>2, FS_Subset, FS_CardinalityType

LEMMA PrefixIs ==
  ASSUME NEW A, NEW n \in -1 .. MaxUpdates, One(Upto(A, n)),
         \A m \in -1 .. MaxUpdates : m > n => ~ One(Upto(A, m))
  PROVE  OnePathPrefix(A) = Upto(A, n)
<1> DEFINE D == {m \in -1 .. MaxUpdates : Cardinality(PeersIn(Upto(A, m))) <= 1}
<1>1. n \in D /\ \A m \in D : ~ (m > n)
  BY DEF One
<1>2. D \in SUBSET Int /\ \A m \in D : m <= n
  <2>1. D \in SUBSET Int
    OBVIOUS
  <2> HIDE DEF D
  <2> QED
    BY <1>1, <2>1
<1>3. Max(D) = n
  <2> HIDE DEF D
  <2> QED
    BY <1>1, <1>2, MaxIs
<1> QED
  BY <1>3 DEF OnePathPrefix

\* With one path it is all of them.
LEMMA PrefixAll ==
  ASSUME NEW A \in SUBSET NumberedAttempts, \A a \in A : a.update < MaxUpdates, One(A),
         MaxUpdates \in Nat
  PROVE  OnePathPrefix(A) = A
<1>1. Upto(A, MaxUpdates) = A
  BY DEF Upto, NumberedAttempts
<1>2. MaxUpdates \in -1 .. MaxUpdates /\ \A m \in -1 .. MaxUpdates : ~ (m > MaxUpdates)
  OBVIOUS
<1>3. OnePathPrefix(A) = Upto(A, MaxUpdates)
  BY <1>1, <1>2, PrefixIs
<1> QED
  BY <1>1, <1>3

\* The update that brings the second path ends it, the later ones leave it.
LEMMA PrefixStays ==
  ASSUME NEW L, NEW S, L \cup S \in SUBSET NumberedAttempts, ~ One(L \cup S),
         MaxUpdates \in Nat, NEW n \in 0 .. MaxUpdates, n < MaxUpdates, Behind(L, S, n)
  PROVE  OnePathPrefix(L \cup S) = OnePathPrefix(L)
<1>1. /\ L \in SUBSET NumberedAttempts /\ S \in SUBSET NumberedAttempts
      /\ L \in SUBSET (L \cup S) /\ {} \in SUBSET L
  OBVIOUS
<1>2. \A m \in -1 .. MaxUpdates : m < n => Upto(L \cup S, m) = Upto(L, m)
  BY <1>1 DEF Upto, Behind, NumberedAttempts
<1>3. \A m \in -1 .. MaxUpdates : m >= n - 1 => Upto(L, m) = L
  BY <1>1 DEF Upto, Behind, NumberedAttempts
<1>4. \A m \in -1 .. MaxUpdates : m >= n => Upto(L \cup S, m) = L \cup S
  BY <1>1 DEF Upto, Behind, NumberedAttempts
<1>5. CASE One(L)
  <2>1. OnePathPrefix(L) = L
    BY <1>1, <1>5, PrefixAll DEF Behind, NumberedAttempts
  <2>2. n - 1 \in -1 .. MaxUpdates
    OBVIOUS
  <2>3. Upto(L \cup S, n - 1) = L
    <3>1. n - 1 < n /\ n - 1 >= n - 1
      OBVIOUS
    <3>2. PICK m : m = n - 1
      OBVIOUS
    <3>3. Upto(L \cup S, m) = Upto(L, m) /\ Upto(L, m) = L
      BY <1>2, <1>3, <2>2, <3>1, <3>2
    <3> QED
      BY <3>2, <3>3
  <2>4. \A m \in -1 .. MaxUpdates : m > n - 1 => ~ One(Upto(L \cup S, m))
    <3> SUFFICES ASSUME NEW m \in -1 .. MaxUpdates, m > n - 1 PROVE ~ One(Upto(L \cup S, m))
      OBVIOUS
    <3>1. m >= n
      OBVIOUS
    <3>2. Upto(L \cup S, m) = L \cup S
      BY <1>4, <3>1
    <3> QED
      BY <3>2
  <2>5. OnePathPrefix(L \cup S) = Upto(L \cup S, n - 1)
    BY <1>5, <2>2, <2>3, <2>4, PrefixIs
  <2> QED
    BY <2>1, <2>3, <2>5
<1>6. CASE ~ One(L)
  <2> DEFINE D == {m \in 0 .. n : One(Upto(L, m - 1))}
  <2>1. D \in SUBSET (0 .. n) /\ D # {}
    <3>1. Upto(L, 0 - 1) = {}
      BY <1>1 DEF Upto, NumberedAttempts
    <3>2. PeersIn({}) = {}
      BY DEF PeersIn, KeysOf
    <3>3. One(Upto(L, 0 - 1))
      BY <3>1, <3>2, FS_EmptySet DEF One
    <3> QED
      BY <3>3
  <2>2. PICK d \in D : \A m \in D : m <= d
    <3>1. n \in Nat
      OBVIOUS
    <3> HIDE DEF D
    <3> QED
      BY <2>1, <3>1, GreatestNat
  <2>3. /\ d - 1 \in -1 .. MaxUpdates /\ One(Upto(L, d - 1)) /\ d \in 0 .. n
        /\ \A m \in 0 .. n : m > d => ~ One(Upto(L, m - 1))
    BY <2>2
  <2>4. \A m \in -1 .. MaxUpdates : m > d - 1 => ~ One(Upto(L, m))
    <3> SUFFICES ASSUME NEW m \in -1 .. MaxUpdates, m > d - 1 PROVE ~ One(Upto(L, m))
      OBVIOUS
    <3>1. CASE m < n
      <4>1. m + 1 \in 0 .. n /\ m + 1 > d /\ (m + 1) - 1 = m
        BY <2>3, <3>1
      <4> QED
        BY <2>3, <4>1
    <3>2. CASE m >= n
      BY <1>3, <1>6, <3>2
    <3> QED
      BY <3>1, <3>2
  <2>5. OnePathPrefix(L) = Upto(L, d - 1)
    BY <2>3, <2>4, PrefixIs
  <2>6. d - 1 < n
    BY <2>3
  <2>7. Upto(L \cup S, d - 1) = Upto(L, d - 1)
    BY <1>2, <2>3, <2>6
  <2>8. \A m \in -1 .. MaxUpdates : m > d - 1 => ~ One(Upto(L \cup S, m))
    <3> SUFFICES ASSUME NEW m \in -1 .. MaxUpdates, m > d - 1 PROVE ~ One(Upto(L \cup S, m))
      OBVIOUS
    <3>1. CASE m < n
      BY <1>2, <2>4, <3>1
    <3>2. CASE m >= n
      BY <1>4, <3>2
    <3> QED
      BY <3>1, <3>2
  <2> QED
    BY <2>3, <2>5, <2>7, <2>8, PrefixIs
<1> QED
  BY <1>5, <1>6

\* The prefix is some of them, so that its lost probes are some of theirs.
LEMMA LateNat ==
  ASSUME NEW L, Logged(L), MaxUpdates \in Nat
  PROVE  /\ OnePathPrefix(L) \in SUBSET L
         /\ Early(L) \in Nat /\ Late(L) \in Nat /\ Count(L, Unknown) = Early(L) + Late(L)
<1>1. PICK pre : pre = OnePathPrefix(L)
  OBVIOUS
<1>2. pre \in SUBSET L
  BY <1>1 DEF OnePathPrefix, Upto
<1>3. /\ IsFiniteSet(L) /\ IsFiniteSet(pre) /\ Of(pre, Unknown) \in SUBSET Of(L, Unknown)
  BY <1>2, FS_Subset DEF Logged, Of
<1>4. Count(pre, Unknown) \in Nat /\ Count(L, Unknown) \in Nat /\ IsFiniteSet(Of(L, Unknown))
  BY <1>3, CountOf
<1>5. Count(pre, Unknown) <= Count(L, Unknown)
  BY <1>3, <1>4, FS_Subset DEF Count
<1>6. Early(L) = 0 \/ Early(L) = Count(pre, Unknown)
  BY <1>1 DEF Early
<1> QED
  BY <1>1, <1>2, <1>4, <1>5, <1>6 DEF Late

(***************************************************************************)
(* The rows of a TTL after an update.                                      *)
(***************************************************************************)
LEMMA NoRow ==
  ASSUME NEW L, Logged(L), MaxUpdates \in Nat, NEW rows, Attributed(rows, L),
         NEW k, k \notin DOMAIN rows
  PROVE  SentOn(L, k) = 0 /\ Answered(Of(L, k)) = {}
<1>1. /\ OnePathPrefix(L) \in SUBSET L /\ Late(L) \in Nat
      /\ DOMAIN rows = PeersIn(L) \cup (IF Late(L) > 0 THEN {Unknown} ELSE {})
  BY LateNat DEF Attributed
<1>2. CASE k = Unknown
  BY <1>1, <1>2 DEF SentOn, Answered, Of, mtrHopKey
<1>3. CASE k # Unknown
  <2>1. k \notin PeersIn(L)
    BY <1>1
  <2>2. k \notin KeysOf(L) /\ k \notin PeersIn(OnePathPrefix(L))
    BY <1>1, <1>3, <2>1 DEF PeersIn, KeysOf
  <2>3. Count(L, k) = 0 /\ Of(L, k) = {}
    BY <2>2, CountOf DEF Logged, Of, KeysOf
  <2> QED
    BY <1>3, <2>2, <2>3 DEF SentOn, Answered
<1> QED
  BY <1>2, <1>3

LEMMA RowMerged ==
  ASSUME NEW L, NEW S, Logged(L), Logged(L \cup S), Precede(L, S),
         MaxUpdates \in Nat, NEW rows, TableOf(rows, L), NEW k \in DOMAIN rows \cup KeysOf(S),
         NEW order \in Nat,
         NEW acc, acc = IF k \in DOMAIN rows THEN rows[k] ELSE newHopAccum(order),
         NEW m, m = IF k \in KeysOf(S)
                    THEN mergeMTRHopGroupIntoAccum(acc, groupMTRHopAttempts(S)[k]) ELSE rows[k]
  PROVE  MergedRight(m, acc, L, S, k) /\ m.sent = SentOn(L, k) + Count(S, k)
<1>1. acc \in Accums /\ acc.sent = SentOn(L, k) /\ RowRight(acc, Answered(Of(L, k)))
  <2>1. CASE k \in DOMAIN rows
    BY <2>1 DEF TableOf, Attributed
  <2>2. CASE k \notin DOMAIN rows
    <3>1. SentOn(L, k) = 0 /\ Answered(Of(L, k)) = {}
      BY <2>2, NoRow DEF TableOf
    <3>2. acc = newHopAccum(order)
      BY <2>2
    <3> QED
      BY <3>1, <3>2, NewRowRight
  <2> QED
    BY <2>1, <2>2
<1>2. CASE k \in KeysOf(S)
  <2>1. m = mergeMTRHopGroupIntoAccum(acc, groupMTRHopAttempts(S)[k])
    BY <1>2
  <2>2. MergedRight(m, acc, L, S, k)
    BY <1>1, <1>2, <2>1, GroupMerges
  <2> QED
    BY <1>1, <2>2, Zenon DEF MergedRight
<1>3. CASE k \notin KeysOf(S)
  <2>1. m = acc
    BY <1>3
  <2>2. Of(L \cup S, k) = Of(L, k) /\ Count(S, k) = 0
    <3>1. IsFiniteSet(S)
      BY FS_Subset DEF Logged
    <3> QED
      BY <1>3, <3>1, CountOf DEF Of, KeysOf
  <2>3. acc.sent \in Nat
    BY <1>1 DEF Accums
  <2> QED
    BY <1>1, <2>1, <2>2, <2>3 DEF MergedRight
<1> QED
  BY <1>2, <1>3

\* What a path and the timeouts are charged with, when there is at most one path.
LEMMA OnePathSums ==
  ASSUME NEW L, Logged(L), One(L), MaxUpdates \in Nat, \A a \in L : a.update < MaxUpdates
  PROVE  /\ PeersIn(L) = {} => /\ Late(L) = Count(L, Unknown) /\ Early(L) = 0
                               /\ \A k : k # Unknown => SentOn(L, k) = 0
         /\ \A p : PeersIn(L) = {p} => /\ Late(L) = 0 /\ Early(L) = Count(L, Unknown)
                                      /\ SentOn(L, p) = Count(L, p) + Count(L, Unknown)
<1>1. OnePathPrefix(L) = L
  BY PrefixAll DEF Logged
<1>2. Count(L, Unknown) \in Nat /\ \A k : k \notin KeysOf(L) => Count(L, k) = 0
  BY CountOf DEF Logged
<1>3. ASSUME PeersIn(L) = {}
      PROVE  /\ Late(L) = Count(L, Unknown) /\ Early(L) = 0
             /\ \A k : k # Unknown => SentOn(L, k) = 0
  <2>1. Early(L) = 0
    BY <1>1, <1>3 DEF Early
  <2>2. Late(L) = Count(L, Unknown)
    BY <1>2, <2>1 DEF Late
  <2>3. ASSUME NEW k, k # Unknown PROVE SentOn(L, k) = 0
    <3>1. k \notin KeysOf(L)
      BY <1>3, <2>3 DEF PeersIn
    <3> QED
      BY <1>1, <1>2, <1>3, <2>3, <3>1 DEF SentOn
  <2> QED
    BY <2>1, <2>2, <2>3
<1>4. ASSUME NEW p, PeersIn(L) = {p}
      PROVE  /\ Late(L) = 0 /\ Early(L) = Count(L, Unknown)
             /\ SentOn(L, p) = Count(L, p) + Count(L, Unknown)
  <2>1. Early(L) = Count(L, Unknown)
    BY <1>1, <1>4 DEF Early
  <2>2. Late(L) = 0
    BY <1>2, <2>1 DEF Late
  <2>3. p # Unknown /\ p \in PeersIn(OnePathPrefix(L))
    BY <1>1, <1>4 DEF PeersIn
  <2>4. SentOn(L, p) = Count(L, p) + Early(L)
    BY <2>3 DEF SentOn
  <2> QED
    BY <2>1, <2>2, <2>4
<1> QED
  BY <1>3, <1>4

\* The rows of a TTL with the groups of a Result merged in, before the timeouts' row joins.
Merged(R, L, S) ==
  /\ DOMAIN R = PeersIn(L) \cup (IF Late(L) > 0 THEN {Unknown} ELSE {}) \cup KeysOf(S)
  /\ \A k \in DOMAIN R : /\ R[k] \in Accums /\ R[k].sent = SentOn(L, k) + Count(S, k)
                         /\ RowRight(R[k], Answered(Of(L \cup S, k)))

\* The attempts S of an update the model still makes, behind those before it.
Following(L, S) ==
  /\ Logged(L) /\ Logged(L \cup S) /\ MaxUpdates \in Nat
  /\ \E n \in 0 .. MaxUpdates : n < MaxUpdates /\ Behind(L, S, n)

OnlyPath(A, p) == PeersIn(A) = {p}

\* The rows once the timeouts' row has joined, or not: a right table, with the orders of R.
Joined(new, R, A) ==
  TableOf(new, A) /\ \A k \in DOMAIN new : k \in DOMAIN R /\ new[k].order = R[k].order

\* A second path, now or before: nothing joins, the first path keeps what it was charged with.
LEMMA TwoPaths ==
  ASSUME NEW L, NEW S, Following(L, S), ~ One(L \cup S),
         NEW R, Merged(R, L, S)
  PROVE  Joined(mergeUnknownIntoSingleKnown(R), R, L \cup S)
<1>0. PICK n \in 0 .. MaxUpdates : n < MaxUpdates /\ Behind(L, S, n)
  BY DEF Following
<1>logged. Logged(L) /\ Logged(L \cup S) /\ MaxUpdates \in Nat
  BY DEF Following
<1> USE <1>0, <1>logged
<1> DEFINE A == L \cup S
<1>1. /\ L \cap S = {} /\ IsFiniteSet(S) /\ IsFiniteSet(L) /\ A \in SUBSET NumberedAttempts
      /\ L \in SUBSET NumberedAttempts
  BY FS_Subset DEF Logged, Behind, Precede, NumberedAttempts
<1>2. \A k : Count(A, k) = Count(L, k) + Count(S, k) /\ Count(L, k) \in Nat /\ Count(S, k) \in Nat
  BY <1>1, CountUnion, CountOf
<1>3. OnePathPrefix(A) = OnePathPrefix(L)
  BY <1>1, PrefixStays
<1>4. Early(A) = Early(L)
  BY <1>3, Zenon DEF Early
<1>5. /\ Early(L) \in Nat /\ Late(L) \in Nat /\ Count(L, Unknown) = Early(L) + Late(L)
      /\ Late(A) \in Nat /\ Count(A, Unknown) = Early(A) + Late(A)
  BY LateNat
<1>6. Late(A) = Late(L) + Count(S, Unknown)
  <2>1. Count(A, Unknown) = Count(L, Unknown) + Count(S, Unknown) /\ Count(S, Unknown) \in Nat
    BY <1>2
  <2>2. Early(L) + Late(A) = Early(L) + Late(L) + Count(S, Unknown)
    BY <1>4, <1>5, <2>1, Zenon
  <2>3. PICK e \in Nat, x \in Nat, y \in Nat, z \in Nat :
          e = Early(L) /\ x = Late(A) /\ y = Late(L) /\ z = Count(S, Unknown)
    BY <1>5, <2>1, Zenon
  <2>4. e + x = e + y + z
    BY <2>2, <2>3, Zenon
  <2>5. x = y + z
    BY <2>4
  <2> QED
    BY <2>3, <2>5, Zenon
<1>7. \A k : SentOn(A, k) = SentOn(L, k) + Count(S, k)
  <2> TAKE k
  <2>1. CASE k = Unknown
    BY <1>6, <2>1 DEF SentOn
  <2>2. CASE k # Unknown
    <3>1. /\ Count(A, k) = Count(L, k) + Count(S, k)
          /\ Count(L, k) \in Nat /\ Count(S, k) \in Nat
      BY <1>2
    <3>2. /\ SentOn(A, k) = Count(A, k) + (IF k \in PeersIn(OnePathPrefix(L))
                                          THEN Early(L) ELSE 0)
          /\ SentOn(L, k) = Count(L, k) + (IF k \in PeersIn(OnePathPrefix(L))
                                          THEN Early(L) ELSE 0)
      BY <1>3, <1>4, <2>2, Zenon DEF SentOn
    <3> QED
      BY <1>5, <3>1, <3>2
  <2> QED
    BY <2>1, <2>2
<1>8. PeersIn(A) = PeersIn(L) \cup (KeysOf(S) \ {Unknown})
  BY DEF PeersIn, KeysOf
<1>9. Count(S, Unknown) > 0 <=> Unknown \in KeysOf(S)
  BY <1>1, <1>2, CountOf
<1>10. DOMAIN R = PeersIn(A) \cup (IF Late(A) > 0 THEN {Unknown} ELSE {})
  <2>1. DOMAIN R = PeersIn(L) \cup (IF Late(L) > 0 THEN {Unknown} ELSE {}) \cup KeysOf(S)
    BY DEF Merged
  <2>2. Count(S, Unknown) \in Nat
    BY <1>2
  <2>3. Late(A) > 0 <=> Late(L) > 0 \/ Unknown \in KeysOf(S)
    BY <1>5, <1>6, <1>9, <2>2
  <2> QED
    BY <1>8, <2>1, <2>3
<1>11. TableOf(R, A)
  BY <1>7, <1>10 DEF Merged, TableOf, Attributed
<1>12. DOMAIN R \ {Unknown} = PeersIn(A)
  BY <1>10 DEF PeersIn
<1>13. Cardinality(DOMAIN R \ {Unknown}) # 1
  <2>1. ~ (Cardinality(PeersIn(A)) <= 1)
    BY DEF One
  <2> QED
    BY <1>12, <2>1
<1>alone. mergeUnknownIntoSingleKnown(R) = R
  BY <1>13 DEF mergeUnknownIntoSingleKnown
<1> QED
  BY <1>11, <1>alone DEF Joined

\* No path yet: the timeouts' row is the only one.
LEMMA NoPath ==
  ASSUME NEW L, NEW S, Following(L, S), PeersIn(L \cup S) = {},
         NEW R, Merged(R, L, S)
  PROVE  Joined(mergeUnknownIntoSingleKnown(R), R, L \cup S)
<1>0. PICK n \in 0 .. MaxUpdates : n < MaxUpdates /\ Behind(L, S, n)
  BY DEF Following
<1>logged. Logged(L) /\ Logged(L \cup S) /\ MaxUpdates \in Nat
  BY DEF Following
<1> USE <1>0, <1>logged
<1> DEFINE A == L \cup S
<1>1. /\ L \cap S = {} /\ IsFiniteSet(S) /\ IsFiniteSet(L)
      /\ PeersIn(L) = {} /\ KeysOf(S) \in SUBSET {Unknown}
      /\ \A a \in A : a.update < MaxUpdates
  <2>1. L \cap S = {} /\ IsFiniteSet(S) /\ IsFiniteSet(L)
    BY FS_Subset DEF Logged, Behind, Precede, NumberedAttempts
  <2>2. PeersIn(L) = {} /\ KeysOf(S) \in SUBSET {Unknown}
    BY DEF PeersIn, KeysOf
  <2>3. \A a \in A : a.update < MaxUpdates
    BY DEF Behind, Logged, NumberedAttempts
  <2> QED
    BY <2>1, <2>2, <2>3
<1>2. /\ Count(A, Unknown) = Count(L, Unknown) + Count(S, Unknown)
      /\ Count(L, Unknown) \in Nat /\ Count(S, Unknown) \in Nat
      /\ Count(S, Unknown) = 0 <=> Unknown \notin KeysOf(S)
  BY <1>1, CountUnion, CountOf
<1>3. One(A) /\ One(L)
  <2>1. Cardinality(PeersIn(A)) = 0 /\ Cardinality(PeersIn(L)) = 0
    BY <1>1, FS_EmptySet
  <2> QED
    BY <2>1 DEF One
<1>4. Late(A) = Count(A, Unknown) /\ Late(L) = Count(L, Unknown)
  BY <1>1, <1>3, OnePathSums DEF Behind
<1>5. DOMAIN R = (IF Late(A) > 0 THEN {Unknown} ELSE {})
  BY <1>1, <1>2, <1>4 DEF Merged
<1>6. \A k \in DOMAIN R : R[k].sent = SentOn(A, k)
  BY <1>2, <1>4, <1>5 DEF Merged, SentOn
<1>7. TableOf(R, A)
  BY <1>5, <1>6 DEF Merged, TableOf, Attributed
<1>8. Cardinality(DOMAIN R \ {Unknown}) = 0
  <2>1. DOMAIN R \ {Unknown} = {}
    BY <1>5
  <2> QED
    BY <2>1, FS_EmptySet
<1>alone. mergeUnknownIntoSingleKnown(R) = R
  BY <1>8 DEF mergeUnknownIntoSingleKnown
<1> QED
  BY <1>7, <1>alone DEF Joined

\* One path: the timeouts' row, if there is one, joins it.
LEMMA SinglePath ==
  ASSUME NEW L, NEW S, Following(L, S),
         NEW p, OnlyPath(L \cup S, p), NEW R, Merged(R, L, S)
  PROVE  Joined(mergeUnknownIntoSingleKnown(R), R, L \cup S)
<1>new. PICK new : new = mergeUnknownIntoSingleKnown(R)
  OBVIOUS
<1>path. PeersIn(L \cup S) = {p}
  BY DEF OnlyPath
<1>0. PICK n \in 0 .. MaxUpdates : n < MaxUpdates /\ Behind(L, S, n)
  BY DEF Following
<1>logged. Logged(L) /\ Logged(L \cup S) /\ MaxUpdates \in Nat
  BY DEF Following
<1> USE <1>0, <1>logged, <1>new, <1>path
<1> DEFINE A == L \cup S
<1>1. /\ L \cap S = {} /\ IsFiniteSet(S) /\ IsFiniteSet(L)
      /\ \A a \in A : a.update < MaxUpdates
  <2>1. L \cap S = {} /\ IsFiniteSet(S) /\ IsFiniteSet(L)
    BY FS_Subset DEF Logged, Behind, Precede, NumberedAttempts
  <2>2. \A a \in A : a.update < MaxUpdates
    BY DEF Behind, Logged, NumberedAttempts
  <2> QED
    BY <2>1, <2>2
<1>2. \A k : Count(A, k) = Count(L, k) + Count(S, k) /\ Count(L, k) \in Nat /\ Count(S, k) \in Nat
  BY <1>1, CountUnion, CountOf
<1>3. p # Unknown /\ (PeersIn(L) = {} \/ PeersIn(L) = {p}) /\ KeysOf(S) \in SUBSET {p, Unknown}
  BY DEF PeersIn, KeysOf
<1>4. One(A) /\ One(L)
  <2>1. Cardinality({p}) = 1
    BY FS_Singleton, Zenon
  <2>2. Cardinality(PeersIn(A)) = 1
    BY <2>1, Zenon
  <2>3. Cardinality(PeersIn(L)) = 0 \/ Cardinality(PeersIn(L)) = 1
    BY <1>3, <2>1, FS_EmptySet, Zenon
  <2> QED
    BY <2>2, <2>3 DEF One
<1>5. Late(A) = 0 /\ SentOn(A, p) = Count(A, p) + Count(A, Unknown)
  BY <1>1, <1>4, OnePathSums
<1>6. /\ Late(L) \in Nat /\ SentOn(L, p) \in Nat
      /\ SentOn(L, p) + Late(L) = Count(L, p) + Count(L, Unknown)
  <2>1. CASE PeersIn(L) = {}
    <3>1. Late(L) = Count(L, Unknown) /\ SentOn(L, p) = 0
      BY <1>1, <1>3, <1>4, <2>1, OnePathSums
    <3>2. p \notin KeysOf(L)
      BY <1>3, <2>1 DEF PeersIn
    <3>3. Count(L, p) = 0
      BY <1>1, <3>2, CountOf
    <3> QED
      BY <1>2, <3>1, <3>3
  <2>2. CASE PeersIn(L) = {p}
    <3>1. Late(L) = 0 /\ SentOn(L, p) = Count(L, p) + Count(L, Unknown)
      BY <1>1, <1>4, <2>2, OnePathSums
    <3> QED
      BY <1>2, <3>1
  <2> QED
    BY <1>3, <2>1, <2>2
<1>7. p \in DOMAIN R /\ DOMAIN R \ {Unknown} = {p} /\ Cardinality(DOMAIN R \ {Unknown}) = 1
  <2>1. p \in PeersIn(L) \cup KeysOf(S)
    BY DEF PeersIn, KeysOf
  <2>2. p \in DOMAIN R /\ DOMAIN R \ {Unknown} = {p}
    BY <1>3, <2>1 DEF Merged
  <2> QED
    BY <2>2, FS_Singleton, Zenon
<1>8. /\ R[p] \in Accums /\ R[p].sent = SentOn(L, p) + Count(S, p)
      /\ RowRight(R[p], Answered(Of(A, p)))
  BY <1>7 DEF Merged
<1>9. ASSUME NEW row \in Accums, DOMAIN new = {p}, new[p] = row, row.order = R[p].order,
             row.sent = Count(A, p) + Count(A, Unknown), RowRight(row, Answered(Of(A, p)))
      PROVE  Joined(new, R, A)
  <2>1. DOMAIN new = PeersIn(A) \cup (IF Late(A) > 0 THEN {Unknown} ELSE {})
    <3>1. (IF Late(A) > 0 THEN {Unknown} ELSE {}) = {}
      BY <1>5
    <3> QED
      BY <1>9, <3>1
  <2>2. \A k \in DOMAIN new : k = p
    BY <1>9
  <2>3. Attributed(new, A)
    BY <1>5, <1>9, <2>1, <2>2 DEF Attributed
  <2> QED
    BY <1>7, <1>9, <2>2, <2>3 DEF TableOf, Joined
<1>10. CASE Unknown \in DOMAIN R
  <2>1. /\ R[Unknown] \in Accums /\ R[Unknown].sent = Late(L) + Count(S, Unknown)
        /\ RowRight(R[Unknown], Answered(Of(A, Unknown)))
    BY <1>10 DEF Merged, SentOn
  <2>2. R[Unknown].received = 0
    <3>1. Answered(Of(A, Unknown)) = {}
      BY DEF Answered, Of, mtrHopKey
    <3> QED
      BY <2>1, <3>1, FS_EmptySet DEF RowRight
  <2>3. new = [k \in {p} |-> mergeMTRHopAccum(R[k], R[Unknown])]
    BY <1>7, <1>10, Zenon DEF mergeUnknownIntoSingleKnown
  <2>4. PICK row : row = mergeMTRHopAccum(R[p], R[Unknown])
    OBVIOUS
  <2>5. DOMAIN new = {p} /\ new[p] = row
    BY <2>3, <2>4
  <2>6. /\ row \in Accums /\ row.order = R[p].order /\ row.sent = R[p].sent + R[Unknown].sent
        /\ RowRight(row, Answered(Of(A, p)))
    BY <1>8, <2>1, <2>2, <2>4, UnansweredMerges
  <2>7. row.sent = Count(A, p) + Count(A, Unknown)
    <3>1. /\ Count(A, p) = Count(L, p) + Count(S, p)
          /\ Count(A, Unknown) = Count(L, Unknown) + Count(S, Unknown)
          /\ {Count(L, p), Count(S, p), Count(L, Unknown), Count(S, Unknown)} \subseteq Nat
      BY <1>2
    <3>2. row.sent = (SentOn(L, p) + Count(S, p)) + (Late(L) + Count(S, Unknown))
      BY <1>8, <2>1, <2>6, Zenon
    <3> QED
      BY <1>6, <3>1, <3>2
  <2> QED
    BY <1>7, <1>9, <2>5, <2>6, <2>7, Zenon
<1>11. CASE Unknown \notin DOMAIN R
  <2>1. new = R /\ DOMAIN R = {p}
    BY <1>7, <1>11 DEF mergeUnknownIntoSingleKnown
  <2>2. ~ (Late(L) > 0) /\ Unknown \notin KeysOf(S)
    BY <1>11 DEF Merged
  <2>3. Late(L) = 0 /\ Count(S, Unknown) = 0
    BY <1>1, <1>6, <2>2, CountOf
  <2>4. R[p].sent = Count(A, p) + Count(A, Unknown)
    <3>1. /\ Count(A, p) = Count(L, p) + Count(S, p)
          /\ Count(A, Unknown) = Count(L, Unknown) + Count(S, Unknown)
          /\ {Count(L, p), Count(S, p), Count(L, Unknown), Count(S, Unknown)} \subseteq Nat
      BY <1>2
    <3>2. R[p].sent = SentOn(L, p) + Count(S, p)
      BY <1>8
    <3> QED
      BY <1>6, <2>3, <3>1, <3>2
  <2>5. DOMAIN new = {p} /\ new[p] = R[p]
    BY <2>1
  <2> QED
    BY <1>7, <1>8, <1>9, <2>4, <2>5, Zenon
<1> QED
  BY <1>10, <1>11

LEMMA UnknownJoins ==
  ASSUME NEW L, NEW S, Following(L, S),
         NEW R, Merged(R, L, S)
  PROVE  Joined(mergeUnknownIntoSingleKnown(R), R, L \cup S)
<1>1. CASE ~ One(L \cup S)
  BY <1>1, TwoPaths
<1>2. CASE PeersIn(L \cup S) = {}
  BY <1>2, NoPath
<1>3. CASE One(L \cup S) /\ PeersIn(L \cup S) # {}
  <2>1. PICK p : PeersIn(L \cup S) = {p}
    <3>1. /\ IsFiniteSet(PeersIn(L \cup S)) /\ Cardinality(PeersIn(L \cup S)) \in Nat
      <4>1. Logged(L \cup S)
        BY DEF Following
      <4>2. L \cup S \in SUBSET NumberedAttempts
        BY <4>1 DEF Logged
      <4> QED
        BY <4>2, PathsFinite
    <3>2. Cardinality(PeersIn(L \cup S)) # 0
      BY <1>3, <3>1, FS_EmptySet
    <3>3. Cardinality(PeersIn(L \cup S)) = 1
      BY <1>3, <3>1, <3>2 DEF One
    <3> QED
      BY <3>1, <3>3, FS_Singleton
  <2>2. OnlyPath(L \cup S, p)
    BY <2>1 DEF OnlyPath
  <2> QED
    BY <2>2, SinglePath
<1> QED
  BY <1>1, <1>2, <1>3

\* The groups of S in the rows, f[k] the order number of a new row k.
GroupsIn(R, rows, S, f) ==
  /\ DOMAIN R = DOMAIN rows \cup KeysOf(S)
  /\ \A k \in DOMAIN R :
       /\ f[k] \in Nat
       /\ R[k] = IF k \in KeysOf(S)
                 THEN mergeMTRHopGroupIntoAccum(
                        IF k \in DOMAIN rows THEN rows[k] ELSE newHopAccum(f[k]),
                        groupMTRHopAttempts(S)[k])
                 ELSE rows[k]

RightOrders(new, rows, S, f) ==
  \A k \in DOMAIN new :
    /\ k \in DOMAIN rows \cup KeysOf(S)
    /\ new[k].order = IF k \in DOMAIN rows THEN rows[k].order ELSE f[k]

LEMMA TableMerged ==
  ASSUME NEW L, NEW S, Following(L, S), NEW rows, TableOf(rows, L), NEW R, NEW f,
         GroupsIn(R, rows, S, f)
  PROVE  /\ TableOf(mergeUnknownIntoSingleKnown(R), L \cup S)
         /\ RightOrders(mergeUnknownIntoSingleKnown(R), rows, S, f)
<1>0. PICK n \in 0 .. MaxUpdates : n < MaxUpdates /\ Behind(L, S, n)
  BY DEF Following
<1>logged. Logged(L) /\ Logged(L \cup S) /\ MaxUpdates \in Nat
  BY DEF Following
<1>rows. DOMAIN R = DOMAIN rows \cup KeysOf(S)
  BY DEF GroupsIn
<1> USE <1>0, <1>logged, <1>rows
<1>1. \A k \in DOMAIN R :
        /\ R[k] \in Accums /\ R[k].sent = SentOn(L, k) + Count(S, k)
        /\ RowRight(R[k], Answered(Of(L \cup S, k)))
        /\ R[k].order = IF k \in DOMAIN rows THEN rows[k].order ELSE f[k]
  <2> TAKE k \in DOMAIN R
  <2>1. PICK acc : acc = IF k \in DOMAIN rows THEN rows[k] ELSE newHopAccum(f[k])
    OBVIOUS
  <2>2. PICK m : m = R[k]
    OBVIOUS
  <2>3. m = IF k \in KeysOf(S)
            THEN mergeMTRHopGroupIntoAccum(acc, groupMTRHopAttempts(S)[k]) ELSE rows[k]
    BY <2>1, <2>2 DEF GroupsIn
  <2>4. PICK order \in Nat : order = f[k]
    BY DEF GroupsIn
  <2>5. acc = IF k \in DOMAIN rows THEN rows[k] ELSE newHopAccum(order)
    BY <2>1, <2>4
  <2>6. Precede(L, S) /\ k \in DOMAIN rows \cup KeysOf(S)
    BY DEF Behind
  <2>7. MergedRight(m, acc, L, S, k) /\ m.sent = SentOn(L, k) + Count(S, k)
    BY <2>3, <2>5, <2>6, RowMerged
  <2>8. acc.order = IF k \in DOMAIN rows THEN rows[k].order ELSE f[k]
    <3>1. order = newHopAccum(order).order
      BY NewRowRight
    <3> QED
      BY <2>4, <2>5, <3>1
  <2> QED
    BY <2>2, <2>7, <2>8, Zenon DEF MergedRight
<1>2. Merged(R, L, S)
  BY <1>1 DEF Merged, TableOf, Attributed
<1>3. PICK new : new = mergeUnknownIntoSingleKnown(R)
  OBVIOUS
<1>4. Joined(new, R, L \cup S)
  BY <1>2, <1>3, UnknownJoins
<1>5. RightOrders(new, rows, S, f)
  BY <1>1, <1>4 DEF Joined, RightOrders
<1> QED
  BY <1>3, <1>4, <1>5, Zenon DEF Joined

(***************************************************************************)
(* The steps.                                                              *)
(***************************************************************************)
LEMMA Bounds ==
  /\ IsFiniteSet(TTLs) /\ IsFiniteSet(Peers) /\ Hosts \subseteq BOOLEAN /\ Geos \subseteq BOOLEAN
  /\ RTTs \subseteq 1 .. Slowest
BY AggregatorAssumption, SMTT(30) DEF AggregatorAssumption, Slowest

LEMMA AttemptFields ==
  ASSUME NEW a \in Attempts
  PROVE  /\ a.ip \in HopKeys /\ a.rtt \in Nat /\ a.host \in BOOLEAN /\ a.geo \in BOOLEAN
         /\ a.ip # Unknown => a.rtt \in 1 .. Slowest
<1>1. CASE a = NoAnswer
  BY <1>1 DEF NoAnswer, HopKeys, Unknown
<1>2. CASE a \in [ip : Peers, rtt : RTTs, host : Hosts, geo : Geos]
  <2>1. a.rtt \in RTTs /\ a.ip \in Peers /\ a.host \in Hosts /\ a.geo \in Geos
    BY <1>2
  <2>2. a.rtt \in 1 .. Slowest /\ a.host \in BOOLEAN /\ a.geo \in BOOLEAN
    BY <2>1, Bounds
  <2> QED
    BY <2>1, <2>2, InfiniteTime DEF HopKeys
<1> QED
  BY <1>1, <1>2 DEF Attempts

\* A Result's attempts of a TTL, numbered, come behind those before it.
LEMMA NumberedFollows ==
  ASSUME AggInv, bound.updates < MaxUpdates, NEW t \in TTLs, NEW batch \in Batches
  PROVE  /\ Following(log[t], Numbered(t, batch))
         /\ \A a \in Numbered(t, batch) : a.update = bound.updates
<1>1. PICK n \in Nat : batch \in [1 .. n -> Attempts]
  BY AggregatorAssumption DEF AggregatorAssumption, Batches
<1>2. PICK L, c, u : L = log[t] /\ c = Cardinality(log[t]) /\ u = bound.updates
  OBVIOUS
<1>3. /\ Logged(L) /\ \A a \in L : a.update < u
      /\ MaxUpdates \in Nat /\ u \in 0 .. MaxUpdates /\ u < MaxUpdates
  BY <1>2, AggregatorAssumption DEF AggregatorAssumption, AggInv
<1>4. c = Cardinality(L) /\ c \in Nat /\ IsFiniteSet(L)
  BY <1>2, <1>3, FS_CardinalityType DEF Logged
<1>5. PICK g : g = [i \in 1 .. n |->
                      [no |-> c + i, update |-> u, ip |-> batch[i].ip, rtt |-> batch[i].rtt,
                       host |-> batch[i].host, geo |-> batch[i].geo]]
  OBVIOUS
<1>6. PICK S : S = Numbered(t, batch)
  OBVIOUS
<1>7. S = {g[i] : i \in 1 .. n}
  BY <1>1, <1>2, <1>5, <1>6 DEF Numbered
<1>8. \A i \in 1 .. n : /\ g[i] \in NumberedAttempts /\ g[i].no = c + i /\ g[i].update = u
                        /\ g[i].ip # Unknown => g[i].rtt \in 1 .. Slowest
  <2> TAKE i \in 1 .. n
  <2>1. batch[i] \in Attempts
    BY <1>1
  <2>2. /\ batch[i].ip \in HopKeys /\ batch[i].rtt \in Nat
        /\ batch[i].host \in BOOLEAN /\ batch[i].geo \in BOOLEAN
        /\ batch[i].ip # Unknown => batch[i].rtt \in 1 .. Slowest
    BY <2>1, AttemptFields
  <2>3. g[i] = [no |-> c + i, update |-> u, ip |-> batch[i].ip, rtt |-> batch[i].rtt,
                host |-> batch[i].host, geo |-> batch[i].geo]
    BY <1>5
  <2>4. c + i \in Nat /\ u \in Nat
    BY <1>3, <1>4
  <2> QED
    BY <2>2, <2>3, <2>4 DEF NumberedAttempts
<1>9. IsFiniteSet(S) /\ Cardinality(S) = n
  <2>1. IsFiniteSet(1 .. n) /\ Cardinality(1 .. n) = n
    BY FS_Interval
  <2>2. \A i, j \in 1 .. n : g[i] = g[j] => i = j
    <3> TAKE i, j \in 1 .. n
    <3>1. g[i].no = c + i /\ g[j].no = c + j
      BY <1>8
    <3> QED
      BY <1>4, <3>1
  <2>3. g \in [1 .. n -> S]
    BY <1>5, <1>7
  <2>4. g \in Surjection(1 .. n, S)
    BY <1>7, <2>3 DEF Surjection
  <2>5. g \in Injection(1 .. n, S)
    BY <2>2, <2>3 DEF Injection, IsInjective
  <2> QED
    BY <2>1, <2>4, <2>5, FS_Surjection
<1>10. \A b \in S : /\ b \in NumberedAttempts /\ b.update = u /\ b.no \in c + 1 .. c + n
                    /\ b.ip # Unknown => b.rtt \in 1 .. Slowest
  <2> SUFFICES ASSUME NEW i \in 1 .. n
               PROVE  /\ g[i] \in NumberedAttempts /\ g[i].update = u
                      /\ g[i].no \in c + 1 .. c + n
                      /\ g[i].ip # Unknown => g[i].rtt \in 1 .. Slowest
    BY <1>7
  <2> QED
    BY <1>4, <1>8
<1>11. \A a, b \in S : a.no = b.no => a = b
  <2> SUFFICES ASSUME NEW i \in 1 .. n, NEW j \in 1 .. n, g[i].no = g[j].no
               PROVE  g[i] = g[j]
    BY <1>7
  <2>1. c + i = c + j
    BY <1>8
  <2> QED
    BY <1>4, <2>1
<1>12. \A a \in L : a.no \in Nat /\ a.no <= c /\ a.update \in Nat
  BY <1>3, <1>4 DEF Logged, NumberedAttempts
<1>13. Behind(L, S, u)
  BY <1>3, <1>4, <1>10, <1>12 DEF Behind, Precede
<1>14. Logged(L \cup S)
  <2>1. L \cap S = {}
    BY <1>4, <1>10, <1>12
  <2>2. IsFiniteSet(L \cup S) /\ Cardinality(L \cup S) = c + n
    BY <1>4, <1>9, <2>1, DisjointSum, FS_Union
  <2>3. \A a \in L \cup S : /\ a \in NumberedAttempts /\ a.no <= Cardinality(L \cup S)
                            /\ a.ip # Unknown => a.rtt \in 1 .. Slowest
    BY <1>3, <1>4, <1>10, <1>12, <2>2 DEF Logged
  <2>4. \A a, b \in L \cup S : a.no = b.no => a = b
    BY <1>3, <1>4, <1>10, <1>11, <1>12 DEF Logged
  <2> QED
    BY <2>2, <2>3, <2>4 DEF Logged
<1>15. Following(L, S)
  BY <1>3, <1>13, <1>14 DEF Following
<1> QED
  BY <1>2, <1>6, <1>10, <1>15

\* The table of a TTL after an update, with ord for the order numbers of new rows.
TableAfter(t, res, ord) ==
  IF res[t] = {} THEN stats[t] ELSE mergeUnknownIntoSingleKnown(mergeGroups(t, res[t], ord))

NewOrders(new, t, res, ord) ==
  \A k \in DOMAIN new :
    IF k \in DOMAIN stats[t] THEN new[k].order = stats[t][k].order
    ELSE <<t, k>> \in NewRows(res) /\ new[k].order = ord[<<t, k>>]

LEMMA UpdateTables ==
  ASSUME NEW res, NEW ord, NEW t \in TTLs, TableOf(stats[t], log[t]), Following(log[t], res[t]),
         \A r \in NewRows(res) : ord[r] \in Nat
  PROVE  /\ TableOf(TableAfter(t, res, ord), log[t] \cup res[t])
         /\ NewOrders(TableAfter(t, res, ord), t, res, ord)
<1>1. CASE res[t] = {}
  <2>1. log[t] \cup res[t] = log[t] /\ TableAfter(t, res, ord) = stats[t]
    BY <1>1 DEF TableAfter
  <2> QED
    BY <2>1 DEF NewOrders
<1>2. CASE res[t] # {}
  <2>1. PICK L, S, rows : L = log[t] /\ S = res[t] /\ rows = stats[t]
    OBVIOUS
  <2>2. PICK R : R = mergeGroups(t, S, ord)
    OBVIOUS
  <2>3. PICK f : f = [k \in DOMAIN rows \cup KeysOf(S) |->
                        IF <<t, k>> \in NewRows(res) THEN ord[<<t, k>>] ELSE 0]
    OBVIOUS
  <2>4. DOMAIN groupMTRHopAttempts(S) = KeysOf(S)
    BY Zenon DEF groupMTRHopAttempts
  <2>5. DOMAIN R = DOMAIN rows \cup KeysOf(S)
    BY <2>1, <2>2, <2>4, Zenon DEF mergeGroups
  <2>6. \A k \in KeysOf(S) \ DOMAIN rows : <<t, k>> \in NewRows(res)
    <3>1. S \in SUBSET NumberedAttempts
      BY <2>1 DEF Following, Logged
    <3>2. KeysOf(S) \in SUBSET HopKeys
      BY <3>1 DEF KeysOf, mtrHopKey, NumberedAttempts
    <3> QED
      BY <2>1, <3>2 DEF NewRows
  <2>7. \A k \in DOMAIN R : f[k] \in Nat
    BY <2>3, <2>5
  <2>8. \A k \in DOMAIN R :
          R[k] = IF k \in KeysOf(S)
                 THEN mergeMTRHopGroupIntoAccum(
                        IF k \in DOMAIN rows THEN rows[k] ELSE newHopAccum(f[k]),
                        groupMTRHopAttempts(S)[k])
                 ELSE rows[k]
    <3> TAKE k \in DOMAIN R
    <3>1. R[k] = IF k \in KeysOf(S)
                 THEN mergeMTRHopGroupIntoAccum(AccumFor(t, k, ord), groupMTRHopAttempts(S)[k])
                 ELSE rows[k]
      BY <2>1, <2>2, <2>4, <2>5, Zenon DEF mergeGroups
    <3>2. CASE k \in KeysOf(S)
      <4>1. AccumFor(t, k, ord) = IF k \in DOMAIN rows THEN rows[k] ELSE newHopAccum(f[k])
        <5>1. CASE k \in DOMAIN rows
          BY <2>1, <5>1, Zenon DEF AccumFor
        <5>2. CASE k \notin DOMAIN rows
          <6>1. f[k] = ord[<<t, k>>]
            BY <2>3, <2>6, <3>2, <5>2
          <6> QED
            BY <2>1, <5>2, <6>1, Zenon DEF AccumFor
        <5> QED
          BY <5>1, <5>2
      <4> QED
        BY <3>1, <3>2, <4>1, Zenon
    <3>3. CASE k \notin KeysOf(S)
      BY <3>1, <3>3, Zenon
    <3> QED
      BY <3>2, <3>3
  <2>9. Following(L, S) /\ TableOf(rows, L)
    BY <2>1
  <2>10. PICK m : m = mergeUnknownIntoSingleKnown(R)
    OBVIOUS
  <2>11. GroupsIn(R, rows, S, f)
    BY <2>5, <2>7, <2>8 DEF GroupsIn
  <2>12. TableOf(m, L \cup S) /\ RightOrders(m, rows, S, f)
    BY <2>9, <2>10, <2>11, TableMerged
  <2>13. m = TableAfter(t, res, ord)
    BY <1>2, <2>1, <2>2, <2>10 DEF TableAfter
  <2>14. NewOrders(m, t, res, ord)
    BY <2>1, <2>3, <2>6, <2>12 DEF NewOrders, RightOrders
  <2> QED
    BY <2>1, <2>12, <2>13, <2>14
<1> QED
  BY <1>1, <1>2

LEMMA OrderNumbers ==
  ASSUME nextOrder \in Nat, NEW res, NEW ord \in Orders(res)
  PROVE  /\ Cardinality(NewRows(res)) \in Nat
         /\ \A r \in NewRows(res) : /\ ord[r] \in Nat /\ nextOrder <= ord[r]
                                   /\ ord[r] < nextOrder + Cardinality(NewRows(res))
         /\ \A r, q \in NewRows(res) : ord[r] = ord[q] => r = q
<1>1. IsFiniteSet(HopKeys) /\ IsFiniteSet(TTLs)
  <2>1. IsFiniteSet({Unknown})
    BY FS_Singleton, Zenon
  <2> QED
    BY <2>1, FS_Union, Bounds DEF HopKeys
<1>2. NewRows(res) \in SUBSET (TTLs \X HopKeys) /\ IsFiniteSet(TTLs \X HopKeys)
  BY <1>1, FS_Product DEF NewRows
<1>3. Cardinality(NewRows(res)) \in Nat
  BY <1>2, FS_Subset, FS_CardinalityType
<1>4. /\ ord \in [NewRows(res) -> nextOrder .. nextOrder + Cardinality(NewRows(res)) - 1]
      /\ \A r, q \in NewRows(res) : r # q => ord[r] # ord[q]
  BY Zenon DEF Orders
<1>5. \A r \in NewRows(res) : ord[r] \in nextOrder .. nextOrder + Cardinality(NewRows(res)) - 1
  BY <1>4
<1> QED
  BY <1>3, <1>4, <1>5

LEMMA UpdateKeeps ==
  ASSUME AggInv, NEW batches \in [TTLs -> Batches],
         Update([t \in TTLs |-> Numbered(t, batches[t])])
  PROVE  AggInv'
<1>1. PICK res : res = [t \in TTLs |-> Numbered(t, batches[t])]
  OBVIOUS
<1>2. /\ bound.updates < MaxUpdates
      /\ nextOrder' = nextOrder + Cardinality(NewRows(res))
      /\ log' = [t \in TTLs |-> log[t] \cup res[t]]
      /\ bound' = [bound EXCEPT !.updates = @ + 1]
  BY <1>1 DEF Update
<1>3. PICK ord \in Orders(res) :
        stats' = [t \in TTLs |-> TableAfter(t, res, ord)]
  BY <1>1, Zenon DEF Update, TableAfter
<1>4. /\ Cardinality(NewRows(res)) \in Nat /\ nextOrder \in Nat
      /\ \A r \in NewRows(res) : /\ ord[r] \in Nat /\ nextOrder <= ord[r]
                                /\ ord[r] < nextOrder + Cardinality(NewRows(res))
      /\ \A r, q \in NewRows(res) : ord[r] = ord[q] => r = q
  BY OrderNumbers DEF AggInv
<1>5. \A t \in TTLs : Following(log[t], res[t]) /\ \A a \in res[t] : a.update = bound.updates
  BY <1>1, <1>2, NumberedFollows
<1>6. DOMAIN stats' = TTLs /\ DOMAIN log' = TTLs /\ nextOrder' \in Nat
  BY <1>2, <1>3, <1>4
<1>7. /\ bound' \in [updates : 0 .. MaxUpdates, resets : Nat]
      /\ bound'.updates = bound.updates + 1 /\ bound.updates \in Nat
  BY <1>2, AggregatorAssumption DEF AggInv, AggregatorAssumption
<1>8. \A t \in TTLs :
        /\ TableOf(stats'[t], log'[t])
        /\ \A k \in DOMAIN stats'[t] :
             IF k \in DOMAIN stats[t] THEN stats'[t][k].order = stats[t][k].order
             ELSE <<t, k>> \in NewRows(res) /\ stats'[t][k].order = ord[<<t, k>>]
  <2> TAKE t \in TTLs
  <2>1. TableOf(stats[t], log[t]) /\ \A r \in NewRows(res) : ord[r] \in Nat
    BY <1>4 DEF AggInv
  <2>2. Following(log[t], res[t])
    BY <1>5
  <2>3. /\ TableOf(TableAfter(t, res, ord), log[t] \cup res[t])
        /\ NewOrders(TableAfter(t, res, ord), t, res, ord)
    BY <2>1, <2>2, UpdateTables
  <2>4. stats'[t] = TableAfter(t, res, ord) /\ log'[t] = log[t] \cup res[t]
    BY <1>2, <1>3
  <2> QED
    BY <2>3, <2>4, Zenon DEF NewOrders
<1>9. \A t \in TTLs : Logged(log'[t]) /\ \A a \in log'[t] : a.update < bound'.updates
  <2> TAKE t \in TTLs
  <2>1. log'[t] = log[t] \cup res[t]
    BY <1>2
  <2>2. Logged(log[t] \cup res[t])
    BY <1>5 DEF Following
  <2>3. \A a \in log[t] \cup res[t] : a.update < bound.updates + 1
    <3>1. \A a \in log[t] : a.update < bound.updates /\ a.update \in Nat
      BY DEF AggInv, Logged, NumberedAttempts
    <3> QED
      BY <1>5, <1>7, <3>1
  <2> QED
    BY <1>7, <2>1, <2>2, <2>3
<1>10. OrdersApart'
  <2> SUFFICES ASSUME NEW t \in TTLs, NEW s \in TTLs,
                      NEW k \in DOMAIN stats'[t], NEW j \in DOMAIN stats'[s]
               PROVE  /\ stats'[t][k].order < nextOrder'
                      /\ stats'[t][k].order = stats'[s][j].order => t = s /\ k = j
    BY Zenon DEF OrdersApart
  <2>1. ASSUME NEW r \in TTLs, NEW i \in DOMAIN stats[r]
        PROVE  stats[r][i].order \in Nat /\ stats[r][i].order < nextOrder
    BY <2>1 DEF AggInv, OrdersApart, TableOf, Accums
  <2>2. CASE k \in DOMAIN stats[t] /\ j \in DOMAIN stats[s]
    <3>1. stats'[t][k].order = stats[t][k].order /\ stats'[s][j].order = stats[s][j].order
      BY <1>8, <2>2
    <3>2. stats[t][k].order = stats[s][j].order => t = s /\ k = j
      BY <2>2 DEF AggInv, OrdersApart
    <3>3. stats[t][k].order \in Nat /\ stats[t][k].order < nextOrder
      BY <2>1, <2>2
    <3> QED
      BY <1>2, <1>4, <3>1, <3>2, <3>3
  <2>3. CASE k \in DOMAIN stats[t] /\ j \notin DOMAIN stats[s]
    <3>1. /\ stats'[t][k].order = stats[t][k].order
          /\ <<s, j>> \in NewRows(res) /\ stats'[s][j].order = ord[<<s, j>>]
      BY <1>8, <2>3
    <3>2. stats[t][k].order \in Nat /\ stats[t][k].order < nextOrder
      BY <2>1, <2>3
    <3>3. ord[<<s, j>>] \in Nat /\ nextOrder <= ord[<<s, j>>]
      BY <1>4, <3>1
    <3> QED
      BY <1>2, <1>4, <3>1, <3>2, <3>3
  <2>4. CASE k \notin DOMAIN stats[t] /\ j \in DOMAIN stats[s]
    <3>1. /\ stats'[s][j].order = stats[s][j].order
          /\ <<t, k>> \in NewRows(res) /\ stats'[t][k].order = ord[<<t, k>>]
      BY <1>8, <2>4
    <3>2. stats[s][j].order \in Nat /\ stats[s][j].order < nextOrder
      BY <2>1, <2>4
    <3>3. /\ ord[<<t, k>>] \in Nat /\ nextOrder <= ord[<<t, k>>]
          /\ ord[<<t, k>>] < nextOrder + Cardinality(NewRows(res))
      BY <1>4, <3>1
    <3> QED
      BY <1>2, <1>4, <3>1, <3>2, <3>3
  <2>5. CASE k \notin DOMAIN stats[t] /\ j \notin DOMAIN stats[s]
    <3>1. /\ <<t, k>> \in NewRows(res) /\ stats'[t][k].order = ord[<<t, k>>]
          /\ <<s, j>> \in NewRows(res) /\ stats'[s][j].order = ord[<<s, j>>]
      BY <1>8, <2>5
    <3>2. ord[<<t, k>>] < nextOrder + Cardinality(NewRows(res))
      BY <1>4, <3>1
    <3>3. ord[<<t, k>>] = ord[<<s, j>>] => <<t, k>> = <<s, j>>
      BY <1>4, <3>1
    <3> QED
      BY <1>2, <3>1, <3>2, <3>3
  <2> QED
    BY <2>2, <2>3, <2>4, <2>5
<1> QED
  BY <1>6, <1>7, <1>8, <1>9, <1>10 DEF AggInv

LEMMA EmptyTable ==
  ASSUME MaxUpdates \in Nat
  PROVE  TableOf(<< >>, {}) /\ Logged({})
<1>1. Logged({})
  BY FS_EmptySet DEF Logged
<1>2. PeersIn({}) = {} /\ Unknown \notin KeysOf({})
  BY DEF PeersIn, KeysOf
<1>3. Count({}, Unknown) = 0
  BY <1>2, FS_EmptySet, CountOf
<1>4. Late({}) = 0
  BY <1>1, <1>3, LateNat
<1>5. DOMAIN << >> = PeersIn({}) \cup (IF Late({}) > 0 THEN {Unknown} ELSE {})
  BY <1>2, <1>4
<1>6. DOMAIN << >> = {}
  OBVIOUS
<1> QED
  BY <1>1, <1>5, <1>6 DEF TableOf, Attributed

LEMMA ResetKeeps ==
  ASSUME AggInv, ResetStats PROVE AggInv'
<1>1. MaxUpdates \in Nat
  BY AggregatorAssumption DEF AggregatorAssumption
<1>2. /\ stats' = [t \in TTLs |-> << >>] /\ log' = [t \in TTLs |-> {}] /\ nextOrder' = 0
      /\ bound' = [updates |-> 0, resets |-> bound.resets + 1]
  BY DEF ResetStats
<1>3. bound' \in [updates : 0 .. MaxUpdates, resets : Nat]
  BY <1>1, <1>2 DEF AggInv
<1>4. \A t \in TTLs : /\ Logged(log'[t]) /\ \A a \in log'[t] : a.update < bound'.updates
                      /\ TableOf(stats'[t], log'[t])
  <2> TAKE t \in TTLs
  <2>1. log'[t] = {} /\ stats'[t] = << >>
    BY <1>2
  <2>2. TableOf(<< >>, {}) /\ Logged({})
    BY <1>1, EmptyTable
  <2> QED
    BY <2>1, <2>2
<1>5. OrdersApart'
  <2>1. \A t \in TTLs : DOMAIN stats'[t] = {}
    BY <1>2
  <2> QED
    BY <2>1, Zenon DEF OrdersApart
<1> QED
  BY <1>2, <1>3, <1>4, <1>5 DEF AggInv

LEMMA ClearKeeps ==
  ASSUME AggInv, NEW t \in TTLs, ClearHop(t) PROVE AggInv'
<1>1. MaxUpdates \in Nat
  BY AggregatorAssumption DEF AggregatorAssumption
<1>2. /\ stats' = [stats EXCEPT ![t] = << >>] /\ log' = [log EXCEPT ![t] = {}]
      /\ bound' = [bound EXCEPT !.resets = @ + 1] /\ nextOrder' = nextOrder
  BY DEF ClearHop
<1>3. /\ bound' \in [updates : 0 .. MaxUpdates, resets : Nat]
      /\ bound'.updates = bound.updates
  BY <1>1, <1>2 DEF AggInv
<1>4. DOMAIN stats' = TTLs /\ DOMAIN log' = TTLs
  BY <1>2 DEF AggInv
<1>5. /\ stats'[t] = << >> /\ log'[t] = {}
      /\ \A s \in TTLs : s # t => stats'[s] = stats[s] /\ log'[s] = log[s]
  BY <1>2 DEF AggInv
<1>6. \A s \in TTLs : /\ Logged(log'[s]) /\ \A a \in log'[s] : a.update < bound'.updates
                      /\ TableOf(stats'[s], log'[s])
  <2> TAKE s \in TTLs
  <2>1. CASE s = t
    <3>1. TableOf(<< >>, {}) /\ Logged({})
      BY <1>1, EmptyTable
    <3> QED
      BY <1>5, <2>1, <3>1
  <2>2. CASE s # t
    <3>1. stats'[s] = stats[s] /\ log'[s] = log[s]
      BY <1>5, <2>2
    <3>2. /\ Logged(log[s]) /\ \A a \in log[s] : a.update < bound.updates
          /\ TableOf(stats[s], log[s])
      BY DEF AggInv
    <3> QED
      BY <1>3, <3>1, <3>2
  <2> QED
    BY <2>1, <2>2
<1>7. OrdersApart'
  <2>1. \A s \in TTLs : DOMAIN stats'[s] = {} \/ stats'[s] = stats[s]
    BY <1>5
  <2>2. OrdersApart
    BY DEF AggInv
  <2> QED
    BY <1>2, <2>1, <2>2 DEF OrdersApart
<1> QED
  BY <1>2, <1>3, <1>4, <1>6, <1>7 DEF AggInv

LEMMA PatchKeeps ==
  ASSUME AggInv, NEW ip, NEW host \in BOOLEAN, NEW geo \in BOOLEAN,
         PatchMetadataByIP(ip, host, geo)
  PROVE  AggInv'
<1>1. /\ stats' = [t \in TTLs |->
                     [k \in DOMAIN stats[t] |->
                        IF k # ip THEN stats[t][k]
                        ELSE [stats[t][k] EXCEPT !.host = @ \/ host, !.geo = @ \/ geo]]]
      /\ log' = log /\ nextOrder' = nextOrder /\ bound' = bound
  BY DEF PatchMetadataByIP
<1>2. \A t \in TTLs : DOMAIN stats'[t] = DOMAIN stats[t]
  BY <1>1
<1>3. \A t \in TTLs : \A k \in DOMAIN stats[t] :
        LET new == stats'[t][k]
            old == stats[t][k]
        IN /\ new \in Accums /\ new.order = old.order /\ new.sent = old.sent
           /\ new.received = old.received /\ new.sum = old.sum /\ new.sumSq = old.sumSq
           /\ new.last = old.last /\ new.best = old.best /\ new.worst = old.worst
  <2> TAKE t \in TTLs
  <2> TAKE k \in DOMAIN stats[t]
  <2>1. PICK old \in Accums : old = stats[t][k]
    BY DEF AggInv, TableOf
  <2>2. PICK new : new = stats'[t][k]
    OBVIOUS
  <2>3. new = IF k # ip THEN old ELSE [old EXCEPT !.host = @ \/ host, !.geo = @ \/ geo]
    BY <1>1, <2>1, <2>2, Zenon
  <2>4. /\ new \in Accums /\ new.order = old.order /\ new.sent = old.sent
        /\ new.received = old.received /\ new.sum = old.sum /\ new.sumSq = old.sumSq
        /\ new.last = old.last /\ new.best = old.best /\ new.worst = old.worst
    BY <2>3 DEF Accums
  <2> QED
    BY <2>1, <2>2, <2>4, Zenon
<1>4. \A t \in TTLs : TableOf(stats'[t], log'[t])
  <2> TAKE t \in TTLs
  <2>1. TableOf(stats[t], log[t])
    BY DEF AggInv
  <2>2. Attributed(stats'[t], log[t])
    BY <1>2, <1>3, <2>1, Zenon DEF Attributed, TableOf
  <2>3. \A k \in DOMAIN stats'[t] :
          stats'[t][k] \in Accums /\ RowRight(stats'[t][k], Answered(Of(log[t], k)))
    <3> TAKE k \in DOMAIN stats'[t]
    <3>1. k \in DOMAIN stats[t] /\ RowRight(stats[t][k], Answered(Of(log[t], k)))
      BY <1>2, <2>1 DEF TableOf
    <3>2. PICK own : own = Answered(Of(log[t], k))
      OBVIOUS
    <3>3. PICK old, new : old = stats[t][k] /\ new = stats'[t][k]
      OBVIOUS
    <3>4. /\ new \in Accums /\ new.order = old.order /\ new.sent = old.sent
          /\ new.received = old.received /\ new.sum = old.sum /\ new.sumSq = old.sumSq
          /\ new.last = old.last /\ new.best = old.best /\ new.worst = old.worst
      BY <1>3, <3>1, <3>3
    <3>5. RowRight(new, own)
      <4>1. RowRight(old, own)
        BY <3>1, <3>2, <3>3
      <4> QED
        BY <3>4, <4>1, Zenon DEF RowRight
    <3> QED
      BY <3>2, <3>3, <3>4, <3>5
  <2> QED
    BY <1>1, <2>2, <2>3 DEF TableOf
<1>5. OrdersApart'
  <2>1. OrdersApart
    BY DEF AggInv
  <2> QED
    <3> SUFFICES ASSUME NEW t \in TTLs, NEW s \in TTLs,
                        NEW k \in DOMAIN stats'[t], NEW j \in DOMAIN stats'[s]
                 PROVE  /\ stats'[t][k].order < nextOrder'
                        /\ stats'[t][k].order = stats'[s][j].order => t = s /\ k = j
      BY Zenon DEF OrdersApart
    <3>1. k \in DOMAIN stats[t] /\ j \in DOMAIN stats[s]
      BY <1>2
    <3>2. stats'[t][k].order = stats[t][k].order /\ stats'[s][j].order = stats[s][j].order
      BY <1>3, <3>1
    <3>3. /\ stats[t][k].order < nextOrder
          /\ stats[t][k].order = stats[s][j].order => t = s /\ k = j
      BY <2>1, <3>1 DEF OrdersApart
    <3> QED
      BY <1>1, <3>2, <3>3
<1> QED
  BY <1>1, <1>4, <1>5 DEF AggInv

LEMMA AggInvariant == AggSpec => []AggInv
<1>1. AggInit => AggInv
  <2> SUFFICES ASSUME AggInit PROVE AggInv
    OBVIOUS
  <2>1. MaxUpdates \in Nat
    BY AggregatorAssumption DEF AggregatorAssumption
  <2>2. /\ stats = [t \in TTLs |-> << >>] /\ log = [t \in TTLs |-> {}] /\ nextOrder = 0
        /\ bound = [updates |-> 0, resets |-> 0]
    BY DEF AggInit
  <2>3. \A t \in TTLs : /\ Logged(log[t]) /\ \A a \in log[t] : a.update < bound.updates
                        /\ TableOf(stats[t], log[t])
    BY <2>1, <2>2, EmptyTable
  <2>4. OrdersApart
    BY <2>2 DEF OrdersApart
  <2> QED
    BY <2>1, <2>2, <2>3, <2>4 DEF AggInv
<1>2. AggInv /\ [AggNext]_aggVars => AggInv'
  <2> SUFFICES ASSUME AggInv, [AggNext]_aggVars PROVE AggInv'
    OBVIOUS
  <2>1. CASE \E res \in [TTLs -> Batches] : Update([t \in TTLs |-> Numbered(t, res[t])])
    BY <2>1, UpdateKeeps
  <2>2. CASE ResetStats
    BY <2>2, ResetKeeps
  <2>3. CASE \E t \in TTLs : ClearHop(t)
    BY <2>3, ClearKeeps
  <2>4. CASE \E ip \in Peers : PatchMetadataByIP(ip, TRUE, FALSE)
    BY <2>4, PatchKeeps
  <2>5. CASE \E ip \in Peers : PatchMetadataByIP(ip, FALSE, TRUE)
    BY <2>5, PatchKeeps
  <2>6. CASE UNCHANGED aggVars
    BY <2>6 DEF aggVars, AggInv, OrdersApart
  <2> QED
    BY <2>1, <2>2, <2>3, <2>4, <2>5, <2>6 DEF AggNext
<1> QED
  BY <1>1, <1>2, PTL DEF AggSpec

\* The columns of the MTR table are those of a reference computation over all the attempts.
THEOREM TableExact == AggSpec => []StatisticsExact
<1>1. AggInv => StatisticsExact
  <2> SUFFICES ASSUME AggInv PROVE StatisticsExact
    OBVIOUS
  <2>1. AttributionExact
    <3> SUFFICES ASSUME NEW t \in TTLs PROVE Attributed(stats[t], log[t])
      BY Zenon DEF AttributionExact, Attributed, SentOn, Late, Early
    <3> QED
      BY DEF AggInv, TableOf
  <2>2. RttExact
    <3> SUFFICES ASSUME NEW t \in TTLs, NEW k \in DOMAIN stats[t], k # Unknown
                 PROVE  /\ RowRight(stats[t][k], Of(log[t], k)) /\ Of(log[t], k) # {}
      BY Zenon DEF RttExact, RowRight
    <3>1. TableOf(stats[t], log[t])
      BY DEF AggInv
    <3>2. Answered(Of(log[t], k)) = Of(log[t], k)
      BY DEF Answered, Of, mtrHopKey
    <3>3. k \in PeersIn(log[t])
      BY <3>1 DEF TableOf, Attributed
    <3>4. Of(log[t], k) # {}
      BY <3>3 DEF PeersIn, KeysOf, Of
    <3> QED
      BY <3>1, <3>2, <3>4 DEF TableOf
  <2> QED
    BY <2>1, <2>2 DEF StatisticsExact
<1> QED
  BY <1>1, AggInvariant, PTL

\* Every row has its type, and no two rows ever share an order number (nextOrder).
THEOREM AggregatorTyped == AggSpec => []AggTypeOK
<1>1. AggInv => AggTypeOK
  <2> SUFFICES ASSUME AggInv PROVE AggTypeOK
    OBVIOUS
  <2>1. ASSUME NEW t \in TTLs
        PROVE  /\ DOMAIN stats[t] \subseteq HopKeys
               /\ \A k \in DOMAIN stats[t] : stats[t][k] \in Accums
    <3>1. Logged(log[t]) /\ TableOf(stats[t], log[t])
      BY DEF AggInv
    <3>2. PeersIn(log[t]) \subseteq HopKeys /\ Unknown \in HopKeys
      BY <3>1 DEF Logged, NumberedAttempts, PeersIn, KeysOf, mtrHopKey, HopKeys
    <3> QED
      BY <3>1, <3>2 DEF TableOf, Attributed
  <2>2. DOMAIN stats = TTLs /\ nextOrder \in Nat /\ OrdersApart
    BY DEF AggInv
  <2> QED
    BY <2>1, <2>2 DEF AggTypeOK, OrdersApart
<1> QED
  BY <1>1, AggInvariant, PTL
=============================================================================
