----------------------------- MODULE GeoLookup -----------------------------
(***************************************************************************)
(* How the hops of a trace get their location (trace/trace.go,             *)
(* trace/geo_lookup.go, ipgeo/leo.go, ipgeo/nexttrace_api_v4.go).          *)
(*                                                                         *)
(* Every recorded hop starts a goroutine that looks its address up: in the *)
(* cache, then through a shared flight per query, a few times.  A flight   *)
(* asks the LeoMoe service, over the one WebSocket connection of the       *)
(* process or by HTTP with the API v4, or another provider.  One receive   *)
(* loop hands the answers of the WebSocket to a pool of channels, one per  *)
(* address; connections break and are replaced under it.  The trace waits  *)
(* for its hops, then marks what is still pending as timed out.            *)
(*                                                                         *)
(* Data: a location is "data"; "error" is the answer the client makes up   *)
(* when it is not connected, which reads as a location.  A query is an     *)
(* address with or without the host name (DN42).                           *)
(***************************************************************************)
EXTENDS ApiV4

CONSTANTS
  Hops,        \* hops of the trace, and lookups made outside of one
  Addrs,       \* addresses
  Reserved,    \* those ipgeo.Filter answers by itself
  Cases,       \* traces: their options and the address of each hop
  MaxConns,    \* bound of the model: connections made
  MaxMsgs      \* bound of the model: answers waiting in a connection

ASSUME GeoAssumption ==
  /\ Reserved \subseteq Addrs
  /\ Cases \subseteq [source : {"nil", "ws", "v4", "other"}, dn42 : BOOLEAN,
                      rdns : BOOLEAN, addr : [Hops -> Addrs],
                      direct : SUBSET Hops, retries : 0 .. 5]
  /\ {MaxConns, MaxMsgs} \subseteq Nat \ {0}

Conns == 1 .. MaxConns
Queries == Addrs \X BOOLEAN
Absent == "none"

VARIABLES
  opts,      \* Config: IPGeoSource, DN42, RDNS, retries; who looks what up
  hop,       \* the goroutine of a hop and its row in the Result
  trace,     \* [pc, geoCanceled, ctxDone]
  geoCache,  \* query |-> location
  flight,    \* ipGeoSF: query |-> the call under way
  pool,      \* IPPools: address |-> location in its channel
  ws,        \* [cur, state, sent, recv]: the connections
  loop       \* [pc, conn, running, restart]: the receive loop

geoVars == <<opts, hop, trace, geoCache, flight, pool, ws, loop, api>>

Idle == [pc |-> "none", host |-> FALSE, try |-> 0, got |-> Absent, row |-> Absent]
NoFlight == [pc |-> "none", conn |-> 0, timeout |-> 0, v4 |-> NoCall]

GeoInit ==
  /\ opts \in Cases
  /\ hop = [h \in Hops |-> Idle]
  /\ trace = [pc |-> IF opts.direct = Hops THEN "returned" ELSE "tracing", 
               geoCanceled |-> FALSE, ctxDone |-> FALSE]
  /\ geoCache = [q \in Queries |-> Absent]
  /\ flight = [q \in Queries |-> NoFlight]
  /\ pool = [a \in Addrs |-> Absent]
  /\ ws = [cur |-> 0, state |-> [c \in Conns |-> "none"],
           sent |-> [c \in Conns |-> <<>>], recv |-> [c \in Conns |-> <<>>]]
  /\ loop = [pc |-> "off", conn |-> 0, running |-> FALSE, restart |-> FALSE]
  /\ InitApi

Query(h) == <<opts.addr[h], opts.dn42 /\ hop[h].host>>

-----------------------------------------------------------------------------
(* The goroutine of a hop.                                                 *)

\* addWithGeoAsync: the hop is in the Result, its location pending.
AddHop(h) ==
  /\ h \notin opts.direct /\ hop[h].pc = "none" /\ trace.pc = "tracing"
  /\ opts.source # "nil" \/ opts.rdns
  /\ hop' = [hop EXCEPT ![h] = [Idle EXCEPT !.pc = "start",
               !.row = IF opts.source = "nil" THEN Absent ELSE "pending"]]
  /\ UNCHANGED <<opts, trace, geoCache, flight, pool, ws, loop, api>>

\* LookupIPGeo: a caller outside of a trace, which filters first.
LookupIPGeo(h) ==
  /\ h \in opts.direct /\ hop[h].pc = "none" /\ opts.source # "nil" /\ ~ opts.dn42
  /\ hop' = [hop EXCEPT ![h].pc = IF opts.addr[h] \in Reserved THEN "done" ELSE "cache"]
  /\ geoCache' = IF opts.addr[h] \in Reserved
                 THEN [geoCache EXCEPT ![Query(h)] = "data"] ELSE geoCache
  /\ UNCHANGED <<opts, trace, flight, pool, ws, loop, api>>

\* fetchIPData up to the lookup: DN42 looks the host name up first, and does
\* not filter; otherwise the two lookups run side by side.
FetchIPData(h, named) ==
  /\ hop[h].pc = "start"
  /\ named => opts.rdns
  /\ LET known == opts.addr[h] \in Reserved /\ ~ opts.dn42
     IN  hop' = [hop EXCEPT ![h].host = named,
                            ![h].got = IF known /\ opts.source # "nil" THEN "data" ELSE Absent,
                            ![h].pc = IF opts.source = "nil" \/ known THEN "load" ELSE "cache"]
  /\ UNCHANGED <<opts, trace, geoCache, flight, pool, ws, loop, api>>

\* A lookup ends with a location, or as timed out.
Got(h, geo) == [hop EXCEPT ![h].got = geo,
                           ![h].pc = IF h \in opts.direct THEN "done" ELSE "load"]

\* lookupGeoWithRetry: the cache is read once, before the tries.
ReadGeoCache(h) ==
  /\ hop[h].pc = "cache"
  /\ hop' = IF geoCache[Query(h)] # Absent
            THEN Got(h, geoCache[Query(h)])
            ELSE [hop EXCEPT ![h].pc = "try"]
  /\ UNCHANGED <<opts, trace, geoCache, flight, pool, ws, loop, api>>

\* The context of a direct lookup is its caller's, not the trace's.
Stopped(h) == h \notin opts.direct /\ trace.ctxDone

FirstStep == [ws |-> "drain", v4 |-> "v4", other |-> "other"]

\* One try: join the flight of the query, or be the one that starts it.
StartTry(h) ==
  /\ hop[h].pc = "try"
  /\ IF Stopped(h)
     THEN hop' = Got(h, "timeout") /\ UNCHANGED flight
     ELSE /\ hop' = [hop EXCEPT ![h].pc = "wait"]
          /\ flight' =
               IF flight[Query(h)].pc # "none"
               THEN flight
               ELSE [flight EXCEPT ![Query(h)] =
                       [NoFlight EXCEPT !.pc = FirstStep[opts.source], !.v4 = NewCall,
                                        !.timeout = hop[h].try]]
  /\ UNCHANGED <<opts, trace, geoCache, pool, ws, loop, api>>

\* The next try, or none.
AfterFailure(h) ==
  IF hop[h].try < opts.retries /\ ~ Stopped(h)
  THEN [hop EXCEPT ![h].pc = "try", ![h].try = @ + 1]
  ELSE Got(h, "timeout")

\* The try's own time, or the trace's context, is over. The flight goes on,
\* and the next try may join it.
TryTimesOut(h) ==
  /\ hop[h].pc = "wait"
  /\ hop' = AfterFailure(h)
  /\ UNCHANGED <<opts, trace, geoCache, flight, pool, ws, loop, api>>

\* Load, then update if the trace does not give up in between: the check of
\* geoCanceled and updateHop are two steps.
CheckCanceled(h) ==
  /\ hop[h].pc = "load"
  /\ hop' = [hop EXCEPT ![h].pc = IF trace.geoCanceled THEN "dropped" ELSE "update"]
  /\ UNCHANGED <<opts, trace, geoCache, flight, pool, ws, loop, api>>

UpdateHop(h) ==
  /\ hop[h].pc = "update"
  /\ hop' = [hop EXCEPT ![h].pc = "done",
                        ![h].row = IF hop[h].got = Absent THEN @ ELSE hop[h].got]
  /\ UNCHANGED <<opts, trace, geoCache, flight, pool, ws, loop, api>>

-----------------------------------------------------------------------------
(* The trace.                                                              *)

\* Mutant: every row is marked, not only the pending ones.
MarkPending_All(S) ==
  [h \in Hops |-> IF h \in S /\ hop[h].row # Absent
                  THEN [hop[h] EXCEPT !.row = "timeout"] ELSE hop[h]]

\* markPendingGeoTimeout, markAllPendingGeoTimeout.
MarkPending(S) ==
  [h \in Hops |-> IF h \in S /\ hop[h].row = "pending"
                  THEN [hop[h] EXCEPT !.row = "timeout"] ELSE hop[h]]

\* waitGeo: the printer has waited long enough for the hop's group.
WaitGeoOver(h) ==
  /\ trace.pc = "tracing" /\ hop[h].row = "pending"
  /\ hop' = MarkPending({h})
  /\ UNCHANGED <<opts, trace, geoCache, flight, pool, ws, loop, api>>

ContextDone ==
  /\ ~ trace.ctxDone /\ trace.pc # "returned"
  /\ trace' = [trace EXCEPT !.ctxDone = TRUE]
  /\ UNCHANGED <<opts, hop, geoCache, flight, pool, ws, loop, api>>

ExecuteReturns ==
  /\ trace.pc = "tracing"
  /\ trace' = [trace EXCEPT !.pc = "waiting"]
  /\ UNCHANGED <<opts, hop, geoCache, flight, pool, ws, loop, api>>

\* waitForPendingGeoData: all hops are done, or thirty seconds are over, or
\* the context is: the flag first, the rows after it.
GiveUpWaiting ==
  /\ trace.pc = "waiting"
  /\ trace' = [trace EXCEPT !.pc = "marking", !.geoCanceled = TRUE]
  /\ UNCHANGED <<opts, hop, geoCache, flight, pool, ws, loop, api>>

TracerouteReturns ==
  /\ trace.pc = "marking"
  /\ trace' = [trace EXCEPT !.pc = "returned"]
  /\ hop' = MarkPending(Hops)
  /\ UNCHANGED <<opts, geoCache, flight, pool, ws, loop, api>>

\* ClearCaches, at the request of a web client.
ClearCaches ==
  /\ geoCache' = [q \in Queries |-> Absent]
  /\ UNCHANGED <<opts, hop, trace, flight, pool, ws, loop, api>>

-----------------------------------------------------------------------------
(* A flight.                                                               *)

\* The flight is over: everyone who still waits has its outcome.
Land(q, outcome) ==
  /\ flight' = [flight EXCEPT ![q] = NoFlight]
  /\ hop' = [h \in Hops |->
               IF hop[h].pc = "wait" /\ Query(h) = q
               THEN [hop[h] EXCEPT !.pc = "answered", !.got = outcome] ELSE hop[h]]

\* The outcome reaches a caller: a location is cached, by each who waited.
TakeResult(h) ==
  /\ hop[h].pc = "answered"
  /\ IF hop[h].got = "fail"
     THEN hop' = AfterFailure(h) /\ UNCHANGED geoCache
     ELSE /\ hop' = Got(h, hop[h].got)
          /\ geoCache' = [geoCache EXCEPT ![Query(h)] = hop[h].got]
  /\ UNCHANGED <<opts, trace, flight, pool, ws, loop, api>>

\* LeoIP: a stale location is taken out of the channel of the address.
DrainStaleGeo(q) ==
  /\ flight[q].pc = "drain"
  /\ pool' = [pool EXCEPT ![q[1]] = Absent]
  /\ IF ws.cur = 0
     THEN Land(q, "fail")
     ELSE flight' = [flight EXCEPT ![q].pc = "connect", ![q].conn = ws.cur] /\ UNCHANGED hop
  /\ UNCHANGED <<opts, trace, geoCache, ws, loop, api>>

\* WaitUntilConnected of the connection read before; it may be closed by now.
WaitUntilConnected(q) ==
  /\ flight[q].pc = "connect"
  /\ ws.state[flight[q].conn] \in {"up", "closing", "closed"}
  /\ IF ws.state[flight[q].conn] = "up"
     THEN flight' = [flight EXCEPT ![q].pc = "send"] /\ UNCHANGED hop
     ELSE Land(q, "fail")
  /\ UNCHANGED <<opts, trace, geoCache, pool, ws, loop, api>>

\* sendIPRequest: into MsgSendCh, whatever became of the connection.
SendIPRequest(q) ==
  /\ flight[q].pc = "send"
  /\ Len(ws.sent[flight[q].conn]) < MaxMsgs
  /\ ws' = [ws EXCEPT !.sent[flight[q].conn] = Append(@, q[1])]
  /\ flight' = [flight EXCEPT ![q].pc = "receive"]
  /\ UNCHANGED <<opts, hop, trace, geoCache, pool, loop, api>>

\* Mutant: a loop that runs is left alone.
StartReceiveParse_NoRestart(q) ==
  /\ flight[q].pc = "receive"
  /\ loop' = IF loop.running
             THEN loop
             ELSE [pc |-> "top", conn |-> 0, running |-> TRUE, restart |-> FALSE]
  /\ flight' = [flight EXCEPT ![q].pc = "answer"]
  /\ UNCHANGED <<opts, hop, trace, geoCache, pool, ws, api>>

\* startReceiveParse: one loop, asked to look again if it is about to end.
StartReceiveParse(q) ==
  /\ flight[q].pc = "receive"
  /\ loop' = IF loop.running
             THEN [loop EXCEPT !.restart = TRUE]
             ELSE [pc |-> "top", conn |-> 0, running |-> TRUE, restart |-> FALSE]
  /\ flight' = [flight EXCEPT ![q].pc = "answer"]
  /\ UNCHANGED <<opts, hop, trace, geoCache, pool, ws, api>>

ReceiveGeo(q) ==
  /\ flight[q].pc = "answer" /\ pool[q[1]] # Absent
  /\ pool' = [pool EXCEPT ![q[1]] = Absent]
  /\ Land(q, pool[q[1]])
  /\ UNCHANGED <<opts, trace, geoCache, ws, loop, api>>

\* The time limit of LeoIP, wherever it waits.
LeoTimesOut(q) ==
  /\ flight[q].pc \in {"connect", "send", "answer"}
  /\ Land(q, "fail")
  /\ UNCHANGED <<opts, trace, geoCache, pool, ws, loop, api>>

\* LeoIPNextTraceAPIV4HTTP.
V4Prepare(q) ==
  /\ flight[q].pc = "v4"
  /\ \E found \in BOOLEAN : PrepareFastIP(flight[q].v4, found)
  /\ \E r \in Resolvers :
       flight' = [flight EXCEPT ![q].v4 = ReadCache(@, flight[q].timeout, r)]
  /\ UNCHANGED <<opts, hop, trace, geoCache, pool, ws, loop>>

V4Client(q) ==
  /\ flight[q].v4.pc = "insert"
  /\ InsertClient(flight[q].v4.key)
  /\ flight' = [flight EXCEPT ![q].v4.pc = "request"]
  /\ UNCHANGED <<opts, hop, trace, geoCache, pool, ws, loop>>

V4Lookup(q, outcome, stopped) ==
  LET after == AfterTry(flight[q].v4, outcome, stopped)
  IN  /\ flight[q].v4.pc = "request"
      /\ IF after = "again"
         THEN flight' = [flight EXCEPT ![q].v4.try = @ + 1] /\ UNCHANGED hop
         ELSE Land(q, after)
      /\ UNCHANGED <<opts, trace, geoCache, pool, ws, loop, api>>

\* The other providers: one request, a location or a failure.
OtherSource(q) ==
  /\ flight[q].pc = "other"
  /\ \E outcome \in {"data", "fail"} : Land(q, outcome)
  /\ UNCHANGED <<opts, trace, geoCache, pool, ws, loop, api>>

-----------------------------------------------------------------------------
(* The receive loop.                                                       *)

\* receiveParse reads the current connection; without one it returns.
ReceiveParse ==
  /\ loop.pc = "top"
  /\ loop' = [loop EXCEPT !.conn = ws.cur,
                          !.pc = IF ws.cur = 0 THEN "decide" ELSE "range"]
  /\ UNCHANGED <<opts, hop, trace, geoCache, flight, pool, ws, api>>

\* dispatchLeoMessage and deliverGeo: the newest location replaces an older
\* one nobody took.
DispatchLeoMessage ==
  /\ loop.pc = "range" /\ ws.recv[loop.conn] # <<>>
  /\ LET msg == Head(ws.recv[loop.conn])
     IN  pool' = [pool EXCEPT ![msg.addr] = msg.geo]
  /\ ws' = [ws EXCEPT !.recv[loop.conn] = Tail(@)]
  /\ UNCHANGED <<opts, hop, trace, geoCache, flight, loop, api>>

\* The channel is closed and empty: on to the next connection, if any.
ReceiveParseConnEnds ==
  /\ loop.pc = "range" /\ ws.recv[loop.conn] = <<>> /\ ws.state[loop.conn] = "closed"
  /\ loop' = [loop EXCEPT !.pc = IF ws.cur # loop.conn THEN "top" ELSE "decide"]
  /\ UNCHANGED <<opts, hop, trace, geoCache, flight, pool, ws, api>>

\* runReceiveParseLoop decides, under the mutex, to look again or to end.
RunReceiveParseLoop ==
  /\ loop.pc = "decide"
  /\ loop' = IF loop.restart
             THEN [loop EXCEPT !.pc = "top", !.restart = FALSE]
             ELSE [loop EXCEPT !.pc = "off", !.running = FALSE]
  /\ UNCHANGED <<opts, hop, trace, geoCache, flight, pool, ws, api>>

-----------------------------------------------------------------------------
(* The connections, as the lookups see them (WsClient has the detail).     *)

\* NewWithContext: a first connection, or a new one for one that is down and
\* not being rebuilt; the old one is closed after the exchange.
ReplaceConn(c) ==
  /\ opts.source = "ws"
  /\ ws.state[c] = "none" /\ \A d \in Conns : d < c => ws.state[d] # "none"
  /\ ws.cur # 0 => ws.state[ws.cur] \in {"down", "closing", "closed"}
  /\ \A d \in Conns : ws.state[d] # "replaced"
  /\ \E up \in {"up", "down"} :
       ws' = [ws EXCEPT !.cur = c,
                        !.state = [d \in Conns |->
                          IF d = c THEN up
                          ELSE IF d = ws.cur /\ @[d] = "down" THEN "replaced" ELSE @[d]]]
  /\ UNCHANGED <<opts, hop, trace, geoCache, flight, pool, loop, api>>

\* Close: by whoever replaced it, or with the context it was made for. Its
\* receive channel is closed when its goroutines have ended; what was in its
\* send channel is not sent any more.
CloseConn(c) ==
  /\ ws.state[c] \in {"up", "down", "replaced", "closing"}
  /\ ws' = [ws EXCEPT !.state[c] = IF @ = "closing" THEN "closed" ELSE "closing",
                      !.sent[c] = <<>>]
  /\ UNCHANGED <<opts, hop, trace, geoCache, flight, pool, loop, api>>

BreakConn(c) ==
  /\ ws.state[c] \in {"up", "down"}
  /\ ws' = [ws EXCEPT !.state[c] = IF @ = "up" THEN "down" ELSE "up"]
  /\ UNCHANGED <<opts, hop, trace, geoCache, flight, pool, loop, api>>

\* sendQueuedMessage and the service: a request is answered, or lost; without
\* a connection the client answers it itself, if its channel has room.
AnswerRequest(c, answered) ==
  /\ ws.sent[c] # <<>> /\ ws.state[c] \in {"up", "down", "replaced"}
  /\ answered => Len(ws.recv[c]) < MaxMsgs
  /\ LET geo == IF ws.state[c] = "up" THEN "data" ELSE "error"
     IN  ws' = [ws EXCEPT !.sent[c] = Tail(@),
                          !.recv[c] = IF answered
                                      THEN Append(@, [addr |-> Head(ws.sent[c]), geo |-> geo])
                                      ELSE @]
  /\ UNCHANGED <<opts, hop, trace, geoCache, flight, pool, loop, api>>

-----------------------------------------------------------------------------
HopStep(h) ==
  \/ AddHop(h) \/ LookupIPGeo(h)
  \/ \E named \in BOOLEAN : FetchIPData(h, named)
  \/ ReadGeoCache(h) \/ StartTry(h) \/ TryTimesOut(h) \/ TakeResult(h)
  \/ CheckCanceled(h) \/ UpdateHop(h) \/ WaitGeoOver(h)

FlightStep(q) ==
  \/ DrainStaleGeo(q) \/ WaitUntilConnected(q) \/ SendIPRequest(q)
  \/ StartReceiveParse(q) \/ ReceiveGeo(q) \/ LeoTimesOut(q)
  \/ V4Prepare(q) \/ V4Client(q) \/ OtherSource(q)
  \/ \E outcome \in Outcomes, stopped \in BOOLEAN : V4Lookup(q, outcome, stopped)

TraceStep ==
  ContextDone \/ ExecuteReturns \/ GiveUpWaiting \/ TracerouteReturns \/ ClearCaches

LoopStep ==
  ReceiveParse \/ DispatchLeoMessage \/ ReceiveParseConnEnds \/ RunReceiveParseLoop

ConnStep(c) ==
  \/ ReplaceConn(c) \/ CloseConn(c) \/ BreakConn(c)
  \/ \E answered \in BOOLEAN : AnswerRequest(c, answered)

GeoNext ==
  \/ \E h \in Hops : HopStep(h)
  \/ \E q \in Queries : FlightStep(q)
  \/ \E c \in Conns : ConnStep(c)
  \/ TraceStep
  \/ LoopStep

GeoSpec == GeoInit /\ [][GeoNext]_geoVars

-----------------------------------------------------------------------------
\* Types.
GeoTypeOK ==
  /\ opts \in Cases
  /\ \A h \in Hops : hop[h].row \in {Absent, "pending", "timeout", "data", "error"}
  /\ \A a \in Addrs : pool[a] \in {Absent, "data", "error"}
  /\ ws.cur \in 0 .. MaxConns
  /\ loop.pc \in {"off", "top", "range", "decide"}

\* A lookup that waits for an answer on the connection in use has a receive
\* loop that reads that connection or will come to it: the loop never ends,
\* nor stays with a connection nobody closes, while such a lookup waits.
ReceiverServes ==
  \A q \in Queries :
    flight[q].pc = "answer" /\ flight[q].conn = ws.cur /\ ws.state[ws.cur] = "up" =>
      \/ loop.pc = "top"
      \/ loop.pc = "range" /\ (loop.conn = ws.cur \/ ws.state[loop.conn] # "up")
      \/ loop.pc = "decide" /\ loop.restart

\* A row shows what its lookup found from the moment the lookup has ended,
\* and keeps it, though the printer and the end of the trace mark pending
\* rows in the meantime; no row is pending once Traceroute has returned; only
\* the end of the trace makes a lookup drop what it found.
RowsSettled ==
  \A h \in Hops \ opts.direct :
    /\ hop[h].pc = "done" /\ opts.source # "nil" => hop[h].row = hop[h].got
    /\ trace.pc = "returned" => hop[h].row # "pending"
    /\ hop[h].pc = "dropped" => trace.pc \in {"marking", "returned"}
=============================================================================
