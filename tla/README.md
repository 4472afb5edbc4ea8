# NextTrace in TLA+

NextTrace (`src/`) is a visual traceroute. This directory holds TLA+ models of
the parts of it that are hard to get right - goroutines, channels, timeouts,
resets, late answers - with the TLC configurations that check them and TLAPS
proofs of what matters most. `PROJECT.json` maps every definition to the lines
it models.

## 1. The system

| Part | State it keeps | Operations | Hard because |
|---|---|---|---|
| MTR per-hop scheduler, `trace/mtr_scheduler*.go` | per-hop counters, generation, known final TTL, in-flight counters | one `select` loop: results, metadata, ticks, cancel | probe goroutines answer late, across resets, after the hop was disabled or the loop has gone |
| MTR metadata lookups, same file and `trace/mtr_metadata.go` | in-flight maps, attempts, cooldowns, cache, per kind and address | launch, retry, patch, DN42 ordering, reset | goroutines of an old generation, two kinds of lookup that depend on each other |
| MTR aggregator, `trace/mtr_stats*.go` | rows per TTL and peer | Update, ClearHop, PatchMetadataByIP, Reset | unknown replies merged into known peers must conserve counts |
| MTR ICMP engine, `trace/mtr_runner.go` | 16-bit sequence counter, round, notify channels | ProbeTTL, probeRound, onICMP, reset, rotate | sequence wrap, replies of an older round |
| MTR loop of rounds, `trace/mtr_loop_runtime.go`, `mtr_raw.go` | round, backoff, statistics | round, preview, reset, pause | replies of the last round, previews of an unfinished one |
| Classic tracers, `trace/{icmp,tcp,udp}_ipv{4,6}.go`, and `Result`, `trace/trace.go` | pending and sent maps, match queue, final TTL, hops | dispatcher, launchers, senders, timeouts, listeners, matcher, printer | about one goroutine per probe and two more; reply and timeout race |
| Geo lookups of a result, `trace/trace.go`, `trace/geo_lookup.go` | rows, cache, single flights, cancelled flag | start, update, wait, mark | late answers race with the end of the wait |
| LeoMoe client and pool, `wshandle/client.go`, `ipgeo/leo.go` | connection, state flags, per-address channels, one receive loop | send, receive, keep-alive, reconnect, close | four goroutines share a connection that is replaced under them |
| NextTrace API v4, `ipgeo/nexttrace_api_v4.go` | bounded cache of clients, preferred address | lookup with retries | double-checked locking, eviction |
| Path MTU discovery, `trace/mtu` | probe size, path MTU | probe, retry, shrink | local and remote limits in any order |
| Web server sessions, `server/ws_handler.go` | session with bounded send queue | send, finish, close | both ends may close |
| Requests, `server/trace_handler.go`, `server/mcp.go`, `internal/service` | one lock, the proof-of-work setting, the resolver scope | eleven kinds of request | process-wide settings of one request seen by another; waiting that cannot be cancelled |
| Resolver for geo lookups, `util/dns_resolver.go` | the resolver in effect, a counted scope | open and close a scope | nested and overlapping scopes of traces and of the lookups they start |
| Command line, `cmd/` | flags, deferred clean-ups, signal contexts | parse, validate, choose a mode, exit | many early returns, conflicts, signals at any point |
| Standard input, fast trace, nali, Globalping, MTR keyboard | a shared line reader; a label cache; a poll; a byte parser | prompts, targets, lines, keys | input that ends or never comes while the process is interrupted |
| Speed test, `internal/speedtest` | rounds, workers, event bus | discover, measure, transfer, render | four kinds of goroutine to join, caps and deadlines |
| Printers, packet I/O, HTTP providers, files | little or none | | formatting, byte layouts and I/O |

How they interact. `cmd/` and `server/` (through `internal/service`) build a
`trace.Config` and run either a classic tracer, whose `Result` the printers
poll, or the MTR scheduler, which calls a prober (`ProbeTTL`) in one goroutine
per probe, feeds the aggregator and hands snapshots to the terminal UI or to a
WebSocket session. Both use `ipgeo` sources for locations; the LeoMoe source goes
through a shared WebSocket client. The keyboard (`cmd/mtr_ui.go`) reaches the
scheduler only through `IsPaused`, `IsResetRequested` and the context.

What makes each correct, in a line: the scheduler's counters agree with the
goroutines that exist and with what is displayed, and the run ends; the lookups
are tracked exactly, none crosses a reset, none is retried for ever; the tracer
uses every attempt once, with its own answer, fills every TTL with exactly N
entries and returns; the aggregator conserves the probes it is told of; the engine
never gives a call the answer to another call's packet; a round counts once and
only what it measured; every row ends with its location or with the mark that
there is none; MTU discovery reports the MTU of the path; the client has one live
connection while open; a session closes once and loses nothing that was queued
before; a request runs with its own settings and leaves none behind; the mode that
runs is the one asked for, and an interrupt ends it.

## 2. Modules

| Module | Models | Size of the instance checked |
|---|---|---|
| `MTRScheduler` (`MCMTRScheduler`, `MTRSchedulerProofs`) | scheduler loop and its probe goroutines | 2 hops, 2 slots, 2 probes per hop, 1 reset |
| `MTRMetadata` (`MCMTRMetadata`, `MTRProofs`) | metadata lookups of the scheduler | 1 address, 2 kinds, 3 tries, 1 slot, 1 reset |
| `MTRICMPEngine` (`MCHopData`, `MCMTRICMPEngine`, `HopDataProofs`) | concurrent `ProbeTTL` over one socket, rotation, reset | 3 calls, 2 sequence numbers, 1 rotation, 1 reset |
| `MTRAggregator` (`MCHopData`, `HopDataProofs`) | the statistics behind the MTR table | 1 hop with 2 peers, 2 results of up to 2 attempts, 1 clear |
| `GeoLookup`, `ApiV4` (`MCHopData`, `HopDataProofs`) | locations of a trace's hops, the LeoMoe pool, the API v4 client | 2 hops, 3 addresses, 2 connections, a cache of 1 client |
| `MTRRounds`, `MTRRun` (`MCMTRRounds`, `MTRProofs`) | MTR by rounds, and what it promises | 2 hops, 2 rounds, 2 path lengths, numbers that wrap, 1 reset |
| `Tracer` (`MCTracer`, `TracerProofs`) | the six classic tracers and `Result.add` | ten traces of 1-2 TTLs, five more for liveness with up to 3 |
| `MTUDiscovery` (`MCMTUDiscovery`, `MTUDiscoveryProofs`) | path MTU discovery on a path | up to 3 links, 4 sizes |
| `WsClient` (`MCWsClient`, `WebSocketProofs`) | one LeoMoe WebSocket connection with its goroutines | 2 connections, queues of 1 |
| `WsSession` (`MCWsSession`, `WebSocketProofs`) | one session of the web server | queue of 2, 2 records |
| `GeoDNSScope`, `Requests` (`MCRequests`, `RequestsProofs`) | the process-wide geo resolver; the requests that share it | 2 requests with a lookup each, 7 pairs of kinds |
| `Cli`, `Nali`, `FastTrace`, `Globalping`, `MtrUI`, `SpeedTest`, `Process` (`MCProcess`, `ProcessProofs`) | the process from its flags to its exit | every pair of 38 flags and four longer command lines |

How they are put together. `Requests` extends `GeoDNSScope`: its requests are the
goroutines of the scope, so the resolver is checked as the requests use it, and
that the composition implements the scope is a theorem (`RequestsUseScopes`). `GeoLookup` extends
`ApiV4`, whose operators are the HTTP branch of a flight. `Process` composes `Cli`
with the modes it hands over to; a mode moves only while `Cli` says it runs, and
ends the process through `Return` or `OsExit`. `MTRRounds` implements `MTRRun`
(`TableSpec`). `MCHopData` puts engine, statistics and locations side by side: they
share no state, so each behaviour is one of one of them, and one run covers the
three. Otherwise the modules meet where the code does: `agg` of `MTRScheduler` is the
part of `MTRAggregator` it depends on, its probe goroutines are the calls of
`MTRICMPEngine`, the connection that `GeoLookup` finds up or down is the one of
`WsClient`, and the generation that keeps a late probe out is what makes the
engine's weaker promise about resets (section 4) harmless.

### MTRScheduler

`rt` is the runtime struct of `newMTRSchedulerRuntime`: `states` (the
`mtrHopState` array), `generation`, `knownFinalTTL`, `inFlight`, the set `probes`
of goroutines whose result has not been received, and `agg`, the two facts the
properties need of the aggregator (probes counted, destination seen). `metaBusy`
stands for the two in-flight maps `isDone` looks at. Handlers are operators from
a runtime record to a runtime record, named as in the code (`ProcessResult`,
`DetectDestination`, `ProcessProbeError`, `ScheduleReady`, ...), and the actions
`OnResult`, `OnMetadata`, `OnTick`, `OnCancel` compose them in the order of the
`select` cases of `run`. `Init` is the state after the first `scheduleReady`.
Time: `nextAt` is a flag `due` that an action of the environment raises; the
drain deadline may fire at any moment. Data: an outcome is one of error, timeout,
router and destination.

### MTRMetadata

`md` holds the metadata fields of the same struct, `lookups` the goroutines of
`runMetadataLookup` with where they are (waiting for a slot, looking up,
sending), `metadataCh` the buffered patches. Go's `select` between a channel and
a cancelled context picks either, hence both `SendPatch` and `Abandon` of a
cancelled lookup. A geo record is "none", "ip" or "named": whether the query
carried the host name is what the DN42 rule is about. Answers of probes
(`Answer`), the erasing of a row (`ClearHop`), the clock (`CooldownOver`), the
user's `Reset` and the `End` of the run come at any time: the scheduler's own
rules for them are the subject of `MTRScheduler`.

### Tracer

`cfg` is the normalised configuration, the method included; `tr` the trace as a
whole; `att` the send and timeout goroutine of every attempt; `pending`, `sentAt`,
`matchQ`, `hops` the maps of the code; `adding` the replies a worker has claimed;
`out` the packets a macOS capture has still to see. `AddHop` is `Result.add` with its
audit of the N-th entry. The six files share every step but the section
"Matching": ICMP finds an attempt by sequence number, TCP by port and
acknowledgement, UDP by port and number or, on macOS, by the order of captured
packets. `waitAllReady` counts receptions from channels that are closed, so one
listener may count for two; replies before a listener is up are lost. Steps are as
fine as the shared accesses: claiming an attempt (`Match`, `Timeout`) and adding the
hop (`AddReply`, `AddTimeout`) are separate, as are the send and its `storeSent`. The
network answers any sent attempt, any number of times, before or after
`storeSent`, from the router or (at or beyond one of `dists`) the destination. `span` is
the number of values of the index field of a sequence number, 256 in the code.

### MTRAggregator

`stats[ttl][key]` is the map of accumulators. Every exported operation holds
`agg.mu` throughout, so each is one action. `Update` keeps the code's phases:
group the attempts by key, give new rows their order, merge each group into its row,
and then let the row of the timeouts join the path's row if there is exactly one.
Go's random map order is a choice. `log` is a history variable: the attempts of a TTL
since it was cleared, on which the reference definition of the table is written. They
are a set, numbered in the order they came, so that "the last answer" has a
meaning; a sum of times is the number of units it is made of. Two cases of the code
are left out: an attempt with a host name and no address (`mtr_stats.go:258`), which no
prober makes as names are looked up by address; and an RTT of 0, which only a coarse
clock reports. So the guards `rttMs > 0` and `best > 0` of `mtr_stats_helpers.go` always
hold here.

### GeoLookup and ApiV4

Every hop of a trace has a goroutine (`hop`) that looks in `geoCache`, joins or starts
the `flight` of its query, retries, and writes its row unless `geoCanceled`; lookups
outside a trace (`direct`) share all of it. A flight over the WebSocket drains the
channel of its address (`pool`), sends and waits; `loop` is the one receive loop with
its restart flag; connections (`ws`) break and are replaced at any time, and answers
may come late, twice or never. A flight over HTTP goes through `ApiV4`: preferred
address, client cache (read lock, then write lock with a second look), tries. The
trace waits per TTL (`waitGeo`) and at its end (`waitForGeo`), then cancels and marks.

### MTRRounds and MTRRun

`loop` is the loop with its errors and backoff, `eng`, `maps` and `notify` the engine
as `probeRound` uses it, `cand` the calls of `onICMP` between their unlock and
`updateRoundFinalTTL`, `raw` the per-round goroutine of raw mode, `agg` the rounds the
statistics are made of and `shown` how many of them the reader saw last. The
sequence counter wraps within the run. `MTRRun` is the abstract run: count, preview,
reset, cancel, end, and a cancelled run ends.

### Requests

A request is the sequence of tokens it has still to do: authenticate, prepare, lock,
set and restore the proof-of-work provider, enter and leave a resolver scope, open
the LeoMoe connection, run, make a map, answer. `Begin` and `End` give the sequence
of each kind in the order of the code (and so which parts are under the lock). Opening
the connection is one step: that closing the client it replaces returns is assumed,
although it may wait for a silent server (section 4). `Cli` assumes the same of its
deferred close.
Clients leave and durations pass at any time. The trace itself is one step whose
outcomes are those of the other modules.

### Cli and Process

`cli` is where `Execute` is, the flags that still matter, the clean-ups it holds and
what it printed; one action per block of `Execute`. `OsExit` skips deferred calls,
`Return` runs them. A command line is a set of flags. `Nali`, `FastTrace`, `Globalping`,
`MtrUI` and `SpeedTest` add the state of their mode: the ring of labels; the menu and
the process-wide reader of standard input; the measurement that is polled, by the
command line or the MCP tool; the byte parser of the MTR screen with the settings it
changes; the goroutines of the speed test with their event bus, and the one that reads
the answer to its prompt (`aux.reader`).

### MTRICMPEngine

`call` holds where each `ProbeTTL` is and its locals; `sentAt`, `replied` and
`probeNotify` are the maps under `mu`, `spec` and `echoID` the fields `sendProbe`
reads under no lock. Each region between two lock operations and each unprotected
read is a step. A packet names the call that sent it, and so does an answer; that
is how `RightReply` can tell. A rotation draws any identifier, may pass calls that
have one of the last numbers and have not sent (`passed` remembers them), and may
fail because the context is done or the listener is late.

### MTUDiscovery

The path is part of the state: `Init` chooses a length and the MTU of every link.
Routers are honest - a size they report is the MTU of the link they could not use
- but may be silent, late, or leave the size out; the system may refuse a packet
at once and may or may not know the size. `ttl`, `attempt`, `probeMTU`, `pathMTU`
and `cur` are the loop's variables, `late` the answers whose probe has timed out.
Probes are told apart by token and destination port, both of which wrap
(`Tokens`, `Ports`).

### WsClient

`st` holds the flags `Connected`, `Connecting`, `Exit` and the current connection
and `Done`; every goroutine the client starts is there with its position: the
dialers (`recreateWsConn` and the first dial), one receiver per connection, the
sender, the write loop, `Close` itself. A receiver looks at `closeCh`, at
`Connected` and at the connection in three steps (`ReceiverPasses`, `ReceiverChecks`,
`ReceiverTakesConn`), between which all others may run. Connections are numbered by
dial. A read or a write fails when its connection is closed or the network says so.

### WsSession

One session: handler, writer, reader, the client at the other end, and
`closeWithCode` as a small program each of the three may be in. The client may
stall (writes block), resume and go at any time. All other sessions are holders
of `traceMu`.

### GeoDNSScope

A goroutine is a trace, which keeps its scope while it runs, or a lookup that a
trace starts and either waits for (`Awaited`) or leaves behind. `pc` is the
position in `WithGeoDNSResolver`; `geoScopeMu` is held from the first scope of a
resolver to the last and may be released by another goroutine than the one that
took it. Names come spelled in any case; `normalizeGeoDNSResolver` is what makes
two spellings one.

## 3. What the runs check

Twelve runs, one of which shows a finding of section 4. Properties of one concern are conjunctions of named parts, which the
modules state and explain one by one. The type invariants document the state and are
proved (section 6).

`scheduler`. Two slots shared by two hops, two probes in flight per hop and a
budget of two, lookups, pauses, one reset: goroutines of two generations, late
probes that meet the budget, and a destination that may answer at any hop in any
order. `ScheduleSound`: the in-flight counters of the hops are exact across resets,
the budget holds although the error branch does not look at it, display equals
schedule, and the send of a probe goroutine, which has no `select`, finds room also once
the loop has returned. Lowering the final TTL leaves no ghost row (`NoGhostDestination`); a
finished run is complete (`CompleteWhenFinished`); nothing stale is counted
(`StaleResultsNotCounted`). All of these are also proved for every instance, and three
more only proved (section 6). `RunEnds` is only checked, under weak fairness of the
loop's cases, the ticker, the goroutines and the clock: Go's `select` is random over
the ready cases, `ProbeTTL` and lookups have deadlines. Pausing, resetting and
cancelling get no fairness; `RunEnds` is conditional on not being paused for ever.

`metadata`. One address, in and outside DN42 mode, so that both kinds of lookup,
three tries and a reset interleave. `LookupsTracked`: the maps `isDone` waits for are
exactly the lookups of this generation, and no name is lost whichever of row and
patch comes first. `StalePatchIgnored`: no lookup from before a reset changes the
cache. `LookupsEnd`: a dead server does not keep a finished run alive (outside DN42
mode, see section 5), and every goroutine ends with the run. Addresses do not
interact except through slots and the channel, which are of size one here.
Fairness: weak for loop and goroutines, strong where goroutines queue for a
channel, which Go serves in order.

`hop_data`. Engine: three calls over two sequence numbers, so that the third one
rotates; symmetry over calls. `RightReply`: the answer a call returns is to its own
packet, across duplicates, losses, delays, rotations and resets, as long as the drawn
identifiers differ and no rotation has passed a call that had its number and had
not sent (section 4). `WaitersServed`: whoever waits can still be woken, and when no
call can step all have returned - `sendMu` is released on every way out.
`StaleRoundFails`: no answer of an old round is taken. `NotLapped` in the guards says
that no goroutine of the process sleeps through 65535 further probes; the network
may delay without limit. Statistics: `StatisticsExact` compares sent, received and the
RTT columns of every row with a reference definition over the log of attempts,
losses merged into the only known peer included. Locations: two lookups of one
address over two connections, a client cache of one entry with two resolvers, DN42,
a reserved address, no provider. `ReceiverServes`: while a lookup waits on the
connection in use, a receive loop reads it or will; `RowsSettled`: a row shows what
its lookup found, and none is pending after the trace; `CacheConsistent`: the order
that eviction goes by names every cached client once, within the bound.

`rounds`. Two hops, destination at the first or second, numbers that wrap within the
run, two rounds, one reset, a pause, cancellation, failing rounds. `RoundsSound`: a
row of a round is of its TTL and round, as long as no number was used twice in one
epoch; the TTL at which its rows end is that of an answer the destination gave in the
round, unless an `onICMP` of an earlier round set it late (the history field `stale`;
section 4); and `RunMTRRaw` returns when no round of it runs any more and wrote each hop
once.
`TableSpec`: the refinement of `MTRRun`, with its liveness: fairness of the loop's own
steps and timers, none for replies or the user.

`tracer`. ICMP on two TTLs and two path lengths with surplus attempts; each other
method on one TTL with two ports or sizes, failing sends, slow listeners,
interrupts; one trace with more attempts than indices. `BucketsSound`: an attempt is
recorded by its reply or by its timeout, never by both, no TTL has more than N
entries, and a silent one is given up only after its last attempt.
`AnswerOfItsProbe`: an entry holds the answer to its own probe, where the wire can tell
(the premises name where it cannot). `NaturalIsComplete`: a trace that ends by itself
has every TTL up to the final one complete. `ReturnedResultStable`: late goroutines do
not change what such a trace returned, as long as a sequence number names one attempt.

`tracer_live`. `GroupsComplete`: when sends succeed, every TTL that was probed gets
its N entries or the trace is interrupted, whatever a late listener misses.
`Terminates`, by itself or interrupted, on a path of one length and without surplus
attempts. Fairness: every goroutine that can run runs; replies get none (they may be
lost).

`mtu`. Sizes {1, 3, 4, 7} put links below the least probe (2), above the first
probe (6) and two between, so that a path may shrink twice, over up to three
links. `PathMTUExact`: discovery that reaches the destination reports the smallest
MTU of device and path, also when routers withhold sizes, answers are lost or late
answers are taken for others. `HopOfItsTTL`: a hop shows the router of its own TTL,
as long as no port has been used twice (of 4 here; tokens wrap at 13). `Ends`
although refused packets do not count as attempts; it needs only that the loop goes
on: every probe is answered or times out.

`ws_client`. Two connections, two dialers, failing writes, `Close` and a cancelled
context. `ConnectionsAccounted`: the flag that keeps others from dialling has exactly
one dialer at work behind it, and an open client has no open connection but the
current one and the one about to be installed; `NoSendOnClosed`.
`CloseWaitsForLateReadersOnly`: while the client is being closed some goroutine can go on
without the server (`Driven`: dialling and writing have deadlines, reading has none), or
all loops are gone but receivers that read one connection, which was installed behind
`closeConn`. This excludes deadlock, not livelock. The exception is reachable: without it the
property is violated within the bounds of the run (section 4).

`ws_session`. Queue of two, two records. `SessionSound`: what a session accepted is
delivered in order, and completely unless it was broken off, and it returns clean;
`SessionEnds`: a client that goes or a session that is closed ends everything.
Fairness: weak for the goroutines, strong for the mutex; a trace ends by itself only
in single mode or once its context is done.

`requests`. An HTTP trace, a raw MTR with a duration or a refused tool call beside an
MTR of the web without limit; a WebSocket trace, a report, a speed test or an MTU
discovery beside an HTTP trace; resolvers equal, different, absent and spelled in
two ways. `ResolverSound`: whoever is inside a scope has the resolver it asked for,
and with no scope open the original is in effect. `PowKept`: the same for the
proof-of-work provider. `RequestsEnd`: every bounded or abandoned request ends, though
neither lock nor scope can be cancelled. Fairness: only that something that can go on
does; requests have finitely many steps, and an unlimited run need not end.

`process`. `ModeAsAsked`: over all pairs of flags, the mode that runs is the one asked
for. `NewestLabels`: nali's cache is what was stored last. `AnswerAsTyped`: a menu takes
the line typed for it though input may end at the same time. `SequencesSwallowed`: no
byte of an escape sequence acts as a key. `SpeedRunClean`: at its exit the speed test
has joined the goroutines of its rounds and printed everything, and code 0 means that all
planned was measured; the reader of its prompt may be left behind an interrupt, with no
round run and another code than 0. One of the five configurations reaches the prompt. `InterruptEnds`: an interrupt ends every mode, except a read of nali's
terminal input. Fairness: goroutines run, lookups, traces and requests end (they have
time limits); nobody has to type. Bounds: one address per line of nali over four, a
cache of two; two targets; two items of the keyboard; two workers, one chunk.

Deadlock checking is off throughout: a run, a trace, a call, a session or a process
that is over has no next step.

## 4. Where code and comments differ

One of these has a run of its own:

* `engine_nil_spec`: `ProbeTTL` is documented to end with an answer, a timeout or
  the context's error. A rotation whose listener does not start in time leaves
  `spec` nil; the next `ProbeTTL` panics.

The others were met while modelling, each in a counterexample of TLC to the claim
stated as a property of the module; the properties that are checked are stated so
as to leave them out:

* `roundFinalTTL` is documented as the TTL of the destination
  found in the current round (`trace/mtr_runner.go:284`). `onICMP` leaves `e.mu` with a
  candidate and sets it afterwards (501). When the next round begins in between, the
  round starts with the TTL of an answer to the last one, and its rows end there.
* Tests expect `Close` not to hang while a receiver or a dialer
  is about to leave (`wshandle/client_test.go:282`, `464`). A dialer past its last
  look at `closeCh` (`wshandle/client.go:672`) installs its connection after `Close` has
  closed the one before; a receiver past its own look (475) finds the client connected
  (482), takes that connection (483) and reads it without a deadline. `Close` returns
  when the server sends something or goes away. A new dial may even begin during
  `Close`, between its second step (333) and the closing of `closeCh`.
* N is documented as the least number of entries of a TTL (`trace/trace.go:342`). A
  failed `SendICMP` leaves no entry at all; if it hits one of the first N - 1 attempts
  the TTL never completes and the trace waits until it is interrupted (`fails`
  in `Tracer`).
* "Anything beyond N entries is ignored" (`trace/trace.go:344`). With more than 256
  attempts, which only the command line's flags rule out, a reply is decoded to a
  small index and appended without a look at the length (`span` below
  `m` in `Tracer`). A bucket can then be full without its early attempts, which `add`
  never refuses: one whose timeout comes late still enters a result that `Execute` has
  returned. Hence the premise `Distinct` of `ReturnedResultStable`.
* The geo lookup without host name is documented to wait for the end of the host
  lookup (`trace/mtr_scheduler_runtime.go:570`). The handler of a failed host lookup
  first launches the next try and then asks whether the tries are used up: before
  the last try the answer is already yes, and both run at once.
* "One sending and one receiving goroutine in all" (`ipgeo/leo.go:18`). A failed write
  starts a reconnection while the receiver of the old connection lives; two
  receivers then exist, and the old one may read from the new connection.
* A failed read is taken to mean that the connection broke
  (`wshandle/client.go:490`). It may be the read of a connection just replaced, and
  marks the new one as down.
* Rotation is documented to rule out mismatches across a wrap completely
  (`trace/mtr_runner.go:444`). The new identifier is one of 256 and may be the old
  one; and an answer left in `replied` by a call that a rotation passed is taken by
  the call that gets its number in the new epoch. Hence the premise of
  `RightReply`.
* "Reset invalidates all in-flight probes" (`trace/mtr_runner.go:980`). One between
  taking its number and registering belongs to the new round. The scheduler's
  generation keeps it out of the statistics all the same.

## 5. Observations without a contrary claim in the repository

* A timeout goroutine is in no wait group. Between its check of the final TTL and
  `res.add`, `Execute` may return and `reduce` cut `Hops`; the index is not checked
  (`panicked` in `Tracer`).
* `PrintFunc` ends a trace when the TTL it has printed equals the final TTL. A reply
  to a surplus attempt, or over a shorter path, can lower the final TTL to one
  that is already printed; no probes are sent any more and the printer waits for
  the next TTL. `Terminates` is therefore claimed for one path and no surplus
  attempts.
* In DN42 mode the question whether host tries are used up, asked on a failed geo
  lookup, starts the host cooldown while the last host lookup is in flight; if that
  lookup outlasts the thirty seconds, its failure counts as the first of a new
  series. `LookupsSettle` (in `LookupsEnd`) is claimed outside DN42 mode.
* `Close` of the WebSocket client racing a dial: where nobody reads the connection
  installed behind it (section 4), `Close` returns and leaves `Connected` true and a
  connection open on a client that is closed. `ConnectionsAccounted` is claimed while it
  is open.
* An interrupt at the prompt of the speed test leaves the goroutine that reads the
  terminal (`internal/speedtest/runner/runner.go:747`): nobody joins it, and closing the
  terminal wakes it only where the terminal can be polled. The process exits soon after.
* A lookup for another resolver waits for the whole scope of a trace without
  watching its context; scopes of one resolver that keep overlapping can keep
  others waiting for ever (`calls` is bounded in `Requests`); and a request without a
  resolver runs under whatever is in effect.
* `RuntimeMu` is a plain mutex: a client that leaves while its request waits for it
  frees nothing, the duration of an `MTRRaw` call counts from before the lock
  (`internal/service/service.go:176`), and the answer of an HTTP trace is written under
  it (`server/trace_handler.go:334`).
* A name lookup that runs into its own five seconds returns the error of a
  cancelled context. The server takes it for a client that left and answers with an
  empty 200 (`server/trace_handler.go:272`); the command line takes it for an interrupt
  and exits with 0 and no message (`cmd/cmd.go:958`).
* An MTR mode makes its own signal context (`cmd/mtr_mode.go:57`): a signal caught by
  the root context before that is not seen by the mode.
* `--deploy` wins over the flags of a single trace, and `--from` over `--fast-trace` and
  `--file`, without a message (`ModeAsAsked` says so).
* The parser of the MTR screen limits the length of a control sequence, but neither
  of an SGR mouse report nor of a title: after a truncated one keys are swallowed
  until its end comes. `SequencesSwallowed` is about complete sequences.
* When the client is not connected the answer it makes up for a lookup
  (`wshandle/client.go:515`) is a location like any other, and is cached as one.
* On macOS a UDP probe that could not be sent leaves its port in the queue of its
  TTL, and the next captured packet is attributed to it; TCP probes of different
  sizes may share an acknowledgement number. `AnswerOfItsProbe` leaves both out.

## 6. What is proved

Eight modules hold 53 theorems, each for every value of the constants within the named
assumption of the module it is about; the assumptions say what the code normalises its
configuration to, that sets are finite where they are counted, and that model
values differ from the words the models use. Invariants are stated as `Spec => []P`,
action properties as `Spec => [][A]_vars`. The invariants below are inductive, none of
the properties alone is; each was checked by TLC on the instance of its run before it
was proved.

The proofs have one layout: operators first (one lemma per helper or handler, saying
what it does to any value that satisfies the invariant's parts), then one lemma
per action or per group of actions that touch the same state, then the step and the
theorem. Facts about cardinalities and sequences come from `FiniteSetTheorems` and
`SequenceTheorems`.

**`MTRSchedulerProofs`** (`SchedulerAssumption`) proves all the safety
properties of the module, the ones of the run `scheduler` (`ScheduleSound` as theorem
`BooksSound`, its part `NoSenderBlocks` as `SendersNeverBlock`) and three more: the probes
in flight are counted exactly and bounded (`ParallelismRespected`), nothing beyond the
destination is counted (`NothingCountedBeyondFinal`), the iteration shown never goes back
(`IterationNeverDecreases`). The invariant `IInv` is `TypeOK` with five parts:
`SlotInv` (the probes are a finite set counted by `inFlight`, and what is in the
channel is among them), `HopInv` (`inFlightCount` is the number of probes of the
hop and generation, which needs that the identifiers of probes tell them apart
and that no probe is of a later generation), `BudgetInv` (completed plus in
flight within the budget), `FinalInv` (hops above the final TTL are exactly the
disabled ones and the destination is recorded nowhere else), `StatInv`
(display equals schedule up to the final TTL).

**`MTRProofs`** (`MetadataAssumption`, `RoundsAssumption`) is about the other two MTR models.
Lookups: `TypeOK`, `LookupsTracked` and `StalePatchIgnored`. `LookupsTracked` holds
only at the end of a handler; inside one, lookups are named in the maps that are not
started yet. So the invariant is stated on the goroutines, the patches in the channel
and those the handler is about to start (`Tracked`): each of this generation is named
once, none is of a later one. Every launching and caching operator keeps it, hence so
does every composition of them; a reset empties the maps and leaves everything out
behind by one generation. Rounds: `RoundsSound`, and that `MTRRounds` implements
`MTRRun` but for liveness (`RoundsImplementRun`). `RdInv` follows a number from the
wire to the table as long as no number was used twice in one epoch: in the air it
names one probe, in `replied` it is filed under the TTL and the round of that probe,
and what a round builds from it is of that round. Its part `FinalTTLOfThisRound` needs `FinalInv` too: a
number that may still be answered is the one its TTL is registered with, in the round of
its probe, and a candidate of the round at hand has its answer in the maps, which nothing
removes before the next round. The refinement needs
`TableKept` (the iteration is the number of rounds in the table) and the frame of
each kind of run (`PlaceKept`).

**`HopDataProofs`** (`GeoAssumption`, `ApiV4Assumption`, `EngineAssumption`,
`AggregatorAssumption`) proves `CacheConsistent`, `RowsSettled`, `ReceiverServes`,
`RightReply`, `StaleRoundFails`, `StatisticsExact` and the part of `WaitersServed` that
speaks of states, `WaiterReachable`. Locations: the order
of the cache is injective and lists the cache, so evicting its head brings the count
down; a row is `pending` only while its goroutine is at work, and `dropped` only once
the trace marks; whoever waits on the connection in use finds the receive loop at work
on a connection or about to restart. The engine has the longest argument. A number
belongs to one call at a time (`CallInv`); the maps agree with each other and with the
call that holds the number (`MapInv`); an answer in `replied` for a registered call is
of the round of that call unless a reset is half-way (`RoundInv`). That an answer is
the right one (`ReplyInv`) needs the whole way of a packet: which identifier it carries, that
no two sockets have had the same one, that the number is not handed out again under
that identifier, and that what the listener of a closed socket still holds is
decided by identifier too. It is assumed in the same words as in `RightReply` that
drawn identifiers differ and that no rotation has passed a call that had not sent.
Statistics: `AggInv` says of every TTL that its table is the one of its attempts
(`TableOf`), who is charged with which lost probes included. An update brings attempts
behind those before it (`Following`). Merging a group into a row that is right for the
answers it counts makes it right for all of them (`GroupMerges`: counts and sums are
cardinalities of disjoint unions, the last is the newest of the newer set, the extremes
are those of the two sets). Then three cases, by the paths known afterwards: none
(`NoPath`), one, which the timeouts' row joins (`SinglePath`), or more, when the prefix
with one path is the same before and after (`PrefixStays`) and so is what its path was
charged with (`TwoPaths`). That no two rows share an order number is `AggregatorTyped`.

**`TracerProofs`** (`TracerAssumption`) proves all four safety properties of the run
`tracer` for the six methods and any number of TTLs, attempts, entries, ports and
permits. `PlaceInv`: an attempt is pending, or claimed by its timeout goroutine, or on
its way from a worker, or recorded, and never two of these. `CountInv`: a bucket counts
what it recorded, and at most one entry in it is an audited one; with it, N entries is
the most. Both need that a sequence number names one attempt (`Distinct`). `SilentInv`
does not: a bucket without a reply holds timeouts only, and its tail one only if the
last attempt timed out. `PrintInv`: the printer has passed complete buckets only.
`AnswerInv`: whatever refers to a probe refers to its own attempt; for UDP on macOS it
rests on `CaptureInv`, that the queue of ports of a TTL and the packets on the wire are
in one order, with one packet being sent at a time. Trying to prove
`ReturnedResultStable` without `Distinct` failed, and TLC then found the behaviour
described in section 4.

**`MTUDiscoveryProofs`** (`MTUAssumption`) proves
type correctness, `PathMTUExact`,
`NeverTooSmall` (at no time is less reported than the path carries),
`FatalJustified` (a run gives up for its size only if the local link is below the
least probe) and `HopOfItsTTL`. The inductive invariant says that answers on
the way carry honest sizes (also the late ones, which may be taken for answers to
another probe), that the path MTU noted so far is the first estimate or the MTU
of a link already met, that no probe smaller than what the path carries is ever
sent unless the local system asks for it, and that an answer of the destination
is to a probe that fitted every link. For `HopOfItsTTL` tokens are counted against
what they are spent on, the sizes given up and the queries made (`TokensUsed`), so that
they do not wrap, and late answers bear the port of an earlier token (`LatePorts`).

**`RequestsProofs`** (`ScopeAssumption`, `RequestsAssumption`) proves, for any finite set of
goroutines and any names, type correctness and `ResolverSound` of `GeoDNSScope`. The
invariant ties the counter to the set it counts (`geoScopeDepth` is the number of
goroutines inside), says that at
most one goroutine is between taking the mutex and publishing the scope, and that
the original resolver is handed from `prev` of that goroutine to `geoScopePrev` and
back. `RequestsUseScopes` shows that `Requests` implements `GeoDNSScope`: a step of a
request is a step of the scope or leaves its variables alone. So `ResolverSound` holds of
the requests (`RequestsResolve`). `PowRestored` states `PowKept` for any requests of
any kinds. Its invariant says that the tokens a request has still to do fit where it
stands - outside the lock, inside it, or inside it with its provider set - so
that every one of them finds the lock and the setting as it needs them (`Fits`); one
lemma shows it of the plan of every kind of request, another of what follows its
trace. Hence at most one provider is set, over the command line's.

**`WebSocketProofs`** is about the two ends of WebSockets. `WsClient`
(`WsClientAssumption`): type correctness,
`ConnectionsAccounted` and `NoSendOnClosed`: while the client is open, one dialer at most
is busy and `Connecting` says so (`BusyInv`), and a dialer that has installed its
connection holds the client's, or one that was closed as it was replaced
(`InstalledInv`). Nothing is claimed of the races while it closes, except that all
loops are gone when `Close` has returned (`OverInv`). `WsSession` (`SessionAssumption`):
type correctness and `SessionSound`.
Until a session is broken off (its client gone, a close frame with a reason, a writer
or handler that has begun to close), what it accepted is what was delivered, the
message being written and the queue, in this order (`FlowInv`); whatever makes the
handler stop early implies that it was broken off (`BrokenInv`); the body of
`closeOnce` runs in one goroutine and leaves a reason (`OnceInv`).

**`ProcessProofs`** (`KeyboardAssumption`, `NaliAssumption`, `MenuAssumption`) proves the five
safety properties of the run `process`, for any set of command lines and any input.
Each mode keeps a part of the state the others leave alone, so there is one invariant
per mode. `FlagsInv` says of each block of `Execute` what the checks and branches before
it have ruled out, hence `ModeAsAsked`. `NaliInv`: the ring, read from the place written
next, is the list of the labels stored last, each of them once, and the cache is
its contents. `FastInv`: the process-wide reader of standard input has a line only for
the prompt that waits. `UIInv` puts the input parser `k` bytes into an escape sequence
and says in which state it is there, by the form of the sequence (`ParserAt`); what a
terminal sends is `EscapeSequence`, which is the assumption. `SpeedInv`: goroutines live
inside the blocks that join them (`AliveInv`), and the exit code is not 0 before all
that was asked for was measured and good (`VerdictInv`); the reader of the prompt, which
no block joins, outlives the prompt only behind an interrupt that lets no round begin
(`ReaderInv`).

Only model-checked, because out of this prover's reach: liveness (`RunEnds`,
`LookupsEnd`, `GroupsComplete`, `Terminates`, `Ends`, `SessionEnds`, `RequestsEnd`,
`InterruptEnds` and the liveness in `TableSpec`), and what speaks of `ENABLED`
(`CloseWaitsForLateReadersOnly`, and in `WaitersServed` that no call is stuck).
`NeverPanics` is no theorem: the code violates it (section 4).

## 7. What is not modelled, and the plan

Not modelled, and not meant to be: packet formats and sockets per platform, printers
and layout, the mapping of providers' answers, files and pages, the proof-of-work
challenge. None has state shared between steps; what they do to the modelled parts
(a send fails, a lookup answers or not) is a choice there. `server/mtr.go` holds a
second aggregator that only tests use. `PROJECT.json` gives the reason for each
component.

Every safety property that a passing run checks is a theorem but for the two that speak
of `ENABLED`. What is left is not proved for a reason: liveness needs fairness, which the
prover does not handle, and the action formulas under `ENABLED` neither.
