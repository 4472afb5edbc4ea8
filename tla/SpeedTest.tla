----------------------------- MODULE SpeedTest -----------------------------
(***************************************************************************)
(* `nexttrace --speed`: internal/speedtest and cmd/speed_mode.go.  The main *)
(* goroutine chooses an endpoint, measures idle latency and runs up to four *)
(* transfer rounds; a round has one goroutine per worker, one that reports  *)
(* progress and one that measures latency under load.  Everything printed   *)
(* goes through a bounded channel to a rendering goroutine.                 *)
(*                                                                         *)
(* Bytes are counted in chunks, latencies as small naturals; what a stage   *)
(* prints is one event.                                                     *)
(***************************************************************************)
EXTENDS Integers, Sequences, FiniteSets, SequencesExt

CONSTANTS
  IPs, IPv6,        \* addresses the provider's name resolves to; the IPv6 ones
  MaxChunks,        \* cfg.MaxBytes
  LoadedCap,        \* maxLoadedSamples
  BusCap,           \* capacity of the event channel
  Requests,         \* command lines: records of the flags config.Load reads
  MaxTicks          \* bound: progress ticks of one round

VARIABLES
  cfg,       \* *Config
  intr,      \* the root context is cancelled (SIGINT, SIGTERM)
  main,      \* [pc, cands, todo, sel, idle, left, round]
  res,       \* RunResult: [degraded, rounds (how many), worst (some round was
             \* not "ok"), conn, idle, exit]
  work,      \* worker -> [st, n, fault]
  aux,       \* what runs beside the workers: [prog, ticks, expired, cancelled, probe,
             \* stop, samples], and reader, the goroutine of the prompt
  bus,       \* [q, closed]
  held       \* what runSpeedMode still has to close

spVars == <<cfg, intr, main, res, work, aux, bus, held>>

None == "none"
Idle == [prog |-> FALSE, ticks |-> 0, expired |-> FALSE, cancelled |-> FALSE,
         probe |-> "off", stop |-> FALSE, samples |-> 0, reader |-> "off"]

SpInit ==
  /\ cfg \in Requests /\ intr = FALSE
  /\ main = [pc |-> "load", cands |-> << >>, todo |-> << >>, sel |-> None, idle |-> 0, left |-> 0, round |-> 1]
  /\ res = [degraded |-> FALSE, rounds |-> 0, worst |-> FALSE, conn |-> "unavailable",
            idle |-> "unavailable", exit |-> -1]
  /\ work = << >> /\ aux = Idle
  /\ bus = [q |-> 0, closed |-> FALSE] /\ held = {}

(***************************************************************************)
(* Sending to the bus blocks while the channel is full; progress does not. *)
(***************************************************************************)
Send == bus.q < BusCap /\ bus' = [bus EXCEPT !.q = @ + 1]
Goto(pc) == main' = [main EXCEPT !.pc = pc]
FinishRun(code) ==
  /\ main' = [main EXCEPT !.pc = "return"]
  /\ res' = [res EXCEPT !.exit = code, !.degraded = @ \/ code = 130]

\* config.Load: the checks of the flags, in the order of the code.
ValidConfig(c) ==
  /\ c.timeout > 0 /\ c.timeout <= 120000
  /\ c.threads > 0 /\ c.threads <= 64
  /\ c.latencyCount > 0 /\ c.latencyCount <= 100
  /\ ~ (c.source /\ c.dev)

\* runSpeedMode up to the runner: help and bad flags end it before anything is opened.
LoadConfig ==
  /\ main.pc = "load"
  /\ IF cfg.help \/ ~ ValidConfig(cfg)
     THEN /\ main' = [main EXCEPT !.pc = "closed"]
          /\ res' = [res EXCEPT !.exit = IF cfg.help THEN 0 ELSE 1]
          /\ UNCHANGED held
     ELSE /\ Goto("discover")
          /\ held' = {"bus"} \cup (IF cfg.metadata THEN {"backend"} ELSE {})
                            \cup (IF cfg.metadata /\ cfg.json THEN {"fastip"} ELSE {})
          /\ UNCHANGED res
  /\ UNCHANGED <<cfg, intr, work, aux, bus>>

\* newPinnedClient: the local address must be of the endpoint's family.
BindFails(ip) == (cfg.source \/ cfg.dev) /\ ip \in IPv6

\* discoverCandidates: a given endpoint is the only candidate; else the name is
\* resolved, which fails when the context is cancelled, and duplicates dropped.
ResolveCandidates ==
  /\ main.pc = "discover" /\ Send
  /\ \/ /\ cfg.endpoint
        /\ \E ip \in IPs : main' = [main EXCEPT !.pc = "candidate", !.todo = <<ip>>]
        /\ UNCHANGED res
     \/ /\ ~ cfg.endpoint /\ ~ intr
        /\ \E s \in SUBSET IPs : \E q \in SetToSeqs(s) :
             main' = [main EXCEPT !.pc = "candidate", !.todo = q]
        /\ UNCHANGED res
     \/ ~ cfg.endpoint /\ FinishRun(1)
  /\ UNCHANGED <<cfg, intr, work, aux, held>>

\* performRequest: the latency of a request, 0 when it failed.
performRequest == {0, 1, 2}

\* buildCandidate: its latency request succeeds, or it is a degraded candidate.
BuildCandidate ==
  /\ main.pc = "candidate" /\ main.todo # << >>
  /\ LET ip == Head(main.todo) IN
     \E r \in performRequest :
       /\ r > 0 => ~ intr /\ ~ BindFails(ip)
       /\ main' = [main EXCEPT !.todo = Tail(@),
                     !.cands = Append(@, [ip |-> ip, ok |-> r > 0, rtt |-> r])]
  /\ UNCHANGED <<cfg, intr, res, work, aux, bus, held>>

\* sort.SliceStable of the candidates: healthy first, then by round trip.
Before(a, b) == (a.ok /\ ~ b.ok) \/ (a.ok = b.ok /\ a.rtt < b.rtt)
SortCandidates(s) ==
  LET rank(i) == Cardinality({j \in DOMAIN s : Before(s[j], s[i]) \/ (~ Before(s[i], s[j]) /\ j < i)})
  IN  [k \in DOMAIN s |-> s[CHOOSE i \in DOMAIN s : rank(i) = k - 1]]

\* The end of discoverCandidates: the first healthy candidate, or the first one
\* (and a warning); a given endpoint is taken as it is.
SelectCandidate ==
  /\ main.pc = "candidate" /\ main.todo = << >>
  /\ LET sorted == IF cfg.endpoint THEN main.cands ELSE SortCandidates(main.cands) IN
     /\ main' = [main EXCEPT !.pc = "select", !.cands = sorted,
                   !.sel = IF sorted = << >> THEN None ELSE sorted[1].ip]
  /\ UNCHANGED <<cfg, intr, res, work, aux, bus, held>>

Prompts == cfg.tty /\ ~ cfg.nonInteractive /\ ~ cfg.json /\ Len(main.cands) > 1

\* renderSelection without a prompt.
RenderSelection ==
  /\ main.pc = "select" /\ ~ Prompts /\ Send /\ Goto("chosen")
  /\ UNCHANGED <<cfg, intr, res, work, aux, held>>

\* promptChoice up to its select, behind a flush of the bus: a goroutine of its own reads a
\* line, if there is a terminal to read from.
OpenPrompt ==
  /\ main.pc = "select" /\ Prompts /\ bus.q = 0 /\ Goto("prompt")
  /\ \E reader \in {"off", "reading"} : aux' = [aux EXCEPT !.reader = reader]
  /\ UNCHANGED <<cfg, intr, res, work, bus, held>>

\* The reader's line (or its error) goes into a channel with room for it.  Once the prompt is
\* left the terminal is closed, which may end the read: where the terminal cannot be polled
\* only a line typed later does.
ReadChoice ==
  /\ aux.reader = "reading"
  /\ aux' = [aux EXCEPT !.reader = IF main.pc = "prompt" THEN "answered" ELSE "off"]
  /\ UNCHANGED <<cfg, intr, main, res, work, bus, held>>

\* The rest of promptChoice: without a terminal the first candidate is taken, as is for any
\* line but a number in range; an interrupt keeps what was selected, and nobody waits for the
\* reader.
TakeChoice ==
  /\ main.pc = "prompt" /\ Send
  /\ \/ /\ aux.reader = "off" /\ UNCHANGED aux
        /\ main' = [main EXCEPT !.pc = "chosen", !.sel = main.cands[1].ip]
     \/ /\ aux.reader = "answered" /\ aux' = [aux EXCEPT !.reader = "off"]
        /\ \E i \in DOMAIN main.cands :
             main' = [main EXCEPT !.pc = "chosen", !.sel = main.cands[i].ip]
     \/ /\ aux.reader # "off" /\ intr /\ Goto("chosen")
        /\ aux' = [aux EXCEPT !.reader = IF @ = "answered" THEN "off" ELSE @]
  /\ UNCHANGED <<cfg, intr, res, work, held>>

\* gatherConnectionInfo: what is known of the two peers, unless metadata is switched off.
gatherConnectionInfo == IF cfg.metadata THEN {"ok", "degraded", "unavailable"} ELSE {"unavailable"}

\* Run after the selection: the connection and the client of the run.
Connect ==
  /\ main.pc = "chosen"
  /\ CASE main.sel = None -> FinishRun(1) /\ UNCHANGED bus
       [] main.sel # None /\ intr -> FinishRun(130) /\ UNCHANGED bus
       [] OTHER ->
            \E c \in gatherConnectionInfo :
              LET gathered == [res EXCEPT !.conn = c, !.degraded = @ \/ (cfg.metadata /\ c # "ok")] IN
              /\ Send
              /\ IF BindFails(main.sel)
                 THEN /\ main' = [main EXCEPT !.pc = "return"]
                      /\ res' = [gathered EXCEPT !.exit = 1]
                 ELSE /\ res' = gathered
                      /\ main' = [main EXCEPT !.pc = "idle", !.left = cfg.latencyCount, !.cands = << >>]
  /\ UNCHANGED <<cfg, intr, work, aux, held>>

\* latency.MeasureIdle: one probe after the other until the context is done.
MeasureIdle ==
  /\ main.pc = "idle" /\ main.left > 0 /\ ~ intr
  /\ \E ms \in performRequest : main' = [main EXCEPT !.left = @ - 1, !.idle = @ + (IF ms > 0 THEN 1 ELSE 0)]
  /\ UNCHANGED <<cfg, intr, res, work, aux, bus, held>>

IdleDone ==
  /\ main.pc = "idle" /\ (main.left = 0 \/ intr) /\ Send
  /\ main' = [main EXCEPT !.pc = "round", !.left = 0, !.idle = 0]
  /\ res' = [res EXCEPT !.idle = IF main.idle > 0 THEN "ok" ELSE "unavailable",
                        !.degraded = @ \/ main.idle = 0]
  /\ UNCHANGED <<cfg, intr, work, aux, held>>

\* The rounds of Run: single-threaded and, with several threads, multi-threaded.
Plan == IF cfg.threads > 1
        THEN << <<"download", 1>>, <<"download", cfg.threads>>, <<"upload", 1>>, <<"upload", cfg.threads>> >>
        ELSE << <<"download", 1>>, <<"upload", 1>> >>
Dir == Plan[main.round][1]

\* runRound: skipped once interrupted, else transfer.Run and the latency probe
\* start.  (The providers' constant URLs always give a request.)
StartRound ==
  /\ main.pc = "round" /\ main.round <= Len(Plan)
  /\ \/ intr /\ main' = [main EXCEPT !.round = @ + 1] /\ UNCHANGED <<res, work, aux, bus>>
     \/ /\ ~ intr /\ Send /\ Goto("transfer") /\ UNCHANGED res
        /\ work' = [w \in 1 .. Plan[main.round][2] |-> [st |-> "connect", n |-> 0, fault |-> FALSE]]
        /\ aux' = [Idle EXCEPT !.prog = TRUE, !.probe = "wait", !.reader = aux.reader]
  /\ UNCHANGED <<cfg, intr, held>>

(***************************************************************************)
(* transfer.Run                                                            *)
(***************************************************************************)
Stopped == intr \/ aux.expired \/ aux.cancelled
Leave(w, fault) == work' = [work EXCEPT ![w].st = "done", ![w].fault = fault]
restOfRun == <<cfg, intr, main, res, bus, held>>

\* doDownload and doUpload up to the first byte.  The request may fail, which is
\* no fault when the time was up; an error status is one.
WorkerConnect(w) ==
  /\ work[w].st = "connect"
  /\ \/ work' = [work EXCEPT ![w].st = "body"]
     \/ Stopped /\ Leave(w, FALSE)
     \/ Leave(w, TRUE)
  /\ UNCHANGED <<restOfRun, aux>>

\* One more chunk, counted in the total shared by all workers.
WorkerChunk(w) ==
  /\ work[w].st = "body" /\ work[w].n < MaxChunks
  /\ work' = [work EXCEPT ![w].n = @ + 1]
  /\ UNCHANGED <<restOfRun, aux>>

\* The body ends: the limit or the end of the stream is reached, the time is up, or
\* there is an error, which a download that has reached its limit does not see.
WorkerEnds(w) ==
  /\ work[w].st = "body"
  /\ \/ Leave(w, FALSE)
     \/ (Dir = "upload" \/ work[w].n < MaxChunks) /\ Leave(w, TRUE)
  /\ UNCHANGED <<restOfRun, aux>>

\* The timeout of the workers (and two seconds later of the round).
Expire ==
  /\ main.pc = "transfer" /\ ~ aux.expired
  /\ aux' = [aux EXCEPT !.expired = TRUE]
  /\ UNCHANGED <<restOfRun, work>>

\* The progress goroutine: an event that does not fit is dropped.
ProgressTick ==
  /\ aux.prog /\ aux.ticks < MaxTicks
  /\ aux' = [aux EXCEPT !.ticks = @ + 1]
  /\ bus' = [bus EXCEPT !.q = IF @ < BusCap /\ ~ bus.closed THEN @ + 1 ELSE @]
  /\ UNCHANGED <<cfg, intr, main, res, work, held>>

ProgressEnds ==
  /\ aux.prog /\ Stopped
  /\ aux' = [aux EXCEPT !.prog = FALSE]
  /\ UNCHANGED <<restOfRun, work>>

\* latency.Probe.loop: a ring of the newest samples; the timer re-arms it.
ProbeLoop ==
  /\ aux.probe # "off"
  /\ \/ aux.probe = "wait" /\ (intr \/ aux.stop) /\ aux' = [aux EXCEPT !.probe = "off"]
     \/ aux.probe = "wait" /\ ~ intr /\ ~ aux.stop /\ aux' = [aux EXCEPT !.probe = "busy"]
     \/ aux.probe = "busy" /\ aux' = [aux EXCEPT !.probe = "wait"]
     \/ /\ aux.probe = "busy"
        /\ aux' = [aux EXCEPT !.probe = "wait", !.samples = IF @ < LoadedCap THEN @ + 1 ELSE @]
  /\ UNCHANGED <<restOfRun, work>>

\* Mutant: the progress goroutine is not waited for.
StopProbe_NoWait ==
  /\ main.pc = "join"
  /\ Goto("probe") /\ aux' = [aux EXCEPT !.stop = TRUE]
  /\ UNCHANGED <<cfg, intr, res, work, bus, held>>

\* transfer.Run: wg.Wait, cancel, then the progress goroutine is waited for.
JoinWorkers ==
  /\ main.pc = "transfer" /\ \A w \in DOMAIN work : work[w].st = "done"
  /\ Goto("join") /\ aux' = [aux EXCEPT !.cancelled = TRUE]
  /\ UNCHANGED <<cfg, intr, res, work, bus, held>>

StopProbe ==
  /\ main.pc = "join" /\ ~ aux.prog
  /\ Goto("probe") /\ aux' = [aux EXCEPT !.stop = TRUE]
  /\ UNCHANGED <<cfg, intr, res, work, bus, held>>

TotalBytes == FoldSeq(LAMBDA w, sum : w.n + sum, 0, work)
Faulty == \E w \in DOMAIN work : work[w].fault

\* The rest of runRound: the round is failed without a byte, degraded after a
\* fault or without a latency sample, and so is the run.
RoundStatus == CASE TotalBytes = 0 -> "failed"
                 [] TotalBytes > 0 /\ (Faulty \/ aux.samples = 0) -> "degraded"
                 [] OTHER -> "ok"
RecordRound ==
  /\ main.pc = "probe" /\ aux.probe = "off" /\ Send
  /\ main' = [main EXCEPT !.pc = "round", !.round = @ + 1]
  /\ res' = [res EXCEPT !.rounds = @ + 1, !.worst = @ \/ RoundStatus # "ok",
                        !.degraded = @ \/ RoundStatus # "ok"]
  /\ work' = << >> /\ aux' = [Idle EXCEPT !.prog = aux.prog, !.reader = aux.reader]
  /\ UNCHANGED <<cfg, intr, held>>

\* The end of Run: interrupted, or the summary and the exit code.
Summarize ==
  /\ main.pc = "round" /\ main.round > Len(Plan)
  /\ IF intr THEN FinishRun(130) /\ UNCHANGED bus
             ELSE FinishRun(IF res.degraded THEN 2 ELSE 0) /\ Send
  /\ UNCHANGED <<cfg, intr, work, aux, held>>

\* runSpeedMode after the run: the document, then the deferred calls; Close of the
\* bus stops new sends and waits until the renderer has drained the channel.
CloseBus ==
  /\ main.pc = "return" /\ ~ bus.closed
  /\ bus' = [bus EXCEPT !.closed = TRUE]
  /\ \E encoded \in BOOLEAN :
       /\ ~ encoded => cfg.json
       /\ res' = [res EXCEPT !.exit = IF encoded THEN @ ELSE 1]
  /\ UNCHANGED <<cfg, intr, main, work, aux, held>>

CloseAll ==
  /\ main.pc = "return" /\ bus.closed /\ bus.q = 0
  /\ Goto("closed") /\ held' = {}
  /\ UNCHANGED <<cfg, intr, res, work, aux, bus>>

Render ==
  /\ bus.q > 0 /\ bus' = [bus EXCEPT !.q = @ - 1]
  /\ UNCHANGED <<cfg, intr, main, res, work, aux, held>>

Interrupt ==
  /\ ~ intr /\ main.pc \notin {"load", "closed"}
  /\ intr' = TRUE
  /\ UNCHANGED <<cfg, main, res, work, aux, bus, held>>

MainStep ==
  \/ LoadConfig \/ ResolveCandidates \/ BuildCandidate \/ SelectCandidate \/ RenderSelection
  \/ OpenPrompt \/ TakeChoice \/ Connect \/ MeasureIdle \/ IdleDone \/ StartRound \/ JoinWorkers \/ StopProbe
  \/ RecordRound \/ Summarize \/ CloseBus \/ CloseAll

WorkerStep(w) == WorkerConnect(w) \/ WorkerChunk(w) \/ WorkerEnds(w)

SpNext ==
  \/ MainStep \/ Render \/ Interrupt \/ Expire \/ ProgressTick \/ ProgressEnds \/ ProbeLoop
  \/ ReadChoice \/ \E w \in DOMAIN work : WorkerStep(w)

(***************************************************************************)
(* Properties                                                              *)
(***************************************************************************)
\* When the process is about to exit the goroutines of the rounds have ended, all that was
\* printed is on the terminal and all that was opened is closed (transfer.Run, Probe.Stop,
\* Bus.Close, the deferred calls of runSpeedMode).  One goroutine may be left, the reader of
\* the prompt, and only behind an interrupt, without a round run and without success
\* (promptChoice).  Exit code 0 means that every planned round was run and was good, that
\* idle latency and asked-for metadata were obtained.
SpeedRunClean ==
  main.pc = "closed" =>
    /\ held = {} /\ bus.q = 0 /\ aux.probe = "off" /\ ~ aux.prog
    /\ \A w \in DOMAIN work : work[w].st = "done"
    /\ aux.reader # "off" => intr /\ res.rounds = 0 /\ res.exit # 0
    /\ res.exit = 0 /\ ~ cfg.help =>
         /\ res.rounds = Len(Plan) /\ ~ res.worst
         /\ res.idle = "ok" /\ (cfg.metadata => res.conn = "ok")
=============================================================================
