-------------------------------- MODULE Cli --------------------------------
(***************************************************************************)
(* The command line: Execute of cmd/cmd.go with the modes of cmd/.  One     *)
(* action per block of Execute, in its order; what the network, the user    *)
(* and the system answer is a choice.  A command line is the set of flags   *)
(* given; a flag with a value stands for a value of the kind its name says. *)
(*                                                                         *)
(* Stdout is counted in JSON documents and other text; messages of failing  *)
(* flags go nowhere.  The full build is modelled (every mode available).    *)
(***************************************************************************)
EXTENDS Integers, FiniteSets

CONSTANTS
  CommandLines,    \* sets of flags
  Listens,         \* listen addresses: [ok, host], what SplitHostPort makes of them
  MaxToken         \* bound: characters of a token typed in

VARIABLES
  cli    \* [pc, o (flags), mode, held, exit, doc, text, intr, sig, leo, auth, typed]: o the flags,
         \* sig the running mode's own signal context, leo how often a WebSocket was opened

cliVars == <<cli>>

Has(f) == f \in cli.o
HasAny(fs) == cli.o \cap fs # {}

CliInit ==
  \E o \in CommandLines :
    cli = [pc |-> "speed", o |-> o, mode |-> "none", held |-> {}, exit |-> -1, doc |-> 0,
           text |-> FALSE, intr |-> FALSE, sig |-> FALSE, leo |-> 0, auth |-> "none", typed |-> 0]

\* Where Execute goes on; os.Exit runs no deferred call, return runs them all.
Go(pc) == cli' = [cli EXCEPT !.pc = pc]
OsExit(code) == cli' = [cli EXCEPT !.pc = "exited", !.exit = code, !.o = {}]
Return(c) == cli' = [c EXCEPT !.pc = "exited", !.exit = 0, !.held = {}, !.o = {}]
\* The mode runs: the flags it does not read are forgotten.
ModeFlags == {"nali", "deploy", "mtu", "mtr", "report", "wide", "fast", "file", "from", "raw"}
Enter(c, mode, keep) == cli' = [c EXCEPT !.pc = "running", !.mode = mode, !.o = @ \cap (keep \cup ModeFlags)]

\* deriveEffectiveMTRModes
MTR == HasAny({"mtr", "report", "wide"})

\* maybeRunSpeedMode: looked for before anything is parsed.
MaybeRunSpeedMode ==
  /\ cli.pc = "speed"
  /\ IF Has("speed") THEN cli' = [cli EXCEPT !.pc = "running", !.mode = "speed", !.o = {}] ELSE Go("parse")

\* The parser.  A parse error prints the usage and returns.
ParseArgs ==
  /\ cli.pc = "parse"
  /\ CASE Has("unknown") -> Return([cli EXCEPT !.text = TRUE])
       [] ~ Has("unknown") /\ Has("setup") -> cli' = [cli EXCEPT !.pc = "running", !.mode = "token", !.o = {}, !.held = {"tty"}]
       [] OTHER -> Go("nali")

(***************************************************************************)
(* -x: the token typed in, hidden, and stored for the session              *)
(***************************************************************************)
\* readNextTraceAPIV4HiddenToken: one key at a time, the terminal in raw mode.
TypeKey ==
  /\ cli.mode = "token" /\ "tty" \in cli.held
  /\ \E key \in {"char", "backspace", "enter", "ctrl-D", "ctrl-C", "fails"} :
       /\ key = "char" => cli.typed < MaxToken
       /\ LET over(a) == cli' = [cli EXCEPT !.held = {}, !.auth = a,
                                   !.typed = IF key = "ctrl-C" THEN 0 ELSE @] IN
          CASE key = "char"      -> cli' = [cli EXCEPT !.typed = @ + 1]
            [] key = "backspace" -> cli' = [cli EXCEPT !.typed = IF @ > 0 THEN @ - 1 ELSE @]
            [] key = "enter"     -> over("read")
            [] key = "ctrl-D"    -> over("read")
            [] key = "ctrl-C"    -> over("interrupted")
            [] OTHER             -> over("failed")

\* runNextTraceAPIV4TokenSetup after the terminal is restored (which may fail too).
StoreToken ==
  /\ cli.mode = "token" /\ cli.held = {} /\ cli.pc = "running"
  /\ CASE cli.auth = "interrupted" -> OsExit(130)
       [] cli.auth = "failed" -> OsExit(1)
       [] OTHER ->
            \/ OsExit(1)
            \/ Return([cli EXCEPT !.auth = IF cli.typed > 0 THEN "written" ELSE "empty"])

(***************************************************************************)
(* Which mode                                                              *)
(***************************************************************************)
\* What --nali refuses (validateNaliModeOptions); "probe" stands for the flags of a probe.
NaliConflicts == {"json", "mtu", "mtr", "report", "wide", "raw", "table", "classic", "output",
  "outputDefault", "route", "from", "deploy", "listen", "fast", "file", "tcp", "udp", "probe",
  "psize", "tos", "badTos", "queries", "source", "init", "ipinfo"}

RunNali ==
  /\ cli.pc = "nali"
  /\ IF ~ Has("nali") THEN Go("validate")
     ELSE CASE Has("version") -> OsExit(0)
            [] ~ Has("version") /\ (HasAny(NaliConflicts) \/ {"ipv4", "ipv6"} \subseteq cli.o) -> OsExit(1)
            [] OTHER -> cli' = [cli EXCEPT !.pc = "leo", !.mode = "nali", !.held = {"fastip"}]

\* Mutant: --fast-trace is not in the list.
MTRConflicts_NoFast == {"table", "classic", "json", "output", "outputDefault", "route", "from", "file", "deploy"}
\* checkMTRConflicts
MTRConflicts == {"table", "classic", "json", "output", "outputDefault", "route", "from",
                 "fast", "file", "deploy"}
\* buildMTUConflictFlags
MTUConflicts == {"tcp", "mtr", "report", "wide", "raw", "table", "classic", "route", "output",
                 "outputDefault", "from", "fast", "file", "deploy"}

\* resolveOutputPath, validateJSONRealtimeOutput and the conflicts of --mtu and --mtr.
Validate ==
  /\ cli.pc = "validate"
  /\ IF \/ {"output", "outputDefault"} \subseteq cli.o
        \/ Has("json") /\ HasAny({"output", "outputDefault"})
        \/ Has("mtu") /\ HasAny(MTUConflicts)
        \/ MTR /\ HasAny(MTRConflicts)
        \/ Has("mcp") /\ ~ Has("deploy")
     THEN OsExit(1) ELSE Go("startup")

\* handleStartupModes: the banner, --version, --deploy, and --init on Windows.
StartupModes ==
  /\ cli.pc = "startup"
  /\ LET shown == [cli EXCEPT !.text = @ \/ ~ (Has("json") \/ MTR)] IN
     CASE Has("version") -> OsExit(0)
       [] ~ Has("version") /\ Has("deploy") -> cli' = [shown EXCEPT !.pc = "deploy"]
       [] ~ HasAny({"version", "deploy"}) /\ Has("init") -> OsExit(1) \/ Return(shown)
       [] OTHER -> cli' = [shown EXCEPT !.pc = "probe", !.held = {"fastip"}]

(***************************************************************************)
(* --deploy                                                                *)
(***************************************************************************)
\* normalizeListenAddr and splitListenAddr: none is the loopback address, digits only
\* are a port of every interface.
Exposed(a) == a.host \notin {"loopback", "localhost"}
deployListenRequiresToken(a) == ~ a.ok \/ Exposed(a)

\* maybeRunDeployMode and resolveDeployAuthPlan: the token of the flag or of the
\* environment, else one is generated where others could connect.
RunDeploy ==
  /\ cli.pc = "deploy"
  /\ \E a \in Listens, env \in BOOLEAN :
       LET addr == IF Has("listen") THEN a ELSE [ok |-> TRUE, host |-> "loopback"]
           plan == IF Has("token") \/ env THEN "given"
                   ELSE IF deployListenRequiresToken(addr) THEN "generated" ELSE "none"
       IN \/ plan = "generated" /\ OsExit(1)
          \/ addr.ok /\ cli' = [cli EXCEPT !.pc = "running", !.mode = "deploy", !.text = TRUE,
                                  !.auth = plan,
                                  !.o = @ \cup (IF Exposed(addr) THEN {"exposed"} ELSE {})]
          \/ OsExit(1)

\* RunWithOptions: served until a signal, or an error of the listener.
DeployEnds ==
  /\ cli.pc = "running" /\ cli.mode = "deploy"
  /\ IF cli.intr THEN Return(cli) ELSE OsExit(1)

(***************************************************************************)
(* One run                                                                 *)
(***************************************************************************)
\* Up to configureGeoDNS: --tos in range, the default port, the clamp of the counts
\* (not for TCP), which prints.
ProbeSettings ==
  /\ cli.pc = "probe"
  /\ IF Has("badTos") THEN OsExit(1)
     ELSE cli' = [cli EXCEPT !.text = @ \/ (Has("queries") /\ ~ Has("tcp")),
                    !.pc = IF Has("mtu") THEN "mtu" ELSE "fast"]

\* The checks of --mtu: flags, privileges.
MTUChecks ==
  /\ cli.pc = "mtu"
  /\ \/ HasAny({"psize", "tos"}) /\ OsExit(1)
     \/ ~ HasAny({"psize", "tos"}) /\ (OsExit(1) \/ Go("target"))

\* runFastTraceModeWithRuntime: the runtime, the traces, and the line about the log.
FastTraceMode ==
  /\ cli.pc = "fast"
  /\ IF ~ Has("from") /\ HasAny({"fast", "file"})
     THEN cli' = [cli EXCEPT !.pc = "leo", !.mode = "fast"]
     ELSE Go("target")

\* resolveCLITargetOrExit: no target prints the usage.
Target ==
  /\ cli.pc = "target"
  /\ IF Has("noTarget") THEN Return([cli EXCEPT !.text = TRUE])
     ELSE Go(IF Has("mtu") THEN "lookup" ELSE "leo")

\* prepareRuntimeEnvironment and initLeoRuntime: the message about privileges; LeoMoeAPI,
\* unless DN42, -d or the environment replace it; with an API v4 token that works there
\* is no WebSocket.
PrepareRuntime ==
  /\ cli.pc = "leo"
  /\ \E ws, message \in BOOLEAN :
       /\ ws => ~ Has("dn42")
       /\ message => cli.mode # "nali"
       /\ LET c == [cli EXCEPT !.leo = @ + (IF ws THEN 1 ELSE 0), !.text = @ \/ message,
                               !.held = IF ws THEN @ \cup {"leo"} ELSE @]
          IN IF cli.mode \in {"nali", "fast"}
             THEN Enter(c, cli.mode, IF cli.mode = "nali" THEN {"ipv4", "ipv6", "noTarget"}
                                                              ELSE {"output", "outputDefault"})
             ELSE cli' = [c EXCEPT !.pc = IF Has("mtu") THEN "runMTU" ELSE "globalping",
                                   !.sig = IF Has("mtu") THEN FALSE ELSE @]

\* --from: flags Globalping does not know, then the measurement.
GlobalpingMode ==
  /\ cli.pc = "globalping"
  /\ CASE ~ Has("from") -> Go("lookup")
       [] Has("from") /\ HasAny({"psize", "tos"}) -> OsExit(1)
       [] OTHER -> Enter(cli, "globalping", {"json", "table", "raw", "nomap"})

\* DomainLookUpWithContext, with the choice among several addresses: the lookup's own time
\* limit gives the same error as an interrupt.
DomainLookUp == IF cli.intr THEN {"stopped"} ELSE {"address", "fails", "stopped"}

\* lookupTargetIPOrExit: a context that is done returns, any other failure is fatal.
Lookup ==
  /\ cli.pc = "lookup"
  /\ \E found \in DomainLookUp :
       \/ found = "stopped" /\ Return(cli)
       \/ found = "fails" /\ OsExit(1)
       \/ found = "address" /\ Go("source")

\* ResolveConfiguredSrcAddr and NormalizeExplicitSourceConfig: only a source or device
\* that was asked for can be refused.
SourceRefused == Has("source") /\ OsExit(1)

\* The source, then NormalizePacketSize; a classic trace prints its first line between them.
Source ==
  /\ cli.pc = "source"
  /\ \/ SourceRefused
     \/ Has("psize") /\ OsExit(1)
     \/ cli' = [cli EXCEPT !.text = @ \/ ~ (Has("json") \/ MTR \/ Has("mtu")),
                  !.pc = IF Has("mtu") THEN "leo" ELSE IF MTR THEN "mtr" ELSE "printers"]

\* runStandaloneMTUMode, with a signal context of its own: only --json prints a document.
RunMTU ==
  /\ cli.pc = "runMTU"
  /\ \/ Return([cli EXCEPT !.text = @ \/ ~ cli.sig])      \* failed or cancelled
     \/ Return([cli EXCEPT !.doc = IF Has("json") THEN @ + 1 ELSE @, !.text = @ \/ ~ Has("json")])

\* maybeRunMTRMode: raw before report before the terminal UI, which alone checks --ipinfo
\* and takes the terminal.  Each has a signal context of its own.
MTRMode ==
  /\ cli.pc = "mtr"
  /\ LET c == [cli EXCEPT !.sig = FALSE] IN
     CASE Has("raw") -> Enter(c, "mtrRaw", {"queries"})
       [] ~ Has("raw") /\ HasAny({"report", "wide"}) -> Enter(c, "mtrReport", {})
       [] ~ HasAny({"raw", "report", "wide"}) /\ Has("ipinfo") -> OsExit(1)
       [] OTHER -> Enter([c EXCEPT !.held = @ \cup {"screen"}], "mtrTUI", {"queries"})

\* A run of MTR ends: cancelled, or its budget spent (deriveMTRProbeParams: none without
\* -q but in a report).  Every way leads through the deferred calls.
MTREnds ==
  /\ cli.pc = "running" /\ cli.mode \in {"mtrRaw", "mtrReport", "mtrTUI"}
  /\ cli.sig \/ cli.mode = "mtrReport" \/ Has("queries")
  /\ Return([cli EXCEPT !.text = @ \/ cli.mode = "mtrReport"])
MTRFails ==
  /\ cli.pc = "running" /\ cli.mode \in {"mtrRaw", "mtrReport", "mtrTUI"}
  /\ Return([cli EXCEPT !.text = @ \/ cli.mode # "mtrRaw"])

\* configureTracePrinters and applyJSONOutputMode: a log file that cannot be opened is fatal.
Printers ==
  /\ cli.pc = "printers"
  /\ LET logs == HasAny({"output", "outputDefault"}) /\ ~ HasAny({"table", "classic", "raw"}) IN
     \/ logs /\ OsExit(1)
     \/ \E uninterrupted \in BOOLEAN :
          cli' = [cli EXCEPT !.held = IF logs THEN @ \cup {"log"} ELSE @, !.pc = "running",
                             !.mode = IF uninterrupted /\ Has("raw") THEN "rawLoop" ELSE "trace"]

\* maybeRunUninterruptedRaw: one trace after the other until the context is done.
RawLoop ==
  /\ cli.pc = "running" /\ cli.mode = "rawLoop"
  /\ IF cli.intr THEN Return(cli) ELSE cli' = [cli EXCEPT !.text = TRUE]

\* runTraceOnce: cancelled or failed, the run returns without a result.
TraceOnce ==
  /\ cli.pc = "running" /\ cli.mode = "trace"
  /\ \/ Return([cli EXCEPT !.text = @ \/ ~ cli.intr])
     \/ cli' = [cli EXCEPT !.pc = "final", !.text = @ \/ ~ Has("json") \/ Has("table")]

\* finalizeTraceResult: the reports, the map and the document.  A map that fails is
\* printed as an error and ends it.
Finalize ==
  /\ cli.pc = "final"
  /\ LET c == [cli EXCEPT !.text = @ \/ HasAny({"table", "route"})] IN
     \/ ~ Has("nomap") /\ Return([c EXCEPT !.text = TRUE])
     \/ Return([c EXCEPT !.doc = IF Has("json") THEN 1 ELSE 0, !.text = @ \/ ~ Has("json")])

\* SIGINT or SIGTERM, from signal.NotifyContext on; the speed test has a context of its own.
Signal ==
  /\ ~ cli.sig /\ cli.pc \notin {"speed", "parse", "exited"} /\ cli.mode \notin {"token", "speed"}
  /\ cli' = [cli EXCEPT !.intr = TRUE, !.sig = TRUE]

CliStep ==
  \/ MaybeRunSpeedMode \/ ParseArgs \/ StoreToken \/ RunNali \/ Validate \/ StartupModes \/ RunDeploy
  \/ ProbeSettings \/ MTUChecks \/ FastTraceMode \/ Target \/ PrepareRuntime \/ GlobalpingMode
  \/ Lookup \/ Source \/ RunMTU \/ MTRMode \/ MTREnds \/ Printers \/ RawLoop \/ TraceOnce \/ Finalize

(***************************************************************************)
(* Properties                                                              *)
(***************************************************************************)
\* The mode that runs is the one asked for: no flag of another mode was given, but
\* --deploy wins over a single run and --from over --fast-trace and --file (the lists
\* of conflicts and the order of Execute's branches).
ModeAsAsked ==
  cli.pc = "running" =>
    LET mtr == {"mtr", "report", "wide"}
        asks == cli.o \cap (ModeFlags \ {"raw"})
    IN CASE cli.mode = "nali"   -> asks = {"nali"}
         [] cli.mode = "deploy" -> asks \cap (mtr \cup {"nali", "mtu"}) = {}
         [] cli.mode \in {"mtrRaw", "mtrReport", "mtrTUI"} -> asks \subseteq mtr /\ asks # {}
         [] cli.mode = "fast"   -> asks \subseteq {"fast", "file"}
         [] cli.mode \in {"trace", "rawLoop"} -> asks = {}
         [] cli.mode = "globalping" -> asks \subseteq {"from", "fast", "file"}
         [] OTHER -> TRUE

=============================================================================
