----------------------------- MODULE Globalping -----------------------------
(***************************************************************************)
(* Traces from a probe of the Globalping network: `--from` of the command   *)
(* line (trace/globalping.go, cmd/globalping_full.go) and the tool of the   *)
(* MCP endpoint of --deploy (internal/service/globalping_full.go).  A       *)
(* measurement is created, polled until it is over, and translated; what    *)
(* counts of its hops is how many addresses have to be looked up.           *)
(***************************************************************************)
EXTENDS Cli

CONSTANTS MaxGpAddrs

VARIABLES
  gp   \* [pc, tool (called by a client), calls, lookups (addresses not in geoMap)]

gpIdle == [pc |-> "idle", tool |-> FALSE, calls |-> 0, lookups |-> 0]
GpInit == gp = gpIdle

GpCLI == cli.pc = "running" /\ cli.mode = "globalping"
GpTool == cli.pc = "running" /\ cli.mode = "deploy" /\ gp.tool

\* The call is over: the command line prints the error and returns, the tool answers.
GpFails ==
  IF gp.tool THEN gp' = [gpIdle EXCEPT !.calls = 1] /\ UNCHANGED cliVars
             ELSE Return([cli EXCEPT !.text = TRUE]) /\ gp' = gpIdle

\* GlobalpingTraceroute: the measurement is created.
GpCreate ==
  /\ GpCLI /\ gp.pc = "idle"
  /\ \/ GpFails
     \/ gp' = [gp EXCEPT !.pc = "await"] /\ UNCHANGED cliVars

\* The tool: buildGlobalpingCreate refuses a protocol, a port or a version it does not know.
GlobalpingTrace ==
  /\ cli.pc = "running" /\ cli.mode = "deploy" /\ Has("mcp") /\ gp.calls = 0
  /\ \E pc \in {"idle", "await"} : gp' = [gp EXCEPT !.pc = pc, !.tool = pc = "await", !.calls = 1]
  /\ UNCHANGED cliVars

\* awaitGlobalpingMeasurement: polled until it is not in progress, fails or is interrupted.
awaitGlobalping ==
  /\ (GpCLI \/ GpTool) /\ gp.pc = "await"
  /\ \/ GpFails
     \/ ~ cli.intr /\ gp' = [gp EXCEPT !.pc = "decode"] /\ UNCHANGED cliVars

\* decodeGlobalpingMeasurementHops: a measurement that did not finish, has no result or no
\* hops is an error.
decodeGlobalping ==
  /\ GpCLI /\ gp.pc = "decode"
  /\ \/ GpFails
     \/ /\ \E n \in 0 .. MaxGpAddrs : gp' = [gp EXCEPT !.pc = "rows", !.lookups = n]
        /\ UNCHANGED cliVars

\* translateGlobalpingMeasurement: every status and every result; hops that cannot be
\* decoded are an error.  Either way the tool has its answer.
translateGlobalping == GpTool /\ gp.pc = "decode" /\ GpFails

\* buildGlobalpingResult and mapGlobalpingHop: each address is looked up once, whatever the
\* answer (fetchIPData, which ends with the context).
buildGlobalpingResult ==
  /\ GpCLI /\ gp.pc = "rows" /\ gp.lookups > 0
  /\ gp' = [gp EXCEPT !.lookups = @ - 1] /\ UNCHANGED cliVars

\* handleGlobalpingTrace after the trace: the map, which may fail, then the document or
\* the printers.
GpOutput ==
  /\ GpCLI /\ gp.pc = "rows" /\ gp.lookups = 0
  /\ \/ ~ Has("nomap") /\ GpFails
     \/ /\ Return([cli EXCEPT !.doc = IF Has("json") THEN 1 ELSE 0, !.text = @ \/ ~ Has("json")])
        /\ gp' = gpIdle

GpStep == GpCreate \/ awaitGlobalping \/ decodeGlobalping \/ translateGlobalping
          \/ buildGlobalpingResult \/ GpOutput
GpNext == GpStep \/ GlobalpingTrace
=============================================================================
