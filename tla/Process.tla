------------------------------ MODULE Process ------------------------------
(***************************************************************************)
(* The process: Execute (Cli.tla) and the modes it hands over to, with what *)
(* runs beside them: the reader of the standard input, the keyboard of the  *)
(* MTR screen, the goroutines of the speed test.                            *)
(***************************************************************************)
EXTENDS Nali, FastTrace, Globalping, MtrUI, SpeedTest

procVars == <<cli, nali, fast, stdin, gp, ui, spVars>>

ProcInit ==
  /\ CliInit /\ NaliInit /\ FastInit /\ GpInit /\ UIInit /\ SpInit
  /\ "speed" \notin cli.o => cfg = CHOOSE r \in Requests : TRUE

\* Execute: os.Exit with the code of the speed test.
SpeedExit ==
  /\ cli.pc = "running" /\ cli.mode = "speed" /\ main.pc = "closed"
  /\ OsExit(res.exit)

SpeedRuns == cli.pc = "running" /\ cli.mode = "speed"
OnlyCli == UNCHANGED <<nali, fast, stdin, gp, ui, spVars>>

DoCli     == (CliStep \/ SpeedExit) /\ OnlyCli
DoOther   == (MTRFails \/ TypeKey \/ DeployEnds \/ Signal) /\ OnlyCli
DoNali    == NaliNext /\ UNCHANGED <<fast, stdin, gp, ui, spVars>>
DoFast    == FastNext /\ UNCHANGED <<nali, gp, ui, spVars>>
DoGp      == GpNext /\ UNCHANGED <<nali, fast, stdin, ui, spVars>>
DoUI      == UINext /\ UNCHANGED <<nali, fast, stdin, gp, spVars>>
DoSpeed   == SpeedRuns /\ SpNext /\ UNCHANGED <<cli, nali, fast, stdin, gp, ui>>

ProcNext == DoCli \/ DoOther \/ DoNali \/ DoFast \/ DoGp \/ DoUI \/ DoSpeed

\* Goroutines run; lookups, traces and requests end (all have time limits); the server
\* shuts down when told to.  Nobody has to type, and nothing makes a listener fail.
ProcFairness ==
  /\ WF_procVars(DoCli)
  /\ WF_procVars(cli.intr /\ DeployEnds /\ OnlyCli)
  /\ WF_procVars(NaliStep /\ UNCHANGED <<fast, stdin, gp, ui, spVars>>)
  /\ WF_procVars(FastStep /\ UNCHANGED <<nali, gp, ui, spVars>>)
  /\ WF_procVars(GpStep /\ UNCHANGED <<nali, fast, stdin, ui, spVars>>)
  /\ WF_procVars(UIStep /\ UNCHANGED <<nali, fast, stdin, gp, spVars>>)
  /\ WF_spVars(SpeedRuns /\ MainStep) /\ WF_spVars(SpeedRuns /\ Render)
  /\ WF_spVars(SpeedRuns /\ Expire) /\ WF_spVars(SpeedRuns /\ ProgressEnds)
  /\ WF_spVars(SpeedRuns /\ ProbeLoop)
  /\ \A w \in 1 .. 2 : WF_spVars(SpeedRuns /\ w \in DOMAIN work /\ WorkerStep(w))

ProcSpec == ProcInit /\ [][ProcNext]_procVars /\ ProcFairness

\* An interrupted process ends, whatever it is doing: a prompt, a poll, a transfer, a trace
\* of a list.  The one exception is a read of nali's input that cannot be interrupted.
\* (A signal that comes before a mode has its own signal context is not seen by it.)
InterruptEnds ==
  ((cli.sig /\ cli.pc = "running") \/ intr) ~> (cli.pc = "exited" \/ (nali.pc = "reading" /\ nali.blocking))
=============================================================================
