------------------------------ MODULE FastTrace ------------------------------
(***************************************************************************)
(* `nexttrace --fast-trace` and `--file` (fast_trace/) with the reader of   *)
(* the standard input that every prompt of the process shares (util.go):    *)
(* a goroutine that reads one line per request, until the input ends.       *)
(* The lists of targets are constants of the code: here any number of       *)
(* targets, each traced as Tracer.tla says.                                 *)
(***************************************************************************)
EXTENDS Cli, Sequences

CONSTANTS MenuLines, MaxTargets

\* "none" and "error" stand for no line and for the end of the input, and are no lines.
ASSUME MenuAssumption == MenuLines \cap {"none", "error"} = {}

VARIABLES
  fast,   \* [pc, list (the targets chosen from), choice, targets (left), log (the file is open)]
  stdin   \* stdinLineReader: [reader, got (the response), term (terminalDone is closed),
          \*  line (ghost: what was typed for the pending request)]

fastIdle == [pc |-> "start", list |-> "none", choice |-> "", targets |-> 0, log |-> FALSE]
stdinIdle == [reader |-> "idle", got |-> "none", term |-> FALSE, line |-> "none"]
FastInit == fast = fastIdle /\ stdin = stdinIdle

FastRuns == cli.pc = "running" /\ cli.mode = "fast"
FastReturns == Return(cli) /\ fast' = fastIdle /\ stdin' = stdinIdle

\* loadIPList: how many targets a file has; lines that are no address and do not resolve
\* are ignored, a file that cannot be read is empty.
loadIPList == 0 .. MaxTargets

\* FastTest: a file of targets, else the menu.  (The runtime was prepared, so that no
\* second WebSocket is opened.)
FastTest ==
  /\ FastRuns /\ fast.pc = "start"
  /\ IF Has("file") THEN \E n \in loadIPList : fast' = [fast EXCEPT !.pc = "targets", !.list = "file", !.targets = n]
                    ELSE fast' = [fast EXCEPT !.pc = "prompt"]
  /\ UNCHANGED <<cli, stdin>>

\* promptFastTraceChoice and stdinLineReader.read: the request, unless interrupted;
\* once the input has ended there is no answer, and the default is taken.
promptFastTraceChoice ==
  /\ FastRuns /\ fast.pc = "prompt"
  /\ IF cli.intr THEN FastReturns
     ELSE /\ IF stdin.reader \in {"ending", "ended"}
             THEN /\ stdin.term /\ stdin' = [stdin EXCEPT !.line = "none"]
                  /\ fast' = [fast EXCEPT !.pc = "answered", !.choice = "default"]
             ELSE /\ stdin' = [stdin EXCEPT !.reader = "reading", !.got = "none", !.line = "none"]
                  /\ fast' = [fast EXCEPT !.pc = "waiting"]
          /\ UNCHANGED cliVars

\* The reading goroutine: a line, possibly the last one, or the end of the input.
ReadLine ==
  /\ FastRuns /\ stdin.reader = "reading"
  /\ \/ \E c \in MenuLines, eof \in BOOLEAN :
          stdin' = [stdin EXCEPT !.reader = IF eof THEN "ending" ELSE "idle", !.got = c, !.line = c]
     \/ stdin' = [stdin EXCEPT !.reader = "ending", !.got = "error"]
  /\ UNCHANGED <<cli, fast>>
setTerminalErr ==
  /\ FastRuns /\ stdin.reader = "ending"
  /\ stdin' = [stdin EXCEPT !.reader = "ended", !.term = TRUE]
  /\ UNCHANGED <<cli, fast>>

Answered(c) == /\ fast' = [fast EXCEPT !.pc = "answered", !.choice = IF c \in {"", "error", "none"} THEN "default" ELSE c]
               /\ UNCHANGED <<cli, stdin>>

\* Mutant: the end of the input is taken for no answer.
waitResult_NoRecheck ==
  /\ FastRuns /\ fast.pc = "waiting"
  /\ \/ cli.intr /\ FastReturns
     \/ ~ cli.intr /\ stdin.got # "none" /\ Answered(stdin.got)
     \/ ~ cli.intr /\ stdin.term /\ Answered("none")

\* Mutant: the context is not waited for.
waitResult_NoContext ==
  /\ FastRuns /\ fast.pc = "waiting" /\ (stdin.got # "none" \/ stdin.term)
  /\ IF cli.intr THEN FastReturns ELSE Answered(stdin.got)

\* waitResult and resultLine: select takes any case that is ready; behind the end of the
\* input the response is looked at again.
waitResult ==
  /\ FastRuns /\ fast.pc = "waiting"
  /\ \/ cli.intr /\ FastReturns
     \/ ~ cli.intr /\ (stdin.got # "none" \/ stdin.term) /\ Answered(stdin.got)

\* FastTest and FastTestv6: the first answer is the family, and the second prompt follows.
chooseFamily ==
  /\ FastRuns /\ fast.pc = "answered" /\ fast.list = "none"
  /\ fast' = [fast EXCEPT !.pc = "prompt", !.list = IF fast.choice = "2" THEN "v6" ELSE "v4"]
  /\ UNCHANGED <<cli, stdin>>

\* The second one is the list: at least the three targets of a city.
Selected(list) ==
  /\ FastRuns /\ fast.pc = "answered" /\ fast.list = list
  /\ \E n \in 1 .. MaxTargets : fast' = [fast EXCEPT !.pc = "targets", !.targets = n]
  /\ UNCHANGED <<cli, stdin>>
runFastTraceByChoice   == Selected("v4")
runFastTestv6Selection == Selected("v6")

\* A target up to its trace: the lookup, the sizes and the source may fail, and the target
\* is skipped; a log that cannot be opened or written is replaced by the terminal
\* (configureFastTraceRealtimePrinter).
Trace(list) ==
  /\ FastRuns /\ fast.pc = "targets" /\ fast.list = list /\ fast.targets > 0
  /\ \/ fast' = [fast EXCEPT !.targets = @ - 1]
     \/ \E opened \in BOOLEAN :
          /\ opened => HasAny({"output", "outputDefault"})
          /\ fast' = [fast EXCEPT !.pc = "tracing", !.log = opened]
  /\ cli' = [cli EXCEPT !.text = TRUE] /\ UNCHANGED stdin
runFileTraceTarget == Trace("file")
tracert            == Trace("v4")
tracert_v6         == Trace("v6")

\* The trace returns, with or without an error; the log is closed and the next one goes on.
TargetDone ==
  /\ FastRuns /\ fast.pc = "tracing"
  /\ fast' = [fast EXCEPT !.pc = "targets", !.targets = @ - 1, !.log = FALSE]
  /\ UNCHANGED <<cli, stdin>>

\* maybeRunFastTraceMode: the line about the log, and Execute returns.
FastDone == FastRuns /\ fast.pc = "targets" /\ fast.targets = 0 /\ FastReturns

FastStep == FastTest \/ promptFastTraceChoice \/ setTerminalErr \/ waitResult \/ chooseFamily
            \/ runFastTraceByChoice \/ runFastTestv6Selection
            \/ runFileTraceTarget \/ tracert \/ tracert_v6 \/ TargetDone \/ FastDone
FastNext == FastStep \/ ReadLine

\* An answer of the menu is the line that was typed for it: the default stands for an
\* empty line and for an input that ended without one (waitResult, setTerminalErr).
AnswerAsTyped ==
  fast.pc = "answered" => fast.choice = IF stdin.line \in {"none", ""} THEN "default" ELSE stdin.line
=============================================================================
