--------------------------- MODULE ProcessProofs ---------------------------
(***************************************************************************)
(* Proofs about Process: for every set of command lines, every size of the *)
(* label cache, every list of lines and of escape sequences and every      *)
(* speed-test configuration, what each mode promises.                      *)
(*                                                                         *)
(* Each mode keeps its own part of the state, and the other modes leave it *)
(* alone; so there is one inductive invariant per mode, and a step of the  *)
(* process either is a step of the mode or leaves its variables unchanged. *)
(***************************************************************************)
EXTENDS Process, FiniteSetTheorems, SequenceTheorems, TLAPS

(***************************************************************************)
(* The command line.  What every block of Execute knows of the flags that  *)
(* are left, by the checks and branches before it.                         *)
(***************************************************************************)
Compatible ==
  /\ Has("mtu") => ~ HasAny(MTUConflicts)
  /\ MTR => ~ HasAny(MTRConflicts)

\* The blocks behind RunNali, behind Validate, behind StartupModes.
BehindStartup == {"probe", "mtu", "fast", "target", "leo", "globalping", "lookup", "source",
                  "runMTU", "mtr", "printers"}
BehindValidate == BehindStartup \cup {"startup", "deploy"}
BehindNali == BehindValidate \cup {"validate"}
OneRun == \/ cli.pc \in {"target", "globalping", "lookup", "source", "runMTU", "mtr", "printers"}
          \/ cli.pc = "leo" /\ cli.mode = "none"

FlagsInv ==
  /\ cli.pc \in {"speed", "parse", "nali"} => cli.mode = "none"
  /\ cli.pc \in BehindNali =>
       /\ cli.mode \in {"none"} \cup (IF cli.pc = "leo" THEN {"nali", "fast"} ELSE {})
       /\ Has("nali") <=> cli.mode = "nali"
       /\ cli.mode = "nali" => ~ HasAny(NaliConflicts)
  /\ cli.pc \in BehindValidate => Compatible \/ cli.mode = "nali"
  /\ cli.pc = "deploy" => Has("deploy")
  /\ cli.pc \in BehindStartup => ~ Has("deploy")
  /\ cli.pc = "mtu" => Has("mtu")
  /\ cli.pc \in {"fast", "globalping", "mtr", "printers"} => ~ Has("mtu")
  /\ cli.pc = "leo" /\ cli.mode = "fast" => HasAny({"fast", "file"}) /\ ~ HasAny({"mtu", "from"})
  /\ OneRun => Has("from") \/ ~ HasAny({"fast", "file"})
  /\ cli.pc \in {"lookup", "source", "mtr", "printers"} => ~ Has("from")
  /\ cli.pc = "mtr" => MTR
  /\ cli.pc = "printers" => ~ MTR

CliFields == {"pc", "o", "mode", "held", "exit", "doc", "text", "intr", "sig", "leo", "auth",
              "typed"}
CliInv == DOMAIN cli = CliFields /\ FlagsInv /\ ModeAsAsked

(***************************************************************************)
(* nali: the ring and what is stored last, from its oldest entry on.       *)
(***************************************************************************)
\* The place in a ring of n entries that is i places behind the next one to be written.
Place(n, next, i) == IF next + i <= n THEN next + i ELSE next + i - n

Labels(ring, next, newest, cache) ==
  /\ ring \in Seq(NaliIPs) /\ newest \in Seq(NaliIPs)
  /\ Len(ring) <= maxCacheEntries /\ Len(newest) = Len(ring)
  /\ next \in 0 .. maxCacheEntries - 1 /\ (Len(ring) < maxCacheEntries => next = 0)
  /\ \A i \in 1 .. Len(ring) : newest[i] = ring[Place(Len(ring), next, i)]
  /\ \A i, j \in 1 .. Len(ring) : ring[i] = ring[j] => i = j
  /\ cache = {ring[i] : i \in 1 .. Len(ring)}
  /\ IsFiniteSet(cache) /\ Cardinality(cache) = Len(ring)

NaliFields == {"pc", "todo", "last", "blocking", "ring", "next", "cache", "newest"}
NaliInv ==
  /\ DOMAIN nali = NaliFields /\ nali.todo \in Seq(NaliIPs)
  /\ Labels(nali.ring, nali.next, nali.newest, nali.cache)

(***************************************************************************)
(* --fast-trace: the answer to the prompt that waits for it.               *)
(***************************************************************************)
FastInv ==
  /\ DOMAIN fast = {"pc", "list", "choice", "targets", "log"}
  /\ DOMAIN stdin = {"reader", "got", "term", "line"}
  /\ stdin.reader = "reading" => fast.pc = "waiting" /\ stdin.got = "none" /\ stdin.line = "none"
  /\ stdin.term <=> stdin.reader = "ended"
  /\ fast.pc = "waiting" =>
       IF stdin.got \in {"none", "error"} THEN stdin.line = "none"
       ELSE stdin.line = stdin.got /\ stdin.got \in MenuLines
  /\ AnswerAsTyped

(***************************************************************************)
(* The keyboard: where the parser is k bytes into an escape sequence.      *)
(***************************************************************************)
ParserAt(s, k, state, n) ==
  /\ k = 0 => state = "ground"
  /\ k = 1 => state = "esc"
  /\ k >= 2 =>
       /\ FunctionKey(s) => state = "ss3"
       /\ Control(s)     => state = "csi" /\ n = k - 2
       /\ MouseX10(s)    => IF k = 2 THEN state = "csi" ELSE state = "x10" /\ n = k - 3
       /\ MouseSGR(s)    => state = (IF k = 2 THEN "csi" ELSE "sgr")
       /\ ReportBEL(s)   => state = "osc"
       /\ ReportST(s)    => state = (IF k = Len(s) - 1 THEN "esc" ELSE "osc")

\* The bytes left are those of s behind the first k.
LeftOf(todo, s, k) ==
  Len(todo) = Len(s) - k /\ \A i \in 1 .. Len(todo) : todo[i] = s[k + i]

UIFields == {"state", "csiN", "reader", "todo", "key", "items", "paused", "restart", "display",
             "name", "mpls", "history", "chart", "acted"}
UIInv ==
  /\ DOMAIN ui = UIFields /\ ui.csiN \in Nat /\ ui.todo \in Seq(Bytes) /\ ui.key \in BOOLEAN
  /\ ui.acted = FALSE
  /\ \/ ui.todo = << >> /\ ui.state = "ground"
     \/ ui.key /\ Len(ui.todo) = 1 /\ ui.todo[1] \in Keys /\ ui.state = "ground"
     \/ \E s \in Items : \E k \in 0 .. Len(s) - 1 :
          LeftOf(ui.todo, s, k) /\ ParserAt(s, k, ui.state, ui.csiN)

(***************************************************************************)
(* The speed test.                                                         *)
(***************************************************************************)
InRound == {"transfer", "join", "probe"}
BehindConnect == {"idle", "round"} \cup InRound
BehindIdle == {"round"} \cup InRound
Over == {"return", "closed"}

MainType == /\ DOMAIN main = {"pc", "cands", "todo", "sel", "idle", "left", "round"}
            /\ main.idle \in Nat /\ main.round \in Nat
ResType == /\ DOMAIN res = {"degraded", "rounds", "worst", "conn", "idle", "exit"}
           /\ res.degraded \in BOOLEAN /\ res.worst \in BOOLEAN
           /\ res.rounds \in Nat /\ res.exit \in Int
AuxType == /\ DOMAIN aux = {"prog", "ticks", "expired", "cancelled", "probe", "stop", "samples",
                           "reader"}
           /\ aux.prog \in BOOLEAN
BusType == DOMAIN bus = {"q", "closed"} /\ bus.q \in Nat
SpeedType == MainType /\ ResType /\ AuxType /\ BusType

\* Who runs, and what is left to print.
AliveInv ==
  /\ main.pc \notin InRound => aux.probe = "off" /\ work = << >>
  /\ main.pc \notin {"transfer", "join"} => ~ aux.prog
  /\ main.pc \in {"load", "closed"} => held = {} /\ bus.q = 0

\* Everything asked for was measured and was good.
Good == /\ res.rounds = Len(Plan) /\ ~ res.worst
        /\ res.idle = "ok" /\ (cfg.metadata => res.conn = "ok")

VerdictInv ==
  /\ main.pc \notin Over => res.exit # 0
  /\ main.pc \notin Over => main.round <= Len(Plan) + 1 /\ (~ intr => main.round = res.rounds + 1)
  /\ main.pc \in InRound => main.round <= Len(Plan)
  /\ ~ res.degraded => ~ res.worst
  /\ ~ res.degraded /\ main.pc \in BehindConnect => (cfg.metadata => res.conn = "ok")
  /\ ~ res.degraded /\ main.pc \in BehindIdle => res.idle = "ok"
  /\ main.pc \in Over /\ res.exit = 0 => cfg.help \/ Good

SpeedInv == SpeedType /\ AliveInv /\ VerdictInv

\* The reader outlives its prompt only behind an interrupt, which lets no round begin.
ReaderInv ==
  /\ main.pc \in {"load", "discover", "candidate", "select", "prompt", "chosen"} => res.rounds = 0
  /\ aux.reader # "off" =>
       /\ main.pc \in {"prompt", "chosen"} \cup Over
       /\ main.pc # "prompt" => intr /\ res.rounds = 0
       /\ main.pc \in Over => res.exit # 0

-----------------------------------------------------------------------------
(***************************************************************************)
(* The command line                                                        *)
(***************************************************************************)
\* Whoever leaves pc, mode and flags alone, or ends the process, keeps the invariant.
LEMMA SameCommand ==
  ASSUME CliInv, DOMAIN cli' = CliFields, cli'.pc = cli.pc, cli'.mode = cli.mode, cli'.o = cli.o
  PROVE  CliInv'
BY DEF CliInv, FlagsInv, ModeAsAsked, Compatible, OneRun, MTR, Has, HasAny

LEMMA Exited == ASSUME DOMAIN cli' = CliFields, cli'.pc = "exited" PROVE CliInv'
BY DEF CliInv, FlagsInv, ModeAsAsked, OneRun, BehindNali, BehindValidate, BehindStartup

LEMMA OsExitInv == ASSUME CliInv, NEW code, OsExit(code) PROVE CliInv'
<1>1. DOMAIN cli' = CliFields /\ cli'.pc = "exited"
  BY DEF OsExit, CliInv, CliFields
<1> QED
  BY <1>1, Exited

LEMMA ReturnInv == ASSUME NEW c, DOMAIN c = CliFields, Return(c) PROVE CliInv'
<1>1. DOMAIN cli' = CliFields /\ cli'.pc = "exited"
  BY DEF Return, CliFields
<1> QED
  BY <1>1, Exited

LEMMA HasAnyOf == ASSUME NEW fs PROVE HasAny(fs) <=> \E f \in fs : Has(f)
BY DEF HasAny, Has

\* A block that ends elsewhere than in a mode.
LEMMA GoInv ==
  ASSUME CliInv, DOMAIN cli' = CliFields, cli'.pc # "running", FlagsInv'
  PROVE  CliInv'
BY DEF CliInv, ModeAsAsked

\* The steps up to the parser and the mode of nali.
LEMMA EarlySteps ==
  ASSUME CliInv, MaybeRunSpeedMode \/ ParseArgs \/ RunNali
  PROVE  CliInv'
<1>0. DOMAIN cli = CliFields
  BY DEF CliInv
<1>1. CASE MaybeRunSpeedMode
  <2>1. /\ cli.pc = "speed"
        /\ cli' = [cli EXCEPT !.pc = "running", !.mode = "speed", !.o = {}] \/ Go("parse")
    BY <1>1 DEF MaybeRunSpeedMode
  <2>2. CASE cli' = [cli EXCEPT !.pc = "running", !.mode = "speed", !.o = {}]
    BY <1>0, <2>2 DEF CliInv, CliFields, FlagsInv, ModeAsAsked, OneRun, BehindNali, BehindValidate,
       BehindStartup
  <2>3. CASE Go("parse")
    BY <1>0, <2>1, <2>3 DEF Go, CliInv, CliFields, FlagsInv, ModeAsAsked, OneRun, BehindNali,
       BehindValidate, BehindStartup
  <2> QED
    BY <2>1, <2>2, <2>3
<1>2. CASE ParseArgs
  <2>1. CASE Has("unknown")
    <3>1. Return([cli EXCEPT !.text = TRUE])
      BY <1>2, <2>1 DEF ParseArgs
    <3> QED
      BY <1>0, <3>1, ReturnInv DEF CliFields
  <2>2. CASE ~ Has("unknown") /\ Has("setup")
    <3>1. cli' = [cli EXCEPT !.pc = "running", !.mode = "token", !.o = {}, !.held = {"tty"}]
      BY <1>2, <2>2 DEF ParseArgs
    <3> QED
      BY <1>0, <3>1 DEF CliInv, CliFields, FlagsInv, ModeAsAsked, OneRun, BehindNali,
         BehindValidate, BehindStartup
  <2>3. CASE ~ Has("unknown") /\ ~ Has("setup")
    <3>1. Go("nali") /\ cli.pc = "parse"
      BY <1>2, <2>3 DEF ParseArgs
    <3> QED
      BY <1>0, <3>1 DEF Go, CliInv, CliFields, FlagsInv, ModeAsAsked, OneRun, BehindNali,
         BehindValidate, BehindStartup
  <2> QED
    BY <2>1, <2>2, <2>3
<1>3. CASE RunNali
  <2>1. CASE ~ Has("nali")
    <3>1. Go("validate") /\ cli.pc = "nali"
      BY <1>3, <2>1 DEF RunNali
    <3> QED
      BY <1>0, <2>1, <3>1 DEF Go, CliInv, CliFields, FlagsInv, ModeAsAsked, OneRun, BehindNali,
         BehindValidate, BehindStartup, Has
  <2>2. CASE Has("nali")
    <3>1. \/ \E code : OsExit(code)
          \/ /\ ~ HasAny(NaliConflicts)
             /\ cli' = [cli EXCEPT !.pc = "leo", !.mode = "nali", !.held = {"fastip"}]
      BY <1>3, <2>2 DEF RunNali
    <3>2. ASSUME ~ HasAny(NaliConflicts),
                 cli' = [cli EXCEPT !.pc = "leo", !.mode = "nali", !.held = {"fastip"}]
          PROVE  CliInv'
      <4>1. cli'.pc = "leo" /\ cli'.mode = "nali" /\ cli'.o = cli.o /\ DOMAIN cli' = CliFields
        BY <1>0, <3>2 DEF CliFields
      <4>2. ~ Has("deploy")
        BY <3>2, HasAnyOf DEF NaliConflicts
      <4> QED
        BY <2>2, <3>2, <4>1, <4>2 DEF CliInv, FlagsInv, ModeAsAsked, OneRun, BehindNali,
           BehindValidate, BehindStartup, Has, HasAny
    <3> QED
      BY <3>1, <3>2, OsExitInv
  <2> QED
    BY <2>1, <2>2
<1> QED
  BY <1>1, <1>2, <1>3

\* Validate lets pass what is compatible.
LEMMA ValidateInv == ASSUME CliInv, Validate PROVE CliInv'
<1>1. OsExit(1) \/ (Go("startup") /\ Compatible)
  BY DEF Validate, Compatible
<1>2. ASSUME Go("startup"), Compatible PROVE CliInv'
  <2>1. cli'.pc = "startup" /\ cli'.mode = cli.mode /\ cli'.o = cli.o /\ DOMAIN cli' = CliFields
    BY <1>2 DEF Go, CliInv, CliFields
  <2>2. cli.mode = "none" /\ ~ Has("nali")
    BY DEF Validate, CliInv, FlagsInv, BehindNali
  <2> QED
    BY <1>2, <2>1, <2>2, GoInv DEF FlagsInv, OneRun, BehindNali, BehindValidate, BehindStartup,
       Compatible, MTR, Has, HasAny
<1> QED
  BY <1>1, <1>2, OsExitInv

LEMMA StartupInv == ASSUME CliInv, StartupModes PROVE CliInv'
<1>1. DOMAIN cli = CliFields /\ cli.mode = "none" /\ ~ Has("nali") /\ Compatible
  BY DEF StartupModes, CliInv, FlagsInv, BehindNali, BehindValidate
<1> DEFINE shown == [cli EXCEPT !.text = @ \/ ~ (Has("json") \/ MTR)]
<1>2. DOMAIN shown = CliFields /\ shown.o = cli.o /\ shown.mode = "none"
  BY <1>1 DEF CliFields
<1>3. \/ \E code : OsExit(code)
      \/ Return(shown)
      \/ Has("deploy") /\ cli' = [shown EXCEPT !.pc = "deploy"]
      \/ ~ Has("deploy") /\ cli' = [shown EXCEPT !.pc = "probe", !.held = {"fastip"}]
  BY HasAnyOf DEF StartupModes
<1> HIDE DEF shown
<1>4. ASSUME Has("deploy"), cli' = [shown EXCEPT !.pc = "deploy"] PROVE CliInv'
  <2>1. cli'.pc = "deploy" /\ cli'.mode = "none" /\ cli'.o = cli.o /\ DOMAIN cli' = CliFields
    BY <1>2, <1>4 DEF CliFields
  <2> QED
    BY <1>1, <1>4, <2>1, GoInv DEF FlagsInv, OneRun, BehindNali, BehindValidate, BehindStartup,
       Compatible, MTR, Has, HasAny
<1>5. ASSUME ~ Has("deploy"), cli' = [shown EXCEPT !.pc = "probe", !.held = {"fastip"}]
      PROVE  CliInv'
  <2>1. cli'.pc = "probe" /\ cli'.mode = "none" /\ cli'.o = cli.o /\ DOMAIN cli' = CliFields
    BY <1>2, <1>5 DEF CliFields
  <2> QED
    BY <1>1, <1>5, <2>1, GoInv DEF FlagsInv, OneRun, BehindNali, BehindValidate, BehindStartup,
       Compatible, MTR, Has, HasAny
<1> QED
  BY <1>2, <1>3, <1>4, <1>5, OsExitInv, ReturnInv

\* The server serves with --deploy, and with no flag that it would have refused.
LEMMA DeployInv == ASSUME CliInv, RunDeploy PROVE CliInv'
<1>1. /\ DOMAIN cli = CliFields /\ cli.mode = "none" /\ ~ Has("nali") /\ Compatible
      /\ Has("deploy")
  BY DEF RunDeploy, CliInv, FlagsInv, BehindNali, BehindValidate
<1>2. PICK auth, exposed :
        \/ OsExit(1)
        \/ cli' = [cli EXCEPT !.pc = "running", !.mode = "deploy", !.text = TRUE, !.auth = auth,
                      !.o = @ \cup (IF exposed THEN {"exposed"} ELSE {})]
  BY Zenon DEF RunDeploy
<1>3. ASSUME cli' = [cli EXCEPT !.pc = "running", !.mode = "deploy", !.text = TRUE, !.auth = auth,
                       !.o = @ \cup (IF exposed THEN {"exposed"} ELSE {})]
      PROVE  CliInv'
  <2>1. /\ cli'.pc = "running" /\ cli'.mode = "deploy" /\ DOMAIN cli' = CliFields
        /\ cli'.o \subseteq cli.o \cup {"exposed"}
    BY <1>1, <1>3 DEF CliFields
  <2>2. \A f \in {"mtr", "report", "wide", "nali", "mtu"} : ~ Has(f)
    BY <1>1, HasAnyOf DEF Compatible, MTR, MTUConflicts, MTRConflicts
  <2>3. ModeAsAsked'
    BY <2>1, <2>2, Zenon DEF ModeAsAsked, Has
  <2> QED
    BY <2>1, <2>3 DEF CliInv, FlagsInv, OneRun, BehindNali, BehindValidate, BehindStartup
<1> QED
  BY <1>2, <1>3, OsExitInv

\* A step to another block, or to the end of the run, that reads the flags only.
Moves(pc) == /\ cli'.pc = pc /\ cli'.mode = cli.mode /\ cli'.o = cli.o
             /\ DOMAIN cli' = CliFields

LEMMA MovesGo == ASSUME CliInv, NEW pc, Go(pc) PROVE Moves(pc)
BY DEF Go, CliInv, CliFields, Moves

\* The blocks of a single run that go on to another block.
LEMMA RunBlocks ==
  ASSUME CliInv, ProbeSettings \/ MTUChecks \/ FastTraceMode \/ Target \/ Lookup \/ Source
  PROVE  CliInv'
<1> USE DEF CliInv
<1>0. DOMAIN cli = CliFields
  OBVIOUS
<1>1. ASSUME ProbeSettings PROVE CliInv'
  <2>1. OsExit(1) \/ Moves(IF Has("mtu") THEN "mtu" ELSE "fast")
    BY <1>1, <1>0 DEF ProbeSettings, Moves, CliFields
  <2>2. ASSUME Has("mtu"), Moves("mtu") PROVE CliInv'
    BY <1>1, <2>2, GoInv DEF ProbeSettings, Moves, FlagsInv, OneRun, BehindNali, BehindValidate,
       BehindStartup, Compatible, MTR, Has, HasAny
  <2>3. ASSUME ~ Has("mtu"), Moves("fast") PROVE CliInv'
    BY <1>1, <2>3, GoInv DEF ProbeSettings, Moves, FlagsInv, OneRun, BehindNali, BehindValidate,
       BehindStartup, Compatible, MTR, Has, HasAny
  <2> QED
    BY <2>1, <2>2, <2>3, OsExitInv
<1>2. ASSUME MTUChecks PROVE CliInv'
  <2>1. OsExit(1) \/ Moves("target")
    BY <1>2, MovesGo DEF MTUChecks
  <2>2. Has("mtu") /\ cli.mode = "none" /\ Compatible
    BY <1>2 DEF MTUChecks, FlagsInv, BehindNali, BehindValidate, BehindStartup
  <2>3. ~ HasAny({"fast", "file"})
    BY <2>2, HasAnyOf DEF Compatible, MTUConflicts
  <2>4. ASSUME Moves("target") PROVE CliInv'
    BY <1>2, <2>2, <2>3, <2>4, GoInv DEF MTUChecks, Moves, FlagsInv, OneRun, BehindNali,
       BehindValidate, BehindStartup, Compatible, MTR, Has, HasAny
  <2> QED
    BY <2>1, <2>4, OsExitInv
<1>3. ASSUME FastTraceMode PROVE CliInv'
  <2>1. \/ /\ ~ Has("from") /\ HasAny({"fast", "file"})
           /\ cli' = [cli EXCEPT !.pc = "leo", !.mode = "fast"]
        \/ (Has("from") \/ ~ HasAny({"fast", "file"})) /\ Moves("target")
    BY <1>3, MovesGo DEF FastTraceMode
  <2>2. cli.mode = "none" /\ Compatible /\ ~ Has("mtu") /\ ~ Has("deploy") /\ ~ Has("nali")
    BY <1>3 DEF FastTraceMode, FlagsInv, BehindNali, BehindValidate, BehindStartup
  <2>3. ASSUME ~ Has("from"), HasAny({"fast", "file"}),
               cli' = [cli EXCEPT !.pc = "leo", !.mode = "fast"]
        PROVE  CliInv'
    <3>1. cli'.pc = "leo" /\ cli'.mode = "fast" /\ cli'.o = cli.o /\ DOMAIN cli' = CliFields
      BY <1>0, <2>3 DEF CliFields
    <3>2. ~ HasAny({"mtu", "from"})
      BY <2>2, <2>3, HasAnyOf
    <3> QED
      BY <2>2, <2>3, <3>1, <3>2, GoInv DEF FlagsInv, OneRun, BehindNali, BehindValidate,
         BehindStartup, Compatible, MTR, Has, HasAny
  <2>4. ASSUME Has("from") \/ ~ HasAny({"fast", "file"}), Moves("target") PROVE CliInv'
    BY <2>2, <2>4, GoInv DEF Moves, FlagsInv, OneRun, BehindNali, BehindValidate, BehindStartup,
       Compatible, MTR, Has, HasAny
  <2> QED
    BY <2>1, <2>3, <2>4
<1>4. ASSUME Target PROVE CliInv'
  <2>1. \/ Return([cli EXCEPT !.text = TRUE])
        \/ Has("mtu") /\ Moves("lookup")
        \/ ~ Has("mtu") /\ Moves("leo")
    BY <1>4, MovesGo DEF Target
  <2>2. /\ cli.mode = "none" /\ Compatible /\ ~ Has("deploy") /\ ~ Has("nali")
        /\ Has("from") \/ ~ HasAny({"fast", "file"})
    BY <1>4 DEF Target, FlagsInv, BehindNali, BehindValidate, BehindStartup, OneRun
  <2>3. ASSUME Has("mtu"), Moves("lookup") PROVE CliInv'
    <3>1. ~ Has("from")
      BY <2>2, <2>3, HasAnyOf DEF Compatible, MTUConflicts
    <3> QED
      BY <2>2, <2>3, <3>1, GoInv DEF Moves, FlagsInv, OneRun, BehindNali, BehindValidate,
         BehindStartup, Compatible, MTR, Has, HasAny
  <2>4. ASSUME ~ Has("mtu"), Moves("leo") PROVE CliInv'
    BY <2>2, <2>4, GoInv DEF Moves, FlagsInv, OneRun, BehindNali, BehindValidate, BehindStartup,
       Compatible, MTR, Has, HasAny
  <2>5. DOMAIN [cli EXCEPT !.text = TRUE] = CliFields
    BY <1>0
  <2> QED
    BY <2>1, <2>3, <2>4, <2>5, ReturnInv
<1>5. ASSUME Lookup PROVE CliInv'
  <2>1. Return(cli) \/ OsExit(1) \/ Moves("source")
    BY <1>5, MovesGo DEF Lookup
  <2>2. ASSUME Moves("source") PROVE CliInv'
    BY <1>5, <2>2, GoInv DEF Lookup, Moves, FlagsInv, OneRun, BehindNali, BehindValidate,
       BehindStartup, Compatible, MTR, Has, HasAny
  <2> QED
    BY <1>0, <2>1, <2>2, ReturnInv, OsExitInv
<1>6. ASSUME Source PROVE CliInv'
  <2>1. OsExit(1) \/ Moves(IF Has("mtu") THEN "leo" ELSE IF MTR THEN "mtr" ELSE "printers")
    BY <1>6, <1>0 DEF Source, SourceRefused, Moves, CliFields
  <2>2. /\ cli.mode = "none" /\ Compatible /\ ~ Has("deploy") /\ ~ Has("nali") /\ ~ Has("from")
        /\ ~ HasAny({"fast", "file"})
    BY <1>6 DEF Source, FlagsInv, BehindNali, BehindValidate, BehindStartup, OneRun
  <2>3. ASSUME Moves("leo") \/ (~ Has("mtu") /\ MTR /\ Moves("mtr"))
                 \/ (~ Has("mtu") /\ ~ MTR /\ Moves("printers"))
        PROVE  CliInv'
    BY <2>2, <2>3, GoInv DEF Moves, FlagsInv, OneRun, BehindNali, BehindValidate, BehindStartup,
       Compatible, MTR, Has, HasAny
  <2> QED
    BY <2>1, <2>3, OsExitInv
<1> QED
  BY <1>1, <1>2, <1>3, <1>4, <1>5, <1>6

\* A mode begins: the flags it does not read are forgotten, those that ask for a mode stay.
LEMMA EnterMode ==
  ASSUME CliInv, NEW c, DOMAIN c = CliFields, c.o = cli.o, NEW mode, NEW keep,
         Enter(c, mode, keep)
  PROVE  /\ cli'.pc = "running" /\ cli'.mode = mode /\ DOMAIN cli' = CliFields
         /\ cli'.o \subseteq cli.o /\ \A f \in ModeFlags : f \in cli.o => f \in cli'.o
BY DEF Enter, CliFields

LEMMA PrepareInv == ASSUME CliInv, PrepareRuntime PROVE CliInv'
<1>0. /\ DOMAIN cli = CliFields /\ cli.mode \in {"none", "nali", "fast"} /\ ~ Has("deploy")
      /\ cli.pc = "leo"
  BY DEF PrepareRuntime, CliInv, FlagsInv, BehindNali, BehindValidate, BehindStartup
<1>1. PICK ws \in BOOLEAN, message \in BOOLEAN :
        LET c == [cli EXCEPT !.leo = @ + (IF ws THEN 1 ELSE 0), !.text = @ \/ message,
                               !.held = IF ws THEN @ \cup {"leo"} ELSE @]
        IN  IF cli.mode \in {"nali", "fast"}
            THEN Enter(c, cli.mode, IF cli.mode = "nali" THEN {"ipv4", "ipv6", "noTarget"}
                                                         ELSE {"output", "outputDefault"})
            ELSE cli' = [c EXCEPT !.pc = IF Has("mtu") THEN "runMTU" ELSE "globalping",
                                  !.sig = IF Has("mtu") THEN FALSE ELSE @]
  BY Zenon DEF PrepareRuntime
<1> DEFINE c == [cli EXCEPT !.leo = @ + (IF ws THEN 1 ELSE 0), !.text = @ \/ message,
                            !.held = IF ws THEN @ \cup {"leo"} ELSE @]
<1>2. DOMAIN c = CliFields /\ c.o = cli.o /\ c.mode = cli.mode
  BY <1>0 DEF CliFields
<1>3. /\ cli.mode = "nali" => Enter(c, "nali", {"ipv4", "ipv6", "noTarget"})
      /\ cli.mode = "fast" => Enter(c, "fast", {"output", "outputDefault"})
      /\ cli.mode = "none" =>
           cli' = [c EXCEPT !.pc = IF Has("mtu") THEN "runMTU" ELSE "globalping",
                            !.sig = IF Has("mtu") THEN FALSE ELSE @]
  BY <1>1
<1> HIDE DEF c
<1>4. CASE cli.mode = "nali"
  <2>1. \A f \in ModeFlags \ {"raw", "nali"} : ~ Has(f)
    BY <1>0, <1>4, HasAnyOf DEF CliInv, FlagsInv, BehindNali, BehindValidate, BehindStartup,
       NaliConflicts, ModeFlags
  <2>2. Has("nali")
    BY <1>0, <1>4 DEF CliInv, FlagsInv, BehindNali, BehindValidate, BehindStartup
  <2>3. /\ cli'.pc = "running" /\ cli'.mode = "nali" /\ DOMAIN cli' = CliFields
        /\ cli'.o \subseteq cli.o /\ \A f \in ModeFlags : f \in cli.o => f \in cli'.o
    BY <1>2, <1>3, <1>4, EnterMode
  <2>4. cli'.o \cap (ModeFlags \ {"raw"}) = {"nali"}
    BY <2>1, <2>2, <2>3 DEF Has, ModeFlags
  <2> QED
    BY <2>3, <2>4 DEF CliInv, FlagsInv, ModeAsAsked, OneRun, BehindNali, BehindValidate,
       BehindStartup
<1>5. CASE cli.mode = "fast"
  <2>1. Compatible /\ ~ Has("nali") /\ HasAny({"fast", "file"}) /\ ~ HasAny({"mtu", "from"})
    BY <1>0, <1>5 DEF CliInv, FlagsInv, BehindNali, BehindValidate, BehindStartup
  <2>2. \A f \in ModeFlags \ {"raw", "fast", "file"} : ~ Has(f)
    BY <1>0, <2>1, HasAnyOf DEF Compatible, MTR, MTRConflicts, ModeFlags
  <2>3. /\ cli'.pc = "running" /\ cli'.mode = "fast" /\ DOMAIN cli' = CliFields
        /\ cli'.o \subseteq cli.o
    BY <1>2, <1>3, <1>5, EnterMode
  <2>4. cli'.o \cap (ModeFlags \ {"raw"}) \subseteq {"fast", "file"}
    BY <2>2, <2>3 DEF Has, ModeFlags
  <2> QED
    BY <2>3, <2>4 DEF CliInv, FlagsInv, ModeAsAsked, OneRun, BehindNali, BehindValidate,
       BehindStartup
<1>6. CASE cli.mode = "none"
  <2>1. /\ cli'.pc = (IF Has("mtu") THEN "runMTU" ELSE "globalping") /\ cli'.mode = cli.mode
        /\ cli'.o = cli.o /\ DOMAIN cli' = CliFields
    BY <1>2, <1>3, <1>6 DEF CliFields
  <2>2. Compatible /\ ~ Has("nali") /\ (Has("from") \/ ~ HasAny({"fast", "file"}))
    BY <1>0, <1>6 DEF CliInv, FlagsInv, BehindNali, BehindValidate, BehindStartup, OneRun
  <2>3. CASE Has("mtu")
    BY <1>0, <1>6, <2>1, <2>2, <2>3, GoInv DEF FlagsInv, OneRun, BehindNali, BehindValidate,
       BehindStartup, Compatible, MTR, Has, HasAny
  <2>4. CASE ~ Has("mtu")
    BY <1>0, <1>6, <2>1, <2>2, <2>4, GoInv DEF FlagsInv, OneRun, BehindNali, BehindValidate,
       BehindStartup, Compatible, MTR, Has, HasAny
  <2> QED
    BY <2>3, <2>4
<1> QED
  BY <1>0, <1>4, <1>5, <1>6

\* --from, the modes of --mtr, and a classic trace.
LEMMA GlobalpingInv == ASSUME CliInv, GlobalpingMode PROVE CliInv'
<1>1. /\ DOMAIN cli = CliFields /\ cli.mode = "none" /\ ~ Has("deploy") /\ ~ Has("nali")
      /\ Compatible /\ ~ Has("mtu") /\ (Has("from") \/ ~ HasAny({"fast", "file"}))
  BY DEF GlobalpingMode, CliInv, FlagsInv, BehindNali, BehindValidate, BehindStartup, OneRun
<1>2. \/ OsExit(1)
      \/ ~ Has("from") /\ Moves("lookup")
      \/ Has("from") /\ Enter(cli, "globalping", {"json", "table", "raw", "nomap"})
  BY MovesGo DEF GlobalpingMode
<1>3. ASSUME ~ Has("from"), Moves("lookup") PROVE CliInv'
  BY <1>1, <1>3, GoInv DEF Moves, FlagsInv, OneRun, BehindNali, BehindValidate, BehindStartup,
     Compatible, MTR, Has, HasAny
<1>4. ASSUME Has("from"), Enter(cli, "globalping", {"json", "table", "raw", "nomap"})
      PROVE  CliInv'
  <2>1. \A f \in ModeFlags \ {"raw", "from", "fast", "file"} : ~ Has(f)
    BY <1>1, <1>4, HasAnyOf DEF Compatible, MTR, MTRConflicts, ModeFlags
  <2>2. /\ cli'.pc = "running" /\ cli'.mode = "globalping" /\ DOMAIN cli' = CliFields
        /\ cli'.o \subseteq cli.o
    BY <1>1, <1>4, EnterMode
  <2>3. cli'.o \cap (ModeFlags \ {"raw"}) \subseteq {"from", "fast", "file"}
    BY <2>1, <2>2 DEF Has, ModeFlags
  <2> QED
    BY <2>2, <2>3 DEF CliInv, FlagsInv, ModeAsAsked, OneRun, BehindNali, BehindValidate,
       BehindStartup
<1> QED
  BY <1>2, <1>3, <1>4, OsExitInv

LEMMA MTRModeInv == ASSUME CliInv, MTRMode PROVE CliInv'
<1>1. /\ DOMAIN cli = CliFields /\ ~ Has("deploy") /\ ~ Has("nali") /\ Compatible
      /\ ~ Has("mtu") /\ MTR
  BY DEF MTRMode, CliInv, FlagsInv, BehindNali, BehindValidate, BehindStartup, OneRun
<1> DEFINE c == [cli EXCEPT !.sig = FALSE]
           d == [c EXCEPT !.held = @ \cup {"screen"}]
<1>2. /\ DOMAIN c = CliFields /\ c.o = cli.o
      /\ DOMAIN d = CliFields /\ d.o = cli.o
  BY <1>1 DEF CliFields
<1>3. \/ OsExit(1)
      \/ Enter(c, "mtrRaw", {"queries"}) \/ Enter(c, "mtrReport", {})
      \/ Enter(d, "mtrTUI", {"queries"})
  BY DEF MTRMode
<1> HIDE DEF c, d
<1>4. ASSUME NEW mode \in {"mtrRaw", "mtrReport", "mtrTUI"}, NEW keep, NEW e, DOMAIN e = CliFields,
             e.o = cli.o, Enter(e, mode, keep)
      PROVE  CliInv'
  <2>1. \A f \in ModeFlags \ {"raw", "mtr", "report", "wide"} : ~ Has(f)
    BY <1>1, HasAnyOf DEF Compatible, MTRConflicts, ModeFlags
  <2>2. /\ cli'.pc = "running" /\ cli'.mode = mode /\ DOMAIN cli' = CliFields
        /\ cli'.o \subseteq cli.o /\ \A f \in ModeFlags : f \in cli.o => f \in cli'.o
    BY <1>4, EnterMode
  <2>3. PICK f \in {"mtr", "report", "wide"} : Has(f)
    BY <1>1, HasAnyOf DEF MTR
  <2>4. f \in cli'.o \cap (ModeFlags \ {"raw"})
    BY <2>2, <2>3 DEF Has, ModeFlags
  <2>5. cli'.o \cap (ModeFlags \ {"raw"}) \subseteq {"mtr", "report", "wide"}
    BY <2>1, <2>2 DEF Has, ModeFlags
  <2>6. ModeAsAsked'
    BY <2>2, <2>4, <2>5 DEF ModeAsAsked
  <2> QED
    BY <2>2, <2>6 DEF CliInv, FlagsInv, OneRun, BehindNali, BehindValidate, BehindStartup
<1> QED
  BY <1>2, <1>3, <1>4, OsExitInv

LEMMA PrintersInv == ASSUME CliInv, Printers PROVE CliInv'
<1>1. /\ DOMAIN cli = CliFields /\ ~ HasAny({"fast", "file"})
      /\ ~ Has("deploy") /\ ~ Has("nali") /\ ~ Has("mtu") /\ ~ Has("from") /\ ~ MTR
  BY DEF Printers, CliInv, FlagsInv, BehindNali, BehindValidate, BehindStartup, OneRun
<1>2. PICK holds, mode :
        \/ OsExit(1)
        \/ /\ mode \in {"rawLoop", "trace"}
           /\ cli' = [cli EXCEPT !.held = holds, !.pc = "running", !.mode = mode]
  <2>1. \/ OsExit(1)
        \/ \E holds, uninterrupted :
             cli' = [cli EXCEPT !.held = holds, !.pc = "running",
                       !.mode = IF uninterrupted /\ Has("raw") THEN "rawLoop" ELSE "trace"]
    BY Zenon DEF Printers
  <2>2. \A u : (IF u /\ Has("raw") THEN "rawLoop" ELSE "trace") \in {"rawLoop", "trace"}
    OBVIOUS
  <2> QED
    BY <2>1, <2>2, Zenon
<1>3. ASSUME mode \in {"rawLoop", "trace"},
             cli' = [cli EXCEPT !.held = holds, !.pc = "running", !.mode = mode]
      PROVE  CliInv'
  <2>1. /\ cli'.pc = "running" /\ cli'.mode = mode /\ DOMAIN cli' = CliFields
        /\ cli'.o = cli.o
    BY <1>1, <1>3 DEF CliFields
  <2>2. \A f \in ModeFlags \ {"raw"} : ~ Has(f)
    BY <1>1, HasAnyOf DEF MTR, ModeFlags
  <2>3. cli'.o \cap (ModeFlags \ {"raw"}) = {}
    BY <2>1, <2>2 DEF Has
  <2>4. ModeAsAsked'
    BY <1>3, <2>1, <2>3 DEF ModeAsAsked
  <2> QED
    BY <2>1, <2>4 DEF CliInv, FlagsInv, OneRun, BehindNali, BehindValidate, BehindStartup
<1> QED
  BY <1>2, <1>3, OsExitInv

\* The ends of the modes, and what happens while one runs.
LEMMA RunEnds ==
  ASSUME CliInv, RunMTU \/ MTREnds \/ MTRFails \/ RawLoop \/ TraceOnce \/ Finalize \/ StoreToken
  PROVE  CliInv'
<1>0. DOMAIN cli = CliFields
  BY DEF CliInv
<1>1. ASSUME NEW c, Return(c), DOMAIN c = CliFields PROVE CliInv'
  BY <1>1, ReturnInv
<1>2. CASE RunMTU
  <2>1. \E doc, text : \/ Return([cli EXCEPT !.text = text])
                       \/ Return([cli EXCEPT !.doc = doc, !.text = text])
    BY <1>2, Zenon DEF RunMTU
  <2> QED
    BY <1>0, <1>1, <2>1 DEF CliFields
<1>3. CASE MTREnds \/ MTRFails
  <2>1. \E text : Return([cli EXCEPT !.text = text])
    BY <1>3, Zenon DEF MTREnds, MTRFails
  <2> QED
    BY <1>0, <1>1, <2>1 DEF CliFields
<1>4. CASE RawLoop
  <2>1. Return(cli) \/ cli' = [cli EXCEPT !.text = TRUE]
    BY <1>4 DEF RawLoop
  <2>2. ASSUME cli' = [cli EXCEPT !.text = TRUE] PROVE CliInv'
    BY <1>0, <2>2, SameCommand DEF CliFields
  <2> QED
    BY <1>0, <1>1, <2>1, <2>2
<1>5. CASE TraceOnce
  <2>1. \E text : \/ Return([cli EXCEPT !.text = text])
                  \/ cli' = [cli EXCEPT !.pc = "final", !.text = text]
    BY <1>5, Zenon DEF TraceOnce
  <2>2. ASSUME NEW text, cli' = [cli EXCEPT !.pc = "final", !.text = text] PROVE CliInv'
    BY <1>0, <2>2, GoInv DEF CliFields, FlagsInv, OneRun, BehindNali, BehindValidate, BehindStartup
  <2>3. ASSUME NEW text, Return([cli EXCEPT !.text = text]) PROVE CliInv'
    BY <1>0, <1>1, <2>3 DEF CliFields
  <2> QED
    BY <2>1, <2>2, <2>3
<1>6. CASE Finalize
  <2>1. \E text, doc : LET c == [cli EXCEPT !.text = text] IN
          Return([c EXCEPT !.text = TRUE]) \/ Return([c EXCEPT !.doc = doc, !.text = text])
    BY <1>6, Zenon DEF Finalize
  <2> QED
    BY <1>0, <1>1, <2>1 DEF CliFields
<1>7. CASE StoreToken
  <2>1. \E code, auth : OsExit(code) \/ Return([cli EXCEPT !.auth = auth])
    BY <1>7, Zenon DEF StoreToken
  <2> QED
    BY <1>0, <1>1, <2>1, OsExitInv DEF CliFields
<1> QED
  BY <1>2, <1>3, <1>4, <1>5, <1>6, <1>7

LEMMA Beside ==
  ASSUME CliInv, TypeKey \/ DeployEnds \/ Signal \/ SpeedExit
  PROVE  CliInv'
<1>0. DOMAIN cli = CliFields
  BY DEF CliInv
<1>1. CASE TypeKey
  <2>1. \E typed, auth, holds : \/ cli' = [cli EXCEPT !.typed = typed]
                               \/ cli' = [cli EXCEPT !.held = holds, !.auth = auth, !.typed = typed]
    BY <1>1, Zenon DEF TypeKey
  <2> QED
    BY <1>0, <2>1, SameCommand DEF CliFields
<1>2. CASE Signal
  <2>1. cli' = [cli EXCEPT !.intr = TRUE, !.sig = TRUE]
    BY <1>2 DEF Signal
  <2> QED
    BY <1>0, <2>1, SameCommand DEF CliFields
<1>3. CASE DeployEnds \/ SpeedExit
  BY <1>0, <1>3, OsExitInv, ReturnInv DEF DeployEnds, SpeedExit
<1> QED
  BY <1>1, <1>2, <1>3

\* What the modes in other modules do to the command line: they end the process, print, or
\* ask for its end.
LEMMA OtherModes ==
  ASSUME CliInv, NaliNext \/ FastNext \/ GpNext \/ UINext
  PROVE  CliInv'
<1>0. DOMAIN cli = CliFields
  BY DEF CliInv
<1>1. \/ \E code : OsExit(code)
      \/ \E c : /\ Return(c)
                /\ \/ c = cli
                   \/ \E doc, text : \/ c = [cli EXCEPT !.text = text]
                                     \/ c = [cli EXCEPT !.doc = doc, !.text = text]
      \/ cli' = cli
      \/ \E text, sig : cli' = [cli EXCEPT !.text = text] \/ cli' = [cli EXCEPT !.sig = sig]
  <2>1. CASE NaliNext
    BY <2>1, Zenon DEF NaliNext, NaliStep, NaliRun, NaliTop, NaliInterrupted, lookupLabel,
       NaliWrite, NaliInput, NaliReturns, cliVars
  <2>2. CASE FastNext
    BY <2>2, Zenon DEF FastNext, FastStep, FastTest, promptFastTraceChoice, setTerminalErr,
       waitResult, chooseFamily, runFastTraceByChoice, runFastTestv6Selection, Selected, Answered,
       runFileTraceTarget, tracert, tracert_v6, Trace, TargetDone, FastDone, FastReturns, ReadLine,
       cliVars
  <2>3. CASE GpNext
    <3>1. GpFails => Return([cli EXCEPT !.text = TRUE]) \/ cli' = cli
      BY Zenon DEF GpFails, cliVars
    <3>2. GpOutput => GpFails \/ \E doc, text : Return([cli EXCEPT !.doc = doc, !.text = text])
      BY Zenon DEF GpOutput
    <3>3. GpNext => GpOutput \/ GpFails \/ cli' = cli
      BY Zenon DEF GpNext, GpStep, GpCreate, GlobalpingTrace, awaitGlobalping, decodeGlobalping,
         translateGlobalping, buildGlobalpingResult, cliVars
    <3> QED
      BY <2>3, <3>1, <3>2, <3>3, Zenon
  <2>4. CASE UINext
    BY <2>4, Zenon DEF UINext, UIStep, EnterScreen, FeedKey, TerminalSends, KeysEnd,
       ConsumeRestartRequest, cliVars
  <2> QED
    BY <2>1, <2>2, <2>3, <2>4
<1>2. ASSUME NEW c, c = cli \/ \E doc, text : \/ c = [cli EXCEPT !.text = text]
                                             \/ c = [cli EXCEPT !.doc = doc, !.text = text]
      PROVE  DOMAIN c = CliFields
  BY <1>0, <1>2
<1>3. ASSUME NEW text, NEW sig,
             cli' = [cli EXCEPT !.text = text] \/ cli' = [cli EXCEPT !.sig = sig] \/ cli' = cli
      PROVE  CliInv'
  BY <1>0, <1>3, SameCommand DEF CliFields
<1> QED
  BY <1>1, <1>2, <1>3, OsExitInv, ReturnInv

LEMMA CliInit_Inv == ProcInit => CliInv
BY DEF ProcInit, CliInit, CliInv, CliFields, FlagsInv, ModeAsAsked, OneRun, BehindNali,
   BehindValidate, BehindStartup

LEMMA CliStep_Inv == CliInv /\ [ProcNext]_procVars => CliInv'
<1> SUFFICES ASSUME CliInv, [ProcNext]_procVars PROVE CliInv'
  OBVIOUS
<1>1. CASE UNCHANGED cli
  BY <1>1 DEF CliInv, FlagsInv, ModeAsAsked, Compatible, OneRun, MTR, Has, HasAny
<1>2. CASE CliStep
  BY <1>2, EarlySteps, ValidateInv, StartupInv, DeployInv, RunBlocks, PrepareInv, GlobalpingInv,
     MTRModeInv, PrintersInv, RunEnds DEF CliStep
<1> QED
  BY <1>1, <1>2, RunEnds, Beside, OtherModes
  DEF ProcNext, DoCli, DoOther, DoNali, DoFast, DoGp, DoUI, DoSpeed, procVars

\* The mode that runs is the one asked for, whatever flags the command line has (the checks of
\* Execute and the order of its branches).
THEOREM ModeKept == ProcSpec => []ModeAsAsked
<1>1. CliInv => ModeAsAsked
  BY DEF CliInv
<1> QED
  BY CliInit_Inv, CliStep_Inv, <1>1, PTL DEF ProcSpec

-----------------------------------------------------------------------------
(***************************************************************************)
(* --fast-trace                                                            *)
(***************************************************************************)
\* At the start, and when the mode has returned, nothing is asked.
LEMMA FastIdle_Inv == fast = fastIdle /\ stdin = stdinIdle => FastInv
<1> SUFFICES ASSUME fast = fastIdle, stdin = stdinIdle PROVE FastInv
  OBVIOUS
<1>1. fast.pc = "start" /\ stdin.reader = "idle" /\ stdin.term = FALSE
  BY DEF fastIdle, stdinIdle
<1>2. /\ DOMAIN fast = {"pc", "list", "choice", "targets", "log"}
      /\ DOMAIN stdin = {"reader", "got", "term", "line"}
  BY DEF fastIdle, stdinIdle
<1> HIDE DEF fastIdle, stdinIdle
<1> QED
  BY <1>1, <1>2 DEF FastInv, AnswerAsTyped

LEMMA FastInit_Inv == ProcInit => FastInv
BY FastIdle_Inv DEF ProcInit, FastInit

LEMMA FastReturns_Inv == FastReturns => FastInv'
<1>1. FastReturns => (fast = fastIdle /\ stdin = stdinIdle)'
  BY DEF FastReturns, fastIdle, stdinIdle
<1> QED
  BY <1>1, FastIdle_Inv, PTL

\* The prompt: the request, its answer and the choice that is made of it.
LEMMA PromptSteps ==
  ASSUME FastInv, promptFastTraceChoice \/ ReadLine \/ setTerminalErr \/ waitResult
  PROVE  FastInv'
<1>1. CASE promptFastTraceChoice
  <2>1. \/ FastReturns
        \/ /\ stdin.reader = "ended" /\ stdin' = [stdin EXCEPT !.line = "none"]
           /\ fast' = [fast EXCEPT !.pc = "answered", !.choice = "default"]
        \/ /\ stdin' = [stdin EXCEPT !.reader = "reading", !.got = "none", !.line = "none"]
           /\ stdin.reader \notin {"ending", "ended"}
           /\ fast' = [fast EXCEPT !.pc = "waiting"]
    BY <1>1 DEF promptFastTraceChoice, FastInv
  <2> QED
    BY <2>1, FastReturns_Inv DEF FastInv, AnswerAsTyped
<1>2. CASE ReadLine
  <2>1. \/ \E c \in MenuLines, eof \in BOOLEAN :
             stdin' = [stdin EXCEPT !.reader = IF eof THEN "ending" ELSE "idle",
                                    !.got = c, !.line = c]
        \/ stdin' = [stdin EXCEPT !.reader = "ending", !.got = "error"]
    BY <1>2, Zenon DEF ReadLine
  <2>2. fast' = fast /\ stdin.reader = "reading"
    BY <1>2 DEF ReadLine
  <2>3. ASSUME NEW c \in MenuLines, NEW reader \in {"ending", "idle"},
               stdin' = [stdin EXCEPT !.reader = reader, !.got = c, !.line = c]
        PROVE  FastInv'
    BY <2>2, <2>3, MenuAssumption DEF FastInv, AnswerAsTyped
  <2>4. ASSUME stdin' = [stdin EXCEPT !.reader = "ending", !.got = "error"] PROVE FastInv'
    BY <2>2, <2>4 DEF FastInv, AnswerAsTyped
  <2>5. \A eof \in BOOLEAN : (IF eof THEN "ending" ELSE "idle") \in {"ending", "idle"}
    OBVIOUS
  <2> QED
    BY <2>1, <2>3, <2>4, <2>5, Zenon
<1>3. CASE setTerminalErr
  BY <1>3 DEF setTerminalErr, FastInv, AnswerAsTyped
<1>4. CASE waitResult
  <2>1. \/ FastReturns
        \/ Answered(stdin.got) /\ fast.pc = "waiting" /\ (stdin.got # "none" \/ stdin.term)
    BY <1>4, Zenon DEF waitResult
  <2>2. ASSUME Answered(stdin.got), fast.pc = "waiting", stdin.got # "none" \/ stdin.term
        PROVE  FastInv'
    <3>1. stdin' = stdin /\ stdin.reader # "reading"
      BY <2>2 DEF Answered, FastInv
    <3>2. fast' = [fast EXCEPT !.pc = "answered",
                     !.choice = IF stdin.got \in {"", "error", "none"} THEN "default"
                                ELSE stdin.got]
      BY <2>2 DEF Answered
    <3>3. /\ DOMAIN fast' = {"pc", "list", "choice", "targets", "log"} /\ fast'.pc = "answered"
          /\ fast'.choice = IF stdin.got \in {"", "error", "none"} THEN "default" ELSE stdin.got
      BY <3>2 DEF FastInv
    <3> QED
      BY <2>2, <3>1, <3>3, MenuAssumption DEF FastInv, AnswerAsTyped
  <2> QED
    BY <2>1, <2>2, FastReturns_Inv
<1> QED
  BY <1>1, <1>2, <1>3, <1>4

\* The steps around the prompt wait for no answer.
LEMMA TargetSteps ==
  ASSUME FastInv,
         \/ FastTest \/ chooseFamily \/ runFastTraceByChoice \/ runFastTestv6Selection
         \/ runFileTraceTarget \/ tracert \/ tracert_v6 \/ TargetDone \/ FastDone
  PROVE  FastInv'
<1>1. \/ FastReturns
      \/ /\ fast.pc \notin {"waiting"} /\ stdin' = stdin
         /\ fast'.pc \in {"targets", "prompt", "tracing"}
         /\ DOMAIN fast' = {"pc", "list", "choice", "targets", "log"}
  BY DEF FastInv, FastTest, chooseFamily, runFastTraceByChoice, runFastTestv6Selection, Selected,
     runFileTraceTarget, tracert, tracert_v6, Trace, TargetDone, FastDone
<1> QED
  BY <1>1, FastReturns_Inv DEF FastInv, AnswerAsTyped

LEMMA FastStep_Inv == FastInv /\ [ProcNext]_procVars => FastInv'
<1> SUFFICES ASSUME FastInv, [ProcNext]_procVars PROVE FastInv'
  OBVIOUS
<1>1. CASE UNCHANGED <<fast, stdin>>
  BY <1>1 DEF FastInv, AnswerAsTyped
<1>2. CASE FastNext
  BY <1>2, PromptSteps, TargetSteps DEF FastNext, FastStep
<1> QED
  BY <1>1, <1>2
  DEF ProcNext, DoCli, DoOther, OnlyCli, DoNali, DoFast, DoGp, DoUI, DoSpeed, procVars

\* The answer of the menu is the line typed for it, or the default (waitResult, which looks at
\* the response once more behind the end of the input).
THEOREM AnswersKept == ProcSpec => []AnswerAsTyped
<1>1. FastInv => AnswerAsTyped
  BY DEF FastInv
<1> QED
  BY FastInit_Inv, FastStep_Inv, <1>1, PTL DEF ProcSpec

-----------------------------------------------------------------------------
(***************************************************************************)
(* The speed test                                                          *)
(***************************************************************************)
LEMMA SpeedInit_Inv == ProcInit => SpeedInv
<1> SUFFICES ASSUME ProcInit PROVE SpeedInv
  OBVIOUS
<1>1. SpeedType
  BY DEF ProcInit, SpInit, Idle, SpeedType, MainType, ResType, AuxType, BusType
<1>2. AliveInv
  BY DEF ProcInit, SpInit, Idle, AliveInv, InRound
<1>3. VerdictInv
  BY DEF ProcInit, SpInit, VerdictInv, InRound, BehindConnect, BehindIdle, Over, Plan
<1> QED
  BY <1>1, <1>2, <1>3 DEF SpeedInv

LEMMA SendType == ASSUME BusType, Send PROVE BusType'
BY DEF BusType, Send

\* The run ends with a code; 130 makes the result a degraded one.
LEMMA FinishRunEffect ==
  ASSUME SpeedType, NEW code \in Int, FinishRun(code)
  PROVE  /\ MainType' /\ main'.pc = "return" /\ main'.round = main.round
         /\ ResType' /\ res'.exit = code /\ (res.degraded => res'.degraded)
         /\ res'.rounds = res.rounds /\ res'.worst = res.worst
         /\ res'.conn = res.conn /\ res'.idle = res.idle
<1>1. MainType' /\ main'.pc = "return" /\ main'.round = main.round
  BY DEF SpeedType, MainType, FinishRun
<1>2. PICK degraded : /\ res' = [res EXCEPT !.exit = code, !.degraded = degraded]
                      /\ degraded \in BOOLEAN /\ (res.degraded => degraded)
  <2>1. (res.degraded \/ code = 130) \in BOOLEAN
    OBVIOUS
  <2>2. res' = [res EXCEPT !.exit = code, !.degraded = res.degraded \/ code = 130]
    BY DEF FinishRun, SpeedType, ResType
  <2> HIDE DEF FinishRun
  <2> QED
    BY <2>1, <2>2, Zenon
<1>3. /\ DOMAIN res' = DOMAIN res /\ res'.exit = code /\ res'.degraded = degraded
      /\ res'.rounds = res.rounds /\ res'.worst = res.worst
      /\ res'.conn = res.conn /\ res'.idle = res.idle
  BY <1>2 DEF SpeedType, ResType
<1>4. ResType'
  BY <1>2, <1>3 DEF SpeedType, ResType
<1> QED
  BY <1>1, <1>2, <1>3, <1>4

\* An end with another code than 0 promises nothing.
LEMMA FailedVerdict ==
  ASSUME SpeedInv, NEW code \in Int \ {0}, FinishRun(code), UNCHANGED <<cfg, intr>>
  PROVE  VerdictInv'
BY FinishRunEffect DEF SpeedInv, VerdictInv, Over, InRound, BehindConnect, BehindIdle

\* The flags and the choice of an endpoint.
LEMMA ChoiceSteps ==
  ASSUME SpeedInv,
         \/ LoadConfig \/ BuildCandidate \/ SelectCandidate \/ RenderSelection \/ OpenPrompt
         \/ TakeChoice \/ MeasureIdle
  PROVE  SpeedInv'
<1>1. CASE LoadConfig
  BY <1>1 DEF LoadConfig, Goto, SpeedInv, SpeedType, MainType, ResType, AuxType, BusType,
     AliveInv, VerdictInv, InRound, BehindConnect, BehindIdle, Over, Good, Plan
<1>2. CASE BuildCandidate
  BY <1>2 DEF BuildCandidate, SpeedInv, SpeedType, MainType, ResType, AuxType, BusType,
     AliveInv, VerdictInv, InRound, BehindConnect, BehindIdle, Over, Good, Plan
<1>3. CASE SelectCandidate
  BY <1>3 DEF SelectCandidate, SpeedInv, SpeedType, MainType, ResType, AuxType, BusType,
     AliveInv, VerdictInv, InRound, BehindConnect, BehindIdle, Over, Good, Plan
<1>4. CASE RenderSelection
  <2>1. MainType'
    BY <1>4 DEF RenderSelection, Goto, SpeedInv, SpeedType, MainType
  <2>2. ResType'
    BY <1>4 DEF RenderSelection, Goto, SpeedInv, SpeedType, ResType
  <2>3. AuxType'
    BY <1>4 DEF RenderSelection, Goto, SpeedInv, SpeedType, AuxType
  <2>4. BusType'
    BY <1>4, SendType DEF RenderSelection, SpeedInv, SpeedType
  <2>5. AliveInv'
    BY <1>4 DEF RenderSelection, Goto, SpeedInv, AliveInv, InRound, SpeedType, MainType, AuxType
  <2>6. VerdictInv'
    BY <1>4 DEF RenderSelection, Goto, SpeedInv, SpeedType, MainType, ResType, VerdictInv,
       InRound, BehindConnect, BehindIdle, Over, Good, Plan
  <2> QED
    BY <2>1, <2>2, <2>3, <2>4, <2>5, <2>6 DEF SpeedInv, SpeedType
<1>5. CASE MeasureIdle
  <2>1. MainType'
    <3>1. PICK ms, left : main' = [main EXCEPT !.left = left,
                                               !.idle = @ + (IF ms > 0 THEN 1 ELSE 0)]
      BY <1>5, Zenon DEF MeasureIdle
    <3>2. main.idle + (IF ms > 0 THEN 1 ELSE 0) \in Nat
      BY <3>1 DEF SpeedInv, SpeedType, MainType
    <3> QED
      BY <3>1, <3>2 DEF SpeedInv, SpeedType, MainType
  <2>2. ResType'
    BY <1>5 DEF MeasureIdle, SpeedInv, SpeedType, ResType
  <2>3. AuxType'
    BY <1>5 DEF MeasureIdle, SpeedInv, SpeedType, AuxType
  <2>4. BusType'
    BY <1>5 DEF MeasureIdle, SpeedInv, SpeedType, BusType
  <2>5. AliveInv'
    BY <1>5 DEF MeasureIdle, SpeedInv, AliveInv, InRound, SpeedType, MainType, AuxType
  <2>6. VerdictInv'
    BY <1>5 DEF MeasureIdle, SpeedInv, SpeedType, MainType, ResType, VerdictInv, InRound,
       BehindConnect, BehindIdle, Over, Good, Plan
  <2> QED
    BY <2>1, <2>2, <2>3, <2>4, <2>5, <2>6 DEF SpeedInv, SpeedType
<1>6. CASE OpenPrompt
  BY <1>6 DEF OpenPrompt, Goto, SpeedInv, SpeedType, MainType, ResType, AuxType, BusType,
     AliveInv, VerdictInv, InRound, BehindConnect, BehindIdle, Over, Good, Plan
<1>7. CASE TakeChoice
  <2>1. main.pc = "prompt" /\ Send /\ UNCHANGED <<cfg, intr, res, work, held>>
    BY <1>7 DEF TakeChoice
  <2>2. \/ main' = [main EXCEPT !.pc = "chosen"]
        \/ \E sel : main' = [main EXCEPT !.pc = "chosen", !.sel = sel]
    BY <1>7, Zenon DEF TakeChoice, Goto
  <2>3. MainType' /\ main'.pc = "chosen" /\ main'.round = main.round
    BY <2>2 DEF SpeedInv, SpeedType, MainType
  <2>4. aux' = aux \/ \E reader : aux' = [aux EXCEPT !.reader = reader]
    BY <1>7 DEF TakeChoice
  <2>5. AuxType' /\ aux'.prog = aux.prog /\ aux'.probe = aux.probe
    BY <2>4 DEF SpeedInv, SpeedType, AuxType
  <2>6. ResType' /\ BusType'
    BY <2>1, SendType DEF SpeedInv, SpeedType, ResType
  <2>7. AliveInv'
    BY <2>1, <2>3, <2>5 DEF SpeedInv, AliveInv, InRound
  <2>8. VerdictInv'
    BY <2>1, <2>3 DEF SpeedInv, VerdictInv, InRound, BehindConnect, BehindIdle, Over, Plan
  <2> QED
    BY <2>3, <2>5, <2>6, <2>7, <2>8 DEF SpeedInv, SpeedType
<1> QED
  BY <1>1, <1>2, <1>3, <1>4, <1>5, <1>6, <1>7

\* A round: its goroutines start and are waited for.
LEMMA RoundSteps ==
  ASSUME SpeedInv, StartRound \/ JoinWorkers \/ StopProbe \/ RecordRound
  PROVE  SpeedInv'
<1>1. CASE StartRound
  <2>1. MainType'
    BY <1>1 DEF StartRound, Goto, Idle, SpeedInv, SpeedType, MainType
  <2>2. ResType'
    BY <1>1 DEF StartRound, Goto, Idle, SpeedInv, SpeedType, ResType
  <2>3. AuxType'
    BY <1>1 DEF StartRound, Goto, Idle, SpeedInv, SpeedType, AuxType
  <2>4. BusType'
    BY <1>1 DEF StartRound, Goto, Idle, SpeedInv, SpeedType, BusType, Send
  <2>5. AliveInv'
    BY <1>1 DEF StartRound, Goto, Idle, SpeedInv, AliveInv, InRound, SpeedType, MainType,
       AuxType
  <2>6. VerdictInv'
    BY <1>1 DEF StartRound, Goto, Idle, SpeedInv, SpeedType, MainType, ResType, VerdictInv,
       InRound, BehindConnect, BehindIdle, Over, Good, Plan
  <2> QED
    BY <2>1, <2>2, <2>3, <2>4, <2>5, <2>6 DEF SpeedInv, SpeedType
<1>2. CASE JoinWorkers
  BY <1>2 DEF JoinWorkers, Goto, SpeedInv, SpeedType, MainType, ResType, AuxType, BusType,
     AliveInv, VerdictInv, InRound, BehindConnect, BehindIdle, Over, Good, Plan
<1>3. CASE StopProbe
  BY <1>3 DEF StopProbe, Goto, SpeedInv, SpeedType, MainType, ResType, AuxType, BusType,
     AliveInv, VerdictInv, InRound, BehindConnect, BehindIdle, Over, Good, Plan
<1>4. CASE RecordRound
  BY <1>4 DEF RecordRound, Send, Idle, SpeedInv, SpeedType, MainType, ResType, AuxType, BusType,
     AliveInv, VerdictInv, InRound, BehindConnect, BehindIdle, Over, Good, Plan
<1> QED
  BY <1>1, <1>2, <1>3, <1>4

\* The bus is drained and closed, the rest too.
LEMMA ClosingSteps ==
  ASSUME SpeedInv, CloseBus \/ CloseAll
  PROVE  SpeedInv'
<1>1. CASE CloseBus
  BY <1>1 DEF CloseBus, SpeedInv, SpeedType, MainType, ResType, AuxType, BusType, AliveInv,
     VerdictInv, InRound, BehindConnect, BehindIdle, Over, Good, Plan
<1>2. CASE CloseAll
  BY <1>2 DEF CloseAll, Goto, SpeedInv, SpeedType, MainType, ResType, AuxType, BusType,
     AliveInv, VerdictInv, InRound, BehindConnect, BehindIdle, Over, Good, Plan
<1> QED
  BY <1>1, <1>2

\* What runs beside the main goroutine.
LEMMA BesideSteps ==
  ASSUME SpeedInv,
         \/ Render \/ Interrupt \/ Expire \/ ProgressTick \/ ProgressEnds \/ ProbeLoop
         \/ ReadChoice
  PROVE  SpeedInv'
<1>1. CASE Render
  BY <1>1 DEF Render, SpeedInv, SpeedType, MainType, ResType, AuxType, BusType, AliveInv,
     VerdictInv, InRound, BehindConnect, BehindIdle, Over, Good, Plan
<1>2. CASE Interrupt
  BY <1>2 DEF Interrupt, SpeedInv, SpeedType, MainType, ResType, AuxType, BusType, AliveInv,
     VerdictInv, InRound, BehindConnect, BehindIdle, Over, Good, Plan
<1>3. CASE Expire
  BY <1>3 DEF Expire, restOfRun, SpeedInv, SpeedType, MainType, ResType, AuxType, BusType,
     AliveInv, VerdictInv, InRound, BehindConnect, BehindIdle, Over, Good, Plan
<1>4. CASE ProgressTick
  <2>1. MainType'
    BY <1>4 DEF ProgressTick, SpeedInv, SpeedType, MainType
  <2>2. ResType'
    BY <1>4 DEF ProgressTick, SpeedInv, SpeedType, ResType
  <2>3. AuxType'
    BY <1>4 DEF ProgressTick, SpeedInv, SpeedType, AuxType
  <2>4. BusType'
    BY <1>4 DEF ProgressTick, SpeedInv, SpeedType, BusType
  <2>5. AliveInv'
    BY <1>4 DEF ProgressTick, SpeedInv, AliveInv, InRound, SpeedType, MainType, AuxType
  <2>6. VerdictInv'
    BY <1>4 DEF ProgressTick, SpeedInv, SpeedType, MainType, ResType, VerdictInv, InRound,
       BehindConnect, BehindIdle, Over, Good, Plan
  <2> QED
    BY <2>1, <2>2, <2>3, <2>4, <2>5, <2>6 DEF SpeedInv, SpeedType
<1>5. CASE ProgressEnds
  BY <1>5 DEF ProgressEnds, restOfRun, SpeedInv, SpeedType, MainType, ResType, AuxType, BusType,
     AliveInv, VerdictInv, InRound, BehindConnect, BehindIdle, Over, Good, Plan
<1>6. CASE ProbeLoop
  <2>1. /\ UNCHANGED <<cfg, intr, main, res, bus, held, work>> /\ aux.probe # "off"
        /\ DOMAIN aux' = DOMAIN aux /\ aux'.prog = aux.prog
    BY <1>6 DEF ProbeLoop, restOfRun, SpeedInv, SpeedType, AuxType
  <2>2. MainType' /\ ResType' /\ AuxType' /\ BusType'
    BY <2>1 DEF SpeedInv, SpeedType, MainType, ResType, AuxType, BusType
  <2>3. AliveInv'
    BY <2>1 DEF SpeedInv, AliveInv, InRound
  <2>4. VerdictInv'
    BY <2>1 DEF SpeedInv, VerdictInv, InRound, BehindConnect, BehindIdle, Over, Good, Plan
  <2> QED
    BY <2>2, <2>3, <2>4 DEF SpeedInv, SpeedType
<1>7. CASE ReadChoice
  <2>1. /\ UNCHANGED <<cfg, intr, main, res, bus, held, work>>
        /\ DOMAIN aux' = DOMAIN aux /\ aux'.prog = aux.prog /\ aux'.probe = aux.probe
    BY <1>7 DEF ReadChoice, SpeedInv, SpeedType, AuxType
  <2>2. MainType' /\ ResType' /\ AuxType' /\ BusType'
    BY <2>1 DEF SpeedInv, SpeedType, MainType, ResType, AuxType, BusType
  <2>3. AliveInv'
    BY <2>1 DEF SpeedInv, AliveInv, InRound
  <2>4. VerdictInv'
    BY <2>1 DEF SpeedInv, VerdictInv, InRound, BehindConnect, BehindIdle, Over, Good, Plan
  <2> QED
    BY <2>2, <2>3, <2>4 DEF SpeedInv, SpeedType
<1> QED
  BY <1>1, <1>2, <1>3, <1>4, <1>5, <1>6, <1>7

\* The workers of a round.
LEMMA WorkerSteps ==
  ASSUME SpeedInv, NEW w, w \in DOMAIN work, WorkerStep(w)
  PROVE  SpeedInv'
<1>1. main.pc \in InRound /\ UNCHANGED <<cfg, intr, main, res, bus, held, aux>>
  <2>1. UNCHANGED <<cfg, intr, main, res, bus, held, aux>>
    BY DEF WorkerStep, WorkerConnect, WorkerChunk, WorkerEnds, restOfRun
  <2>2. work # << >>
    OBVIOUS
  <2> QED
    BY <2>1, <2>2 DEF SpeedInv, AliveInv
<1>2. SpeedType' /\ VerdictInv'
  BY <1>1 DEF SpeedInv, SpeedType, MainType, ResType, AuxType, BusType, VerdictInv, Good, Plan
<1>3. AliveInv'
  BY <1>1 DEF SpeedInv, AliveInv, InRound
<1> QED
  BY <1>2, <1>3 DEF SpeedInv

LEMMA ResolveStep == ASSUME SpeedInv, ResolveCandidates PROVE SpeedInv'
<1>1. /\ main.pc = "discover" /\ Send /\ UNCHANGED <<cfg, intr, work, aux, held>>
      /\ \/ /\ UNCHANGED res
            /\ \E q : main' = [main EXCEPT !.pc = "candidate", !.todo = q]
         \/ FinishRun(1)
  BY Zenon DEF ResolveCandidates
<1>2. BusType'
  BY <1>1, SendType DEF SpeedInv, SpeedType
<1>3. CASE FinishRun(1)
  <2>1. MainType' /\ ResType' /\ main'.pc = "return"
    BY <1>3, FinishRunEffect DEF SpeedInv
  <2>2. AliveInv'
    BY <1>1, <2>1 DEF SpeedInv, AliveInv, InRound
  <2>3. VerdictInv'
    <3>1. 1 \in Int \ {0}
      OBVIOUS
    <3>2. UNCHANGED <<cfg, intr>>
      BY <1>1
    <3> QED
      BY <1>3, <3>1, <3>2, FailedVerdict, Zenon
  <2> QED
    BY <1>1, <1>2, <2>1, <2>2, <2>3 DEF SpeedInv, SpeedType, AuxType
<1>4. ASSUME UNCHANGED res, NEW q, main' = [main EXCEPT !.pc = "candidate", !.todo = q]
      PROVE  SpeedInv'
  <2>1. MainType' /\ main'.pc = "candidate" /\ main'.round = main.round
    BY <1>4 DEF SpeedInv, SpeedType, MainType
  <2>2. AliveInv'
    BY <1>1, <2>1 DEF SpeedInv, AliveInv, InRound
  <2>3. VerdictInv'
    BY <1>1, <1>4, <2>1 DEF SpeedInv, VerdictInv, InRound, BehindConnect, BehindIdle, Over, Plan
  <2> QED
    BY <1>1, <1>2, <1>4, <2>1, <2>2, <2>3 DEF SpeedInv, SpeedType, ResType, AuxType
<1> QED
  BY <1>1, <1>3, <1>4

\* Degraded at least when asked-for metadata was not obtained.
LEMMA ConnectStep == ASSUME SpeedInv, Connect PROVE SpeedInv'
<1>0. main.pc = "chosen" /\ UNCHANGED <<cfg, intr, work, aux, held>>
  BY DEF Connect
<1>1. ASSUME NEW code \in {1, 130}, FinishRun(code), UNCHANGED bus PROVE SpeedInv'
  <2>1. MainType' /\ ResType' /\ main'.pc = "return"
    BY <1>1, FinishRunEffect DEF SpeedInv
  <2>2. AliveInv'
    BY <1>0, <1>1, <2>1 DEF SpeedInv, AliveInv, InRound
  <2>3. VerdictInv'
    BY <1>0, <1>1, FailedVerdict
  <2> QED
    BY <1>0, <1>1, <2>1, <2>2, <2>3 DEF SpeedInv, SpeedType, AuxType, BusType
<1>2. ASSUME NEW c \in gatherConnectionInfo, NEW degraded, NEW gathered, Send,
             degraded = (res.degraded \/ (cfg.metadata /\ c # "ok")),
             gathered = [res EXCEPT !.conn = c, !.degraded = degraded],
             IF BindFails(main.sel)
             THEN /\ main' = [main EXCEPT !.pc = "return"]
                  /\ res' = [gathered EXCEPT !.exit = 1]
             ELSE /\ res' = gathered
                  /\ main' = [main EXCEPT !.pc = "idle", !.left = cfg.latencyCount, !.cands = << >>]
      PROVE  SpeedInv'
  <2>1. /\ degraded \in BOOLEAN /\ (res.degraded => degraded)
        /\ (~ degraded => (cfg.metadata => c = "ok"))
    BY <1>2
  <2>2. /\ DOMAIN gathered = DOMAIN res /\ gathered.degraded = degraded /\ gathered.conn = c
        /\ gathered.worst = res.worst /\ gathered.rounds = res.rounds
        /\ gathered.idle = res.idle /\ gathered.exit = res.exit
    BY <1>2 DEF SpeedInv, SpeedType, ResType
  <2>3. BusType'
    BY <1>2, SendType DEF SpeedInv, SpeedType
  <2>4. CASE BindFails(main.sel)
    <3>1. MainType' /\ main'.pc = "return"
      BY <1>2, <2>4 DEF SpeedInv, SpeedType, MainType
    <3>2. /\ DOMAIN res' = DOMAIN res /\ res'.degraded = degraded /\ res'.worst = res.worst
          /\ res'.rounds = res.rounds /\ res'.exit = 1
      BY <1>2, <2>2, <2>4 DEF SpeedInv, SpeedType, ResType
    <3>3. ResType'
      BY <2>1, <3>2 DEF SpeedInv, SpeedType, ResType
    <3>4. AliveInv'
      BY <1>0, <3>1 DEF SpeedInv, AliveInv, InRound
    <3>5. VerdictInv'
      BY <1>0, <2>1, <3>1, <3>2 DEF SpeedInv, VerdictInv, InRound, BehindConnect, BehindIdle, Over
    <3> QED
      BY <1>0, <2>3, <3>1, <3>3, <3>4, <3>5 DEF SpeedInv, SpeedType, AuxType
  <2>5. CASE ~ BindFails(main.sel)
    <3>1. MainType' /\ main'.pc = "idle" /\ main'.round = main.round
      BY <1>2, <2>5 DEF SpeedInv, SpeedType, MainType
    <3>2. /\ DOMAIN res' = DOMAIN res /\ res'.degraded = degraded /\ res'.worst = res.worst
          /\ res'.rounds = res.rounds /\ res'.exit = res.exit /\ res'.conn = c
      BY <1>2, <2>2, <2>5
    <3>3. ResType'
      BY <2>1, <3>2 DEF SpeedInv, SpeedType, ResType
    <3>4. AliveInv'
      BY <1>0, <3>1 DEF SpeedInv, AliveInv, InRound
    <3>5. VerdictInv'
      BY <1>0, <2>1, <3>1, <3>2 DEF SpeedInv, VerdictInv, InRound, BehindConnect, BehindIdle, Over,
         Plan
    <3> QED
      BY <1>0, <2>3, <3>1, <3>3, <3>4, <3>5 DEF SpeedInv, SpeedType, AuxType
  <2> QED
    BY <2>4, <2>5
<1>3. \/ \E code \in {1, 130} : FinishRun(code) /\ UNCHANGED bus
      \/ \E c \in gatherConnectionInfo :
           LET gathered == [res EXCEPT !.conn = c,
                                       !.degraded = @ \/ (cfg.metadata /\ c # "ok")] IN
           /\ Send
           /\ IF BindFails(main.sel)
              THEN /\ main' = [main EXCEPT !.pc = "return"]
                   /\ res' = [gathered EXCEPT !.exit = 1]
              ELSE /\ res' = gathered
                   /\ main' = [main EXCEPT !.pc = "idle", !.left = cfg.latencyCount,
                                           !.cands = << >>]
  BY Zenon DEF Connect
<1> QED
  BY <1>1, <1>2, <1>3, Zenon

LEMMA IdleStep == ASSUME SpeedInv, IdleDone PROVE SpeedInv'
<1>0. main.pc = "idle" /\ Send /\ UNCHANGED <<cfg, intr, work, aux, held>>
  BY DEF IdleDone
<1>1. MainType' /\ main'.pc = "round" /\ main'.round = main.round
  BY DEF IdleDone, SpeedInv, SpeedType, MainType
<1>2. PICK idle, degraded :
        /\ idle = IF main.idle > 0 THEN "ok" ELSE "unavailable"
        /\ degraded = (res.degraded \/ main.idle = 0)
        /\ res' = [res EXCEPT !.idle = idle, !.degraded = degraded]
  BY Zenon DEF IdleDone
<1>3. /\ degraded \in BOOLEAN /\ (res.degraded => degraded) /\ (~ degraded => idle = "ok")
  <2>1. main.idle \in Nat
    BY DEF SpeedInv, SpeedType, MainType
  <2>2. degraded \in BOOLEAN /\ (res.degraded => degraded) /\ (~ degraded => main.idle # 0)
    BY <1>2, Zenon
  <2> QED
    BY <1>2, <2>1, <2>2
<1>4. /\ DOMAIN res' = DOMAIN res /\ res'.degraded = degraded /\ res'.worst = res.worst
      /\ res'.rounds = res.rounds /\ res'.exit = res.exit /\ res'.conn = res.conn
      /\ res'.idle = idle
  BY <1>2 DEF SpeedInv, SpeedType, ResType
<1>5. ResType'
  BY <1>3, <1>4 DEF SpeedInv, SpeedType, ResType
<1>6. BusType'
  BY <1>0, SendType DEF SpeedInv, SpeedType
<1>7. AliveInv'
  BY <1>0, <1>1 DEF SpeedInv, AliveInv, InRound
<1>8. VerdictInv'
  BY <1>0, <1>1, <1>3, <1>4 DEF SpeedInv, VerdictInv, InRound, BehindConnect, BehindIdle, Over, Plan
<1> QED
  BY <1>0, <1>1, <1>5, <1>6, <1>7, <1>8 DEF SpeedInv, SpeedType, AuxType

LEMMA SummarizeStep == ASSUME SpeedInv, Summarize PROVE SpeedInv'
<1>1. PICK code \in Int : FinishRun(code) /\ (code = 0 => ~ intr /\ ~ res.degraded)
  BY DEF Summarize
<1>2. BusType'
  BY SendType DEF Summarize, SpeedInv, SpeedType, BusType
<1>3. UNCHANGED <<cfg, intr, work, aux, held>> /\ main.pc = "round" /\ main.round > Len(Plan)
  BY DEF Summarize
<1>4. AliveInv'
  BY <1>1, <1>3, FinishRunEffect DEF SpeedInv, AliveInv, InRound
<1>5. VerdictInv'
  <2>1. CASE code # 0
    BY <1>1, <1>3, <2>1, FailedVerdict
  <2>2. CASE code = 0
    <3>1. Len(Plan) \in Nat
      BY DEF Plan
    <3>2. main.round = Len(Plan) + 1 /\ res.rounds = Len(Plan) /\ ~ res.worst
      BY <1>1, <1>3, <2>2, <3>1 DEF SpeedInv, SpeedType, MainType, ResType, VerdictInv, Over
    <3>3. res.idle = "ok" /\ (cfg.metadata => res.conn = "ok")
      BY <1>1, <1>3, <2>2 DEF SpeedInv, VerdictInv, BehindIdle, BehindConnect
    <3>4. Good'
      BY <1>1, <1>3, <3>2, <3>3, FinishRunEffect DEF Good, Plan, SpeedInv
    <3> QED
      BY <1>1, <1>3, <3>2, <3>4, FinishRunEffect DEF VerdictInv, Over, InRound, BehindConnect,
         BehindIdle, SpeedInv
  <2> QED
    BY <2>1, <2>2
<1> QED
  BY <1>1, <1>2, <1>3, <1>4, <1>5, FinishRunEffect DEF SpeedInv, SpeedType, AuxType

LEMMA SpeedStep_Inv == SpeedInv /\ [ProcNext]_procVars => SpeedInv'
<1> SUFFICES ASSUME SpeedInv, [ProcNext]_procVars PROVE SpeedInv'
  OBVIOUS
<1>1. CASE UNCHANGED spVars
  BY <1>1 DEF spVars, SpeedInv, SpeedType, MainType, ResType, AuxType, BusType, AliveInv,
     VerdictInv, Good, Plan
<1>2. CASE SpNext
  BY <1>2, ChoiceSteps, RoundSteps, ClosingSteps, BesideSteps, WorkerSteps, ResolveStep,
     ConnectStep, IdleStep, SummarizeStep DEF SpNext, MainStep
<1> QED
  BY <1>1, <1>2 DEF ProcNext, DoCli, DoOther, OnlyCli, DoNali, DoFast, DoGp, DoUI, DoSpeed, procVars

\* Up to the prompt no round has run, and what comes after a prompt left behind its reader
\* ends the run.
LEMMA ReaderOfChoice ==
  ASSUME SpeedInv, ReaderInv,
         \/ LoadConfig \/ ResolveCandidates \/ BuildCandidate \/ SelectCandidate
         \/ RenderSelection \/ OpenPrompt \/ TakeChoice \/ Connect
  PROVE  ReaderInv'
<1> USE DEF ReaderInv, Over
<1>1. CASE LoadConfig
  BY <1>1 DEF LoadConfig, Goto, SpeedInv, SpeedType, MainType, ResType
<1>2. CASE BuildCandidate \/ SelectCandidate \/ RenderSelection
  <2>1. /\ main.pc \in {"candidate", "select"} /\ main'.pc \in {"candidate", "select", "chosen"}
        /\ UNCHANGED <<res, aux>>
    BY <1>2 DEF BuildCandidate, SelectCandidate, RenderSelection, Goto, SpeedInv, SpeedType,
       MainType
  <2> QED
    BY <2>1
<1>3. CASE ResolveCandidates
  <2>1. main.pc = "discover" /\ UNCHANGED aux
    BY <1>3 DEF ResolveCandidates
  <2>2. \/ UNCHANGED res /\ \E q : main' = [main EXCEPT !.pc = "candidate", !.todo = q]
        \/ FinishRun(1)
    BY <1>3, Zenon DEF ResolveCandidates
  <2>3. CASE FinishRun(1)
    BY <2>1, <2>3, FinishRunEffect DEF SpeedInv
  <2>4. ASSUME UNCHANGED res, NEW q, main' = [main EXCEPT !.pc = "candidate", !.todo = q]
        PROVE  ReaderInv'
    BY <2>1, <2>4 DEF SpeedInv, SpeedType, MainType
  <2> QED
    BY <2>2, <2>3, <2>4
<1>4. CASE OpenPrompt
  BY <1>4 DEF OpenPrompt, Goto, SpeedInv, SpeedType, MainType
<1>5. CASE TakeChoice
  <2>1. main.pc = "prompt" /\ UNCHANGED <<res, intr>>
    BY <1>5 DEF TakeChoice
  <2>2. main'.pc = "chosen" /\ (aux'.reader # "off" => intr)
    BY <1>5 DEF TakeChoice, Goto, SpeedInv, SpeedType, MainType, AuxType
  <2> QED
    BY <2>1, <2>2
<1>6. CASE Connect
  <2>1. main.pc = "chosen" /\ UNCHANGED <<cfg, intr, aux>> /\ res.rounds = 0
    BY <1>6 DEF Connect
  <2>2. CASE main.sel = None \/ intr
    <3>1. PICK code \in {1, 130} : FinishRun(code)
      BY <1>6, <2>2, Zenon DEF Connect
    <3> QED
      BY <2>1, <3>1, FinishRunEffect DEF SpeedInv
  <2>3. CASE ~ (main.sel = None \/ intr)
    <3>1. main'.pc \in {"return", "idle"}
      BY <1>6, <2>3 DEF Connect, SpeedInv, SpeedType, MainType
    <3> QED
      BY <2>1, <2>3, <3>1
  <2> QED
    BY <2>2, <2>3
<1> QED
  BY <1>1, <1>2, <1>3, <1>4, <1>5, <1>6

\* Nobody is left at the prompt once something is measured; and the end of a run keeps what
\* was left there.
LEMMA ReaderOfRest ==
  ASSUME SpeedInv, ReaderInv,
         \/ MeasureIdle \/ IdleDone \/ StartRound \/ JoinWorkers \/ StopProbe \/ RecordRound
         \/ Summarize \/ CloseBus \/ CloseAll
  PROVE  ReaderInv'
<1> USE DEF ReaderInv, Over
<1>1. CASE MeasureIdle \/ IdleDone \/ StartRound \/ JoinWorkers \/ StopProbe \/ RecordRound
  <2>1. main.pc \in BehindConnect /\ aux.reader = "off"
    BY <1>1 DEF MeasureIdle, IdleDone, StartRound, JoinWorkers, StopProbe, RecordRound,
       BehindConnect, InRound
  <2>2. main'.pc \in BehindConnect
    BY <1>1 DEF MeasureIdle, IdleDone, StartRound, JoinWorkers, StopProbe, RecordRound,
       BehindConnect, InRound, Goto, SpeedInv, SpeedType, MainType
  <2>3. aux'.reader = "off"
    BY <1>1, <2>1 DEF MeasureIdle, IdleDone, StartRound, JoinWorkers, StopProbe, RecordRound,
       Idle, SpeedInv, SpeedType, AuxType
  <2> QED
    BY <2>2, <2>3 DEF BehindConnect, InRound
<1>2. CASE Summarize
  <2>1. main.pc = "round" /\ UNCHANGED aux /\ \E code \in Int : FinishRun(code)
    BY <1>2 DEF Summarize
  <2> QED
    BY <2>1, FinishRunEffect DEF SpeedInv
<1>3. CASE CloseBus \/ CloseAll
  <2>1. main.pc = "return" /\ main'.pc \in Over /\ UNCHANGED <<intr, aux>>
    BY <1>3 DEF CloseBus, CloseAll, Goto, SpeedInv, SpeedType, MainType
  <2>2. res'.rounds = res.rounds /\ (res.exit # 0 => res'.exit # 0)
    BY <1>3 DEF CloseBus, CloseAll, SpeedInv, SpeedType, ResType
  <2> QED
    BY <2>1, <2>2
<1> QED
  BY <1>1, <1>2, <1>3

LEMMA ReaderStep_Inv == SpeedInv /\ ReaderInv /\ [ProcNext]_procVars => ReaderInv'
<1> SUFFICES ASSUME SpeedInv, ReaderInv, [ProcNext]_procVars PROVE ReaderInv'
  OBVIOUS
<1>1. CASE UNCHANGED spVars
  BY <1>1 DEF spVars, ReaderInv
<1>2. ASSUME UNCHANGED <<main, res>>, aux'.reader \in {aux.reader, "off"}, intr => intr'
      PROVE  ReaderInv'
  BY <1>2 DEF ReaderInv
<1>3. CASE Render \/ Interrupt \/ Expire \/ ProgressTick \/ ProgressEnds \/ ProbeLoop
  <2>1. UNCHANGED <<main, res>> /\ (intr => intr')
    BY <1>3 DEF Render, Interrupt, Expire, ProgressTick, ProgressEnds, ProbeLoop, restOfRun
  <2>2. aux'.reader = aux.reader
    BY <1>3 DEF Render, Interrupt, Expire, ProgressTick, ProgressEnds, ProbeLoop, restOfRun,
       SpeedInv, SpeedType, AuxType
  <2> QED
    BY <1>2, <2>1, <2>2
<1>4. CASE ReadChoice
  <2>1. UNCHANGED <<main, res, intr>> /\ aux.reader = "reading"
    BY <1>4 DEF ReadChoice
  <2>2. main.pc # "prompt" => aux'.reader = "off"
    BY <1>4 DEF ReadChoice, SpeedInv, SpeedType, AuxType
  <2> QED
    BY <2>1, <2>2 DEF ReaderInv, Over
<1>5. ASSUME NEW w \in DOMAIN work, WorkerStep(w) PROVE ReaderInv'
  <2>1. UNCHANGED <<intr, main, res, aux>>
    BY <1>5 DEF WorkerStep, WorkerConnect, WorkerChunk, WorkerEnds, restOfRun
  <2> QED
    BY <1>2, <2>1
<1>6. CASE SpNext
  BY <1>3, <1>4, <1>5, <1>6, ReaderOfChoice, ReaderOfRest DEF SpNext, MainStep
<1> QED
  BY <1>1, <1>6 DEF ProcNext, DoCli, DoOther, OnlyCli, DoNali, DoFast, DoGp, DoUI, DoSpeed, procVars

\* A speed test that is over has ended the goroutines of its rounds, printed and closed
\* everything; its exit code is 0 only if all that was asked for was measured and good.  The
\* reader of the prompt is the one goroutine that may be left, behind an interrupt at the
\* prompt, when no round was run and the exit code says so (promptChoice).
THEOREM SpeedClean == ProcSpec => []SpeedRunClean
<1>1. SpeedInv /\ ReaderInv => SpeedRunClean
  BY DEF SpeedInv, SpeedType, AliveInv, VerdictInv, ReaderInv, Over, InRound, Good, SpeedRunClean
<1>2. ProcInit => ReaderInv
  BY DEF ProcInit, SpInit, Idle, ReaderInv
<1> QED
  BY SpeedInit_Inv, SpeedStep_Inv, ReaderStep_Inv, <1>1, <1>2, PTL DEF ProcSpec

-----------------------------------------------------------------------------
(***************************************************************************)
(* nali                                                                    *)
(***************************************************************************)
LEMMA NoLabels == Labels(<< >>, 0, << >>, {})
<1>1. IsFiniteSet({}) /\ Cardinality({}) = 0
  BY FS_EmptySet
<1>2. << >> \in Seq(NaliIPs) /\ Len(<< >>) = 0
  OBVIOUS
<1>3. {<< >>[i] : i \in 1 .. Len(<< >>)} = {}
  BY <1>2
<1> QED
  BY <1>1, <1>2, <1>3, NaliAssumption DEF Labels

\* The ring has room: the label comes last in both.
LEMMA AppendLabel ==
  ASSUME NEW ring, NEW next, NEW newest, NEW cache, Labels(ring, next, newest, cache),
         NEW ip \in NaliIPs, ip \notin cache, Len(ring) < maxCacheEntries
  PROVE  Labels(Append(ring, ip), next, Append(newest, ip), cache \cup {ip})
<1> DEFINE r == Append(ring, ip)
           w == Append(newest, ip)
           n == Len(ring)
<1>1. /\ ring \in Seq(NaliIPs) /\ newest \in Seq(NaliIPs)
      /\ n \in Nat /\ Len(newest) = n /\ next = 0
      /\ \A i \in 1 .. n : newest[i] = ring[Place(n, next, i)]
      /\ \A i, j \in 1 .. n : ring[i] = ring[j] => i = j
      /\ cache = {ring[i] : i \in 1 .. n}
      /\ IsFiniteSet(cache) /\ Cardinality(cache) = n
  <2>1. ring \in Seq(NaliIPs)
    BY DEF Labels
  <2>2. n \in Nat
    BY <2>1
  <2> QED
    BY <2>1, <2>2, Zenon DEF Labels
<1>2. /\ r \in Seq(NaliIPs) /\ Len(r) = n + 1 /\ r[n + 1] = ip
      /\ \A i \in 1 .. n : r[i] = ring[i]
  BY <1>1
<1>3. /\ w \in Seq(NaliIPs) /\ Len(w) = n + 1 /\ w[n + 1] = ip
      /\ \A i \in 1 .. n : w[i] = newest[i]
  BY <1>1
<1>4. \A i \in 1 .. n + 1 : Place(n + 1, next, i) = i
  BY <1>1 DEF Place
<1>5. \A i \in 1 .. n : newest[i] = ring[i]
  BY <1>1 DEF Place
<1> HIDE DEF r, w, n
<1>6. \A i \in 1 .. n + 1 : w[i] = r[Place(n + 1, next, i)]
  BY <1>1, <1>2, <1>3, <1>4, <1>5
<1>7. \A i, j \in 1 .. n + 1 : r[i] = r[j] => i = j
  <2>1. \A i \in 1 .. n : r[i] = ring[i] /\ ring[i] # ip
    BY <1>1, <1>2
  <2>2. \A i \in 1 .. n + 1 : i \in 1 .. n \/ i = n + 1
    BY <1>1
  <2> SUFFICES ASSUME NEW i \in 1 .. n + 1, NEW j \in 1 .. n + 1, r[i] = r[j] PROVE i = j
    OBVIOUS
  <2>3. CASE i \in 1 .. n /\ j \in 1 .. n
    BY <1>1, <2>1, <2>3
  <2>4. CASE i = n + 1 \/ j = n + 1
    BY <1>2, <2>1, <2>2, <2>4
  <2> QED
    BY <2>2, <2>3, <2>4
<1>8. cache \cup {ip} = {r[i] : i \in 1 .. n + 1}
  BY <1>1, <1>2
<1>9. IsFiniteSet(cache \cup {ip}) /\ Cardinality(cache \cup {ip}) = n + 1
  <2>1. IsFiniteSet(cache) /\ Cardinality(cache) = n
    BY <1>1
  <2> QED
    BY <2>1, FS_AddElement
<1>10. /\ n + 1 <= maxCacheEntries /\ next \in 0 .. maxCacheEntries - 1
       /\ n + 1 < maxCacheEntries => next = 0
  BY <1>1, NaliAssumption DEF n
<1> QED
  BY <1>2, <1>3, <1>6, <1>7, <1>8, <1>9, <1>10, Zenon DEF Labels, r, w

\* The place behind next, in a ring that is full.
LEMMA NextPlace ==
  ASSUME NEW next \in 0 .. maxCacheEntries - 1
  PROVE  (next + 1) % maxCacheEntries = IF next + 1 = maxCacheEntries THEN 0 ELSE next + 1
BY NaliAssumption

\* The ring is full: the label replaces the oldest one, which is the next to be written.
LEMMA ReplaceLabel ==
  ASSUME NEW ring, NEW next, NEW newest, NEW cache, Labels(ring, next, newest, cache),
         NEW ip \in NaliIPs, ip \notin cache, ~ Len(ring) < maxCacheEntries
  PROVE  Labels([ring EXCEPT ![next + 1] = ip], (next + 1) % maxCacheEntries,
                Append(Tail(newest), ip), (cache \ {ring[next + 1]}) \cup {ip})
<1> DEFINE n == maxCacheEntries
           old == ring[next + 1]
           r == [ring EXCEPT ![next + 1] = ip]
           x == (next + 1) % n
           w == Append(Tail(newest), ip)
           c == (cache \ {old}) \cup {ip}
<1>1. /\ ring \in Seq(NaliIPs) /\ newest \in Seq(NaliIPs) /\ n \in Nat \ {0}
      /\ Len(ring) = n /\ Len(newest) = n /\ next \in 0 .. n - 1
      /\ \A i \in 1 .. n : newest[i] = ring[Place(n, next, i)]
      /\ \A i, j \in 1 .. n : ring[i] = ring[j] => i = j
      /\ cache = {ring[i] : i \in 1 .. n}
      /\ IsFiniteSet(cache) /\ Cardinality(cache) = n
  <2>1. ring \in Seq(NaliIPs) /\ Len(ring) <= n
    BY DEF Labels
  <2>2. Len(ring) = n /\ n \in Nat \ {0}
    BY <2>1, NaliAssumption
  <2> QED
    BY <2>1, <2>2, Zenon DEF Labels
<1>2. x = IF next + 1 = n THEN 0 ELSE next + 1
  BY <1>1, NextPlace
<1>3. /\ r \in Seq(NaliIPs) /\ Len(r) = n /\ r[next + 1] = ip
      /\ \A i \in 1 .. n : i # next + 1 => r[i] = ring[i]
  BY <1>1
<1>4. /\ w \in Seq(NaliIPs) /\ Len(w) = n /\ w[n] = ip
      /\ \A i \in 1 .. n - 1 : w[i] = newest[i + 1]
  BY <1>1
<1>5. old \in cache /\ old # ip
  BY <1>1
<1> HIDE DEF n, old, r, x, w, c
<1>6. \A i \in 1 .. n : w[i] = r[Place(n, x, i)]
  <2> SUFFICES ASSUME NEW i \in 1 .. n PROVE w[i] = r[Place(n, x, i)]
    OBVIOUS
  <2>1. CASE i = n
    BY <1>1, <1>2, <1>3, <1>4, <2>1 DEF Place
  <2>2. CASE i # n
    <3>1. Place(n, x, i) = Place(n, next, i + 1) /\ Place(n, x, i) \in 1 .. n
      <4>1. n \in Nat /\ next \in 0 .. n - 1 /\ i \in 1 .. n - 1
        BY <1>1, <2>2
      <4>2. CASE next + 1 = n
        BY <1>2, <4>1, <4>2 DEF Place
      <4>3. CASE next + 1 # n
        BY <1>2, <4>1, <4>3 DEF Place
      <4> QED
        BY <4>2, <4>3
    <3>2. Place(n, x, i) # next + 1
      BY <1>1, <1>2, <2>2 DEF Place
    <3>3. w[i] = newest[i + 1] /\ newest[i + 1] = ring[Place(n, next, i + 1)]
      BY <1>1, <1>4, <2>2
    <3> QED
      BY <1>3, <3>1, <3>2, <3>3
  <2> QED
    BY <2>1, <2>2
<1>7. \A i, j \in 1 .. n : r[i] = r[j] => i = j
  <2>1. \A i \in 1 .. n : ring[i] # ip
    BY <1>1
  <2> QED
    BY <1>1, <1>3, <2>1
<1>8. c = {r[i] : i \in 1 .. n}
  <2>1. \A i \in 1 .. n : i # next + 1 => ring[i] # old
    BY <1>1 DEF old
  <2>2. \A e : e \in c <=> e = ip \/ \E i \in 1 .. n : i # next + 1 /\ e = ring[i]
    BY <1>1, <1>5, <2>1 DEF c, old
  <2> QED
    BY <1>1, <1>3, <2>2
<1>9. IsFiniteSet(c) /\ Cardinality(c) = n
  <2>1. IsFiniteSet(cache \ {old}) /\ Cardinality(cache \ {old}) = n - 1
    <3>1. IsFiniteSet(cache) /\ Cardinality(cache) = n
      BY <1>1
    <3> QED
      BY <1>5, <3>1, FS_RemoveElement
  <2>2. ip \notin cache \ {old}
    OBVIOUS
  <2>3. IsFiniteSet(c) /\ Cardinality(c) = (n - 1) + 1
    BY <2>1, <2>2, FS_AddElement DEF c
  <2> QED
    BY <1>1, <2>3
<1>10. x \in 0 .. n - 1
  BY <1>1, <1>2
<1> QED
  BY <1>1, <1>3, <1>4, <1>6, <1>7, <1>8, <1>9, <1>10 DEF Labels, n, r, x, w, c, old

LEMMA NaliIdle_Inv == nali = naliIdle => NaliInv
BY NoLabels DEF naliIdle, NaliInv, NaliFields

LEMMA NaliInit_Inv == ProcInit => NaliInv
BY NaliIdle_Inv DEF ProcInit, NaliInit

\* A label is stored in one of the two ways.
LEMMA StoreLabel ==
  ASSUME NEW n, DOMAIN n = NaliFields, n.todo \in Seq(NaliIPs),
         Labels(n.ring, n.next, n.newest, n.cache), NEW ip \in NaliIPs, ip \notin n.cache,
         nali' = storeLabel(n, ip)
  PROVE  NaliInv'
<1>1. CASE Len(n.ring) < maxCacheEntries
  <2>1. nali' = [n EXCEPT !.ring = Append(@, ip), !.cache = @ \cup {ip}, !.newest = Append(@, ip)]
    BY <1>1 DEF storeLabel
  <2>2. /\ DOMAIN nali' = NaliFields /\ nali'.todo = n.todo /\ nali'.next = n.next
        /\ nali'.ring = Append(n.ring, ip) /\ nali'.newest = Append(n.newest, ip)
        /\ nali'.cache = n.cache \cup {ip}
    BY <2>1 DEF NaliFields
  <2> QED
    BY <1>1, <2>2, AppendLabel DEF NaliInv
<1>2. CASE ~ Len(n.ring) < maxCacheEntries
  <2>1. nali' = [n EXCEPT !.ring[n.next + 1] = ip, !.next = (@ + 1) % maxCacheEntries,
                   !.cache = (@ \ {n.ring[n.next + 1]}) \cup {ip}, !.newest = Append(Tail(@), ip)]
    BY <1>2 DEF storeLabel
  <2>2. /\ DOMAIN nali' = NaliFields /\ nali'.todo = n.todo
        /\ nali'.next = (n.next + 1) % maxCacheEntries
        /\ nali'.ring = [n.ring EXCEPT ![n.next + 1] = ip]
        /\ nali'.newest = Append(Tail(n.newest), ip)
        /\ nali'.cache = (n.cache \ {n.ring[n.next + 1]}) \cup {ip}
    BY <2>1, Zenon DEF NaliFields
  <2> QED
    BY <1>2, <2>2, ReplaceLabel DEF NaliInv
<1> QED
  BY <1>1, <1>2

LEMMA LookupLabel_Inv == ASSUME NaliInv, lookupLabel PROVE NaliInv'
<1> DEFINE ip == Head(nali.todo)
           rest == [nali EXCEPT !.todo = Tail(@)]
<1>1. ip \in NaliIPs /\ Tail(nali.todo) \in Seq(NaliIPs)
  BY DEF lookupLabel, NaliInv
<1>2. /\ DOMAIN rest = NaliFields /\ rest.todo \in Seq(NaliIPs)
      /\ Labels(rest.ring, rest.next, rest.newest, rest.cache) /\ rest.cache = nali.cache
  BY <1>1 DEF NaliInv, NaliFields
<1>3. nali' = rest \/ (ip \notin nali.cache /\ nali' = storeLabel(rest, ip))
  BY Zenon DEF lookupLabel
<1> HIDE DEF ip, rest
<1>4. CASE nali' = rest
  BY <1>2, <1>4 DEF NaliInv
<1> QED
  BY <1>1, <1>2, <1>3, <1>4, StoreLabel

\* Everything else reads a line, or keeps the labels, or ends the mode.
LEMMA NaliStep_Inv == NaliInv /\ [ProcNext]_procVars => NaliInv'
<1> SUFFICES ASSUME NaliInv, [ProcNext]_procVars PROVE NaliInv'
  OBVIOUS
<1>1. CASE UNCHANGED nali
  BY <1>1 DEF NaliInv
<1>2. CASE nali' = naliIdle
  <2>1. (nali = naliIdle => NaliInv)'
    BY NaliIdle_Inv, PTL
  <2> QED
    BY <1>2, <2>1 DEF naliIdle
<1>3. CASE NaliRun \/ NaliTop \/ NaliInput \/ NaliInterrupted \/ NaliWrite
  <2>1. \/ nali' = naliIdle
        \/ \E pc, last : \E l \in Lines : nali' = [nali EXCEPT !.pc = pc, !.todo = l, !.last = last]
        \/ \E pc, blocking : \/ nali' = [nali EXCEPT !.pc = pc]
                             \/ nali' = [nali EXCEPT !.pc = pc, !.blocking = blocking]
    <3>1. CASE NaliRun
      BY <3>1, Zenon DEF NaliRun
    <3>2. CASE NaliInput
      BY <3>2, Zenon DEF NaliInput, NaliReturns
    <3>3. CASE NaliTop \/ NaliInterrupted \/ NaliWrite
      BY <3>3, Zenon DEF NaliTop, NaliInterrupted, NaliWrite, NaliReturns
    <3> QED
      BY <1>3, <3>1, <3>2, <3>3, Zenon
  <2>2. \A l \in Lines : l \in Seq(NaliIPs)
    BY NaliAssumption DEF Lines, BoundedSeq, SeqOf
  <2> QED
    BY <1>2, <2>1, <2>2 DEF NaliInv, NaliFields
<1> QED
  BY <1>1, <1>3, LookupLabel_Inv
  DEF NaliNext, NaliStep, ProcNext, DoCli, DoOther, OnlyCli, DoNali, DoFast, DoGp, DoUI, DoSpeed,
      procVars

\* The entries stored last are those of the ring, in another order.
LEMMA NewestOfRing == NaliInv => NewestLabels /\ Cardinality(nali.cache) <= maxCacheEntries
<1> SUFFICES ASSUME NEW ring, NEW next, NEW newest, NEW cache, Labels(ring, next, newest, cache)
             PROVE  /\ cache = Range(newest) /\ cache = Range(ring)
                    /\ Len(ring) = Cardinality(cache) /\ Len(newest) = Len(ring)
                    /\ Cardinality(cache) <= maxCacheEntries
  BY Zenon DEF NaliInv, NewestLabels
<1> DEFINE n == Len(ring)
<1>1. /\ ring \in Seq(NaliIPs) /\ newest \in Seq(NaliIPs) /\ Len(newest) = n
      /\ \A i \in 1 .. n : newest[i] = ring[Place(n, next, i)]
      /\ cache = {ring[i] : i \in 1 .. n} /\ Cardinality(cache) = n
      /\ n <= maxCacheEntries
  BY Zenon DEF Labels
<1>2. n \in Nat /\ next \in Nat /\ (n = 0 \/ next < n)
  BY NaliAssumption DEF Labels
<1>3. cache = Range(ring) /\ Range(newest) = {newest[i] : i \in 1 .. n}
  BY <1>1 DEF Range
<1> HIDE DEF n
<1>4. \A i \in 1 .. n : Place(n, next, i) \in 1 .. n
  BY <1>2 DEF Place
<1>5. ASSUME NEW i \in 1 .. n PROVE \E j \in 1 .. n : Place(n, next, j) = i
  <2>1. CASE i <= next
    <3>1. i + n - next \in 1 .. n /\ Place(n, next, i + n - next) = i
      BY <1>2, <2>1 DEF Place
    <3> QED
      BY <3>1
  <2>2. CASE i > next
    <3>1. i - next \in 1 .. n /\ Place(n, next, i - next) = i
      BY <1>2, <2>2 DEF Place
    <3> QED
      BY <3>1
  <2> QED
    BY <1>2, <2>1, <2>2
<1>6. {newest[i] : i \in 1 .. n} = {ring[i] : i \in 1 .. n}
  <2>1. \A i \in 1 .. n : newest[i] = ring[Place(n, next, i)]
    BY <1>1
  <2>2. \A i \in 1 .. n : newest[i] \in {ring[k] : k \in 1 .. n}
    BY <1>4, <2>1
  <2>3. \A i \in 1 .. n : ring[i] \in {newest[k] : k \in 1 .. n}
    BY <1>5, <2>1
  <2> QED
    BY <2>2, <2>3
<1> QED
  BY <1>1, <1>3, <1>6 DEF n

\* However many addresses have been looked up, the cache has the labels stored last, each of them in
\* one place of the ring, and never more than maxCacheEntries (storeLabel).
THEOREM LabelsNewest == ProcSpec => [](NewestLabels /\ Cardinality(nali.cache) <= maxCacheEntries)
<1>1. NaliInv => NewestLabels /\ Cardinality(nali.cache) <= maxCacheEntries
  BY NewestOfRing
<1> QED
  BY NaliInit_Inv, NaliStep_Inv, <1>1, PTL DEF ProcSpec
-----------------------------------------------------------------------------
(***************************************************************************)
(* The keyboard                                                            *)
(***************************************************************************)
LEMMA SequenceShape ==
  ASSUME NEW s \in Items
  PROVE  /\ EscapeSequence(s) /\ s \in Seq(Bytes) /\ Len(s) \in Nat /\ Len(s) >= 2 /\ s[1] = "ESC"
         /\ \A i \in 1 .. Len(s) : s[i] \in Bytes
BY KeyboardAssumption DEF EscapeSequence

\* The kinds of sequences exclude each other, so each fixes the parser's state from its
\* second byte on.
LEMMA InsideSequence ==
  ASSUME NEW s \in Items, NEW k \in 2 .. Len(s) - 1, NEW state, NEW n
  PROVE  /\ ~ AltKey(s)
         /\ FunctionKey(s) => (ParserAt(s, k, state, n) <=> state = "ss3")
         /\ Control(s)     => (ParserAt(s, k, state, n) <=> state = "csi" /\ n = k - 2)
         /\ MouseX10(s)    => (ParserAt(s, k, state, n) <=>
                                 IF k = 2 THEN state = "csi" ELSE state = "x10" /\ n = k - 3)
         /\ MouseSGR(s)    => (ParserAt(s, k, state, n) <=>
                                 IF k = 2 THEN state = "csi" ELSE state = "sgr")
         /\ ReportBEL(s)   => (ParserAt(s, k, state, n) <=> state = "osc")
         /\ ReportST(s)    => (ParserAt(s, k, state, n) <=>
                                 IF k = Len(s) - 1 THEN state = "esc" ELSE state = "osc")
<1>1. s \in Seq(Bytes) /\ Len(s) \in Nat /\ k # 0 /\ k # 1 /\ k \in Nat /\ k >= 2
  BY SequenceShape
<1> DEFINE len == Len(s)
<1>2. len \in Nat /\ k \in Nat /\ k >= 2 /\ k <= len - 1
  BY <1>1
<1> HIDE DEF len
<1>3. len >= 3 /\ len # 2 /\ (len # 3 => 3 \in 3 .. len - 1)
  BY <1>2
<1>4. /\ Len(s) >= 3 /\ Len(s) # 2 /\ (Len(s) # 3 => 3 \in 3 .. Len(s) - 1)
  BY <1>3 DEF len
<1>5. ~ AltKey(s)
  BY <1>4 DEF AltKey
<1>6. /\ FunctionKey(s) => s[2] = "O" /\ Len(s) = 3
      /\ Control(s)     => s[2] = "[" /\ s[3] # "M" /\ s[3] # "<"
      /\ MouseX10(s)    => s[2] = "[" /\ s[3] = "M"
      /\ MouseSGR(s)    => s[2] = "[" /\ s[3] = "<"
      /\ ReportBEL(s)   => s[2] = "]" /\ s[Len(s)] = "BEL"
      /\ ReportST(s)    => s[2] = "]" /\ s[Len(s)] = "final"
  <2>1. Control(s) => s[3] # "M" /\ s[3] # "<"
    <3>1. CASE Len(s) = 3
      BY <3>1 DEF Control, Final
    <3>2. CASE Len(s) # 3
      BY <1>4, <3>2 DEF Control
    <3> QED
      BY <3>1, <3>2
  <2> QED
    BY <2>1 DEF FunctionKey, Control, MouseX10, MouseSGR, ReportBEL, ReportST, Report
<1> QED
  BY <1>1, <1>5, <1>6 DEF ParserAt

\* Its first two bytes.
LEMMA SequenceBegins ==
  ASSUME NEW s \in Items, NEW state, NEW n
  PROVE  /\ ParserAt(s, 0, state, n) <=> state = "ground"
         /\ ParserAt(s, 1, state, n) <=> state = "esc"
BY DEF ParserAt

\* One byte of a sequence: the parser is one byte further, or behind the last one where it began;
\* and no byte finds it where a key would act.
LEMMA OneByte ==
  ASSUME NEW s \in Items, NEW k \in 0 .. Len(s) - 1, NEW p, p.csiN \in Nat,
         ParserAt(s, k, p.state, p.csiN)
  PROVE  /\ k = Len(s) - 1 => NextState(p, s[k + 1]) = "ground"
         /\ k < Len(s) - 1 => ParserAt(s, k + 1, NextState(p, s[k + 1]), NextCount(p, s[k + 1]))
         /\ NextCount(p, s[k + 1]) \in Nat
         /\ ~ (p.state = "ground" /\ s[k + 1] \in Keys)
<1> DEFINE b == s[k + 1]
           st == NextState(p, b)
           n == NextCount(p, b)
<1>1. /\ s \in Seq(Bytes) /\ Len(s) \in Nat /\ Len(s) >= 2 /\ s[1] = "ESC"
      /\ k \in Nat /\ k <= Len(s) - 1
  BY SequenceShape
<1> DEFINE len == Len(s)
<1>2. len \in Nat /\ k \in Nat /\ k <= len - 1 /\ len >= 2
  BY <1>1
<1> HIDE DEF len
<1>3. /\ k = 0 => k # len - 1 /\ k < len - 1 /\ k + 1 = 1
      /\ k = 1 /\ len # 2 => k + 1 \in 2 .. len - 1 /\ k < len - 1 /\ k + 1 = 2
  BY <1>2
<1> USE DEF len
<1>4. n \in Nat
  BY DEF NextCount
<1>5. CASE k = 0
  <2>1. p.state = "ground" /\ b = "ESC"
    BY <1>1, <1>5, SequenceBegins
  <2>2. st = "esc" /\ b \notin Keys
    BY <2>1 DEF NextState, Keys
  <2>3. k # Len(s) - 1 /\ ParserAt(s, k + 1, st, n)
    <3>1. ParserAt(s, 1, st, n)
      BY <2>2, SequenceBegins
    <3> QED
      BY <1>5, <1>3, <3>1
  <2> QED
    BY <1>1, <1>4, <1>5, <2>2, <2>3
<1>6. CASE k = 1
  <2>1. p.state = "esc" /\ b = s[2]
    BY <1>1, <1>6, SequenceBegins
  <2>2. /\ b = "[" => st = "csi" /\ n = 0
        /\ b = "O" => st = "ss3"
        /\ b = "]" => st = "osc"
        /\ b \notin {"[", "O", "]"} => st = "ground"
    BY <2>1 DEF NextState, NextCount
  <2>3. CASE Len(s) = 2
    <3>1. AltKey(s)
      <4>1. /\ EscapeSequence(s) /\ Len(s) # 3 /\ Len(s) # 6 /\ ~ Len(s) >= 4 /\ ~ Len(s) >= 3
            /\ Len(s) \notin 3 .. mtrParserMaxCSI + 3
        BY <2>3, SequenceShape
      <4> QED
        BY <4>1, Zenon
        DEF EscapeSequence, FunctionKey, Control, MouseX10, MouseSGR, ReportBEL, ReportST
    <3> QED
      BY <1>4, <1>6, <2>1, <2>2, <2>3, <3>1 DEF AltKey
  <2>4. CASE Len(s) # 2
    <3>1. k + 1 \in 2 .. Len(s) - 1 /\ k < Len(s) - 1 /\ k + 1 = 2
      BY <1>6, <1>3, <2>4
    <3>2. ~ AltKey(s)
      BY <3>1, InsideSequence
    <3> HIDE DEF b, st, n
    <3>3. CASE FunctionKey(s)
      <4>1. b = "O"
        BY <2>1, <3>3 DEF FunctionKey
      <4> QED
        BY <2>2, <3>1, <3>3, <4>1, InsideSequence, <1>4, <2>1 DEF b, st, n
    <3>4. CASE Control(s)
      <4>1. st = "csi" /\ n = 0
        BY <2>1, <2>2, <3>4 DEF Control
      <4>2. ParserAt(s, k + 1, st, n)
        BY <3>1, <3>4, <4>1, InsideSequence
      <4> QED
        BY <1>4, <2>1, <3>1, <4>2 DEF b, st, n
    <3>5. CASE MouseX10(s) \/ MouseSGR(s)
      <4>1. st = "csi"
        BY <2>1, <2>2, <3>5 DEF MouseX10, MouseSGR
      <4>2. ParserAt(s, k + 1, st, n)
        BY <3>1, <3>5, <4>1, InsideSequence
      <4> QED
        BY <1>4, <2>1, <3>1, <4>2 DEF b, st, n
    <3>6. CASE ReportBEL(s) \/ ReportST(s)
      <4>1. st = "osc"
        BY <2>1, <2>2, <3>6 DEF ReportBEL, ReportST, Report
      <4>2. ReportST(s) => k + 1 # Len(s) - 1
        BY <1>1, <1>6 DEF ReportST
      <4>3. ParserAt(s, k + 1, st, n)
        BY <3>1, <3>6, <4>1, <4>2, InsideSequence
      <4> QED
        BY <1>4, <2>1, <3>1, <4>3 DEF b, st, n
    <3> QED
      BY <3>2, <3>3, <3>4, <3>5, <3>6, SequenceShape, Zenon DEF EscapeSequence
  <2> QED
    BY <2>3, <2>4
<1>7. CASE k >= 2
  <2>1. k \in 2 .. Len(s) - 1 /\ (k < Len(s) - 1 => k + 1 \in 2 .. Len(s) - 1)
    BY <1>1, <1>7
  <2>2. ~ AltKey(s)
    BY <2>1, InsideSequence
  <2> SUFFICES /\ p.state # "ground"
               /\ k = Len(s) - 1 => st = "ground"
               /\ k < Len(s) - 1 => ParserAt(s, k + 1, st, n)
    BY <1>4
  <2>3. CASE FunctionKey(s)
    <3>1. p.state = "ss3" /\ Len(s) = 3
      BY <2>1, <2>3, InsideSequence DEF FunctionKey
    <3>2. st = "ground"
      BY <3>1 DEF NextState
    <3> QED
      BY <1>1, <1>7, <3>1, <3>2
  <2>4. CASE Control(s)
    <3>1. p.state = "csi" /\ p.csiN = k - 2
      BY <2>1, <2>4, InsideSequence
    <3>2. CASE k = Len(s) - 1
      <4>1. b \in Final
        BY <1>1, <2>4, <3>2 DEF Control
      <4>2. st = "ground"
        BY <3>1, <4>1 DEF NextState, Final
      <4> QED
        BY <1>1, <3>1, <3>2, <4>2
    <3>3. CASE k < Len(s) - 1
      <4>1. b \notin Final /\ b # "M" /\ b # "<" /\ k - 1 <= mtrParserMaxCSI
        BY <1>1, <1>7, <2>4, <3>3, KeyboardAssumption DEF Control
      <4>2. st = "csi" /\ n = k - 1
        BY <1>1, <3>1, <4>1, KeyboardAssumption DEF NextState, NextCount
      <4>3. ParserAt(s, k + 1, st, n)
        BY <1>1, <2>1, <2>4, <3>3, <4>2, InsideSequence
      <4> QED
        BY <1>1, <3>1, <3>3, <4>3
    <3> QED
      BY <1>1, <3>2, <3>3
  <2>5. CASE MouseX10(s)
    <3>1. /\ k = 2 => p.state = "csi" /\ b = "M"
          /\ k # 2 => p.state = "x10" /\ p.csiN = k - 3
          /\ Len(s) = 6
      <4>1. IF k = 2 THEN p.state = "csi" ELSE p.state = "x10" /\ p.csiN = k - 3
        BY <2>1, <2>5, InsideSequence
      <4> QED
        BY <2>5, <4>1 DEF MouseX10
    <3>2. /\ k = 2 => st = "x10" /\ n = 0
          /\ k # 2 /\ k < 5 => st = "x10" /\ n = k - 2
          /\ k = 5 => st = "ground"
      BY <1>1, <1>7, <3>1 DEF NextState, NextCount
    <3>3. ASSUME k < Len(s) - 1 PROVE ParserAt(s, k + 1, st, n)
      <4>1. k + 1 # 2 /\ k < 5 /\ st = "x10" /\ n = (k + 1) - 3
        BY <1>1, <1>7, <3>1, <3>2, <3>3
      <4> HIDE DEF st, n
      <4> QED
        BY <2>1, <2>5, <3>3, <4>1, InsideSequence
    <3> QED
      BY <3>1, <3>2, <3>3
  <2>6. CASE MouseSGR(s)
    <3>1. /\ k = 2 => p.state = "csi" /\ b = "<"
          /\ k # 2 => p.state = "sgr"
          /\ k = Len(s) - 1 => k # 2 /\ b \in {"M", "m"}
          /\ k < Len(s) - 1 => k = 2 \/ b \notin {"M", "m"}
      BY <1>1, <1>7, <2>1, <2>6, InsideSequence DEF MouseSGR
    <3>2. (k = Len(s) - 1 => st = "ground") /\ (k < Len(s) - 1 => st = "sgr")
      BY <1>1, <3>1 DEF NextState
    <3>3. k < Len(s) - 1 => ParserAt(s, k + 1, st, n)
      BY <1>1, <1>7, <2>1, <2>6, <3>2, InsideSequence
    <3> QED
      BY <3>1, <3>2, <3>3
  <2>7. CASE ReportBEL(s)
    <3>1. /\ p.state = "osc" /\ (k = Len(s) - 1 => b = "BEL")
          /\ k < Len(s) - 1 => b # "BEL" /\ b # "ESC"
      BY <1>1, <1>7, <2>1, <2>7, InsideSequence DEF ReportBEL, Report
    <3>2. (k = Len(s) - 1 => st = "ground") /\ (k < Len(s) - 1 => st = "osc")
      BY <1>1, <3>1 DEF NextState
    <3>3. k < Len(s) - 1 => ParserAt(s, k + 1, st, n)
      BY <2>1, <2>7, <3>2, InsideSequence
    <3> QED
      BY <3>1, <3>2, <3>3
  <2>8. CASE ReportST(s)
    <3>1. /\ IF k = Len(s) - 1 THEN p.state = "esc" /\ b = "final" ELSE p.state = "osc"
          /\ k = Len(s) - 2 => b = "ESC"
          /\ k < Len(s) - 2 => b # "BEL" /\ b # "ESC"
      BY <1>1, <1>7, <2>1, <2>8, InsideSequence DEF ReportST, Report
    <3>2. /\ k = Len(s) - 1 => st = "ground"
          /\ k = Len(s) - 2 => st = "esc"
          /\ k < Len(s) - 2 => st = "osc"
      BY <1>1, <3>1 DEF NextState
    <3>3. k < Len(s) - 1 => ParserAt(s, k + 1, st, n)
      BY <1>1, <2>1, <2>8, <3>2, InsideSequence
    <3> QED
      BY <3>1, <3>2, <3>3
  <2> QED
    BY <2>2, <2>3, <2>4, <2>5, <2>6, <2>7, <2>8, SequenceShape, Zenon DEF EscapeSequence
<1> QED
  BY <1>1, <1>5, <1>6, <1>7

\* A key changes settings, never where the parser is.
LEMMA PressKeeps ==
  ASSUME NEW u, NEW b, DOMAIN u = UIFields
  PROVE  /\ DOMAIN Press(u, b) = UIFields
         /\ Press(u, b).todo = u.todo /\ Press(u, b).key = u.key /\ Press(u, b).acted = u.acted
BY DEF Press, UIFields

LEMMA FeedKeyEffect ==
  ASSUME UIInv, FeedKey
  PROVE  LET b == Head(ui.todo)
         IN /\ ui.todo # << >> /\ DOMAIN ui' = UIFields
            /\ ui'.state = NextState(ui, b) /\ ui'.csiN = NextCount(ui, b)
            /\ ui'.todo = Tail(ui.todo) /\ ui'.key = ui.key
            /\ ui'.acted = (ui.acted \/ (ui.state = "ground" /\ b \in Keys /\ ~ ui.key))
<1> DEFINE b == Head(ui.todo)
           acts == ui.state = "ground" /\ b \in Keys
           u == IF acts THEN Press(ui, b) ELSE ui
<1>1. ui.todo # << >> /\ DOMAIN ui = UIFields
  BY DEF FeedKey, UIInv
<1>2. DOMAIN u = UIFields /\ u.todo = ui.todo /\ u.key = ui.key /\ u.acted = ui.acted
  BY <1>1, PressKeeps
<1>3. ui' = [u EXCEPT !.state = NextState(ui, b), !.csiN = NextCount(ui, b), !.todo = Tail(@),
                      !.acted = @ \/ (acts /\ ~ ui.key)]
  BY Zenon DEF FeedKey
<1> HIDE DEF u
<1>4. /\ DOMAIN ui' = UIFields
      /\ ui'.state = NextState(ui, b) /\ ui'.csiN = NextCount(ui, b)
      /\ ui'.todo = Tail(u.todo) /\ ui'.key = u.key
      /\ ui'.acted = (u.acted \/ (acts /\ ~ ui.key))
  BY <1>2, <1>3, Zenon DEF UIFields
<1> QED
  BY <1>1, <1>2, <1>4, Zenon

LEMMA LastByte == ASSUME NEW q \in Seq(Bytes), Len(q) = 1 PROVE Tail(q) = << >>
<1>1. Tail(q) \in Seq(Bytes) /\ Len(Tail(q)) = 0
  <2>1. q # << >>
    BY EmptySeq
  <2> QED
    BY <2>1, HeadTailProperties
<1> QED
  BY <1>1, EmptySeq

LEMMA FeedKey_Inv == ASSUME UIInv, FeedKey PROVE UIInv'
<1> DEFINE b == Head(ui.todo)
<1>1. /\ ui.todo # << >> /\ DOMAIN ui' = UIFields
      /\ ui'.state = NextState(ui, b) /\ ui'.csiN = NextCount(ui, b)
      /\ ui'.todo = Tail(ui.todo) /\ ui'.key = ui.key
      /\ ui'.acted = (ui.acted \/ (ui.state = "ground" /\ b \in Keys /\ ~ ui.key))
  BY FeedKeyEffect
<1>2. /\ ui.csiN \in Nat /\ ui.todo \in Seq(Bytes) /\ ui.key \in BOOLEAN /\ ui.acted = FALSE
      /\ ui.todo # << >> /\ Tail(ui.todo) \in Seq(Bytes)
      /\ Len(ui.todo) \in Nat \ {0} /\ Len(Tail(ui.todo)) = Len(ui.todo) - 1
      /\ \A i \in 1 .. Len(Tail(ui.todo)) : Tail(ui.todo)[i] = ui.todo[i + 1]
      /\ b = ui.todo[1]
  BY <1>1 DEF UIInv
<1>3. ASSUME ui.key, Len(ui.todo) = 1, ui.todo[1] \in Keys, ui.state = "ground"
      PROVE  UIInv'
  <2>1. b \in Keys /\ "ESC" \notin Keys
    BY <1>2, <1>3, Zenon DEF Keys
  <2>3. Tail(ui.todo) = << >>
    BY <1>2, <1>3, LastByte
  <2>2. NextState(ui, b) = "ground" /\ NextCount(ui, b) = ui.csiN
    BY <1>3, <2>1 DEF NextState, NextCount
  <2> QED
    BY <1>1, <1>2, <1>3, <2>2, <2>3 DEF UIInv
<1>4. ASSUME NEW s \in Items, NEW k \in 0 .. Len(s) - 1,
             LeftOf(ui.todo, s, k), ParserAt(s, k, ui.state, ui.csiN)
      PROVE  UIInv'
  <2>1. /\ k \in Nat /\ Len(s) \in Nat /\ k <= Len(s) - 1
    BY <1>4, SequenceShape
  <2>2. /\ Len(ui.todo) = Len(s) - k
        /\ \A i \in 1 .. Len(ui.todo) : ui.todo[i] = s[k + i]
    BY <1>4 DEF LeftOf
  <2>3. b = s[k + 1]
    BY <1>2, <2>2
  <2>4. /\ k = Len(s) - 1 => NextState(ui, b) = "ground"
        /\ k < Len(s) - 1 => ParserAt(s, k + 1, NextState(ui, b), NextCount(ui, b))
        /\ NextCount(ui, b) \in Nat
        /\ ~ (ui.state = "ground" /\ b \in Keys)
    BY <1>2, <1>4, <2>3, OneByte
  <2>5. ui'.acted = FALSE
    BY <1>1, <1>2, <2>4
  <2>6. CASE k = Len(s) - 1
    <3>1. Tail(ui.todo) = << >>
      <4>1. Len(ui.todo) = 1
        BY <2>1, <2>2, <2>6
      <4> QED
        BY <1>2, <4>1, LastByte
    <3> QED
      BY <1>1, <1>2, <2>4, <2>5, <2>6, <3>1 DEF UIInv
  <2>7. CASE k < Len(s) - 1
    <3>1. k + 1 \in 0 .. Len(s) - 1
      BY <2>1, <2>7
    <3>2. LeftOf(Tail(ui.todo), s, k + 1)
      <4>1. Len(Tail(ui.todo)) = Len(s) - (k + 1)
        BY <1>2, <2>1, <2>2
      <4>2. ASSUME NEW i \in 1 .. Len(Tail(ui.todo))
            PROVE  Tail(ui.todo)[i] = s[(k + 1) + i]
        <5>1. i \in Nat /\ i + 1 \in 1 .. Len(ui.todo) /\ k + (i + 1) = (k + 1) + i
          BY <1>2, <2>1
        <5> QED
          BY <1>2, <2>2, <5>1
      <4> QED
        BY <4>1, <4>2 DEF LeftOf
    <3>3. LeftOf(ui'.todo, s, k + 1) /\ ParserAt(s, k + 1, ui'.state, ui'.csiN)
      BY <1>1, <2>4, <2>7, <3>2
    <3>4. ui'.csiN \in Nat /\ ui'.todo \in Seq(Bytes) /\ ui'.key \in BOOLEAN
      BY <1>1, <1>2, <2>4
    <3> QED
      BY <1>1, <1>4, <2>5, <3>1, <3>3, <3>4, Zenon DEF UIInv
  <2> QED
    BY <2>1, <2>6, <2>7
<1> QED
  BY <1>2, <1>3, <1>4, Zenon DEF UIInv

LEMMA UIInit_Inv == ProcInit => UIInv
BY DEF ProcInit, UIInit, uiIdle, UIInv, UIFields

\* The terminal sends behind the last sequence only; nothing else moves the parser.
LEMMA UIStep_Inv == UIInv /\ [ProcNext]_procVars => UIInv'
<1> SUFFICES ASSUME UIInv, [ProcNext]_procVars PROVE UIInv'
  OBVIOUS
<1>1. CASE UNCHANGED ui
  BY <1>1 DEF UIInv
<1>2. CASE EnterScreen \/ KeysEnd \/ ConsumeRestartRequest
  <2>1. /\ DOMAIN ui' = UIFields /\ ui'.state = ui.state /\ ui'.csiN = ui.csiN
        /\ ui'.todo = ui.todo /\ ui'.key = ui.key /\ ui'.acted = ui.acted
    BY <1>2 DEF EnterScreen, KeysEnd, ConsumeRestartRequest, UIInv, UIFields
  <2> QED
    BY <2>1 DEF UIInv
<1>3. CASE TerminalSends
  <2>1. ui.todo = << >> /\ ui.state = "ground"
    <3>1. ui.todo = << >>
      BY <1>3, Zenon DEF TerminalSends
    <3>2. ASSUME NEW s \in Items, NEW k \in 0 .. Len(s) - 1, LeftOf(ui.todo, s, k) PROVE FALSE
      <4>1. Len(ui.todo) = Len(s) - k
        BY <3>2 DEF LeftOf
      <4>2. Len(s) \in Nat /\ k \in Nat /\ k <= Len(s) - 1
        BY SequenceShape
      <4> QED
        BY <3>1, <4>1, <4>2
    <3> QED
      BY <3>1, <3>2 DEF UIInv
  <2>2. ASSUME NEW s \in Items, ui' = [ui EXCEPT !.todo = s, !.key = FALSE, !.items = @ + 1]
        PROVE  UIInv'
    <3>1. /\ DOMAIN ui' = UIFields /\ ui'.state = "ground" /\ ui'.csiN \in Nat
          /\ ui'.todo = s /\ ui'.key = FALSE /\ ui'.acted = FALSE
      BY <2>1, <2>2 DEF UIInv, UIFields
    <3>2. s \in Seq(Bytes) /\ 0 \in 0 .. Len(s) - 1 /\ LeftOf(s, s, 0)
      BY SequenceShape DEF LeftOf
    <3>3. ParserAt(s, 0, ui'.state, ui'.csiN)
      BY <3>1, SequenceBegins
    <3> QED
      BY <3>1, <3>2, <3>3 DEF UIInv
  <2>3. ASSUME NEW k \in Keys, ui' = [ui EXCEPT !.todo = <<k>>, !.key = TRUE, !.items = @ + 1]
        PROVE  UIInv'
    <3>1. /\ DOMAIN ui' = UIFields /\ ui'.state = "ground" /\ ui'.csiN \in Nat
          /\ ui'.todo = <<k>> /\ ui'.key = TRUE /\ ui'.acted = FALSE
      BY <2>1, <2>3 DEF UIInv, UIFields
    <3>2. <<k>> \in Seq(Bytes) /\ Len(<<k>>) = 1 /\ <<k>>[1] = k
      BY DEF Bytes
    <3> QED
      BY <3>1, <3>2 DEF UIInv
  <2> QED
    BY <1>3, <2>2, <2>3, Zenon DEF TerminalSends
<1> QED
  BY <1>1, <1>2, <1>3, FeedKey_Inv
  DEF UINext, UIStep, ProcNext, DoCli, DoOther, OnlyCli, DoNali, DoFast, DoGp, DoUI, DoSpeed,
      procVars

\* Whatever sequences a terminal sends, and however long a control sequence the parser puts up with,
\* none of their bytes acts as a key, and behind each of them the parser is where it began
\* (mtrInputParser.Feed).
THEOREM KeysOnly == ProcSpec => []SequencesSwallowed
<1>1. UIInv => SequencesSwallowed
  <2> SUFFICES ASSUME UIInv PROVE ~ ui.acted /\ (ui.todo = << >> => ui.state = "ground")
    BY DEF SequencesSwallowed
  <2>1. ASSUME ui.todo = << >>, NEW s \in Items, NEW k \in 0 .. Len(s) - 1, LeftOf(ui.todo, s, k)
        PROVE  FALSE
    <3>1. Len(ui.todo) = Len(s) - k
      BY <2>1 DEF LeftOf
    <3>2. Len(s) \in Nat /\ k \in Nat /\ k <= Len(s) - 1
      BY SequenceShape
    <3> QED
      BY <2>1, <3>1, <3>2
  <2> QED
    BY <2>1 DEF UIInv
<1> QED
  BY UIInit_Inv, UIStep_Inv, <1>1, PTL DEF ProcSpec
=============================================================================
