-------------------------------- MODULE MtrUI --------------------------------
(***************************************************************************)
(* The keyboard of the MTR screen (cmd/mtr_ui.go): a goroutine reads the    *)
(* terminal in raw mode, a byte-wise parser tells keys from escape          *)
(* sequences (cursor keys, mouse and focus events, pastes), and keys change *)
(* settings that the scheduler and the renderer read.  Ctrl-C is a byte     *)
(* here, no signal.                                                         *)
(*                                                                         *)
(* What the terminal sends is one item after the other: a key, or an escape *)
(* sequence.  Bytes are their classes: a final byte of a control sequence   *)
(* that is no letter used here is "final".                                  *)
(***************************************************************************)
EXTENDS Cli, Sequences

CONSTANTS
  Items,        \* what the terminal may send: sequences of bytes
  MaxItems,     \* bound: items of one run
  mtrParserMaxCSI

VARIABLES
  ui    \* [state, csiN (the parser), reader, todo (bytes of the item under way), key (the item
        \*  is a key), items, paused, restart, display, name, mpls, history, chart,
        \*  acted (ghost: a byte of a sequence acted)]

uiIdle == [state |-> "ground", csiN |-> 0, reader |-> "off", todo |-> << >>, key |-> FALSE, items |-> 0,
           paused |-> FALSE, restart |-> FALSE, display |-> 0, name |-> 0, mpls |-> 0,
           history |-> 0, chart |-> 0, acted |-> FALSE]
UIInit == ui = uiIdle

\* mapKeyToAction (and ParseMTRKey)
Keys == {"q", "ctrl-C", "p", " ", "r", "y", "n", "e", "d", "g"}

\* Bytes 0x40 to 0x7E end a control sequence.
Final == {"final", "[", "O", "]", "I", "m", "q", "p", "r", "y", "n", "e", "d", "g"}

\* Mutant: a mouse report ends with its first byte.
NextState_X10(p, b) ==
  CASE p.state = "ground" -> IF b = "ESC" THEN "esc" ELSE "ground"
    [] p.state = "esc"    -> IF b = "[" THEN "csi" ELSE IF b = "O" THEN "ss3" ELSE IF b = "]" THEN "osc" ELSE "ground"
    [] p.state = "csi"    -> IF b = "M" THEN "x10" ELSE IF b = "<" THEN "sgr"
                             ELSE IF b \in Final \/ p.csiN + 1 > mtrParserMaxCSI THEN "ground" ELSE "csi"
    [] p.state = "osc"    -> IF b = "BEL" THEN "ground" ELSE IF b = "ESC" THEN "esc" ELSE "osc"
    [] p.state = "sgr"    -> IF b \in {"M", "m"} THEN "ground" ELSE "sgr"
    [] OTHER              -> "ground"

\* mtrInputParser.Feed: where a byte leads.
NextState(p, b) ==
  CASE p.state = "ground" -> IF b = "ESC" THEN "esc" ELSE "ground"
    [] p.state = "esc"    -> IF b = "[" THEN "csi" ELSE IF b = "O" THEN "ss3" ELSE IF b = "]" THEN "osc" ELSE "ground"
    [] p.state = "csi"    -> IF b = "M" THEN "x10" ELSE IF b = "<" THEN "sgr"
                             ELSE IF b \in Final \/ p.csiN + 1 > mtrParserMaxCSI THEN "ground" ELSE "csi"
    [] p.state = "ss3"    -> "ground"
    [] p.state = "osc"    -> IF b = "BEL" THEN "ground" ELSE IF b = "ESC" THEN "esc" ELSE "osc"
    [] p.state = "x10"    -> IF p.csiN + 1 >= 3 THEN "ground" ELSE "x10"
    [] p.state = "sgr"    -> IF b \in {"M", "m"} THEN "ground" ELSE "sgr"
\* The count of bytes in a control sequence, and of a mouse report.
NextCount(p, b) ==
  CASE p.state = "esc" /\ b = "[" -> 0
    [] p.state = "csi" -> IF b = "M" THEN 0 ELSE p.csiN + 1
    [] p.state = "x10" -> p.csiN + 1
    [] OTHER -> p.csiN

(***************************************************************************)
(* What a terminal in raw mode sends for anything but a key: the kinds of  *)
(* escape sequences that the parser tells apart.                           *)
(***************************************************************************)
Bytes == Keys \cup Final \cup {"ESC", "BEL", "M", "<", "0", "2"}

\* ESC and the byte of a key (Alt); a function key.
AltKey(s)      == Len(s) = 2 /\ s[2] \notin {"[", "O", "]"}
FunctionKey(s) == Len(s) = 3 /\ s[2] = "O"
\* A control sequence: parameters, as many as the parser puts up with, and a final byte.
Control(s) ==
  /\ Len(s) \in 3 .. mtrParserMaxCSI + 3 /\ s[2] = "[" /\ s[Len(s)] \in Final
  /\ \A i \in 3 .. Len(s) - 1 : s[i] \notin Final \cup {"M", "<"}
\* Mouse reports: three bytes of any value, or numbers that end with M or m.
MouseX10(s) == Len(s) = 6 /\ s[2] = "[" /\ s[3] = "M"
MouseSGR(s) ==
  /\ Len(s) >= 4 /\ s[2] = "[" /\ s[3] = "<" /\ s[Len(s)] \in {"M", "m"}
  /\ \A i \in 4 .. Len(s) - 1 : s[i] \notin {"M", "m"}
\* A report of the system (a title, a colour): text up to BEL, or up to ESC and a backslash.
Report(s, last) == s[2] = "]" /\ \A i \in 3 .. last : s[i] \notin {"BEL", "ESC"}
ReportBEL(s) == Len(s) >= 3 /\ Report(s, Len(s) - 1) /\ s[Len(s)] = "BEL"
ReportST(s)  == Len(s) >= 4 /\ Report(s, Len(s) - 2) /\ s[Len(s) - 1] = "ESC" /\ s[Len(s)] = "final"

EscapeSequence(s) ==
  /\ s \in Seq(Bytes) /\ Len(s) >= 2 /\ s[1] = "ESC"
  /\ \/ AltKey(s) \/ FunctionKey(s) \/ Control(s) \/ MouseX10(s) \/ MouseSGR(s)
     \/ ReportBEL(s) \/ ReportST(s)

ASSUME KeyboardAssumption ==
  /\ mtrParserMaxCSI \in Nat
  /\ \A s \in Items : EscapeSequence(s)

\* The settings a key changes.
Press(u, b) ==
  CASE b = "p" -> [u EXCEPT !.paused = TRUE]
    [] b = " " -> [u EXCEPT !.paused = FALSE]
    [] b = "r" -> [u EXCEPT !.restart = TRUE]
    [] b = "y" -> [u EXCEPT !.display = (@ + 1) % 5]
    [] b = "n" -> [u EXCEPT !.name = 1 - @]
    [] b = "e" -> [u EXCEPT !.mpls = 1 - @]
    [] b = "d" -> [u EXCEPT !.history = 1 - @]
    [] b = "g" -> [u EXCEPT !.chart = IF u.history = 1 THEN (@ + 1) % 3 ELSE @]
    [] b \in {"q", "ctrl-C"} -> [u EXCEPT !.reader = "ended"]
    [] OTHER -> u

UIRuns == cli.pc = "running" /\ cli.mode = "mtrTUI"

\* Enter and `go ui.ReadKeysLoop`: nothing without a terminal.
EnterScreen ==
  /\ UIRuns /\ ui.reader = "off"
  /\ \E tty \in BOOLEAN : ui' = [ui EXCEPT !.reader = IF tty THEN "reading" ELSE "ended"]
  /\ UNCHANGED cliVars

\* The terminal sends something.
TerminalSends ==
  /\ UIRuns /\ ui.reader = "reading" /\ ui.todo = << >> /\ ui.items < MaxItems
  /\ \/ \E s \in Items : ui' = [ui EXCEPT !.todo = s, !.key = FALSE, !.items = @ + 1]
     \/ \E k \in Keys : ui' = [ui EXCEPT !.todo = <<k>>, !.key = TRUE, !.items = @ + 1]
  /\ UNCHANGED cliVars

\* ReadKeysLoop: one byte; the context is looked at between reads only.
FeedKey ==
  /\ UIRuns /\ ui.reader = "reading" /\ ui.todo # << >>
  /\ LET b == Head(ui.todo)
         acts == ui.state = "ground" /\ b \in Keys
         u == IF acts THEN Press(ui, b) ELSE ui
     IN /\ ui' = [u EXCEPT !.state = NextState(ui, b), !.csiN = NextCount(ui, b), !.todo = Tail(@),
                    !.acted = @ \/ (acts /\ ~ ui.key)]
        /\ cli' = [cli EXCEPT !.sig = @ \/ (acts /\ b \in {"q", "ctrl-C"})]

\* The read fails, or the context is done: the goroutine ends.
KeysEnd ==
  /\ UIRuns /\ ui.reader = "reading" /\ ui.todo = << >>
  /\ ui' = [ui EXCEPT !.reader = "ended"] /\ UNCHANGED cliVars

\* ConsumeRestartRequest, called by the scheduler.
ConsumeRestartRequest ==
  /\ UIRuns /\ ui.restart /\ ui' = [ui EXCEPT !.restart = FALSE] /\ UNCHANGED cliVars

UIStep == EnterScreen \/ FeedKey
UINext == UIStep \/ TerminalSends \/ KeysEnd \/ ConsumeRestartRequest

\* No byte of an escape sequence acts as a key, and behind each sequence the next key is
\* understood (the parser is where it began).
SequencesSwallowed ==
  UIRuns => /\ ~ ui.acted
            /\ ui.todo = << >> => ui.state = "ground"
=============================================================================
