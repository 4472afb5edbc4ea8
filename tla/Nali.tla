-------------------------------- MODULE Nali --------------------------------
(***************************************************************************)
(* `nexttrace --nali` (internal/nali and runNaliMode): a line, or every     *)
(* line of the standard input, is printed with the location behind each     *)
(* address.  Labels are kept in a cache of bounded size whose oldest entry  *)
(* makes room (a ring).  A line is the sequence of its addresses; text and  *)
(* the spelling of labels are left out.                                     *)
(***************************************************************************)
EXTENDS Cli, Sequences, SequencesExt

CONSTANTS
  NaliIPs, NaliIPv6, NaliReserved,   \* addresses of the input; the IPv6 ones; those Filter answers
  maxCacheEntries,
  MaxSpans                           \* bound: addresses of a line

ASSUME NaliAssumption == maxCacheEntries \in Nat \ {0} /\ MaxSpans \in Nat

VARIABLES
  nali   \* [pc, todo (spans left), last (the input has ended), blocking (input), ring, next,
         \*  cache (addresses with a label), newest (ghost: the labels stored last, oldest first)]

naliIdle == [pc |-> "start", todo |-> << >>, last |-> FALSE, blocking |-> FALSE,
             ring |-> << >>, next |-> 0, cache |-> {}, newest |-> << >>]
NaliInit == nali = naliIdle

NaliRuns == cli.pc = "running" /\ cli.mode = "nali"
NaliReturns == Return(cli) /\ nali' = naliIdle

\* FindIPSpans: any sequence of addresses (the ones it finds in the line).
Lines == BoundedSeq(NaliIPs, MaxSpans)

\* Run: a target is a line; else the input is read.  Setting a deadline interrupts a
\* pending read of a pipe in non-blocking mode; a terminal has none, and closing it
\* does not end the read.
NaliRun ==
  /\ NaliRuns /\ nali.pc = "start"
  /\ IF Has("noTarget")
     THEN \E b \in BOOLEAN : nali' = [nali EXCEPT !.pc = "top", !.blocking = b]
     ELSE \E l \in Lines : nali' = [nali EXCEPT !.pc = "line", !.todo = l, !.last = TRUE]
  /\ UNCHANGED cliVars

\* The head of the loop.
NaliTop ==
  /\ NaliRuns /\ nali.pc = "top"
  /\ IF cli.intr THEN NaliReturns
     ELSE nali' = [nali EXCEPT !.pc = "reading"] /\ UNCHANGED cliVars

\* ReadString gives a line, the last line (the input ended behind it), the end or an
\* error; processLine: an exit line ends the run, as does an interrupt.
NaliInput ==
  /\ NaliRuns /\ nali.pc = "reading"
  /\ \/ \E l \in Lines, eof \in BOOLEAN :
          IF cli.intr THEN NaliReturns
          ELSE nali' = [nali EXCEPT !.pc = "line", !.todo = l, !.last = eof] /\ UNCHANGED cliVars
     \/ NaliReturns                                                  \* quit, exit, end of input
     \/ ~ cli.intr /\ OsExit(1) /\ nali' = naliIdle                   \* the read failed

\* interruptInputOnCancel: the pending read fails, which counts as the interrupt.
NaliInterrupted == NaliRuns /\ nali.pc = "reading" /\ cli.intr /\ ~ nali.blocking /\ NaliReturns

\* Mutant: the ring is written at its first place for ever.
storeLabel_NoAdvance(n, ip) ==
  IF Len(n.ring) < maxCacheEntries
  THEN [n EXCEPT !.ring = Append(@, ip), !.cache = @ \cup {ip}, !.newest = Append(@, ip)]
  ELSE [n EXCEPT !.ring[1] = ip, !.cache = (@ \ {n.ring[1]}) \cup {ip}, !.newest = Append(Tail(@), ip)]

\* storeLabel of an address that has none.
storeLabel(n, ip) ==
  IF Len(n.ring) < maxCacheEntries
  THEN [n EXCEPT !.ring = Append(@, ip), !.cache = @ \cup {ip}, !.newest = Append(@, ip)]
  ELSE [n EXCEPT !.ring[n.next + 1] = ip, !.next = (@ + 1) % maxCacheEntries,
                 !.cache = (@ \ {n.ring[n.next + 1]}) \cup {ip}, !.newest = Append(Tail(@), ip)]

familyAllowed(ip) == /\ Has("ipv4") => ip \notin NaliIPv6
                     /\ ~ Has("ipv4") /\ Has("ipv6") => ip \in NaliIPv6

\* AnnotateLine and lookupLabel: the next address of the line.  Filter or, unless
\* interrupted, the source may give a label; an empty one is not stored.
lookupLabel ==
  /\ NaliRuns /\ nali.pc = "line" /\ nali.todo # << >>
  /\ LET ip == Head(nali.todo)
         rest == [nali EXCEPT !.todo = Tail(@)]
     IN IF ~ familyAllowed(ip) \/ ip \in nali.cache THEN nali' = rest
        ELSE \/ ip \notin NaliReserved /\ nali' = rest
             \/ (ip \in NaliReserved \/ ~ cli.intr) /\ nali' = storeLabel(rest, ip)
  /\ UNCHANGED cliVars

\* The line is written; a failing write is an error of the run.
NaliWrite ==
  /\ NaliRuns /\ nali.pc = "line" /\ nali.todo = << >>
  /\ \/ OsExit(1) /\ nali' = naliIdle
     \/ IF nali.last THEN NaliReturns
        ELSE nali' = [nali EXCEPT !.pc = "top"] /\ UNCHANGED cliVars

NaliStep == NaliRun \/ NaliTop \/ NaliInterrupted \/ lookupLabel \/ NaliWrite
NaliNext == NaliStep \/ NaliInput

\* The cache holds the labels stored last and no other, and each of them has one place
\* in the ring, so that it will make room once (storeLabel).
NewestLabels ==
  /\ nali.cache = Range(nali.newest) /\ nali.cache = Range(nali.ring)
  /\ Len(nali.ring) = Cardinality(nali.cache) /\ Len(nali.newest) = Len(nali.ring)
=============================================================================
