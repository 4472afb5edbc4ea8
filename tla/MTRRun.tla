------------------------------- MODULE MTRRun -------------------------------
(***************************************************************************)
(* What a run of MTR by rounds promises to whoever reads its table: the    *)
(* table counts every completed round once since the last reset; what is   *)
(* shown is that table, or that table with the round in progress added;    *)
(* the run ends with the table shown, and it ends once it is cancelled.    *)
(***************************************************************************)
EXTENDS Naturals

VARIABLES
  counted,    \* completed rounds in the table
  shown,      \* rounds in the table last shown
  cancelled,
  over

runVars == <<counted, shown, cancelled, over>>

Init == counted = 0 /\ shown = 0 /\ cancelled = FALSE /\ over = FALSE

Count ==
  /\ ~ over
  /\ counted' = counted + 1 /\ shown' = counted + 1
  /\ UNCHANGED cancelled /\ over' \in BOOLEAN

Preview ==
  /\ ~ over /\ shown' = counted + 1 /\ UNCHANGED <<counted, cancelled, over>>

Reset ==
  /\ ~ over /\ counted' = 0 /\ UNCHANGED <<shown, cancelled, over>>

Cancel ==
  /\ ~ cancelled /\ cancelled' = TRUE /\ UNCHANGED <<counted, shown, over>>

\* A run that is cancelled shows its table; one that fails ends as it is.
End ==
  /\ ~ over /\ over' = TRUE
  /\ shown' = IF cancelled THEN counted ELSE shown
  /\ UNCHANGED <<counted, cancelled>>

Next == Count \/ Preview \/ Reset \/ Cancel \/ End

Spec == Init /\ [][Next]_runVars /\ (cancelled ~> over)
=============================================================================
