--------------------------- MODULE MCMTRScheduler ---------------------------
(* Instance of MTRScheduler for TLC: every constant is given in the cfg.   *)
EXTENDS MTRScheduler
=============================================================================
