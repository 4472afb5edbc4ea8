--------------------------- MODULE MCMTRMetadata ---------------------------
(* Instances of MTRMetadata for TLC: one router address answers every probe, *)
(* and the two kinds of lookup, the retries, the resets and the end of the   *)
(* run race for it.                                                          *)
EXTENDS MTRMetadata

CONSTANT r1

MCIPs == {r1}

=============================================================================
