---------------------------- MODULE MCMTRRounds ----------------------------
EXTENDS MTRRounds
=============================================================================
