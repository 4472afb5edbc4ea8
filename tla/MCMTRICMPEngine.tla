-------------------------- MODULE MCMTRICMPEngine --------------------------
(***************************************************************************)
(* Instances of MTRICMPEngine for TLC: three calls over two numbers, so    *)
(* that the third one rotates; the calls are interchangeable.              *)
(***************************************************************************)
EXTENDS MTRICMPEngine, TLC

CONSTANTS c1, c2, c3

MCCalls == {c1, c2, c3}
MCSymmetry == Permutations(MCCalls)

=============================================================================
