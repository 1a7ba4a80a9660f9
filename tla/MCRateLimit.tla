----------------------------- MODULE MCRateLimit -----------------------------
(***************************************************************************)
(* The runtimes differ only in their clocks.                               *)
(***************************************************************************)
EXTENDS RateLimit, TLC

MCSymmetry == Permutations(Runtime)
=============================================================================
