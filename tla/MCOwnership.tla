----------------------------- MODULE MCOwnership -----------------------------
(***************************************************************************)
(* Instances of Ownership for TLC.  Sessions are used once, so their       *)
(* number bounds the generations and the run needs no other bound.         *)
(***************************************************************************)
EXTENDS Ownership, TLC

\* Sessions are interchangeable: every assignment of runtimes and stations to
\* them is an initial state.
SessionSymmetry == Permutations(Session)
=============================================================================
