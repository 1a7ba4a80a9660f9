----------------------------- MODULE MCController -----------------------------
(***************************************************************************)
(* One object every spec has, the Deployment, and one it may do without.   *)
(***************************************************************************)
EXTENDS Controller

MCOrder == <<"deployment", "ingress">>
=============================================================================
