----------------------------- MODULE MCDelivery -----------------------------
(***************************************************************************)
(* Every command is for the same station.                                  *)
(***************************************************************************)
EXTENDS CommandDelivery

CONSTANT s1

MCFor == [c \in Command |-> s1]
=============================================================================
