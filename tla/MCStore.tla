------------------------------- MODULE MCStore -------------------------------
(***************************************************************************)
(* A station that boots twice and reports on two connectors while it moves *)
(* from one runtime to another; each runtime has a pool of its own.        *)
(***************************************************************************)
EXTENDS MySQLStore

CONSTANTS b1, b2, u1, u2, u3, s1, k1, k2, r1, r2

MCRowOf == [n \in Notification |-> IF n \in Boot THEN s1 ELSE IF n = u3 THEN k2 ELSE k1]
MCStationOf == [n \in Notification |-> s1]
MCAt == [n \in Notification |-> IF n \in {b1, u1, u3} THEN r1 ELSE r2]
=============================================================================
