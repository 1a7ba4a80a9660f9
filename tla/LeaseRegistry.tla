---------------------------- MODULE LeaseRegistry ----------------------------
(***************************************************************************)
(* What a session registry promises its callers (the interface             *)
(* sessionregistry.Registry): a station has at most one holder; it is      *)
(* granted only while it has none, under a fencing generation larger than  *)
(* every one granted before; a holder keeps it until the grant ends.  Why  *)
(* a grant ends (release, expiry) is left to the implementations.          *)
(***************************************************************************)
EXTENDS Naturals

CONSTANTS Station,   \* station identities
          Runtime,   \* owner IDs (CSMS_INSTANCE_ID of a runtime Pod)
          None       \* no holder

VARIABLES holder,      \* holder[s]: the grant in force for station s, or None
          generation   \* the last fencing generation handed out

grantVars == <<holder, generation>>

Init == /\ holder = [s \in Station |-> None]
        /\ generation = 0

\* Runtime o becomes the holder of station s.
Grant(s, o) ==
  /\ holder[s] = None
  /\ generation' = generation + 1
  /\ holder' = [holder EXCEPT ![s] = [owner |-> o, generation |-> generation + 1]]

\* The grants of the stations in S end.
End(S) ==
  /\ holder' = [s \in Station |-> IF s \in S THEN None ELSE holder[s]]
  /\ UNCHANGED generation

Next == \/ \E s \in Station, o \in Runtime : Grant(s, o)
        \/ \E S \in SUBSET Station : End(S)

Spec == Init /\ [][Next]_grantVars
=============================================================================
