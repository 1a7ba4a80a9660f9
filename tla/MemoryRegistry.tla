--------------------------- MODULE MemoryRegistry ---------------------------
(***************************************************************************)
(* The in-memory registry, internal/sessionregistry/memory.go: the same    *)
(* interface as the Redis one, every call under one mutex, expiry judged   *)
(* by the clock at each call.  Callers renew a lease they were granted,    *)
(* however late, until they release it.                                    *)
(***************************************************************************)
EXTENDS Naturals

CONSTANTS Station, Runtime, None,
          TTL,             \* in ticks
          MaxGeneration,   \* bound: claims granted
          MaxTime          \* bound: ticks

ASSUME MemoryAssumption == /\ TTL \in Nat \ {0}
                           /\ None \notin [owner : Runtime, generation : Nat, expires : Nat]

VARIABLES leases,       \* the map of leases
          generation,
          now,
          issued,       \* leases callers have, as granted
          released      \* generations whose holder called Release

vars == <<leases, generation, now, issued, released>>

Init == /\ leases = [s \in Station |-> None]
        /\ generation = 0 /\ now = 0 /\ issued = {} /\ released = {}

InForce(s) == leases[s] # None /\ leases[s].expires > now

Matches(l) == /\ leases[l.station] # None
              /\ leases[l.station].owner = l.owner
              /\ leases[l.station].generation = l.generation

\* Mutant: the holder of the station is not looked at.
ClaimOver(o, s) ==
  /\ generation < MaxGeneration
  /\ generation' = generation + 1
  /\ leases' = [leases EXCEPT ![s] =
       [owner |-> o, generation |-> generation + 1, expires |-> now + TTL]]
  /\ issued' = issued \cup {[station |-> s, owner |-> o, generation |-> generation + 1]}
  /\ UNCHANGED <<now, released>>

\* Claim, when it grants; on a conflict it changes nothing.
Claim(o, s) ==
  /\ ~InForce(s) /\ generation < MaxGeneration
  /\ generation' = generation + 1
  /\ leases' = [leases EXCEPT ![s] =
       [owner |-> o, generation |-> generation + 1, expires |-> now + TTL]]
  /\ issued' = issued \cup {[station |-> s, owner |-> o, generation |-> generation + 1]}
  /\ UNCHANGED <<now, released>>

\* Renew: on any mismatch the station's lease is deleted, whoever holds it.
Renew(l) ==
  /\ leases' = IF InForce(l.station) /\ Matches(l)
               THEN [leases EXCEPT ![l.station].expires = now + TTL]
               ELSE [leases EXCEPT ![l.station] = None]
  /\ UNCHANGED <<generation, now, issued, released>>

\* Release: the holder's lease, expired or not.
Release(l) ==
  /\ leases' = IF Matches(l) THEN [leases EXCEPT ![l.station] = None] ELSE leases
  /\ released' = released \cup {l.generation} /\ issued' = issued \ {l}
  /\ UNCHANGED <<generation, now>>

\* Lookup deletes a lease it finds expired.
Lookup(s) ==
  /\ leases' = IF InForce(s) THEN leases ELSE [leases EXCEPT ![s] = None]
  /\ UNCHANGED <<generation, now, issued, released>>

Advance ==
  /\ now < MaxTime /\ now' = now + 1
  /\ UNCHANGED <<leases, generation, issued, released>>

Next == \/ \E o \in Runtime, s \in Station : Claim(o, s)
        \/ \E l \in issued : Renew(l) \/ Release(l)
        \/ \E s \in Station : Lookup(s)
        \/ Advance

Spec == Init /\ [][Next]_vars
-----------------------------------------------------------------------------
\* The leases that have not expired are the grants the registry promises:
\* exclusive, under increasing generations, and an expired lease that is still
\* in the map never counts.
Registry == INSTANCE LeaseRegistry WITH
  holder <- [s \in Station |->
               IF InForce(s) THEN [owner |-> leases[s].owner,
                                   generation |-> leases[s].generation]
               ELSE None]

MemoryPromise == Registry!Spec

\* A lease in force lasts until it expires or its own holder releases it: a
\* call with a stale lease of the station changes nothing for the new owner.
NewOwnerKept ==
  [][\A s \in Station :
       InForce(s) /\ leases[s].expires > now' /\ leases[s].generation \notin released' =>
         leases'[s] # None /\ leases'[s].generation = leases[s].generation]_vars
=============================================================================
