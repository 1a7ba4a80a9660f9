------------------------- MODULE MemoryRegistryProofs -------------------------
(***************************************************************************)
(* The in-memory registry keeps the promise of LeaseRegistry, for any      *)
(* stations and owners and any TTL.                                        *)
(***************************************************************************)
EXTENDS MemoryRegistry, TLAPS

Lease == [owner : Runtime, generation : Nat, expires : Nat]

TypeInv ==
  /\ leases \in [Station -> Lease \cup {None}]
  /\ generation \in Nat /\ now \in Nat
  /\ \A l \in issued : l.station \in Station

\* The holder of a station as LeaseRegistry sees it.
HolderOf(s) == IF InForce(s) THEN [owner |-> leases[s].owner, generation |-> leases[s].generation]
               ELSE None
-----------------------------------------------------------------------------
\* Types of the map and the counter.
LEMMA NextTypeInv == TypeInv /\ [Next]_vars => TypeInv'
<1> SUFFICES ASSUME TypeInv, [Next]_vars PROVE TypeInv'
  OBVIOUS
<1> USE MemoryAssumption DEF TypeInv
<1>1. ASSUME NEW o \in Runtime, NEW s \in Station, Claim(o, s) PROVE TypeInv'
  <2>1. [owner |-> o, generation |-> generation + 1, expires |-> now + TTL] \in Lease
    BY DEF Lease
  <2>2. leases' \in [Station -> Lease \cup {None}]
    BY <1>1, <2>1, Zenon DEF Claim
  <2> QED  BY <1>1, <2>2 DEF Claim
<1>2. ASSUME NEW l \in issued, Renew(l) PROVE TypeInv'
  <2>1. ASSUME leases[l.station] # None
        PROVE  [leases[l.station] EXCEPT !.expires = now + TTL] \in Lease
    BY <2>1 DEF Lease
  <2>2. leases' \in [Station -> Lease \cup {None}]
    BY <1>2, <2>1 DEF Renew, InForce
  <2> QED  BY <1>2, <2>2 DEF Renew
<1>3. ASSUME NEW l \in issued, Release(l) PROVE TypeInv'
  BY <1>3 DEF Release
<1>4. ASSUME NEW s \in Station, Lookup(s) PROVE TypeInv'
  BY <1>4 DEF Lookup
<1>5. ASSUME Advance PROVE TypeInv'
  BY <1>5 DEF Advance
<1>6. ASSUME UNCHANGED vars PROVE TypeInv'
  BY <1>6 DEF vars
<1> QED  BY <1>1, <1>2, <1>3, <1>4, <1>5, <1>6 DEF Next

\* A step that ends the grants of some stations and leaves the others alone.
LEMMA EndStep ==
  ASSUME NEW S \in SUBSET Station, UNCHANGED generation,
         \A s \in Station : HolderOf(s)' = IF s \in S THEN None ELSE HolderOf(s)
  PROVE  Registry!Next
<1>1. Registry!End(S)
  BY DEF Registry!End, HolderOf
<1> QED  BY <1>1 DEF Registry!Next

\* A step that changes no grant is the end of none.
LEMMA SameStep ==
  ASSUME UNCHANGED generation, \A s \in Station : HolderOf(s)' = HolderOf(s)
  PROVE  Registry!Next
<1>1. \A s \in Station : HolderOf(s)' = IF s \in {} THEN None ELSE HolderOf(s)
  OBVIOUS
<1>2. {} \in SUBSET Station
  OBVIOUS
<1> QED  BY <1>1, <1>2, EndStep, Zenon

\* Claim, Renew, Release, Lookup and the passing of time are grants and ends of
\* grants, or change nothing for the callers.
LEMMA StepRefines ==
  TypeInv /\ [Next]_vars => [Registry!Next]_(Registry!grantVars)
<1> SUFFICES ASSUME TypeInv, [Next]_vars PROVE Registry!Next \/ UNCHANGED Registry!grantVars
  OBVIOUS
<1> USE MemoryAssumption
<1>1. ASSUME NEW o \in Runtime, NEW s \in Station, Claim(o, s) PROVE Registry!Next
  <2> DEFINE new == [owner |-> o, generation |-> generation + 1, expires |-> now + TTL]
  <2>1. new \in Lease /\ new # None
    BY DEF Lease, TypeInv
  <2>2. ~InForce(s) /\ leases' = [leases EXCEPT ![s] = new] /\ UNCHANGED now
        /\ generation' = generation + 1
    BY <1>1 DEF Claim
  <2>3. HolderOf(s) = None /\ HolderOf(s)' = [owner |-> o, generation |-> generation + 1]
    BY <2>1, <2>2 DEF HolderOf, InForce, TypeInv
  <2>4. ASSUME NEW d \in Station, d # s PROVE HolderOf(d)' = HolderOf(d)
    BY <2>2, <2>4 DEF HolderOf, InForce, TypeInv
  <2>5. Registry!Grant(s, o)
    BY <2>2, <2>3, <2>4, Zenon DEF Registry!Grant, HolderOf
  <2> QED  BY <2>5 DEF Registry!Next
<1>2. ASSUME NEW l \in issued, Renew(l) PROVE Registry!Next
  <2>1. l.station \in Station /\ UNCHANGED <<generation, now>>
    BY <1>2 DEF TypeInv, Renew
  <2>2. CASE InForce(l.station) /\ Matches(l)
    <3> DEFINE new == [leases[l.station] EXCEPT !.expires = now + TTL]
    <3>1. leases' = [leases EXCEPT ![l.station] = new]
      BY <1>2, <2>2 DEF Renew
    <3>2. leases[l.station] \in Lease
      BY <2>1, <2>2 DEF TypeInv, InForce
    <3>3. new \in Lease /\ new # None /\ new.expires > now
          /\ new.owner = leases[l.station].owner /\ new.generation = leases[l.station].generation
      BY <3>2 DEF Lease, TypeInv
    <3>4. ASSUME NEW d \in Station PROVE HolderOf(d)' = HolderOf(d)
      BY <2>1, <2>2, <3>1, <3>3 DEF HolderOf, InForce, TypeInv
    <3> QED  BY <2>1, <3>4, SameStep
  <2>3. CASE ~(InForce(l.station) /\ Matches(l))
    <3>1. leases' = [leases EXCEPT ![l.station] = None]
      BY <1>2, <2>3 DEF Renew
    <3>2. ASSUME NEW d \in Station
          PROVE  HolderOf(d)' = IF d \in {l.station} THEN None ELSE HolderOf(d)
      BY <2>1, <3>1 DEF HolderOf, InForce, TypeInv
    <3> QED  BY <2>1, <3>2, EndStep, Zenon
  <2> QED  BY <2>2, <2>3
<1>3. ASSUME NEW l \in issued, Release(l) PROVE Registry!Next
  <2>1. l.station \in Station /\ UNCHANGED <<generation, now>>
    BY <1>3 DEF TypeInv, Release
  <2>2. CASE Matches(l)
    <3>1. leases' = [leases EXCEPT ![l.station] = None]
      BY <1>3, <2>2 DEF Release
    <3>2. ASSUME NEW d \in Station
          PROVE  HolderOf(d)' = IF d \in {l.station} THEN None ELSE HolderOf(d)
      BY <2>1, <3>1 DEF HolderOf, InForce, TypeInv
    <3> QED  BY <2>1, <3>2, EndStep, Zenon
  <2>3. CASE ~Matches(l)
    <3>1. ASSUME NEW d \in Station PROVE HolderOf(d)' = HolderOf(d)
      BY <1>3, <2>1, <2>3 DEF Release, HolderOf, InForce
    <3> QED  BY <2>1, <3>1, SameStep
  <2> QED  BY <2>2, <2>3
<1>4. ASSUME NEW s \in Station, Lookup(s) PROVE Registry!Next
  <2>1. ASSUME NEW d \in Station PROVE HolderOf(d)' = HolderOf(d)
    BY <1>4 DEF Lookup, HolderOf, InForce, TypeInv
  <2> QED  BY <1>4, <2>1, SameStep DEF Lookup
<1>5. ASSUME Advance PROVE Registry!Next
  <2> DEFINE over == {s \in Station : InForce(s) /\ ~(leases[s].expires > now + 1)}
  <2>1. ASSUME NEW d \in Station
        PROVE  HolderOf(d)' = IF d \in over THEN None ELSE HolderOf(d)
    <3>1. leases[d] # None => leases[d].expires \in Nat
      BY DEF TypeInv, Lease
    <3> QED  BY <1>5, <3>1 DEF Advance, HolderOf, InForce, TypeInv
  <2>2. over \in SUBSET Station
    OBVIOUS
  <2> HIDE DEF over
  <2> QED  BY <1>5, <2>1, <2>2, EndStep DEF Advance
<1>6. ASSUME UNCHANGED vars PROVE UNCHANGED Registry!grantVars
  BY <1>6 DEF vars, Registry!grantVars, InForce
<1> QED  BY <1>1, <1>2, <1>3, <1>4, <1>5, <1>6 DEF Next

\* The in-memory registry (sessionregistry.Memory) grants a station only while no
\* unexpired lease of it is in the map, under increasing generations.
THEOREM MemoryPromiseKept == Spec => MemoryPromise
<1>1. Init => TypeInv
  BY DEF Init, TypeInv
<1>2. Init => Registry!Init
  BY DEF Init, Registry!Init, InForce
<1> QED  BY <1>1, <1>2, NextTypeInv, StepRefines, PTL DEF Spec, MemoryPromise, Registry!Spec
=============================================================================
