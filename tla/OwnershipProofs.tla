--------------------------- MODULE OwnershipProofs ---------------------------
(***************************************************************************)
(* Proofs about session ownership, for any number of sessions, runtimes    *)
(* and stations and any TTL and renew interval the configuration accepts.  *)
(***************************************************************************)
EXTENDS Ownership, TLAPS

\* The provers of a leaf that names none, in the order they are tried.
USE SMTT(20), Z3T(20), SMTT(60), Z3T(60), ZenonT(60)

\* An onDisconnect that is past the map lookup has an entry in hand.
TakenInHand ==
  \A c \in Session : phase[c] \in {"unlocking", "releasing"} => taken[c] # None

TypeInv == TypeOK /\ TakenInHand

\* The state the program starts in is well typed.
LEMMA InitTypeInv == Init => TypeInv
  BY RenewAssumption, TTLAssumption
  DEF Init, TypeInv, TypeOK, TakenInHand, RegistryTypeOK, NoLeases, Phases, Request

\* Every script of the registry leaves well-typed keys: in particular a key that
\* exists has a time to live between one tick and TTL.
LEMMA ScriptsType ==
  ASSUME RegistryTypeOK, NEW s \in Station, NEW o \in Runtime, NEW g \in Nat,
         ClaimScript(s, o) \/ RenewScript(s, o, g) \/ ReleaseScript(s, o, g)
  PROVE  RegistryTypeOK'
<1> USE TTLAssumption, NoneAssumption DEF RegistryTypeOK
<1>1. CASE ClaimScript(s, o)
  <2>1. [owner |-> o, generation |-> generation + 1, pttl |-> TTL] \in Lease
    BY DEF Lease
  <2> QED  BY <1>1, <2>1 DEF ClaimScript, registryVars
<1>2. CASE RenewScript(s, o, g)
  <2>1. CASE Holds(s, o, g)
    <3>1. lease[s] \in Lease
      BY <2>1 DEF Holds
    <3>2. [lease[s] EXCEPT !.pttl = TTL] \in Lease
      BY <3>1 DEF Lease
    <3>3. lease' = [lease EXCEPT ![s] = [lease[s] EXCEPT !.pttl = TTL]]
      BY <1>2, <2>1 DEF RenewScript
    <3> QED  BY <1>2, <3>2, <3>3 DEF RenewScript
  <2>2. CASE ~Holds(s, o, g)
    BY <1>2, <2>2 DEF RenewScript
  <2> QED  BY <2>1, <2>2
<1>3. CASE ReleaseScript(s, o, g)
  BY <1>3 DEF ReleaseScript
<1> QED  BY <1>1, <1>2, <1>3

\* Ageing keeps the types: a key whose last tick has passed is gone.
LEMMA ElapseType == RegistryTypeOK /\ Elapse => RegistryTypeOK'
<1> SUFFICES ASSUME RegistryTypeOK, Elapse PROVE RegistryTypeOK'
  OBVIOUS
<1>1. ASSUME NEW t \in Station PROVE lease'[t] \in Lease \cup {None}
  <2>1. CASE lease[t] = None \/ lease[t].pttl = 1
    BY <2>1 DEF Elapse, RegistryTypeOK
  <2>2. CASE ~(lease[t] = None \/ lease[t].pttl = 1)
    <3>1. lease[t] \in Lease /\ lease[t].pttl \in 2..TTL
      BY <2>2, TTLAssumption DEF RegistryTypeOK, Lease
    <3>2. [lease[t] EXCEPT !.pttl = lease[t].pttl - 1] \in Lease
      BY <3>1, TTLAssumption DEF Lease
    <3>3. lease'[t] = [lease[t] EXCEPT !.pttl = lease[t].pttl - 1]
      BY <2>2 DEF Elapse
    <3> QED  BY <3>2, <3>3
  <2> QED  BY <2>1, <2>2
<1> QED  BY <1>1 DEF Elapse, RegistryTypeOK

\* No step leaves the types.
LEMMA NextTypeInv == TypeInv /\ [Next]_vars => TypeInv'
<1> SUFFICES ASSUME TypeInv, [Next]_vars PROVE TypeInv'
  OBVIOUS
<1> USE RenewAssumption, TTLAssumption, ModelAssumption
<1>a. TypeOK /\ TakenInHand
  BY DEF TypeInv
<1>1. ASSUME NEW c \in Session, Connect(c) PROVE TypeInv'
  BY <1>a, <1>1 DEF Connect, Send, TypeInv, TypeOK, TakenInHand, RegistryTypeOK,
     registryVars, Phases, Request
<1>2. ASSUME NEW c \in Session, Disconnect(c) PROVE TypeInv'
  BY <1>a, <1>2 DEF Disconnect, Stopped, TypeInv, TypeOK, TakenInHand, RegistryTypeOK,
     registryVars, Phases
<1>3. ASSUME NEW c \in Session, OnConnect(c) PROVE TypeInv'
  <2>1. CASE ClaimSucceeds(c)
    <3>1. entries' \in [Runtime -> [Station -> Session \cup {None}]]
      BY <1>a, <2>1 DEF ClaimSucceeds, TypeOK
    <3> QED  BY <1>a, <2>1, <3>1 DEF ClaimSucceeds, TypeInv, TypeOK, TakenInHand,
             RegistryTypeOK, registryVars, Phases
  <2>2. CASE ClaimFails(c)
    BY <1>a, <2>2 DEF ClaimFails, TypeInv, TypeOK, TakenInHand, RegistryTypeOK,
       registryVars, Phases
  <2> QED  BY <1>3, <2>1, <2>2 DEF OnConnect
<1>4. ASSUME NEW c \in Session, Renew(c) PROVE TypeInv'
  <2>1. CASE RenewSend(c)
    BY <1>a, <2>1 DEF RenewSend, Send, TypeInv, TypeOK, TakenInHand, RegistryTypeOK,
       registryVars, Request
  <2>2. CASE RenewSucceeds(c)
    BY <1>a, <2>2 DEF RenewSucceeds, TypeInv, TypeOK, TakenInHand, RegistryTypeOK,
       registryVars
  <2>3. CASE RenewFails(c)
    BY <1>a, <2>3 DEF RenewFails, TypeInv, TypeOK, TakenInHand, RegistryTypeOK,
       registryVars, Phases
  <2> QED  BY <1>4, <2>1, <2>2, <2>3 DEF Renew
<1>5. ASSUME NEW c \in Session, TakeEntry(c) PROVE TypeInv'
  <2>1. EntryOf(c) \in Session \cup {None}
    BY <1>a DEF EntryOf, TypeOK
  <2>2. entries' \in [Runtime -> [Station -> Session \cup {None}]]
    BY <1>a, <1>5 DEF TakeEntry, TypeOK
  <2>3. CASE EntryOf(c) = None
    BY <1>a, <1>5, <2>2, <2>3, ZenonT(60) DEF TakeEntry, TypeInv, TypeOK, TakenInHand,
       RegistryTypeOK, registryVars, Phases
  <2>4. CASE EntryOf(c) # None
    <3>1. Stopped(EntryOf(c)) \in {"off", "ticking", "inflight"}
      BY <1>a, <2>1, <2>4 DEF Stopped, TypeOK
    <3>2. renewer' \in [Session -> {"off", "ticking", "inflight"}]
      BY <1>a, <1>5, <2>4, <3>1 DEF TakeEntry, TypeOK
    <3>3. /\ phase' = [phase EXCEPT ![c] = "unlocking"]
          /\ taken' = [taken EXCEPT ![c] = EntryOf(c)]
      BY <1>5, <2>4 DEF TakeEntry
    <3>4. phase' \in [Session -> Phases] /\ taken' \in [Session -> Session \cup {None}]
      BY <1>a, <2>1, <3>3 DEF TypeOK, Phases
    <3>5. TakenInHand'
      BY <1>a, <2>4, <3>3 DEF TypeOK, TakenInHand
    <3> QED  BY <1>a, <1>5, <2>2, <3>2, <3>4, <3>5 DEF TakeEntry, TypeInv, TypeOK,
             RegistryTypeOK, registryVars
  <2> QED  BY <2>3, <2>4
<1>6. ASSUME NEW c \in Session, SendRelease(c) PROVE TypeInv'
  <2>1. taken[c] \in Session
    BY <1>a, <1>6 DEF SendRelease, TypeOK, TakenInHand
  <2> QED  BY <1>a, <1>6, <2>1 DEF SendRelease, Send, TypeInv, TypeOK, TakenInHand,
           RegistryTypeOK, registryVars, Phases, Request
<1>7. ASSUME NEW c \in Session, ReleaseReturns(c) PROVE TypeInv'
  BY <1>a, <1>7 DEF ReleaseReturns, TypeInv, TypeOK, TakenInHand, RegistryTypeOK,
     registryVars, Phases
<1>8. ASSUME NEW c \in Session, RunScript(c) PROVE TypeInv'
  <2>1. at[c] \in Runtime /\ of[c] \in Station /\ gen[c] \in Nat /\ RegistryTypeOK
    BY <1>a DEF TypeOK
  <2>2. RegistryTypeOK'
    BY <1>8, <2>1, ScriptsType DEF RunScript, RunClaim, RunRenew, RunRelease
  <2>3. gen' \in [Session -> Nat]
    BY <1>8, <1>a DEF RunScript, RunClaim, RunRenew, RunRelease, TypeOK, RegistryTypeOK
  <2> QED  BY <1>a, <1>8, <2>2, <2>3, ZenonT(60) DEF RunScript, RunClaim, RunRenew, RunRelease, Run,
           Answer, TypeInv, TypeOK, TakenInHand
<1>9. ASSUME NEW q \in requests, LoseRequest(q) PROVE TypeInv'
  BY <1>a, <1>9 DEF LoseRequest, TypeInv, TypeOK, TakenInHand, RegistryTypeOK,
     registryVars, callVars
<1>10. ASSUME NEW r \in Runtime, Crash(r) PROVE TypeInv'
  BY <1>a, <1>10, Zenon DEF Crash, Live, NoLeases, TypeInv, TypeOK, TakenInHand, RegistryTypeOK,
     registryVars, Phases
<1>11. CASE RestartRedis
  BY <1>a, <1>11 DEF RestartRedis, Restart, NoLeases, TypeInv, TypeOK, TakenInHand,
     RegistryTypeOK, callVars
<1>12. CASE Tick
  <2>1. RegistryTypeOK'
    BY <1>a, <1>12, ElapseType DEF Tick, TypeOK
  <2> QED  BY <1>a, <1>12, <2>1 DEF Tick, TypeInv, TypeOK, TakenInHand
<1>13. CASE UNCHANGED vars
  BY <1>a, <1>13 DEF vars, registryVars, callVars, TypeInv, TypeOK, TakenInHand,
     RegistryTypeOK
<1> QED
  BY <1>1, <1>2, <1>3, <1>4, <1>5, <1>6, <1>7, <1>8, <1>9, <1>10, <1>11, <1>12, <1>13
  DEF Next, OnDisconnect

\* The types of the ownership managers, the requests in flight and the Redis
\* keys are kept by every step, for every value of the constants.
THEOREM TypeCorrect == Spec => []TypeOK
<1>1. Spec => []TypeInv
  BY InitTypeInv, NextTypeInv, PTL DEF Spec
<1> QED  BY <1>1, PTL DEF TypeInv
-----------------------------------------------------------------------------
\* Fencing, strengthened: generations come from one counter, so none that was
\* issued or is in force exceeds it.  Without these bounds a fresh generation
\* could repeat an old one.
FenceInv ==
  /\ \A c \in Session : gen[c] <= generation
  /\ \A s \in Station : lease[s] # None => lease[s].generation <= generation
  /\ GenerationUnique
  /\ NewestClaimOwns

fenceVars == <<registryVars, at, of, gen>>

\* claimScript run for session c issues a generation above all others.
LEMMA ClaimFences ==
  ASSUME TypeInv, FenceInv, NEW c \in Session, RunClaim(c)
  PROVE  FenceInv'
<1> USE DEF TypeInv, TypeOK, RegistryTypeOK
<1>0. UNCHANGED <<at, of>> /\ of[c] \in Station
  BY DEF RunClaim, Run
<1>1. CASE lease[of[c]] # None
  <2>1. UNCHANGED fenceVars
    BY <1>0, <1>1 DEF RunClaim, ClaimScript, fenceVars, registryVars
  <2> QED  BY <2>1 DEF fenceVars, registryVars, FenceInv, GenerationUnique, NewestClaimOwns
<1>2. CASE lease[of[c]] = None
  <2>1. /\ generation' = generation + 1
        /\ gen' = [gen EXCEPT ![c] = generation + 1]
        /\ lease' = [lease EXCEPT ![of[c]] =
                       [owner |-> at[c], generation |-> generation + 1, pttl |-> TTL]]
    BY <1>2 DEF RunClaim, ClaimScript
  <2>2. \A d \in Session : gen'[d] <= generation'
    BY <2>1 DEF FenceInv
  <2>3. \A s \in Station : lease'[s] # None => lease'[s].generation <= generation'
    <3> SUFFICES ASSUME NEW s \in Station, lease'[s] # None
                 PROVE  lease'[s].generation <= generation'
      OBVIOUS
    <3>1. CASE s = of[c]
      BY <2>1, <3>1
    <3>2. CASE s # of[c]
      BY <2>1, <3>2 DEF FenceInv, Lease
    <3> QED  BY <3>1, <3>2
  <2>4. GenerationUnique'
    BY <2>1 DEF FenceInv, GenerationUnique
  <2>5. NewestClaimOwns'
    <3> SUFFICES ASSUME NEW d \in Session, lease'[of[d]] # None
                 PROVE  /\ gen'[d] <= lease'[of[d]].generation
                        /\ gen'[d] = lease'[of[d]].generation => at[d] = lease'[of[d]].owner
      BY <1>0 DEF NewestClaimOwns
    <3>1. CASE d = c
      BY <1>0, <2>1, <3>1
    <3>2. CASE d # c /\ of[d] = of[c]
      BY <1>0, <2>1, <3>2 DEF FenceInv
    <3>3. CASE d # c /\ of[d] # of[c]
      BY <1>0, <2>1, <3>3 DEF FenceInv, NewestClaimOwns
    <3> QED  BY <3>1, <3>2, <3>3
  <2> QED  BY <2>2, <2>3, <2>4, <2>5 DEF FenceInv
<1> QED  BY <1>1, <1>2

\* Renewing, releasing and ageing keep the owner and generation of every lease
\* they leave in place.
LEMMA LeaseKept ==
  ASSUME TypeInv,
         \/ \E c \in Session : RunRenew(c) \/ RunRelease(c)
         \/ Tick
  PROVE  /\ \A s \in Station : lease'[s] # None =>
              /\ lease[s] # None
              /\ lease'[s].owner = lease[s].owner
              /\ lease'[s].generation = lease[s].generation
         /\ UNCHANGED <<generation, gen, at, of>>
<1> USE DEF TypeInv, TypeOK, RegistryTypeOK
<1>1. ASSUME NEW c \in Session, RunRenew(c)
      PROVE  /\ \A s \in Station : lease'[s] # None =>
                  /\ lease[s] # None
                  /\ lease'[s].owner = lease[s].owner
                  /\ lease'[s].generation = lease[s].generation
             /\ UNCHANGED <<generation, gen, at, of>>
  <2>1. /\ UNCHANGED <<generation, gen, at, of>>
        /\ lease' = IF Holds(of[c], at[c], gen[c])
                    THEN [lease EXCEPT ![of[c]].pttl = TTL] ELSE lease
    BY <1>1 DEF RunRenew, Run, RenewScript
  <2>2. CASE Holds(of[c], at[c], gen[c])
    <3>1. of[c] \in Station /\ lease[of[c]] \in Lease
      BY <2>2 DEF Holds
    <3>2. lease' = [lease EXCEPT ![of[c]] = [lease[of[c]] EXCEPT !.pttl = TTL]]
      BY <2>1, <2>2
    <3>3. /\ [lease[of[c]] EXCEPT !.pttl = TTL].owner = lease[of[c]].owner
          /\ [lease[of[c]] EXCEPT !.pttl = TTL].generation = lease[of[c]].generation
      BY <3>1 DEF Lease
    <3>4. lease[of[c]] # None
      BY <2>2 DEF Holds
    <3> QED  BY <2>1, <3>1, <3>2, <3>3, <3>4
  <2>3. CASE ~Holds(of[c], at[c], gen[c])
    BY <2>1, <2>3
  <2> QED  BY <2>2, <2>3
<1>2. ASSUME NEW c \in Session, RunRelease(c)
      PROVE  /\ \A s \in Station : lease'[s] # None =>
                  /\ lease[s] # None
                  /\ lease'[s].owner = lease[s].owner
                  /\ lease'[s].generation = lease[s].generation
             /\ UNCHANGED <<generation, gen, at, of>>
  BY <1>2 DEF RunRelease, Run, ReleaseScript
<1>3. CASE Tick
  <2>1. UNCHANGED <<generation, gen, at, of>> /\ Elapse
    BY <1>3 DEF Tick, Elapse
  <2>2. ASSUME NEW s \in Station, lease'[s] # None
        PROVE  /\ lease[s] # None
               /\ lease'[s].owner = lease[s].owner
               /\ lease'[s].generation = lease[s].generation
    <3>1. /\ lease[s] # None
          /\ lease'[s] = [lease[s] EXCEPT !.pttl = lease[s].pttl - 1]
      BY <2>1, <2>2 DEF Elapse
    <3> QED  BY <3>1 DEF Lease
  <2> QED  BY <2>1, <2>2
<1> QED  BY <1>1, <1>2, <1>3

\* A step that changes neither keys nor issued generations.
OffRegistry ==
  \/ \E c \in Session : \/ Connect(c) \/ Disconnect(c) \/ OnConnect(c)
                        \/ Renew(c) \/ OnDisconnect(c)
  \/ \E q \in requests : LoseRequest(q)
  \/ \E r \in Runtime : Crash(r)
  \/ UNCHANGED vars

\* The runtimes' own steps, lost requests and crashes leave the keys alone.
LEMMA OffRegistryKeeps == OffRegistry => UNCHANGED fenceVars
  BY ZenonT(60) DEF OffRegistry, fenceVars, Connect, Disconnect, OnConnect, ClaimSucceeds, ClaimFails,
     Renew, RenewSend, RenewSucceeds, RenewFails, OnDisconnect, TakeEntry, SendRelease,
     ReleaseReturns, LoseRequest, Crash, vars, callVars

\* Every step is one of these.
LEMMA StepKinds ==
  ASSUME [Next]_vars
  PROVE  \/ OffRegistry
         \/ \E c \in Session : RunClaim(c)
         \/ \E c \in Session : RunRenew(c) \/ RunRelease(c)
         \/ Tick
         \/ RestartRedis
  BY DEF Next, OffRegistry, RunScript

\* While Redis keeps its keys, every step keeps the fencing invariant.
LEMMA NextFenceInv ==
  ASSUME Durable, TypeInv, FenceInv, [Next]_vars
  PROVE  FenceInv'
<1>1. CASE OffRegistry
  <2>1. UNCHANGED fenceVars
    BY <1>1, OffRegistryKeeps
  <2> QED  BY <2>1 DEF fenceVars, registryVars, FenceInv, GenerationUnique, NewestClaimOwns
<1>2. ASSUME NEW c \in Session, RunClaim(c) PROVE FenceInv'
  BY <1>2, ClaimFences
<1>3. CASE \/ \E c \in Session : RunRenew(c) \/ RunRelease(c)
           \/ Tick
  <2>1. /\ \A s \in Station : lease'[s] # None =>
             /\ lease[s] # None
             /\ lease'[s].owner = lease[s].owner
             /\ lease'[s].generation = lease[s].generation
        /\ UNCHANGED <<generation, gen, at, of>>
    BY <1>3, LeaseKept
  <2> QED  BY <2>1, ZenonT(60) DEF FenceInv, GenerationUnique, NewestClaimOwns, TypeInv, TypeOK
<1>4. CASE RestartRedis
  BY <1>4 DEF RestartRedis
<1> QED  BY <1>1, <1>2, <1>3, <1>4, StepKinds

\* Before any claim nothing is in force and nothing was issued.
LEMMA InitFenceInv == Init => FenceInv
  BY DEF Init, NoLeases, FenceInv, GenerationUnique, NewestClaimOwns

\* The fencing invariant holds in every reachable state.
LEMMA FenceInvariant == ASSUME Durable PROVE Spec => [](TypeInv /\ FenceInv)
<1>1. TypeInv /\ FenceInv /\ [Next]_vars => (TypeInv /\ FenceInv)'
  BY NextTypeInv, NextFenceInv
<1> QED  BY <1>1, InitTypeInv, InitFenceInv, PTL DEF Spec

\* The lease in force is always the newest claim of its station and belongs to
\* the runtime that made that claim (what renewScript, releaseScript and the
\* owner check of handleCommand rely on), unless Redis loses its keys.
THEOREM NewestClaimOwnsAlways == ASSUME Durable PROVE Spec => []NewestClaimOwns
  BY FenceInvariant, PTL DEF FenceInv

\* claimScript never issues a generation twice, unless Redis loses its keys.
THEOREM GenerationUniqueAlways == ASSUME Durable PROVE Spec => []GenerationUnique
  BY FenceInvariant, PTL DEF FenceInv
-----------------------------------------------------------------------------
\* The grant a lease stands for: the refinement mapping of module Ownership.
Grants == [s \in Station |->
             IF lease[s] = None THEN None
             ELSE [owner |-> lease[s].owner, generation |-> lease[s].generation]]

\* A claim that runs is a grant, or changes nothing.
LEMMA ClaimGrants ==
  ASSUME TypeInv, NEW c \in Session, RunClaim(c)
  PROVE  [Registry!Next]_(Registry!grantVars)
<1> USE DEF TypeInv, TypeOK, RegistryTypeOK
<1>1. of[c] \in Station /\ at[c] \in Runtime
  BY ZenonT(60)
<1>2. CASE lease[of[c]] # None
  BY <1>2 DEF RunClaim, ClaimScript, registryVars, Registry!grantVars
<1>3. CASE lease[of[c]] = None
  <2>1. /\ generation' = generation + 1
        /\ lease' = [lease EXCEPT ![of[c]] =
                       [owner |-> at[c], generation |-> generation + 1, pttl |-> TTL]]
    BY <1>3 DEF RunClaim, ClaimScript
  <2>2. [owner |-> at[c], generation |-> generation + 1, pttl |-> TTL] # None
    BY <1>1, TTLAssumption, NoneAssumption DEF Lease
  <2>3. Grants[of[c]] = None
    BY <1>1, <1>3 DEF Grants
  <2>4. Grants' = [Grants EXCEPT ![of[c]] =
                     [owner |-> at[c], generation |-> generation + 1]]
    BY <1>1, <2>1, <2>2, ZenonT(60) DEF Grants
  <2>5. Registry!Grant(of[c], at[c])
    BY <2>1, <2>3, <2>4 DEF Registry!Grant, Grants
  <2>6. \E s \in Station, o \in Runtime : Registry!Grant(s, o)
    BY <1>1, <2>5, Zenon DEF Registry!Grant
  <2> QED  BY <2>6 DEF Registry!Next
<1> QED  BY <1>2, <1>3

\* A step that keeps owner and generation of the leases it leaves in place ends
\* the other grants.
LEMMA OthersEnd ==
  ASSUME TypeInv, UNCHANGED generation,
         \A s \in Station : lease'[s] # None =>
           /\ lease[s] # None
           /\ lease'[s].owner = lease[s].owner
           /\ lease'[s].generation = lease[s].generation
  PROVE  Registry!Next
<1> DEFINE S == {s \in Station : lease'[s] = None}
<1>1. Grants' = [s \in Station |-> IF s \in S THEN None ELSE Grants[s]]
  BY ZenonT(60) DEF Grants
<1>2. Registry!End(S)
  BY <1>1 DEF Registry!End, Grants
<1>3. S \in SUBSET Station
  OBVIOUS
<1> HIDE DEF S
<1>4. \E T \in SUBSET Station : Registry!End(T)
  BY <1>2, <1>3 DEF Registry!End
<1> QED  BY <1>4, Zenon DEF Registry!Next

\* Every step of the runtimes and of Redis is a step of the promised registry,
\* or changes nothing it can see.
LEMMA StepRefines ==
  ASSUME Durable, TypeInv, [Next]_vars
  PROVE  [Registry!Next]_(Registry!grantVars)
<1>1. CASE OffRegistry
  <2>1. UNCHANGED fenceVars
    BY <1>1, OffRegistryKeeps
  <2> QED  BY <2>1 DEF fenceVars, registryVars, Registry!grantVars
<1>2. ASSUME NEW c \in Session, RunClaim(c) PROVE [Registry!Next]_(Registry!grantVars)
  BY <1>2, ClaimGrants
<1>3. CASE \/ \E c \in Session : RunRenew(c) \/ RunRelease(c)
           \/ Tick
  BY <1>3, LeaseKept, OthersEnd
<1>4. CASE RestartRedis
  BY <1>4 DEF RestartRedis
<1> QED  BY <1>1, <1>2, <1>3, <1>4, StepKinds

\* The runtimes over Redis keep the promise of the registry interface
\* (sessionregistry.Registry): exclusive grants under increasing generations.
THEOREM RegistryPromiseKept == ASSUME Durable PROVE Spec => RegistryPromise
<1>1. Init => Registry!Init
  BY DEF Init, NoLeases, Registry!Init
<1>2. Spec => []TypeInv
  BY InitTypeInv, NextTypeInv, PTL DEF Spec
<1> QED  BY <1>1, <1>2, StepRefines, PTL DEF Spec, RegistryPromise, Registry!Spec
-----------------------------------------------------------------------------
(***************************************************************************)
(* When the library runs the sessions of an identity on a runtime one      *)
(* after the other (Serial) and Redis keeps its keys (Durable): the        *)
(* managers' entries match the sessions, no live session's lease is        *)
(* released, and a runtime that is never late never loses a lease.         *)
(***************************************************************************)

ClaimOf(c) == [op |-> "claim", session |-> c]
ReleaseOf(c) == [op |-> "release", session |-> c]

\* One session at a time per runtime and identity.
OneAtATime == \A c, d \in Session : c # d /\ SamePlace(c, d) /\ Live(c) => ~Live(d)

\* onDisconnect takes only its own session's entry.
TakesOwnEntry ==
  \A c \in Session :
    /\ taken[c] \in {None, c}
    /\ taken[c] = c => phase[c] \in {"unlocking", "releasing"}

\* A claim that has not run belongs to a session that is not established; a
\* release that has not run, to one whose onDisconnect sent it.
RequestsInOrder ==
  \A c \in Session :
    /\ ClaimOf(c) \in requests =>
         /\ phase[c] \notin {"idle", "active"}
         /\ phase[c] = "claiming" => reply[c] = "none"
    /\ ReleaseOf(c) \in requests => phase[c] \in {"releasing", "done"}

\* A renew goroutine runs exactly while its session is established (or, in a
\* call, a little longer), with a fresh ticker, and waits for no stale reply.
RenewerInStep ==
  \A c \in Session :
    /\ phase[c] \in {"idle", "claiming"} =>
         renewer[c] = "off" /\ ~due[c] /\ timer[c] = RenewInterval
    /\ phase[c] = "active" => renewer[c] # "off"
    /\ phase[c] = "idle" \/ renewer[c] = "ticking" => reply[c] = "none"

SerialInv == /\ EntriesMatchSessions
             /\ OneAtATime
             /\ TakesOwnEntry
             /\ RequestsInOrder
             /\ RenewerInStep

\* What a punctual runtime has left of the TTL: between renewals at least the
\* slack TTL - RenewInterval more than the time to the next tick of the ticker.
SlackOf(c) ==
  /\ phase[c] = "claiming" /\ reply[c] = "ok" =>
       HoldsLease(c) /\ lease[of[c]].pttl = TTL
  /\ phase[c] = "active" =>
       /\ HoldsLease(c)
       /\ renewer[c] = "ticking" /\ ~due[c] =>
            lease[of[c]].pttl >= timer[c] + (TTL - RenewInterval)
       /\ renewer[c] = "inflight" \/ due[c] =>
            lease[of[c]].pttl >= TTL - RenewInterval /\ timer[c] = RenewInterval
       /\ renewer[c] = "inflight" /\ reply[c] = "ok" => lease[of[c]].pttl = TTL

SlackInv == \A c \in Session : at[c] \in Punctual => SlackOf(c)

\* PEXPIRE and the passing of time change a lease's time to live and nothing else.
LEMMA NewPttl ==
  ASSUME NEW l \in Lease, NEW n \in 1..TTL
  PROVE  LET m == [l EXCEPT !.pttl = n]
         IN m \in Lease /\ m.owner = l.owner /\ m.generation = l.generation /\ m.pttl = n
  BY DEF Lease

\* What claimScript writes is a lease.
LEMMA NewLease ==
  ASSUME NEW o \in Runtime, NEW g \in Nat, NEW m,
         m = [owner |-> o, generation |-> g + 1, pttl |-> TTL]
  PROVE  /\ m \in Lease /\ m.owner = o /\ m.generation = g + 1 /\ m.pttl = TTL
         /\ m # None /\ g + 1 # 0
<1>1. g + 1 \in Nat \ {0} /\ TTL \in 1..TTL
  BY TTLAssumption
<1> QED  BY <1>1, NoneAssumption DEF Lease

\* The arithmetic of the slack: what a full TTL leaves, and what one tick takes.
LEMMA SlackArithmetic ==
  /\ TTL >= RenewInterval + (TTL - RenewInterval) /\ TTL >= TTL - RenewInterval
  /\ \A k \in 1..RenewInterval : TTL >= k + (TTL - RenewInterval)
  /\ \A p \in 1..TTL, k \in 1..RenewInterval :
       p >= k + (TTL - RenewInterval) =>
         /\ p > 1 /\ p # 1 /\ p - 1 \in 1..TTL
         /\ p - 1 >= (k - 1) + (TTL - RenewInterval)
         /\ k = 1 => p - 1 >= TTL - RenewInterval
  BY RenewAssumption, TTLAssumption

\* An onDisconnect that finds an entry finds that of its own session.
LEMMA OwnEntry ==
  ASSUME TypeInv, SerialInv, NEW c \in Session, phase[c] = "closed"
  PROVE  EntryOf(c) \in {None, c}
<1> SUFFICES ASSUME EntryOf(c) # None PROVE EntryOf(c) = c
  OBVIOUS
<1> DEFINE d == EntryOf(c)
<1>1. d \in Session /\ at[c] \in Runtime /\ of[c] \in Station
  BY DEF EntryOf, TypeInv, TypeOK
<1>2. at[d] = at[c] /\ of[d] = of[c] /\ phase[d] \in {"active", "closed"}
  BY <1>1 DEF SerialInv, EntriesMatchSessions, EntryOf
<1> QED  BY <1>1, <1>2 DEF SerialInv, OneAtATime, SamePlace, Live

\* The steps of onConnect and onDisconnect keep the serial invariant.
LEMMA CallbacksKeepSerialInv ==
  ASSUME Serial, TypeInv, SerialInv, NEW c \in Session,
         Connect(c) \/ Disconnect(c) \/ OnConnect(c) \/ OnDisconnect(c)
  PROVE  SerialInv'
<1> USE RenewAssumption, ModelAssumption DEF TypeInv, TypeOK, SerialInv
<1>1. CASE Connect(c)
  <2>1. EntriesMatchSessions' /\ TakesOwnEntry' /\ RenewerInStep'
    BY <1>1 DEF Connect, EntriesMatchSessions, EntryOf, TakesOwnEntry, RenewerInStep
  <2>2. OneAtATime'
    BY <1>1 DEF Connect, OneAtATime, SamePlace, Live
  <2>3. RequestsInOrder'
    BY <1>1, Zenon DEF Connect, Send, RequestsInOrder, RenewerInStep, ClaimOf, ReleaseOf
  <2> QED  BY <2>1, <2>2, <2>3
<1>2. CASE Disconnect(c)
  <2>1. EntriesMatchSessions' /\ TakesOwnEntry' /\ RenewerInStep'
    BY <1>2 DEF Disconnect, Stopped, EntriesMatchSessions, EntryOf, TakesOwnEntry,
       RenewerInStep
  <2>2. OneAtATime' /\ RequestsInOrder'
    BY <1>2, ZenonT(60) DEF Disconnect, OneAtATime, SamePlace, Live, RequestsInOrder
  <2> QED  BY <2>1, <2>2
<1>3. CASE ClaimSucceeds(c)
  <2>0. /\ at[c] \in Runtime /\ of[c] \in Station
        /\ \A r \in Runtime, s \in Station :
             entries'[r][s] = IF r = at[c] /\ s = of[c] THEN c ELSE entries[r][s]
    BY <1>3 DEF ClaimSucceeds
  <2>1. \A d \in Session : phase'[d] = "active" => EntryOf(d)' = d
    <3> SUFFICES ASSUME NEW d \in Session, phase'[d] = "active"
                 PROVE  entries'[at[d]][of[d]] = d
      BY <1>3 DEF ClaimSucceeds, EntryOf
    <3>1. CASE d = c
      BY <2>0, <3>1
    <3>2. CASE d # c
      <4>1. phase[d] = "active" /\ ~SamePlace(d, c)
        BY <1>3, <3>2, ZenonT(60) DEF ClaimSucceeds, OneAtATime, Live
      <4> QED  BY <2>0, <4>1 DEF SamePlace, EntriesMatchSessions, EntryOf
    <3> QED  BY <3>1, <3>2
  <2>2. EntriesMatchSessions'
    BY <1>3, <2>0, <2>1 DEF ClaimSucceeds, EntriesMatchSessions
  <2>3. OneAtATime' /\ TakesOwnEntry'
    BY <1>3 DEF ClaimSucceeds, OneAtATime, SamePlace, Live, TakesOwnEntry
  <2>4. RequestsInOrder' /\ RenewerInStep'
    BY <1>3 DEF ClaimSucceeds, RequestsInOrder, RenewerInStep
  <2> QED  BY <2>2, <2>3, <2>4
<1>4. CASE ClaimFails(c)
  <2>1. EntriesMatchSessions' /\ TakesOwnEntry' /\ RenewerInStep'
    BY <1>4 DEF ClaimFails, EntriesMatchSessions, EntryOf, TakesOwnEntry, RenewerInStep
  <2>2. OneAtATime' /\ RequestsInOrder'
    BY <1>4 DEF ClaimFails, OneAtATime, SamePlace, Live, RequestsInOrder
  <2> QED  BY <2>1, <2>2
<1>5. CASE TakeEntry(c)
  <2>0. EntryOf(c) \in {None, c} /\ at[c] \in Runtime /\ of[c] \in Station
    BY <1>5, OwnEntry DEF TakeEntry
  <2>1. /\ phase' = [phase EXCEPT ![c] = IF EntryOf(c) = None THEN "done" ELSE "unlocking"]
        /\ taken' = IF EntryOf(c) = None THEN taken ELSE [taken EXCEPT ![c] = c]
        /\ renewer' = IF EntryOf(c) = None THEN renewer
                      ELSE [renewer EXCEPT ![c] = Stopped(c)]
        /\ UNCHANGED <<at, of, timer, due, reply, requests>>
    BY <1>5, <2>0 DEF TakeEntry
  <2>2. phase[c] = "closed"
    BY <1>5 DEF TakeEntry
  <2>3. \A r \in Runtime, s \in Station :
          entries'[r][s] = IF r = at[c] /\ s = of[c] THEN None ELSE entries[r][s]
    BY <1>5 DEF TakeEntry
  <2>4. EntriesMatchSessions'
    <3>1. ASSUME NEW d \in Session, phase'[d] = "active" PROVE EntryOf(d)' = d
      <4>1. d # c /\ phase[d] = "active"
        BY <2>1, <3>1
      <4>2. ~SamePlace(d, c)
        BY <2>2, <4>1, Zenon DEF OneAtATime, Live
      <4> QED  BY <2>0, <2>1, <2>3, <4>1, <4>2 DEF SamePlace, EntriesMatchSessions, EntryOf
    <3>2. ASSUME NEW r \in Runtime, NEW s \in Station, entries'[r][s] # None
          PROVE  LET d == entries'[r][s]
                 IN at'[d] = r /\ of'[d] = s /\ phase'[d] \in {"active", "closed"}
      <4>1. entries'[r][s] = entries[r][s] /\ ~(r = at[c] /\ s = of[c])
        BY <2>3, <3>2
      <4> QED  BY <2>1, <3>2, <4>1 DEF EntriesMatchSessions
    <3> QED  BY <3>1, <3>2 DEF EntriesMatchSessions
  <2>5. OneAtATime' /\ TakesOwnEntry'
    BY <2>1, <2>2 DEF OneAtATime, SamePlace, Live, TakesOwnEntry
  <2>6. RequestsInOrder' /\ RenewerInStep'
    BY <2>1, <2>2 DEF RequestsInOrder, RenewerInStep, Stopped
  <2> QED  BY <2>4, <2>5, <2>6
<1>6. CASE SendRelease(c)
  <2>0. taken[c] = c
    BY <1>6 DEF SendRelease, TakesOwnEntry, TakenInHand
  <2>1. EntriesMatchSessions' /\ TakesOwnEntry' /\ RenewerInStep'
    BY <1>6 DEF SendRelease, EntriesMatchSessions, EntryOf, TakesOwnEntry, RenewerInStep
  <2>2. OneAtATime'
    BY <1>6 DEF SendRelease, OneAtATime, SamePlace, Live
  <2>3. RequestsInOrder'
    BY <1>6, <2>0, ZenonT(60) DEF SendRelease, Send, RequestsInOrder, ClaimOf, ReleaseOf
  <2> QED  BY <2>1, <2>2, <2>3
<1>7. CASE ReleaseReturns(c)
  <2>1. EntriesMatchSessions' /\ TakesOwnEntry' /\ RenewerInStep'
    BY <1>7 DEF ReleaseReturns, EntriesMatchSessions, EntryOf, TakesOwnEntry, RenewerInStep
  <2>2. OneAtATime' /\ RequestsInOrder'
    BY <1>7 DEF ReleaseReturns, OneAtATime, SamePlace, Live, RequestsInOrder
  <2> QED  BY <2>1, <2>2
<1> QED
  BY <1>1, <1>2, <1>3, <1>4, <1>5, <1>6, <1>7 DEF OnConnect, OnDisconnect

\* So do the renew goroutine and the scripts.
LEMMA CallsKeepSerialInv ==
  ASSUME TypeInv, SerialInv, NEW c \in Session, Renew(c) \/ RunScript(c)
  PROVE  SerialInv'
<1> USE RenewAssumption, ModelAssumption DEF TypeInv, TypeOK, SerialInv
<1>1. CASE RenewSend(c)
  <2>1. EntriesMatchSessions' /\ TakesOwnEntry' /\ RenewerInStep'
    BY <1>1 DEF RenewSend, EntriesMatchSessions, EntryOf, TakesOwnEntry, RenewerInStep
  <2>2. OneAtATime' /\ RequestsInOrder'
    BY <1>1 DEF RenewSend, Send, OneAtATime, SamePlace, Live, RequestsInOrder, ClaimOf,
       ReleaseOf
  <2> QED  BY <2>1, <2>2, Zenon
<1>2. CASE RenewSucceeds(c)
  <2>1. EntriesMatchSessions' /\ TakesOwnEntry' /\ OneAtATime' /\ RequestsInOrder'
    BY <1>2 DEF RenewSucceeds, EntriesMatchSessions, EntryOf, TakesOwnEntry, OneAtATime,
       SamePlace, Live, RequestsInOrder
  <2>2. Cancelled(c) => phase[c] # "active"
    BY Zenon DEF Cancelled, TakesOwnEntry
  <2>3. RenewerInStep'
    BY <1>2, <2>2 DEF RenewSucceeds, RenewerInStep
  <2> QED  BY <2>1, <2>3, Zenon
<1>3. CASE RenewFails(c)
  <2>1. EntriesMatchSessions' /\ TakesOwnEntry' /\ RenewerInStep'
    BY <1>3 DEF RenewFails, EntriesMatchSessions, EntryOf, TakesOwnEntry, RenewerInStep
  <2>2. OneAtATime' /\ RequestsInOrder'
    BY <1>3 DEF RenewFails, OneAtATime, SamePlace, Live, RequestsInOrder
  <2> QED  BY <2>1, <2>2
<1>4. CASE RunScript(c)
  <2>1. UNCHANGED <<at, of, phase, renewer, timer, due, taken, entries>>
    BY <1>4, ZenonT(60) DEF RunScript, RunClaim, RunRenew, RunRelease, Run
  <2>2. EntriesMatchSessions' /\ TakesOwnEntry' /\ OneAtATime'
    BY <2>1 DEF EntriesMatchSessions, EntryOf, TakesOwnEntry, OneAtATime, SamePlace, Live
  <2>3. RequestsInOrder' /\ RenewerInStep'
    <3>1. CASE RunClaim(c)
      BY <2>1, <3>1 DEF RunClaim, Run, Answer, RequestsInOrder, RenewerInStep, ClaimOf
    <3>2. CASE RunRenew(c)
      BY <2>1, <3>2 DEF RunRenew, Run, Answer, RequestsInOrder, RenewerInStep
    <3>3. CASE RunRelease(c)
      BY <2>1, <3>3 DEF RunRelease, Run, RequestsInOrder, RenewerInStep
    <3> QED  BY <1>4, <3>1, <3>2, <3>3, ZenonT(60) DEF RunScript
  <2> QED  BY <2>2, <2>3, ZenonT(60)
<1> QED  BY <1>1, <1>2, <1>3, <1>4 DEF Renew

\* And every other step.
LEMMA NextSerialInv ==
  ASSUME Serial, Durable, TypeInv, SerialInv, [Next]_vars
  PROVE  SerialInv'
<1> USE RenewAssumption, ModelAssumption DEF TypeInv, TypeOK, SerialInv
<1>1. ASSUME NEW c \in Session,
             \/ Connect(c) \/ Disconnect(c) \/ OnConnect(c)
             \/ Renew(c) \/ OnDisconnect(c) \/ RunScript(c)
      PROVE  SerialInv'
  BY <1>1, CallbacksKeepSerialInv, CallsKeepSerialInv
<1>2. ASSUME NEW q \in requests, LoseRequest(q) PROVE SerialInv'
  <2>1. UNCHANGED callVars /\ requests' \subseteq requests
    BY <1>2, Zenon DEF LoseRequest
  <2>2. EntriesMatchSessions' /\ TakesOwnEntry' /\ OneAtATime' /\ RenewerInStep'
    BY <2>1 DEF callVars, EntriesMatchSessions, EntryOf, TakesOwnEntry, OneAtATime,
       SamePlace, Live, RenewerInStep
  <2>3. RequestsInOrder'
    BY <2>1 DEF callVars, RequestsInOrder
  <2> QED  BY <2>2, <2>3, Zenon
<1>3. ASSUME NEW r \in Runtime, Crash(r) PROVE SerialInv'
  <2> DEFINE here == {c \in Session : at[c] = r /\ Live(c)}
  <2>1. /\ \A c \in Session : /\ phase'[c] = IF c \in here THEN "done" ELSE phase[c]
                              /\ renewer'[c] = IF c \in here THEN "off" ELSE renewer[c]
                              /\ due'[c] = IF c \in here THEN FALSE ELSE due[c]
                              /\ reply'[c] = IF c \in here THEN "none" ELSE reply[c]
                              /\ taken'[c] = IF c \in here THEN None ELSE taken[c]
        /\ \A o \in Runtime, s \in Station :
             entries'[o][s] = IF o = r THEN None ELSE entries[o][s]
        /\ UNCHANGED <<at, of, timer, requests>>
    BY <1>3 DEF Crash, NoLeases
  <2> HIDE DEF here
  <2>h. \A c \in Session : c \in here <=> at[c] = r /\ Live(c)
    BY ZenonT(60) DEF here
  <2>2. EntriesMatchSessions'
    <3>1. ASSUME NEW d \in Session, phase'[d] = "active" PROVE EntryOf(d)' = d
      <4>1. d \notin here /\ phase[d] = "active"
        BY <2>1, <3>1, Zenon
      <4>2. at[d] # r /\ at[d] \in Runtime /\ of[d] \in Station
        BY <2>h, <4>1, Zenon DEF Live
      <4> QED  BY <2>1, <4>1, <4>2 DEF EntriesMatchSessions, EntryOf
    <3>2. ASSUME NEW o \in Runtime, NEW s \in Station, entries'[o][s] # None
          PROVE  LET d == entries'[o][s]
                 IN at'[d] = o /\ of'[d] = s /\ phase'[d] \in {"active", "closed"}
      <4>1. o # r /\ entries'[o][s] = entries[o][s]
        BY <2>1, <3>2, ZenonT(60)
      <4>2. /\ entries[o][s] \in Session /\ at[entries[o][s]] = o
            /\ of[entries[o][s]] = s /\ phase[entries[o][s]] \in {"active", "closed"}
        BY <3>2, <4>1 DEF EntriesMatchSessions
      <4> QED  BY <2>1, <2>h, <4>1, <4>2, ZenonT(60)
    <3> QED  BY <3>1, <3>2 DEF EntriesMatchSessions
  <2>3. OneAtATime'
    <3>1. \A c, d \in Session : Live(c)' => Live(c)
      BY <2>1, ZenonT(60) DEF Live
    <3> QED  BY <2>1, <3>1 DEF OneAtATime, SamePlace
  <2>4. TakesOwnEntry'
    <3> SUFFICES ASSUME NEW c \in Session
                 PROVE  /\ taken'[c] \in {None, c}
                        /\ taken'[c] = c => phase'[c] \in {"unlocking", "releasing"}
      BY DEF TakesOwnEntry
    <3>1. CASE c \in here
      <4>1. taken'[c] = None /\ c # None
        BY <2>1, <3>1, Zenon
      <4> QED  BY <4>1
    <3>2. CASE c \notin here
      BY <2>1, <3>2, Zenon DEF TakesOwnEntry
    <3> QED  BY <3>1, <3>2
  <2>5. RequestsInOrder'
    BY <2>1, Zenon DEF RequestsInOrder
  <2>6. RenewerInStep'
    BY <2>1, ZenonT(60) DEF RenewerInStep
  <2> QED  BY <2>2, <2>3, <2>4, <2>5, <2>6, Zenon
<1>4. CASE RestartRedis
  BY <1>4 DEF RestartRedis
<1>5. CASE Tick
  <2>1. /\ EntriesMatchSessions' /\ TakesOwnEntry' /\ OneAtATime' /\ RequestsInOrder'
    BY <1>5 DEF Tick, EntriesMatchSessions, EntryOf, TakesOwnEntry, OneAtATime, SamePlace,
       Live, RequestsInOrder
  <2>2. RenewerInStep'
    BY <1>5, ZenonT(60) DEF Tick, RenewerInStep
  <2> QED  BY <2>1, <2>2
<1>6. CASE UNCHANGED vars
  BY <1>6 DEF vars, callVars, EntriesMatchSessions, EntryOf, TakesOwnEntry, OneAtATime,
     SamePlace, Live, RequestsInOrder, RenewerInStep
<1> QED  BY <1>1, <1>2, <1>3, <1>4, <1>5, <1>6, ZenonT(60) DEF Next

\* No session is connected at the start.
LEMMA InitSerialInv == Init => SerialInv
  BY ModelAssumption
  DEF Init, SerialInv, EntriesMatchSessions, OneAtATime, TakesOwnEntry, RequestsInOrder,
      RenewerInStep, Live

\* An onDisconnect removes its own session's entry and no other: owns() finds
\* every established session.
THEOREM EntriesMatchAlways == ASSUME Serial, Durable PROVE Spec => []EntriesMatchSessions
<1>1. Spec => [](TypeInv /\ SerialInv)
  BY InitTypeInv, InitSerialInv, NextTypeInv, NextSerialInv, PTL DEF Spec
<1> QED  BY <1>1, PTL DEF SerialInv
-----------------------------------------------------------------------------
\* A session whose claim was granted, until it is closed.
Served(c) == phase[c] = "active" \/ (phase[c] = "claiming" /\ reply[c] = "ok")

\* No script, whoever sent it and however late it runs, takes away or shortens
\* the lease of a session being served.
LEMMA ScriptsSpareLease ==
  ASSUME TypeInv, FenceInv, SerialInv, NEW c \in Session, Served(c), HoldsLease(c),
         NEW d \in Session, RunScript(d)
  PROVE  /\ HoldsLease(c)' /\ UNCHANGED <<at, of>>
         /\ lease'[of[c]].pttl \in {lease[of[c]].pttl, TTL}
         /\ RunRenew(c) => lease'[of[c]].pttl = TTL
<1> USE NoneAssumption DEF TypeInv, TypeOK, RegistryTypeOK
<1>0. /\ of[c] \in Station /\ of[d] \in Station /\ UNCHANGED <<at, of>>
      /\ lease[of[c]] \in Lease /\ lease[of[c]].owner = at[c]
      /\ lease[of[c]].generation = gen[c] /\ gen[c] # 0
  BY Zenon DEF HoldsLease, Holds, RunScript, RunClaim, RunRenew, RunRelease, Run
<1>1. CASE RunClaim(d)
  <2>1. lease'[of[c]] = lease[of[c]]
    BY <1>0, <1>1, ZenonT(60) DEF RunClaim, ClaimScript, registryVars
  <2>2. gen'[c] = gen[c]
    <3>1. CASE c = d
      BY <1>0, <1>1, <3>1 DEF RunClaim
    <3>2. CASE c # d
      BY <1>1, <3>2, ZenonT(60) DEF RunClaim
    <3> QED  BY <3>1, <3>2
  <2>3. ~RunRenew(c)
    BY <1>0, <1>1 DEF RunClaim, RunRenew, Run
  <2> QED  BY <1>0, <2>1, <2>2, <2>3, Zenon DEF HoldsLease, Holds
<1>2. CASE RunRenew(d)
  <2>1. UNCHANGED gen /\ RenewScript(of[d], at[d], gen[d])
    BY <1>2 DEF RunRenew
  <2>2. \/ lease'[of[c]] = lease[of[c]] /\ of[c] # of[d]
        \/ lease'[of[c]] = lease[of[c]] /\ ~Holds(of[d], at[d], gen[d])
        \/ lease'[of[c]] = [lease[of[c]] EXCEPT !.pttl = TTL]
    BY <1>0, <2>1, Zenon DEF RenewScript
  <2>3. lease'[of[c]] \in {lease[of[c]], [lease[of[c]] EXCEPT !.pttl = TTL]}
    BY <2>2
  <2>4. c = d => lease'[of[c]] = [lease[of[c]] EXCEPT !.pttl = TTL]
    BY <1>0, <2>2 DEF Holds
  <2>5. RunRenew(c) => c = d
    BY <1>2 DEF RunRenew, Run
  <2>t. TTL \in 1..TTL
    BY TTLAssumption
  <2>6. LET m == [lease[of[c]] EXCEPT !.pttl = TTL]
        IN /\ m \in Lease /\ m.owner = lease[of[c]].owner
           /\ m.generation = lease[of[c]].generation /\ m.pttl = TTL
    <3> HIDE DEF TypeInv, TypeOK, RegistryTypeOK
    <3> QED  BY <1>0, <2>t, NewPttl
  <2>7. /\ lease'[of[c]] # None /\ lease'[of[c]].owner = at[c]
        /\ lease'[of[c]].generation = gen[c]
        /\ lease'[of[c]].pttl \in {lease[of[c]].pttl, TTL}
        /\ c = d => lease'[of[c]].pttl = TTL
    BY <1>0, <2>3, <2>4, <2>6 DEF Lease
  <2> QED  BY <1>0, <2>1, <2>5, <2>7, Zenon DEF HoldsLease, Holds
<1>3. CASE RunRelease(d)
  <2>1. UNCHANGED gen /\ ReleaseScript(of[d], at[d], gen[d]) /\ ReleaseOf(d) \in requests
    BY <1>3 DEF RunRelease, Run, ReleaseOf
  <2>2. c # d
    BY <2>1, Zenon DEF SerialInv, RequestsInOrder, Served
  <2>3. ~(of[c] = of[d] /\ Holds(of[d], at[d], gen[d]))
    BY <1>0, <2>2 DEF FenceInv, GenerationUnique, Holds
  <2>4. lease'[of[c]] = lease[of[c]]
    BY <1>0, <2>1, <2>3 DEF ReleaseScript
  <2>5. ~RunRenew(c)
    BY <1>3 DEF RunRelease, RunRenew, Run
  <2> QED  BY <1>0, <2>1, <2>4, <2>5, Zenon DEF HoldsLease, Holds
<1> QED  BY <1>1, <1>2, <1>3 DEF RunScript

\* The lease of an established session ends only by expiry: the release of an
\* earlier session of the station never deletes it.
LEMMA LiveLeaseStep ==
  ASSUME Durable, TypeInv, FenceInv, SerialInv, [Next]_vars, NEW c \in Session,
         phase[c] = "active", HoldsLease(c), lease[of[c]].pttl > 1
  PROVE  HoldsLease(c)'
<1>1. CASE OffRegistry
  <2>1. UNCHANGED fenceVars
    BY <1>1, OffRegistryKeeps, Zenon
  <2> QED  BY <2>1 DEF fenceVars, registryVars, HoldsLease, Holds
<1>2. ASSUME NEW d \in Session, RunScript(d) PROVE HoldsLease(c)'
  BY <1>2, ScriptsSpareLease DEF Served
<1>3. CASE Tick
  <2>1. of[c] \in Station /\ lease[of[c]] \in Lease /\ UNCHANGED <<at, of, gen>>
    BY <1>3 DEF Tick, TypeInv, TypeOK, RegistryTypeOK, HoldsLease, Holds
  <2>2. lease'[of[c]] = [lease[of[c]] EXCEPT !.pttl = @ - 1]
    BY <1>3, <2>1 DEF Tick, Elapse, HoldsLease, Holds
  <2>3. lease'[of[c]] # None
    BY <1>3, <2>1, <2>2, NextTypeInv, NoneAssumption, TTLAssumption DEF Lease
  <2> QED  BY <2>1, <2>2, <2>3, Zenon DEF HoldsLease, Holds, Lease
<1> QED  BY <1>1, <1>2, <1>3, StepKinds DEF RunScript, RestartRedis

\* Under Serial and Durable nothing but expiry ends an established lease.
THEOREM LiveLeaseNotReleasedAlways ==
  ASSUME Serial, Durable PROVE Spec => LiveLeaseNotReleased
<1> DEFINE Kept == \A c \in Session :
                     /\ phase[c] = "active" /\ phase'[c] = "active"
                     /\ HoldsLease(c) /\ lease[of[c]].pttl > 1
                     => HoldsLease(c)' \/ generation' = 0
<1>1. Spec => [](TypeInv /\ FenceInv /\ SerialInv)
  BY InitTypeInv, InitFenceInv, InitSerialInv, NextTypeInv, NextFenceInv, NextSerialInv, PTL
  DEF Spec
<1>2. TypeInv /\ FenceInv /\ SerialInv /\ [Next]_vars => Kept
  BY LiveLeaseStep
<1> HIDE DEF Kept
<1>3. Spec => [][Kept]_vars
  BY <1>1, <1>2, PTL DEF Spec
<1> QED  BY <1>3 DEF Kept, LiveLeaseNotReleased
-----------------------------------------------------------------------------
slackVars(c) == <<at[c], of[c], phase[c], renewer[c], timer[c], due[c], reply[c]>>

\* The runtimes' own steps keep the slack: a grant and an answered renewal start
\* a full TTL, and the ticker is reset with it.
LEMMA RuntimeKeepsSlack ==
  ASSUME TypeInv, SerialInv, NEW d \in Session, NEW c \in Session,
         \/ Connect(d) \/ Disconnect(d) \/ OnConnect(d) \/ Renew(d) \/ OnDisconnect(d),
         at[c] \in Punctual, SlackOf(c)
  PROVE  SlackOf(c)' /\ UNCHANGED at
<1> USE RenewAssumption, TTLAssumption DEF TypeInv, TypeOK, RegistryTypeOK
<1>0. UNCHANGED fenceVars
  BY OffRegistryKeeps DEF OffRegistry
<1>1. (HoldsLease(c)' <=> HoldsLease(c)) /\ UNCHANGED <<lease[of[c]], at, of>>
  BY <1>0 DEF fenceVars, registryVars, HoldsLease, Holds
<1>2. CASE UNCHANGED slackVars(c)
  BY <1>1, <1>2, Zenon DEF slackVars, SlackOf
<1>3. CASE phase'[c] \notin {"claiming", "active"}
  BY <1>1, <1>3, Zenon DEF SlackOf
<1>4. CASE c = d /\ Connect(c)
  BY <1>1, <1>4, Zenon DEF Connect, SlackOf, SerialInv, RenewerInStep
<1>5. CASE c = d /\ ClaimSucceeds(c)
  <2>1. /\ phase'[c] = "active" /\ renewer'[c] = "ticking" /\ ~due'[c]
        /\ timer'[c] = RenewInterval
    BY <1>5, ZenonT(60) DEF ClaimSucceeds, SerialInv, RenewerInStep
  <2>2. HoldsLease(c) /\ lease[of[c]].pttl = TTL
    BY <1>5 DEF ClaimSucceeds, SlackOf
  <2> HIDE DEF TypeInv, TypeOK, RegistryTypeOK
  <2>3. (HoldsLease(c))' /\ (lease[of[c]].pttl = TTL)'
    BY <1>1, <2>2, Zenon
  <2>4. (lease[of[c]].pttl >= timer[c] + (TTL - RenewInterval))'
    BY <2>1, <2>3, SlackArithmetic, Zenon
  <2> QED  BY <1>1, <2>1, <2>3, <2>4, Zenon DEF SlackOf
<1>6. CASE c = d /\ RenewSend(c)
  BY <1>1, <1>6, ZenonT(60) DEF RenewSend, SlackOf, SerialInv, RenewerInStep
<1>7. CASE c = d /\ RenewSucceeds(c)
  <2>1. /\ renewer[c] = "inflight" /\ reply[c] = "ok" /\ reply'[c] = "none"
        /\ renewer'[c] \in {"off", "ticking"} /\ UNCHANGED <<phase, timer, due>>
    BY <1>7 DEF RenewSucceeds
  <2>2. CASE phase[c] = "active"
    <3>1. HoldsLease(c) /\ lease[of[c]].pttl = TTL /\ timer[c] = RenewInterval
      BY <2>1, <2>2, Zenon DEF SlackOf
    <3> HIDE DEF TypeInv, TypeOK, RegistryTypeOK
    <3>2. /\ (HoldsLease(c))' /\ (lease[of[c]].pttl = TTL)' /\ timer'[c] = RenewInterval
          /\ phase'[c] = "active" /\ reply'[c] = "none"
      BY <1>1, <2>1, <2>2, <3>1, ZenonT(60)
    <3>3. /\ (lease[of[c]].pttl >= timer[c] + (TTL - RenewInterval))'
          /\ (lease[of[c]].pttl >= TTL - RenewInterval)'
      BY <3>2, SlackArithmetic, Zenon
    <3> QED  BY <1>1, <3>2, <3>3, Zenon DEF SlackOf
  <2>3. CASE phase[c] # "active"
    BY <1>1, <2>1, <2>3, Zenon DEF SlackOf
  <2> QED  BY <2>2, <2>3, Zenon
<1>8. \/ UNCHANGED slackVars(c)
      \/ phase'[c] \notin {"claiming", "active"}
      \/ c = d /\ (Connect(c) \/ ClaimSucceeds(c) \/ RenewSend(c) \/ RenewSucceeds(c))
  <2>1. CASE Connect(d) \/ Disconnect(d)
    BY <1>1, <2>1 DEF Connect, Disconnect, slackVars
  <2>3. CASE OnConnect(d)
    BY <1>1, <2>3 DEF OnConnect, ClaimSucceeds, ClaimFails, slackVars
  <2>4. CASE RenewSend(d) \/ RenewSucceeds(d)
    <3>1. CASE RenewSend(d) /\ c # d
      BY <1>1, <3>1, Zenon DEF RenewSend, slackVars
    <3>2. CASE RenewSucceeds(d) /\ c # d
      BY <1>1, <3>2, Zenon DEF RenewSucceeds, slackVars
    <3> QED  BY <2>4, <3>1, <3>2, Zenon
  <2>5. CASE RenewFails(d)
    <3>1. CASE c = d
      BY <2>5, <3>1, Zenon DEF RenewFails, SerialInv, RenewerInStep
    <3>2. CASE c # d
      BY <1>1, <2>5, <3>2 DEF RenewFails, slackVars
    <3> QED  BY <3>1, <3>2, Zenon
  <2>2. CASE OnDisconnect(d)
    BY <1>1, <2>2, OwnEntry, ZenonT(60)
    DEF OnDisconnect, TakeEntry, SendRelease, ReleaseReturns, slackVars
  <2> QED  BY <2>1, <2>2, <2>3, <2>4, <2>5, ZenonT(60) DEF Renew
<1> QED  BY <1>1, <1>2, <1>3, <1>4, <1>5, <1>6, <1>7, <1>8, Zenon

\* So do the scripts: a renewal that succeeds sets a full TTL, and no other
\* script touches the lease.
LEMMA ScriptsKeepSlack ==
  ASSUME TypeInv, FenceInv, SerialInv, NEW d \in Session, NEW c \in Session, RunScript(d),
         at[c] \in Punctual, SlackOf(c)
  PROVE  SlackOf(c)' /\ UNCHANGED at
<1> USE RenewAssumption, TTLAssumption DEF TypeInv, TypeOK, RegistryTypeOK
<1>0. UNCHANGED <<at, of, phase, renewer, timer, due>>
  BY DEF RunScript, RunClaim, RunRenew, RunRelease, Run
<1>1. CASE phase[c] \notin {"claiming", "active"}
  BY <1>0, <1>1, Zenon DEF SlackOf
<1>2. CASE phase[c] = "claiming" /\ reply[c] # "ok"
  <2>1. CASE reply'[c] = "ok"
    <3>1. c = d /\ RunClaim(c) /\ lease[of[c]] = None
      BY <1>2, <2>1
      DEF RunScript, RunClaim, RunRenew, RunRelease, Answer, SerialInv, RenewerInStep
    <3>2. /\ gen'[c] = generation + 1 /\ of[c] \in Station
          /\ lease'[of[c]] = [owner |-> at[c], generation |-> generation + 1, pttl |-> TTL]
      BY <3>1 DEF RunClaim, ClaimScript
    <3>3. at[c] \in Runtime /\ generation \in Nat
      OBVIOUS
    <3> HIDE DEF TypeInv, TypeOK, RegistryTypeOK
    <3>4. /\ lease'[of[c]] # None /\ lease'[of[c]].owner = at[c] /\ gen'[c] # 0
          /\ lease'[of[c]].generation = gen'[c] /\ lease'[of[c]].pttl = TTL
      <4> DEFINE m == lease'[of[c]]
      <4>1. m = [owner |-> at[c], generation |-> generation + 1, pttl |-> TTL]
        BY <3>2
      <4> HIDE DEF m
      <4>2. /\ m # None /\ m.owner = at[c] /\ m.generation = generation + 1 /\ m.pttl = TTL
            /\ generation + 1 # 0
        BY <3>3, <4>1, NewLease, ZenonT(60)
      <4> QED  BY <3>2, <4>2, ZenonT(60) DEF m
    <3>5. (HoldsLease(c))' /\ (lease[of[c]].pttl = TTL)'
      BY <1>0, <3>4 DEF HoldsLease, Holds
    <3> QED  BY <1>0, <1>2, <3>5, ZenonT(60) DEF SlackOf
  <2>2. CASE reply'[c] # "ok"
    BY <1>0, <1>2, <2>2, Zenon DEF SlackOf
  <2> QED  BY <2>1, <2>2
<1>3. CASE Served(c)
  <2>1. HoldsLease(c)
    BY <1>3 DEF Served, SlackOf
  <2>2. /\ HoldsLease(c)'
        /\ lease'[of[c]].pttl \in {lease[of[c]].pttl, TTL}
        /\ RunRenew(c) => lease'[of[c]].pttl = TTL
    BY <1>3, <2>1, ScriptsSpareLease, Zenon
  <2>3. reply'[c] = reply[c] \/ RunRenew(c)
    <3>1. ~RunClaim(c)
      BY <1>3 DEF RunClaim, Run, SerialInv, RequestsInOrder, ClaimOf, Served
    <3> QED  BY <3>1, ZenonT(60) DEF RunScript, RunClaim, RunRenew, RunRelease, Answer
  <2>4. lease[of[c]].pttl \in 1..TTL
    BY <2>1, Zenon DEF HoldsLease, Holds, Lease
  <2>5. CASE phase[c] = "claiming"
    BY <1>0, <1>3, <2>2, <2>5, Zenon DEF SlackOf, Served
  <2>6. CASE phase[c] = "active"
    <3>0. timer[c] \in 1..RenewInterval
      OBVIOUS
    <3> HIDE DEF TypeInv, TypeOK, RegistryTypeOK
    <3>1. CASE lease'[of[c]].pttl = TTL
      <4>1. /\ (lease[of[c]].pttl = TTL)' /\ (lease[of[c]].pttl >= TTL - RenewInterval)'
            /\ (lease[of[c]].pttl >= timer[c] + (TTL - RenewInterval))'
        BY <1>0, <3>0, <3>1, SlackArithmetic, Zenon
      <4>2. renewer[c] = "inflight" \/ due[c] => timer[c] = RenewInterval
        BY <2>6, Zenon DEF SlackOf
      <4> QED  BY <1>0, <2>2, <2>6, <4>1, <4>2, Zenon DEF SlackOf
    <3>2. CASE lease'[of[c]].pttl # TTL
      <4>1. (lease[of[c]].pttl)' = lease[of[c]].pttl /\ reply'[c] = reply[c]
        BY <1>0, <2>2, <2>3, <3>2, Zenon
      <4> QED  BY <1>0, <2>2, <2>6, <4>1, Zenon DEF SlackOf
    <3> QED  BY <3>1, <3>2
  <2> QED  BY <1>3, <2>5, <2>6, Zenon DEF Served
<1> QED  BY <1>0, <1>1, <1>2, <1>3 DEF Served

\* And time: it passes only when no renewal of the runtime is outstanding.
LEMMA TickKeepsSlack ==
  ASSUME TypeInv, SerialInv, Tick, NEW c \in Session, at[c] \in Punctual, SlackOf(c)
  PROVE  SlackOf(c)' /\ UNCHANGED at
<1> USE RenewAssumption, TTLAssumption DEF TypeInv, TypeOK, RegistryTypeOK
<1>0. ~Urgent(c) /\ UNCHANGED <<at, of, phase, gen, renewer, reply>>
  BY Zenon DEF Tick
<1>1. CASE phase[c] # "active"
  BY <1>0, <1>1, Zenon DEF SlackOf, Urgent
<1>2. CASE phase[c] = "active"
  <2>1. renewer[c] = "ticking" /\ ~due[c]
    BY <1>0, <1>2, ZenonT(60) DEF SerialInv, RenewerInStep, Urgent
  <2>2. /\ HoldsLease(c) /\ of[c] \in Station /\ lease[of[c]] \in Lease
        /\ lease[of[c]].pttl >= timer[c] + (TTL - RenewInterval)
    BY <1>2, <2>1 DEF SlackOf, HoldsLease, Holds
  <2>3. lease[of[c]].pttl \in 1..TTL /\ timer[c] \in 1..RenewInterval
    BY <2>2, Zenon DEF Lease
  <2> HIDE DEF TypeInv, TypeOK, RegistryTypeOK
  <2>p. /\ lease[of[c]].pttl # 1 /\ lease[of[c]].pttl - 1 \in 1..TTL
        /\ lease[of[c]].pttl - 1 >= (timer[c] - 1) + (TTL - RenewInterval)
        /\ timer[c] = 1 => lease[of[c]].pttl - 1 >= TTL - RenewInterval
    BY <2>2, <2>3, SlackArithmetic, Zenon
  <2>4. lease'[of[c]] = [lease[of[c]] EXCEPT !.pttl = @ - 1]
    BY <2>2, <2>p DEF Tick, Elapse, HoldsLease, Holds
  <2>5. /\ lease'[of[c]] \in Lease /\ lease'[of[c]].owner = lease[of[c]].owner
        /\ lease'[of[c]].generation = lease[of[c]].generation
        /\ lease'[of[c]].pttl = lease[of[c]].pttl - 1
    BY <2>2, <2>4, <2>p, NewPttl
  <2>6. /\ (HoldsLease(c))' /\ (lease[of[c]].pttl)' = lease[of[c]].pttl - 1
        /\ phase'[c] = "active" /\ renewer'[c] = "ticking"
    BY <1>0, <1>2, <2>1, <2>2, <2>5, NoneAssumption, Zenon DEF HoldsLease, Holds
  <2>7. CASE timer[c] = 1
    <3>1. timer'[c] = RenewInterval /\ due'[c]
      BY <2>1, <2>7, ZenonT(60) DEF Tick
    <3>2. (lease[of[c]].pttl >= TTL - RenewInterval)'
      BY <2>6, <2>7, <2>p
    <3> QED  BY <1>0, <2>6, <3>1, <3>2, Zenon DEF SlackOf
  <2>8. CASE timer[c] # 1
    <3>1. timer'[c] = timer[c] - 1 /\ ~due'[c]
      BY <2>1, <2>8, Zenon DEF Tick
    <3>2. (lease[of[c]].pttl >= timer[c] + (TTL - RenewInterval))'
      BY <2>6, <2>p, <3>1, Zenon
    <3> QED  BY <1>0, <2>6, <3>1, <3>2, Zenon DEF SlackOf
  <2> QED  BY <2>7, <2>8, Zenon
<1> QED  BY <1>0, <1>1, <1>2, Zenon

\* The slack invariant is kept by every step.
LEMMA NextSlackInv ==
  ASSUME Durable, TypeInv, FenceInv, SerialInv, SlackInv, [Next]_vars
  PROVE  SlackInv'
<1> SUFFICES ASSUME NEW c \in Session, at'[c] \in Punctual PROVE SlackOf(c)'
  BY DEF SlackInv
<1>0. UNCHANGED at
  BY ZenonT(60) DEF Next, Connect, Disconnect, OnConnect, ClaimSucceeds, ClaimFails, Renew, RenewSend,
     RenewSucceeds, RenewFails, OnDisconnect, TakeEntry, SendRelease, ReleaseReturns,
     RunScript, RunClaim, RunRenew, RunRelease, Run, LoseRequest, Crash, RestartRedis, Tick,
     vars, callVars
<1>s. at[c] \in Punctual /\ SlackOf(c)
  BY <1>0 DEF SlackInv
<1>1. ASSUME NEW d \in Session,
             \/ Connect(d) \/ Disconnect(d) \/ OnConnect(d) \/ Renew(d) \/ OnDisconnect(d)
      PROVE  SlackOf(c)'
  BY <1>s, <1>1, RuntimeKeepsSlack
<1>2. ASSUME NEW d \in Session, RunScript(d) PROVE SlackOf(c)'
  BY <1>s, <1>2, ScriptsKeepSlack
<1>3. CASE Tick
  BY <1>s, <1>3, TickKeepsSlack
<1>4. ASSUME NEW r \in Runtime, Crash(r) PROVE SlackOf(c)'
  <2>1. \/ phase'[c] = "done"
        \/ UNCHANGED slackVars(c)
    BY <1>4 DEF Crash, slackVars, TypeInv, TypeOK
  <2> QED
    BY <1>s, <1>4, <2>1, ZenonT(60)
    DEF Crash, registryVars, slackVars, SlackOf, HoldsLease, Holds
<1>5. CASE (\E q \in requests : LoseRequest(q)) \/ UNCHANGED vars
  BY <1>s, <1>5, Zenon
  DEF LoseRequest, vars, callVars, registryVars, SlackOf, HoldsLease, Holds
<1> QED  BY <1>1, <1>2, <1>3, <1>4, <1>5, Zenon DEF Next, RestartRedis

\* A runtime that is never late never loses the lease of an established session,
\* for every TTL and every shorter renew interval.
THEOREM PunctualKeepsLeaseAlways ==
  ASSUME Serial, Durable PROVE Spec => []PunctualKeepsLease
<1>1. Init => SlackInv
  BY ZenonT(60) DEF Init, SlackInv, SlackOf
<1>2. Spec => [](TypeInv /\ FenceInv /\ SerialInv)
  BY InitTypeInv, InitFenceInv, InitSerialInv, NextTypeInv, NextFenceInv, NextSerialInv, PTL
  DEF Spec
<1>3. Spec => []SlackInv
  BY <1>1, <1>2, NextSlackInv, PTL DEF Spec
<1>4. SlackInv => PunctualKeepsLease
  BY DEF SlackInv, SlackOf, PunctualKeepsLease
<1> QED  BY <1>3, <1>4, PTL
=============================================================================
