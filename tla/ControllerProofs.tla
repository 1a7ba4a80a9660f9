--------------------------- MODULE ControllerProofs ---------------------------
(***************************************************************************)
(* The operator, for any kinds of objects, in any number: a Reconcile that *)
(* works from a late cache never writes to what another controller         *)
(* controls, and the generation in the status is one of this resource.     *)
(***************************************************************************)
EXTENDS Controller, TLAPS

\* The provers of a leaf that names none, in the order they are tried.
USE SMTT(20), Z3T(20), SMTT(60), Z3T(60), ZenonT(60)

\* The cache differs from the API server only in what the watch has still to
\* deliver.
CacheInv ==
  /\ "csms" \notin stale => csmsCache = csms
  /\ \A k \in Kind : k \notin stale => cache[k] = obj[k]

\* The version Reconcile has read is the current one until it is outdated, and
\* the status is of a generation the resource has had.
SeenInv == at # 0 /\ ~outdated => csms = seen
StatusInv == csms # None => status.observed <= csms.generation

\* The operator has written nothing into an object another controller controls.
OthersInv ==
  \A k \in Kind : obj[k] # None /\ obj[k].owner = Other => obj[k].replicas = 0 /\ obj[k].ready = 0

ControllerInv == TypeOK /\ CacheInv /\ SeenInv /\ StatusInv /\ OthersInv
-----------------------------------------------------------------------------
\* The step after a call on an object is a step of Reconcile.
LEMMA Steps ==
  /\ Len(Order) \in Nat
  /\ \A i \in DOMAIN Order : Order[i] \in Kind /\ i \in 1..Len(Order)
  BY ControllerAssumption DEF Kind

\* What TypeOK says of the variables that a change of an object leaves alone.
LEMMA Bounds ==
  ASSUME TypeOK
  PROVE  uid \in Nat /\ edits \in Nat /\ faults \in Nat /\ at \in Nat /\ MaxUID \in Nat /\ MaxTroubles \in Nat
  BY ControllerAssumption, Steps DEF TypeOK

\* A change of an object on the API server leaves the others alone; what the
\* cache holds is of the current version only where nothing was changed.
LEMMA ChangedEffect ==
  ASSUME TypeOK, NEW k \in Kind, NEW o \in Object \cup {None}, Changed(k, o)
  PROVE  /\ obj' \in [Kind -> Object \cup {None}] /\ obj'[k] = o
         /\ \A j \in Kind \ {k} : obj'[j] = obj[j]
         /\ stale' \subseteq Kind \cup {"csms"} /\ owed' \subseteq Kind
         /\ "csms" \notin stale' => "csms" \notin stale
         /\ \A j \in Kind : j \notin stale' => j \notin stale /\ obj'[j] = obj[j]
<1>1. /\ obj \in [Kind -> Object \cup {None}]
      /\ stale \subseteq Kind \cup {"csms"} /\ owed \subseteq Kind
  BY DEF TypeOK
<1>2. obj' = [obj EXCEPT ![k] = o]
  BY DEF Changed
<1>3. /\ obj' \in [Kind -> Object \cup {None}] /\ obj'[k] = o
      /\ \A j \in Kind \ {k} : obj'[j] = obj[j]
  BY <1>1, <1>2
<1>4. CASE o = obj[k]
  <2>1. stale' = stale /\ owed' = owed
    BY <1>4 DEF Changed
  <2> QED  BY <1>1, <1>3, <1>4, <2>1
<1>5. CASE o # obj[k]
  <2>1. stale' = stale \cup {k} /\ (owed' = owed \cup {k} \/ owed' = owed)
    BY <1>5 DEF Changed
  <2> QED  BY <1>1, <1>3, <2>1
<1> QED  BY <1>4, <1>5

\* So it keeps the invariant of the cache.
LEMMA ChangedKeepsCache ==
  ASSUME TypeOK, CacheInv, NEW k \in Kind, NEW o \in Object \cup {None}, Changed(k, o),
         UNCHANGED <<csms, csmsCache, cache>>
  PROVE  CacheInv'
  BY ChangedEffect DEF CacheInv

\* It keeps that of others' objects, unless it puts something into one.
LEMMA ChangedKeepsOthers ==
  ASSUME TypeOK, OthersInv, NEW k \in Kind, NEW o \in Object \cup {None}, Changed(k, o),
         o # None /\ o.owner = Other => o.replicas = 0 /\ o.ready = 0
  PROVE  OthersInv'
<1>1. obj'[k] = o /\ \A j \in Kind \ {k} : obj'[j] = obj[j]
  BY ChangedEffect
<1> QED  BY <1>1 DEF OthersInv

\* An object keeps its form when one of its fields is set.
LEMMA ObjectFields ==
  ASSUME NEW o \in Object
  PROVE  /\ o.owner \in (1..MaxUID) \cup {None, Other}
         /\ o.replicas \in Replicas \cup {0} /\ o.replicas \in Nat /\ o.ready \in Nat
         /\ \A n \in Nat : /\ [o EXCEPT !.ready = n] \in Object
                           /\ [o EXCEPT !.ready = n].owner = o.owner
                           /\ [o EXCEPT !.ready = n].replicas = o.replicas
                           /\ [o EXCEPT !.ready = n].ready = n
         /\ [o EXCEPT !.replicas = 0] \in Object
         /\ [o EXCEPT !.replicas = 0].replicas = 0
         /\ [o EXCEPT !.replicas = 0].owner = o.owner
         /\ [o EXCEPT !.replicas = 0].ready = o.ready
  BY ControllerAssumption DEF Object

\* The fields of a CSMS resource.
LEMMA CSMSFields ==
  ASSUME NEW c \in CSMS
  PROVE  /\ c.uid \in 1..MaxUID /\ c.generation \in Nat \ {0} /\ c.spec \in CSMSSpec
         /\ c.spec.replicas \in Replicas /\ c.spec.wants \subseteq Optional
  BY DEF CSMS, CSMSSpec

\* The API server counts the generation up with every change of the spec.
LEMMA NextGeneration ==
  ASSUME NEW c \in CSMS, NEW spec \in CSMSSpec
  PROVE  /\ [c EXCEPT !.generation = @ + 1, !.spec = spec] \in CSMS
         /\ [c EXCEPT !.generation = @ + 1, !.spec = spec].generation = c.generation + 1
<1> DEFINE d == [c EXCEPT !.generation = @ + 1]
<1>1. d \in CSMS /\ d.generation = c.generation + 1
  BY DEF CSMS
<1>2. [c EXCEPT !.generation = @ + 1, !.spec = spec] = [d EXCEPT !.spec = spec]
  BY DEF CSMS
<1> HIDE DEF d
<1>3. [d EXCEPT !.spec = spec] \in CSMS /\ [d EXCEPT !.spec = spec].generation = d.generation
  BY <1>1 DEF CSMS
<1> QED  BY <1>1, <1>2, <1>3, Zenon

\* What CreateOrUpdate writes is an object of the operator's.
LEMMA DesiredObject ==
  ASSUME TypeOK, at # 0, NEW o \in Object
  PROVE  /\ Desired(o) \in Object /\ Desired(o).owner # Other
         /\ Desired(o).ready = o.ready
<1>1. seen \in CSMS
  BY DEF TypeOK
<1>2. seen.uid \in 1..MaxUID /\ seen.spec.replicas \in Replicas
  BY <1>1, CSMSFields
<1> QED  BY <1>2, DistinctAssumption, Zenon DEF Desired, Object
-----------------------------------------------------------------------------
\* Nothing exists before the first resource is created.
LEMMA InitController == Init => ControllerInv
<1> SUFFICES ASSUME Init PROVE ControllerInv
  OBVIOUS
<1>1. TypeOK
  <2>1. /\ status \in CSMSStatus /\ ready \in Nat
        /\ uid \in 0..MaxUID /\ edits \in 0..MaxTroubles /\ faults \in 0..MaxTroubles
        /\ at \in 0..(Len(Order) + 1)
    BY Steps, ControllerAssumption DEF Init, CSMSStatus, Unreported
  <2>2. /\ obj \in [Kind -> Object \cup {None}] /\ cache \in [Kind -> Object \cup {None}]
        /\ stale \subseteq Kind \cup {"csms"} /\ owed \subseteq Kind
        /\ queued \in BOOLEAN /\ outdated \in BOOLEAN
    BY Zenon DEF Init
  <2>3. csms = None /\ csmsCache = None /\ seen = None /\ at = 0
    BY DEF Init
  <2> QED  BY <2>1, <2>2, <2>3 DEF TypeOK
<1>2. CacheInv /\ SeenInv /\ StatusInv /\ OthersInv
  BY DEF Init, CacheInv, SeenInv, StatusInv, OthersInv
<1> QED  BY <1>1, <1>2 DEF ControllerInv

\* A user creates the resource: its status is empty.
LEMMA CreateKeeps ==
  ASSUME ControllerInv, Create
  PROVE  ControllerInv'
<1>1. PICK spec \in CSMSSpec : csms' = [uid |-> uid + 1, generation |-> 1, spec |-> spec]
  BY DEF Create
<1>2. csms' \in CSMS /\ csms'.generation = 1 /\ uid' \in 0..MaxUID
  BY <1>1, Bounds DEF CSMS, Create, ControllerInv
<1>3. status' \in CSMSStatus /\ status'.observed = 0
  BY DEF Create, Unreported, CSMSStatus
<1>4. TypeOK'
  BY <1>2, <1>3 DEF ControllerInv, TypeOK, Create, Replaced
<1>5. CacheInv' /\ SeenInv' /\ OthersInv'
  BY DEF ControllerInv, TypeOK, CacheInv, SeenInv, OthersInv, Create, Replaced
<1>6. StatusInv'
  BY <1>2, <1>3 DEF StatusInv
<1> QED  BY <1>4, <1>5, <1>6 DEF ControllerInv

\* A user changes or deletes the resource.
LEMMA EditKeeps ==
  ASSUME ControllerInv, ChangeSpec \/ DeleteCSMS
  PROVE  ControllerInv'
<1>1. TypeOK /\ CacheInv /\ SeenInv /\ StatusInv /\ OthersInv
  BY DEF ControllerInv
<1>2. csms # None /\ Replaced /\ Edit /\ UNCHANGED <<status, obj>>
  BY Zenon DEF ChangeSpec, DeleteCSMS
<1>3. csms \in CSMS /\ status \in CSMSStatus
  BY <1>1, <1>2 DEF TypeOK
<1>4. csms.generation \in Nat /\ csms.spec \in CSMSSpec
  BY <1>3, CSMSFields, Zenon
<1>5. csms' \in CSMS \cup {None} /\ (csms' # None => csms'.generation = csms.generation + 1)
  <2>1. CASE DeleteCSMS
    BY <2>1 DEF DeleteCSMS
  <2>2. CASE ChangeSpec
    <3>1. PICK spec \in CSMSSpec :
            csms' = [csms EXCEPT !.generation = @ + 1, !.spec = spec]
      BY <2>2, Zenon DEF ChangeSpec
    <3> QED  BY <1>3, <3>1, NextGeneration, Zenon
  <2> QED  BY <2>1, <2>2, Zenon
<1>6. edits' \in 0..MaxTroubles /\ UNCHANGED <<uid, faults>>
  <2>1. edits + faults < MaxTroubles /\ edits' = edits + 1 /\ UNCHANGED <<uid, faults>>
    BY <1>2 DEF Edit
  <2> QED  BY <1>1, <2>1, Bounds
<1>7. TypeOK'
  BY <1>1, <1>2, <1>5, <1>6 DEF TypeOK, Replaced
<1>8. CacheInv' /\ SeenInv' /\ OthersInv'
  BY <1>1, <1>2, Zenon DEF TypeOK, CacheInv, SeenInv, OthersInv, Replaced
<1>9. StatusInv'
  <2>1. status.observed \in Nat /\ status.observed <= csms.generation
    BY <1>1, <1>2, <1>3 DEF StatusInv, CSMSStatus
  <2> QED  BY <1>2, <1>4, <1>5, <2>1 DEF StatusInv
<1> QED  BY <1>7, <1>8, <1>9, Zenon DEF ControllerInv

\* Somebody else changes an object, its Pods come up, or it is collected.
LEMMA OutsideKeeps ==
  ASSUME ControllerInv, NEW k \in Kind, NEW o \in Object \cup {None}, Changed(k, o),
         o # None /\ o.owner = Other => o.replicas = 0 /\ o.ready = 0,
         UNCHANGED <<csms, status, csmsCache, cache, workVars, uid, faults>>,
         edits' \in 0..MaxTroubles
  PROVE  ControllerInv'
<1>1. TypeOK /\ CacheInv /\ SeenInv /\ StatusInv /\ OthersInv
  BY DEF ControllerInv
<1>2. TypeOK'
  <2>1. /\ obj' \in [Kind -> Object \cup {None}]
        /\ stale' \subseteq Kind \cup {"csms"} /\ owed' \subseteq Kind
    BY <1>1, ChangedEffect
  <2> QED  BY <1>1, <2>1 DEF TypeOK, workVars
<1>3. CacheInv'
  BY <1>1, ChangedKeepsCache
<1>4. OthersInv'
  BY <1>1, ChangedKeepsOthers
<1>5. SeenInv' /\ StatusInv'
  BY <1>1 DEF SeenInv, StatusInv, workVars
<1> QED  BY <1>2, <1>3, <1>4, <1>5 DEF ControllerInv

\* Pods fail or come up, an object is collected or changed by hand.
LEMMA ObjectsKeep ==
  ASSUME ControllerInv, NEW k \in Kind, Drift(k) \/ Collect(k) \/ Rollout
  PROVE  ControllerInv'
<1>1. TypeOK /\ OthersInv /\ obj \in [Kind -> Object \cup {None}] /\ edits \in 0..MaxTroubles
  BY DEF ControllerInv, TypeOK
<1>2. CASE Drift(k)
  <2>1. PICK o \in IF obj[k] = None THEN Foreign(k)
                   ELSE {None, [obj[k] EXCEPT !.replicas = 0], [obj[k] EXCEPT !.ready = 0]} :
          Changed(k, o)
    BY <1>2, Zenon DEF Drift
  <2>2. /\ edits + faults < MaxTroubles /\ edits' = edits + 1
        /\ UNCHANGED <<csms, status, csmsCache, cache, workVars, uid, faults>>
    BY <1>2, Zenon DEF Drift, Edit
  <2>3. edits' \in 0..MaxTroubles
    BY <1>1, <2>2, Bounds
  <2>4. o \in Object \cup {None} /\ (o # None /\ o.owner = Other => o.replicas = 0 /\ o.ready = 0)
    <3>1. CASE obj[k] = None
      <4>1. o \in Foreign(k)
        BY <2>1, <3>1, Zenon
      <4> DEFINE S == IF k = Deployment THEN BOOLEAN ELSE {TRUE}
      <4>2. S \subseteq BOOLEAN
        BY Zenon
      <4>3. o \in [owner : {None, Other}, replicas : {0}, ready : {0}, selects : S]
        BY <4>1, Zenon DEF Foreign
      <4> HIDE DEF S
      <4>4. o \in [owner : {None, Other}, replicas : {0}, ready : {0}, selects : BOOLEAN]
        BY <4>2, <4>3
      <4>5. o \in Object
        BY <4>4 DEF Object
      <4>6. o.replicas = 0 /\ o.ready = 0
        BY <4>4
      <4> QED  BY <4>5, <4>6, Zenon
    <3>2. CASE obj[k] # None
      <4>1. obj[k] \in Object /\ (obj[k].owner = Other => obj[k].replicas = 0 /\ obj[k].ready = 0)
        BY <1>1, <3>2 DEF OthersInv
      <4>2. o = None \/ o = [obj[k] EXCEPT !.replicas = 0] \/ o = [obj[k] EXCEPT !.ready = 0]
        BY <2>1, <3>2, Zenon
      <4>3. CASE o = [obj[k] EXCEPT !.replicas = 0]
        BY <4>1, <4>3, ObjectFields, Zenon
      <4>4. CASE o = [obj[k] EXCEPT !.ready = 0]
        <5>1. o \in Object /\ o.owner = obj[k].owner /\ o.replicas = obj[k].replicas /\ o.ready = 0
          BY <4>1, <4>4, ObjectFields, Zenon
        <5> QED  BY <4>1, <5>1, Zenon
      <4> QED  BY <4>2, <4>3, <4>4, Zenon
    <3> QED  BY <3>1, <3>2, Zenon
  <2> QED  BY <2>1, <2>2, <2>3, <2>4, OutsideKeeps, Zenon
<1>3. CASE Collect(k)
  <2>1. Changed(k, None) /\ UNCHANGED <<csms, status, csmsCache, cache, workVars, boundVars>>
    BY <1>3, Zenon DEF Collect
  <2> QED  BY <1>1, <2>1, OutsideKeeps, Zenon DEF boundVars
<1>4. CASE Rollout
  <2> DEFINE d == obj[Deployment]
             o == [d EXCEPT !.ready = d.replicas]
  <2>1. /\ d # None /\ Changed(Deployment, o)
        /\ UNCHANGED <<csms, status, csmsCache, cache, workVars, boundVars>>
    BY <1>4, Zenon DEF Rollout
  <2>2. Deployment \in Kind
    BY ControllerAssumption
  <2>3. d \in Object /\ (d.owner = Other => d.replicas = 0)
    BY <1>1, <2>1, <2>2 DEF OthersInv
  <2>4. d.replicas \in Nat
    BY <2>3, ObjectFields, Zenon
  <2>5. o \in Object /\ o.owner = d.owner /\ o.replicas = d.replicas /\ o.ready = d.replicas
    BY <2>3, <2>4, ObjectFields, ZenonT(60)
  <2> HIDE DEF d, o
  <2> QED  BY <1>1, <2>1, <2>2, <2>3, <2>5, OutsideKeeps, Zenon DEF boundVars
<1> QED  BY <1>2, <1>3, <1>4, Zenon
-----------------------------------------------------------------------------
\* Reconcile returns, or the operator ends: nothing of it is left.
LEMMA ReturnEffect ==
  ASSUME Return
  PROVE  /\ at' = 0 /\ at' \in 0..(Len(Order) + 1) /\ seen' = None /\ outdated' \in BOOLEAN
         /\ ready' \in Nat
<1>1. 0 \in Nat /\ 0 \in 0..(Len(Order) + 1)
  BY Steps
<1> QED  BY <1>1, Zenon DEF Return

\* The watch delivers; the operator lists everything when it starts.
LEMMA CacheKeeps ==
  ASSUME ControllerInv, NEW k \in Kind, Sync(k) \/ SyncCSMS \/ OperatorRestarts
  PROVE  ControllerInv'
<1>1. TypeOK /\ CacheInv /\ SeenInv /\ StatusInv /\ OthersInv
  BY DEF ControllerInv
<1>2. CASE Sync(k)
  <2>1. TypeOK'
    BY <1>1, <1>2 DEF TypeOK, Sync, serverVars, boundVars
  <2>2. CacheInv'
    BY <1>1, <1>2 DEF CacheInv, TypeOK, Sync, serverVars
  <2>3. SeenInv' /\ StatusInv' /\ OthersInv'
    BY <1>1, <1>2 DEF SeenInv, StatusInv, OthersInv, Sync, serverVars
  <2> QED  BY <2>1, <2>2, <2>3, Zenon DEF ControllerInv
<1>3. CASE SyncCSMS
  <2>1. TypeOK'
    BY <1>1, <1>3 DEF TypeOK, SyncCSMS, serverVars, boundVars
  <2>2. CacheInv'
    BY <1>1, <1>3, DistinctAssumption DEF CacheInv, SyncCSMS, serverVars
  <2>3. SeenInv' /\ StatusInv' /\ OthersInv'
    BY <1>1, <1>3 DEF SeenInv, StatusInv, OthersInv, SyncCSMS, serverVars
  <2> QED  BY <2>1, <2>2, <2>3, Zenon DEF ControllerInv
<1>4. CASE OperatorRestarts
  <2>1. faults' \in 0..MaxTroubles
    BY <1>1, <1>4, Bounds DEF OperatorRestarts
  <2>2. TypeOK'
    <3>1. /\ at' = 0 /\ at' \in 0..(Len(Order) + 1) /\ seen' = None /\ outdated' \in BOOLEAN
          /\ ready' \in Nat
      BY <1>4, ReturnEffect, Zenon DEF OperatorRestarts
    <3>2. /\ queued' \in BOOLEAN /\ stale' \subseteq Kind \cup {"csms"} /\ owed' \subseteq Kind
          /\ csmsCache' = csms /\ cache' = obj /\ UNCHANGED <<csms, status, obj, uid, edits>>
      BY <1>4, Zenon DEF OperatorRestarts, serverVars
    <3> QED  BY <1>1, <2>1, <3>1, <3>2, Zenon DEF TypeOK
  <2>3. CacheInv' /\ SeenInv' /\ StatusInv' /\ OthersInv'
    BY <1>1, <1>4 DEF CacheInv, SeenInv, StatusInv, OthersInv, OperatorRestarts, Return, serverVars
  <2> QED  BY <2>2, <2>3, Zenon DEF ControllerInv
<1> QED  BY <1>2, <1>3, <1>4, Zenon

\* Reconcile starts with the resource in the cache.
LEMMA BeginKeeps ==
  ASSUME ControllerInv, Begin
  PROVE  ControllerInv'
<1>1. TypeOK /\ CacheInv /\ SeenInv /\ StatusInv /\ OthersInv
  BY DEF ControllerInv
<1>2. UNCHANGED <<serverVars, cacheVars, ready, boundVars>> /\ queued' = FALSE
  BY DEF Begin
<1>3. /\ at' \in 0..(Len(Order) + 1) /\ seen' \in CSMS \cup {None}
      /\ (at' = 0 <=> seen' = None) /\ outdated' \in BOOLEAN
  <2>1. CASE csmsCache = None
    BY <1>1, <2>1, Zenon DEF TypeOK, Begin
  <2>2. CASE csmsCache # None
    <3>1. at' = 1 /\ seen' = csmsCache /\ outdated' = ("csms" \in stale)
      BY <2>2, Zenon DEF Begin
    <3>2. at' \in 0..(Len(Order) + 1) /\ at' # 0
      BY <3>1, Steps
    <3>3. csmsCache \in CSMS \cup {None}
      BY <1>1, Zenon DEF TypeOK
    <3>4. seen' \in CSMS \cup {None} /\ seen' # None
      BY <2>2, <3>1, <3>3, Zenon
    <3>5. outdated' \in BOOLEAN
      BY <3>1
    <3> QED  BY <3>2, <3>4, <3>5, Zenon
  <2> QED  BY <2>1, <2>2, Zenon
<1>4. TypeOK'
  BY <1>1, <1>2, <1>3, Zenon DEF TypeOK, serverVars, cacheVars, boundVars
<1>5. SeenInv'
  BY <1>1, <1>2, Zenon DEF Begin, SeenInv, CacheInv, serverVars
<1>6. CacheInv' /\ StatusInv' /\ OthersInv'
  BY <1>1, <1>2 DEF CacheInv, StatusInv, OthersInv, serverVars, cacheVars
<1> QED  BY <1>4, <1>5, <1>6, Zenon DEF ControllerInv

\* Reconcile returns: with the resource it forgets what it has read of it.
LEMMA ReturnKeeps ==
  ASSUME ControllerInv, Return, queued' \in BOOLEAN,
         stale' \subseteq Kind \cup {"csms"}, stale \subseteq stale',
         status' \in CSMSStatus, csms # None => status'.observed <= csms.generation,
         UNCHANGED <<csms, obj, csmsCache, cache, owed, uid, edits>>, faults' \in 0..MaxTroubles
  PROVE  ControllerInv'
<1>1. TypeOK /\ CacheInv /\ SeenInv /\ StatusInv /\ OthersInv
  BY DEF ControllerInv
<1>2. TypeOK'
  BY <1>1, ReturnEffect, Zenon DEF TypeOK
<1>3. CacheInv'
  BY <1>1 DEF CacheInv
<1>4. SeenInv' /\ StatusInv' /\ OthersInv'
  BY <1>1 DEF SeenInv, StatusInv, OthersInv, Return
<1> QED  BY <1>2, <1>3, <1>4, Zenon DEF ControllerInv

\* Reconcile goes on after a call on an object of kind k: it has written o, has
\* left the object as it is, or has deleted it.
LEMMA ContinueKeeps ==
  ASSUME ControllerInv, NEW k \in Kind, NEW o \in Object \cup {None}, Changed(k, o),
         o # None => o.owner # Other \/ o = obj[k],
         at \in DOMAIN Order, Continue, ready' \in Nat,
         UNCHANGED <<csms, status, csmsCache, cache, boundVars>>
  PROVE  ControllerInv'
<1>1. TypeOK /\ CacheInv /\ SeenInv /\ StatusInv /\ OthersInv
  BY DEF ControllerInv
<1>2. TypeOK'
  <2>1. /\ obj' \in [Kind -> Object \cup {None}]
        /\ stale' \subseteq Kind \cup {"csms"} /\ owed' \subseteq Kind
    BY <1>1, ChangedEffect, Zenon
  <2>2. UNCHANGED <<queued, seen, outdated>> /\ at' = at + 1
    BY DEF Continue
  <2>3. at' \in 0..(Len(Order) + 1) /\ at' # 0 /\ at # 0
    BY <2>2, Steps
  <2> QED  BY <1>1, <2>1, <2>2, <2>3, Zenon DEF TypeOK, boundVars
<1>3. CacheInv'
  BY <1>1, ChangedKeepsCache, Zenon
<1>4. OthersInv'
  <2>1. o # None /\ o.owner = Other => o.replicas = 0 /\ o.ready = 0
    BY <1>1, Zenon DEF OthersInv
  <2> QED  BY <1>1, <2>1, ChangedKeepsOthers, Zenon
<1>5. SeenInv' /\ StatusInv'
  <2>1. at # 0
    BY Steps
  <2> QED  BY <1>1, <2>1, Zenon DEF SeenInv, StatusInv, Continue
<1> QED  BY <1>2, <1>3, <1>4, <1>5, Zenon DEF ControllerInv

\* Reconcile gives up: it has changed nothing with the call that failed.
LEMMA GiveUpKeeps ==
  ASSUME ControllerInv, GiveUp, UNCHANGED <<csmsCache, cache, uid, edits>>, faults' \in 0..MaxTroubles
  PROVE  ControllerInv'
<1>1. Return /\ queued' = TRUE /\ UNCHANGED <<csms, status, obj, stale, owed>>
  BY Zenon DEF GiveUp, serverVars
<1>2. /\ status \in CSMSStatus /\ stale \subseteq Kind \cup {"csms"}
      /\ csms # None => status.observed <= csms.generation
  BY Zenon DEF ControllerInv, TypeOK, StatusInv
<1> QED  BY <1>1, <1>2, ReturnKeeps, Zenon
-----------------------------------------------------------------------------
\* One call of Reconcile on an object.  An object it changes it has made or read
\* at its current version; it does not put anything into another controller's.
LEMMA CallEffect ==
  ASSUME ControllerInv, at \in DOMAIN Order, NEW k \in Kind, ReconcileObject(k)
  PROVE  \/ GiveUp
         \/ /\ Continue /\ ready' \in Nat /\ UNCHANGED <<csms, status>>
            /\ \E o \in Object \cup {None} :
                 /\ Changed(k, o)
                 /\ o = obj[k] \/ o = None \/ (o.owner # Other /\ (obj[k] = None \/ obj[k].owner # Other))
<1>1. /\ TypeOK /\ CacheInv /\ obj \in [Kind -> Object \cup {None}]
      /\ cache \in [Kind -> Object \cup {None}] /\ ready \in Nat
  BY Zenon DEF ControllerInv, TypeOK
<1>2. at # 0
  BY Steps
<1>3. CASE CreateObject(k)
  <2>1. CASE obj[k] = None /\ Write(k, Desired(NewObject))
    <3>1. NewObject \in Object
      BY DEF NewObject, Object
    <3>2. Desired(NewObject) \in Object /\ Desired(NewObject).owner # Other
      BY <1>1, <1>2, <3>1, DesiredObject, Zenon
    <3>3. /\ Changed(k, Desired(NewObject)) /\ Continue /\ UNCHANGED <<csms, status>>
          /\ ready' = Desired(NewObject).ready \/ ready' = ready
      BY <2>1, Zenon DEF Write
    <3>4. ready' \in Nat
      BY <1>1, <3>2, <3>3, ObjectFields, Zenon
    <3> QED  BY <2>1, <3>2, <3>3, <3>4, Zenon
  <2> QED  BY <1>3, <2>1, Zenon DEF CreateObject
<1>4. CASE UpdateObject(k)
  <2>1. cache[k] \in Object
    BY <1>1, <1>4, Zenon DEF UpdateObject
  <2>2. CASE ~Refused(k) /\ k \notin stale /\ Write(k, Desired(cache[k]))
    <3>1. cache[k] = obj[k] /\ obj[k].owner # Other
      BY <1>1, <2>2, Zenon DEF CacheInv, Refused
    <3>2. Desired(cache[k]) \in Object /\ Desired(cache[k]).owner # Other
      BY <1>1, <1>2, <2>1, DesiredObject, Zenon
    <3>3. /\ Changed(k, Desired(cache[k])) /\ Continue /\ UNCHANGED <<csms, status>>
          /\ ready' = Desired(cache[k]).ready \/ ready' = ready
      BY <2>2, Zenon DEF Write
    <3>4. ready' \in Nat
      BY <1>1, <3>2, <3>3, ObjectFields, Zenon
    <3> QED  BY <3>1, <3>2, <3>3, <3>4, Zenon
  <2>3. CASE /\ ready' = IF k = Deployment THEN cache[k].ready ELSE ready
             /\ Continue /\ UNCHANGED <<serverVars, stale, owed>>
    <3>1. ready' \in Nat
      BY <1>1, <2>1, <2>3, ObjectFields, Zenon
    <3>2. Changed(k, obj[k])
      <4>1. obj' = [obj EXCEPT ![k] = obj[k]]
        BY <1>1, <2>3 DEF serverVars
      <4> QED  BY <2>3, <4>1, Zenon DEF Changed
    <3>3. obj[k] \in Object \cup {None}
      BY <1>1
    <3> QED  BY <2>3, <3>1, <3>2, <3>3, Zenon DEF serverVars
  <2> QED  BY <1>4, <2>2, <2>3, Zenon DEF UpdateObject
<1>5. CASE DeleteObject(k)
  BY <1>1, <1>5, Zenon DEF DeleteObject
<1> QED  BY <1>3, <1>4, <1>5, Zenon DEF ReconcileObject

\* The status is written to the version Reconcile has read, so the generation it
\* reports is that of the resource.
LEMMA StatusEffect ==
  ASSUME ControllerInv, at = Len(Order) + 1, UpdateStatus
  PROVE  \/ GiveUp
         \/ /\ Return /\ csms \in CSMS /\ status' \in CSMSStatus
            /\ status'.observed = csms.generation
            /\ stale' = stale \/ stale' = stale \cup {"csms"}
            /\ UNCHANGED <<csms, obj, queued, owed>>
<1>1. TypeOK /\ SeenInv /\ at # 0
  BY Steps DEF ControllerInv
<1>2. seen \in CSMS /\ ready \in Nat
  BY <1>1, Zenon DEF TypeOK
<1>3. Report \in CSMSStatus /\ Report.observed = seen.generation
  <2>1. seen.generation \in Nat
    BY <1>2, CSMSFields
  <2> QED  BY <1>2, <2>1 DEF Report, CSMSStatus
<1>4. CASE ~outdated
  <2>1. csms = seen
    BY <1>1, <1>4, Zenon DEF SeenInv
  <2> QED  BY <1>2, <1>3, <1>4, <2>1, Zenon DEF UpdateStatus
<1> QED  BY <1>4, Zenon DEF UpdateStatus

\* A step of Reconcile, or a call of it that fails.
LEMMA ReconcileStepKeeps ==
  ASSUME ControllerInv, Step \/ CallFails
  PROVE  ControllerInv'
<1>1. TypeOK /\ faults \in 0..MaxTroubles
  BY Zenon DEF ControllerInv, TypeOK
<1>2. CASE at \in DOMAIN Order /\ ReconcileObject(Order[at])
  <2>1. Order[at] \in Kind
    BY <1>2, Steps, Zenon
  <2>2. UNCHANGED <<csmsCache, cache, boundVars>>
    BY <1>2, Zenon DEF ReconcileObject
  <2> DEFINE k == Order[at]
  <2>3. \/ GiveUp
        \/ /\ Continue /\ ready' \in Nat /\ UNCHANGED <<csms, status>>
           /\ \E o \in Object \cup {None} :
                Changed(k, o) /\ (o = obj[k] \/ o = None \/ o.owner # Other)
    BY <1>2, <2>1, CallEffect, Zenon
  <2>4. CASE GiveUp
    BY <1>1, <2>2, <2>4, GiveUpKeeps, Zenon DEF boundVars
  <2>5. CASE ~GiveUp
    BY <1>2, <2>1, <2>2, <2>3, <2>5, ContinueKeeps, Zenon
  <2> QED  BY <2>4, <2>5, Zenon
<1>3. CASE at = Len(Order) + 1 /\ UpdateStatus
  <2>1. UNCHANGED <<csmsCache, cache, boundVars>>
    BY <1>3, Zenon DEF UpdateStatus
  <2>2. CASE GiveUp
    BY <1>1, <2>1, <2>2, GiveUpKeeps, Zenon DEF boundVars
  <2>3. CASE ~GiveUp
    <3>1. /\ Return /\ csms \in CSMS /\ status' \in CSMSStatus
          /\ status'.observed = csms.generation
          /\ stale' = stale \/ stale' = stale \cup {"csms"}
          /\ UNCHANGED <<csms, obj, queued, owed>>
      BY <1>3, <2>3, StatusEffect, Zenon
    <3>2. status'.observed <= csms.generation
      <4>1. csms.generation \in Nat
        BY <3>1, CSMSFields
      <4> QED  BY <3>1, <4>1
    <3>3. /\ stale \subseteq stale' /\ stale' \subseteq Kind \cup {"csms"} /\ queued' \in BOOLEAN
      BY <1>1, <3>1, Zenon DEF TypeOK
    <3> QED  BY <1>1, <2>1, <3>1, <3>2, <3>3, ReturnKeeps, Zenon DEF boundVars
  <2> QED  BY <2>2, <2>3, Zenon
<1>4. CASE CallFails
  <2>1. GiveUp /\ UNCHANGED <<csmsCache, cache, uid, edits>>
    BY <1>4, Zenon DEF CallFails
  <2>2. faults' \in 0..MaxTroubles
    BY <1>1, <1>4, Bounds DEF CallFails
  <2> QED  BY <2>1, <2>2, GiveUpKeeps, Zenon
<1> QED  BY <1>2, <1>3, <1>4, Zenon DEF Step
-----------------------------------------------------------------------------
\* Every step, of whichever actor, keeps the invariant.
LEMMA ControllerInvariance == Spec => []ControllerInv
<1>1. ControllerInv /\ [Next]_vars => ControllerInv'
  <2> SUFFICES ASSUME ControllerInv, [Next]_vars PROVE ControllerInv'
    OBVIOUS
  <2>1. CASE UNCHANGED vars
    <3>1. TypeOK' <=> TypeOK
      BY <2>1, Zenon DEF vars, serverVars, cacheVars, workVars, boundVars, TypeOK
    <3>2. (CacheInv' <=> CacheInv) /\ (SeenInv' <=> SeenInv) /\ (StatusInv' <=> StatusInv)
          /\ (OthersInv' <=> OthersInv)
      BY <2>1, Zenon DEF vars, serverVars, cacheVars, workVars, CacheInv, SeenInv, StatusInv, OthersInv
    <3> QED  BY <3>1, <3>2, Zenon DEF ControllerInv
  <2>2. Deployment \in Kind
    BY ControllerAssumption, Zenon
  <2>3. CASE Next
    BY <2>2, <2>3, CreateKeeps, EditKeeps, ObjectsKeep, CacheKeeps, BeginKeeps,
       ReconcileStepKeeps, Zenon DEF Next
  <2> QED  BY <2>1, <2>3, Zenon
<1> QED  BY <1>1, InitController, PTL DEF Spec

\* The types hold, and Reconcile works on a resource it has found.
THEOREM Types == Spec => []TypeOK
<1>1. ControllerInv => TypeOK
  BY DEF ControllerInv
<1> QED  BY <1>1, ControllerInvariance, PTL

\* A Reconcile, however late its cache, leaves the objects alone that another
\* controller controls, but for those it deletes by name.
THEOREM OthersNotOverwrittenAlways == Spec => OthersNotOverwritten
<1> DEFINE Left == \A k \in Kind :
                     obj[k] # None /\ obj[k].owner = Other /\ edits' = edits
                       => obj'[k] = obj[k] \/ obj'[k] = None
<1>1. ControllerInv /\ [Next]_vars => [Left]_vars
  <2> SUFFICES ASSUME ControllerInv, Next, NEW k \in Kind,
                      obj[k] # None, obj[k].owner = Other, edits' = edits
               PROVE  obj'[k] = obj[k] \/ obj'[k] = None
    BY Zenon
  <2>1. TypeOK /\ OthersInv /\ edits \in Nat
    BY Bounds DEF ControllerInv
  <2>2. ASSUME NEW j \in Kind, NEW o \in Object \cup {None}, Changed(j, o),
               j = k => o = obj[k] \/ o = None
        PROVE  obj'[k] = obj[k] \/ obj'[k] = None
    BY <2>1, <2>2, ChangedEffect, Zenon
  <2>3. CASE UNCHANGED obj
    BY <2>3, Zenon
  <2>4. ASSUME NEW j \in Kind, Drift(j) PROVE FALSE
    BY <2>1, <2>4 DEF Drift, Edit
  <2>5. ASSUME NEW j \in Kind, Collect(j) PROVE obj'[k] = obj[k] \/ obj'[k] = None
    BY <2>2, <2>5, Zenon DEF Collect
  <2>6. CASE Rollout
    <3> DEFINE d == obj[Deployment]
               o == [d EXCEPT !.ready = d.replicas]
    <3>1. d # None /\ d.ready # d.replicas /\ Changed(Deployment, o)
      BY <2>6, Zenon DEF Rollout
    <3>2. Deployment \in Kind
      BY ControllerAssumption, Zenon
    <3>3. d \in Object /\ Deployment # k
      BY <2>1, <3>1, <3>2, Zenon DEF TypeOK, OthersInv
    <3>4. o \in Object
      BY <3>3, ObjectFields, Zenon
    <3> HIDE DEF o, d
    <3> QED  BY <2>2, <3>1, <3>2, <3>3, <3>4, Zenon
  <2>7. CASE at \in DOMAIN Order /\ ReconcileObject(Order[at])
    <3>1. Order[at] \in Kind
      BY <2>7, Steps, Zenon
    <3>2. CASE GiveUp
      BY <2>3, <3>2, Zenon DEF GiveUp, serverVars
    <3>3. CASE ~GiveUp
      BY <2>2, <2>7, <3>1, <3>3, CallEffect, Zenon
    <3> QED  BY <3>2, <3>3, Zenon
  <2>8. ASSUME Create \/ ChangeSpec \/ DeleteCSMS \/ SyncCSMS \/ Begin \/ UpdateStatus
               \/ CallFails \/ OperatorRestarts \/ \E j \in Kind : Sync(j)
        PROVE  UNCHANGED obj
    BY <2>8, Zenon DEF Create, ChangeSpec, DeleteCSMS, SyncCSMS, Begin, UpdateStatus, GiveUp,
       CallFails, OperatorRestarts, Sync, serverVars
  <2> QED  BY <2>3, <2>4, <2>5, <2>6, <2>7, <2>8, Zenon DEF Next, Step
<1>2. Spec => [][Left]_vars
  BY <1>1, ControllerInvariance, PTL DEF Spec
<1> QED  BY <1>2 DEF OthersNotOverwritten

\* ObservedGeneration is one this resource has had, and it does not go back while
\* the resource lives: a Reconcile that has read a resource since deleted, or an
\* earlier version of it, does not get to write the status.
THEOREM ObservedGenerationSoundAlways == Spec => ObservedGenerationSound
<1> DEFINE Sound == csms' # None => /\ status'.observed <= csms'.generation
                                    /\ csms # None => status'.observed >= status.observed
<1>1. ControllerInv /\ ControllerInv' /\ [Next]_vars => [Sound]_vars
  <2> SUFFICES ASSUME ControllerInv, ControllerInv', Next, csms' # None
               PROVE  /\ status'.observed <= csms'.generation
                      /\ csms # None => status'.observed >= status.observed
    BY Zenon
  <2>1. status'.observed <= csms'.generation
    BY Zenon DEF ControllerInv, StatusInv
  <2>2. ASSUME csms # None PROVE status'.observed >= status.observed
    <3>1. status.observed \in Nat /\ status.observed <= csms.generation
      BY <2>2 DEF ControllerInv, TypeOK, StatusInv, CSMSStatus
    <3>2. CASE UNCHANGED status
      BY <3>1, <3>2
    <3>3. CASE at = Len(Order) + 1 /\ UpdateStatus
      <4>1. CASE GiveUp
        BY <3>2, <4>1, Zenon DEF GiveUp, serverVars
      <4>2. CASE ~GiveUp
        <5>1. csms \in CSMS /\ status'.observed = csms.generation
          BY <3>3, <4>2, StatusEffect, Zenon
        <5>2. csms.generation \in Nat
          BY <5>1, CSMSFields
        <5> QED  BY <3>1, <5>1, <5>2
      <4> QED  BY <4>1, <4>2, Zenon
    <3>4. CASE at \in DOMAIN Order /\ ReconcileObject(Order[at])
      <4>1. Order[at] \in Kind
        BY <3>4, Steps, Zenon
      <4> QED  BY <3>2, <3>4, <4>1, CallEffect, Zenon DEF GiveUp, serverVars
    <3>5. ASSUME ChangeSpec \/ DeleteCSMS \/ Rollout \/ SyncCSMS \/ Begin \/ CallFails
                 \/ OperatorRestarts \/ \E k \in Kind : Drift(k) \/ Collect(k) \/ Sync(k)
          PROVE  UNCHANGED status
      BY <3>5, Zenon DEF ChangeSpec, DeleteCSMS, Rollout, SyncCSMS, Begin, CallFails, GiveUp,
         OperatorRestarts, Drift, Collect, Sync, serverVars
    <3>6. ~Create
      BY <2>2 DEF Create
    <3> QED  BY <3>2, <3>3, <3>4, <3>5, <3>6, Zenon DEF Next, Step
  <2> QED  BY <2>1, <2>2, Zenon
<1>2. Spec => [][Sound]_vars
  BY <1>1, ControllerInvariance, PTL DEF Spec
<1> QED  BY <1>2 DEF ObservedGenerationSound
=============================================================================
