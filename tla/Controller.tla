------------------------------ MODULE Controller ------------------------------
(***************************************************************************)
(* The operator, internal/controller: Reconcile brings the objects named   *)
(* after a CSMS resource in line with its spec, one call to the API server *)
(* after the other, and stops at the first that fails.  It reads from the  *)
(* manager's cache, which follows the API server late, and writes with the *)
(* version it has read.  Users edit, delete and re-create the resource and *)
(* the objects meanwhile; the operator may be restarted at any point.      *)
(* Of a spec the model keeps one number, the replicas, for everything that *)
(* is copied into the objects, and which optional objects it asks for.     *)
(***************************************************************************)
EXTENDS Naturals, Sequences

CONSTANTS Order,       \* the kinds of objects, in the order Reconcile visits them
          Optional,    \* the kinds a spec may do without
          Replicas,    \* numbers of replicas a spec may ask for
          None,
          Other,       \* a controller that is not this operator
          MaxUID,      \* bound: CSMS resources created, one after the other
          MaxTroubles  \* bound: changes by others, failing calls and
                       \* restarts of the operator

Deployment == "deployment"
Kind == {Order[i] : i \in DOMAIN Order}

ASSUME ControllerAssumption ==
  /\ Order \in Seq(STRING) /\ \A i, j \in DOMAIN Order : Order[i] = Order[j] => i = j
  /\ Optional \subseteq Kind \ {Deployment} /\ Deployment \in Kind
  /\ Replicas \subseteq Nat \ {0}
  /\ MaxUID \in Nat \ {0} /\ MaxTroubles \in Nat

VARIABLES csms, status,   \* the resource and its status, on the API server
          obj,            \* the objects of its name, on the API server
          csmsCache, cache, stale,   \* what the manager's cache holds, and of what
                                     \* it is not the current version
          owed,           \* objects with an event to come that is of the resource
          queued,         \* the resource is in the work queue
          at,             \* 0 or the step of Reconcile: an index of Order, and one more
          seen, outdated, \* the resource Reconcile has read, and whether it has
                          \* been changed since
          ready,          \* the ready replicas Reconcile has read
          uid, edits, faults

serverVars == <<csms, status, obj>>
cacheVars == <<csmsCache, cache, stale, owed>>
workVars == <<queued, at, seen, outdated, ready>>
boundVars == <<uid, edits, faults>>
vars == <<serverVars, cacheVars, workVars, boundVars>>

CSMSSpec == [replicas : Replicas, wants : SUBSET Optional]
CSMS == [uid : 1..MaxUID, generation : Nat \ {0}, spec : CSMSSpec]
CSMSStatus == [observed : Nat, ready : Nat, progressing : BOOLEAN]

\* An object: who controls it, what was copied into it (0: something no operator
\* writes), how many Pods of a Deployment are ready, and whether its selector, which
\* cannot be changed, is the one the operator writes (TRUE for the other kinds).
Object == [owner : (1..MaxUID) \cup {None, Other}, replicas : Replicas \cup {0},
           ready : Nat, selects : BOOLEAN]

ASSUME DistinctAssumption ==
  /\ None \notin CSMS \cup Object \cup (1..MaxUID)
  /\ Other \notin (1..MaxUID) \cup {None}
  /\ "csms" \notin Kind

\* Types; and Reconcile works on a resource it has found.
TypeOK ==
  /\ csms \in CSMS \cup {None} /\ csmsCache \in CSMS \cup {None} /\ seen \in CSMS \cup {None}
  /\ status \in CSMSStatus
  /\ obj \in [Kind -> Object \cup {None}] /\ cache \in [Kind -> Object \cup {None}]
  /\ stale \subseteq Kind \cup {"csms"} /\ owed \subseteq Kind
  /\ queued \in BOOLEAN /\ at \in 0..(Len(Order) + 1) /\ (at = 0 <=> seen = None)
  /\ outdated \in BOOLEAN
  /\ ready \in Nat
  /\ uid \in 0..MaxUID /\ edits \in 0..MaxTroubles /\ faults \in 0..MaxTroubles

Unreported == [observed |-> 0, ready |-> 0, progressing |-> FALSE]

\* An object somebody else has made under the name: by hand, or controlled.
Foreign(k) == [owner : {None, Other}, replicas : {0}, ready : {0},
               selects : IF k = Deployment THEN BOOLEAN ELSE {TRUE}]

Init ==
  /\ csms = None /\ status = Unreported /\ obj = [k \in Kind |-> None]
  /\ csmsCache = None /\ cache = obj /\ stale = {} /\ owed = {}
  /\ queued = FALSE /\ at = 0 /\ seen = None /\ outdated = FALSE /\ ready = 0
  /\ uid = 0 /\ edits = 0 /\ faults = 0
-----------------------------------------------------------------------------
Controlled(o) == o # None /\ o.owner \in 1..MaxUID

\* The API server takes the next version of an object, or deletes it.  Of the
\* versions the watch is to deliver those before and after the change matter:
\* SetupWithManager has the resource queued that controls one of them.
Changed(k, o) ==
  /\ obj' = [obj EXCEPT ![k] = o]
  /\ IF o = obj[k] THEN UNCHANGED <<stale, owed>>
     ELSE /\ stale' = stale \cup {k}
          /\ owed' = IF Controlled(o) \/ Controlled(obj[k]) THEN owed \cup {k} ELSE owed

\* Users.
Edit == edits + faults < MaxTroubles /\ edits' = edits + 1 /\ UNCHANGED <<uid, faults>>

\* What a new version of the resource makes out of date.
Replaced == /\ stale' = stale \cup {"csms"} /\ outdated' = (seen # None)
            /\ UNCHANGED <<csmsCache, cache, owed, queued, at, seen, ready>>

\* A CSMS resource is created, for the first time or again.
Create ==
  /\ csms = None /\ uid < MaxUID
  /\ \E spec \in CSMSSpec : csms' = [uid |-> uid + 1, generation |-> 1, spec |-> spec]
  /\ uid' = uid + 1
  /\ status' = Unreported
  /\ Replaced
  /\ UNCHANGED <<obj, edits, faults>>

ChangeSpec ==
  /\ csms # None
  /\ \E spec \in CSMSSpec \ {csms.spec} :
       csms' = [csms EXCEPT !.generation = @ + 1, !.spec = spec]
  /\ Replaced /\ Edit
  /\ UNCHANGED <<status, obj>>

DeleteCSMS ==
  /\ csms # None
  /\ csms' = None
  /\ Replaced /\ Edit
  /\ UNCHANGED <<status, obj>>

\* An object is created, changed or deleted by somebody else; Pods fail.
Drift(k) ==
  /\ \E o \in IF obj[k] = None THEN Foreign(k)
             ELSE {None, [obj[k] EXCEPT !.replicas = 0], [obj[k] EXCEPT !.ready = 0]} :
       o # obj[k] /\ Changed(k, o)
  /\ Edit
  /\ UNCHANGED <<csms, status, csmsCache, cache, workVars>>

\* The Deployment controller brings the Pods up or down.
Rollout ==
  /\ obj[Deployment] # None /\ obj[Deployment].ready # obj[Deployment].replicas
  /\ Changed(Deployment, [obj[Deployment] EXCEPT !.ready = obj[Deployment].replicas])
  /\ UNCHANGED <<csms, status, csmsCache, cache, workVars, boundVars>>

\* The garbage collector deletes an object whose controller is gone.
Collect(k) ==
  /\ obj[k] # None /\ obj[k].owner \in 1..MaxUID
  /\ csms # None => csms.uid # obj[k].owner
  /\ Changed(k, None)
  /\ UNCHANGED <<csms, status, csmsCache, cache, workVars, boundVars>>
-----------------------------------------------------------------------------
\* The cache catches up with an object.
Sync(k) ==
  /\ k \in stale \ {"csms"}
  /\ cache' = [cache EXCEPT ![k] = obj[k]]
  /\ stale' = stale \ {k} /\ owed' = owed \ {k}
  /\ queued' = (queued \/ k \in owed)
  /\ UNCHANGED <<serverVars, csmsCache, at, seen, outdated, ready, boundVars>>

\* The cache catches up with the resource.
SyncCSMS ==
  /\ "csms" \in stale
  /\ csmsCache' = csms
  /\ stale' = stale \ {"csms"}
  /\ queued' = TRUE
  /\ UNCHANGED <<serverVars, cache, owed, at, seen, outdated, ready, boundVars>>

\* Mutant: Reconcile does not return when the resource is gone.
BeginAnyway ==
  /\ at = 0 /\ queued
  /\ queued' = FALSE
  /\ at' = 1 /\ seen' = csmsCache /\ outdated' = ("csms" \in stale)
  /\ UNCHANGED <<ready, serverVars, cacheVars, boundVars>>

\* Reconcile starts: it returns at once if the resource is gone.
Begin ==
  /\ at = 0 /\ queued
  /\ queued' = FALSE
  /\ IF csmsCache = None
     THEN UNCHANGED <<at, seen, outdated>>
     ELSE at' = 1 /\ seen' = csmsCache /\ outdated' = ("csms" \in stale)
  /\ UNCHANGED <<ready, serverVars, cacheVars, boundVars>>

\* Reconcile goes on with its next call, or returns.
Continue == at' = at + 1 /\ UNCHANGED <<queued, seen, outdated>>
Return == at' = 0 /\ seen' = None /\ outdated' = FALSE /\ ready' = 0

\* Mutant: the error is dropped, and the resource is not queued again.
GiveUpForGood == Return /\ UNCHANGED <<queued, serverVars, stale, owed>>

\* It returns an error: the resource is queued again, after a delay.
GiveUp == Return /\ queued' = TRUE /\ UNCHANGED <<serverVars, stale, owed>>

\* What the functions given to CreateOrUpdate make of an object.
Desired(o) == [o EXCEPT !.owner = seen.uid, !.replicas = seen.spec.replicas]
NewObject == [owner |-> None, replicas |-> 0, ready |-> 0, selects |-> TRUE]

\* The API server takes a new version of an object; Reconcile keeps the status of
\* the Deployment it gets back.
Write(k, o) ==
  /\ Changed(k, o)
  /\ ready' = IF k = Deployment THEN o.ready ELSE ready
  /\ Continue
  /\ UNCHANGED <<csms, status>>

\* CreateOrUpdate of an object that is not in the cache: AlreadyExists if the
\* cache is late.
CreateObject(k) ==
  /\ cache[k] = None
  /\ \/ obj[k] = None /\ Write(k, Desired(NewObject))
     \/ obj[k] # None /\ GiveUp

\* SetControllerReference refuses what another controller controls, the API
\* server to change the selector of a Deployment.
Refused(k) == cache[k].owner = Other \/ ~cache[k].selects

\* Mutant: the object is written whatever its version.
UpdateObjectUnversioned(k) ==
  /\ cache[k] # None
  /\ \/ (Refused(k) \/ obj[k] = None) /\ GiveUp
     \/ ~Refused(k) /\ obj[k] # None /\ Write(k, Desired(obj[k]))

\* CreateOrUpdate of an object in the cache: an update, rejected if the version
\* read is not the current one.  There is none if the object read is as wanted,
\* unless it has fields the API server has filled in.
UpdateObject(k) ==
  /\ cache[k] # None
  /\ \/ (Refused(k) \/ k \in stale) /\ GiveUp
     \/ ~Refused(k) /\ k \notin stale /\ Write(k, Desired(cache[k]))
     \/ /\ ~Refused(k) /\ cache[k] = Desired(cache[k])
        /\ ready' = IF k = Deployment THEN cache[k].ready ELSE ready
        /\ Continue
        /\ UNCHANGED <<serverVars, stale, owed>>

\* Delete, by name: NotFound is no error.
DeleteObject(k) ==
  /\ Changed(k, None)
  /\ Continue
  /\ UNCHANGED <<csms, status, ready>>

\* reconcileConfigMap, reconcileService, reconcileDeployment,
\* reconcilePodDisruptionBudget, reconcileIngress.
ReconcileObject(k) ==
  /\ \/ k \notin Optional \ seen.spec.wants /\ (CreateObject(k) \/ UpdateObject(k))
     \/ k \in Optional \ seen.spec.wants /\ DeleteObject(k)
  /\ UNCHANGED <<csmsCache, cache, boundVars>>

Report == [observed |-> seen.generation, ready |-> ready,
           progressing |-> ready # seen.spec.replicas]

\* Mutant: the status is written to whatever resource has the name.
UpdateStatusUnversioned ==
  /\ csms # None
  /\ status' = Report
  /\ stale' = stale \cup {"csms"}
  /\ Return
  /\ UNCHANGED <<csms, obj, queued, csmsCache, cache, owed, boundVars>>

\* updateStatus: rejected if the resource was changed since Reconcile read it.
UpdateStatus ==
  /\ \/ outdated /\ GiveUp
     \/ /\ ~outdated
        /\ status' = Report
        /\ stale' = IF status' = status THEN stale ELSE stale \cup {"csms"}
        /\ Return
        /\ UNCHANGED <<csms, obj, queued, owed>>
  /\ UNCHANGED <<csmsCache, cache, boundVars>>

Step == \/ at \in DOMAIN Order /\ ReconcileObject(Order[at])
        \/ at = Len(Order) + 1 /\ UpdateStatus

\* A call to the API server fails.  (A call that took effect and lost its reply is
\* the call, then the next one failing.)
CallFails ==
  /\ at # 0 /\ edits + faults < MaxTroubles
  /\ faults' = faults + 1
  /\ GiveUp
  /\ UNCHANGED <<csmsCache, cache, uid, edits>>

\* The operator ends; the next leader lists everything and queues what it finds.
OperatorRestarts ==
  /\ edits + faults < MaxTroubles
  /\ faults' = faults + 1
  /\ Return
  /\ queued' = (csms # None)
  /\ csmsCache' = csms /\ cache' = obj /\ stale' = {} /\ owed' = {}
  /\ UNCHANGED <<serverVars, uid, edits>>

Next ==
  \/ Create \/ ChangeSpec \/ DeleteCSMS \/ Rollout
  \/ \E k \in Kind : Drift(k) \/ Collect(k) \/ Sync(k)
  \/ SyncCSMS \/ Begin \/ Step \/ CallFails \/ OperatorRestarts

Spec == Init /\ [][Next]_vars

\* The work queue is served and its calls return, the watches deliver, the garbage
\* collector runs.
FairSpec ==
  /\ Spec
  /\ WF_vars(Begin) /\ WF_vars(Step) /\ WF_vars(SyncCSMS)
  /\ \A k \in Kind : WF_vars(Sync(k)) /\ WF_vars(Collect(k))
-----------------------------------------------------------------------------
\* Something Reconcile can never bring in line is in its way: an object another
\* controller controls, or a Deployment made by hand with a selector of its own.
Obstructed ==
  \E k \in Kind : obj[k] # None /\ (obj[k].owner = Other \/ ~obj[k].selects)

\* Every object is as the spec says, no unwanted one is left, and the status is
\* that of this spec and of the Deployment.
InLine ==
  /\ \A k \in Kind \ (Optional \ csms.spec.wants) :
       /\ obj[k] # None
       /\ obj[k].owner = csms.uid /\ obj[k].replicas = csms.spec.replicas
  /\ \A k \in Optional \ csms.spec.wants : ~Controlled(obj[k])
  /\ status.observed = csms.generation /\ status.ready = obj[Deployment].ready
  /\ status.progressing = (status.ready # csms.spec.replicas)

\* When the edits and failures have stopped, Reconcile has brought everything in
\* line, from whatever half-finished state and however late its cache was; and
\* nothing it made outlives its resource.
Converges ==
  <>[](IF csms = None THEN \A k \in Kind : ~Controlled(obj[k]) ELSE Obstructed \/ InLine)

\* A Reconcile working from a late cache never writes to an object another
\* controller controls.
OthersNotOverwritten ==
  [][\A k \in Kind :
       obj[k] # None /\ obj[k].owner = Other /\ edits' = edits
         => obj'[k] = obj[k] \/ obj'[k] = None]_vars

\* ObservedGeneration is of this resource, not of a deleted one of the same name,
\* and never goes back.
ObservedGenerationSound ==
  [][csms' # None =>
       /\ status'.observed <= csms'.generation
       /\ csms # None => status'.observed >= status.observed]_vars

\* What the operator deletes it has made: "deletes any previously created Ingress
\* when unset" (reconcileIngress).
DeletesOnlyItsOwn ==
  [][\A k \in Kind :
       obj[k] # None /\ ~Controlled(obj[k]) /\ edits' = edits => obj'[k] # None]_vars
=============================================================================
