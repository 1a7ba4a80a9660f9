------------------------------ MODULE Ownership ------------------------------
(***************************************************************************)
(* Session ownership: the ownershipManager of every runtime                *)
(* (internal/runtime/ownership.go) working over the Redis registry.        *)
(*                                                                         *)
(* A session is one WebSocket connection of a station to a runtime; its    *)
(* identifier is used once.  The OCPP library (external) calls onConnect   *)
(* and, after it returned and the connection ended, onDisconnect.  A       *)
(* registry call is three steps: the request leaves, Redis runs the        *)
(* script, the caller gets the reply.  The caller may give up in between   *)
(* (context cancelled, timeout, connection error), and a script whose      *)
(* caller gave up may still run, arbitrarily late, or be lost.             *)
(***************************************************************************)
EXTENDS RedisRegistry

CONSTANTS Session,         \* connections
          RenewInterval,   \* CSMS_SESSION_RENEW_INTERVAL, in ticks
          Punctual,        \* runtimes that are never late: see Urgent
          Serial,          \* the library ends a session of an identity before
                           \* it starts the next one on the same runtime
          Durable          \* Redis keeps its keys when it restarts

\* LoadConfig refuses a renew interval that is not shorter than the TTL.
ASSUME RenewAssumption == RenewInterval \in 1..(TTL - 1)
ASSUME ModelAssumption == /\ Punctual \subseteq Runtime
                          /\ Serial \in BOOLEAN /\ Durable \in BOOLEAN
                          /\ None \notin Session

VARIABLES at, of,     \* the runtime and the station identity of a session
          phase,      \* how far its onConnect and onDisconnect are
          gen,        \* generation the registry issued to its claim, 0 if none
          renewer,    \* its renew goroutine: off, waiting for a tick, in Renew
          timer, due, \* ticks until its ticker fires; a tick waits in ticker.C
          reply,      \* the reply of the call its goroutine waits for
          taken,      \* the entry its onDisconnect took out of the map
          entries,    \* manager.entries of every runtime: the entry is named
                      \* by the session whose claim made it
          requests    \* scripts sent to Redis that have not run

callVars == <<at, of, phase, gen, renewer, timer, due, reply, taken, entries>>
vars == <<registryVars, callVars, requests>>

Phases == {"idle", "claiming", "active", "closed", "unlocking", "releasing", "done"}
Request == [op : {"claim", "renew", "release"}, session : Session]

TypeOK ==
  /\ RegistryTypeOK
  /\ at \in [Session -> Runtime] /\ of \in [Session -> Station]
  /\ phase \in [Session -> Phases]
  /\ gen \in [Session -> Nat]
  /\ renewer \in [Session -> {"off", "ticking", "inflight"}]
  /\ timer \in [Session -> 1..RenewInterval] /\ due \in [Session -> BOOLEAN]
  /\ reply \in [Session -> {"none", "ok", "refused"}]
  /\ taken \in [Session -> Session \cup {None}]
  /\ entries \in [Runtime -> [Station -> Session \cup {None}]]
  /\ requests \subseteq Request

Init ==
  /\ lease = NoLeases /\ generation = 0
  /\ at \in [Session -> Runtime] /\ of \in [Session -> Station]
  /\ phase = [c \in Session |-> "idle"]
  /\ gen = [c \in Session |-> 0]
  /\ renewer = [c \in Session |-> "off"]
  /\ timer = [c \in Session |-> RenewInterval] /\ due = [c \in Session |-> FALSE]
  /\ reply = [c \in Session |-> "none"]
  /\ taken = [c \in Session |-> None]
  /\ entries = [r \in Runtime |-> [s \in Station |-> None]]
  /\ requests = {}

-----------------------------------------------------------------------------
Live(c) == phase[c] \notin {"idle", "done"}

SamePlace(c, d) == at[c] = at[d] /\ of[c] = of[d]

EntryOf(c) == entries[at[c]][of[c]]

HoldsLease(c) == gen[c] # 0 /\ Holds(of[c], at[c], gen[c])

Send(op, c) == requests' = requests \cup {[op |-> op, session |-> c]}

\* A call may end without its reply unless its runtime is never late.
Unanswered(c) == at[c] \in Punctual => reply[c] = "refused"

\* A renew goroutine that waits for a tick stops when its context is done.
Stopped(c) == IF renewer[c] = "ticking" THEN "off" ELSE renewer[c]

\* The library accepts a connection and calls onConnect, which calls Claim.
Connect(c) ==
  /\ phase[c] = "idle"
  /\ Serial => \A d \in Session \ {c} : SamePlace(c, d) => ~Live(d)
  /\ phase' = [phase EXCEPT ![c] = "claiming"]
  /\ Send("claim", c)
  /\ UNCHANGED <<registryVars, at, of, gen, renewer, timer, due, reply, taken, entries>>

\* onConnect after a successful Claim: record the entry, start renewing.
ClaimSucceeds(c) ==
  /\ phase[c] = "claiming" /\ reply[c] = "ok"
  /\ phase' = [phase EXCEPT ![c] = "active"]
  /\ reply' = [reply EXCEPT ![c] = "none"]
  /\ entries' = [entries EXCEPT ![at[c]][of[c]] = c]
  /\ renewer' = [renewer EXCEPT ![c] = "ticking"]
  /\ UNCHANGED <<registryVars, at, of, gen, timer, due, taken, requests>>

\* onConnect after an error of Claim (conflict or failure): close the session.
ClaimFails(c) ==
  /\ phase[c] = "claiming" /\ Unanswered(c)
  /\ phase' = [phase EXCEPT ![c] = "closed"]
  /\ reply' = [reply EXCEPT ![c] = "none"]
  /\ UNCHANGED <<registryVars, at, of, gen, renewer, timer, due, taken, entries, requests>>

\* The ticker fired: renew takes entry.mu and calls Renew.
RenewSend(c) ==
  /\ renewer[c] = "ticking" /\ due[c]
  /\ renewer' = [renewer EXCEPT ![c] = "inflight"]
  /\ due' = [due EXCEPT ![c] = FALSE]
  /\ Send("renew", c)
  /\ UNCHANGED <<registryVars, at, of, phase, gen, timer, reply, taken, entries>>

\* Mutant: the renew context is not tied to the session.
NeverCancelled(c) == FALSE

\* The renew goroutine's context: done once its session is, or once an
\* onDisconnect has cancelled the entry.
Cancelled(c) == \/ phase[c] # "active"
                \/ \E d \in Session : phase[d] = "unlocking" /\ taken[d] = c

\* Renew returned the lease: wait for the next tick, unless cancelled.
RenewSucceeds(c) ==
  /\ renewer[c] = "inflight" /\ reply[c] = "ok"
  /\ renewer' = [renewer EXCEPT ![c] = IF Cancelled(c) THEN "off" ELSE "ticking"]
  /\ reply' = [reply EXCEPT ![c] = "none"]
  /\ UNCHANGED <<registryVars, at, of, phase, gen, timer, due, taken, entries, requests>>

\* Mutant: the session is not closed.
RenewFailsQuietly(c) ==
  /\ renewer[c] = "inflight" /\ (Unanswered(c) \/ Cancelled(c))
  /\ renewer' = [renewer EXCEPT ![c] = "off"]
  /\ reply' = [reply EXCEPT ![c] = "none"]
  /\ UNCHANGED <<registryVars, at, of, phase, gen, timer, due, taken, entries, requests>>

\* Renew returned an error (lease lost, or failure): close the session.
RenewFails(c) ==
  /\ renewer[c] = "inflight" /\ (Unanswered(c) \/ Cancelled(c))
  /\ renewer' = [renewer EXCEPT ![c] = "off"]
  /\ phase' = [phase EXCEPT ![c] = IF @ = "active" THEN "closed" ELSE @]
  /\ reply' = [reply EXCEPT ![c] = "none"]
  /\ UNCHANGED <<registryVars, at, of, gen, timer, due, taken, entries, requests>>
-----------------------------------------------------------------------------
\* The connection ends: the station left, or the runtime shuts down.
Disconnect(c) ==
  /\ phase[c] = "active"
  /\ phase' = [phase EXCEPT ![c] = "closed"]
  /\ renewer' = [renewer EXCEPT ![c] = Stopped(c)]
  /\ UNCHANGED <<registryVars, at, of, gen, timer, due, reply, taken, entries, requests>>

\* Mutant: the entry stays in the map.
TakeEntryKeepsIt(c) ==
  /\ phase[c] = "closed"
  /\ phase' = [phase EXCEPT ![c] = IF EntryOf(c) = None THEN "done" ELSE "unlocking"]
  /\ taken' = [taken EXCEPT ![c] = EntryOf(c)]
  /\ UNCHANGED <<registryVars, at, of, gen, renewer, timer, due, reply, entries, requests>>

\* onDisconnect, under manager.mu: take the entry of the session's identity
\* out of the map; return if there is none, else cancel its renewals.
TakeEntry(c) ==
  /\ phase[c] = "closed"
  /\ entries' = [entries EXCEPT ![at[c]][of[c]] = None]
  /\ IF EntryOf(c) = None
     THEN /\ phase' = [phase EXCEPT ![c] = "done"]
          /\ UNCHANGED <<taken, renewer>>
     ELSE /\ phase' = [phase EXCEPT ![c] = "unlocking"]
          /\ taken' = [taken EXCEPT ![c] = EntryOf(c)]
          /\ renewer' = [renewer EXCEPT ![EntryOf(c)] = Stopped(EntryOf(c))]
  /\ UNCHANGED <<registryVars, at, of, gen, timer, due, reply, requests>>

\* onDisconnect got entry.mu (no Renew of the entry is running): call Release.
SendRelease(c) ==
  /\ phase[c] = "unlocking" /\ renewer[taken[c]] # "inflight"
  /\ phase' = [phase EXCEPT ![c] = "releasing"]
  /\ Send("release", taken[c])
  /\ UNCHANGED <<registryVars, at, of, gen, renewer, timer, due, reply, taken, entries>>

\* Release returned, answered or after five seconds: onDisconnect only logs.
ReleaseReturns(c) ==
  /\ phase[c] = "releasing"
  /\ phase' = [phase EXCEPT ![c] = "done"]
  /\ taken' = [taken EXCEPT ![c] = None]
  /\ UNCHANGED <<registryVars, at, of, gen, renewer, timer, due, reply, entries, requests>>
-----------------------------------------------------------------------------
\* Redis runs a request; q's caller gets the answer if it still waits for it.
Run(q) ==
  /\ q \in requests
  /\ requests' = requests \ {q}
  /\ UNCHANGED <<at, of, phase, renewer, timer, due, taken, entries>>

Answer(c, waiting, ok) ==
  reply' = IF waiting THEN [reply EXCEPT ![c] = IF ok THEN "ok" ELSE "refused"]
           ELSE reply

RunClaim(c) ==
  /\ Run([op |-> "claim", session |-> c])
  /\ ClaimScript(of[c], at[c])
  /\ gen' = [gen EXCEPT ![c] = IF lease[of[c]] = None THEN generation + 1 ELSE @]
  /\ Answer(c, phase[c] = "claiming", lease[of[c]] = None)

RunRenew(c) ==
  /\ Run([op |-> "renew", session |-> c])
  /\ RenewScript(of[c], at[c], gen[c])
  /\ Answer(c, renewer[c] = "inflight", Holds(of[c], at[c], gen[c]))
  /\ UNCHANGED gen

RunRelease(c) ==
  /\ Run([op |-> "release", session |-> c])
  /\ ReleaseScript(of[c], at[c], gen[c])
  /\ UNCHANGED <<gen, reply>>

\* A request never reaches Redis.
LoseRequest(q) ==
  /\ q \in requests /\ at[q.session] \notin Punctual
  /\ requests' = requests \ {q}
  /\ UNCHANGED <<registryVars, callVars>>

Waiting(q) == CASE q.op = "claim" -> phase[q.session] = "claiming"
                [] q.op = "renew" -> renewer[q.session] = "inflight"
                [] q.op = "release" -> \E d \in Session : /\ phase[d] = "releasing"
                                                          /\ taken[d] = q.session

\* Redis restarts without its keys.  Connections break: the client sends again
\* what a caller still waits for, the other requests are gone.
RestartRedis ==
  /\ ~Durable
  /\ Restart
  /\ requests' = {q \in requests : Waiting(q)}
  /\ UNCHANGED callVars

\* A runtime's process dies; no callback runs.  It may serve new sessions later.
Crash(r) ==
  LET here == {c \in Session : at[c] = r /\ Live(c)}
      On(f, v) == [c \in Session |-> IF c \in here THEN v ELSE f[c]]
  IN /\ here # {}
     /\ phase' = On(phase, "done") /\ renewer' = On(renewer, "off")
     /\ due' = On(due, FALSE) /\ reply' = On(reply, "none")
     /\ taken' = On(taken, None)
     /\ entries' = [entries EXCEPT ![r] = NoLeases]
     /\ UNCHANGED <<registryVars, at, of, gen, timer, requests>>

\* A runtime in Punctual finishes the registry calls of a tick within it.
Urgent(c) == /\ at[c] \in Punctual
             /\ \/ renewer[c] = "inflight"
                \/ renewer[c] = "ticking" /\ due[c]
                \/ reply[c] # "none"

\* Time passes: leases age in Redis, tickers advance in the runtimes.
Tick ==
  /\ \A c \in Session : ~Urgent(c)
  /\ Elapse
  /\ timer' = [c \in Session |->
                 IF renewer[c] = "off" THEN timer[c]
                 ELSE IF timer[c] = 1 THEN RenewInterval ELSE timer[c] - 1]
  /\ due' = [c \in Session |-> due[c] \/ (renewer[c] # "off" /\ timer[c] = 1)]
  /\ UNCHANGED <<at, of, phase, gen, renewer, reply, taken, entries, requests>>

RunScript(c) == RunClaim(c) \/ RunRenew(c) \/ RunRelease(c)
OnConnect(c) == ClaimSucceeds(c) \/ ClaimFails(c)
Renew(c) == RenewSend(c) \/ RenewSucceeds(c) \/ RenewFails(c)
OnDisconnect(c) == TakeEntry(c) \/ SendRelease(c) \/ ReleaseReturns(c)

Next ==
  \/ \E c \in Session : \/ Connect(c) \/ Disconnect(c) \/ OnConnect(c)
                        \/ Renew(c) \/ OnDisconnect(c) \/ RunScript(c)
  \/ \E q \in requests : LoseRequest(q)
  \/ \E r \in Runtime : Crash(r)
  \/ RestartRedis
  \/ Tick

Spec == Init /\ [][Next]_vars

\* Goroutines are scheduled, calls return (every one has a deadline or a
\* connection that fails), Redis serves its connections and time passes.
\* Stations need not connect or leave, and nothing need fail.
Fairness ==
  /\ \A c \in Session : /\ WF_vars(OnConnect(c)) /\ WF_vars(Renew(c))
                        /\ WF_vars(OnDisconnect(c)) /\ WF_vars(RunScript(c))
  /\ WF_vars(Tick)

FairSpec == Spec /\ Fairness
-----------------------------------------------------------------------------
\* Fencing: while a lease is in force no claim of the station was issued a
\* larger generation, and the claim that was issued this one was made by the
\* lease's owner.  So a stale owner's generation (after expiry, a lost reply, a
\* late renew or release script) is always smaller than the current owner's.
NewestClaimOwns ==
  \A c \in Session :
    lease[of[c]] # None =>
      /\ gen[c] <= lease[of[c]].generation
      /\ gen[c] = lease[of[c]].generation => at[c] = lease[of[c]].owner

\* No two claims, of whatever stations and runtimes, are ever issued the same
\* generation by claimScript.
GenerationUnique ==
  \A c, d \in Session : c # d /\ gen[c] # 0 => gen[c] # gen[d]

\* manager.entries agrees with the sessions being served: an established
\* session is the one entered under its identity (so owns() finds it), and no
\* entry outlives its session's onDisconnect.
EntriesMatchSessions ==
  /\ \A c \in Session : phase[c] = "active" => EntryOf(c) = c
  /\ \A r \in Runtime, s \in Station : entries[r][s] # None =>
       LET c == entries[r][s]
       IN at[c] = r /\ of[c] = s /\ phase[c] \in {"active", "closed"}

\* A runtime that is never late keeps the lease of every established session:
\* the renew interval, the ticker and renewScript leave no gap in which the TTL
\* runs out, whatever the other runtimes and their late requests do.
PunctualKeepsLease ==
  \A c \in Session : at[c] \in Punctual /\ phase[c] = "active" => HoldsLease(c)

\* The lease of an established session ends only when its time to live runs
\* out (or Redis restarts empty): no release of an earlier session of the
\* station, however late its script runs, takes it away.
LiveLeaseNotReleased ==
  [][\A c \in Session :
       /\ phase[c] = "active" /\ phase'[c] = "active"
       /\ HoldsLease(c) /\ lease[of[c]].pttl > 1
       => HoldsLease(c)' \/ generation' = 0]_vars

\* A runtime whose lease of a station is gone (expired, or claimed by another
\* runtime) gives the station up: its renewal fails, the session is closed and
\* onDisconnect removes the entry.
StaleOwnerStepsDown ==
  \A c \in Session :
    (EntryOf(c) = c /\ ~HoldsLease(c)) ~> (EntryOf(c) # c)

\* A lease no session in service holds (its runtime crashed, its release was
\* lost, the reply to its claim was lost) does not block the station for ever:
\* nothing renews it and its TTL runs out.
InService(s) == \E c \in Session : Live(c) /\ of[c] = s /\ HoldsLease(c)

StrayLeaseExpires ==
  \A s \in Station :
    (lease[s] # None /\ ~InService(s)) ~> (lease[s] = None \/ InService(s))

\* Ownership over Redis implements the registry's promise: a lease, stripped of
\* its time to live, is a grant.
Registry == INSTANCE LeaseRegistry WITH
  holder <- [s \in Station |->
               IF lease[s] = None THEN None
               ELSE [owner |-> lease[s].owner, generation |-> lease[s].generation]]

RegistryPromise == Registry!Spec
=============================================================================
