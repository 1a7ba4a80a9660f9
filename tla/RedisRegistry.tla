---------------------------- MODULE RedisRegistry ----------------------------
(***************************************************************************)
(* The Redis side of internal/sessionregistry/redisstore: one hash per     *)
(* station with a time to live, one counter for all of them, and the three *)
(* Lua scripts, each atomic in Redis.  A script is an action on the keys;  *)
(* the callers, and what happens between a script and its reply, are in    *)
(* module Ownership.  Time is counted in ticks.                            *)
(***************************************************************************)
EXTENDS Naturals

CONSTANTS Station,   \* station identities
          Runtime,   \* owner IDs
          TTL,       \* CSMS_SESSION_LEASE_TTL, in ticks
          None       \* an absent key

\* Claim and Renew refuse a TTL that is not positive.
ASSUME TTLAssumption == TTL \in Nat \ {0}

VARIABLES lease,       \* lease[s]: the hash <prefix>:session:<s>, or None
          generation   \* the counter <prefix>:session:generation

registryVars == <<lease, generation>>

Lease == [owner : Runtime, generation : Nat \ {0}, pttl : 1..TTL]

ASSUME NoneAssumption == None \notin Lease

RegistryTypeOK == /\ lease \in [Station -> Lease \cup {None}]
                  /\ generation \in Nat

NoLeases == [s \in Station |-> None]

\* Mutant: the generation is read without INCR.
ClaimScriptWithoutIncr(s, o) ==
  /\ lease' = IF lease[s] # None THEN lease
              ELSE [lease EXCEPT ![s] =
                      [owner |-> o, generation |-> generation + 1, pttl |-> TTL]]
  /\ UNCHANGED generation

\* Mutant: no EXISTS check.
ClaimScriptWithoutExists(s, o) ==
  /\ generation' = generation + 1
  /\ lease' = [lease EXCEPT ![s] =
                 [owner |-> o, generation |-> generation + 1, pttl |-> TTL]]

\* claimScript: EXISTS, or else INCR, HSET and PEXPIRE.
ClaimScript(s, o) ==
  IF lease[s] # None
  THEN UNCHANGED registryVars
  ELSE /\ generation' = generation + 1
       /\ lease' = [lease EXCEPT ![s] =
                      [owner |-> o, generation |-> generation + 1, pttl |-> TTL]]

\* The comparison renewScript and releaseScript start with.
Holds(s, o, g) == /\ lease[s] # None
                  /\ lease[s].owner = o
                  /\ lease[s].generation = g

\* Mutant: the lease is written back instead of compared.
RenewScriptBySet(s, o, g) ==
  /\ lease' = IF lease[s] = None THEN lease
              ELSE [lease EXCEPT ![s] = [owner |-> o, generation |-> g, pttl |-> TTL]]
  /\ UNCHANGED generation

\* Mutant: no PEXPIRE.
RenewScriptWithoutExpire(s, o, g) == UNCHANGED registryVars

\* renewScript.
RenewScript(s, o, g) ==
  /\ lease' = IF Holds(s, o, g) THEN [lease EXCEPT ![s].pttl = TTL] ELSE lease
  /\ UNCHANGED generation

\* Mutant: DEL whoever holds the lease.
ReleaseScriptUnchecked(s, o, g) ==
  /\ lease' = [lease EXCEPT ![s] = None]
  /\ UNCHANGED generation

\* releaseScript.
ReleaseScript(s, o, g) ==
  /\ lease' = IF Holds(s, o, g) THEN [lease EXCEPT ![s] = None] ELSE lease
  /\ UNCHANGED generation

\* Mutant: a key lives one tick longer than its TTL.
ElapseOneTooLate ==
  /\ lease' = [s \in Station |->
                 IF lease[s] = None \/ lease[s].pttl = 0 THEN None
                 ELSE [lease[s] EXCEPT !.pttl = @ - 1]]
  /\ UNCHANGED generation

\* One tick: Redis removes a key whose time to live has run out.
Elapse ==
  /\ lease' = [s \in Station |->
                 IF lease[s] = None \/ lease[s].pttl = 1 THEN None
                 ELSE [lease[s] EXCEPT !.pttl = @ - 1]]
  /\ UNCHANGED generation

\* Redis restarts without persistence (config/dependencies/redis runs it with
\* --appendonly no --save ""): leases and counter are gone.
Restart ==
  /\ lease' = NoLeases
  /\ generation' = 0
=============================================================================
