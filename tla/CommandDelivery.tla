--------------------------- MODULE CommandDelivery ---------------------------
(***************************************************************************)
(* A command's way to a station: the HTTP handler of                       *)
(* internal/runtime/command_api.go looks the owner up, publishes to its    *)
(* stream and waits for the result; the owner's consumer (CommandBus) runs *)
(* handleCommand of internal/runtime/commands.go, which checks ownership   *)
(* and calls the station.  Ownership is what module Ownership implements:  *)
(* the promise LeaseRegistry over <<holder, generation>>, and an entry in  *)
(* the manager of the runtime that may trail the lease in both directions. *)
(***************************************************************************)
EXTENDS CommandBus

CONSTANTS Station,
          For,             \* the station a command is for
          Deadline,        \* commandTimeout, in ticks
          MaxGeneration,   \* bound: claims
          MaxFaults        \* bound: failing Redis calls and crashes

\* The API sets no deadline beyond the life of a completion record (30 seconds
\* and 5 minutes).
ASSUME DeliveryAssumption == /\ Deadline \in 1..(ResultTTL - 1)
                             /\ For \in [Command -> Station]
                             /\ MaxGeneration \in Nat /\ MaxFaults \in Nat
                             /\ None \notin [owner : Runtime, generation : 1..MaxGeneration]

VARIABLES holder, generation,   \* the registry
          claimed, entries,     \* generation a runtime's onConnect was granted, and
                                \* the one its manager has entered, 0 for none
          granted,              \* generations issued to the present process
          api, addr, left, answer,   \* the handler's progress, the lease it read,
                                     \* ticks to the deadline, its response
          runs,                 \* times the station was called
          finished,             \* commands with a completion record written
          interrupted,          \* commands with a run whose result was not recorded
          faults

ownerVars == <<holder, generation, claimed, entries, granted>>
apiVars == <<api, addr, left, answer>>
historyVars == <<runs, finished, interrupted>>
vars == <<busVars, ownerVars, apiVars, historyVars, faults>>

Registry == INSTANCE LeaseRegistry

Answers == Result \cup {"none", "rejected", "notConnected", "publishFailed", "timeout"}
Lease == [owner : Runtime, generation : 1..MaxGeneration]

TypeOK ==
  /\ BusTypeOK
  /\ holder \in [Station -> Lease \cup {None}] /\ generation \in 0..MaxGeneration
  /\ claimed \in [Runtime -> [Station -> 0..MaxGeneration]]
  /\ entries \in [Runtime -> [Station -> 0..MaxGeneration]]
  /\ granted \in [Runtime -> SUBSET (1..MaxGeneration)]
  /\ api \in [Command -> {"idle", "looking", "found", "awaiting", "returned"}]
  /\ addr \in [Command -> Lease \cup {None}]
  /\ left \in [Command -> 0..Deadline] /\ answer \in [Command -> Answers]
  /\ runs \in [Command -> Nat] /\ finished \subseteq Command
  /\ interrupted \subseteq Command
  /\ faults \in 0..MaxFaults

Init ==
  /\ BusInit /\ Registry!Init
  /\ claimed = [r \in Runtime |-> [s \in Station |-> 0]] /\ entries = claimed
  /\ granted = [r \in Runtime |-> {}]
  /\ api = [c \in Command |-> "idle"] /\ addr = [c \in Command |-> None]
  /\ left = [c \in Command |-> Deadline] /\ answer = [c \in Command |-> "none"]
  /\ runs = [c \in Command |-> 0] /\ finished = {} /\ interrupted = {}
  /\ faults = 0
-----------------------------------------------------------------------------
\* A runtime's onConnect is granted a station.
Claim(r, s) ==
  /\ worker[r].at # "down" /\ claimed[r][s] = 0 /\ generation < MaxGeneration
  /\ Registry!Grant(s, r)
  /\ claimed' = [claimed EXCEPT ![r][s] = generation + 1]
  /\ granted' = [granted EXCEPT ![r] = @ \cup {generation + 1}]
  /\ UNCHANGED <<busVars, entries, apiVars, historyVars, faults>>

\* onConnect enters the lease, or never got the reply.
Enter(r, s) ==
  /\ claimed[r][s] # 0
  /\ claimed' = [claimed EXCEPT ![r][s] = 0]
  /\ \/ entries' = [entries EXCEPT ![r][s] = claimed[r][s]]
     \/ UNCHANGED entries
  /\ UNCHANGED <<busVars, holder, generation, granted, apiVars, historyVars, faults>>

\* onDisconnect removes the entry.
Leave(r, s) ==
  /\ entries[r][s] # 0
  /\ entries' = [entries EXCEPT ![r][s] = 0]
  /\ UNCHANGED <<busVars, holder, generation, claimed, granted, apiVars, historyVars, faults>>

\* A lease ends: released, or expired while its runtime was late to renew it.
LeaseEnds(s) ==
  /\ holder[s] # None
  /\ Registry!End({s})
  /\ UNCHANGED <<busVars, claimed, entries, granted, apiVars, historyVars, faults>>
-----------------------------------------------------------------------------
\* serverCommandHandler answers at once: wrong method or path, no valid key, over
\* the rate limit, bad payload, or an error of the limiter or of Lookup.
Reject(c) ==
  /\ api[c] \in {"idle", "looking"}
  /\ api' = [api EXCEPT ![c] = "returned"]
  /\ answer' = [answer EXCEPT ![c] = "rejected"]
  /\ UNCHANGED <<busVars, ownerVars, addr, left, historyVars, faults>>

\* serverCommandHandler, first half of Lookup: HMGET.
LookupLease(c) ==
  /\ api[c] = "idle"
  /\ api' = [api EXCEPT ![c] = "looking"]
  /\ addr' = [addr EXCEPT ![c] = holder[For[c]]]
  /\ UNCHANGED <<busVars, ownerVars, left, answer, historyVars, faults>>

\* Second half: PTTL, of whatever lease is there now.  The command is made.
LookupTTL(c) ==
  /\ api[c] = "looking"
  /\ IF addr[c] = None \/ holder[For[c]] = None
     THEN /\ api' = [api EXCEPT ![c] = "returned"]
          /\ answer' = [answer EXCEPT ![c] = "notConnected"]
     ELSE /\ api' = [api EXCEPT ![c] = "found"]
          /\ UNCHANGED answer
  /\ UNCHANGED <<busVars, ownerVars, addr, left, historyVars, faults>>

\* Publish: the client may send XADD again when a reply is lost.
Publish(c) ==
  /\ api[c] = "found"
  /\ \E n \in 1..Copies : XAdd(c, n, addr[c].owner)
  /\ api' = [api EXCEPT ![c] = "awaiting"]
  /\ UNCHANGED <<record, worker, ownerVars, addr, left, answer, historyVars, faults>>

\* Publish returns an error; the entry may be in the stream all the same.
PublishFails(c) ==
  /\ api[c] = "found"
  /\ \E n \in 0..Copies : XAdd(c, n, addr[c].owner)
  /\ api' = [api EXCEPT ![c] = "returned"]
  /\ answer' = [answer EXCEPT ![c] = "publishFailed"]
  /\ UNCHANGED <<record, worker, ownerVars, addr, left, historyVars, faults>>

\* AwaitResult pops a result before its deadline; the handler answers with it.
ReturnResult(c) ==
  /\ api[c] = "awaiting" /\ left[c] # 0
  /\ Pop(c)
  /\ api' = [api EXCEPT ![c] = "returned"]
  /\ answer' = [answer EXCEPT ![c] = Head(record[c].list)]
  /\ UNCHANGED <<ownerVars, addr, left, historyVars, faults>>

\* The deadline passes, the client goes away, or RPOP fails.
ReturnTimeout(c) ==
  /\ api[c] = "awaiting"
  /\ api' = [api EXCEPT ![c] = "returned"]
  /\ answer' = [answer EXCEPT ![c] = "timeout"]
  /\ UNCHANGED <<busVars, ownerVars, addr, left, historyVars, faults>>
-----------------------------------------------------------------------------
\* A Redis call of the consumer.
Consume(r) ==
  /\ Call(r)
  /\ finished' = IF worker[r].at = "complete" THEN finished \cup {CommandOf(r)} ELSE finished
  /\ UNCHANGED <<ownerVars, apiVars, runs, interrupted, faults>>

\* Mutant: the generation is not compared.
OwnsAny(r, s, g) == entries[r][s] # 0

\* owns(): the entry of the station has the command's generation.
Owns(r, s, g) == entries[r][s] = g

\* Mutant: the handler runs without the command's deadline.
NeverExpired(c) == FALSE

\* runHandler's context is done when handleCommand looks at it.
Expired(c) == left[c] = 0

\* handleCommand: the deadline, then owns().
Handle(r) ==
  LET c == CommandOf(r)
      w == worker[r]
  IN /\ w.at = "handle"
     /\ worker' = [worker EXCEPT ![r] =
          IF Expired(c) \/ ~Owns(r, For[c], addr[c].generation)
          THEN [w EXCEPT !.at = "complete", !.result = "refused"]
          ELSE [w EXCEPT !.at = "call"]]
     /\ UNCHANGED <<streamVars, record, ownerVars, apiVars, historyVars, faults>>

\* handleCommand goes on: no session or a bad payload, or callReset, which may
\* fail before or after the station got the call.
CallStation(r) ==
  LET c == CommandOf(r)
  IN /\ worker[r].at = "call"
     /\ \E result \in Result, called \in 0..1 :
          /\ result = "success" => called = 1
          /\ result = "refused" => called = 0
          /\ worker' = [worker EXCEPT ![r].at = "complete", ![r].result = result]
          /\ runs' = [runs EXCEPT ![c] = @ + called]
     /\ UNCHANGED <<streamVars, record, ownerVars, apiVars, finished, interrupted, faults>>
-----------------------------------------------------------------------------
\* The goroutine stops; a result it had not written is lost.
Interrupt(r, at) ==
  /\ faults < MaxFaults
  /\ Stop(r, at)
  /\ interrupted' = IF worker[r].at = "complete" THEN interrupted \cup {CommandOf(r)}
                    ELSE interrupted
  /\ faults' = faults + 1

\* A Redis call of the consumer fails: RunConsumer returns an error.  (A call
\* that took effect and lost its reply is the call, then the next one failing.)
Break(r) ==
  /\ worker[r].at \in {"loop", "read", "check", "complete", "ack"}
  /\ Interrupt(r, "retry")
  /\ UNCHANGED <<streamVars, record, ownerVars, apiVars, runs, finished>>

\* The runtime's process ends, crashed or shut down, at any point.
Crash(r) ==
  /\ worker[r].at # "down"
  /\ Interrupt(r, "down")
  /\ claimed' = [claimed EXCEPT ![r] = [s \in Station |-> 0]]
  /\ entries' = [entries EXCEPT ![r] = [s \in Station |-> 0]]
  /\ granted' = [granted EXCEPT ![r] = {}]
  /\ UNCHANGED <<streamVars, record, holder, generation, apiVars, runs, finished>>

\* runCommandConsumer calls RunConsumer again once Redis answers a ping.
Resume(r) ==
  /\ worker[r].at = "retry"
  /\ Stop(r, "loop")
  /\ UNCHANGED <<streamVars, record, ownerVars, apiVars, historyVars, faults>>

\* The container starts again under its name (CSMS_INSTANCE_ID is the Pod's).
Restart(r) ==
  /\ worker[r].at = "down"
  /\ Stop(r, "loop")
  /\ UNCHANGED <<streamVars, record, ownerVars, apiVars, historyVars, faults>>

Tick ==
  /\ BusElapse
  /\ left' = [c \in Command |-> IF api[c] \in {"idle", "looking"} \/ left[c] = 0 THEN left[c]
                               ELSE left[c] - 1]
  /\ UNCHANGED <<ownerVars, api, addr, answer, historyVars, faults>>

Serve(c) == \/ Reject(c) \/ LookupLease(c) \/ LookupTTL(c) \/ Publish(c) \/ PublishFails(c)
            \/ ReturnResult(c) \/ ReturnTimeout(c)
Work(r) == Consume(r) \/ Handle(r) \/ CallStation(r) \/ Resume(r)

Next ==
  \/ \E r \in Runtime, s \in Station : Claim(r, s) \/ Enter(r, s) \/ Leave(r, s)
  \/ \E s \in Station : LeaseEnds(s)
  \/ \E c \in Command : Serve(c)
  \/ \E r \in Runtime : Work(r) \/ Break(r) \/ Crash(r) \/ Restart(r)
  \/ Tick

Spec == Init /\ [][Next]_vars

\* The consumer goroutine is scheduled, its calls return (the station's by the
\* command's deadline), Redis answers again, time passes.  Nothing says that a
\* runtime that ended is started again: a Pod that is replaced never is.
FairSpec == Spec /\ (\A r \in Runtime : WF_vars(Work(r))) /\ WF_vars(Tick)
-----------------------------------------------------------------------------
\* A command with a recorded result is not run again, however its entry comes
\* back: copied by a retried XADD, delivered again because its XACK failed or
\* its consumer died, even after the completion record has expired.
CompletedNeverRerun == [][\A c \in finished : runs'[c] = runs[c]]_vars

\* The station is called a second time only if the result of a first call was
\* lost before complete() wrote it.
RunsOnceUnlessInterrupted == \A c \in Command : runs[c] > 1 => c \in interrupted

\* The HTTP answer tells the truth: after a success the station was called;
\* after a refusal (NotOwner, Expired, StationNotConnected) it was not, unless
\* the result of an earlier run was lost; and after an answer that was given
\* without publishing it never will be.  (A failed Publish and a timeout say
\* nothing: the command may still run.)
AnswerIsTruthful ==
  \A c \in Command :
    /\ answer[c] = "success" => runs[c] > 0
    /\ answer[c] = "refused" /\ c \notin interrupted => runs[c] = 0
    /\ answer[c] \in {"rejected", "notConnected"} => runs[c] = 0

\* A command reaches the station only through the process that was granted the
\* generation the API looked up: a runtime started again under the same name
\* finds the commands of its predecessor pending and refuses them.
OnlyGranteeRuns ==
  [][\A c \in Command : runs'[c] # runs[c] =>
        addr[c].generation \in granted[addr[c].owner]]_vars

\* The check before the station is called keeps a stale owner from running a
\* command: it does not pass once another runtime has claimed the station.
StaleOwnerNeverRuns ==
  [][\A r \in Runtime, c \in Command :
       /\ worker[r].at = "handle" /\ worker'[r].at = "call" /\ c = CommandOf(r)
       /\ holder[For[c]] # None
       => holder[For[c]].owner = r]_vars

\* Nothing is dropped: the group is done with an entry whose command has no
\* completion only if MaxLen later entries were published to the same stream.
NothingDropped ==
  \A r \in Runtime, i \in ID :
    i < NextID(r) /\ i \notin pending[r] /\ log[r][i] \notin finished
      => i + MaxLen <= Len(log[r])

\* Every entry of a stream whose runtime comes back from every crash is consumed
\* and acknowledged or was trimmed, through failing calls and restarts: recovery
\* finds what they left pending.
EntriesDrain ==
  \A r \in Runtime :
    []<>(worker[r].at # "down") =>
      \A i \in ID : i <= Len(log[r]) ~> i < NextID(r) /\ i \notin pending[r]
=============================================================================
