----------------------- MODULE CommandDeliveryProofs ------------------------
(***************************************************************************)
(* Proofs about the way of a command, for any number of runtimes, stations *)
(* and commands and any values of the bounds.                              *)
(***************************************************************************)
EXTENDS CommandDelivery, CommandBusProofs

\* The provers of a leaf that names none, in the order they are tried.
USE SMTT(20), Z3T(20), SMTT(60), Z3T(60), ZenonT(60)

(***************************************************************************)
(* Types, and where a command may be: only in the stream of the owner the  *)
(* API looked up, and only once it was published.                          *)
(***************************************************************************)
TypeInv == TypeOK /\ BusInv

\* A command is only in the stream of the owner the API looked up, and only once
\* the handler has published it; a runtime enters only what it was granted.
Published(c) == /\ api[c] \in {"awaiting", "returned"}
                /\ answer[c] \notin {"rejected", "notConnected"}
Addressed(r, c) == Published(c) /\ addr[c] # None /\ addr[c].owner = r
Answered(c) == /\ api[c] = "found" => addr[c] # None
               /\ api[c] # "returned" => answer[c] = "none"
Granted(r, s) == /\ claimed[r][s] \in granted[r] \cup {0}
                 /\ entries[r][s] \in granted[r] \cup {0}
AddrInv ==
  /\ \A r \in Runtime : \A i \in 1..Len(log[r]) : Addressed(r, log[r][i])
  /\ \A c \in Command : Answered(c)
  /\ \A r \in Runtime, s \in Station : Granted(r, s)
-----------------------------------------------------------------------------
\* handleCommand up to the call of the station.
LEMMA HandleEffect ==
  ASSUME NEW r \in Runtime, Handle(r)
  PROVE  LET c == CommandOf(r)
         IN /\ worker[r].at = "handle" /\ UNCHANGED <<streamVars, record>>
            /\ \/ /\ left[c] = 0 \/ entries[r][For[c]] # addr[c].generation
                  /\ worker' = [worker EXCEPT ![r] = [@ EXCEPT
                                  !.at = "complete", !.result = "refused"]]
               \/ /\ left[c] # 0 /\ entries[r][For[c]] = addr[c].generation
                  /\ worker' = [worker EXCEPT ![r] = [@ EXCEPT !.at = "call"]]
<1> DEFINE c == CommandOf(r)
<1>1. CASE left[c] = 0 \/ entries[r][For[c]] # addr[c].generation
  BY <1>1, Zenon DEF Handle, Expired, Owns
<1>2. CASE ~(left[c] = 0 \/ entries[r][For[c]] # addr[c].generation)
  BY <1>2, Zenon DEF Handle, Expired, Owns
<1> QED  BY <1>1, <1>2

\* The look at the deadline and at owns() leaves the bus well formed.
LEMMA HandleBus == ASSUME BusInv, NEW r \in Runtime, Handle(r) PROVE BusInv'
<1>1. /\ worker[r].at \in Busy /\ worker[r] \in Worker /\ UNCHANGED streamVars
      /\ record' \in [Command -> Record \cup {None}]
  BY HandleEffect, Zenon DEF Busy, BusInv, BusTypeOK
<1>2. CASE worker' = [worker EXCEPT ![r] = [@ EXCEPT !.at = "complete", !.result = "refused"]]
  BY <1>1, <1>2, AtBus, Zenon DEF Busy, Result
<1>3. CASE worker' = [worker EXCEPT ![r] = [@ EXCEPT !.at = "call"]]
  <2>1. worker[r].result \in Result \cup {None}
    BY <1>1 DEF Worker
  <2>2. [worker[r] EXCEPT !.at = "call"]
          = [worker[r] EXCEPT !.at = "call", !.result = worker[r].result]
    BY <1>1, Zenon DEF Worker
  <2>3. worker' = [worker EXCEPT ![r] = [@ EXCEPT !.at = "call", !.result = worker[r].result]]
    BY <1>3, <2>2, Zenon
  <2> QED  BY <1>1, <2>1, <2>3, AtBus, Zenon DEF Busy
<1> QED  BY <1>2, <1>3, HandleEffect, Zenon

\* The call of the station.
LEMMA CallStationEffect ==
  ASSUME NEW r \in Runtime, CallStation(r)
  PROVE  \E result \in Result, called \in 0..1 :
           /\ worker[r].at = "call"
           /\ result = "success" => called = 1
           /\ result = "refused" => called = 0
           /\ worker' = [worker EXCEPT ![r] = [@ EXCEPT !.at = "complete", !.result = result]]
           /\ runs' = [runs EXCEPT ![CommandOf(r)] = @ + called]
           /\ UNCHANGED <<streamVars, record>>
<1>1. PICK result \in Result, called \in 0..1 :
        /\ result = "success" => called = 1
        /\ result = "refused" => called = 0
        /\ worker' = [worker EXCEPT ![r].at = "complete", ![r].result = result]
        /\ runs' = [runs EXCEPT ![CommandOf(r)] = @ + called]
  BY Zenon DEF CallStation
<1>2. [worker EXCEPT ![r].at = "complete", ![r].result = result]
        = [worker EXCEPT ![r] = [@ EXCEPT !.at = "complete", !.result = result]]
  BY Zenon
<1>3. worker[r].at = "call" /\ UNCHANGED <<streamVars, record>>
  BY DEF CallStation
<1> QED  BY <1>1, <1>2, <1>3, Zenon

\* The call of the station leaves the bus well formed.
LEMMA CallStationBus == ASSUME BusInv, NEW r \in Runtime, CallStation(r) PROVE BusInv'
<1>1. PICK result \in Result :
        /\ worker[r].at = "call" /\ UNCHANGED <<streamVars, record>>
        /\ worker' = [worker EXCEPT ![r] = [@ EXCEPT !.at = "complete", !.result = result]]
  BY CallStationEffect, Zenon
<1>2. record' \in [Command -> Record \cup {None}]
  BY <1>1 DEF BusInv, BusTypeOK
<1> QED  BY <1>1, <1>2, AtBus, Zenon DEF Busy

\* A command that was looked up has an owner to be published to.
LEMMA PublishAddress ==
  ASSUME TypeInv, AddrInv, NEW c \in Command, Publish(c) \/ PublishFails(c)
  PROVE  /\ addr[c].owner \in Runtime /\ api[c] = "found" /\ UNCHANGED <<record, worker>>
         /\ \E n \in Nat : XAdd(c, n, addr[c].owner)
<1>1. api[c] = "found" /\ UNCHANGED <<record, worker>>
  BY DEF Publish, PublishFails
<1>2. addr[c] \in Lease
  BY <1>1 DEF AddrInv, Answered, TypeInv, TypeOK
<1>3. \E n \in Nat : XAdd(c, n, addr[c].owner)
  <2>1. 1..Copies \subseteq Nat /\ 0..Copies \subseteq Nat
    OBVIOUS
  <2> QED  BY <2>1, Zenon DEF Publish, PublishFails
<1> QED  BY <1>1, <1>2, <1>3 DEF Lease

\* No step leaves the bus malformed.
LEMMA NextBus == ASSUME TypeInv, AddrInv, [Next]_vars PROVE BusInv'
<1>0. BusInv
  BY DEF TypeInv
<1>1. CASE UNCHANGED busVars
  BY <1>0, <1>1, SameBus
<1>2. ASSUME NEW c \in Command, Publish(c) \/ PublishFails(c) PROVE BusInv'
  BY <1>0, <1>2, PublishAddress, XAddBus
<1>3. ASSUME NEW c \in Command, ReturnResult(c) PROVE BusInv'
  <2>1. Pop(c)
    BY <1>3 DEF ReturnResult
  <2> QED  BY <1>0, <2>1, PopEffect DEF BusInv, BusTypeOK, Shape, streamVars
<1>4. ASSUME NEW r \in Runtime, Consume(r) PROVE BusInv'
  BY <1>0, <1>4, CallBus DEF Consume
<1>5. ASSUME NEW r \in Runtime, Handle(r) PROVE BusInv'
  BY <1>0, <1>5, HandleBus
<1>6. ASSUME NEW r \in Runtime, CallStation(r) PROVE BusInv'
  BY <1>0, <1>6, CallStationBus
<1>7. ASSUME NEW r \in Runtime, Break(r) \/ Crash(r) \/ Resume(r) \/ Restart(r) PROVE BusInv'
  <2>1. UNCHANGED <<streamVars, record>>
    BY <1>7 DEF Break, Crash, Resume, Restart
  <2>2. Stop(r, "retry") \/ Stop(r, "down") \/ Stop(r, "loop")
    BY <1>7 DEF Break, Crash, Resume, Restart, Interrupt
  <2> QED  BY <1>0, <2>1, <2>2, StopBus
<1>8. CASE Tick
  BY <1>0, <1>8, ElapseBus DEF Tick
<1>9. ASSUME NEW c \in Command,
             Reject(c) \/ LookupLease(c) \/ LookupTTL(c) \/ ReturnTimeout(c)
      PROVE  UNCHANGED busVars
  BY <1>9 DEF Reject, LookupLease, LookupTTL, ReturnTimeout
<1>10. ASSUME NEW r \in Runtime, NEW s \in Station,
              Claim(r, s) \/ Enter(r, s) \/ Leave(r, s)
       PROVE  UNCHANGED busVars
  BY <1>10 DEF Claim, Enter, Leave
<1>11. ASSUME NEW s \in Station, LeaseEnds(s)
       PROVE  UNCHANGED busVars
  BY <1>11 DEF LeaseEnds
<1>12. CASE UNCHANGED vars
  BY <1>1, <1>12 DEF vars
<1> QED
  BY <1>1, <1>2, <1>3, <1>4, <1>5, <1>6, <1>7, <1>8, <1>9, <1>10, <1>11, <1>12, Zenon
  DEF Next, Serve, Work
\* The types of what is not the bus.
OwnerOK ==
  /\ holder \in [Station -> Lease \cup {None}] /\ generation \in 0..MaxGeneration
  /\ claimed \in [Runtime -> [Station -> 0..MaxGeneration]]
  /\ entries \in [Runtime -> [Station -> 0..MaxGeneration]]
  /\ granted \in [Runtime -> SUBSET (1..MaxGeneration)]
ApiOK ==
  /\ api \in [Command -> {"idle", "looking", "found", "awaiting", "returned"}]
  /\ addr \in [Command -> Lease \cup {None}]
  /\ left \in [Command -> 0..Deadline] /\ answer \in [Command -> Answers]
HistoryOK ==
  /\ runs \in [Command -> Nat] /\ finished \subseteq Command
  /\ interrupted \subseteq Command
  /\ faults \in 0..MaxFaults

\* The type invariant is the types of its parts.
LEMMA TypeParts == TypeOK <=> BusTypeOK /\ OwnerOK /\ ApiOK /\ HistoryOK
BY DEF TypeOK, OwnerOK, ApiOK, HistoryOK

\* No step gives the registry or the managers a value of another type.
LEMMA NextOwner == ASSUME TypeInv, [Next]_vars PROVE OwnerOK'
<1>0. OwnerOK
  BY TypeParts DEF TypeInv
<1> USE DeliveryAssumption
<1>1. CASE UNCHANGED ownerVars
  BY <1>0, <1>1 DEF OwnerOK, ownerVars
<1>2. ASSUME NEW r \in Runtime, NEW s \in Station, Claim(r, s) PROVE OwnerOK'
  <2>1. generation + 1 \in 1..MaxGeneration
    BY <1>0, <1>2 DEF Claim, OwnerOK
  <2>2. [owner |-> r, generation |-> generation + 1] \in Lease
    BY <2>1 DEF Lease
  <2>3. /\ holder' = [holder EXCEPT ![s] = [owner |-> r, generation |-> generation + 1]]
        /\ generation' = generation + 1
    BY <1>2 DEF Claim, Registry!Grant
  <2> QED  BY <1>0, <1>2, <2>1, <2>2, <2>3 DEF Claim, OwnerOK
<1>3. ASSUME NEW r \in Runtime, NEW s \in Station, Enter(r, s) PROVE OwnerOK'
  <2>1. claimed[r][s] \in 0..MaxGeneration
    BY <1>0 DEF OwnerOK
  <2>2. entries' \in [Runtime -> [Station -> 0..MaxGeneration]]
    <3>1. CASE entries' = [entries EXCEPT ![r][s] = claimed[r][s]]
      BY <1>0, <2>1, <3>1 DEF OwnerOK
    <3>2. CASE entries' = entries
      BY <1>0, <3>2 DEF OwnerOK
    <3> QED  BY <1>3, <3>1, <3>2 DEF Enter
  <2>3. claimed' \in [Runtime -> [Station -> 0..MaxGeneration]]
    BY <1>0, <1>3 DEF Enter, OwnerOK
  <2> QED  BY <1>0, <1>3, <2>2, <2>3 DEF Enter, OwnerOK
<1>4. ASSUME NEW r \in Runtime, NEW s \in Station, Leave(r, s) PROVE OwnerOK'
  BY <1>0, <1>4 DEF Leave, OwnerOK
<1>5. ASSUME NEW s \in Station, LeaseEnds(s) PROVE OwnerOK'
  BY <1>0, <1>5 DEF LeaseEnds, Registry!End, OwnerOK
<1>6. ASSUME NEW r \in Runtime, Crash(r) PROVE OwnerOK'
  BY <1>0, <1>6 DEF Crash, OwnerOK
<1>7. ASSUME NEW c \in Command, Serve(c) PROVE UNCHANGED ownerVars
  BY <1>7 DEF Serve, Reject, LookupLease, LookupTTL, Publish, PublishFails,
              ReturnResult, ReturnTimeout
<1>8. ASSUME NEW r \in Runtime, Work(r) \/ Break(r) \/ Restart(r) PROVE UNCHANGED ownerVars
  BY <1>8 DEF Work, Consume, Handle, CallStation, Resume, Break, Restart
<1>9. CASE Tick
  BY <1>1, <1>9 DEF Tick
<1>10. CASE UNCHANGED vars
  BY <1>1, <1>10 DEF vars
<1> QED  BY <1>1, <1>2, <1>3, <1>4, <1>5, <1>6, <1>7, <1>8, <1>9, <1>10, Zenon DEF Next

\* No step gives the handler a value of another type.
LEMMA NextApi == ASSUME TypeInv, [Next]_vars PROVE ApiOK'
<1>0. ApiOK /\ OwnerOK /\ BusInv
  BY TypeParts DEF TypeInv
<1> USE DeliveryAssumption
<1>1. CASE UNCHANGED apiVars
  BY <1>0, <1>1 DEF ApiOK, apiVars
<1>2. ASSUME NEW c \in Command, Reject(c) \/ PublishFails(c) \/ ReturnTimeout(c) PROVE ApiOK'
  BY <1>0, <1>2 DEF Reject, PublishFails, ReturnTimeout, ApiOK, Answers
<1>3. ASSUME NEW c \in Command, LookupLease(c) PROVE ApiOK'
  BY <1>0, <1>3 DEF LookupLease, ApiOK, OwnerOK
<1>4. ASSUME NEW c \in Command, LookupTTL(c) PROVE ApiOK'
  BY <1>0, <1>4 DEF LookupTTL, ApiOK, Answers
<1>5. ASSUME NEW c \in Command, Publish(c) PROVE ApiOK'
  BY <1>0, <1>5 DEF Publish, ApiOK
<1>6. ASSUME NEW c \in Command, ReturnResult(c) PROVE ApiOK'
  <2>1. Pop(c) /\ answer' = [answer EXCEPT ![c] = Head(record[c].list)]
    BY <1>6 DEF ReturnResult
  <2>2. Head(record[c].list) \in Result
    BY <1>0, <2>1, PopEffect, SeqHeadTail DEF Record
  <2> QED  BY <1>0, <1>6, <2>1, <2>2 DEF ReturnResult, ApiOK, Answers
<1>7. ASSUME NEW r \in Runtime, Work(r) \/ Break(r) \/ Crash(r) \/ Restart(r)
      PROVE  UNCHANGED apiVars
  BY <1>7 DEF Work, Consume, Handle, CallStation, Resume, Break, Crash, Restart
<1>8. CASE Tick
  <2>1. \A c \in Command : (IF api[c] \in {"idle", "looking"} \/ left[c] = 0 THEN left[c]
                            ELSE left[c] - 1) \in 0..Deadline
    BY <1>0 DEF ApiOK
  <2> QED  BY <1>0, <1>8, <2>1 DEF Tick, ApiOK
<1>9. ASSUME NEW r \in Runtime, NEW s \in Station, Claim(r, s) \/ Enter(r, s) \/ Leave(r, s)
      PROVE  UNCHANGED apiVars
  BY <1>9 DEF Claim, Enter, Leave
<1>10. ASSUME NEW s \in Station, LeaseEnds(s) PROVE UNCHANGED apiVars
  BY <1>10 DEF LeaseEnds
<1>11. CASE UNCHANGED vars
  BY <1>1, <1>11 DEF vars
<1> QED  BY <1>1, <1>2, <1>3, <1>4, <1>5, <1>6, <1>7, <1>8, <1>9, <1>10, <1>11, Zenon
         DEF Next, Serve
\* No step gives the history a value of another type.
LEMMA NextHistory == ASSUME TypeInv, [Next]_vars PROVE HistoryOK'
<1>0. HistoryOK /\ BusInv
  BY TypeParts DEF TypeInv
<1> USE DeliveryAssumption
<1>1. CASE UNCHANGED <<historyVars, faults>>
  BY <1>0, <1>1 DEF HistoryOK, historyVars
<1>2. ASSUME NEW r \in Runtime, Consume(r) PROVE HistoryOK'
  <2>1. worker[r].at = "complete" => CommandOf(r) \in Command
    BY <1>0, InHandOfStream DEF Busy
  <2>2. finished' \subseteq Command /\ UNCHANGED <<runs, interrupted, faults>>
    BY <1>0, <1>2, <2>1 DEF Consume, HistoryOK
  <2> QED  BY <1>0, <2>2 DEF HistoryOK
<1>3. ASSUME NEW r \in Runtime, CallStation(r) PROVE HistoryOK'
  <2>1. PICK called \in 0..1 : /\ worker[r].at = "call"
                               /\ runs' = [runs EXCEPT ![CommandOf(r)] = @ + called]
    BY <1>3, CallStationEffect, Zenon
  <2>2. CommandOf(r) \in Command
    BY <1>0, <2>1, InHandOfStream DEF Busy
  <2>3. runs[CommandOf(r)] + called \in Nat
    BY <1>0, <2>2 DEF HistoryOK
  <2>4. UNCHANGED <<finished, interrupted, faults>>
    BY <1>3 DEF CallStation
  <2> QED  BY <1>0, <2>1, <2>2, <2>3, <2>4 DEF HistoryOK
<1>4. ASSUME NEW r \in Runtime, Break(r) \/ Crash(r) PROVE HistoryOK'
  <2>1. worker[r].at = "complete" => CommandOf(r) \in Command
    BY <1>0, InHandOfStream DEF Busy
  <2>2. /\ faults < MaxFaults /\ faults' = faults + 1 /\ UNCHANGED <<runs, finished>>
        /\ interrupted' = IF worker[r].at = "complete" THEN interrupted \cup {CommandOf(r)}
                          ELSE interrupted
    BY <1>4 DEF Break, Crash, Interrupt
  <2>3. interrupted' \subseteq Command
    BY <1>0, <2>1, <2>2 DEF HistoryOK
  <2>4. faults' \in 0..MaxFaults
    BY <1>0, <2>2 DEF HistoryOK
  <2> QED  BY <1>0, <2>2, <2>3, <2>4 DEF HistoryOK
<1>5. ASSUME NEW c \in Command, Serve(c) PROVE UNCHANGED <<historyVars, faults>>
  BY <1>5 DEF Serve, Reject, LookupLease, LookupTTL, Publish, PublishFails,
              ReturnResult, ReturnTimeout
<1>6. ASSUME NEW r \in Runtime, Handle(r) \/ Resume(r) \/ Restart(r)
      PROVE  UNCHANGED <<historyVars, faults>>
  BY <1>6 DEF Handle, Resume, Restart
<1>7. CASE Tick
  BY <1>1, <1>7 DEF Tick
<1>8. ASSUME NEW r \in Runtime, NEW s \in Station, Claim(r, s) \/ Enter(r, s) \/ Leave(r, s)
      PROVE  UNCHANGED <<historyVars, faults>>
  BY <1>8 DEF Claim, Enter, Leave
<1>9. ASSUME NEW s \in Station, LeaseEnds(s) PROVE UNCHANGED <<historyVars, faults>>
  BY <1>9 DEF LeaseEnds
<1>10. CASE UNCHANGED vars
  BY <1>1, <1>10 DEF vars
<1> QED  BY <1>1, <1>2, <1>3, <1>4, <1>5, <1>6, <1>7, <1>8, <1>9, <1>10, Zenon
         DEF Next, Work

\* No step leaves the types.
LEMMA NextTypeInv == TypeInv /\ AddrInv /\ [Next]_vars => TypeInv'
<1> SUFFICES ASSUME TypeInv, AddrInv, [Next]_vars PROVE TypeInv'
  OBVIOUS
<1>1. BusInv' /\ OwnerOK' /\ ApiOK' /\ HistoryOK'
  BY NextBus, NextOwner, NextApi, NextHistory
<1>2. BusTypeOK'
  BY <1>1 DEF BusInv
<1>3. TypeOK'
  BY <1>1, <1>2, TypeParts, PTL
<1> QED  BY <1>1, <1>3 DEF TypeInv-----------------------------------------------------------------------------
\* What the handler of the API does to the command it serves and to no other.
LEMMA ServeEffect ==
  ASSUME TypeInv, NEW c \in Command, Serve(c)
  PROVE  /\ \A d \in Command \ {c} : /\ api'[d] = api[d] /\ addr'[d] = addr[d]
                                     /\ answer'[d] = answer[d]
         /\ left' = left
         /\ \/ Reject(c) \/ LookupLease(c) \/ LookupTTL(c)
            \/ /\ Publish(c) \/ PublishFails(c) \/ ReturnResult(c) \/ ReturnTimeout(c)
               /\ api'[c] \in {"awaiting", "returned"} /\ addr' = addr
               /\ answer'[c] \in Result \cup {answer[c], "publishFailed", "timeout"}
<1>0. ApiOK /\ BusInv
  BY TypeParts DEF TypeInv
<1>1. CASE Reject(c) \/ LookupLease(c) \/ LookupTTL(c)
  BY <1>0, <1>1 DEF Reject, LookupLease, LookupTTL, ApiOK
<1>2. CASE Publish(c) \/ PublishFails(c) \/ ReturnTimeout(c)
  BY <1>0, <1>2 DEF Publish, PublishFails, ReturnTimeout, ApiOK
<1>3. CASE ReturnResult(c)
  <2>1. Pop(c) /\ answer' = [answer EXCEPT ![c] = Head(record[c].list)]
    BY <1>3 DEF ReturnResult
  <2>2. Head(record[c].list) \in Result
    BY <1>0, <2>1, PopEffect, SeqHeadTail DEF Record
  <2> QED  BY <1>0, <1>3, <2>1, <2>2 DEF ReturnResult, ApiOK
<1> QED  BY <1>1, <1>2, <1>3 DEF Serve

\* A command that is in a stream stays what it is to the API.
LEMMA ServeAddressed ==
  ASSUME TypeInv, NEW c \in Command, Serve(c), NEW r \in Runtime, NEW d \in Command,
         Addressed(r, d)
  PROVE  Addressed(r, d)'
<1>1. CASE d # c
  BY <1>1, ServeEffect DEF Addressed, Published
<1>2. CASE d = c
  <2>1. ~Reject(c) /\ ~LookupLease(c) /\ ~LookupTTL(c)
    BY <1>2 DEF Addressed, Published, Reject, LookupLease, LookupTTL
  <2>2. /\ api'[c] \in {"awaiting", "returned"} /\ addr' = addr
        /\ answer'[c] \in Result \cup {answer[c], "publishFailed", "timeout"}
    BY <2>1, ServeEffect
  <2> QED  BY <1>2, <2>2 DEF Addressed, Published, Result
<1> QED  BY <1>1, <1>2

\* A command is added to the stream of its address only.
LEMMA NextAddressed ==
  ASSUME TypeInv, AddrInv, [Next]_vars
  PROVE  (\A r \in Runtime : \A i \in 1..Len(log[r]) : Addressed(r, log[r][i]))'
<1>0. BusInv /\ log \in [Runtime -> Seq(Command)]
  BY DEF TypeInv, BusInv, BusTypeOK
<1>1. \A r \in Runtime : \A i \in 1..Len(log[r]) : log[r][i] \in Command
  BY <1>0, SeqLen
<1>2. \A r \in Runtime : \A i \in 1..Len(log[r]) : Addressed(r, log[r][i])
  BY DEF AddrInv
<1> SUFFICES ASSUME NEW r \in Runtime, NEW i \in 1..Len(log'[r])
             PROVE  Addressed(r, log[r][i])'
  OBVIOUS
<1>3. CASE UNCHANGED <<log, api, addr, answer>>
  BY <1>2, <1>3 DEF Addressed, Published
<1>4. ASSUME NEW c \in Command, Serve(c), UNCHANGED log PROVE Addressed(r, log[r][i])'
  <2>1. \A d \in Command : Addressed(r, d) => Addressed(r, d)'
    BY <1>4, ServeAddressed
  <2> QED  BY <1>1, <1>2, <1>4, <2>1 DEF Addressed, Published
<1>5. ASSUME NEW c \in Command, Publish(c) \/ PublishFails(c) PROVE Addressed(r, log[r][i])'
  <2>1. Serve(c)
    BY <1>5 DEF Serve
  <2>2. PICK n \in Nat : XAdd(c, n, addr[c].owner)
    BY <1>5, PublishAddress
  <2>3. addr[c].owner \in Runtime /\ api[c] = "found" /\ addr[c] # None /\ answer[c] = "none"
    BY <1>5, PublishAddress DEF AddrInv, Answered
  <2>4. CASE r # addr[c].owner \/ i <= Len(log[r])
    <3>1. i \in 1..Len(log[r]) /\ log'[r][i] = log[r][i]
      BY <1>0, <2>2, <2>3, <2>4, XAddEffect, SeqLen
    <3>2. \A d \in Command : Addressed(r, d) => Addressed(r, d)'
      BY <2>1, ServeAddressed
    <3> QED  BY <1>1, <1>2, <3>1, <3>2 DEF Addressed, Published
  <2>5. CASE r = addr[c].owner /\ i > Len(log[r])
    <3>1. log'[r][i] = c
      BY <1>0, <2>2, <2>3, <2>5, XAddEffect
    <3>2. addr' = addr /\ api'[c] \in {"awaiting", "returned"}
          /\ answer'[c] \in {"none", "publishFailed"}
      BY <1>5, <2>3, TypeParts DEF TypeInv, Publish, PublishFails, ApiOK
    <3> QED  BY <2>3, <2>5, <3>1, <3>2 DEF Addressed, Published
  <2>6. i > Len(log[r]) \/ i <= Len(log[r])
    BY <1>0, SeqLen
  <2> QED  BY <2>4, <2>5, <2>6
<1>6. ASSUME NEW c \in Command,
             Reject(c) \/ LookupLease(c) \/ LookupTTL(c) \/ ReturnResult(c) \/ ReturnTimeout(c)
      PROVE  Serve(c) /\ UNCHANGED log
  BY <1>6 DEF Serve, Reject, LookupLease, LookupTTL, ReturnResult, Pop, ReturnTimeout,
              busVars, streamVars
<1>7. ASSUME NEW q \in Runtime, Work(q) \/ Break(q) \/ Crash(q) \/ Restart(q)
      PROVE  UNCHANGED <<log, api, addr, answer>>
  BY <1>7, Zenon DEF Work, Consume, Call, Recover, Read, Check, Complete, Ack, Handle, CallStation,
              Resume, Break, Crash, Restart, streamVars, apiVars
<1>8. CASE Tick
  BY <1>3, <1>8 DEF Tick, BusElapse, Ageing
<1>9. ASSUME NEW q \in Runtime, NEW s \in Station, Claim(q, s) \/ Enter(q, s) \/ Leave(q, s)
      PROVE  UNCHANGED <<log, api, addr, answer>>
  BY <1>9 DEF Claim, Enter, Leave, busVars, streamVars, apiVars
<1>10. ASSUME NEW s \in Station, LeaseEnds(s) PROVE UNCHANGED <<log, api, addr, answer>>
  BY <1>10 DEF LeaseEnds, busVars, streamVars, apiVars
<1>11. CASE UNCHANGED vars
  BY <1>3, <1>11 DEF vars, busVars, streamVars, apiVars
<1> QED  BY <1>3, <1>4, <1>5, <1>6, <1>7, <1>8, <1>9, <1>10, <1>11, Zenon
         DEF Next, Serve
\* The handler publishes only what it looked up, and has answered only when it
\* has returned.
LEMMA NextAnswered ==
  ASSUME TypeInv, AddrInv, [Next]_vars
  PROVE  (\A c \in Command : Answered(c))'
<1> SUFFICES ASSUME NEW d \in Command PROVE Answered(d)'
  OBVIOUS
<1>0. Answered(d) /\ ApiOK
  BY TypeParts DEF AddrInv, TypeInv
<1>1. CASE UNCHANGED <<api, addr, answer>>
  BY <1>0, <1>1 DEF Answered
<1>2. ASSUME NEW c \in Command, Serve(c) PROVE Answered(d)'
  <2>1. CASE d # c
    BY <1>0, <1>2, <2>1, ServeEffect, ZenonT(60) DEF Answered
  <2>2. CASE d = c
    BY <1>0, <1>2, <2>2 DEF Answered, ApiOK, Serve, Reject, LookupLease, LookupTTL, Publish,
       PublishFails, ReturnResult, ReturnTimeout
  <2> QED  BY <2>1, <2>2
<1>3. ASSUME NEW q \in Runtime, Work(q) \/ Break(q) \/ Crash(q) \/ Restart(q)
      PROVE  UNCHANGED <<api, addr, answer>>
  BY <1>3 DEF Work, Consume, Handle, CallStation, Resume, Break, Crash, Restart, apiVars
<1>4. CASE Tick
  BY <1>1, <1>4 DEF Tick
<1>5. ASSUME NEW q \in Runtime, NEW s \in Station, Claim(q, s) \/ Enter(q, s) \/ Leave(q, s)
      PROVE  UNCHANGED <<api, addr, answer>>
  BY <1>5 DEF Claim, Enter, Leave, apiVars
<1>6. ASSUME NEW s \in Station, LeaseEnds(s) PROVE UNCHANGED <<api, addr, answer>>
  BY <1>6 DEF LeaseEnds, apiVars
<1>7. CASE UNCHANGED vars
  BY <1>1, <1>7 DEF vars, apiVars
<1> QED  BY <1>1, <1>2, <1>3, <1>4, <1>5, <1>6, <1>7, Zenon DEF Next

\* A manager has only generations in it that its process was granted.
LEMMA NextGranted ==
  ASSUME TypeInv, AddrInv, [Next]_vars
  PROVE  (\A r \in Runtime, s \in Station : Granted(r, s))'
<1> SUFFICES ASSUME NEW q \in Runtime, NEW t \in Station PROVE Granted(q, t)'
  OBVIOUS
<1>0. Granted(q, t) /\ OwnerOK
  BY TypeParts DEF AddrInv, TypeInv
<1>1. CASE UNCHANGED <<claimed, entries, granted>>
  BY <1>0, <1>1 DEF Granted
<1>2. ASSUME NEW r \in Runtime, NEW s \in Station, Claim(r, s) PROVE Granted(q, t)'
  BY <1>0, <1>2 DEF Claim, Granted, OwnerOK
<1>3. ASSUME NEW r \in Runtime, NEW s \in Station, Enter(r, s) PROVE Granted(q, t)'
  <2>1. claimed' = [claimed EXCEPT ![r][s] = 0] /\ granted' = granted
    BY <1>3 DEF Enter
  <2>2. CASE entries' = [entries EXCEPT ![r][s] = claimed[r][s]]
    BY <1>0, <2>1, <2>2 DEF Granted, OwnerOK
  <2>3. CASE entries' = entries
    BY <1>0, <2>1, <2>3 DEF Granted, OwnerOK
  <2> QED  BY <1>3, <2>2, <2>3 DEF Enter
<1>4. ASSUME NEW r \in Runtime, NEW s \in Station, Leave(r, s) PROVE Granted(q, t)'
  BY <1>0, <1>4 DEF Leave, Granted, OwnerOK
<1>5. ASSUME NEW r \in Runtime, Crash(r) PROVE Granted(q, t)'
  BY <1>0, <1>5 DEF Crash, Granted, OwnerOK
<1>6. ASSUME NEW c \in Command, Serve(c) PROVE UNCHANGED <<claimed, entries, granted>>
  BY <1>6, Zenon DEF Serve, Reject, LookupLease, LookupTTL, Publish, PublishFails,
              ReturnResult, ReturnTimeout, ownerVars
<1>7. ASSUME NEW r \in Runtime, Work(r) \/ Break(r) \/ Restart(r)
      PROVE  UNCHANGED <<claimed, entries, granted>>
  BY <1>7 DEF Work, Consume, Handle, CallStation, Resume, Break, Restart, ownerVars
<1>8. CASE Tick
  BY <1>1, <1>8, Zenon DEF Tick, ownerVars
<1>9. ASSUME NEW s \in Station, LeaseEnds(s) PROVE UNCHANGED <<claimed, entries, granted>>
  BY <1>9 DEF LeaseEnds
<1>10. CASE UNCHANGED vars
  BY <1>1, <1>10 DEF vars, ownerVars
<1> QED  BY <1>1, <1>2, <1>3, <1>4, <1>5, <1>6, <1>7, <1>8, <1>9, <1>10, Zenon DEF Next

\* No step sends a command astray.
LEMMA NextAddrInv == TypeInv /\ AddrInv /\ [Next]_vars => AddrInv'
BY NextAddressed, NextAnswered, NextGranted DEF AddrInv
-----------------------------------------------------------------------------
(***************************************************************************)
(* What a completion record, a run and an answer say of each other.        *)
(***************************************************************************)

\* A result may be given to the caller: it is what happened at the station.
Truth(c, result) ==
  /\ result = "success" => runs[c] > 0
  /\ result = "refused" /\ left[c] # 0 /\ c \notin interrupted => runs[c] = 0

\* A completion record outlives the deadline of its command; and a call of the
\* station is on record, or lost, or in the hands of a consumer.
Kept(c) ==
  /\ record[c] # None => c \in finished /\ left[c] < record[c].ttl
  /\ c \in finished /\ record[c] = None => left[c] = 0
  /\ c \in finished \/ runs[c] > 0 => Published(c)
  /\ record[c] # None =>
       /\ Truth(c, record[c].result)
       /\ \A i \in 1..Len(record[c].list) : Truth(c, record[c].list[i])
  /\ answer[c] \in Result => c \in finished
  /\ answer[c] = "success" => runs[c] > 0
  /\ answer[c] = "refused" /\ c \notin interrupted => runs[c] = 0
  /\ c \notin interrupted => runs[c] <= 1
  /\ c \notin interrupted /\ c \notin finished /\ runs[c] > 0 =>
       \E r \in Runtime : worker[r].at = "complete" /\ CommandOf(r) = c

\* What the consumer knows of the command in its hands.
Known(r) ==
  /\ worker[r].at = "handle" => record[CommandOf(r)] = None
  /\ worker[r].at = "call" => /\ CommandOf(r) \notin finished
                              /\ addr[CommandOf(r)].generation \in granted[r]
  /\ worker[r].at = "complete" => Truth(CommandOf(r), worker[r].result)
  /\ worker[r].at = "ack" => CommandOf(r) \in finished

RunInv == (\A c \in Command : Kept(c)) /\ (\A r \in Runtime : Known(r))

IInv == TypeInv /\ AddrInv /\ RunInv /\ NothingDropped
-----------------------------------------------------------------------------
\* The command in hand is the same as long as the batch is.
LEMMA SameHand ==
  ASSUME BusInv, NEW r \in Runtime, worker[r].at \in Busy,
         worker'[r].batch = worker[r].batch,
         \A i \in 1..Len(log[r]) : log'[r][i] = log[r][i]
  PROVE  CommandOf(r)' = CommandOf(r)
<1>1. InHand(r) \in 1..Len(log[r])
  BY InHandOfStream
<1>2. InHand(r)' = InHand(r)
  BY DEF InHand
<1> QED  BY <1>1, <1>2 DEF CommandOf

\* No two consumers have the same command in hand.
LEMMA OneHand ==
  ASSUME TypeInv, AddrInv, NEW q \in Runtime, NEW r \in Runtime,
         worker[q].at \in Busy, worker[r].at \in Busy, CommandOf(q) = CommandOf(r)
  PROVE  q = r
<1>1. InHand(q) \in 1..Len(log[q]) /\ InHand(r) \in 1..Len(log[r])
  BY InHandOfStream DEF TypeInv
<1>2. Addressed(q, CommandOf(q)) /\ Addressed(r, CommandOf(r))
  BY <1>1 DEF AddrInv, CommandOf
<1> QED  BY <1>2 DEF Addressed

\* What a step that does not touch a command leaves true of it.
LEMMA KeptFrame ==
  ASSUME NEW c \in Command, Kept(c),
         record'[c] = record[c], left'[c] = left[c], runs'[c] = runs[c],
         answer'[c] = answer[c], Published(c) => Published(c)',
         c \in finished' <=> c \in finished, c \in interrupted' <=> c \in interrupted,
         \A r \in Runtime : worker[r].at = "complete" /\ CommandOf(r) = c =>
           worker'[r].at = "complete" /\ CommandOf(r)' = c
  PROVE  Kept(c)'
BY DEF Kept, Truth

\* What a step that does not touch a consumer leaves true of it.
LEMMA KnownFrame ==
  ASSUME TypeInv, NEW r \in Runtime, Known(r),
         worker'[r].at = worker[r].at, worker'[r].result = worker[r].result,
         worker[r].at \in Busy => CommandOf(r)' = CommandOf(r),
         worker[r].at \in Busy =>
           /\ record[CommandOf(r)] = None => record'[CommandOf(r)] = None
           /\ CommandOf(r) \in finished' <=> CommandOf(r) \in finished
           /\ addr'[CommandOf(r)] = addr[CommandOf(r)]
           /\ runs'[CommandOf(r)] = runs[CommandOf(r)]
           /\ left'[CommandOf(r)] # 0 => left[CommandOf(r)] # 0
           /\ CommandOf(r) \in interrupted => CommandOf(r) \in interrupted',
         worker[r].at = "call" => granted[r] \subseteq granted'[r]
  PROVE  Known(r)'
<1>1. CASE worker[r].at \in Busy
  BY <1>1 DEF Known, Busy, Truth
<1>2. CASE worker[r].at \notin Busy
  BY <1>2 DEF Known, Busy
<1> QED  BY <1>1, <1>2, Zenon
\* A step of one consumer that has no result in hand, and of nobody else.
LEMMA MoveRun ==
  ASSUME TypeInv, AddrInv, RunInv, NEW r \in Runtime, NEW w,
         worker' = [worker EXCEPT ![r] = w], worker[r].at # "complete",
         UNCHANGED <<log, record, apiVars, historyVars, granted>>, Known(r)'
  PROVE  RunInv'
<1>0. BusInv /\ worker \in [Runtime -> Worker]
  BY DEF TypeInv, BusInv, BusTypeOK
<1>1. ASSUME NEW q \in Runtime, q # r, worker[q].at \in Busy PROVE CommandOf(q)' = CommandOf(q)
  BY <1>0, <1>1, SameHand, Zenon
<1>2. ASSUME NEW c \in Command PROVE Kept(c)'
  <2>1. \A q \in Runtime : worker[q].at = "complete" /\ CommandOf(q) = c =>
          worker'[q].at = "complete" /\ CommandOf(q)' = c
    BY <1>0, <1>1 DEF Busy
  <2> QED  BY <2>1, KeptFrame DEF RunInv, Published, apiVars, historyVars
<1>3. ASSUME NEW q \in Runtime PROVE Known(q)'
  <2>1. CASE q # r
    <3>1. worker'[q] = worker[q] /\ Known(q)
      BY <1>0, <2>1 DEF RunInv
    <3> QED  BY <1>1, <2>1, <3>1, KnownFrame DEF apiVars, historyVars
  <2> QED  BY <2>1
<1> QED  BY <1>2, <1>3 DEF RunInv

\* XAUTOCLAIM, XREADGROUP and XACK start a new message or none.
LEMMA RecoverReadAckRun ==
  ASSUME TypeInv, AddrInv, RunInv, NEW r \in Runtime, Recover(r) \/ Read(r) \/ Ack(r),
         UNCHANGED <<granted, apiVars, historyVars>>
  PROVE  RunInv'
<1>0. BusInv /\ BusTypeOK /\ worker[r] \in Worker
  BY DEF TypeInv, BusInv, BusTypeOK
<1>1. worker[r].at # "complete" /\ UNCHANGED <<log, record>>
  BY DEF Recover, Read, Ack, streamVars
<1>2. \E w : /\ worker' = [worker EXCEPT ![r] = w]
             /\ w.at \in {"check", "read", "loop"}
  <2>1. CASE Recover(r)
    <3> DEFINE gone == {i \in pending[r] : i <= trimmed[r]}
               due == gone \cup {i \in pending[r] : idle[r][i] = MinIdle}
               taken == {i \in due : Cardinality({j \in due : j < i}) < BatchSize}
               v == [worker[r] EXCEPT !.recovering = TRUE]
    <3>1. worker' = [worker EXCEPT ![r] = Proceed(v, taken \ gone)]
      BY <2>1, Zenon DEF Recover
    <3>2. v \in Worker /\ taken \ gone \in SUBSET ID
      BY <1>0, Zenon DEF BusTypeOK, Worker
    <3> HIDE DEF v, taken, gone
    <3> QED  BY <3>1, <3>2, ProceedType, Zenon
  <2>2. CASE Read(r)
    <3>1. CASE worker' = [worker EXCEPT ![r].at = "loop"]
      <4>1. worker' = [worker EXCEPT ![r] = [worker[r] EXCEPT !.at = "loop"]]
        BY <3>1
      <4>2. [worker[r] EXCEPT !.at = "loop"].at = "loop"
        BY <1>0 DEF Worker
      <4> QED  BY <4>1, <4>2, Zenon
    <3>2. CASE /\ NextID(r) \in ID
               /\ worker' = [worker EXCEPT ![r] = Proceed(worker[r], {NextID(r)})]
      BY <1>0, <3>2, ProceedType, Zenon
    <3> QED  BY <1>0, <2>2, <3>1, <3>2, ReadEffect, Zenon
  <2>3. CASE Ack(r)
    <3>1. worker' = [worker EXCEPT ![r] = Proceed(worker[r], worker[r].batch \ {InHand(r)})]
      BY <2>3 DEF Ack
    <3>2. worker[r].batch \ {InHand(r)} \in SUBSET ID
      BY <1>0 DEF Worker
    <3> QED  BY <1>0, <3>1, <3>2, ProceedType, Zenon
  <2> QED  BY <2>1, <2>2, <2>3
<1>3. PICK w : worker' = [worker EXCEPT ![r] = w] /\ w.at \in {"check", "read", "loop"}
  BY <1>2, Zenon
<1>4. worker'[r].at \in {"check", "read", "loop"}
  BY <1>0, <1>3 DEF BusTypeOK
<1>5. Known(r)'
  BY <1>4 DEF Known
<1> QED  BY <1>1, <1>3, <1>5, MoveRun, Zenon
\* A command that is about to run has not run, unless the result was lost.
LEMMA NotRun ==
  ASSUME TypeInv, AddrInv, RunInv, NEW r \in Runtime, worker[r].at \in {"handle", "call"},
         CommandOf(r) \notin finished, CommandOf(r) \notin interrupted
  PROVE  runs[CommandOf(r)] = 0
<1>1. CommandOf(r) \in Command
  BY InHandOfStream DEF TypeInv, Busy
<1>2. runs[CommandOf(r)] \in Nat /\ Kept(CommandOf(r))
  BY <1>1 DEF TypeInv, TypeOK, RunInv
<1>3. ASSUME NEW q \in Runtime, worker[q].at = "complete", CommandOf(q) = CommandOf(r)
      PROVE  FALSE
  <2>1. q = r
    BY <1>3, OneHand DEF Busy
  <2> QED  BY <1>3, <2>1
<1> QED  BY <1>2, <1>3 DEF Kept

\* completed() hands over the result on record.
LEMMA CheckRun ==
  ASSUME TypeInv, AddrInv, RunInv, NEW r \in Runtime, Check(r),
         UNCHANGED <<granted, apiVars, historyVars>>
  PROVE  RunInv'
<1> DEFINE c == CommandOf(r)
<1>0. BusInv /\ worker \in [Runtime -> Worker] /\ worker[r] \in Worker
  BY DEF TypeInv, BusInv, BusTypeOK
<1>1. worker[r].at = "check" /\ UNCHANGED <<log, record>>
  BY <1>0, CheckEffect, Zenon DEF streamVars
<1>2. c \in Command /\ Kept(c)
  BY <1>0, <1>1, InHandOfStream DEF Busy, RunInv
<1>3. CASE record[c] = None /\ worker' = [worker EXCEPT ![r] = [@ EXCEPT !.at = "handle"]]
  <2>1. worker'[r].at = "handle" /\ worker'[r].batch = worker[r].batch
    BY <1>0, <1>3, Zenon DEF Worker
  <2>2. CommandOf(r)' = c
    BY <1>0, <1>1, <2>1, SameHand DEF Busy
  <2>3. Known(r)'
    BY <1>1, <1>3, <2>1, <2>2 DEF Known
  <2> QED  BY <1>1, <1>3, <2>3, MoveRun, Zenon
<1>4. CASE /\ record[c] \in Record
           /\ worker' = [worker EXCEPT ![r] = [@ EXCEPT
                !.at = "complete", !.result = record[c].result]]
  <2>1. /\ worker'[r].at = "complete" /\ worker'[r].batch = worker[r].batch
        /\ worker'[r].result = record[c].result
    BY <1>0, <1>4 DEF Worker
  <2>2. CommandOf(r)' = c
    BY <1>0, <1>1, <2>1, SameHand, Zenon DEF Busy
  <2>3. Truth(c, record[c].result)
    BY <1>2, <1>4, NoRecordAssumption, Zenon DEF Kept
  <2>4. Known(r)'
    BY <2>1, <2>2, <2>3 DEF Known, Truth, apiVars, historyVars
  <2> QED  BY <1>1, <1>4, <2>4, MoveRun, Zenon
<1> QED  BY <1>0, <1>3, <1>4, CheckEffect, Zenon

\* handleCommand refuses truthfully, and goes on only with a command that has no
\* completion and for a generation its process was granted.
LEMMA HandleRun ==
  ASSUME TypeInv, AddrInv, RunInv, NEW r \in Runtime, Handle(r)
  PROVE  RunInv'
<1> DEFINE c == CommandOf(r)
<1>0. BusInv /\ worker \in [Runtime -> Worker] /\ worker[r] \in Worker /\ OwnerOK /\ ApiOK
  BY TypeParts DEF TypeInv, BusInv, BusTypeOK
<1>1. /\ worker[r].at = "handle" /\ UNCHANGED <<log, record, apiVars, historyVars, granted>>
  BY DEF Handle, streamVars, ownerVars
<1>2. c \in Command /\ Kept(c) /\ record[c] = None
  BY <1>0, <1>1, InHandOfStream, Zenon DEF Busy, RunInv, Known
<1>3. left[c] # 0 => c \notin finished
  BY <1>2 DEF Kept
<1>4. CASE worker' = [worker EXCEPT ![r] = [@ EXCEPT !.at = "complete", !.result = "refused"]]
  <2>1. /\ worker'[r].at = "complete" /\ worker'[r].batch = worker[r].batch
        /\ worker'[r].result = "refused"
    BY <1>0, <1>4, Zenon DEF Worker
  <2>2. CommandOf(r)' = c
    BY <1>0, <1>1, <2>1, SameHand, Zenon DEF Busy
  <2>3. Truth(c, "refused")
    BY <1>1, <1>3, NotRun, Zenon DEF Truth
  <2>4. Known(r)'
    BY <1>1, <2>1, <2>2, <2>3 DEF Known, Truth, apiVars, historyVars
  <2> QED  BY <1>1, <1>4, <2>4, MoveRun, Zenon
<1>5. CASE /\ left[c] # 0 /\ entries[r][For[c]] = addr[c].generation
           /\ worker' = [worker EXCEPT ![r] = [@ EXCEPT !.at = "call"]]
  <2>1. worker'[r].at = "call" /\ worker'[r].batch = worker[r].batch
    BY <1>0, <1>5 DEF Worker
  <2>2. CommandOf(r)' = c
    BY <1>0, <1>1, <2>1, SameHand, ZenonT(60) DEF Busy
  <2>3. addr[c].generation \in 1..MaxGeneration /\ For[c] \in Station
    <3>1. InHand(r) \in 1..Len(log[r])
      BY <1>0, <1>1, InHandOfStream DEF Busy
    <3>2. Addressed(r, c)
      BY <3>1 DEF AddrInv, CommandOf
    <3> QED  BY <1>0, <1>2, <3>2, DeliveryAssumption DEF Addressed, ApiOK, Lease
  <2>4. addr[c].generation \in granted[r]
    BY <1>5, <2>3 DEF AddrInv, Granted
  <2>5. Known(r)'
    BY <1>1, <1>3, <1>5, <2>1, <2>2, <2>4, Zenon DEF Known, apiVars, historyVars
  <2> QED  BY <1>1, <1>5, <2>5, MoveRun, Zenon
<1> QED  BY <1>4, <1>5, HandleEffect, Zenon
\* The station is called for a command that has no completion, and the result in
\* hand says whether it was.
LEMMA CallStationRun ==
  ASSUME TypeInv, AddrInv, RunInv, NEW r \in Runtime, CallStation(r)
  PROVE  RunInv'
<1> DEFINE c == CommandOf(r)
<1>0. /\ BusInv /\ worker \in [Runtime -> Worker] /\ worker[r] \in Worker
      /\ runs \in [Command -> Nat]
  BY TypeParts DEF TypeInv, BusInv, BusTypeOK, HistoryOK
<1>1. PICK result \in Result, called \in 0..1 :
        /\ worker[r].at = "call"
        /\ result = "success" => called = 1
        /\ result = "refused" => called = 0
        /\ worker' = [worker EXCEPT ![r] = [@ EXCEPT !.at = "complete", !.result = result]]
        /\ runs' = [runs EXCEPT ![CommandOf(r)] = @ + called]
        /\ UNCHANGED <<streamVars, record>>
  BY CallStationEffect, Zenon
<1>2. UNCHANGED <<log, record, apiVars, finished, interrupted, granted>>
  BY DEF CallStation, streamVars, ownerVars
<1>3. /\ c \in Command /\ Kept(c) /\ c \notin finished
      /\ InHand(r) \in 1..Len(log[r])
  BY <1>0, <1>1, InHandOfStream DEF Busy, RunInv, Known
<1>4. c \notin interrupted => runs[c] = 0
  BY <1>1, <1>3, NotRun
<1>5. /\ worker'[r].at = "complete" /\ worker'[r].batch = worker[r].batch
      /\ worker'[r].result = result
  BY <1>0, <1>1 DEF Worker
<1>6. CommandOf(r)' = c
  BY <1>0, <1>1, <1>2, <1>5, SameHand, Zenon DEF Busy
<1>7. ASSUME NEW q \in Runtime, q # r, worker[q].at \in Busy
      PROVE  CommandOf(q)' = CommandOf(q) /\ CommandOf(q) # c
  <2>1. worker'[q] = worker[q]
    BY <1>0, <1>1, <1>7, Zenon
  <2> QED  BY <1>0, <1>1, <1>2, <1>7, <2>1, SameHand, OneHand DEF Busy
<1>8. ASSUME NEW d \in Command PROVE Kept(d)'
  <2>1. CASE d = c
    <3>1. Published(c)
      BY <1>3 DEF AddrInv, Addressed, CommandOf
    <3>2. runs[c] \in Nat /\ runs'[c] = runs[c] + called
      BY <1>0, <1>1, <1>3, ZenonT(60)
    <3>3. c \notin interrupted => runs'[c] <= 1
      BY <1>4, <3>2
    <3>4. answer[c] \notin Result /\ record[c] = None
      BY <1>3, Zenon DEF Kept
    <3>5. Published(d)'
      BY <1>2, <2>1, <3>1, Zenon DEF Published, apiVars
    <3>6. /\ d \notin finished' /\ record'[d] = None /\ answer'[d] \notin Result
          /\ d \notin interrupted' => runs'[d] <= 1
      BY <1>2, <1>3, <2>1, <3>3, <3>4, ZenonT(60) DEF apiVars
    <3>7. \E q \in Runtime : worker'[q].at = "complete" /\ CommandOf(q)' = d
      BY <1>5, <1>6, <2>1, Zenon
    <3>8. "success" \in Result /\ "refused" \in Result
      BY DEF Result
    <3> QED  BY <3>5, <3>6, <3>7, <3>8, ZenonT(60) DEF Kept
  <2>2. CASE d # c
    <3>1. \A q \in Runtime : worker[q].at = "complete" /\ CommandOf(q) = d =>
            worker'[q].at = "complete" /\ CommandOf(q)' = d
      BY <1>0, <1>1, <1>7 DEF Busy
    <3>2. runs'[d] = runs[d]
      BY <1>0, <1>1, <2>2
    <3> QED  BY <1>2, <3>1, <3>2, KeptFrame, Zenon DEF RunInv, Published, apiVars
  <2> QED  BY <2>1, <2>2, ZenonT(60)
<1>9. ASSUME NEW q \in Runtime PROVE Known(q)'
  <2>1. CASE q = r
    <3>1. runs[c] \in Nat /\ runs'[c] = runs[c] + called
      BY <1>0, <1>1, <1>3
    <3>2. result = "success" => runs'[c] > 0
      BY <1>1, <3>1
    <3>3. result = "refused" /\ c \notin interrupted => runs'[c] = 0
      BY <1>1, <1>4, <3>1
    <3> QED  BY <1>2, <1>5, <1>6, <2>1, <3>2, <3>3 DEF Known, Truth
  <2>2. CASE q # r
    <3>1. worker'[q] = worker[q] /\ Known(q)
      BY <1>0, <1>1, <2>2, Zenon DEF RunInv
    <3>2. worker[q].at \in Busy => CommandOf(q)' = CommandOf(q) /\ CommandOf(q) # c
      BY <1>7, <2>2, Zenon
    <3>3. worker[q].at \in Busy => runs'[CommandOf(q)] = runs[CommandOf(q)]
      <4>1. worker[q].at \in Busy => CommandOf(q) \in Command
        BY <1>0, InHandOfStream, Zenon
      <4> QED  BY <1>0, <1>1, <3>2, <4>1, Zenon
    <3> QED  BY <1>2, <3>1, <3>2, <3>3, KnownFrame, Zenon DEF apiVars
  <2> QED  BY <2>1, <2>2, Zenon
<1> QED  BY <1>8, <1>9 DEF RunInv

\* complete() puts on record what happened.
LEMMA CompleteRun ==
  ASSUME TypeInv, AddrInv, RunInv, NEW r \in Runtime, Complete(r),
         UNCHANGED <<granted, apiVars, runs, interrupted>>,
         finished' = finished \cup {CommandOf(r)}
  PROVE  RunInv'
<1> DEFINE c == CommandOf(r)
<1>0. /\ BusInv /\ worker \in [Runtime -> Worker] /\ worker[r] \in Worker
      /\ record \in [Command -> Record \cup {None}] /\ left \in [Command -> 0..Deadline]
  BY TypeParts DEF TypeInv, BusInv, BusTypeOK, ApiOK
<1>1. PICK list \in Seq(Result) :
        /\ worker[r].at = "complete" /\ worker[r].result \in Result
        /\ list = (IF record[c] = None THEN <<>> ELSE record[c].list)
        /\ record' = [record EXCEPT ![c] =
             [result |-> worker[r].result, list |-> Append(list, worker[r].result),
              ttl |-> ResultTTL]]
        /\ record'[c] \in Record
        /\ worker' = [worker EXCEPT ![r] = [@ EXCEPT !.at = "ack"]]
        /\ UNCHANGED streamVars
  BY <1>0, CompleteEffect, Zenon
<1>2. log' = log
  BY <1>1 DEF streamVars
<1>3. /\ c \in Command /\ Kept(c) /\ InHand(r) \in 1..Len(log[r])
      /\ Truth(c, worker[r].result)
  BY <1>0, <1>1, InHandOfStream, Zenon DEF Busy, RunInv, Known
<1>4. worker'[r].at = "ack" /\ worker'[r].batch = worker[r].batch
  BY <1>0, <1>1, Zenon DEF Worker
<1>5. CommandOf(r)' = c
  BY <1>0, <1>1, <1>2, <1>4, SameHand, Zenon DEF Busy
<1>6. ASSUME NEW q \in Runtime, q # r, worker[q].at \in Busy
      PROVE  CommandOf(q)' = CommandOf(q) /\ CommandOf(q) # c
  <2>1. worker'[q] = worker[q]
    BY <1>0, <1>1, <1>6
  <2> QED  BY <1>0, <1>1, <1>2, <1>6, <2>1, SameHand, OneHand DEF Busy
<1>7. ASSUME NEW d \in Command PROVE Kept(d)'
  <2>1. CASE d = c
    <3>1. Published(d)'
      BY <1>3, <2>1 DEF AddrInv, Addressed, Published, CommandOf, apiVars
    <3>2. /\ record'[c].result = worker[r].result /\ record'[c].ttl = ResultTTL
          /\ record'[c].list = Append(list, worker[r].result)
      BY <1>0, <1>1, <1>3, ZenonT(60)
    <3>3. left'[c] < record'[c].ttl
      BY <1>0, <1>3, <3>2, DeliveryAssumption, BusAssumption DEF apiVars
    <3>4. \A i \in 1..Len(list) : Truth(c, list[i])
      <4>1. CASE record[c] = None
        BY <1>1, <4>1, SeqEmpty
      <4>2. CASE record[c] # None
        BY <1>1, <1>3, <4>2, Zenon DEF Kept
      <4> QED  BY <4>1, <4>2, Zenon
    <3>5. \A i \in 1..Len(record'[c].list) : Truth(c, record'[c].list[i])
      <4>1. /\ Len(Append(list, worker[r].result)) = Len(list) + 1 /\ Len(list) \in Nat
            /\ \A i \in 1..Len(list) : Append(list, worker[r].result)[i] = list[i]
            /\ Append(list, worker[r].result)[Len(list) + 1] = worker[r].result
        BY <1>1, SeqAppend, SeqLen
      <4>2. ASSUME NEW i \in 1..Len(record'[c].list) PROVE Truth(c, record'[c].list[i])
        <5>1. CASE i = Len(list) + 1
          BY <1>3, <3>2, <4>1, <5>1, Zenon
        <5>2. CASE i # Len(list) + 1
          <6>1. i \in 1..Len(list)
            BY <3>2, <4>1, <5>2
          <6> QED  BY <3>2, <3>4, <4>1, <6>1, ZenonT(60)
        <5> QED  BY <5>1, <5>2, Zenon
      <4> QED  BY <4>2, Zenon
    <3>6. (Truth(d, record[d].result) /\ \A i \in 1..Len(record[d].list) :
             Truth(d, record[d].list[i]))'
      BY <1>3, <2>1, <3>2, <3>5, Zenon DEF Truth, apiVars
    <3>7. d \in finished' /\ (left[d] < record[d].ttl)' /\ record'[d] # None
      BY <1>1, <2>1, <3>3, NoRecordAssumption, Zenon
    <3>8. /\ (answer[d] = "success" => runs[d] > 0)'
          /\ (answer[d] = "refused" /\ d \notin interrupted => runs[d] = 0)'
          /\ (d \notin interrupted => runs[d] <= 1)'
      BY <1>3, <2>1, Zenon DEF Kept, apiVars
    <3> QED  BY <3>1, <3>6, <3>7, <3>8, ZenonT(60) DEF Kept
  <2>2. CASE d # c
    <3>1. \A q \in Runtime : worker[q].at = "complete" /\ CommandOf(q) = d =>
            worker'[q].at = "complete" /\ CommandOf(q)' = d
      BY <1>0, <1>1, <1>6, <2>2, Zenon DEF Busy
    <3>2. record'[d] = record[d]
      BY <1>0, <1>1, <2>2
    <3> QED  BY <2>2, <3>1, <3>2, KeptFrame, Zenon DEF RunInv, Published, apiVars
  <2> QED  BY <2>1, <2>2, Zenon
<1>8. ASSUME NEW q \in Runtime PROVE Known(q)'
  <2>1. CASE q = r
    BY <1>4, <1>5, <2>1, ZenonT(60) DEF Known
  <2>2. CASE q # r
    <3>1. worker'[q] = worker[q] /\ Known(q)
      BY <1>0, <1>1, <2>2, Zenon DEF RunInv
    <3>2. worker[q].at \in Busy => CommandOf(q)' = CommandOf(q) /\ CommandOf(q) # c
      BY <1>6, <2>2, Zenon
    <3>3. worker[q].at \in Busy => record'[CommandOf(q)] = record[CommandOf(q)]
      BY <1>1, <3>2
    <3> QED  BY <3>1, <3>2, <3>3, KnownFrame DEF apiVars
  <2> QED  BY <2>1, <2>2, Zenon
<1> QED  BY <1>7, <1>8, Zenon DEF RunInv
\* A consumer that stops has nothing in hand; the result it had is accounted lost.
LEMMA StopRun ==
  ASSUME TypeInv, AddrInv, RunInv, NEW r \in Runtime, NEW at \in {"loop", "retry", "down"},
         Stop(r, at), UNCHANGED <<log, record, apiVars, runs, finished>>,
         \A q \in Runtime \ {r} : granted'[q] = granted[q],
         interrupted' = IF worker[r].at = "complete" THEN interrupted \cup {CommandOf(r)}
                        ELSE interrupted
  PROVE  RunInv'
<1>0. BusInv /\ worker \in [Runtime -> Worker]
  BY DEF TypeInv, BusInv, BusTypeOK
<1>1. worker'[r].at \notin Busy /\ \A q \in Runtime \ {r} : worker'[q] = worker[q]
  <2>1. [Started EXCEPT !.at = at].at = at
    BY DEF Started
  <2> QED  BY <1>0, <2>1, Zenon DEF Stop, Busy
<1>2. ASSUME NEW q \in Runtime, q # r, worker[q].at \in Busy PROVE CommandOf(q)' = CommandOf(q)
  BY <1>0, <1>1, <1>2, SameHand
<1>3. ASSUME NEW d \in Command PROVE Kept(d)'
  <2>0. Kept(d)
    BY Zenon DEF RunInv
  <2>1. CASE worker[r].at = "complete" /\ CommandOf(r) = d
    <3>1. d \in interrupted'
      BY <2>1, Zenon
    <3>2. Published(d) => Published(d)'
      BY Zenon DEF Published, apiVars
    <3> QED  BY <2>0, <3>1, <3>2, Zenon DEF Kept, Truth, apiVars
  <2>2. CASE ~(worker[r].at = "complete" /\ CommandOf(r) = d)
    <3>1. \A q \in Runtime : worker[q].at = "complete" /\ CommandOf(q) = d =>
            worker'[q].at = "complete" /\ CommandOf(q)' = d
      BY <1>1, <1>2, <2>2, Zenon DEF Busy
    <3>2. d \in interrupted' <=> d \in interrupted
      BY <2>2, Zenon
    <3> QED  BY <2>0, <3>1, <3>2, KeptFrame, Zenon DEF Published, apiVars
  <2> QED  BY <2>1, <2>2, Zenon
<1>4. ASSUME NEW q \in Runtime PROVE Known(q)'
  <2>1. CASE q = r
    BY <1>1, <2>1, Zenon DEF Known, Busy
  <2>2. CASE q # r
    <3>1. worker'[q] = worker[q] /\ Known(q) /\ granted'[q] = granted[q]
      BY <1>1, <2>2, Zenon DEF RunInv
    <3>2. interrupted \subseteq interrupted'
      OBVIOUS
    <3> QED  BY <1>2, <2>2, <3>1, <3>2, KnownFrame, Zenon DEF apiVars
  <2> QED  BY <2>1, <2>2, Zenon
<1> QED  BY <1>3, <1>4, ZenonT(60) DEF RunInv

\* Failing calls, crashes and restarts.
LEMMA FaultRun ==
  ASSUME TypeInv, AddrInv, RunInv, NEW r \in Runtime,
         Break(r) \/ Crash(r) \/ Resume(r) \/ Restart(r)
  PROVE  RunInv'
<1>0. OwnerOK
  BY TypeParts, Zenon DEF TypeInv
<1>1. UNCHANGED <<log, record, apiVars, runs, finished>>
  BY Zenon DEF Break, Crash, Resume, Restart, streamVars, historyVars
<1>2. \A q \in Runtime \ {r} : granted'[q] = granted[q]
  BY <1>0, Zenon DEF Break, Crash, Resume, Restart, ownerVars, OwnerOK
<1>3. interrupted' = IF worker[r].at = "complete" THEN interrupted \cup {CommandOf(r)}
                     ELSE interrupted
  BY Zenon DEF Break, Crash, Resume, Restart, Interrupt, historyVars
<1>4. Stop(r, "retry") \/ Stop(r, "down") \/ Stop(r, "loop")
  BY DEF Break, Crash, Resume, Restart, Interrupt
<1> QED  BY <1>1, <1>2, <1>3, <1>4, StopRun, Zenon

\* Time: a completion record outlives the deadline, because both run and the
\* record has more left.
LEMMA TickRun == ASSUME TypeInv, AddrInv, RunInv, Tick PROVE RunInv'
<1>0. /\ BusInv /\ ApiOK /\ BusElapse /\ record \in [Command -> Record \cup {None}]
      /\ UNCHANGED <<log, ownerVars, api, addr, answer, historyVars>>
  BY TypeParts, ElapseEffect, Zenon DEF TypeInv, BusInv, BusTypeOK, Tick
<1>1. \A r \in Runtime : worker[r].at \in Busy => CommandOf(r)' = CommandOf(r)
  BY <1>0, ElapseEffect, SameHand, Zenon
<1>2. ASSUME NEW c \in Command
      PROVE  /\ left[c] \in Nat /\ left'[c] \in Nat
             /\ left'[c] = left[c] \/ left'[c] = left[c] - 1
             /\ left[c] = 0 => left'[c] = 0
             /\ Published(c) /\ left[c] # 0 => left'[c] = left[c] - 1
  <2>1. left'[c] = IF api[c] \in {"idle", "looking"} \/ left[c] = 0 THEN left[c]
                   ELSE left[c] - 1
    BY DEF Tick
  <2>2. left[c] \in 0..Deadline
    BY <1>0 DEF ApiOK
  <2> QED  BY <2>1, <2>2, DeliveryAssumption DEF Published
<1>3. ASSUME NEW c \in Command PROVE Kept(c)'
  <2>0. Kept(c) /\ (Published(c) => Published(c)')
    BY <1>0, Zenon DEF RunInv, Published
  <2>1. \A r \in Runtime : worker[r].at = "complete" /\ CommandOf(r) = c =>
          worker'[r].at = "complete" /\ CommandOf(r)' = c
    BY <1>0, <1>1, ElapseEffect, Zenon DEF Busy
  <2>2. /\ (c \in finished \/ runs[c] > 0 => Published(c))'
        /\ (answer[c] \in Result => c \in finished)'
        /\ (answer[c] = "success" => runs[c] > 0)'
        /\ (answer[c] = "refused" /\ c \notin interrupted => runs[c] = 0)'
        /\ (c \notin interrupted => runs[c] <= 1)'
        /\ (c \notin interrupted /\ c \notin finished /\ runs[c] > 0 =>
              \E r \in Runtime : worker[r].at = "complete" /\ CommandOf(r) = c)'
    BY <1>0, <2>0, <2>1, Zenon DEF Kept, historyVars
  <2>3. \A result : Truth(c, result) => Truth(c, result)'
    BY <1>0, <1>2 DEF Truth, historyVars
  <2>4. CASE record[c] = None
    <3>1. record'[c] = None
      BY <1>0, <2>4, ElapseEffect, NoRecordAssumption, Zenon
    <3>2. c \in finished' => left'[c] = 0
      BY <1>0, <1>2, <2>0, <2>4, Zenon DEF Kept, historyVars
    <3> QED  BY <2>2, <3>1, <3>2, Zenon DEF Kept
  <2>5. CASE record[c] # None
    <3>1. /\ c \in finished /\ c \in finished' /\ left[c] < record[c].ttl /\ Published(c)
          /\ record[c] \in Record
      BY <1>0, <2>0, <2>5, Zenon DEF Kept, historyVars
    <3>2. CASE record[c].ttl = 1 /\ record'[c] = None
      <4>1. left'[c] = 0
        BY <1>2, <3>1, <3>2
      <4> QED  BY <2>2, <3>2, <4>1, Zenon DEF Kept
    <3>3. CASE /\ record'[c] \in Record /\ record'[c].ttl = record[c].ttl - 1
               /\ record'[c].result = record[c].result /\ record'[c].list = record[c].list
      <4>1. left'[c] < record'[c].ttl
        BY <1>2, <3>1, <3>3 DEF Record
      <4>2. (Truth(c, record[c].result) /\ \A i \in 1..Len(record[c].list) :
               Truth(c, record[c].list[i]))'
        BY <2>0, <2>3, <2>5, <3>3, Zenon DEF Kept, Truth
      <4>3. record'[c] # None
        BY <3>3, NoRecordAssumption
      <4> QED  BY <2>2, <3>1, <4>1, <4>2, <4>3, ZenonT(60) DEF Kept
    <3> QED  BY <1>0, <2>5, <3>2, <3>3, ElapseEffect
  <2> QED  BY <2>4, <2>5, Zenon
<1>4. ASSUME NEW r \in Runtime PROVE Known(r)'
  <2>1. /\ worker'[r].at = worker[r].at /\ worker'[r].result = worker[r].result /\ Known(r)
    BY <1>0, ElapseEffect, Zenon DEF RunInv
  <2>2. worker[r].at \in Busy => CommandOf(r) \in Command
    BY <1>0, InHandOfStream, Zenon
  <2>3. worker[r].at \in Busy /\ record[CommandOf(r)] = None => record'[CommandOf(r)] = None
    BY <1>0, <2>2, ElapseEffect, NoRecordAssumption, Zenon
  <2>4. worker[r].at \in Busy /\ left'[CommandOf(r)] # 0 => left[CommandOf(r)] # 0
    BY <1>2, <2>2
  <2> QED  BY <1>0, <1>1, <2>1, <2>2, <2>3, <2>4, KnownFrame, Zenon DEF ownerVars, historyVars
<1> QED  BY <1>3, <1>4, Zenon DEF RunInv
\* What the handler of the API leaves alone on the side of the consumers.
LEMMA ServeBus ==
  ASSUME TypeInv, AddrInv, NEW c \in Command, Serve(c)
  PROVE  /\ UNCHANGED <<worker, left, runs, finished, interrupted, granted>>
         /\ \A r \in Runtime : \A i \in 1..Len(log[r]) : log'[r][i] = log[r][i]
         /\ ~ReturnResult(c) => record' = record
<1>0. BusInv
  BY Zenon DEF TypeInv
<1>1. UNCHANGED <<worker, left, runs, finished, interrupted, granted>>
  BY Zenon DEF Serve, Reject, LookupLease, LookupTTL, Publish, PublishFails, ReturnResult, Pop,
         ReturnTimeout, busVars, ownerVars, historyVars
<1>2. ~ReturnResult(c) => record' = record
  BY Zenon DEF Serve, Reject, LookupLease, LookupTTL, Publish, PublishFails, ReturnTimeout, busVars
<1>3. CASE Publish(c) \/ PublishFails(c)
  <2>1. PICK n \in Nat : addr[c].owner \in Runtime /\ XAdd(c, n, addr[c].owner)
    BY <1>3, PublishAddress, Zenon
  <2>2. \A r \in Runtime : \A i \in 1..Len(log[r]) : log'[r][i] = log[r][i]
    BY <1>0, <2>1, XAddEffect, Zenon
  <2> QED  BY <1>1, <1>2, <2>2, Zenon
<1>4. CASE ~(Publish(c) \/ PublishFails(c))
  <2>1. log' = log
    BY <1>4 DEF Serve, Reject, LookupLease, LookupTTL, ReturnResult, Pop, ReturnTimeout,
                busVars, streamVars
  <2> QED  BY <1>1, <1>2, <2>1
<1> QED  BY <1>3, <1>4, Zenon

\* The handler of the API answers with what a consumer put on record, or before
\* anything was published.
LEMMA ServeRun ==
  ASSUME TypeInv, AddrInv, RunInv, NEW c \in Command, Serve(c)
  PROVE  RunInv'
<1>0. BusInv /\ ApiOK /\ Kept(c) /\ record \in [Command -> Record \cup {None}]
  BY TypeParts, Zenon DEF TypeInv, RunInv, BusInv, BusTypeOK
<1>1. UNCHANGED <<worker, left, runs, finished, interrupted, granted>>
  BY ServeBus, Zenon
<1>2. \A r \in Runtime : worker[r].at \in Busy => CommandOf(r)' = CommandOf(r)
  BY <1>0, <1>1, ServeBus, SameHand, Zenon
<1>3. /\ \A d \in Command \ {c} : record'[d] = record[d]
      /\ record'[c] = None <=> record[c] = None
  <2>1. CASE ReturnResult(c)
    <3>1. Pop(c)
      BY <2>1, Zenon DEF ReturnResult
    <3>2. /\ record[c] \in Record /\ record' \in [Command -> Record \cup {None}]
          /\ record' = [record EXCEPT ![c] = [@ EXCEPT !.list = Tail(record[c].list)]]
      BY <1>0, <3>1, PopEffect
    <3>3. Tail(record[c].list) \in Seq(Result)
      BY <1>0, <3>1, <3>2, PopEffect, SeqHeadTail DEF Record
    <3>4. [record[c] EXCEPT !.list = Tail(record[c].list)] \in Record
      BY <3>2, <3>3, Zenon DEF Record
    <3> QED  BY <1>0, <3>2, <3>4, NoRecordAssumption, Zenon
  <2>2. CASE ~ReturnResult(c)
    BY <2>2, ServeBus
  <2> QED  BY <2>1, <2>2, Zenon
<1>4. \A r \in Runtime : worker[r].at = "complete" => worker'[r].at = "complete"
                                                      /\ CommandOf(r)' = CommandOf(r)
  BY <1>1, <1>2, Zenon DEF Busy
<1>5. ASSUME NEW d \in Command, d # c PROVE Kept(d)'
  <2>1. /\ api'[d] = api[d] /\ answer'[d] = answer[d] /\ record'[d] = record[d] /\ Kept(d)
    BY <1>3, <1>5, ServeEffect DEF RunInv
  <2> QED  BY <1>1, <1>4, <2>1, KeptFrame, ZenonT(60) DEF Published
<1>6. Kept(c)'
  <2>1. CASE Reject(c) \/ LookupTTL(c) \/ LookupLease(c)
    <3>1. ~Published(c) /\ record' = record
      BY <2>1, Zenon DEF Published, Reject, LookupTTL, LookupLease, busVars
    <3>2. c \notin finished /\ runs[c] = 0 /\ record[c] = None
      BY <1>0, <3>1, TypeParts DEF Kept, TypeInv, HistoryOK
    <3>3. answer'[c] \in {answer[c], "rejected", "notConnected"}
      BY <1>0, <2>1 DEF Reject, LookupTTL, LookupLease, ApiOK
    <3> QED  BY <1>0, <1>1, <3>1, <3>2, <3>3, Zenon DEF Kept, Result
  <2>2. CASE Publish(c) \/ PublishFails(c) \/ ReturnTimeout(c)
    <3>1. record' = record
      BY <2>2, ZenonT(60) DEF Publish, PublishFails, ReturnTimeout, busVars
    <3>2. Published(c)' /\ answer'[c] \in {"none", "publishFailed", "timeout"}
      BY <1>0, <2>2 DEF Publish, PublishFails, ReturnTimeout, ApiOK, Published, AddrInv,
         Answered
    <3> QED  BY <1>0, <1>1, <1>4, <3>1, <3>2, Zenon DEF Kept, Truth, Result
  <2>3. CASE ReturnResult(c)
    <3> DEFINE list == record[c].list
    <3>1. /\ Pop(c) /\ left[c] # 0 /\ answer'[c] = Head(list) /\ api'[c] = "returned"
      BY <1>0, <2>3, Zenon DEF ReturnResult, ApiOK
    <3>2. /\ record[c] \in Record /\ list # <<>>
          /\ record' = [record EXCEPT ![c] = [@ EXCEPT !.list = Tail(list)]]
      BY <1>0, <3>1, PopEffect
    <3>3. /\ record'[c].result = record[c].result /\ record'[c].ttl = record[c].ttl
          /\ record'[c].list = Tail(list) /\ record[c] # None /\ record'[c] # None
      BY <1>0, <1>3, <3>2, NoRecordAssumption DEF Record
    <3>4. /\ list \in Seq(Result) /\ Len(list) \in Nat \ {0} /\ Head(list) \in Result
          /\ Head(list) = list[1] /\ Len(Tail(list)) = Len(list) - 1
          /\ \A i \in 1..Len(Tail(list)) : Tail(list)[i] = list[i + 1]
      BY <3>2, SeqHeadTail, SeqEmpty DEF Record
    <3>5. /\ c \in finished /\ left[c] < record[c].ttl /\ Truth(c, record[c].result)
          /\ \A i \in 1..Len(list) : Truth(c, list[i])
      BY <1>0, <3>3, ZenonT(60) DEF Kept
    <3>6. Truth(c, Head(list))
      BY <3>4, <3>5
    <3>7. ASSUME NEW i \in 1..Len(Tail(list)) PROVE Truth(c, Tail(list)[i])
      <4>1. i + 1 \in 1..Len(list)
        BY <3>4
      <4> QED  BY <3>4, <3>5, <4>1, Zenon
    <3> HIDE DEF list
    <3>8. (Truth(c, record[c].result) /\ \A i \in 1..Len(record[c].list) :
             Truth(c, record[c].list[i]))'
      BY <1>1, <3>3, <3>5, <3>7 DEF Truth
    <3>9. Published(c)'
      BY <3>1, <3>4 DEF Published, Result
    <3>10. /\ (answer[c] = "success" => runs[c] > 0)'
           /\ (answer[c] = "refused" /\ c \notin interrupted => runs[c] = 0)'
           /\ (c \notin interrupted => runs[c] <= 1)'
      BY <1>0, <1>1, <3>1, <3>6, Zenon DEF Truth, Kept
    <3>11. c \in finished' /\ left'[c] < record'[c].ttl
      BY <1>1, <3>3, <3>5, Zenon
    <3> QED  BY <3>3, <3>8, <3>9, <3>10, <3>11, Zenon DEF Kept
  <2> QED  BY <2>1, <2>2, <2>3 DEF Serve
<1>7. ASSUME NEW r \in Runtime PROVE Known(r)'
  <2>1. CASE worker[r].at \notin Busy
    BY <1>1, <2>1, ZenonT(60) DEF Known, Busy
  <2>2. CASE worker[r].at \in Busy
    <3>1. InHand(r) \in 1..Len(log[r]) /\ CommandOf(r) \in Command
      BY <1>0, <2>2, InHandOfStream, ZenonT(60)
    <3>2. Published(CommandOf(r))
      BY <3>1 DEF AddrInv, Addressed, CommandOf
    <3>3. addr'[CommandOf(r)] = addr[CommandOf(r)]
      <4>1. CASE CommandOf(r) = c
        <5>1. ~Reject(c) /\ ~LookupLease(c) /\ ~LookupTTL(c)
          BY <3>2, <4>1 DEF Published, Reject, LookupLease, LookupTTL
        <5> QED  BY <5>1, ServeEffect, ZenonT(60)
      <4>2. CASE CommandOf(r) # c
        BY <3>1, <4>2, ServeEffect, Zenon
      <4> QED  BY <4>1, <4>2
    <3>4. record[CommandOf(r)] = None => record'[CommandOf(r)] = None
      BY <1>3, <3>1, Zenon
    <3> QED  BY <1>1, <1>2, <2>2, <3>3, <3>4, KnownFrame DEF RunInv
  <2> QED  BY <2>1, <2>2
<1> QED  BY <1>5, <1>6, <1>7 DEF RunInv

\* Leases that come and go do not touch the commands.
LEMMA OwnerRun ==
  ASSUME TypeInv, AddrInv, RunInv, UNCHANGED <<busVars, apiVars, historyVars>>,
         \A r \in Runtime : granted[r] \subseteq granted'[r]
  PROVE  RunInv'
<1>0. BusInv
  BY Zenon DEF TypeInv
<1>1. \A r \in Runtime : worker[r].at \in Busy => CommandOf(r)' = CommandOf(r)
  BY <1>0, SameHand, Zenon DEF busVars, streamVars
<1>2. ASSUME NEW c \in Command PROVE Kept(c)'
  BY <1>1, KeptFrame, ZenonT(60) DEF RunInv, Published, busVars, apiVars, historyVars, Busy
<1>3. ASSUME NEW r \in Runtime PROVE Known(r)'
  BY <1>1, KnownFrame DEF RunInv, busVars, apiVars, historyVars
<1> QED  BY <1>2, <1>3, Zenon DEF RunInv
\* No step runs a completed command or makes a result untrue.
LEMMA NextRunInv == TypeInv /\ AddrInv /\ RunInv /\ [Next]_vars => RunInv'
<1> SUFFICES ASSUME TypeInv, AddrInv, RunInv, [Next]_vars PROVE RunInv'
  OBVIOUS
<1>0. OwnerOK
  BY TypeParts DEF TypeInv
<1>1. ASSUME NEW c \in Command, Serve(c) PROVE RunInv'
  BY <1>1, ServeRun
<1>2. ASSUME NEW r \in Runtime, Consume(r) PROVE RunInv'
  <2>1. UNCHANGED <<granted, apiVars, runs, interrupted>>
    BY <1>2 DEF Consume, ownerVars
  <2>2. CASE Complete(r)
    <3>1. finished' = finished \cup {CommandOf(r)}
      BY <1>2, <2>2 DEF Consume, Complete
    <3> QED  BY <2>1, <2>2, <3>1, CompleteRun
  <2>3. CASE Recover(r) \/ Read(r) \/ Ack(r) \/ Check(r)
    <3>1. UNCHANGED historyVars
      BY <1>2, <2>1, <2>3 DEF Consume, Recover, Read, Ack, Check, historyVars
    <3> QED  BY <2>1, <2>3, <3>1, RecoverReadAckRun, CheckRun, Zenon
  <2> QED  BY <1>2, <2>2, <2>3, ZenonT(60) DEF Consume, Call
<1>3. ASSUME NEW r \in Runtime, Handle(r) \/ CallStation(r) PROVE RunInv'
  BY <1>3, HandleRun, CallStationRun
<1>4. ASSUME NEW r \in Runtime, Break(r) \/ Crash(r) \/ Resume(r) \/ Restart(r) PROVE RunInv'
  BY <1>4, FaultRun
<1>5. CASE Tick
  BY <1>5, TickRun, Zenon
<1>6. ASSUME NEW r \in Runtime, NEW s \in Station, Claim(r, s) \/ Enter(r, s) \/ Leave(r, s)
      PROVE  RunInv'
  <2>1. \A q \in Runtime : granted[q] \subseteq granted'[q]
    BY <1>0, <1>6 DEF Claim, Enter, Leave, OwnerOK
  <2>2. UNCHANGED <<busVars, apiVars, historyVars>>
    BY <1>6, Zenon DEF Claim, Enter, Leave
  <2> QED  BY <2>1, <2>2, OwnerRun, ZenonT(60)
<1>7. ASSUME NEW s \in Station, LeaseEnds(s) PROVE RunInv'
  BY <1>7, OwnerRun, Zenon DEF LeaseEnds
<1>8. CASE UNCHANGED vars
  BY <1>8, OwnerRun, ZenonT(60) DEF vars, ownerVars
<1> QED  BY <1>1, <1>2, <1>3, <1>4, <1>5, <1>6, <1>7, <1>8, Zenon DEF Next, Work
\* What the group is done with has been in the stream.
LEMMA DoneWithin ==
  ASSUME BusInv, NEW r \in Runtime
  PROVE  /\ NextID(r) \in Nat /\ NextID(r) <= Len(log[r]) + 1 /\ Len(log[r]) \in Nat
         /\ trimmed[r] \in Nat /\ last[r] \in Nat /\ pending[r] \subseteq Nat
         /\ trimmed[r] # 0 => trimmed[r] + MaxLen <= Len(log[r])
<1>1. /\ trimmed[r] \in Nat /\ last[r] \in Nat /\ Len(log[r]) \in Nat /\ Shape(r)
      /\ pending[r] \subseteq Nat
  BY SeqLen DEF BusInv, BusTypeOK, ID
<1>2. last[r] <= Len(log[r]) /\ (trimmed[r] = 0 \/ trimmed[r] + MaxLen <= Len(log[r]))
  BY <1>1, Zenon DEF Shape
<1>3. MaxLen \in Nat
  BY BusAssumption
<1>4. NextID(r) \in Nat /\ NextID(r) <= Len(log[r]) + 1
  BY <1>1, <1>2, <1>3 DEF NextID
<1> QED  BY <1>1, <1>2, <1>4, Zenon

\* No step drops an entry.
LEMMA NextDropped == TypeInv /\ AddrInv /\ RunInv /\ NothingDropped /\ [Next]_vars
                       => NothingDropped'
<1> SUFFICES ASSUME TypeInv, AddrInv, RunInv, NothingDropped, [Next]_vars,
                    NEW q \in Runtime, NEW i \in ID,
                    (i < NextID(q))', (i \notin pending[q])', (log[q][i] \notin finished)'
             PROVE  (i + MaxLen <= Len(log[q]))'
  BY Zenon DEF NothingDropped
<1>0. BusInv /\ i \in Nat \ {0}
  BY DEF TypeInv, ID
<1>a. i < NextID(q) /\ i \notin pending[q] /\ log[q][i] \notin finished
        => i + MaxLen <= Len(log[q])
  BY Zenon DEF NothingDropped
<1>1. CASE UNCHANGED <<log, trimmed, last, pending>> /\ finished \subseteq finished'
  <2>1. NextID(q)' = NextID(q)
    BY <1>1, Zenon DEF NextID
  <2> QED  BY <1>1, <1>a, <2>1, Zenon
<1>2. ASSUME NEW c \in Command, Publish(c) \/ PublishFails(c)
      PROVE  (i + MaxLen <= Len(log[q]))'
  <2>1. PICK n \in Nat : addr[c].owner \in Runtime /\ XAdd(c, n, addr[c].owner)
    BY <1>2, PublishAddress, Zenon
  <2>2. UNCHANGED <<last, pending>> /\ finished' = finished
    BY <1>0, <1>2, <2>1, XAddEffect, Zenon DEF Publish, PublishFails, historyVars
  <2>3. CASE q # addr[c].owner
    <3>1. log'[q] = log[q] /\ trimmed'[q] = trimmed[q]
      BY <1>0, <2>1, <2>3, XAddEffect
    <3>2. NextID(q)' = NextID(q)
      BY <2>2, <3>1, Zenon DEF NextID
    <3> QED  BY <1>a, <2>2, <3>1, <3>2, ZenonT(60)
  <2>4. CASE q = addr[c].owner
    <3>1. /\ Len(log'[q]) = Len(log[q]) + n
          /\ \A j \in 1..Len(log[q]) : log'[q][j] = log[q][j]
          /\ trimmed' \in [Runtime -> Nat]
          /\ trimmed'[q] = trimmed[q] \/ trimmed'[q] + MaxLen <= Len(log'[q])
      <4>1. XAdd(c, n, q)
        BY <2>1, <2>4, Zenon
      <4> QED  BY <1>0, <4>1, XAddEffect
    <3>2. CASE i < NextID(q)
      <4>1. i \in 1..Len(log[q]) /\ Len(log[q]) \in Nat
        BY <1>0, <3>2, DoneWithin
      <4>2. i + MaxLen <= Len(log[q])
        BY <1>a, <2>2, <3>1, <3>2, <4>1, ZenonT(60)
      <4> QED  BY <1>0, <3>1, <4>1, <4>2, BusAssumption
    <3>3. CASE ~(i < NextID(q))
      <4>1. trimmed[q] \in Nat /\ last[q] \in Nat /\ trimmed'[q] \in Nat
        BY <1>0, <3>1, DoneWithin, ZenonT(60)
      <4>2. i <= trimmed'[q] /\ trimmed'[q] # trimmed[q]
        BY <1>0, <2>2, <3>3, <4>1 DEF NextID
      <4>3. Len(log'[q]) \in Nat
        BY <1>0, <3>1, DoneWithin
      <4> QED  BY <1>0, <3>1, <4>1, <4>2, <4>3, BusAssumption
    <3> QED  BY <3>2, <3>3, ZenonT(60)
  <2> QED  BY <2>3, <2>4, Zenon
<1>3. ASSUME NEW r \in Runtime, Consume(r) PROVE (i + MaxLen <= Len(log[q]))'
  <2>0. finished \subseteq finished'
    BY <1>3 DEF Consume
  <2>1. CASE Check(r) \/ Complete(r)
    BY <1>1, <2>0, <2>1 DEF Check, Complete, streamVars
  <2>2. CASE Recover(r)
    <3>1. UNCHANGED <<log, trimmed, last>>
      BY <2>2 DEF Recover
    <3>2. NextID(q)' = NextID(q)
      BY <3>1 DEF NextID
    <3>3. \A j \in pending[q] : j \in pending'[q] \/ j <= trimmed[q]
      BY <1>0, <2>2 DEF Recover, BusInv, BusTypeOK
    <3>4. CASE i \in pending[q]
      <4>1. i <= trimmed[q] /\ trimmed[q] # 0
        BY <1>0, <3>3, <3>4, DoneWithin
      <4> QED  BY <1>0, <3>1, <4>1, DoneWithin, BusAssumption
    <3> QED  BY <1>a, <2>0, <3>1, <3>2, <3>4
  <2>3. CASE Read(r)
    <3>1. UNCHANGED <<log, trimmed>> /\ last[r] < NextID(r) /\ trimmed[r] < NextID(r)
      BY <1>0, <2>3, ReadEffect, Zenon
    <3>2. CASE UNCHANGED <<last, pending>>
      BY <1>1, <2>0, <3>1, <3>2, Zenon
    <3>3. CASE /\ last' = [last EXCEPT ![r] = NextID(r)]
               /\ pending' = [pending EXCEPT ![r] = @ \cup {NextID(r)}]
      <4>1. CASE q # r
        <5>1. last'[q] = last[q] /\ pending'[q] = pending[q]
          BY <1>0, <3>3, <4>1, Zenon DEF BusInv, BusTypeOK
        <5>2. NextID(q)' = NextID(q)
          BY <3>1, <5>1, Zenon DEF NextID
        <5> QED  BY <1>a, <2>0, <3>1, <5>1, <5>2
      <4>2. CASE q = r
        <5>1. last'[q] = NextID(q) /\ pending'[q] = pending[q] \cup {NextID(q)}
          BY <1>0, <3>3, <4>2, Zenon DEF BusInv, BusTypeOK
        <5>2. /\ NextID(q) \in Nat /\ trimmed[q] \in Nat /\ trimmed[q] < NextID(q)
          BY <1>0, <3>1, <4>2, DoneWithin, ZenonT(60)
        <5>3. NextID(q)' = NextID(q) + 1
          BY <3>1, <5>1, <5>2 DEF NextID
        <5>4. i < NextID(q) /\ i \notin pending[q]
          BY <1>0, <5>1, <5>2, <5>3
        <5> QED  BY <1>a, <2>0, <3>1, <5>4, Zenon
      <4> QED  BY <4>1, <4>2, Zenon
    <3> QED  BY <1>0, <2>3, <3>2, <3>3, ReadEffect, Zenon
  <2>4. CASE Ack(r)
    <3>1. /\ UNCHANGED <<log, trimmed, last>> /\ worker[r].at = "ack"
          /\ pending' = [pending EXCEPT ![r] = @ \ {InHand(r)}]
      BY <2>4, Zenon DEF Ack
    <3>2. NextID(q)' = NextID(q)
      BY <3>1, Zenon DEF NextID
    <3>3. log[r][InHand(r)] \in finished
      BY <3>1 DEF RunInv, Known, CommandOf
    <3>4. i \notin pending[q]
      BY <1>0, <2>0, <3>1, <3>3, ZenonT(60) DEF BusInv, BusTypeOK
    <3> QED  BY <1>a, <2>0, <3>1, <3>2, <3>4
  <2> QED  BY <1>3, <2>1, <2>2, <2>3, <2>4, Zenon DEF Consume, Call
<1>4. ASSUME NEW c \in Command,
             Reject(c) \/ LookupLease(c) \/ LookupTTL(c) \/ ReturnResult(c) \/ ReturnTimeout(c)
      PROVE  UNCHANGED <<log, trimmed, last, pending>> /\ finished \subseteq finished'
  BY <1>4 DEF Reject, LookupLease, LookupTTL, ReturnResult, Pop, ReturnTimeout,
              busVars, streamVars, historyVars
<1>5. ASSUME NEW r \in Runtime, \/ Handle(r) \/ CallStation(r) \/ Resume(r)
                                \/ Break(r) \/ Crash(r) \/ Restart(r)
      PROVE  UNCHANGED <<log, trimmed, last, pending>> /\ finished \subseteq finished'
  BY <1>5, Zenon DEF Handle, CallStation, Resume, Break, Crash, Restart, streamVars, historyVars
<1>6. ASSUME NEW r \in Runtime, NEW s \in Station, Claim(r, s) \/ Enter(r, s) \/ Leave(r, s)
      PROVE  UNCHANGED <<log, trimmed, last, pending>> /\ finished \subseteq finished'
  BY <1>6 DEF Claim, Enter, Leave, busVars, streamVars, historyVars
<1>7. ASSUME NEW s \in Station, LeaseEnds(s)
      PROVE  UNCHANGED <<log, trimmed, last, pending>> /\ finished \subseteq finished'
  BY <1>7, Zenon DEF LeaseEnds, busVars, streamVars, historyVars
<1>8. CASE Tick
  BY <1>1, <1>8, Zenon DEF Tick, BusElapse, Ageing, historyVars
<1>9. CASE UNCHANGED vars
  BY <1>1, <1>9, Zenon DEF vars, busVars, streamVars, historyVars
<1> QED  BY <1>1, <1>2, <1>3, <1>4, <1>5, <1>6, <1>7, <1>8, <1>9, Zenon
         DEF Next, Serve, Work
\* The program starts with nothing on its way.
LEMMA InitIInv == Init => IInv
<1> SUFFICES ASSUME Init PROVE IInv
  OBVIOUS
<1> USE DeliveryAssumption
<1>1. BusInv
  BY InitBus, Zenon DEF Init
<1>2. OwnerOK /\ ApiOK /\ HistoryOK
  BY DEF Init, Registry!Init, OwnerOK, ApiOK, HistoryOK, Answers
<1>3. TypeInv
  BY <1>1, <1>2, TypeParts, Zenon DEF TypeInv, BusInv
<1>4. \A r \in Runtime : log[r] = <<>> /\ Len(log[r]) = 0 /\ trimmed[r] = 0 /\ last[r] = 0
                         /\ worker[r].at = "loop"
  BY Zenon DEF Init, BusInit, Started
<1>5. AddrInv
  BY <1>4 DEF Init, AddrInv, Answered, Granted
<1>6. RunInv
  <2>1. ASSUME NEW c \in Command
        PROVE  /\ record[c] = None /\ answer[c] = "none" /\ runs[c] = 0
               /\ c \notin finished
    BY <2>1, Zenon DEF Init, BusInit
  <2>2. ASSUME NEW c \in Command PROVE Kept(c)
    <3>1. runs[c] <= 1 /\ ~(runs[c] > 0)
      BY <2>1
    <3> QED  BY <2>1, <3>1, Zenon DEF Kept, Result
  <2>3. ASSUME NEW r \in Runtime PROVE Known(r)
    BY <1>4, Zenon DEF Known
  <2> QED  BY <2>2, <2>3, Zenon DEF RunInv
<1>7. NothingDropped
  BY <1>4 DEF NothingDropped, NextID, ID
<1> QED  BY <1>3, <1>5, <1>6, <1>7 DEF IInv

\* The inductive invariant.
THEOREM Invariance == Spec => []IInv
<1>1. IInv /\ [Next]_vars => IInv'
  BY NextTypeInv, NextAddrInv, NextRunInv, NextDropped DEF IInv
<1> QED  BY <1>1, InitIInv, PTL DEF Spec

\* Every variable of the command's way keeps its type: in particular the stream
\* and the time to live of a completion record stay within their bounds.
THEOREM Types == Spec => []TypeOK
<1>1. IInv => TypeOK
  BY DEF IInv, TypeInv
<1> QED  BY <1>1, Invariance, PTL

\* The station is called a second time only if the result of a call was lost.
THEOREM RunsOnce == Spec => []RunsOnceUnlessInterrupted
<1>1. IInv => RunsOnceUnlessInterrupted
  <2> SUFFICES ASSUME IInv, NEW c \in Command, c \notin interrupted
               PROVE  ~(runs[c] > 1)
    BY Zenon DEF RunsOnceUnlessInterrupted
  <2>1. runs[c] \in Nat
    BY TypeParts DEF IInv, TypeInv, HistoryOK
  <2>2. runs[c] <= 1
    BY Zenon DEF IInv, RunInv, Kept
  <2> QED  BY <2>1, <2>2
<1> QED  BY <1>1, Invariance, PTL

\* The HTTP answer says what happened at the station.
THEOREM TruthfulAnswers == Spec => []AnswerIsTruthful
<1>1. IInv => AnswerIsTruthful
  <2> SUFFICES ASSUME IInv, NEW c \in Command,
                      answer[c] \in {"rejected", "notConnected"}
               PROVE  runs[c] = 0
    BY Zenon DEF IInv, RunInv, Kept, AnswerIsTruthful
  <2>1. runs[c] \in Nat
    BY TypeParts DEF IInv, TypeInv, HistoryOK
  <2>2. ~Published(c)
    BY DEF Published
  <2>3. ~(runs[c] > 0)
    BY <2>2, Zenon DEF IInv, RunInv, Kept
  <2> QED  BY <2>1, <2>3
<1> QED  BY <1>1, Invariance, PTL

\* An entry is left undone only behind MaxLen later ones.
THEOREM NoEntryDropped == Spec => []NothingDropped
<1>1. IInv => NothingDropped
  BY DEF IInv
<1> QED  BY <1>1, Invariance, PTL

\* Only the call of the station counts as a run, and it is made for a command
\* without a completion by a process that was granted the command's generation.
LEMMA RunningStep ==
  ASSUME IInv, [Next]_vars, NEW c \in Command, runs'[c] # runs[c]
  PROVE  c \notin finished /\ addr[c].generation \in granted[addr[c].owner]
<1>0. BusInv /\ runs \in [Command -> Nat]
  BY TypeParts DEF IInv, TypeInv, HistoryOK
<1>1. PICK r \in Runtime : CallStation(r)
  <2>1. ASSUME NEW d \in Command, Serve(d) PROVE runs' = runs
    BY <2>1, Zenon DEF Serve, Reject, LookupLease, LookupTTL, Publish, PublishFails, ReturnResult,
                ReturnTimeout, historyVars
  <2>2. ASSUME NEW r \in Runtime, \/ Consume(r) \/ Handle(r) \/ Resume(r)
                                  \/ Break(r) \/ Crash(r) \/ Restart(r)
        PROVE  runs' = runs
    BY <2>2, Zenon DEF Consume, Handle, Resume, Break, Crash, Restart, historyVars
  <2>3. ASSUME NEW r \in Runtime, NEW s \in Station, Claim(r, s) \/ Enter(r, s) \/ Leave(r, s)
        PROVE  runs' = runs
    BY <2>3 DEF Claim, Enter, Leave, historyVars
  <2>4. ASSUME NEW s \in Station, LeaseEnds(s) PROVE runs' = runs
    BY <2>4 DEF LeaseEnds, historyVars
  <2>5. Tick \/ UNCHANGED vars => runs' = runs
    BY Zenon DEF Tick, vars, historyVars
  <2> QED  BY <2>1, <2>2, <2>3, <2>4, <2>5, Zenon DEF Next, Work
<1>2. PICK called \in 0..1 : /\ worker[r].at = "call"
                             /\ runs' = [runs EXCEPT ![CommandOf(r)] = @ + called]
  BY <1>1, CallStationEffect, Zenon
<1>3. c = CommandOf(r)
  BY <1>0, <1>2
<1>4. c \notin finished /\ addr[c].generation \in granted[r]
  BY <1>2, <1>3, ZenonT(60) DEF IInv, RunInv, Known
<1>5. addr[c].owner = r
  <2>1. InHand(r) \in 1..Len(log[r])
    BY <1>0, <1>2, InHandOfStream DEF Busy
  <2> QED  BY <1>3, <2>1 DEF IInv, AddrInv, Addressed, CommandOf
<1> QED  BY <1>4, <1>5

\* A command with a recorded result is never run again.
THEOREM NeverRerun == Spec => CompletedNeverRerun
<1>1. IInv /\ [Next]_vars => [\A c \in finished : runs'[c] = runs[c]]_vars
  BY RunningStep, TypeParts DEF IInv, TypeInv, HistoryOK
<1> QED  BY <1>1, Invariance, PTL DEF Spec, CompletedNeverRerun

\* A command is run only by the process that was granted the generation the API
\* looked up, whatever claims, crashes and restarts there were in between.
THEOREM GranteeRuns == Spec => OnlyGranteeRuns
<1>1. IInv /\ [Next]_vars => [\A c \in Command : runs'[c] # runs[c] =>
                                addr[c].generation \in granted[addr[c].owner]]_vars
  BY RunningStep
<1> QED  BY <1>1, Invariance, PTL DEF Spec, OnlyGranteeRuns
=============================================================================
