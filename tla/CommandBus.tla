------------------------------ MODULE CommandBus ------------------------------
(***************************************************************************)
(* The Redis command bus, internal/commandbus/redisbus: one stream per     *)
(* runtime with one consumer group, a completion record and a result list  *)
(* per command, and the consumer loop RunConsumer with processMessages.    *)
(* Every action is one Redis call of the consumer with what the code does  *)
(* up to the next one; module CommandDelivery adds the callers, the        *)
(* handler and the failures.                                               *)
(***************************************************************************)
EXTENDS Naturals, Sequences, FiniteSets, FiniteSetsExt

CONSTANTS Runtime,     \* owner IDs
          Command,     \* command IDs
          None,
          Copies,      \* entries one XADD may leave when the client retries it
          MaxEntries,  \* bound: entries of one stream
          MaxLen,      \* MaxLen of XADD
          MinIdle,     \* pendingMinIdle, in ticks
          BatchSize,   \* Count of XAUTOCLAIM
          ResultTTL    \* resultTTL, in ticks

ASSUME BusAssumption == /\ Copies \in Nat \ {0} /\ MaxEntries \in Nat /\ MaxLen \in Nat \ {0}
                        /\ MinIdle \in Nat \ {0} /\ BatchSize \in Nat \ {0}
                        /\ ResultTTL \in Nat \ {0}

VARIABLES log,         \* the commands ever added to <prefix>:commands:<owner>; an
                       \* entry's ID is its place
          trimmed,     \* the entries up to this one are no longer in the stream
          last,        \* last-delivered-id of the consumer group
          pending,     \* delivered and not acknowledged
          idle,        \* ticks since an entry was delivered, up to MinIdle
          record,      \* the keys command-completions:<id> and command-results:<id>,
                       \* which every completion writes with the same time to live
          worker       \* the consumer goroutine of each runtime

streamVars == <<log, trimmed, last, pending, idle>>
busVars == <<streamVars, record, worker>>

ID == 1..MaxEntries
Result == {"success", "failed", "refused"}
Record == [result : Result, list : Seq(Result), ttl : 1..ResultTTL]

ASSUME NoRecordAssumption == None \notin Record

Busy == {"check", "handle", "call", "complete", "ack"}
Worker == [at : {"down", "retry", "loop", "read"} \cup Busy,
           recoverIn : 0..MinIdle,   \* ticks until XAUTOCLAIM is due
           recovering : BOOLEAN,     \* the batch came from XAUTOCLAIM
           batch : SUBSET ID,        \* messages still to process
           result : Result \cup {None}]

BusTypeOK ==
  /\ log \in [Runtime -> Seq(Command)]
  /\ trimmed \in [Runtime -> Nat] /\ last \in [Runtime -> Nat]
  /\ \A r \in Runtime : Len(log[r]) <= MaxEntries
  /\ pending \in [Runtime -> SUBSET ID] /\ idle \in [Runtime -> [ID -> 0..MinIdle]]
  /\ record \in [Command -> Record \cup {None}]
  /\ worker \in [Runtime -> Worker]

\* RunConsumer starts: the group exists or is created, recovery is due at once.
Started == [at |-> "loop", recoverIn |-> 0, recovering |-> FALSE,
            batch |-> {}, result |-> None]

BusInit ==
  /\ log = [r \in Runtime |-> <<>>]
  /\ trimmed = [r \in Runtime |-> 0] /\ last = [r \in Runtime |-> 0]
  /\ pending = [r \in Runtime |-> {}]
  /\ idle = [r \in Runtime |-> [i \in ID |-> MinIdle]]
  /\ record = [c \in Command |-> None]
  /\ worker = [r \in Runtime |-> Started]

\* The entry and the command in hand: a batch is processed in order of its IDs.
InHand(r) == Min(worker[r].batch)
CommandOf(r) == log[r][InHand(r)]

\* Mutant: XADD trims one entry too many.
XAddTrimsMore(c, n, r) ==
  /\ Len(log[r]) + n <= MaxEntries
  /\ log' = [log EXCEPT ![r] = @ \o [i \in 1..n |-> c]]
  /\ \E t \in trimmed[r]..MaxEntries :
       /\ t = trimmed[r] \/ t + MaxLen <= Len(log[r]) + n + 1
       /\ trimmed' = [trimmed EXCEPT ![r] = t]
  /\ UNCHANGED <<last, pending, idle>>

\* Publish: XADD appends and trims the oldest entries, delivered or not, as it
\* sees fit (Approx) but never below MaxLen.
XAdd(c, n, r) ==
  /\ Len(log[r]) + n <= MaxEntries
  /\ log' = [log EXCEPT ![r] = @ \o [i \in 1..n |-> c]]
  /\ \E t \in trimmed[r]..MaxEntries :
       /\ t = trimmed[r] \/ t + MaxLen <= Len(log[r]) + n
       /\ trimmed' = [trimmed EXCEPT ![r] = t]
  /\ UNCHANGED <<last, pending, idle>>

\* Where RunConsumer goes: on with the next message of the batch, or on from
\* the end of the batch to XREADGROUP (recovery done) or to the top of its loop.
Proceed(w, batch) ==
  IF batch # {} THEN [w EXCEPT !.at = "check", !.batch = batch, !.result = None]
  ELSE IF w.recovering
       THEN [w EXCEPT !.at = "read", !.recoverIn = MinIdle, !.recovering = FALSE,
                      !.batch = {}, !.result = None]
       ELSE [w EXCEPT !.at = "loop", !.batch = {}, !.result = None]

\* Mutant: recovery claims nothing.
RecoverNothing(r) ==
  /\ worker[r].at = "loop" /\ worker[r].recoverIn = 0
  /\ worker' = [worker EXCEPT ![r] = Proceed([@ EXCEPT !.recovering = TRUE], {})]
  /\ UNCHANGED <<streamVars, record>>

\* XAUTOCLAIM: the first entries that have been pending for long enough; those
\* that were trimmed only leave the pending list.
Recover(r) ==
  LET gone == {i \in pending[r] : i <= trimmed[r]}
      due == gone \cup {i \in pending[r] : idle[r][i] = MinIdle}
      taken == {i \in due : Cardinality({j \in due : j < i}) < BatchSize}
  IN /\ worker[r].at = "loop" /\ worker[r].recoverIn = 0
     /\ pending' = [pending EXCEPT ![r] = @ \ (taken \cap gone)]
     /\ idle' = [idle EXCEPT ![r] = [i \in ID |-> IF i \in taken THEN 0 ELSE @[i]]]
     /\ worker' = [worker EXCEPT ![r] = Proceed([@ EXCEPT !.recovering = TRUE], taken \ gone)]
     /\ UNCHANGED <<log, trimmed, last, record>>

\* The first entry the group has not delivered.
NextID(r) == (IF trimmed[r] > last[r] THEN trimmed[r] ELSE last[r]) + 1

\* XREADGROUP: the next new entry, or nothing within its block time.
Read(r) ==
  LET i == NextID(r)
  IN /\ worker[r].at = "read" \/ (worker[r].at = "loop" /\ worker[r].recoverIn # 0)
     /\ IF i > Len(log[r])
        THEN /\ worker[r].at = "read"
             /\ worker' = [worker EXCEPT ![r].at = "loop"]
             /\ UNCHANGED streamVars
        ELSE /\ last' = [last EXCEPT ![r] = i]
             /\ pending' = [pending EXCEPT ![r] = @ \cup {i}]
             /\ idle' = [idle EXCEPT ![r][i] = 0]
             /\ worker' = [worker EXCEPT ![r] = Proceed(@, {i})]
             /\ UNCHANGED <<log, trimmed>>
     /\ UNCHANGED record

\* Mutant: completed() is not asked.
CheckNothing(r) ==
  /\ worker[r].at = "check"
  /\ worker' = [worker EXCEPT ![r].at = "handle"]
  /\ UNCHANGED <<streamVars, record>>

\* processMessages: a command with a completion record is not run again.
Check(r) ==
  LET done == record[CommandOf(r)]
  IN /\ worker[r].at = "check"
     /\ worker' = [worker EXCEPT ![r] =
          IF done = None THEN [@ EXCEPT !.at = "handle"]
          ELSE [@ EXCEPT !.at = "complete", !.result = done.result]]
     /\ UNCHANGED <<streamVars, record>>

\* complete: one transaction of SET, LPUSH and EXPIRE.
Complete(r) ==
  LET c == CommandOf(r)
      result == worker[r].result
      pushed == IF record[c] = None THEN <<>> ELSE record[c].list
  IN /\ worker[r].at = "complete"
     /\ record' = [record EXCEPT ![c] =
          [result |-> result, list |-> Append(pushed, result), ttl |-> ResultTTL]]
     /\ worker' = [worker EXCEPT ![r].at = "ack"]
     /\ UNCHANGED streamVars

\* XACK, and on to the next message.
Ack(r) ==
  /\ worker[r].at = "ack"
  /\ pending' = [pending EXCEPT ![r] = @ \ {InHand(r)}]
  /\ worker' = [worker EXCEPT ![r] = Proceed(@, @.batch \ {InHand(r)})]
  /\ UNCHANGED <<log, trimmed, last, idle, record>>

\* A call of the consumer to Redis.
Call(r) == Recover(r) \/ Read(r) \/ Check(r) \/ Complete(r) \/ Ack(r)

\* The consumer has left RunConsumer, with an error or because it ended.
Stop(r, at) == worker' = [worker EXCEPT ![r] = [Started EXCEPT !.at = at]]

\* AwaitResult: RPOP takes the result that was pushed first.
Pop(c) ==
  /\ record[c] # None /\ record[c].list # <<>>
  /\ record' = [record EXCEPT ![c].list = Tail(@)]
  /\ UNCHANGED <<streamVars, worker>>

\* A tick brings every entry nearer to recovery and the consumer to its next one.
Ageing ==
  /\ idle' = [r \in Runtime |-> [i \in ID |->
                IF idle[r][i] < MinIdle THEN idle[r][i] + 1 ELSE MinIdle]]
  /\ worker' = [r \in Runtime |->
       [worker[r] EXCEPT !.recoverIn = IF @ > 0 THEN @ - 1 ELSE 0]]
  /\ UNCHANGED <<log, trimmed, last, pending>>

\* Mutant: the keys live one tick too long.
BusElapseOneTooLate ==
  /\ Ageing
  /\ record' = [c \in Command |->
       IF record[c] = None \/ record[c].ttl = 0 THEN None
       ELSE [record[c] EXCEPT !.ttl = @ - 1]]

\* One tick.
BusElapse ==
  /\ Ageing
  /\ record' = [c \in Command |->
       IF record[c] = None \/ record[c].ttl = 1 THEN None
       ELSE [record[c] EXCEPT !.ttl = @ - 1]]
=============================================================================
