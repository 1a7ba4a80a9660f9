-------------------------- MODULE CommandBusProofs --------------------------
(***************************************************************************)
(* The Redis command bus stays well formed, for any number of runtimes     *)
(* and commands and any values of the bounds, and what each of its steps   *)
(* does, in the form the proofs about the way of a command use.            *)
(***************************************************************************)
EXTENDS CommandBus, TLAPS, WellFoundedInduction

\* The consumer has only entries of its stream in hand, and one as long as it is
\* busy; trimming leaves MaxLen entries.
Shape(r) ==
  /\ trimmed[r] = 0 \/ trimmed[r] + MaxLen <= Len(log[r])
  /\ last[r] <= Len(log[r]) /\ pending[r] \subseteq 1..last[r]
  /\ worker[r].batch \subseteq 1..last[r]
  /\ worker[r].at \in Busy => worker[r].batch # {}
  /\ worker[r].at = "complete" => worker[r].result \in Result

BusInv == BusTypeOK /\ \A r \in Runtime : Shape(r)
-----------------------------------------------------------------------------
\* What is needed of sequences, for the streams (log) and the result lists of the
\* records.  The provers know it; without the library's theorems about sequences in
\* scope every step below is checked in half the time.
LEMMA SeqLen ==
  ASSUME NEW S, NEW s \in Seq(S)
  PROVE  /\ Len(s) \in Nat /\ s \in [1..Len(s) -> S]
         /\ s # <<>> => Len(s) # 0
  OBVIOUS

LEMMA SeqEmpty ==
  ASSUME NEW S
  PROVE  <<>> \in Seq(S) /\ Len(<<>>) = 0
  OBVIOUS

LEMMA SeqAppend ==
  ASSUME NEW S, NEW s \in Seq(S), NEW x \in S
  PROVE  /\ Append(s, x) \in Seq(S) /\ Len(Append(s, x)) = Len(s) + 1
         /\ Append(s, x)[Len(s) + 1] = x /\ Append(s, x) # <<>>
         /\ \A i \in 1..Len(s) : Append(s, x)[i] = s[i]
  OBVIOUS

LEMMA SeqHeadTail ==
  ASSUME NEW S, NEW s \in Seq(S), s # <<>>
  PROVE  /\ Head(s) \in S /\ Head(s) = s[1]
         /\ Tail(s) \in Seq(S) /\ Len(Tail(s)) = Len(s) - 1
         /\ \A i \in 1..Len(Tail(s)) : Tail(s)[i] = s[i + 1]
  OBVIOUS

\* A batch that is not empty has a first entry: the one in hand is of the batch.
LEMMA MinIsMember ==
  ASSUME NEW S \in SUBSET Nat, S # {}
  PROVE  Min(S) \in S
<1> DEFINE R == {ss \in Nat \X Nat : ss[1] < ss[2]}
<1>1. IsWellFoundedOn(R, Nat)
  BY NatLessThanWellFounded DEF OpToRel
<1> HIDE DEF R
<1>2. PICK x \in S : \A y \in S : ~(<<y, x>> \in R)
  BY <1>1, WFMin, Zenon
<1>3. ASSUME NEW y \in S PROVE x <= y
  <2>1. <<y, x>> \in Nat \X Nat
    OBVIOUS
  <2>2. ~(y < x)
    BY <1>2, <2>1, Zenon DEF R
  <2> QED  BY <2>2
<1> QED  BY <1>3, Zenon DEF Min

\* The log after n copies of a command were added.
LEMMA Appended ==
  ASSUME NEW s \in Seq(Command), NEW c \in Command, NEW n \in Nat
  PROVE  LET t == s \o [i \in 1..n |-> c]
         IN /\ t \in Seq(Command) /\ Len(t) = Len(s) + n
            /\ \A i \in 1..Len(s) : t[i] = s[i]
            /\ \A i \in 1..Len(t) : i > Len(s) => t[i] = c
<1> DEFINE u == [i \in 1..n |-> c]
<1>1. u \in Seq(Command) /\ Len(u) = n
  OBVIOUS
<1>2. \A i \in 1..n : u[i] = c
  OBVIOUS
<1> HIDE DEF u
<1> QED  BY <1>1, <1>2

\* A busy consumer has an entry of its own stream in hand.
LEMMA InHandOfStream ==
  ASSUME BusInv, NEW r \in Runtime, worker[r].at \in Busy
  PROVE  /\ InHand(r) \in worker[r].batch /\ InHand(r) \in 1..last[r]
         /\ InHand(r) \in 1..Len(log[r]) /\ CommandOf(r) \in Command
<1>1. /\ worker[r].batch \subseteq 1..last[r] /\ worker[r].batch # {}
      /\ last[r] \in Nat /\ last[r] <= Len(log[r]) /\ log[r] \in Seq(Command)
  BY DEF BusInv, Shape, BusTypeOK
<1>2. Min(worker[r].batch) \in worker[r].batch
  BY <1>1, MinIsMember
<1> QED  BY <1>1, <1>2 DEF InHand, CommandOf

\* Where RunConsumer goes from a batch.
LEMMA ProceedType ==
  ASSUME NEW w \in Worker, NEW b \in SUBSET ID
  PROVE  /\ Proceed(w, b) \in Worker /\ Proceed(w, b).batch = b
         /\ Proceed(w, b).at \in {"check", "read", "loop"}
         /\ Proceed(w, b).at \in Busy => b # {}
<1>1. CASE b # {}
  BY <1>1, Zenon DEF Proceed, Worker, Busy
<1>2. CASE b = {} /\ w.recovering
  <2> DEFINE v == [w EXCEPT !.at = "read", !.recoverIn = MinIdle, !.recovering = FALSE,
                            !.batch = {}, !.result = None]
  <2>1. Proceed(w, b) = v
    BY <1>2, Zenon DEF Proceed
  <2>2. MinIdle \in 0..MinIdle
    BY BusAssumption
  <2>3. v.batch = {} /\ v.at = "read"
    BY DEF Worker
  <2>4. v \in Worker
    BY <2>2, Zenon DEF Worker
  <2> QED  BY <1>2, <2>1, <2>3, <2>4, Zenon DEF Busy
<1>3. CASE b = {} /\ ~w.recovering
  BY <1>3, Zenon DEF Proceed, Worker, Busy
<1> QED  BY <1>1, <1>2, <1>3

\* What Publish does to the streams.
LEMMA XAddEffect ==
  ASSUME BusInv, NEW c \in Command, NEW n \in Nat, NEW r \in Runtime, XAdd(c, n, r)
  PROVE  /\ log' \in [Runtime -> Seq(Command)] /\ Len(log'[r]) = Len(log[r]) + n
         /\ Len(log'[r]) <= MaxEntries
         /\ \A i \in 1..Len(log[r]) : log'[r][i] = log[r][i]
         /\ \A i \in 1..Len(log'[r]) : i > Len(log[r]) => log'[r][i] = c
         /\ trimmed' \in [Runtime -> Nat]
         /\ trimmed'[r] = trimmed[r] \/ trimmed'[r] + MaxLen <= Len(log'[r])
         /\ \A q \in Runtime \ {r} : log'[q] = log[q] /\ trimmed'[q] = trimmed[q]
         /\ UNCHANGED <<last, pending, idle>>
<1> DEFINE t == log[r] \o [i \in 1..n |-> c]
<1>1. /\ log \in [Runtime -> Seq(Command)] /\ trimmed \in [Runtime -> Nat]
      /\ log[r] \in Seq(Command)
  BY DEF BusInv, BusTypeOK
<1>2. /\ t \in Seq(Command) /\ Len(t) = Len(log[r]) + n
      /\ \A i \in 1..Len(log[r]) : t[i] = log[r][i]
      /\ \A i \in 1..Len(t) : i > Len(log[r]) => t[i] = c
  BY <1>1, Appended
<1>3. log' = [log EXCEPT ![r] = t] /\ Len(log[r]) + n <= MaxEntries
  BY DEF XAdd
<1>4. PICK k \in trimmed[r]..MaxEntries :
        /\ k = trimmed[r] \/ k + MaxLen <= Len(log[r]) + n
        /\ trimmed' = [trimmed EXCEPT ![r] = k]
  BY Zenon DEF XAdd
<1>5. UNCHANGED <<last, pending, idle>>
  BY DEF XAdd
<1>6. k \in Nat
  BY <1>1, <1>4, BusAssumption
<1> HIDE DEF t
<1> QED  BY <1>1, <1>2, <1>3, <1>4, <1>5, <1>6, Zenon
\* The bus starts well formed.
LEMMA InitBus == BusInit => BusInv
<1> SUFFICES ASSUME BusInit PROVE BusInv
  OBVIOUS
<1> USE BusAssumption
<1>1. Started \in Worker
  BY DEF Started, Worker
<1>2. BusTypeOK
  BY <1>1, SeqEmpty DEF BusInit, BusTypeOK
<1>3. \A r \in Runtime : Shape(r)
  BY SeqEmpty DEF BusInit, Shape, Started, Busy
<1> QED  BY <1>2, <1>3 DEF BusInv

\* Publishing leaves the bus well formed.
LEMMA XAddBus ==
  ASSUME BusInv, NEW c \in Command, NEW n \in Nat, NEW r \in Runtime, XAdd(c, n, r),
         UNCHANGED <<record, worker>>
  PROVE  BusInv'
<1>1. BusTypeOK'
  BY XAddEffect, Zenon DEF BusInv, BusTypeOK
<1>2. ASSUME NEW q \in Runtime PROVE Shape(q)'
  <2>1. Shape(q) /\ log[q] \in Seq(Command) /\ Len(log[q]) \in Nat /\ last[q] \in Nat
    BY SeqLen DEF BusInv, BusTypeOK
  <2>2. CASE q = r
    <3>1. Len(log'[r]) = Len(log[r]) + n /\ last' = last
      BY XAddEffect
    <3>2. /\ trimmed'[r] = trimmed[r] \/ trimmed'[r] + MaxLen <= Len(log'[r])
          /\ trimmed[r] \in Nat
      BY XAddEffect DEF BusInv, BusTypeOK
    <3>3. last'[r] <= Len(log'[r])
      BY <2>1, <2>2, <3>1 DEF Shape
    <3>4. trimmed'[r] = 0 \/ trimmed'[r] + MaxLen <= Len(log'[r])
      BY <2>1, <2>2, <3>1, <3>2, BusAssumption DEF Shape
    <3> QED  BY <2>1, <2>2, <3>3, <3>4, XAddEffect DEF Shape
  <2>3. CASE q # r
    BY <2>1, <2>3, XAddEffect DEF Shape
  <2> QED  BY <2>2, <2>3
<1> QED  BY <1>1, <1>2 DEF BusInv

\* The consumer moves within its stream.
LEMMA WorkerBus ==
  ASSUME BusInv, NEW r \in Runtime, NEW w \in Worker, worker' = [worker EXCEPT ![r] = w],
         w.batch \subseteq 1..last'[r], w.at \in Busy => w.batch # {},
         w.at = "complete" => w.result \in Result,
         UNCHANGED <<log, trimmed>>,
         last' \in [Runtime -> Nat], last'[r] <= Len(log[r]),
         pending' \in [Runtime -> SUBSET ID], pending'[r] \subseteq 1..last'[r],
         \A q \in Runtime \ {r} : last'[q] = last[q] /\ pending'[q] = pending[q],
         idle' \in [Runtime -> [ID -> 0..MinIdle]],
         record' \in [Command -> Record \cup {None}]
  PROVE  BusInv'
<1>1. BusTypeOK'
  BY Zenon DEF BusInv, BusTypeOK
<1>2. ASSUME NEW q \in Runtime PROVE Shape(q)'
  <2>1. Shape(q) /\ worker \in [Runtime -> Worker]
    BY DEF BusInv, BusTypeOK
  <2>2. CASE q = r
    BY <2>1, <2>2 DEF Shape
  <2>3. CASE q # r
    BY <2>1, <2>3, Zenon DEF Shape
  <2> QED  BY <2>2, <2>3
<1> QED  BY <1>1, <1>2 DEF BusInv
\* A stopped consumer has nothing in hand.
LEMMA StopBus ==
  ASSUME BusInv, NEW r \in Runtime, NEW at \in {"loop", "retry", "down"}, Stop(r, at),
         UNCHANGED <<streamVars, record>>
  PROVE  BusInv'
<1> DEFINE w == [Started EXCEPT !.at = at]
<1>1. /\ w \in Worker /\ w.batch = {} /\ w.at \notin Busy /\ w.at # "complete"
  <2>1. w.batch = {} /\ w.at = at
    BY DEF Started
  <2>2. 0 \in 0..MinIdle
    BY BusAssumption
  <2>3. Started \in Worker
    BY <2>2 DEF Started, Worker
  <2>4. w \in Worker
    BY <2>3 DEF Worker
  <2> QED  BY <2>1, <2>4 DEF Busy
<1>2. worker' = [worker EXCEPT ![r] = w]
  BY DEF Stop
<1> HIDE DEF w
<1>3. Shape(r) /\ BusTypeOK
  BY DEF BusInv
<1> QED  BY <1>1, <1>2, <1>3, WorkerBus, Zenon DEF Shape, BusTypeOK, streamVars

\* XAUTOCLAIM leaves the bus well formed.
LEMMA RecoverBus == ASSUME BusInv, NEW r \in Runtime, Recover(r) PROVE BusInv'
<1> DEFINE gone == {i \in pending[r] : i <= trimmed[r]}
           due == gone \cup {i \in pending[r] : idle[r][i] = MinIdle}
           taken == {i \in due : Cardinality({j \in due : j < i}) < BatchSize}
           w == Proceed([worker[r] EXCEPT !.recovering = TRUE], taken \ gone)
<1>1. Shape(r) /\ BusTypeOK
  BY DEF BusInv
<1>2. /\ pending' = [pending EXCEPT ![r] = @ \ (taken \cap gone)]
      /\ idle' = [idle EXCEPT ![r] = [i \in ID |-> IF i \in taken THEN 0 ELSE @[i]]]
      /\ worker' = [worker EXCEPT ![r] = w]
      /\ UNCHANGED <<log, trimmed, last, record>>
  BY Zenon DEF Recover
<1>3. taken \subseteq pending[r]
  OBVIOUS
<1> HIDE DEF taken, gone
<1>4. [worker[r] EXCEPT !.recovering = TRUE] \in Worker
  BY <1>1, ZenonT(60) DEF BusTypeOK, Worker
<1>5. taken \ gone \in SUBSET ID /\ pending[r] \in SUBSET ID
  BY <1>1, <1>3 DEF BusTypeOK
<1>6. /\ w \in Worker /\ w.batch = taken \ gone /\ w.at \in {"check", "read", "loop"}
      /\ w.at \in Busy => w.batch # {}
  BY <1>4, <1>5, ProceedType, Zenon
<1> HIDE DEF w
<1>7. pending' \in [Runtime -> SUBSET ID] /\ pending'[r] \subseteq pending[r]
  BY <1>1, <1>2, <1>5 DEF BusTypeOK
<1>8. idle' \in [Runtime -> [ID -> 0..MinIdle]]
  BY <1>1, <1>2, BusAssumption DEF BusTypeOK
<1>9. /\ w.batch \subseteq 1..last'[r] /\ pending'[r] \subseteq 1..last'[r]
      /\ \A q \in Runtime \ {r} : last'[q] = last[q] /\ pending'[q] = pending[q]
  BY <1>1, <1>2, <1>3, <1>6, <1>7 DEF Shape, BusTypeOK
<1>10. /\ last' \in [Runtime -> Nat] /\ last'[r] <= Len(log[r])
       /\ record' \in [Command -> Record \cup {None}]
  BY <1>1, <1>2 DEF Shape, BusTypeOK
<1> QED  BY <1>2, <1>6, <1>7, <1>8, <1>9, <1>10, WorkerBus, Zenon
\* XREADGROUP delivers an entry that exists, the first after the last delivered one.
LEMMA ReadEffect ==
  ASSUME BusInv, NEW r \in Runtime, Read(r)
  PROVE  /\ NextID(r) \in Nat \ {0} /\ last[r] < NextID(r) /\ trimmed[r] < NextID(r)
         /\ UNCHANGED <<log, trimmed, record>>
         /\ worker[r].at \in {"loop", "read"}
         /\ \/ /\ worker' = [worker EXCEPT ![r].at = "loop"]
               /\ UNCHANGED <<last, pending, idle>>
            \/ /\ NextID(r) <= Len(log[r]) /\ NextID(r) \in ID
               /\ last' = [last EXCEPT ![r] = NextID(r)]
               /\ pending' = [pending EXCEPT ![r] = @ \cup {NextID(r)}]
               /\ idle' = [idle EXCEPT ![r][NextID(r)] = 0]
               /\ worker' = [worker EXCEPT ![r] = Proceed(worker[r], {NextID(r)})]
<1>1. /\ trimmed[r] \in Nat /\ last[r] \in Nat /\ Len(log[r]) \in Nat
      /\ Len(log[r]) <= MaxEntries
  BY SeqLen DEF BusInv, BusTypeOK
<1>2. NextID(r) \in Nat \ {0} /\ last[r] < NextID(r) /\ trimmed[r] < NextID(r)
  BY <1>1 DEF NextID
<1>3. worker[r].at \in {"loop", "read"} /\ UNCHANGED <<log, trimmed, record>>
  BY DEF Read, streamVars
<1>4. NextID(r) <= Len(log[r]) => NextID(r) \in ID
  BY <1>1, <1>2, BusAssumption DEF ID
<1>5. CASE NextID(r) > Len(log[r])
  BY <1>2, <1>3, <1>5, Zenon DEF Read, streamVars
<1>6. CASE ~(NextID(r) > Len(log[r]))
  <2>1. NextID(r) <= Len(log[r])
    BY <1>1, <1>2, <1>6
  <2> QED  BY <1>2, <1>3, <1>4, <1>6, <2>1, Zenon DEF Read
<1> QED  BY <1>5, <1>6

\* XREADGROUP leaves the bus well formed.
LEMMA ReadBus == ASSUME BusInv, NEW r \in Runtime, Read(r) PROVE BusInv'
<1> DEFINE i == NextID(r)
<1>1. Shape(r) /\ BusTypeOK /\ worker[r] \in Worker
  BY DEF BusInv, BusTypeOK
<1>2. i \in Nat \ {0} /\ last[r] < i /\ UNCHANGED <<log, trimmed, record>>
  BY ReadEffect, Zenon
<1>3. CASE worker' = [worker EXCEPT ![r].at = "loop"] /\ UNCHANGED <<last, pending, idle>>
  <2> DEFINE w == [worker[r] EXCEPT !.at = "loop"]
  <2>1. /\ w \in Worker /\ w.batch = worker[r].batch /\ w.at = "loop"
    BY <1>1 DEF Worker
  <2>2. worker' = [worker EXCEPT ![r] = w]
    BY <1>3
  <2> HIDE DEF w
  <2> QED  BY <1>1, <1>2, <1>3, <2>1, <2>2, WorkerBus, Zenon DEF Shape, BusTypeOK, Busy
<1>4. CASE /\ i <= Len(log[r]) /\ i \in ID
           /\ last' = [last EXCEPT ![r] = i]
           /\ pending' = [pending EXCEPT ![r] = @ \cup {i}]
           /\ idle' = [idle EXCEPT ![r][i] = 0]
           /\ worker' = [worker EXCEPT ![r] = Proceed(worker[r], {i})]
  <2> DEFINE w == Proceed(worker[r], {i})
  <2>1. /\ w \in Worker /\ w.batch = {i} /\ w.at \in {"check", "read", "loop"}
        /\ w.at \in Busy => w.batch # {}
    BY <1>1, <1>4, ProceedType
  <2>2. worker' = [worker EXCEPT ![r] = w]
    BY <1>4
  <2> HIDE DEF w, i
  <2>3. last' \in [Runtime -> Nat] /\ last'[r] = i
    BY <1>1, <1>2, <1>4 DEF BusTypeOK
  <2>4. /\ pending' \in [Runtime -> SUBSET ID] /\ pending'[r] = pending[r] \cup {i}
    BY <1>1, <1>4 DEF BusTypeOK
  <2>5. idle' \in [Runtime -> [ID -> 0..MinIdle]]
    BY <1>1, <1>4, BusAssumption DEF BusTypeOK
  <2>6. pending'[r] \subseteq 1..last'[r] /\ w.batch \subseteq 1..last'[r]
    <3>1. pending[r] \subseteq 1..last[r] /\ last[r] \in Nat
      BY <1>1 DEF Shape, BusTypeOK
    <3> QED  BY <1>2, <2>1, <2>3, <2>4, <3>1
  <2>7. \A q \in Runtime \ {r} : last'[q] = last[q] /\ pending'[q] = pending[q]
    BY <1>1, <1>4 DEF BusTypeOK
  <2>8. record' \in [Command -> Record \cup {None}]
    BY <1>1, <1>2 DEF BusTypeOK
  <2> QED  BY <1>2, <1>4, <2>1, <2>2, <2>3, <2>4, <2>5, <2>6, <2>7, <2>8, WorkerBus, Zenon
<1> QED  BY <1>3, <1>4, ReadEffect, Zenon
\* The consumer moves on with the entry it has in hand.
LEMMA AtBus ==
  ASSUME BusInv, NEW r \in Runtime, worker[r].at \in Busy,
         NEW at \in Busy, NEW result \in Result \cup {None},
         at = "complete" => result \in Result,
         worker' = [worker EXCEPT ![r] = [@ EXCEPT !.at = at, !.result = result]],
         UNCHANGED streamVars, record' \in [Command -> Record \cup {None}]
  PROVE  BusInv'
<1> DEFINE w == [worker[r] EXCEPT !.at = at, !.result = result]
<1>1. Shape(r) /\ BusTypeOK /\ worker[r] \in Worker
  BY DEF BusInv, BusTypeOK
<1>2. w.batch = worker[r].batch /\ w.at = at /\ w.result = result
  BY <1>1 DEF Worker
<1>3. w \in Worker
  BY <1>1, Zenon DEF Worker
<1>4. worker' = [worker EXCEPT ![r] = w]
  OBVIOUS
<1> HIDE DEF w
<1> QED  BY <1>1, <1>2, <1>3, <1>4, WorkerBus, Zenon DEF Shape, BusTypeOK, streamVars

\* What completed() and the handler leave in the consumer's hands.
LEMMA CheckEffect ==
  ASSUME BusInv, NEW r \in Runtime, Check(r)
  PROVE  /\ worker[r].at = "check" /\ UNCHANGED <<streamVars, record>>
         /\ \/ /\ record[CommandOf(r)] = None
               /\ worker' = [worker EXCEPT ![r] = [@ EXCEPT !.at = "handle"]]
            \/ /\ record[CommandOf(r)] \in Record
               /\ worker' = [worker EXCEPT ![r] = [@ EXCEPT
                    !.at = "complete", !.result = record[CommandOf(r)].result]]
<1>1. worker[r].at = "check"
  BY DEF Check
<1>2. CommandOf(r) \in Command
  BY <1>1, InHandOfStream DEF Busy
<1>3. record[CommandOf(r)] \in Record \cup {None}
  BY <1>2 DEF BusInv, BusTypeOK
<1>4. CASE record[CommandOf(r)] = None
  BY <1>1, <1>4, Zenon DEF Check
<1>5. CASE record[CommandOf(r)] # None
  BY <1>1, <1>3, <1>5, Zenon DEF Check
<1> QED  BY <1>4, <1>5

\* The question to completed() leaves the bus well formed.
LEMMA CheckBus == ASSUME BusInv, NEW r \in Runtime, Check(r) PROVE BusInv'
<1> DEFINE c == CommandOf(r)
<1>1. /\ worker[r].at \in Busy /\ worker[r] \in Worker /\ UNCHANGED <<streamVars, record>>
      /\ record' \in [Command -> Record \cup {None}]
  BY CheckEffect, Zenon DEF Busy, BusInv, BusTypeOK
<1>2. CASE worker' = [worker EXCEPT ![r] = [@ EXCEPT !.at = "handle"]]
  <2>1. worker[r].result \in Result \cup {None}
    BY <1>1 DEF Worker
  <2>2. [worker[r] EXCEPT !.at = "handle"]
          = [worker[r] EXCEPT !.at = "handle", !.result = worker[r].result]
    BY <1>1, Zenon DEF Worker
  <2>3. worker' = [worker EXCEPT ![r] = [@ EXCEPT !.at = "handle", !.result = worker[r].result]]
    BY <1>2, <2>2, Zenon
  <2> QED  BY <1>1, <2>1, <2>3, AtBus, Zenon DEF Busy
<1>3. CASE /\ record[c] \in Record
           /\ worker' = [worker EXCEPT ![r] = [@ EXCEPT
                !.at = "complete", !.result = record[c].result]]
  <2>1. record[c].result \in Result
    BY <1>3 DEF Record
  <2> QED  BY <1>1, <1>3, <2>1, AtBus, Zenon DEF Busy
<1> QED  BY <1>2, <1>3, CheckEffect, Zenon
\* complete() writes a record with the result in hand, at the end of the list.
LEMMA CompleteEffect ==
  ASSUME BusInv, NEW r \in Runtime, Complete(r)
  PROVE  \E list \in Seq(Result) :
           /\ worker[r].at = "complete" /\ worker[r].result \in Result
           /\ list = (IF record[CommandOf(r)] = None THEN <<>> ELSE record[CommandOf(r)].list)
           /\ record' = [record EXCEPT ![CommandOf(r)] =
                [result |-> worker[r].result, list |-> Append(list, worker[r].result),
                 ttl |-> ResultTTL]]
           /\ record' \in [Command -> Record \cup {None}] /\ record'[CommandOf(r)] \in Record
           /\ worker' = [worker EXCEPT ![r] = [@ EXCEPT !.at = "ack"]]
           /\ UNCHANGED streamVars
<1> DEFINE c == CommandOf(r)
           result == worker[r].result
           list == IF record[c] = None THEN <<>> ELSE record[c].list
           new == [result |-> result, list |-> Append(list, result), ttl |-> ResultTTL]
<1>1. /\ worker[r].at = "complete" /\ UNCHANGED streamVars
      /\ record' = [record EXCEPT ![c] = new]
      /\ worker' = [worker EXCEPT ![r] = [@ EXCEPT !.at = "ack"]]
  BY Zenon DEF Complete
<1>2. c \in Command
  BY <1>1, InHandOfStream DEF Busy
<1>3. record \in [Command -> Record \cup {None}] /\ Shape(r)
  BY DEF BusInv, BusTypeOK
<1>4. result \in Result
  BY <1>1, <1>3 DEF Shape
<1>5. list \in Seq(Result)
  <2>1. CASE record[c] = None
    BY <2>1, SeqEmpty
  <2>2. CASE record[c] # None
    BY <1>2, <1>3, <2>2 DEF Record
  <2> QED  BY <2>1, <2>2
<1> HIDE DEF list, c, result
<1>6. new \in Record
  BY <1>4, <1>5, BusAssumption, SeqAppend DEF Record
<1>7. record' \in [Command -> Record \cup {None}] /\ record'[c] \in Record
  BY <1>1, <1>2, <1>3, <1>6
<1> USE DEF list, c, result
<1> QED  BY <1>1, <1>4, <1>5, <1>7, Zenon

\* complete() leaves the bus well formed.
LEMMA CompleteBus == ASSUME BusInv, NEW r \in Runtime, Complete(r) PROVE BusInv'
<1>1. /\ worker[r].at = "complete" /\ worker[r].result \in Result
      /\ record' \in [Command -> Record \cup {None}] /\ UNCHANGED streamVars
      /\ worker' = [worker EXCEPT ![r] = [@ EXCEPT !.at = "ack"]]
  BY CompleteEffect
<1>2. worker[r] \in Worker
  BY DEF BusInv, BusTypeOK
<1>3. [worker[r] EXCEPT !.at = "ack"]
        = [worker[r] EXCEPT !.at = "ack", !.result = worker[r].result]
  BY <1>2, Zenon DEF Worker
<1>4. worker' = [worker EXCEPT ![r] = [@ EXCEPT !.at = "ack", !.result = worker[r].result]]
  BY <1>1, <1>3, Zenon
<1> QED  BY <1>1, <1>4, AtBus, Zenon DEF Busy

\* XACK leaves the bus well formed.
LEMMA AckBus == ASSUME BusInv, NEW r \in Runtime, Ack(r) PROVE BusInv'
<1> DEFINE b == worker[r].batch \ {InHand(r)}
           w == Proceed(worker[r], b)
<1>1. /\ pending' = [pending EXCEPT ![r] = @ \ {InHand(r)}]
      /\ worker' = [worker EXCEPT ![r] = w]
      /\ UNCHANGED <<log, trimmed, last, idle, record>>
  BY DEF Ack
<1>2. Shape(r) /\ BusTypeOK /\ worker[r] \in Worker
  BY DEF BusInv, BusTypeOK
<1>3. b \in SUBSET ID
  BY <1>2 DEF Worker
<1>4. /\ w \in Worker /\ w.batch = b /\ w.at \in {"check", "read", "loop"}
      /\ w.at \in Busy => w.batch # {}
  BY <1>2, <1>3, ProceedType
<1> HIDE DEF w
<1>5. /\ pending' \in [Runtime -> SUBSET ID] /\ pending'[r] \subseteq pending[r]
      /\ \A q \in Runtime \ {r} : last'[q] = last[q] /\ pending'[q] = pending[q]
  BY <1>1, <1>2 DEF BusTypeOK
<1>6. w.batch \subseteq 1..last'[r] /\ pending'[r] \subseteq 1..last'[r]
  BY <1>1, <1>2, <1>4, <1>5 DEF Shape
<1> HIDE DEF b
<1> QED  BY <1>1, <1>2, <1>4, <1>5, <1>6, WorkerBus, Zenon DEF Shape, BusTypeOK

\* RPOP takes the first result.
LEMMA PopEffect ==
  ASSUME BusInv, NEW c \in Command, Pop(c)
  PROVE  /\ record[c] \in Record /\ record[c].list # <<>> /\ UNCHANGED <<streamVars, worker>>
         /\ record' = [record EXCEPT ![c] = [@ EXCEPT !.list = Tail(record[c].list)]]
         /\ record' \in [Command -> Record \cup {None}]
<1>1. record \in [Command -> Record \cup {None}]
  BY DEF BusInv, BusTypeOK
<1>2. /\ record[c] \in Record /\ record[c].list # <<>> /\ UNCHANGED <<streamVars, worker>>
      /\ record' = [record EXCEPT ![c] = [@ EXCEPT !.list = Tail(record[c].list)]]
  BY <1>1 DEF Pop
<1>3. Tail(record[c].list) \in Seq(Result)
  BY <1>2, SeqHeadTail DEF Record
<1>4. [record[c] EXCEPT !.list = Tail(record[c].list)] \in Record
  BY <1>2, <1>3, Zenon DEF Record
<1> QED  BY <1>1, <1>2, <1>4
\* A tick changes only the clock of a consumer, and the life of the records.
LEMMA ElapseEffect ==
  ASSUME BusInv, BusElapse
  PROVE  /\ worker' \in [Runtime -> Worker]
         /\ \A r \in Runtime : /\ worker'[r].at = worker[r].at
                               /\ worker'[r].batch = worker[r].batch
                               /\ worker'[r].result = worker[r].result
         /\ idle' \in [Runtime -> [ID -> 0..MinIdle]]
         /\ UNCHANGED <<log, trimmed, last, pending>>
         /\ record' \in [Command -> Record \cup {None}]
         /\ \A c \in Command :
              \/ record[c] = None /\ record'[c] = None
              \/ record[c] \in Record /\ record[c].ttl = 1 /\ record'[c] = None
              \/ /\ record[c] \in Record /\ record'[c] \in Record
                 /\ record'[c].result = record[c].result /\ record'[c].list = record[c].list
                 /\ record'[c].ttl = record[c].ttl - 1
<1> USE BusAssumption
<1>1. BusTypeOK
  BY DEF BusInv
<1>2. /\ idle' = [r \in Runtime |-> [i \in ID |->
                    IF idle[r][i] < MinIdle THEN idle[r][i] + 1 ELSE MinIdle]]
      /\ worker' = [r \in Runtime |->
           [worker[r] EXCEPT !.recoverIn = IF worker[r].recoverIn > 0
                                           THEN worker[r].recoverIn - 1 ELSE 0]]
      /\ UNCHANGED <<log, trimmed, last, pending>>
      /\ record' = [c \in Command |->
           IF record[c] = None \/ record[c].ttl = 1 THEN None
           ELSE [record[c] EXCEPT !.ttl = record[c].ttl - 1]]
  BY DEF BusElapse, Ageing
<1>3. ASSUME NEW r \in Runtime
      PROVE  /\ worker'[r] \in Worker /\ worker'[r].at = worker[r].at
             /\ worker'[r].batch = worker[r].batch /\ worker'[r].result = worker[r].result
  <2> DEFINE k == IF worker[r].recoverIn > 0 THEN worker[r].recoverIn - 1 ELSE 0
  <2>1. worker[r] \in Worker
    BY <1>1 DEF BusTypeOK
  <2>2. k \in 0..MinIdle
    BY <2>1 DEF Worker
  <2>3. worker'[r] = [worker[r] EXCEPT !.recoverIn = k]
    BY <1>2
  <2> HIDE DEF k
  <2> QED  BY <2>1, <2>2, <2>3 DEF Worker
<1>4. idle' \in [Runtime -> [ID -> 0..MinIdle]]
  <2>1. \A r \in Runtime, i \in ID : idle[r][i] \in 0..MinIdle
    BY <1>1 DEF BusTypeOK
  <2>2. \A r \in Runtime, i \in ID :
          (IF idle[r][i] < MinIdle THEN idle[r][i] + 1 ELSE MinIdle) \in 0..MinIdle
    BY <2>1
  <2> QED  BY <1>2, <2>2, Zenon
<1>5. ASSUME NEW c \in Command
      PROVE  \/ record[c] = None /\ record'[c] = None
             \/ record[c] \in Record /\ record[c].ttl = 1 /\ record'[c] = None
             \/ /\ record[c] \in Record /\ record'[c] \in Record
                /\ record'[c].result = record[c].result /\ record'[c].list = record[c].list
                /\ record'[c].ttl = record[c].ttl - 1
  <2>1. record[c] \in Record \cup {None}
    BY <1>1 DEF BusTypeOK
  <2>2. CASE record[c] = None
    BY <1>2, <2>2
  <2>3. CASE record[c] # None /\ record[c].ttl = 1
    BY <1>2, <2>1, <2>3
  <2>4. CASE record[c] # None /\ record[c].ttl # 1
    <3>1. record[c] \in Record /\ record[c].ttl - 1 \in 1..ResultTTL
      BY <2>1, <2>4 DEF Record
    <3>2. record'[c] = [record[c] EXCEPT !.ttl = record[c].ttl - 1]
      BY <1>2, <2>4
    <3> QED  BY <3>1, <3>2, Zenon DEF Record
  <2> QED  BY <2>2, <2>3, <2>4
<1>6. record' \in [Command -> Record \cup {None}]
  BY <1>2, <1>5
<1>7. worker' \in [Runtime -> Worker]
  BY <1>2, <1>3
<1> QED  BY <1>2, <1>3, <1>4, <1>5, <1>6, <1>7

\* Time leaves the bus well formed.
LEMMA ElapseBus == ASSUME BusInv, BusElapse PROVE BusInv'
<1>1. BusTypeOK'
  BY ElapseEffect DEF BusInv, BusTypeOK
<1>2. ASSUME NEW r \in Runtime PROVE Shape(r)'
  <2>1. /\ worker'[r].at = worker[r].at /\ worker'[r].batch = worker[r].batch
        /\ worker'[r].result = worker[r].result /\ UNCHANGED <<log, trimmed, last, pending>>
    BY ElapseEffect
  <2> QED  BY <2>1 DEF BusInv, Shape
<1> QED  BY <1>1, <1>2 DEF BusInv

\* A call of the consumer leaves the bus well formed.
LEMMA CallBus == ASSUME BusInv, NEW r \in Runtime, Call(r) PROVE BusInv'
BY RecoverBus, ReadBus, CheckBus, CompleteBus, AckBus DEF Call

\* A step that does not touch the bus leaves it well formed.
LEMMA SameBus == BusInv /\ UNCHANGED busVars => BusInv'
BY DEF BusInv, BusTypeOK, Shape, busVars, streamVars, InHand-----------------------------------------------------------------------------
=============================================================================
