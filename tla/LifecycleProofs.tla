--------------------------- MODULE LifecycleProofs ---------------------------
(***************************************************************************)
(* The safety invariants of a runtime's life.  NotReadyWithoutConsumer is  *)
(* inductive as it stands.  HandlesFollowRuntime is not: whether an error  *)
(* return closes enough depends on what the calls before it have opened.   *)
(* OpenedSoFar says which clients are open at each call of the start, and  *)
(* CoveredReturns reads off the table of calls that each error return      *)
(* closes at least those.                                                  *)
(***************************************************************************)
EXTENDS Lifecycle, TLAPS

\* The clients open while call n of the start is next.
Opened(n) == {s \in uses : \/ s = "database" /\ n > 2
                           \/ s = "redis" /\ n > 7}

OpenedSoFar ==
  /\ uses \subseteq Store /\ step \in 1 .. Listen + 1
  /\ main = "starting" => open = Opened(step)

LifecycleInv == OpenedSoFar /\ HandlesFollowRuntime /\ NotReadyWithoutConsumer

\* Where the elements of two sequences are in their concatenation: the calls of New
\* and Run are listed part by part.
LEMMA Joined ==
  ASSUME NEW R, NEW a \in Seq(R), NEW b \in Seq(R)
  PROVE  /\ a \o b \in Seq(R) /\ Len(a \o b) = Len(a) + Len(b)
         /\ \A n \in 1 .. Len(a) : (a \o b)[n] = a[n]
         /\ \A n \in Len(a) + 1 .. Len(a) + Len(b) : (a \o b)[n] = b[n - Len(a)]
  OBVIOUS

\* The calls of New and Run in the order they are made.
LEMMA StartCalls ==
  /\ Start[1] = Call({}, {}, {})
  /\ Start[2] = Call({"database"}, {"database"}, {})
  /\ \A n \in 3 .. 5 : Start[n] = Call({"database"}, {}, {"database"})
  /\ Start[6] = Call({}, {}, {"database"})
  /\ Start[7] = Call({"redis"}, {"redis"}, {"database"})
  /\ \A n \in 8 .. 11 : Start[n] = Call({"redis"}, {}, {"redis", "database"})
  /\ \A n \in 12 .. 15 : Start[n] = Call({}, {}, {"redis", "database"})
<1> DEFINE Row == [needs : SUBSET Store, opens : SUBSET Store, closes : SUBSET Store]
           Redis == MySQLCalls \o RedisCalls
           Server == Redis \o ServerCalls
<1>1. /\ MySQLCalls \in Seq(Row) /\ Len(MySQLCalls) = 6
      /\ RedisCalls \in Seq(Row) /\ Len(RedisCalls) = 5
      /\ ServerCalls \in Seq(Row) /\ Len(ServerCalls) = 3
      /\ RunCalls \in Seq(Row) /\ Len(RunCalls) = 1
  BY DEF MySQLCalls, RedisCalls, ServerCalls, RunCalls, Call, Store
<1>2. /\ Redis \in Seq(Row) /\ Len(Redis) = 11
      /\ \A n \in 1 .. 6 : Redis[n] = MySQLCalls[n]
      /\ \A n \in 7 .. 11 : Redis[n] = RedisCalls[n - 6]
  <2> HIDE DEF Row
  <2>1. /\ Redis \in Seq(Row) /\ Len(Redis) = Len(MySQLCalls) + Len(RedisCalls)
        /\ \A n \in 1 .. Len(MySQLCalls) : Redis[n] = MySQLCalls[n]
        /\ \A n \in Len(MySQLCalls) + 1 .. Len(MySQLCalls) + Len(RedisCalls) :
             Redis[n] = RedisCalls[n - Len(MySQLCalls)]
    BY <1>1, Joined, Zenon
  <2> HIDE DEF Redis
  <2> QED  BY <1>1, <2>1
<1>3. /\ Server \in Seq(Row) /\ Len(Server) = 14
      /\ \A n \in 1 .. 11 : Server[n] = Redis[n]
      /\ \A n \in 12 .. 14 : Server[n] = ServerCalls[n - 11]
  <2> HIDE DEF Row, Redis
  <2>1. /\ Server \in Seq(Row) /\ Len(Server) = Len(Redis) + Len(ServerCalls)
        /\ \A n \in 1 .. Len(Redis) : Server[n] = Redis[n]
        /\ \A n \in Len(Redis) + 1 .. Len(Redis) + Len(ServerCalls) :
             Server[n] = ServerCalls[n - Len(Redis)]
    <3>1. Redis \in Seq(Row) /\ ServerCalls \in Seq(Row)
      BY <1>1, <1>2
    <3> QED  BY <3>1, Joined, Zenon
  <2> HIDE DEF Server
  <2> QED  BY <1>1, <1>2, <2>1
<1>4. /\ \A n \in 1 .. 14 : Start[n] = Server[n]
      /\ Start[15] = RunCalls[1]
  <2> HIDE DEF Row
  <2> DEFINE All == Server \o RunCalls
  <2>1. /\ All \in Seq(Row) /\ Len(All) = Len(Server) + Len(RunCalls)
        /\ \A n \in 1 .. Len(Server) : All[n] = Server[n]
        /\ \A n \in Len(Server) + 1 .. Len(Server) + Len(RunCalls) :
             All[n] = RunCalls[n - Len(Server)]
    <3> HIDE DEF Server
    <3>1. Server \in Seq(Row) /\ RunCalls \in Seq(Row)
      BY <1>1, <1>3
    <3> QED  BY <3>1, Joined, Zenon
  <2>2. Start = All
    BY DEF Start
  <2> HIDE DEF All, Server
  <2> QED  BY <1>1, <1>3, <2>1, <2>2
<1> HIDE DEF Redis, Server
<1>5. /\ Start[1] = MySQLCalls[1] /\ Start[2] = MySQLCalls[2] /\ Start[3] = MySQLCalls[3]
      /\ Start[4] = MySQLCalls[4] /\ Start[5] = MySQLCalls[5] /\ Start[6] = MySQLCalls[6]
  BY <1>2, <1>3, <1>4
<1>6. /\ Start[7] = RedisCalls[1] /\ Start[8] = RedisCalls[2] /\ Start[9] = RedisCalls[3]
      /\ Start[10] = RedisCalls[4] /\ Start[11] = RedisCalls[5]
  BY <1>2, <1>3, <1>4
<1>7. /\ Start[12] = ServerCalls[1] /\ Start[13] = ServerCalls[2]
      /\ Start[14] = ServerCalls[3]
  BY <1>3, <1>4
<1>8. /\ Start[1] = Call({}, {}, {})
      /\ Start[2] = Call({"database"}, {"database"}, {})
      /\ \A n \in 3 .. 5 : Start[n] = Call({"database"}, {}, {"database"})
      /\ Start[6] = Call({}, {}, {"database"})
  BY <1>5 DEF MySQLCalls
<1>9. /\ Start[7] = Call({"redis"}, {"redis"}, {"database"})
      /\ \A n \in 8 .. 11 : Start[n] = Call({"redis"}, {}, {"redis", "database"})
  BY <1>6 DEF RedisCalls
<1>10. \A n \in 12 .. 15 : Start[n] = Call({}, {}, {"redis", "database"})
  <2>1. {"database", "redis"} = {"redis", "database"}
    OBVIOUS
  <2>2. Start[15] = Call({}, {}, {"redis", "database"})
    BY <1>4, <2>1 DEF RunCalls
  <2> QED  BY <1>7, <2>2 DEF ServerCalls
<1> QED  BY <1>8, <1>9, <1>10

\* The error return of each call closes every client that is open when it is made.
LEMMA CoveredReturns ==
  ASSUME uses \subseteq Store, NEW n \in 1 .. Listen
  PROVE  Opened(n) \subseteq Start[n].closes
<1>1. CASE n \in 1 .. 2
  BY <1>1 DEF Opened
<1>2. CASE n \in 3 .. 7
  <2>1. "database" \in Start[n].closes
    BY <1>2, StartCalls DEF Call
  <2> QED  BY <1>2, <2>1 DEF Opened
<1>3. CASE n \in 8 .. 15
  <2>1. Store \subseteq Start[n].closes
    BY <1>3, StartCalls DEF Call, Store
  <2> QED  BY <2>1 DEF Opened
<1> QED  BY <1>1, <1>2, <1>3 DEF Listen

\* A call that succeeds, or is left out, opens what the next one finds open.
LEMMA OpensNext ==
  ASSUME uses \subseteq Store, NEW n \in 1 .. Listen
  PROVE  Opened(n + 1) = IF Start[n].needs \subseteq uses
                         THEN Opened(n) \cup Start[n].opens ELSE Opened(n)
<1>1. CASE n = 2
  <2>1. Start[n].needs = {"database"} /\ Start[n].opens = {"database"}
    BY <1>1, StartCalls DEF Call
  <2> QED  BY <1>1, <2>1 DEF Opened, Store
<1>2. CASE n = 7
  <2>1. Start[n].needs = {"redis"} /\ Start[n].opens = {"redis"}
    BY <1>2, StartCalls DEF Call
  <2> QED  BY <1>2, <2>1 DEF Opened, Store
<1>3. CASE n \notin {2, 7}
  <2>1. Start[n].opens = {}
    BY <1>3, StartCalls DEF Call, Listen
  <2>2. Opened(n + 1) = Opened(n)
    BY <1>3 DEF Opened, Listen
  <2> QED  BY <2>1, <2>2
<1> QED  BY <1>1, <1>2, <1>3

\* When the last call has succeeded everything configured is open.
LEMMA AllOpened ==
  ASSUME uses \subseteq Store
  PROVE  Opened(Listen + 1) = uses
<1>1. \A s \in uses : s = "database" \/ s = "redis"
  BY DEF Store
<1>2. Listen + 1 > 2 /\ Listen + 1 > 7
  BY DEF Listen
<1> QED  BY <1>1, <1>2, Zenon DEF Opened

\* Nothing is open before the first call.
LEMMA InitLifecycle == Init => LifecycleInv
  BY DEF Init, LifecycleInv, OpenedSoFar, Opened, Listen, HandlesFollowRuntime,
         NotReadyWithoutConsumer

\* The calls of New and Run, and the step to serve.
LEMMA StartKeeps ==
  ASSUME LifecycleInv, Startup
  PROVE  LifecycleInv'
<1>1. uses \subseteq Store /\ step \in 1 .. Listen + 1 /\ main = "starting"
  BY DEF LifecycleInv, OpenedSoFar, Startup, CallSucceeds, CallFails, Serve
<1>2. open = Opened(step)
  BY <1>1 DEF LifecycleInv, OpenedSoFar
<1>3. CASE CallSucceeds
  <2>1. step \in 1 .. Listen
    BY <1>1, <1>3 DEF CallSucceeds, Listen
  <2>2. open' = Opened(step + 1)
    BY <1>1, <1>2, <1>3, <2>1, OpensNext, Zenon DEF CallSucceeds, Configured
  <2>3. main' = "starting" /\ uses' = uses /\ step' = step + 1
    BY <1>1, <1>3 DEF CallSucceeds, serveVars
  <2>4. OpenedSoFar'
    BY <1>1, <2>1, <2>2, <2>3 DEF OpenedSoFar, Opened, Listen
  <2>5. NotReadyWithoutConsumer'
    BY <1>3 DEF CallSucceeds, LifecycleInv, NotReadyWithoutConsumer
  <2> QED  BY <2>3, <2>4, <2>5 DEF LifecycleInv, HandlesFollowRuntime
<1>4. CASE CallFails
  <2>1. step \in 1 .. Listen
    BY <1>1, <1>4 DEF CallFails, Listen
  <2>2. open' = {}
    BY <1>1, <1>2, <1>4, <2>1, CoveredReturns DEF CallFails
  <2>3. NotReadyWithoutConsumer'
    BY <1>4 DEF CallFails, LifecycleInv, NotReadyWithoutConsumer
  <2> QED
    BY <1>1, <1>4, <2>2, <2>3 DEF CallFails, LifecycleInv, OpenedSoFar, HandlesFollowRuntime
<1>5. CASE Serve
  <2>1. open = uses
    BY <1>1, <1>2, <1>5, AllOpened DEF Serve
  <2>2. main' = "serving" /\ UNCHANGED <<uses, open, step>>
    BY <1>5 DEF Serve, startVars
  <2>3. NotReadyWithoutConsumer'
    BY <1>5 DEF Serve, NotReadyWithoutConsumer
  <2> QED
    BY <1>1, <2>1, <2>2, <2>3 DEF LifecycleInv, OpenedSoFar, HandlesFollowRuntime
<1> QED  BY <1>3, <1>4, <1>5 DEF Startup

\* The steps of serve and of the HTTP server: ready is only cleared, and the
\* clients are closed by the step that ends the shutdown and by no other.
LEMMA ServeKeeps ==
  ASSUME LifecycleInv, Shutdown \/ HTTPFails \/ Signal
  PROVE  LifecycleInv'
<1>1. OpenedSoFar' /\ HandlesFollowRuntime'
  <2>1. CASE CloseHandles
    <3>1. open = uses /\ uses \subseteq Store
      BY <2>1 DEF CloseHandles, LifecycleInv, OpenedSoFar, HandlesFollowRuntime
    <3>2. open' = {} /\ main' = "stopped" /\ UNCHANGED <<uses, step>>
      BY <2>1, <3>1 DEF CloseHandles, Store
    <3> QED  BY <3>2 DEF LifecycleInv, OpenedSoFar, HandlesFollowRuntime
  <2>2. CASE ~CloseHandles
    <3>1. UNCHANGED startVars
      BY <2>2, Zenon DEF Shutdown, Abort, BeginShutdown, DrainOCPP, DrainHTTP, HTTPFails, Signal
    <3>2. \/ main' = main
          \/ main' = "aborted"
          \/ /\ main \in {"serving", "drainOCPP", "drainHTTP"}
             /\ main' \in {"drainOCPP", "drainHTTP", "closing"}
      BY <2>2, Zenon DEF Shutdown, Abort, BeginShutdown, DrainOCPP, DrainHTTP, HTTPFails, Signal
    <3> QED
      BY <3>1, <3>2 DEF startVars, LifecycleInv, OpenedSoFar, Opened, HandlesFollowRuntime
  <2> QED  BY <2>1, <2>2
<1>2. NotReadyWithoutConsumer'
  <2>1. consumer' = consumer /\ (ready' = ready \/ ready' = FALSE)
    BY Zenon DEF Shutdown, Abort, BeginShutdown, DrainOCPP, DrainHTTP, CloseHandles, HTTPFails, Signal
  <2> QED  BY <2>1 DEF LifecycleInv, NotReadyWithoutConsumer
<1> QED  BY <1>1, <1>2 DEF LifecycleInv

\* The steps of the consumer goroutine: it clears ready before it waits and sets
\* it only when it runs again.
LEMMA ConsumerKeeps ==
  ASSUME LifecycleInv, Consumer \/ RedisChanges
  PROVE  LifecycleInv'
<1>1. OpenedSoFar' /\ HandlesFollowRuntime'
  <2>1. UNCHANGED <<startVars, main>>
    BY DEF Consumer, ConsumerReturns, ConsumerFailed, BackOff, Ping, ConsumerRecovers,
           RedisChanges, serveVars
  <2> QED  BY <2>1 DEF startVars, LifecycleInv, OpenedSoFar, Opened, HandlesFollowRuntime
<1>2. NotReadyWithoutConsumer'
  <2>1. CASE ConsumerReturns
    BY <2>1 DEF ConsumerReturns, NotReadyWithoutConsumer
  <2>2. CASE ConsumerFailed
    BY <2>2 DEF ConsumerFailed, NotReadyWithoutConsumer
  <2>3. CASE BackOff
    BY <2>3 DEF BackOff, LifecycleInv, NotReadyWithoutConsumer
  <2>4. CASE Ping
    BY <2>4 DEF Ping, LifecycleInv, NotReadyWithoutConsumer
  <2>5. CASE ConsumerRecovers
    BY <2>5 DEF ConsumerRecovers, NotReadyWithoutConsumer
  <2>6. CASE RedisChanges
    BY <2>6 DEF RedisChanges, LifecycleInv, NotReadyWithoutConsumer
  <2> QED  BY <2>1, <2>2, <2>3, <2>4, <2>5, <2>6 DEF Consumer
<1> QED  BY <1>1, <1>2 DEF LifecycleInv

\* Every step of a runtime keeps the invariant.
LEMMA LifecycleInvariance == Spec => []LifecycleInv
<1>1. LifecycleInv /\ [Next]_vars => LifecycleInv'
  <2> SUFFICES ASSUME LifecycleInv, [Next]_vars PROVE LifecycleInv'
    OBVIOUS
  <2>1. CASE UNCHANGED vars
    BY <2>1 DEF vars, startVars, serveVars, LifecycleInv, OpenedSoFar, Opened,
                HandlesFollowRuntime, NotReadyWithoutConsumer
  <2>2. CASE Next
    BY <2>2, StartKeeps, ServeKeeps, ConsumerKeeps DEF Next
  <2> QED  BY <2>1, <2>2
<1> QED  BY <1>1, InitLifecycle, PTL DEF Spec

\* Whichever of the fifteen calls of New and Run fails, nothing stays open; the
\* clients are open while the runtime serves and drains, and closed when it has
\* stopped, in whatever order the signal, the HTTP server and the consumer act.
THEOREM HandlesFollowRuntimeAlways == Spec => []HandlesFollowRuntime
<1>1. LifecycleInv => HandlesFollowRuntime
  BY DEF LifecycleInv
<1> QED  BY <1>1, LifecycleInvariance, PTL

\* The readiness probe is negative for as long as the consumer waits for Redis,
\* although serve and the consumer set the flag without a common lock.
THEOREM NotReadyWithoutConsumerAlways == Spec => []NotReadyWithoutConsumer
<1>1. LifecycleInv => NotReadyWithoutConsumer
  BY DEF LifecycleInv
<1> QED  BY <1>1, LifecycleInvariance, PTL
=============================================================================
