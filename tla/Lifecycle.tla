------------------------------ MODULE Lifecycle ------------------------------
(***************************************************************************)
(* The life of a runtime process, internal/runtime/server.go: New opens    *)
(* what the configuration asks for, Run listens, serve runs until the HTTP *)
(* server fails or its context is done and then shuts down, and            *)
(* runCommandConsumer, in a goroutine of its own, restarts the command     *)
(* consumer when Redis comes back.  Both set the flag /readyz shows.       *)
(***************************************************************************)
EXTENDS Naturals, Sequences

VARIABLES uses,                  \* the stores MySQLDSN and RedisURL configure
          open,                  \* the stores whose client is open
          main,                  \* starting, serving, drainOCPP, drainHTTP, closing; at the
                                 \* end failed (no start), aborted (HTTP failed) or stopped
          step,                  \* the call of the start that is next
          ready,                 \* health.ready
          signalled, cancelled,  \* ctx is done; cancelRun was called
          http,                  \* the HTTP server goroutine
          sessions,              \* OCPP sessions are served (external)
          consumer,              \* where runCommandConsumer is
          redisUp                \* Redis answers (external)

startVars == <<uses, open, step>>
serveVars == <<main, signalled, cancelled, http, sessions>>
vars == <<startVars, serveVars, ready, consumer, redisUp>>

Store == {"database", "redis"}

Init ==
  /\ uses \in SUBSET Store /\ redisUp \in BOOLEAN
  /\ open = {} /\ main = "starting" /\ step = 1
  /\ ready = FALSE /\ signalled = FALSE /\ cancelled = FALSE
  /\ http = "off" /\ sessions = FALSE /\ consumer = "off"
-----------------------------------------------------------------------------
\* A call that may return an error: the stores it is made for, those whose client
\* it opens, and those its own error return closes (when they are open).
Call(needs, opens, closes) == [needs |-> needs, opens |-> opens, closes |-> closes]

\* New until the handlers are registered.
MySQLCalls == <<
  Call({}, {}, {}),                              \* buildTLSConfig
  Call({"database"}, {"database"}, {}),          \* sql.Open
  Call({"database"}, {}, {"database"}),          \* PingContext
  Call({"database"}, {}, {"database"}),          \* mysqlstore.Migrate
  Call({"database"}, {}, {"database"}),          \* mysqlstore.New
  Call({}, {}, {"database"}) >>                  \* handlers.Register

\* New, when RedisURL is set.
RedisCalls == <<
  Call({"redis"}, {"redis"}, {"database"}),      \* ParseURL, and then NewClient
  Call({"redis"}, {}, {"redis", "database"}),    \* Ping
  Call({"redis"}, {}, {"redis", "database"}),    \* redisstore.New
  Call({"redis"}, {}, {"redis", "database"}),    \* os.Hostname
  Call({"redis"}, {}, {"redis", "database"}) >>  \* redisbus.New

\* Mutant: the error return of newTrustedProxyResolver forgets the database.
ServerCallsLeaky == <<
  Call({}, {}, {"redis", "database"}),
  Call({}, {}, {"redis"}),
  Call({}, {}, {"redis", "database"}) >>

\* The rest of New.
ServerCalls == <<
  Call({}, {}, {"redis", "database"}),           \* csms.NewIPRateLimiter
  Call({}, {}, {"redis", "database"}),           \* newTrustedProxyResolver
  Call({}, {}, {"redis", "database"}) >>         \* csms.New

\* Run.
RunCalls == << Call({}, {}, {"database", "redis"}) >>    \* net.Listen

Start == MySQLCalls \o RedisCalls \o ServerCalls \o RunCalls
PingRedis == 8
Listen == 15

Configured == Start[step].needs \subseteq uses

\* The next call succeeds, or the configuration does not ask for it.
CallSucceeds ==
  /\ main = "starting" /\ step <= Listen
  /\ step = PingRedis /\ Configured => redisUp
  /\ step' = step + 1
  /\ open' = IF Configured THEN open \cup Start[step].opens ELSE open
  /\ UNCHANGED <<uses, serveVars, ready, consumer, redisUp>>

\* It returns an error, and New or Run with it.
CallFails ==
  /\ main = "starting" /\ step <= Listen /\ Configured
  /\ main' = "failed"
  /\ open' = open \ Start[step].closes
  /\ UNCHANGED <<uses, step, signalled, cancelled, http, sessions, ready, consumer, redisUp>>
-----------------------------------------------------------------------------
\* serve: ready, and its goroutines are started.
Serve ==
  /\ main = "starting" /\ step = Listen + 1
  /\ main' = "serving" /\ ready' = TRUE /\ http' = "serving" /\ sessions' = TRUE
  /\ consumer' = IF "redis" \in uses THEN "running" ELSE "off"
  /\ UNCHANGED <<startVars, signalled, cancelled, redisUp>>

\* http.Serve returns an error of its own accord.
HTTPFails ==
  /\ http = "serving"
  /\ http' = "failed"
  /\ UNCHANGED <<startVars, main, signalled, cancelled, sessions, ready, consumer, redisUp>>

\* serve, first case of its select: return at once, cancelRun is deferred.  The
\* clients are left to the end of the process, which follows.
Abort ==
  /\ main = "serving" /\ http = "failed"
  /\ main' = "aborted" /\ ready' = FALSE /\ cancelled' = TRUE
  /\ UNCHANGED <<startVars, signalled, http, sessions, consumer, redisUp>>

\* SIGTERM when New has returned and NotifyContext catches it: ctx is done.
Signal ==
  /\ step >= Listen /\ ~signalled
  /\ signalled' = TRUE
  /\ UNCHANGED <<startVars, main, cancelled, http, sessions, ready, consumer, redisUp>>

\* runCtx, the consumer's context, is a child of ctx: it is done at the signal,
\* before serve gets to cancelRun.
RunDone == signalled \/ cancelled

\* serve, second case: not ready, then drain.
BeginShutdown ==
  /\ main = "serving" /\ signalled
  /\ main' = "drainOCPP" /\ ready' = FALSE /\ cancelled' = TRUE
  /\ UNCHANGED <<startVars, signalled, http, sessions, consumer, redisUp>>

\* shutdownOCPP returns: every session ended, or the time was up.
DrainOCPP ==
  /\ main = "drainOCPP"
  /\ main' = "drainHTTP" /\ sessions' \in {sessions, FALSE}
  /\ UNCHANGED <<startVars, signalled, cancelled, http, ready, consumer, redisUp>>

\* shutdownHTTP returns.
DrainHTTP ==
  /\ main = "drainHTTP"
  /\ main' = "closing" /\ http' = IF http = "serving" THEN "closed" ELSE http
  /\ UNCHANGED <<startVars, signalled, cancelled, sessions, ready, consumer, redisUp>>

\* serve closes the stores and returns.
CloseHandles ==
  /\ main = "closing"
  /\ main' = "stopped" /\ open' = open \ {"database", "redis"}
  /\ UNCHANGED <<uses, step, signalled, cancelled, http, sessions, ready, consumer, redisUp>>
-----------------------------------------------------------------------------
Reachable == redisUp /\ "redis" \in open

\* RunConsumer returns: a call to Redis failed, or the context is done.
ConsumerReturns ==
  /\ consumer = "running"
  /\ consumer' = "returned"
  /\ UNCHANGED <<startVars, serveVars, ready, redisUp>>

\* Mutant: ready is not cleared.
ConsumerFailedQuietly ==
  /\ consumer = "returned"
  /\ consumer' = IF RunDone THEN "ended" ELSE "waiting"
  /\ UNCHANGED <<startVars, serveVars, ready, redisUp>>

\* runCommandConsumer looks at its context once, and only then clears ready.
ConsumerFailed ==
  /\ consumer = "returned"
  /\ IF RunDone THEN consumer' = "ended" /\ UNCHANGED ready
     ELSE consumer' = "waiting" /\ ready' = FALSE
  /\ UNCHANGED <<startVars, serveVars, redisUp>>

\* Mutant: a plain sleep, which does not look at the context.
BackOffSleeps ==
  /\ consumer = "waiting"
  /\ consumer' = "pinging"
  /\ UNCHANGED <<startVars, serveVars, ready, redisUp>>

\* Two seconds later, or the context is done.
BackOff ==
  /\ consumer = "waiting"
  /\ consumer' \in IF RunDone THEN {"ended", "pinging"} ELSE {"pinging"}
  /\ UNCHANGED <<startVars, serveVars, ready, redisUp>>

Ping ==
  /\ consumer = "pinging"
  /\ consumer' = IF Reachable /\ ~RunDone THEN "pinged" ELSE "waiting"
  /\ UNCHANGED <<startVars, serveVars, ready, redisUp>>

\* Mutant: ready is not set again.
ConsumerRecoversQuietly ==
  /\ consumer = "pinged" /\ consumer' = "running"
  /\ UNCHANGED <<startVars, serveVars, ready, redisUp>>

\* The ping succeeded: ready again, whatever happened since.
ConsumerRecovers ==
  /\ consumer = "pinged"
  /\ consumer' = "running" /\ ready' = TRUE
  /\ UNCHANGED <<startVars, serveVars, redisUp>>

\* Redis goes away or comes back.
RedisChanges ==
  /\ redisUp' = ~redisUp
  /\ UNCHANGED <<startVars, serveVars, ready, consumer>>

Startup == CallSucceeds \/ CallFails \/ Serve
Shutdown == Abort \/ BeginShutdown \/ DrainOCPP \/ DrainHTTP \/ CloseHandles
Consumer == ConsumerReturns \/ ConsumerFailed \/ BackOff \/ Ping \/ ConsumerRecovers

Next == \/ Startup \/ HTTPFails \/ Signal \/ Shutdown
        \/ Consumer \/ RedisChanges

Spec == Init /\ [][Next]_vars

\* serve and the consumer goroutine are scheduled, and a drain ends at
\* ShutdownTimeout at the latest.  RunConsumer must return only when Redis is
\* away or the context is done; the select of BackOff does not take its timer
\* for ever when the context is done as well.
FairSpec == /\ Spec
            /\ WF_vars(Shutdown)
            /\ WF_vars(ConsumerReturns /\ (RunDone \/ ~Reachable))
            /\ WF_vars(ConsumerFailed \/ BackOff \/ Ping \/ ConsumerRecovers)
            /\ SF_vars(BackOff /\ consumer' = "ended")
-----------------------------------------------------------------------------
\* Clients live exactly as long as the runtime.  Whichever call of the start fails,
\* its own error return has closed every client opened before it; the configured
\* ones stay open while stations are served and drained; a shutdown closes them.
HandlesFollowRuntime ==
  /\ main \in {"failed", "stopped"} => open = {}
  /\ main \in {"serving", "drainOCPP", "drainHTTP", "closing"} => open = uses

\* While the consumer waits for Redis to come back, /readyz says so.
NotReadyWithoutConsumer == consumer \in {"waiting", "pinging"} => ~ready

\* The readiness that an outage or a failing call cleared always comes back
\* while the runtime serves and Redis stays up.
RecoversReadiness == <>[](redisUp /\ main = "serving") => []<>ready

\* A runtime whose Redis stays away is not ready, for good.
OutageShows ==
  <>[]("redis" \in uses /\ ~redisUp /\ main = "serving") => <>[]~ready

\* Once the context is done both serve and the consumer goroutine end.
ShutdownCompletes ==
  (main = "serving" /\ signalled) ~>
    (main \in {"stopped", "aborted"} /\ consumer \in {"off", "ended"})

\* A runtime that has shut down is not ready.
NotReadyAfterShutdown == main = "stopped" => ~ready
=============================================================================
