# A TLA+ model of csms-platform

This directory specifies the concurrent core of the CSMS runtime: how runtime
Pods own charging stations through leases in Redis, how commands reach the Pod
that owns a station, how the command API is limited, how station reports reach
MySQL, how a runtime starts, loses Redis, recovers and stops; and how the operator
keeps the Kubernetes objects of a CSMS in line with its spec. TLC checks small
instances; TLAPS proves every safety property the passing runs check, for all sizes.

## The system

Stations connect over WebSocket (OCPP) to one of several runtime Pods.

| Part | State | Operations that change it |
|---|---|---|
| `runtime/ownership.go` | `entries`: station -> lease, one renew goroutine per session | `onConnect`, `renew`, `onDisconnect`; `owns` reads |
| `sessionregistry/redisstore` | a hash with a TTL per station, one generation counter | `claimScript`, `renewScript`, `releaseScript`; `Lookup` reads in two calls |
| `sessionregistry/memory.go` | map of leases, counter | `Claim`, `Renew`, `Release`, `Lookup` (deletes what has expired) |
| `commandbus/redisbus` | a stream and its pending list per runtime, completion record and result list per command | `Publish`, `RunConsumer`/`processMessages`, `complete`, `AwaitResult` |
| `runtime/command_api.go`, `commands.go` | a request in progress | lookup, publish, await; `handleCommand` checks and calls the station |
| `runtime/server.go`, `health.go` | MySQL and Redis clients, `ready`, two contexts | `New`, `Run`, `serve`, `runCommandConsumer` |
| `runtime/rate_limit.go` | a counter with a TTL per credential and window, in Redis | `Allow` |
| `runtime/trustedproxy.go`, `config.go`, `metrics.go` | none; none; counters | pure functions |
| `handlers`, `stationstore`, `mysqlstore` | stations and connectors | BootNotification, StatusNotification and the upserts behind them |
| `controller`, `api/v1alpha1` | the CSMS resource and the objects of its name on the API server, the manager's cache, the work queue | `Reconcile`, one API call after the other |

The runtimes interact through Redis and MySQL only: `onConnect` claims what `Lookup` reads and the
command API addresses; the consumer asks `owns` before it calls a station; the
consumer's failures drive readiness. The operator meets them only as the Pods of
its Deployment, whose names are the owner IDs.

The hard behaviours are late, lost and unanswered Redis calls; leases that
expire under a running session; the callbacks of successive sessions of one
station; restarts of a runtime under its old name; duplicated and redelivered
stream entries, and entries trimmed before they are consumed; a consumer goroutine
that races the shutdown; counters of windows that several clocks number; a
Reconcile that works from a late cache and stops half-way. `PROJECT.json`
lists them as hazards, each at its line with the properties that cover it.

## Modules

**LeaseRegistry** is what a registry promises: a grant only when a station has
no holder, under ever larger generations.

**RedisRegistry** has the keys and the three scripts, one atomic action each,
with expiry and an empty restart. **Ownership** extends it with the managers of
all runtimes. A registry call is three steps (request, script, reply), so a
caller may give up before, and a script may run long after. Sessions are used
once and named; an entry of `entries` is named by the session whose claim made it.
`TakeEntry` looks the entry up by identity, as `onDisconnect` does, which is why
the model can ask whether it takes the right one. A ticker has a countdown
(`timer`) and the one buffered tick of `ticker.C` (`due`). Three constants state
circumstances:

- `Serial`: on one runtime the OCPP library ends a session of an identity
  before it starts the next. The library is not part of the repository.
- `Durable`: Redis keeps its keys. `FALSE` lets it restart empty, as the
  Deployment in `config/dependencies/redis` would.
- `Punctual`: runtimes whose registry calls are answered, within the tick.

**MemoryRegistry** is the other implementation of LeaseRegistry. Its callers
renew and release leases they were granted, as late as they like.

**CommandBus** is the stream protocol, an action per Redis call of the consumer.
`log` has all entries ever added, so that an entry's ID is its place; `trimmed`
says how many of them XADD has removed, which it may do (`Approx`) whenever more
than `MaxLen` remain, delivered or not. XAUTOCLAIM drops trimmed entries from the
pending list.
**CommandDelivery** composes it with the HTTP handler, `handleCommand` and the
ownership they rely on. The last is LeaseRegistry itself, which Ownership
is proved to implement, plus the managers' entries, which may trail the registry
in both directions. `granted` remembers which generations the present process
of a runtime was issued. A retried XADD leaves up to `Copies` entries. Refusals
before the lookup are the one action `Reject`.

**RateLimit** is the limiter behind one of those refusals. Reading the clock
(`Allow`) and running the script (`RunScript`) are two steps, up to `MaxDelay`
ticks apart, and the clocks of the runtimes differ by up to `MaxSkew`. Calls that
wait are counted, not named. `taken` is history: per key and per `n` up to `Window`,
the places of the limit given away in the last `n` ticks.

**StationRepository** is the in-memory station store seen from the handlers of
BootNotification and StatusNotification: a handler ends in one atomic write or in
none. **MySQLStore** is the MySQL store, statement by statement, for handlers of
several runtimes over one database. Row locks, foreign-key locks and the pool
(external) are derived from the transactions' progress. A row holds the
notification that wrote it; an event is a pair of its AUTO_INCREMENT id and its
notification (one counter stands for both event tables: ids of different tables
are never compared).

**Lifecycle** has the start of a runtime, `serve` and `runCommandConsumer`. The start
is a table (`MySQLCalls` ... `RunCalls`): a row for each of the fifteen calls of `New`
and `Run` that may fail, with the store it is made for, the client it opens and the
clients that its own error return closes. The context of the consumer is a child of
the one the signal ends (`RunDone`), so the consumer may be gone while `serve` has not
yet looked at the signal and `/readyz` still says ready. A signal before `New` has
returned ends the process and is left out. The module has no constants, so TLC's
result for it is complete.

**Controller** is `Reconcile`, an action per API call, over an API server, a cache
that catches up with each object on its own, and a work queue. A write carries the
version that was read, so the server refuses it when the cache was late (`stale`,
`outdated`). Users create, edit, delete and re-create the resource and meddle with
the objects; the garbage collector removes what a deleted resource owned; any call
may fail and the operator may be replaced. Of a spec the model keeps which optional
objects it asks for and one number, `replicas`, that stands for everything
`reconcileConfigMap` ... `reconcileIngress` copy into the objects: they all write
every field they own on every call, so objects differ only in whether they are up
to date. A Deployment made by hand also differs in whether its selector is the
operator's: the API server refuses to change a selector, and Reconcile adopts a
Deployment that has the right one. `Desired` is these functions, `CreateObject` and `UpdateObject` are
`controllerutil.CreateOrUpdate` as they use it. `Order` and `Optional` are
constants; the code's order is ConfigMap, Service, Deployment, PodDisruptionBudget
and Ingress, the last two optional.

Abstractions: all clocks advance together (deadlines are compared without skew);
payloads, identities and results are told apart only as far as the properties
do; a duplicate that go-redis makes of a registry script is the same script
running late. A Redis call of the consumer that took effect and lost its reply
is that call followed by a failure of the next.

## Runs

| Run | Result | States |
|---|---|---|
| `ownership` | the newest claim owns; generations are unique; entries match sessions; a punctual runtime keeps its leases; nobody else's release ends a live lease; LeaseRegistry is implemented | 582,292 |
| `ownership_live` | a runtime without the lease gives the station up; a stray lease expires | 61,452 |
| `memory_registry` | the in-memory registry implements LeaseRegistry | 4,956 |
| `memory_stale_renew` | **violated**: a late `Renew` by the previous owner deletes the new owner's lease (`memory.go:49`) | |
| `delivery` | a command runs twice only if a result was lost, and never after one was recorded; only the process granted the looked-up generation runs it; answers are truthful; nothing is dropped but by trimming; every entry is consumed in the end | 344,419 |
| `delivery_stale_owner` | **violated**: `owns` looks at the local entry, so a stale owner passes the check the README relies on (`ownership.go:96`) | |
| `station_store` | current rows are the last events of their history; nothing confirmed is lost; a transaction is one atomic write; every handler returns without a timeout | 61,308 |
| `lifecycle` | no client is left open whichever call of the start fails, and none is closed too early; readiness falls and comes back with Redis; shutdown ends both goroutines | 988 |
| `lifecycle_ready_after_shutdown` | **violated**: the consumer can set `ready` after the shutdown cleared it (`server.go:408`) | |
| `controller` | Reconcile converges from every half-finished state; it never writes to what another controller controls; the status is of this resource and its generation does not go back | 493,559 |
| `controller_delete` | **violated**: an Ingress or PodDisruptionBudget of the name is deleted whoever made it (`csms_controller.go:333`) | |
| `rate_limit` | at most twice the limit within a window's length with one clock and instant calls, five times the limit less two when skew and delay are a window together at most; nobody is refused before the limit is used up; a counter lives one window from its first request | 980,718 |

The four violated properties quote the repository's own tests, comments or README; the
quotations are in `PROJECT.json` under findings.

### Bounds

- `ownership`: three sessions on two runtimes give a holder, a successor on the
  same or another runtime, and a third whose scripts arrive late. TTL 3 and
  interval 2 are the tightest pair with more than one tick of either. The number
  of sessions bounds the generations. Sessions are symmetric: every
  assignment of runtimes to them is an initial state.
- `ownership_live`: two sessions, TTL 2, interval 1, Redis may restart empty at
  any time, no runtime is punctual. No symmetry.
- `delivery`: one runtime and one command, published in one or two entries; two
  claims, one failure or crash, a `MaxLen` of one so that the second entry may trim
  the first. A copy is then recovered after its twin's completion, after the
  record's expiry, and by a restarted runtime that lost or regained the station.
  The deadline is shorter than the record's life, as 30 seconds and 5 minutes are.
  Streams of different runtimes meet only in a command's record, and a command is
  in one stream only; the theorems below cover any number of both.
- `delivery_stale_owner`: two runtimes and one command, no failure.
- `controller`: the Deployment and one optional object, two numbers of replicas, a
  resource created twice, and two troubles (edits, failing calls, restarts)
  besides. The three other objects behave as these two do. Everything stops when
  the troubles are used up, so deadlock is not checked.
- `rate_limit`: one credential (credentials share nothing), limit 2, a window of
  3 ticks, skew of at most 2 and delay of at most 1 (a window together), four
  ticks, ten calls; runtimes are symmetric. Both bounds of `BurstBounded` are
  reached. With a window of 2 ticks TLC finds no burst of `4 * Limit`: it takes 3 for
  three windows to overlap with two counters born again. Calls and time are
  bounded, so deadlock is not checked.
  The repository's README speaks of at most twice the limit at the border of two
  windows (`README.md:523-524`). That is the bound for one clock; two runtimes whose
  clocks differ by two ticks already allow five requests at a limit of two, without
  any delay, because three windows are open within the length of one.
- `station_store`: two boots, two reports on one connector and one on another,
  three of them on a runtime with two connections. Every notification is handled
  once, so the run ends, and deadlock is not checked; `EveryNotificationAnswered`
  says that it ends with all handlers finished.
- `memory_registry`: two stations, three claims, four ticks of a TTL of two.

### Fairness

- Ownership: goroutines run, calls return (contexts and connections time out),
  Redis executes what it received, time passes. Nothing need connect or fail.
- CommandDelivery: the consumer is scheduled and its calls return, time passes.
  Failures are bounded by `MaxFaults`. A container that ended need not start again
  (a replaced Pod never does): `EntriesDrain` speaks of the streams of runtimes
  that always come back.
- Controller: the queue is served and calls return, the watches deliver, the
  garbage collector runs. Nobody need edit, and Pods need not become ready.
- MySQLStore: a handler that MySQL and the pool let go on goes on; no error or
  timeout is assumed to free a lock.
- Lifecycle: weak fairness of `serve` and of the consumer goroutine; `RunConsumer`
  must return only when Redis is away or its context done. Go's `select` picks
  among ready cases at random, hence strong fairness of the case that ends the
  wait. `RecoversReadiness` says only that readiness returns again and again,
  because any single Redis call may fail.

## Proofs

All theorems hold for any sets of stations, runtimes, sessions, commands and
notifications and any values of the bounds, under the named assumptions of the
modules (a TTL longer than the renew interval, a deadline shorter than the life of
a completion record, and that `None` is none of the values it stands beside; for
Controller also that `Other` is no uid and that "csms" is not the kind of an object).

| Theorem | Assumes | Inductive invariant |
|---|---|---|
| `TypeCorrect` | | `TypeInv`: `TypeOK`, and a session that unlocks or releases has an entry in hand |
| `NewestClaimOwnsAlways`, `GenerationUniqueAlways` | `Durable` | `FenceInv` |
| `RegistryPromiseKept` | `Durable` | types only: each step is a grant, an end or a stutter of LeaseRegistry |
| `EntriesMatchAlways` | `Durable`, `Serial` | `SerialInv` |
| `LiveLeaseNotReleasedAlways` | `Durable`, `Serial` | `SerialInv`, `FenceInv` |
| `PunctualKeepsLeaseAlways` | `Durable`, `Serial` | `SlackInv` over the two above |
| `MemoryPromiseKept` | | types only |
| `Types`, `RunsOnce`, `TruthfulAnswers`, `NoEntryDropped`, `NeverRerun`, `GranteeRuns` | | `IInv` of CommandDeliveryProofs |
| `RowIsLastEventAlways`, `ConfirmedNotLostAlways` | | `StoreInv` |
| `RepositoryPromiseKept` | | none: each step is one of StationRepository or a stutter |
| `Types`, `BurstBoundedAlways`, `RefusedOnlyWhenUsedUpAlways`, `LifeFromFirstUseAlways` | | `RateInv` of RateLimitProofs |
| `HandlesFollowRuntimeAlways`, `NotReadyWithoutConsumerAlways` | | `LifecycleInv` |
| `Types`, `OthersNotOverwrittenAlways`, `ObservedGenerationSoundAlways` | | `ControllerInv` |

**Ownership.** `FenceInv` adds to the two fencing properties that no generation
exceeds the counter: without it a fresh generation could repeat an old one.
`SerialInv` adds to `EntriesMatchSessions` that live sessions of one identity on one
runtime are the same, that `onDisconnect` takes its own session's entry, and that
requests and the renew goroutine are in step with the phase; a release sent for a
session then implies that it is over. `SlackInv` is the arithmetic: the remaining
TTL of a punctual session is at least its countdown plus `TTL - RenewInterval`,
which is positive, and a tick lowers both by one.

**Command delivery** is proved in three layers. CommandBusProofs: the bus is well
formed (`BusInv`): a consumer has only delivered entries in hand, and one while it
is busy; trimming leaves `MaxLen` entries. CommandDeliveryProofs, first: a command is in no
stream but that of the owner the API looked up, and in none before it is published,
and a manager enters only generations its process was granted (`AddrInv`).
Then `RunInv`. Its core is that a completion record outlives
its command's deadline (`left[c] < record[c].ttl`): when the record has expired the
deadline has passed, and the redelivered entry is refused. A call of the station is
therefore recorded, or lost (`interrupted`), or in the hands of the only consumer
that has the command. What the consumer is about to record, has recorded or has
pushed for the caller is true of `runs`.

**Station store.** `StoreInv` adds to `RowIsLastEvent` that one transaction at a time
has written a row, and that the id an uncommitted event got is larger than those of
all committed events of its row, because the row was locked when the id was given.

**Rate limit.** `BurstBounded` is far from inductive. `RateInv` follows one key
through its life: when the clocks reached its window (`Reached`), how late a script
with the key may still run (`SentInv`, `Recent`), and what a counter of a given age
can have given away (`Current`, `NoCounter`). A counter that has expired and is born
again has given at most `Limit` places, and its predecessor fewer than `Limit` in the
same window's length, since the place given when that was made is older. `KeyBound`
draws the consequences for one window: at most `2 * Limit - 1` places, more than
`Limit` only when a clock was a whole window past the start of the key's window. The theorem
then counts windows: with skew and delay of a window together at most three in a row
contribute, and the first and the last cannot both have had two counters, so the
worst cases are `2L-1, 2L-1, L` and `L, 2L-1, 2L-1`. With one clock and no delay only
two windows contribute, and no counter is born again. The sum over the windows is the
cardinality of a union (`Burst`), so that no induction over data is needed.

`LifeFromFirstUse` is a part of `Current`.

**Lifecycle.** `HandlesFollowRuntime` needs to know what is open at each call of the
start (`OpenedSoFar`): MySQL after the second call and Redis after the seventh, where
configured. `CoveredReturns` then reads off the table that every error return closes
at least what is open at its call, and `OpensNext` that the next call finds open what
the invariant says. TLC's result for the module is complete already; the proof says
why it holds.

**Controller.** `ControllerInv` adds to the types what makes the optimistic writes
work: where nothing is `stale` the cache is what the API server has (`CacheInv`), what
Reconcile has read is current until it is `outdated` (`SeenInv`), the observed
generation is at most the current one (`StatusInv`), and an object of another
controller holds nothing the operator wrote (`OthersInv`; without it the Deployment
controller would seem to change one). `CallEffect` and `StatusEffect` say what one
call of Reconcile can do; the two action properties follow from them.

Each invariant was checked with TLC on small instances before it was proved.

Model-checked only: the liveness properties (`StaleOwnerStepsDown`,
`StrayLeaseExpires`, `EntriesDrain`, `EveryNotificationAnswered`, `RecoversReadiness`,
`OutageShows`, `ShutdownCompletes`, `Converges`), which are out of the prover's reach,
and the runs with an empty restart of Redis. The invariants the four violated
properties state do not hold, so there is nothing to prove of them.

## What is not modelled

- Metrics, the HTTP rendering of health, entry points, the probe command, generated
  code: no state that another part depends on.
- `config.go` and the TLS files: read and compared once at start. A property of
  them would repeat the comparison; what the other parts rely on is an assumption
  (`RenewInterval < TTL`).
- `trustedproxy.go`: a function of one request. The handshake limiter it feeds is in
  the OCPP library.
- The fields of stream entries. `Publish` validates what `decodeCommand` validates
  and is the only writer, so decoding does not fail.
- Which session `Session()` returns between the ownership check and the call: the
  session table is in the OCPP library.
- The schema migration: four idempotent statements; a failure is an error path of
  `New` in Lifecycle.

The OCPP library, MySQL, Redis and Kubernetes appear as far as the code uses them.

Generations repeat after an empty restart of Redis; only the liveness
properties are checked there. When the HTTP server fails by itself, `serve`
returns with its clients open (`Abort`); `HandlesFollowRuntime` does not speak of that
path because the process ends.
