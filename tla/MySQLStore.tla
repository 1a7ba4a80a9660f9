----------------------------- MODULE MySQLStore -----------------------------
(***************************************************************************)
(* BootNotification and StatusNotification of internal/handlers/core.go    *)
(* over internal/stationstore/mysqlstore: the handlers of several runtimes *)
(* share a database.  A handler runs one transaction: it replaces the      *)
(* current row of its station or connector, appends an event and commits.  *)
(*                                                                         *)
(* MySQL (external) keeps the row a transaction has written locked to its  *)
(* end, and checks the foreign key of a connector or event by a shared     *)
(* lock of its station's row.  A runtime has MaxOpenConns connections.     *)
(***************************************************************************)
EXTENDS Naturals, FiniteSets

CONSTANTS Boot, Status,   \* the notifications
          Row, RowOf,     \* current rows, and the one a notification is about
          StationOf,      \* its station, the row of a BootNotification
          Runtime, At,    \* the runtime that handles it
          MaxOpenConns,   \* CSMS_MYSQL_MAX_OPEN_CONNS
          None

Notification == Boot \cup Status

ASSUME StoreAssumption ==
  /\ Boot \cap Status = {} /\ None \notin Notification
  /\ RowOf \in [Notification -> Row] /\ StationOf \in [Notification -> Row]
  /\ \A n \in Notification : n \in Boot <=> RowOf[n] = StationOf[n]
  /\ At \in [Notification -> Runtime]
  /\ MaxOpenConns \in Nat \ {0}

VARIABLES rows,      \* stations and connector_status, by the notification written
          events,    \* boot_events and status_events: <<id, notification>>
          nextId,    \* AUTO_INCREMENT; a rollback does not return an id
          handler,   \* idle, running, confirmed or failed
          tx,        \* its transaction: none, open, written, logged or closed
          eventId    \* the id its event got, 0 before

vars == <<rows, events, nextId, handler, tx, eventId>>

Init ==
  /\ rows = [k \in Row |-> None] /\ events = {} /\ nextId = 1
  /\ handler = [n \in Notification |-> "idle"] /\ tx = [n \in Notification |-> "none"]
  /\ eventId = [n \in Notification |-> 0]

InUse(n) == tx[n] \in {"open", "written", "logged"}
Writing(n) == tx[n] \in {"written", "logged"}

\* Its transaction holds the shared lock of its station: it has appended its event
\* or inserted a new connector (its own lock keeps the committed row absent).
Shares(n) == n \in Status /\ (tx[n] = "logged" \/ (tx[n] = "written" /\ rows[RowOf[n]] = None))

StationFree(n) == \A m \in Boot : Writing(m) => StationOf[m] # StationOf[n]

\* MySQL lets the first statement through.
Lockable(n) ==
  /\ \A m \in Notification \ {n} : Writing(m) => RowOf[m] # RowOf[n]
  /\ n \in Boot => \A m \in Notification : Shares(m) => StationOf[m] # StationOf[n]
  /\ n \in Status /\ rows[RowOf[n]] = None => StationFree(n)
-----------------------------------------------------------------------------
\* The OCPP library calls a handler.
Receive(n) ==
  /\ handler[n] = "idle"
  /\ handler' = [handler EXCEPT ![n] = "running"]
  /\ UNCHANGED <<rows, events, nextId, tx, eventId>>

\* BeginTx, once the pool has a connection.
Begin(n) ==
  /\ handler[n] = "running" /\ tx[n] = "none"
  /\ Cardinality({m \in Notification : At[m] = At[n] /\ InUse(m)}) < MaxOpenConns
  /\ tx' = [tx EXCEPT ![n] = "open"]
  /\ UNCHANGED <<rows, events, nextId, handler, eventId>>

\* Mutant: the row is written outside the transaction.
UpsertOutside(n) ==
  /\ handler[n] = "running" /\ tx[n] = "open" /\ Lockable(n)
  /\ n \in Status => rows[StationOf[n]] # None
  /\ tx' = [tx EXCEPT ![n] = "written"]
  /\ rows' = [rows EXCEPT ![RowOf[n]] = n]
  /\ UNCHANGED <<events, nextId, handler, eventId>>

\* INSERT ... ON DUPLICATE KEY UPDATE.
Upsert(n) ==
  /\ handler[n] = "running" /\ tx[n] = "open" /\ Lockable(n)
  /\ n \in Status => rows[StationOf[n]] # None
  /\ tx' = [tx EXCEPT ![n] = "written"]
  /\ UNCHANGED <<rows, events, nextId, handler, eventId>>

\* The same statement for a station that has never booted: the foreign key fails.
NoStation(n) ==
  /\ handler[n] = "running" /\ tx[n] = "open" /\ Lockable(n)
  /\ n \in Status /\ rows[StationOf[n]] = None
  /\ tx' = [tx EXCEPT ![n] = "closed"]
  /\ handler' = [handler EXCEPT ![n] = "failed"]
  /\ UNCHANGED <<rows, events, nextId, eventId>>

\* Mutant: the event is written outside the transaction.
AppendOutside(n) ==
  /\ handler[n] = "running" /\ tx[n] = "written" /\ (n \in Status => StationFree(n))
  /\ tx' = [tx EXCEPT ![n] = "logged"]
  /\ eventId' = [eventId EXCEPT ![n] = nextId] /\ nextId' = nextId + 1
  /\ events' = events \cup {<<nextId, n>>}
  /\ UNCHANGED <<rows, handler>>

\* INSERT INTO boot_events or status_events.
AppendEvent(n) ==
  /\ handler[n] = "running" /\ tx[n] = "written" /\ (n \in Status => StationFree(n))
  /\ tx' = [tx EXCEPT ![n] = "logged"]
  /\ eventId' = [eventId EXCEPT ![n] = nextId] /\ nextId' = nextId + 1
  /\ UNCHANGED <<rows, events, handler>>

\* Mutant: the error of Commit is dropped.
CommitUnchecked(n) ==
  /\ handler[n] = "running" /\ tx[n] = "logged"
  /\ tx' = [tx EXCEPT ![n] = "closed"]
  /\ \/ rows' = [rows EXCEPT ![RowOf[n]] = n] /\ events' = events \cup {<<eventId[n], n>>}
     \/ UNCHANGED <<rows, events>>
  /\ handler' = [handler EXCEPT ![n] = "confirmed"]
  /\ UNCHANGED <<nextId, eventId>>

\* Commit takes effect; its reply may be lost, and then the handler fails.
Commit(n) ==
  /\ handler[n] = "running" /\ tx[n] = "logged"
  /\ tx' = [tx EXCEPT ![n] = "closed"]
  /\ rows' = [rows EXCEPT ![RowOf[n]] = n]
  /\ events' = events \cup {<<eventId[n], n>>}
  /\ \E outcome \in {"confirmed", "failed"} : handler' = [handler EXCEPT ![n] = outcome]
  /\ UNCHANGED <<nextId, eventId>>

\* Mutant: no deferred Rollback.
FailWithoutRollback(n) ==
  /\ handler[n] = "running"
  /\ handler' = [handler EXCEPT ![n] = "failed"]
  /\ UNCHANGED <<rows, events, nextId, tx, eventId>>

\* An error return before the commit (an invalid notification, a statement that
\* fails, a session that ends, a runtime that dies): the deferred Rollback.
Fail(n) ==
  /\ handler[n] = "running"
  /\ handler' = [handler EXCEPT ![n] = "failed"]
  /\ tx' = [tx EXCEPT ![n] = "closed"]
  /\ UNCHANGED <<rows, events, nextId, eventId>>

Proceed(n) == Begin(n) \/ Upsert(n) \/ NoStation(n) \/ AppendEvent(n) \/ Commit(n)

Next == \E n \in Notification : Receive(n) \/ Proceed(n) \/ Fail(n)

Spec == Init /\ [][Next]_vars

\* A handler that MySQL lets go on goes on.  No timeout is needed.
FairSpec == Spec /\ \A n \in Notification : WF_vars(Proceed(n))
-----------------------------------------------------------------------------
\* The tables tell one story: the current state of a station or connector is the
\* last event of its history, whichever runtimes wrote them and whatever failed.
RowIsLastEvent ==
  \A k \in Row :
    LET history == {e \in events : RowOf[e[2]] = k}
    IN IF history = {} THEN rows[k] = None
       ELSE \E e \in history : rows[k] = e[2] /\ \A f \in history : f[1] <= e[1]

\* A notification that was answered without error is in the history, and only a
\* later event of the same row replaces it in the current state.
ConfirmedNotLost ==
  \A n \in Notification : handler[n] = "confirmed" =>
    /\ <<eventId[n], n>> \in events
    /\ rows[RowOf[n]] # None /\ eventId[rows[RowOf[n]]] >= eventId[n]

\* Seen from the handlers the transaction is one step of StationRepository.
Repository == INSTANCE StationRepository

RepositoryPromise == Repository!Spec

\* Every handler returns: transactions that wait for each other's locks, or for a
\* connection of the pool, never wait in a circle.
EveryNotificationAnswered ==
  \A n \in Notification : handler[n] = "running" ~> handler[n] \in {"confirmed", "failed"}
=============================================================================
