----------------------------- MODULE StoreProofs -----------------------------
(***************************************************************************)
(* The MySQL station store keeps its two tables in step, for any stations, *)
(* connectors, notifications, runtimes and pool sizes.                     *)
(***************************************************************************)
EXTENDS MySQLStore, TLAPS

TypeInv ==
  /\ rows \in [Row -> Notification \cup {None}]
  /\ events \subseteq Nat \X Notification
  /\ nextId \in Nat
  /\ handler \in [Notification -> {"idle", "running", "confirmed", "failed"}]
  /\ tx \in [Notification -> {"none", "open", "written", "logged", "closed"}]
  /\ eventId \in [Notification -> Nat]

\* Row locks: one transaction at a time has written a row.
RowsLocked ==
  \A m, n \in Notification : Writing(m) /\ Writing(n) /\ RowOf[m] = RowOf[n] => m = n

\* An event is of a transaction that has ended, under the id that one was given.
EventsOwned == \A e \in events : e[1] = eventId[e[2]] /\ tx[e[2]] = "closed"

IdsGiven == \A n \in Notification : eventId[n] < nextId

\* The event about to be committed comes after all of its row.
NextIsLater ==
  \A n \in Notification : tx[n] = "logged" =>
    \A e \in events : RowOf[e[2]] = RowOf[n] => e[1] < eventId[n]

ConfirmedIsEvent ==
  \A n \in Notification : handler[n] = "confirmed" => <<eventId[n], n>> \in events

StoreInv ==
  TypeInv /\ RowsLocked /\ EventsOwned /\ IdsGiven /\ NextIsLater
          /\ ConfirmedIsEvent /\ RowIsLastEvent
-----------------------------------------------------------------------------
\* The tables are empty when the first runtime opens them.
LEMMA InitStore == Init => StoreInv
  BY StoreAssumption DEF Init, StoreInv, TypeInv, RowsLocked, EventsOwned, IdsGiven,
     NextIsLater, ConfirmedIsEvent, RowIsLastEvent, Writing

\* The steps of a handler other than the statement that appends its event, the
\* commit and the upsert take no lock and touch no table.
LEMMA PlainStep ==
  ASSUME StoreInv, NEW n \in Notification, Receive(n) \/ Begin(n) \/ NoStation(n) \/ Fail(n)
  PROVE  StoreInv'
<1> USE DEF StoreInv
<1>1. UNCHANGED <<rows, events, nextId, eventId>>
  BY DEF Receive, Begin, NoStation, Fail
<1>2. TypeInv'
  BY <1>1, Zenon DEF TypeInv, Receive, Begin, NoStation, Fail
<1>3. \A m \in Notification :
        /\ Writing(m)' => Writing(m)
        /\ tx'[m] = "logged" => tx[m] = "logged"
        /\ tx[m] = "closed" => tx'[m] = "closed"
        /\ handler'[m] = "confirmed" => handler[m] = "confirmed"
  BY DEF TypeInv, Writing, Receive, Begin, NoStation, Fail
<1>4. RowsLocked' /\ EventsOwned' /\ IdsGiven' /\ NextIsLater' /\ ConfirmedIsEvent'
  BY <1>1, <1>3 DEF TypeInv, RowsLocked, EventsOwned, IdsGiven, NextIsLater, ConfirmedIsEvent
<1>5. RowIsLastEvent'
  BY <1>1, Zenon DEF RowIsLastEvent
<1> QED  BY <1>2, <1>4, <1>5, Zenon

\* The upsert waits for the lock of its row.
LEMMA UpsertStep ==
  ASSUME StoreInv, NEW n \in Notification, Upsert(n)
  PROVE  StoreInv'
<1> USE DEF StoreInv
<1>1. UNCHANGED <<rows, events, nextId, handler, eventId>>
      /\ tx' = [tx EXCEPT ![n] = "written"] /\ tx[n] = "open" /\ Lockable(n)
  BY DEF Upsert
<1>2. TypeInv'
  BY <1>1, Zenon DEF TypeInv
<1>3. RowsLocked'
  BY <1>1 DEF TypeInv, RowsLocked, Lockable, Writing
<1>4. EventsOwned' /\ IdsGiven' /\ NextIsLater' /\ ConfirmedIsEvent'
  BY <1>1 DEF TypeInv, EventsOwned, IdsGiven, NextIsLater, ConfirmedIsEvent
<1>5. RowIsLastEvent'
  BY <1>1, Zenon DEF RowIsLastEvent
<1> QED  BY <1>2, <1>3, <1>4, <1>5, Zenon

\* An event gets its id while its transaction holds the row: the id is larger than
\* those of all committed events.
LEMMA AppendStep ==
  ASSUME StoreInv, NEW n \in Notification, AppendEvent(n)
  PROVE  StoreInv'
<1> USE DEF StoreInv
<1>1. /\ UNCHANGED <<rows, events, handler>> /\ handler[n] = "running"
      /\ tx' = [tx EXCEPT ![n] = "logged"] /\ tx[n] = "written"
      /\ eventId' = [eventId EXCEPT ![n] = nextId] /\ nextId' = nextId + 1
  BY DEF AppendEvent
<1>2. TypeInv'
  BY <1>1 DEF TypeInv
<1>3. RowsLocked'
  BY <1>1 DEF TypeInv, RowsLocked, Writing
<1>4. EventsOwned'
  BY <1>1 DEF TypeInv, EventsOwned
<1>5. IdsGiven'
  BY <1>1 DEF TypeInv, IdsGiven
<1>6. NextIsLater'
  BY <1>1 DEF TypeInv, NextIsLater, EventsOwned, IdsGiven
<1>7. ConfirmedIsEvent'
  BY <1>1 DEF TypeInv, ConfirmedIsEvent
<1>8. RowIsLastEvent'
  BY <1>1, Zenon DEF RowIsLastEvent
<1> QED  BY <1>2, <1>3, <1>4, <1>5, <1>6, <1>7, <1>8, Zenon

\* The commit puts the row and its event into the tables at once.
LEMMA CommitStep ==
  ASSUME StoreInv, NEW n \in Notification, Commit(n)
  PROVE  StoreInv'
<1> USE DEF StoreInv
<1> DEFINE e0 == <<eventId[n], n>>
<1>1. /\ UNCHANGED <<nextId, eventId>> /\ tx[n] = "logged" /\ handler[n] = "running"
      /\ tx' = [tx EXCEPT ![n] = "closed"]
      /\ rows' = [rows EXCEPT ![RowOf[n]] = n] /\ events' = events \cup {e0}
      /\ \A m \in Notification : m # n => handler'[m] = handler[m]
  BY DEF Commit, TypeInv
<1>2. TypeInv'
  <2>1. handler' \in [Notification -> {"idle", "running", "confirmed", "failed"}]
    BY DEF Commit, TypeInv
  <2>2. e0 \in Nat \X Notification
    BY DEF TypeInv
  <2> QED  BY <1>1, <2>1, <2>2, Zenon DEF TypeInv
<1>3. RowsLocked'
  BY <1>1 DEF TypeInv, RowsLocked, Writing
<1>4. EventsOwned'
  BY <1>1 DEF TypeInv, EventsOwned
<1>5. IdsGiven'
  BY <1>1, Zenon DEF IdsGiven
<1>6. NextIsLater'
  <2> SUFFICES ASSUME NEW m \in Notification, tx'[m] = "logged", NEW e \in events',
                      RowOf[e[2]] = RowOf[m]
               PROVE  e[1] < eventId[m]
    BY <1>1 DEF NextIsLater
  <2>1. m # n /\ tx[m] = "logged"
    BY <1>1 DEF TypeInv
  <2>2. e # e0
    BY <1>1, <2>1 DEF RowsLocked, Writing
  <2> QED  BY <1>1, <2>1, <2>2 DEF NextIsLater
<1>7. ConfirmedIsEvent'
  BY <1>1 DEF TypeInv, ConfirmedIsEvent
<1>8. RowIsLastEvent'
  <2> SUFFICES ASSUME NEW k \in Row
               PROVE  LET history == {e \in events' : RowOf[e[2]] = k}
                      IN IF history = {} THEN rows'[k] = None
                         ELSE \E e \in history : rows'[k] = e[2] /\ \A f \in history : f[1] <= e[1]
    BY Zenon DEF RowIsLastEvent
  <2> DEFINE old == {e \in events : RowOf[e[2]] = k}
             new == {e \in events' : RowOf[e[2]] = k}
  <2>1. IF old = {} THEN rows[k] = None
        ELSE \E e \in old : rows[k] = e[2] /\ \A f \in old : f[1] <= e[1]
    BY Zenon DEF RowIsLastEvent
  <2>2. CASE k = RowOf[n]
    <3>1. e0 \in new /\ rows'[k] = e0[2]
      BY <1>1, <2>2 DEF TypeInv
    <3>2. ASSUME NEW f \in new PROVE f[1] <= e0[1]
      BY <1>1, <2>2 DEF NextIsLater, TypeInv
    <3> QED  BY <3>1, <3>2
  <2>3. CASE k # RowOf[n]
    <3>1. new = old /\ rows'[k] = rows[k]
      BY <1>1, <2>3 DEF TypeInv
    <3> QED  BY <2>1, <3>1, Zenon
  <2> QED  BY <2>2, <2>3, Zenon
<1> QED  BY <1>2, <1>3, <1>4, <1>5, <1>6, <1>7, <1>8, Zenon

\* Every step of every handler keeps the invariant.
LEMMA NextStore == StoreInv /\ [Next]_vars => StoreInv'
<1> SUFFICES ASSUME StoreInv, [Next]_vars PROVE StoreInv'
  OBVIOUS
<1>1. CASE UNCHANGED vars
  BY <1>1, Zenon DEF vars, StoreInv, TypeInv, RowsLocked, EventsOwned, IdsGiven, NextIsLater,
     ConfirmedIsEvent, RowIsLastEvent, Writing
<1>2. ASSUME NEW n \in Notification, Receive(n) \/ Proceed(n) \/ Fail(n) PROVE StoreInv'
  BY <1>2, PlainStep, UpsertStep, AppendStep, CommitStep, Zenon DEF Proceed
<1> QED  BY <1>1, <1>2, Zenon DEF Next
-----------------------------------------------------------------------------
\* UpsertStation and UpdateConnectorStatus keep the current rows and the event
\* tables in step, however the transactions of any number of runtimes interleave.
THEOREM RowIsLastEventAlways == Spec => []RowIsLastEvent
<1>1. StoreInv => RowIsLastEvent
  BY DEF StoreInv
<1> QED  BY InitStore, NextStore, <1>1, PTL DEF Spec

\* A notification the handler confirmed to the station is never lost: it is in
\* the history and replaced only by a later one.
THEOREM ConfirmedNotLostAlways == Spec => []ConfirmedNotLost
<1>1. StoreInv => ConfirmedNotLost
  <2> SUFFICES ASSUME StoreInv, NEW n \in Notification, handler[n] = "confirmed"
               PROVE  /\ <<eventId[n], n>> \in events
                      /\ rows[RowOf[n]] # None /\ eventId[rows[RowOf[n]]] >= eventId[n]
    BY DEF ConfirmedNotLost
  <2> DEFINE history == {e \in events : RowOf[e[2]] = RowOf[n]}
             e0 == <<eventId[n], n>>
  <2>1. e0 \in events /\ e0 \in history
    BY DEF StoreInv, ConfirmedIsEvent
  <2>2. PICK e \in history : rows[RowOf[n]] = e[2] /\ \A f \in history : f[1] <= e[1]
    BY <2>1, StoreAssumption DEF StoreInv, RowIsLastEvent
  <2>3. e[1] = eventId[e[2]] /\ e[2] # None
    BY StoreAssumption DEF StoreInv, EventsOwned, TypeInv
  <2> QED  BY <2>1, <2>2, <2>3 DEF StoreInv, TypeInv
<1> QED  BY InitStore, NextStore, <1>1, PTL DEF Spec

\* The transactions implement StationRepository, the promise the in-memory store
\* keeps: only a commit shows, and it shows at once.
THEOREM RepositoryPromiseKept == Spec => RepositoryPromise
<1>1. Init => Repository!Init
  BY Zenon DEF Init, Repository!Init
<1>2. [Next]_vars => [Repository!Next]_<<rows, handler>>
  <2>1. ASSUME UNCHANGED vars PROVE UNCHANGED <<rows, handler>>
    BY <2>1, Zenon DEF vars
  <2>2. ASSUME NEW n \in Notification, Receive(n) PROVE Repository!Receive(n)
    BY <2>2, Zenon DEF Receive, Repository!Receive
  <2>3. ASSUME NEW n \in Notification, Commit(n) PROVE Repository!Write(n)
    BY <2>3, Zenon DEF Commit, Repository!Write
  <2>4. ASSUME NEW n \in Notification, NoStation(n) \/ Fail(n) PROVE Repository!Reject(n)
    BY <2>4, Zenon DEF NoStation, Fail, Repository!Reject
  <2>5. ASSUME NEW n \in Notification, Begin(n) \/ Upsert(n) \/ AppendEvent(n)
        PROVE  UNCHANGED <<rows, handler>>
    BY <2>5, Zenon DEF Begin, Upsert, AppendEvent
  <2> QED  BY <2>1, <2>2, <2>3, <2>4, <2>5, Zenon DEF Next, Proceed, Repository!Next
<1> QED  BY <1>1, <1>2, PTL DEF Spec, RepositoryPromise, Repository!Spec
=============================================================================
