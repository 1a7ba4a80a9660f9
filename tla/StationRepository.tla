-------------------------- MODULE StationRepository --------------------------
(***************************************************************************)
(* What a station repository (internal/stationstore/repository.go) does    *)
(* with the notifications stations send: the handler of a notification     *)
(* ends in one step that either replaces the current state of the station  *)
(* or connector it is about, or changes nothing.  A handler that reports   *)
(* an error may have done either.  The in-memory repository is this with   *)
(* no error once it writes.                                                *)
(***************************************************************************)
CONSTANTS Notification,   \* BootNotifications and StatusNotifications, each sent once
          Row,            \* stations and connectors
          RowOf,          \* the row a notification is about
          None

VARIABLES rows,      \* the notification that wrote the current state of a row
          handler    \* idle (not received), running, confirmed or failed

Init == /\ rows = [k \in Row |-> None]
        /\ handler = [n \in Notification |-> "idle"]

Receive(n) ==
  /\ handler[n] = "idle"
  /\ handler' = [handler EXCEPT ![n] = "running"]
  /\ UNCHANGED rows

Write(n) ==
  /\ handler[n] = "running"
  /\ rows' = [rows EXCEPT ![RowOf[n]] = n]
  /\ \E outcome \in {"confirmed", "failed"} : handler' = [handler EXCEPT ![n] = outcome]

Reject(n) ==
  /\ handler[n] = "running"
  /\ handler' = [handler EXCEPT ![n] = "failed"]
  /\ UNCHANGED rows

Next == \E n \in Notification : Receive(n) \/ Write(n) \/ Reject(n)

Spec == Init /\ [][Next]_<<rows, handler>>
=============================================================================
