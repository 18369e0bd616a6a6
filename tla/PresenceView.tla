---------------------------- MODULE PresenceView ----------------------------
(***************************************************************************)
(* The snapshot a pass takes of the presence monitor (src/reconcile.rs,    *)
(* refresh_substate), from which /metrics tells whether somebody is        *)
(* present.  The three atomics are read one after the other.               *)
(***************************************************************************)
EXTENDS Presence

VARIABLES
  reader,     \* which of the three the reconcile task reads next
  read,       \* what it has read so far
  view        \* ArbiterState.presence

Views == [last_input : Clock, devices : Counts, monitor_up : BOOLEAN]

ViewTypeOK ==
  /\ TypeOK
  /\ reader \in {"last_input", "devices", "health"}
  /\ read \in Views /\ view \in Views
  /\ view.last_input <= last_input /\ read.last_input <= last_input

\* Presence::default
NothingRead == [last_input |-> 0, devices |-> 0, monitor_up |-> FALSE]

ViewInit ==
  /\ Init
  /\ reader = "last_input"
  /\ read = NothingRead /\ view = NothingRead

\* A step of the monitor, whatever the reader is at.
MonitorStep ==
  /\ Next
  /\ UNCHANGED <<reader, read, view>>

ReadLastInput ==
  /\ reader = "last_input"
  /\ read' = [read EXCEPT !.last_input = last_input]
  /\ reader' = "devices"
  /\ UNCHANGED <<vars, view>>

ReadDevices ==
  /\ reader = "devices"
  /\ read' = [read EXCEPT !.devices = device_count]
  /\ reader' = "health"
  /\ UNCHANGED <<vars, view>>

\* The view is published; the locals are gone.
ReadHealth ==
  /\ reader = "health"
  /\ view' = [read EXCEPT !.monitor_up = healthy]
  /\ read' = NothingRead
  /\ reader' = "last_input"
  /\ UNCHANGED vars

ViewNext == MonitorStep \/ ReadLastInput \/ ReadDevices \/ ReadHealth

view_vars == <<vars, reader, read, view>>

ViewSpec == ViewInit /\ [][ViewNext]_view_vars /\ Fairness

is_local_present == view.monitor_up /\ now - view.last_input < Threshold

(***************************************************************************)
(* Somebody is present only if a human touched a device, or the daemon     *)
(* started, less than the threshold ago (src/presence.rs:163), and what    *)
(* the clock was set back since: the stamp is wall-clock time.  Streamed   *)
(* input does not count, and a snapshot that is old errs to absence.       *)
(***************************************************************************)
PresenceIsEarned == is_local_present => silence < Threshold + lag

=============================================================================
