------------------------------ MODULE Presence ------------------------------
(***************************************************************************)
(* Is a human at the desk?  The watcher of the input devices and its       *)
(* pumps, one task per watched device (src/presence.rs, run, reenumerate,  *)
(* pump_events).  What they find out is in three atomics, each written on  *)
(* its own; who reads them is in PresenceView.                             *)
(***************************************************************************)
EXTENDS Integers, FiniteSets

CONSTANTS
  Nodes,        \* /dev/input/event* that may exist
  Human,        \* those classify_node keeps: not virtual, with keys or axes
  Threshold,    \* presence_idle_threshold_s, in ticks
  MaxNow,       \* bound on the wall clock
  MaxLag        \* bound on what it is set back

ASSUME PresenceAssumption ==
  /\ IsFiniteSet(Nodes) /\ Human \subseteq Nodes
  /\ Threshold \in Nat /\ MaxNow \in Nat /\ MaxLag \in Nat

VARIABLES
  \* The machine.
  plugged,       \* the nodes there are
  readable,      \* /dev/input can be read
  now,           \* the wall clock, in ticks
  \* The monitor: what is shared.
  last_input, healthy, device_count,
  \* The watcher.
  task,          \* where it is
  watched,       \* each node's pump: "none", "live", "gone" if its device was unplugged
                 \* and it has yet to learn of it, "ended" if the task is finished
  enumerated,    \* what reenumerate returned, until it is published
  notified,      \* a hotplug event is pending
  due,           \* so is a tick of the timer
  \* History.
  silence,       \* true time since a human touched a watched device (up to Patience)
  lag            \* ticks the clock was set back, all in all

machine == <<plugged, readable, now>>
shared  == <<last_input, healthy, device_count>>
watcher == <<task, watched, enumerated, notified, due>>
history == <<silence, lag>>
vars    == <<machine, shared, watcher, history>>

Clock    == 0..MaxNow
Counts   == 0..Cardinality(Nodes)
Patience == Threshold + MaxLag

Watched(pumps) == Cardinality({n \in Nodes : pumps[n] # "none"})

TypeOK ==
  /\ plugged \subseteq Nodes
  /\ readable \in BOOLEAN
  /\ now \in Clock /\ last_input \in Clock
  /\ healthy \in BOOLEAN
  /\ device_count \in Counts /\ enumerated \in Counts
  /\ task \in {"enumerate", "count", "up", "down", "wait"}
  /\ watched \in [Nodes -> {"none", "live", "gone", "ended"}]
  /\ \A n \in Nodes \ Human : watched[n] = "none"
  /\ notified \in BOOLEAN /\ due \in BOOLEAN
  /\ silence \in 0..Patience
  /\ lag \in 0..MaxLag

\* PresenceMonitor::new: the start of the daemon counts as input.
Init ==
  /\ plugged \in SUBSET Nodes
  /\ readable \in BOOLEAN
  /\ now = 0 /\ last_input = 0 /\ silence = 0 /\ lag = 0
  /\ healthy = FALSE
  /\ device_count = 0 /\ enumerated = 0
  /\ task = "enumerate"
  /\ watched = [n \in Nodes |-> "none"]
  /\ notified = FALSE /\ due = FALSE

-----------------------------------------------------------------------------
(***************************************************************************)
(* The watcher.                                                            *)
(***************************************************************************)
\* Mutant: a pump that ended stays watched.
retained_blindly(n) == n \in plugged /\ watched[n] # "none"

\* retain: unplugged nodes and ended pumps are forgotten.
retained(n) == n \in plugged /\ watched[n] \in {"live", "gone"}

\* Mutant: virtual devices are kept.
classify_node_by_caps(n) == n \in Nodes

classify_node(n) == n \in Human

\* reenumerate: each candidate is opened, or passed over if it cannot be.
Enumerate ==
  /\ task = "enumerate"
  /\ IF readable
       THEN LET kept == {n \in Nodes : retained(n)}
                new  == {n \in plugged \ kept : classify_node(n)}
            IN  \E opened \in SUBSET new :
                  /\ watched' = [n \in Nodes |-> IF n \in opened THEN "live"
                                                 ELSE IF n \in kept THEN watched[n]
                                                 ELSE "none"]
                  /\ enumerated' = Watched(watched')
                  /\ task' = "count"
       ELSE task' = "down" /\ UNCHANGED <<watched, enumerated>>
  /\ UNCHANGED <<machine, shared, notified, due, history>>

SetDeviceCount ==
  /\ task = "count"
  /\ device_count' = enumerated
  /\ enumerated' = 0
  /\ task' = "up"
  /\ UNCHANGED <<machine, last_input, healthy, watched, notified, due, history>>

SetHealthy ==
  /\ task \in {"up", "down"}
  /\ healthy' = (task = "up")
  /\ task' = "wait"
  /\ UNCHANGED <<machine, last_input, device_count, watched, enumerated, notified, due, history>>

\* Mutant: only hotplug events wake the watcher.
WakeByEvent ==
  /\ task = "wait"
  /\ notified /\ notified' = FALSE
  /\ task' = "enumerate"
  /\ UNCHANGED <<machine, shared, watched, enumerated, due, history>>

\* The select!: a tick or a hotplug event.
Wake ==
  /\ task = "wait"
  /\ \/ due /\ due' = FALSE /\ UNCHANGED notified
     \/ notified /\ notified' = FALSE /\ UNCHANGED due
  /\ task' = "enumerate"
  /\ UNCHANGED <<machine, shared, watched, enumerated, history>>

\* fetch_max
record_input == last_input' = IF now > last_input THEN now ELSE last_input

\* pump_events: an event of a watched device.
PumpEvent(n) ==
  /\ watched[n] = "live"
  /\ record_input
  /\ silence' = IF n \in Human THEN 0 ELSE silence
  /\ UNCHANGED <<machine, healthy, device_count, watcher, lag>>

\* pump_events: the stream errors, as it does when its device is gone.
PumpEnds(n) ==
  /\ watched[n] \in {"live", "gone"}
  /\ watched' = [watched EXCEPT ![n] = "ended"]
  /\ UNCHANGED <<machine, shared, task, enumerated, notified, due, history>>

-----------------------------------------------------------------------------
(***************************************************************************)
(* The machine.                                                            *)
(***************************************************************************)
\* A device that comes back under the same name is another one to its pump.  The event
\* may be lost: inotify is unavailable, set up after the first enumeration, or full.
Hotplug(n) ==
  /\ plugged' = IF n \in plugged THEN plugged \ {n} ELSE plugged \cup {n}
  /\ watched' = [watched EXCEPT ![n] = IF @ = "live" THEN "gone" ELSE @]
  /\ notified' \in {notified, TRUE}
  /\ UNCHANGED <<readable, now, shared, task, enumerated, due, history>>

ReadabilityChanges ==
  /\ readable' = ~readable
  /\ UNCHANGED <<plugged, now, shared, watcher, history>>

TimerTick ==
  /\ ~due
  /\ due' = TRUE
  /\ UNCHANGED <<machine, shared, task, watched, enumerated, notified, history>>

ClockTick ==
  /\ now < MaxNow
  /\ now' = now + 1
  /\ silence' = IF silence < Patience THEN silence + 1 ELSE silence
  /\ UNCHANGED <<plugged, readable, shared, watcher, lag>>

\* Somebody sets the clock, to any time.
SetClock ==
  /\ \E t \in Clock :
       /\ now' = t
       /\ lag' = IF t < now THEN lag + (now - t) ELSE lag
  /\ lag' <= MaxLag
  /\ UNCHANGED <<plugged, readable, shared, watcher, silence>>

Watch == Enumerate \/ SetDeviceCount \/ SetHealthy \/ Wake
Pumps == \E n \in Nodes : PumpEvent(n) \/ PumpEnds(n)
World == ReadabilityChanges \/ TimerTick \/ ClockTick \/ SetClock \/ \E n \in Nodes : Hotplug(n)

Next == Watch \/ Pumps \/ World

Spec == Init /\ [][Next]_vars

\* The watcher is scheduled, its timer ticks, a pump whose device is gone hears of it, and
\* a device that is tried again and again opens.  Users and devices owe nothing.
Opens(n) == Enumerate /\ watched[n] # "live" /\ watched'[n] = "live"

Fairness ==
  /\ WF_vars(Watch) /\ WF_vars(TimerTick)
  /\ \A n \in Nodes : WF_vars(watched[n] = "gone" /\ PumpEnds(n))
  /\ \A n \in Human : SF_vars(Opens(n))

FairSpec == Spec /\ Fairness

-----------------------------------------------------------------------------
(***************************************************************************)
(* A device that is counted but delivers nothing is found out: it is       *)
(* watched again, forgotten, or the monitor cannot read /dev/input         *)
(* (src/presence.rs, reenumerate: up, counted, but blind); and a monitor   *)
(* that cannot read it says so.                                            *)
(***************************************************************************)
BlindnessEnds ==
  /\ \A n \in Nodes :
       watched[n] \in {"gone", "ended"} ~> watched[n] \in {"none", "live"} \/ ~readable
  /\ ~readable ~> readable \/ ~healthy

(***************************************************************************)
(* A device is picked up, with or without hotplug events.                  *)
(***************************************************************************)
HotplugIsSeen ==
  \A n \in Human :
    n \in plugged /\ watched[n] = "none" ~> n \notin plugged \/ watched[n] # "none" \/ ~readable

=============================================================================
