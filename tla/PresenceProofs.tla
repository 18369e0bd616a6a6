--------------------------- MODULE PresenceProofs ---------------------------
(***************************************************************************)
(* That presence is earned, for any devices, any threshold and any         *)
(* behaviour of the wall clock.  The stamp and the clock do not tell how   *)
(* long ago a human was there: the clock may have been set back.  What     *)
(* they tell is bounded by what it was set back, and that is inductive.    *)
(***************************************************************************)
EXTENDS PresenceView, FiniteSetTheorems, TLAPS

\* The stamp lies no further ahead of the clock than that was set back, and the true
\* silence is no longer than what the two say, corrected by the same.
StampTells ==
  /\ last_input <= now + lag
  /\ silence <= (now - last_input) + lag

IInv == ViewTypeOK /\ StampTells

\* How many nodes have a pump is a number of nodes.
LEMMA WatchedIsACount == \A pumps : Watched(pumps) \in Counts
<1> TAKE pumps
<1> DEFINE S == {n \in Nodes : pumps[n] # "none"}
<1>1. S \subseteq Nodes
  OBVIOUS
<1>2. IsFiniteSet(Nodes)
  BY PresenceAssumption DEF PresenceAssumption
<1>3. /\ Cardinality(S) <= Cardinality(Nodes)
      /\ IsFiniteSet(S)
  BY <1>1, <1>2, FS_Subset
<1>4. Cardinality(S) \in Nat /\ Cardinality(Nodes) \in Nat
  BY <1>2, <1>3, FS_CardinalityType
<1>5. Cardinality(S) \in 0..Cardinality(Nodes)
  <2> HIDE DEF S
  <2> QED  BY <1>3, <1>4
<1> QED  BY <1>5 DEF Watched, Counts

LEMMA ZeroCounts == 0 \in Counts
<1>1. Cardinality(Nodes) \in Nat
  BY PresenceAssumption, FS_CardinalityType DEF PresenceAssumption
<1> QED  BY <1>1 DEF Counts

LEMMA InitIInv == ViewInit => IInv
<1> SUFFICES ASSUME ViewInit PROVE IInv
  OBVIOUS
<1>1. 0 \in Counts /\ 0 \in Clock /\ 0 \in 0..Patience /\ 0 \in 0..MaxLag
  BY ZeroCounts, PresenceAssumption DEF Clock, Patience, PresenceAssumption
<1>2. TypeOK
  BY <1>1 DEF ViewInit, Init, TypeOK
<1>3. NothingRead \in Views
  BY <1>1 DEF NothingRead, Views
<1> QED
  BY <1>1, <1>2, <1>3, PresenceAssumption
  DEF ViewInit, Init, IInv, ViewTypeOK, StampTells, NothingRead, Clock, PresenceAssumption

\* What the watcher does to its types.
LEMMA WatcherKeepsTypes ==
  ASSUME TypeOK, Watch PROVE TypeOK'
<1>1. CASE Enumerate
  <2>1. CASE readable
    <3> DEFINE kept == {n \in Nodes : retained(n)}
               new  == {n \in plugged \ kept : classify_node(n)}
    <3>1. PICK opened \in SUBSET new :
            watched' = [n \in Nodes |-> IF n \in opened THEN "live"
                                        ELSE IF n \in kept THEN watched[n]
                                        ELSE "none"]
      BY <1>1, <2>1 DEF Enumerate
    <3>2. opened \subseteq Human
      BY <3>1 DEF classify_node
    <3>3. watched' \in [Nodes -> {"none", "live", "gone", "ended"}]
      BY <3>1 DEF TypeOK
    <3>4. \A n \in Nodes \ Human : watched'[n] = "none"
      BY <3>1, <3>2 DEF TypeOK
    <3>5. enumerated' \in Counts
      BY <1>1, <2>1, WatchedIsACount DEF Enumerate
    <3> HIDE DEF kept, new
    <3> QED
      BY <1>1, <2>1, <3>3, <3>4, <3>5
      DEF Enumerate, TypeOK, machine, shared, history
  <2>2. CASE ~readable
    BY <1>1, <2>2 DEF Enumerate, TypeOK, machine, shared, history
  <2> QED  BY <2>1, <2>2 DEF TypeOK
<1>2. CASE SetDeviceCount
  BY <1>2, ZeroCounts DEF SetDeviceCount, TypeOK, machine, history
<1>3. CASE SetHealthy
  BY <1>3 DEF SetHealthy, TypeOK, machine, history
<1>4. CASE Wake
  BY <1>4 DEF Wake, TypeOK, machine, shared, history
<1> QED  BY <1>1, <1>2, <1>3, <1>4 DEF Watch

\* The watcher moves neither the stamp, nor a clock.
LEMMA WatcherKeepsTime ==
  ASSUME Watch PROVE UNCHANGED <<now, last_input, silence, lag>>
BY DEF Watch, Enumerate, SetDeviceCount, SetHealthy, Wake, machine, shared, history

LEMMA PumpKeepsIInv ==
  ASSUME TypeOK, StampTells, NEW n \in Nodes, PumpEvent(n) \/ PumpEnds(n)
  PROVE  TypeOK' /\ StampTells' /\ last_input <= last_input'
<1> USE PresenceAssumption DEF PresenceAssumption, Clock, Patience
<1>1. CASE PumpEvent(n)
  <2>1. n \in Human
    BY <1>1 DEF PumpEvent, TypeOK
  <2>2. silence' = 0 /\ last_input' = IF now > last_input THEN now ELSE last_input
    BY <1>1, <2>1 DEF PumpEvent, record_input
  <2>3. UNCHANGED <<machine, healthy, device_count, watcher, lag>>
    BY <1>1 DEF PumpEvent
  <2>4. TypeOK'
    BY <2>2, <2>3 DEF TypeOK, machine, watcher
  <2>5. StampTells' /\ last_input <= last_input'
    BY <2>2, <2>3 DEF TypeOK, StampTells, machine
  <2> QED  BY <2>4, <2>5
<1>2. CASE PumpEnds(n)
  <2>1. TypeOK'
    BY <1>2 DEF PumpEnds, TypeOK, machine, shared, history
  <2>2. UNCHANGED <<now, last_input, silence, lag>>
    BY <1>2 DEF PumpEnds, machine, shared, history
  <2> QED  BY <2>1, <2>2 DEF StampTells, TypeOK
<1> QED  BY <1>1, <1>2

LEMMA WorldKeepsIInv ==
  ASSUME TypeOK, StampTells, World
  PROVE  TypeOK' /\ StampTells' /\ last_input <= last_input'
<1> USE PresenceAssumption DEF PresenceAssumption, Clock, Patience
<1>1. CASE ReadabilityChanges
  BY <1>1 DEF ReadabilityChanges, TypeOK, StampTells, shared, watcher, history
<1>2. CASE TimerTick
  BY <1>2 DEF TimerTick, TypeOK, StampTells, machine, shared, history
<1>3. CASE ClockTick
  <2>1. TypeOK'
    BY <1>3 DEF ClockTick, TypeOK, shared, watcher
  <2>2. StampTells' /\ last_input <= last_input'
    BY <1>3 DEF ClockTick, TypeOK, StampTells, shared
  <2> QED  BY <2>1, <2>2
<1>4. CASE SetClock
  <2>1. PICK t \in Clock : now' = t /\ lag' = IF t < now THEN lag + (now - t) ELSE lag
    BY <1>4 DEF SetClock
  <2>2. lag' <= MaxLag /\ UNCHANGED <<plugged, readable, shared, watcher, silence>>
    BY <1>4 DEF SetClock
  <2>3. TypeOK'
    BY <2>1, <2>2 DEF TypeOK, shared, watcher
  <2>4. StampTells' /\ last_input <= last_input'
    BY <2>1, <2>2 DEF TypeOK, StampTells, shared
  <2> QED  BY <2>3, <2>4
<1>5. ASSUME NEW n \in Nodes, Hotplug(n)
      PROVE  TypeOK' /\ StampTells' /\ last_input <= last_input'
  <2>1. watched' \in [Nodes -> {"none", "live", "gone", "ended"}]
    BY <1>5 DEF Hotplug, TypeOK
  <2>2. \A m \in Nodes \ Human : watched'[m] = "none"
    BY <1>5 DEF Hotplug, TypeOK
  <2>3. plugged' \subseteq Nodes
    BY <1>5 DEF Hotplug, TypeOK
  <2>4. notified' \in BOOLEAN
    BY <1>5, Zenon DEF Hotplug, TypeOK
  <2>5. UNCHANGED <<readable, now, shared, task, enumerated, due, history>>
    BY <1>5 DEF Hotplug
  <2>6. TypeOK'
    BY <2>1, <2>2, <2>3, <2>4, <2>5 DEF TypeOK, shared, history
  <2>7. StampTells' /\ last_input <= last_input'
    BY <2>5 DEF TypeOK, StampTells, shared, history
  <2> QED  BY <2>6, <2>7
<1> QED  BY <1>1, <1>2, <1>3, <1>4, <1>5 DEF World

\* A step of the monitor: the reader has what it read.
LEMMA MonitorKeepsIInv ==
  ASSUME IInv, MonitorStep PROVE IInv'
<1>1. TypeOK /\ StampTells
  BY DEF IInv, ViewTypeOK
<1>2. TypeOK' /\ StampTells' /\ last_input <= last_input'
  <2>1. CASE Watch
    <3>1. UNCHANGED <<now, last_input, silence, lag>>
      BY <2>1, WatcherKeepsTime
    <3>2. TypeOK'
      BY <1>1, <2>1, WatcherKeepsTypes
    <3> QED  BY <1>1, <3>1, <3>2 DEF StampTells, TypeOK, Clock
  <2>2. CASE Pumps
    BY <1>1, <2>2, PumpKeepsIInv DEF Pumps
  <2>3. CASE World
    BY <1>1, <2>3, WorldKeepsIInv
  <2> QED  BY <2>1, <2>2, <2>3 DEF MonitorStep, Next
<1>3. /\ reader' \in {"last_input", "devices", "health"}
      /\ read' \in Views /\ view' \in Views
      /\ read' = read /\ view' = view
  BY DEF IInv, ViewTypeOK, MonitorStep
<1>4. view.last_input <= last_input' /\ read.last_input <= last_input'
  <2>1. /\ view.last_input \in Int /\ read.last_input \in Int
        /\ last_input \in Int /\ last_input' \in Int
    BY <1>1, <1>2 DEF IInv, ViewTypeOK, Views, TypeOK, Clock
  <2>2. view.last_input <= last_input /\ read.last_input <= last_input
    BY DEF IInv, ViewTypeOK
  <2> QED  BY <1>2, <2>1, <2>2
<1> QED  BY <1>2, <1>3, <1>4 DEF IInv, ViewTypeOK

\* A step of the reader: it reads what is there.
LEMMA ReaderKeepsIInv ==
  ASSUME IInv, ReadLastInput \/ ReadDevices \/ ReadHealth PROVE IInv'
<1>1. TypeOK /\ StampTells /\ UNCHANGED vars
  BY DEF IInv, ViewTypeOK, ReadLastInput, ReadDevices, ReadHealth
<1>2. TypeOK' /\ StampTells' /\ last_input' = last_input
  BY <1>1 DEF TypeOK, StampTells, Watched, vars, machine, shared, watcher, history
<1>3. /\ read \in Views /\ view \in Views
      /\ view.last_input <= last_input /\ read.last_input <= last_input
      /\ last_input \in Clock /\ device_count \in Counts /\ healthy \in BOOLEAN
  BY DEF IInv, ViewTypeOK, TypeOK
<1>4. NothingRead \in Views /\ NothingRead.last_input <= last_input
  <2>1. 0 \in Counts /\ 0 \in Clock /\ 0 <= last_input
    BY <1>3, ZeroCounts, PresenceAssumption DEF Clock, PresenceAssumption
  <2> QED  BY <2>1 DEF NothingRead, Views
<1>5. CASE ReadLastInput
  <2>1. read' \in Views /\ read'.last_input = last_input
    BY <1>3, <1>5, Zenon DEF ReadLastInput, Views
  <2>2. last_input <= last_input
    BY <1>3 DEF Clock
  <2> QED
    BY <1>2, <1>3, <1>5, <2>1, <2>2 DEF ReadLastInput, IInv, ViewTypeOK
<1>6. CASE ReadDevices
  <2>1. read' \in Views /\ read'.last_input = read.last_input
    BY <1>3, <1>6, Zenon DEF ReadDevices, Views
  <2> QED  BY <1>2, <1>3, <1>6, <2>1 DEF ReadDevices, IInv, ViewTypeOK
<1>7. CASE ReadHealth
  <2>1. view' \in Views /\ view'.last_input = read.last_input
    BY <1>3, <1>7, Zenon DEF ReadHealth, Views
  <2> QED  BY <1>2, <1>3, <1>4, <1>7, <2>1 DEF ReadHealth, IInv, ViewTypeOK
<1> QED  BY <1>5, <1>6, <1>7

LEMMA StutterKeepsIInv ==
  ASSUME IInv, UNCHANGED view_vars PROVE IInv'
BY DEF IInv, ViewTypeOK, TypeOK, StampTells, view_vars, vars, machine, shared, watcher, history

LEMMA InductiveIInv == ViewSpec => []IInv
<1>1. IInv /\ [ViewNext]_view_vars => IInv'
  BY MonitorKeepsIInv, ReaderKeepsIInv, StutterKeepsIInv DEF ViewNext
<1> QED  BY InitIInv, <1>1, PTL DEF ViewSpec

(***************************************************************************)
(* Types of the watcher, its pumps and the snapshot (src/presence.rs, run, *)
(* reenumerate, pump_events): the count is a number of nodes, virtual      *)
(* devices have no pump, and no snapshot is ahead of the stamp.            *)
(***************************************************************************)
THEOREM PresenceTypes == ViewSpec => []ViewTypeOK
<1>1. IInv => ViewTypeOK
  BY DEF IInv
<1> QED  BY <1>1, InductiveIInv, PTL

(***************************************************************************)
(* Nobody is present who has not touched a device, started the daemon, or  *)
(* moved the clock back for less than the threshold ago                    *)
(* (src/presence.rs:163, is_local_present).                                *)
(***************************************************************************)
THEOREM PresenceHasACause == ViewSpec => []PresenceIsEarned
<1>1. IInv => PresenceIsEarned
  <2> SUFFICES ASSUME IInv, is_local_present PROVE silence < Threshold + lag
    BY DEF PresenceIsEarned
  <2>1. /\ now \in Int /\ last_input \in Int /\ silence \in Int /\ lag \in Int
        /\ Threshold \in Int
    BY PresenceAssumption
    DEF IInv, ViewTypeOK, TypeOK, Clock, Patience, PresenceAssumption
  <2>2. view.last_input \in Int /\ view.last_input <= last_input
    BY DEF IInv, ViewTypeOK, Views, Clock
  <2>3. now - view.last_input < Threshold
    BY DEF is_local_present
  <2>4. silence <= (now - last_input) + lag
    BY DEF IInv, StampTells
  <2> QED  BY <2>1, <2>2, <2>3, <2>4
<1> QED  BY <1>1, InductiveIInv, PTL

=============================================================================
