-------------------------- MODULE EvictionProofs ---------------------------
(***************************************************************************)
(* The safety properties of Eviction, for every threshold, timeout and     *)
(* amount of VRAM.                                                         *)
(***************************************************************************)
EXTENDS Eviction, TLAPS

\* The constants, and the two ways an await ends.
USE EvictionAssumption DEF EvictionAssumption, GoTo, Return, NoReading, Levels

-----------------------------------------------------------------------------
(***************************************************************************)
(* Types.                                                                  *)
(***************************************************************************)

(***************************************************************************)
(* eviction_step (src/units.rs:523): the step of a poll is Freed only for  *)
(* a reading below the threshold, and Escalate only at the timeout.        *)
(***************************************************************************)
LEMMA StepOfPoll ==
  ASSUME NEW mb \in Int, NEW elapsed \in Nat
  PROVE  /\ eviction_step(mb, elapsed) \in Steps
         /\ eviction_step(mb, elapsed) = "Freed" => mb # NoReading /\ mb < Threshold
         /\ eviction_step(mb, elapsed) = "Escalate" => elapsed >= Timeout
  BY DEF eviction_step, Steps

(***************************************************************************)
(* What one poll reads (src/units.rs:1341): unless the platform has no     *)
(* answer, a reading below the threshold is the unit's own VRAM or an      *)
(* upper bound of it, provided VRAM was attributed only to units the       *)
(* query sees.                                                             *)
(***************************************************************************)
LEMMA ReadingBoundsVram ==
  ASSUME TypeOK, seen_nonzero => setup.sees,
         NEW attributed \in attribute_unit_vram, NEW total \in query_memory,
         NEW trusted \in BOOLEAN,
         trusted = (~setup.windows /\ attribution_is_trustworthy(attributed, seen_nonzero)),
         NEW mb,
         mb = IF setup.windows THEN NoReading ELSE IF trusted THEN attributed ELSE total
  PROVE  /\ attributed \in Int
         /\ mb \in Int
         /\ mb # NoReading /\ mb < Threshold => vram < Threshold
         /\ trusted /\ attributed > 0 => setup.sees
         /\ setup.windows => mb = NoReading
  <1>1. vram \in Nat /\ other_vram \in Nat /\ vram + other_vram >= vram
    BY DEF TypeOK
  <1>2. attributed = NoReading \/ attributed = (IF setup.sees THEN vram ELSE 0)
    BY DEF attribute_unit_vram
  <1>3. total = NoReading \/ total = vram + other_vram
    BY DEF query_memory
  <1>4. trusted => attributed # NoReading /\ (attributed > 0 \/ seen_nonzero)
    BY DEF attribution_is_trustworthy
  <1>5. trusted => setup.sees /\ attributed = vram
    BY <1>1, <1>2, <1>4
  <1>6. QED
    BY <1>1, <1>2, <1>3, <1>5

\* The locals evict_inner starts with have their types.
LEMMA TypeInit == Init => TypeOK
  <1> SUFFICES ASSUME Init PROVE TypeOK
    OBVIOUS
  <1>1. setup \in Setups /\ up \in BOOLEAN /\ vram \in Levels /\ other_vram \in Levels
    BY DEF Init
  <1>2. pc \in Points /\ step \in Steps /\ (outcome # "none" <=> pc = "done")
    BY DEF Init, Points, Steps
  <1>3. waited \in 0..Timeout /\ settling \in 0..Settle
    BY DEF Init
  <1>4. /\ outcome \in Outcomes \cup {"none"} /\ asked \in {"no", "ok", "failed"}
        /\ answer \in Readings \cup {"none"}
    BY DEF Init
  <1>5. seen_nonzero \in BOOLEAN /\ killed \in BOOLEAN /\ drained \in BOOLEAN
    BY DEF Init
  <1>6. QED
    BY <1>1, <1>2, <1>3, <1>4, <1>5 DEF TypeOK

(***************************************************************************)
(* is_running (src/units.rs:700) answers one of three things, and what it  *)
(* answers is true of the unit unless it is "unknown".                     *)
(***************************************************************************)
LEMMA AnswerIsTrue ==
  ASSUME up \in BOOLEAN, NEW r \in is_running
  PROVE  r \in Readings /\ (r = "running" => up) /\ (r = "stopped" => ~up)
  <1>1. PICK end \in probe_ends : r = run_state(end)
    BY DEF is_running
  <1>2. end \in Statuses \cup UnitErrors /\ (end \in Statuses => (success(end) <=> up))
    BY <1>1 DEF probe_ends, run_argv, Ends, UnitErrors
  <1>3. CASE end \in UnitErrors
    BY <1>1, <1>3 DEF run_state, Readings
  <1>4. CASE end \notin UnitErrors
    BY <1>1, <1>2, <1>4 DEF run_state, Readings
  <1>5. QED
    BY <1>3, <1>4

(***************************************************************************)
(* What the locals mean at each await of evict_inner (src/units.rs:1134).  *)
(***************************************************************************)
Asked ==
  /\ pc \in {"probe", "stop"} => asked = "no"
  /\ pc \in {"stop_failed", "kill_failed_stop"} => asked = "failed"
  /\ pc \in {"read", "gate", "recheck", "kill", "settle"} => asked = "ok"

Polled ==
  /\ seen_nonzero => setup.sees
  /\ pc = "gate" /\ step = "Freed" => drained /\ ~setup.windows
  /\ pc = "gate" /\ step = "Escalate" => waited = Timeout
  /\ pc \in {"recheck", "kill", "settle"} => waited = Timeout

Killing ==
  /\ pc \in {"kill_failed_stop", "kill"} => answer \in {"running", "unknown"}
  /\ pc = "settle" => killed

IInv ==
  /\ TypeOK
  /\ Asked
  /\ Polled
  /\ Killing
  /\ EarlyReleaseIsDrained
  /\ ErrorMeansKilled

USE DEF Asked, Polled, Killing, EarlyReleaseIsDrained, ErrorMeansKilled

\* evict_inner starts in the invariant.
LEMMA InvariantInit == Init => IInv
  <1>1. Init => TypeOK
    BY TypeInit
  <1>2. QED
    BY <1>1 DEF Init, IInv

(***************************************************************************)
(* The poll and its gate (src/units.rs:1196): VRAM below the threshold     *)
(* leads to Freed, the timeout to the recheck.                             *)
(***************************************************************************)
LEMMA ReadVramKeeps ==
  ASSUME IInv, ReadVram
  PROVE  IInv'
  <1>1. PICK attributed \in attribute_unit_vram, total \in query_memory :
          LET trusted == ~setup.windows /\ attribution_is_trustworthy(attributed, seen_nonzero)
              mb == IF setup.windows THEN NoReading ELSE IF trusted THEN attributed ELSE total
          IN  /\ seen_nonzero' = (seen_nonzero \/ (trusted /\ attributed > 0))
              /\ step' = eviction_step(mb, waited)
    BY DEF ReadVram
  <1> DEFINE trusted == ~setup.windows /\ attribution_is_trustworthy(attributed, seen_nonzero)
             mb == IF setup.windows THEN NoReading ELSE IF trusted THEN attributed ELSE total
  <1>2. trusted \in BOOLEAN
    BY DEF IInv, TypeOK, Setups, attribution_is_trustworthy
  <1>3. /\ attributed \in Int
        /\ mb \in Int
        /\ mb # NoReading /\ mb < Threshold => vram < Threshold
        /\ trusted /\ attributed > 0 => setup.sees
        /\ setup.windows => mb = NoReading
    BY <1>2, ReadingBoundsVram DEF IInv
  <1>4. /\ seen_nonzero' = (seen_nonzero \/ (trusted /\ attributed > 0))
        /\ step' = eviction_step(mb, waited)
    BY <1>1
  <1>5. /\ step' \in Steps
        /\ step' = "Freed" => mb # NoReading /\ mb < Threshold
        /\ step' = "Escalate" => waited >= Timeout
    <2>1. waited \in Nat
      BY DEF IInv, TypeOK
    <2>2. QED
      BY <1>3, <1>4, <2>1, StepOfPoll
  <1> HIDE DEF trusted, mb
  <1>6. /\ UNCHANGED <<machine, waited, settling, asked, killed, answer, outcome>>
        /\ drained' = (vram < Threshold) /\ pc = "read" /\ pc' = "gate"
    BY DEF ReadVram
  <1>7. TypeOK'
    BY <1>2, <1>3, <1>4, <1>5, <1>6 DEF IInv, TypeOK, machine, Points
  <1>8. seen_nonzero' => setup'.sees
    BY <1>3, <1>4, <1>6 DEF IInv, machine
  <1>9. step' = "Freed" => drained' /\ ~setup'.windows
    <2>1. step' = "Freed" => vram < Threshold /\ ~setup.windows
      BY <1>3, <1>5
    <2>2. vram < Threshold => drained'
      BY <1>6
    <2>3. QED
      BY <1>6, <2>1, <2>2 DEF machine
  <1>10. step' = "Escalate" => waited' = Timeout
    BY <1>5, <1>6 DEF IInv, TypeOK
  <1>11. QED
    BY <1>6, <1>7, <1>8, <1>9, <1>10 DEF IInv, TypeOK

\* The gate (src/units.rs:1199) keeps the invariant.
LEMMA GateKeeps ==
  ASSUME IInv, Gate
  PROVE  IInv'
  <1>1. answer' \in Readings \cup {"none"}
    BY AnswerIsTrue DEF Gate, IInv, TypeOK
  <1>2. /\ UNCHANGED <<machine, seen_nonzero, step, waited, settling, asked, killed, drained>>
        /\ pc = "gate"
    BY DEF Gate
  <1>3. \/ pc' = "done" /\ outcome' = "Freed" /\ (step = "Freed" \/ setup.windows)
        \/ pc' = "recheck" /\ outcome' = outcome /\ (step = "Escalate" \/ waited >= Timeout)
        \/ pc' = "read" /\ outcome' = outcome
    BY DEF Gate, poll_step, vram_open, IInv, TypeOK, Steps
  <1>4. TypeOK'
    BY <1>1, <1>2, <1>3 DEF IInv, TypeOK, machine, Points, Outcomes
  <1>5. QED
    BY <1>2, <1>3, <1>4 DEF IInv, TypeOK, machine

\* kill_unit (src/units.rs:1434): whatever the kill does is a state of the machine.
LEMMA KillUnitType ==
  ASSUME TypeOK, kill_unit
  PROVE  /\ up' \in BOOLEAN /\ vram' \in Levels /\ killed' \in BOOLEAN /\ killed'
         /\ UNCHANGED <<setup, other_vram>>
  <1>1. up' \in BOOLEAN
    BY DEF TypeOK, kill_unit
  <1>2. vram' \in Levels
    BY DEF TypeOK, kill_unit
  <1>3. QED
    BY <1>1, <1>2 DEF kill_unit

(***************************************************************************)
(* Each other step of evict_inner, each tick and each move of the machine  *)
(* keeps the invariant.                                                    *)
(***************************************************************************)
LEMMA EvictStepKeeps ==
  ASSUME IInv, EvictStep
  PROVE  IInv'
  <1> USE DEF IInv, TypeOK, Points, Outcomes, Readings, machine
  <1>0. kill_unit => /\ up' \in BOOLEAN /\ vram' \in Levels /\ killed' \in BOOLEAN /\ killed'
                     /\ UNCHANGED <<setup, other_vram>>
    BY KillUnitType
  <1>a. \A r \in is_running : r \in {"running", "stopped", "unknown"}
    BY AnswerIsTrue
  <1>1. CASE FirstProbe
    BY <1>1, <1>a DEF FirstProbe
  <1>2. CASE Stop
    <2>1. up' \in BOOLEAN
      BY <1>2 DEF Stop
    <2>2. \/ asked' = "ok" /\ pc' = "read"
          \/ asked' = "failed" /\ pc' = "stop_failed"
      BY <1>2 DEF Stop
    <2>3. /\ pc = "stop"
          /\ UNCHANGED <<setup, vram, other_vram, seen_nonzero, step, waited, settling,
                         outcome, killed, answer, drained>>
      BY <1>2 DEF Stop
    <2>4. QED
      BY <2>1, <2>2, <2>3
  <1>3. CASE StopFailed
    BY <1>3, <1>a DEF StopFailed
  <1>4. CASE KillFailedStop
    BY <1>0, <1>4 DEF KillFailedStop
  <1>5. CASE ReadVram
    BY <1>5, ReadVramKeeps
  <1>6. CASE Gate
    BY <1>6, GateKeeps
  <1>7. CASE Recheck
    BY <1>7, <1>a DEF Recheck
  <1>8. CASE Kill
    BY <1>0, <1>8 DEF Kill
  <1>9. CASE WaitUntilStopped
    BY <1>9, <1>a DEF WaitUntilStopped
  <1>10. QED
    BY <1>1, <1>2, <1>3, <1>4, <1>5, <1>6, <1>7, <1>8, <1>9 DEF EvictStep

LEMMA WorldKeeps ==
  ASSUME IInv, Tick \/ Environment
  PROVE  IInv'
  <1> USE DEF IInv, TypeOK, machine, locals, history
  <1>1. CASE Tick
    BY <1>1 DEF Tick
  <1>2. CASE UnitDown
    BY <1>2 DEF UnitDown
  <1>3. CASE UnitUp
    BY <1>3 DEF UnitUp
  <1>4. CASE UnitVram
    <2>1. vram' \in Levels
      BY <1>4 DEF UnitVram
    <2>2. QED
      BY <1>4, <2>1 DEF UnitVram
  <1>5. CASE OtherVram
    BY <1>5 DEF OtherVram
  <1>6. QED
    BY <1>1, <1>2, <1>3, <1>4, <1>5 DEF Environment

\* Every step keeps the invariant.
LEMMA InvariantKept ==
  ASSUME IInv, [Next]_vars
  PROVE  IInv'
  <1>1. CASE Next
    BY <1>1, EvictStepKeeps, WorldKeeps DEF Next
  <1>2. CASE UNCHANGED vars
    BY <1>2 DEF IInv, TypeOK, vars, machine, history
  <1>3. QED
    BY <1>1, <1>2

(***************************************************************************)
(* The invariant of evict_inner (src/units.rs:1134) holds at every await.  *)
(***************************************************************************)
THEOREM InvariantHolds == Spec => []IInv
  <1>1. IInv /\ [Next]_vars => IInv'
    BY InvariantKept
  <1>2. QED
    BY InvariantInit, <1>1, PTL DEF Spec

-----------------------------------------------------------------------------
(***************************************************************************)
(* The theorems.                                                           *)
(***************************************************************************)

(***************************************************************************)
(* evict_inner: every local keeps its type, and the answer is given        *)
(* exactly when the eviction is over.                                      *)
(***************************************************************************)
THEOREM EvictionTypes == Spec => []TypeOK
  BY InvariantHolds, PTL DEF IInv

(***************************************************************************)
(* src/units.rs:1415: before the timeout, only VRAM that the unit really   *)
(* released opens the gate.                                                *)
(***************************************************************************)
THEOREM EarlyRelease == Spec => []EarlyReleaseIsDrained
  BY InvariantHolds, PTL DEF IInv

(***************************************************************************)
(* src/units.rs:1169: a unit whose stop failed is killed unless a probe    *)
(* found it stopped.                                                       *)
(***************************************************************************)
THEOREM FailedStopIsKilled == Spec => []ErrorMeansKilled
  BY InvariantHolds, PTL DEF IInv

(***************************************************************************)
(* src/units.rs:1225: no kill before the timeout of a stop that succeeded, *)
(* nor after a probe that found the unit stopped.                          *)
(***************************************************************************)
THEOREM KillComesLast == Spec => KillIsLastResort
  <1> DEFINE LastResort ==
        killed' # killed =>
          /\ asked = "failed" \/ (asked = "ok" /\ waited = Timeout)
          /\ answer \in {"running", "unknown"}
  <1>1. IInv /\ [Next]_vars => [LastResort]_vars
    <2> SUFFICES ASSUME IInv, Next, killed' # killed
                 PROVE  /\ asked = "failed" \/ (asked = "ok" /\ waited = Timeout)
                        /\ answer \in {"running", "unknown"}
      OBVIOUS
    <2>1. pc \in {"kill_failed_stop", "kill"}
      BY DEF Next, EvictStep, FirstProbe, Stop, StopFailed, KillFailedStop, ReadVram, Gate,
             Recheck, Kill, WaitUntilStopped, Tick, Environment, UnitDown, UnitUp, UnitVram,
             OtherVram, locals, history
    <2>2. QED
      BY <2>1 DEF IInv
  <1>2. QED
    BY InvariantHolds, <1>1, PTL DEF Spec, KillIsLastResort

(***************************************************************************)
(* How evict_inner answers a unit it found running (src/units.rs:1157 on): *)
(* success needs the unit stopped, an error says nothing.                  *)
(***************************************************************************)
LEMMA AnswerOfBusy ==
  ASSUME Busy, pc' = "done", up' \in BOOLEAN,
         NEW o, o = "Error" \/ (o \in {"Freed", "Escalated"} /\ ~up')
  PROVE  Coarse!evict_timed("unit", o)
  <1>1. reported = {"unit"}
    BY DEF reported
  <1>2. reported' = IF up' THEN {"unit"} ELSE {}
    BY DEF reported, Busy
  <1>3. reported \ {"unit"} = {}
    BY <1>1
  <1>4. reported' = reported \/ reported' = reported \ {"unit"}
    BY <1>1, <1>2, <1>3
  <1>5. ~up' => reported' = reported \ {"unit"}
    BY <1>2, <1>3
  <1>6. QED
    BY <1>1, <1>4, <1>5 DEF Coarse!evict_timed, Coarse!faults

(***************************************************************************)
(* units::evict_inner implements the one step by which Reconcile models    *)
(* it: success is only reported at a moment when the unit is stopped.      *)
(***************************************************************************)
THEOREM OneStepOfReconcile == Spec => EvictionIsOneStep
  <1> DEFINE OneStep ==
        \/ outcome' # outcome /\ Coarse!evict_timed("unit", outcome')
        \/ outcome' = outcome /\ (UNCHANGED reported \/ (~Busy /\ ~Busy'))
  <1>1. ASSUME IInv, Next PROVE OneStep
    <2>1. outcome \in Outcomes \cup {"none"} /\ (outcome # "none" <=> pc = "done")
          /\ up \in BOOLEAN
      BY <1>1 DEF IInv, TypeOK
    <2>2. up' \in BOOLEAN
      BY <1>1, InvariantKept DEF IInv, TypeOK
    <2>a. \A r \in is_running : r \in Readings /\ (r = "running" => up) /\ (r = "stopped" => ~up)
      BY <2>1, AnswerIsTrue
    <2>3. CASE FirstProbe
      BY <2>1, <2>3, <2>a DEF FirstProbe, reported, Busy, machine, Coarse!evict_timed,
         Coarse!faults
    <2>4. CASE Stop \/ ReadVram \/ Kill
      BY <2>1, <2>4 DEF Stop, ReadVram, Kill, reported, Busy
    <2>5. CASE StopFailed
      <3>1. CASE GoTo("kill_failed_stop")
        BY <2>5, <3>1 DEF StopFailed, reported, Busy
      <3>2. CASE Return("Error")
        BY <2>1, <2>2, <2>5, <3>2, AnswerOfBusy DEF StopFailed, Busy
      <3>3. QED
        BY <2>5, <3>1, <3>2 DEF StopFailed
    <2>6. CASE KillFailedStop
      BY <2>1, <2>2, <2>6, AnswerOfBusy DEF KillFailedStop, Busy
    <2>7. CASE Gate
      <3>1. CASE Return("Freed")
        <4>1. ~up'
          BY <2>1, <2>7, <2>a, <3>1 DEF Gate, poll_step, vram_open, machine
        <4>2. QED
          BY <2>1, <2>2, <2>7, <3>1, <4>1, AnswerOfBusy DEF Gate, Busy
      <3>2. CASE pc' \in {"recheck", "read"} /\ UNCHANGED outcome
        BY <2>7, <3>2 DEF Gate, reported, Busy
      <3>3. QED
        BY <2>7, <3>1, <3>2 DEF Gate
    <2>8. CASE Recheck
      <3>1. CASE Return("Freed") /\ ~up'
        BY <2>1, <2>2, <2>8, <3>1, AnswerOfBusy DEF Recheck, Busy
      <3>2. CASE GoTo("kill")
        BY <2>8, <3>2 DEF Recheck, reported, Busy
      <3>3. QED
        BY <2>8, <2>a, <3>1, <3>2 DEF Recheck, machine
    <2>9. CASE WaitUntilStopped
      <3>1. CASE Return("Escalated") /\ ~up'
        BY <2>1, <2>2, <2>9, <3>1, AnswerOfBusy DEF WaitUntilStopped, Busy
      <3>2. CASE Return("Error")
        BY <2>1, <2>2, <2>9, <3>2, AnswerOfBusy DEF WaitUntilStopped, Busy
      <3>3. CASE GoTo("settle")
        BY <2>9, <3>3 DEF WaitUntilStopped, reported, Busy
      <3>4. QED
        BY <2>9, <2>a, <3>1, <3>2, <3>3 DEF WaitUntilStopped, machine
    <2>10. CASE Tick \/ Environment
      BY <2>10 DEF Tick, Environment, UnitDown, UnitUp, UnitVram, OtherVram, locals,
                   machine, reported, Busy
    <2> HIDE DEF OneStep
    <2>11. QED
      BY <1>1, <2>3, <2>4, <2>5, <2>6, <2>7, <2>8, <2>9, <2>10 DEF Next, EvictStep
  <1>2. IInv /\ [Next]_vars => [OneStep]_vars
    BY <1>1
  <1>3. QED
    BY InvariantHolds, <1>2, PTL DEF Spec, EvictionIsOneStep

=============================================================================
