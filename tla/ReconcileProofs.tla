--------------------------- MODULE ReconcileProofs ---------------------------
(***************************************************************************)
(* Theorems about the reconcile task, for any set of units, any priorities *)
(* and any durations.                                                      *)
(*                                                                         *)
(* First the task itself.  The invariant that carries its theorems is      *)
(* IInv: TypeOK and the shape of a pass, that is, which state each point   *)
(* of the pass is reached in and which of its locals are empty there.      *)
(*                                                                         *)
(* Then what an observer of the task remembers: the GPU is freed for a     *)
(* game, the task implements GpuHandover, no start or resume meets a known *)
(* game, no owed resume is lost and `degraded' does not hide a failure.    *)
(*                                                                         *)
(* Last single passes: a pass leaves no unit it preempts running from its  *)
(* beginning to its end, and ends a game only when no observation of the   *)
(* grace saw one.                                                          *)
(***************************************************************************)
EXTENDS ReconcileHistory, TLAPS

-----------------------------------------------------------------------------
(***************************************************************************)
(* The operators.                                                          *)
(***************************************************************************)
\* next_invariant_backoff is a positive interval and never exceeds the cap.
LEMMA NextBackoffInRange ==
  ASSUME NEW prev \in 0..BackoffMax
  PROVE  next_invariant_backoff(prev) \in 1..BackoffMax
BY PolicyAssumption DEF PolicyAssumption, next_invariant_backoff

\* note_invariant_backoff keeps every entry in range.
LEMMA NoteBackoffType ==
  ASSUME TypeOK, NEW since \in 0..BackoffMax
  PROVE  note_invariant_backoff(since) \in
           [Units -> [left : 0..BackoffMax, step : 0..BackoffMax]]
<1> DEFINE next(u) == next_invariant_backoff(invariant_backoff[u].step)
<1>1. SUFFICES ASSUME NEW u \in Units
               PROVE  note_invariant_backoff(since)[u] \in
                        [left : 0..BackoffMax, step : 0..BackoffMax]
  BY <1>1, Zenon DEF note_invariant_backoff
<1>2. /\ invariant_backoff[u] \in [left : 0..BackoffMax, step : 0..BackoffMax]
      /\ BackoffMax \in Nat
  BY PolicyAssumption DEF TypeOK, PolicyAssumption
<1>3. next(u) \in 1..BackoffMax
  BY <1>2, NextBackoffInRange
<1>4. (IF since >= next(u) THEN 0 ELSE next(u) - since) \in 0..BackoffMax
  BY <1>2, <1>3
<1>5. note_invariant_backoff(since)[u] =
        IF results[u] = "none" THEN invariant_backoff[u]
        ELSE IF results[u] \in {"Freed", "AlreadyClear"} THEN [left |-> 0, step |-> 0]
        ELSE [left |-> IF since >= next(u) THEN 0 ELSE next(u) - since, step |-> next(u)]
  BY DEF note_invariant_backoff
<1> HIDE DEF next
<1> QED BY <1>2, <1>3, <1>4, <1>5

\* A batch backs off every unit it tried and did not stop cleanly.
LEMMA NoteBackoffStep ==
  ASSUME TypeOK, NEW since \in 0..BackoffMax, NEW u \in Units,
         results[u] \in {"Escalated", "Error"}
  PROVE  note_invariant_backoff(since)[u].step > 0
<1> DEFINE next == next_invariant_backoff(invariant_backoff[u].step)
<1>1. next \in 1..BackoffMax
  BY NextBackoffInRange DEF TypeOK
<1>2. note_invariant_backoff(since)[u].step = next
  BY DEF note_invariant_backoff
<1> HIDE DEF next
<1> QED BY <1>1, <1>2, PolicyAssumption DEF PolicyAssumption

\* debounce_game_exit answers a settled state, and ages stay within Grace.
LEMMA DebounceType ==
  ASSUME NEW current \in States, NEW age \in NoTime..Grace, NEW observed \in {"available", "gaming"}
  PROVE  LET d == debounce_game_exit(current, observed, age)
         IN  d.desired \in {"available", "gaming"} /\ d.pending \in NoTime..Grace
BY PolicyAssumption DEF PolicyAssumption, debounce_game_exit, NoTime, States

-----------------------------------------------------------------------------
(***************************************************************************)
(* Type correctness.                                                       *)
(***************************************************************************)
LEMMA TypeInit == Init => TypeOK
<1> SUFFICES ASSUME Init PROVE TypeOK
  OBVIOUS
<1> USE PolicyAssumption DEF PolicyAssumption
<1>1. NoBackoff \in [Units -> [left : 0..BackoffMax, step : 0..BackoffMax]]
  BY DEF NoBackoff
<1>2. NoResults \in [Units -> Outcomes \cup {"none"}]
  BY DEF NoResults
<1>3. Unprobed \in [Units -> Readings \cup {"unprobed"}]
  BY DEF Unprobed
<1>4. pending \in NoTime..Grace /\ elapsed \in 0..BackoffMax
  BY DEF Init, NoTime
<1> QED BY <1>1, <1>2, <1>3, <1>4 DEF Init, TypeOK, Gates, States, Points, Replies, Reasons

LEMMA NoResultsType == NoResults \in [Units -> Outcomes \cup {"none"}]
BY DEF NoResults

LEMMA UnprobedType == Unprobed \in [Units -> Readings \cup {"unprobed"}]
BY DEF Unprobed

\* Returning leaves well-typed, empty locals.
LEMMA ReturnType ==
  ASSUME TypeOK, Return, UNCHANGED <<machine, arbiter>>
  PROVE  TypeOK'
<1>1. elapsed' \in 0..BackoffMax
  BY PolicyAssumption DEF PolicyAssumption, Return
<1> QED
  BY <1>1, NoResultsType, UnprobedType
     DEF TypeOK, Gates, Return, machine, arbiter, Points, Replies, Reasons, States

\* Ages and remaining times saturate within their ranges.
LEMMA TickType ==
  ASSUME TypeOK, Tick
  PROVE  TypeOK'
<1> DEFINE left(u) == IF invariant_backoff[u].left > 0 THEN invariant_backoff[u].left - 1 ELSE 0
<1>1. Grace \in Nat /\ BackoffMax \in Nat
  BY PolicyAssumption DEF PolicyAssumption
<1>2. pending' \in NoTime..Grace
  <2>1. pending' = IF pending \in 0..Grace - 1 THEN pending + 1 ELSE pending
    BY DEF Tick
  <2>2. pending \in NoTime..Grace
    BY DEF TypeOK
  <2> QED BY <1>1, <2>1, <2>2 DEF NoTime
<1>3. elapsed' \in 0..BackoffMax
  <2>1. elapsed' = elapsed \/ (elapsed < BackoffMax /\ elapsed' = elapsed + 1)
    BY DEF Tick
  <2>2. elapsed \in 0..BackoffMax
    BY DEF TypeOK
  <2> QED BY <1>1, <2>1, <2>2
<1>4. \A u \in Units : left(u) \in 0..BackoffMax /\ invariant_backoff[u].step \in 0..BackoffMax
  BY <1>1 DEF TypeOK
<1>5. invariant_backoff' = [u \in Units |-> [left |-> left(u), step |-> invariant_backoff[u].step]]
  BY Zenon DEF Tick
<1> HIDE DEF left
<1>6. invariant_backoff' \in [Units -> [left : 0..BackoffMax, step : 0..BackoffMax]]
  BY <1>4, <1>5
<1> QED
  BY <1>2, <1>3, <1>6 DEF TypeOK, Gates, Tick, machine, trigger

LEMMA TypeStep ==
  ASSUME TypeOK, [Next]_vars
  PROVE  TypeOK'
<1> USE DEF TypeOK, Gates, machine, arbiter, trigger, scratch
<1>0. CASE UNCHANGED vars
  BY <1>0 DEF vars
<1>1. CASE BeginPass
  BY <1>1 DEF BeginPass, Points
<1>2. CASE \E u \in Units : BeginManualStart(u)
  BY <1>2, PolicyAssumption DEF PolicyAssumption, BeginManualStart, Points, Replies
<1>3. CASE \E u \in Units : BeginManualStop(u)
  BY <1>3 DEF BeginManualStop, Points, Reasons
<1>4. CASE \E u \in Units : ProbeBusy(u)
  BY <1>4 DEF ProbeBusy, IsNext, is_running, readings, Readings
<1>5. CASE GateTenant
  BY <1>5 DEF GateTenant, Points, Replies
<1>6. CASE GateScan
  BY <1>6 DEF GateScan, Points, Replies
<1>7. CASE ManualProbe
  BY <1>7 DEF ManualProbe, Points, Replies
<1>8. CASE ManualStart
  BY <1>8 DEF ManualStart, start, Points, Replies
<1>9. CASE ObserveFails
  BY <1>9, ReturnType DEF ObserveFails
<1>10. CASE Observe
  <2>1. resolve_state(game) \in {"available", "gaming"}
    BY DEF resolve_state
  <2>2. desired' \in {"available", "gaming"} /\ pending' \in NoTime..Grace
    BY <1>10, <2>1, DebounceType DEF Observe
  <2> QED
    BY <1>10, <2>2, PolicyAssumption DEF PolicyAssumption, Observe, Points, Replies, States
<1>11. CASE DecideEvict
  BY <1>11 DEF DecideEvict, preempted_units, Points, Reasons, States
<1>12. CASE DecideSettle
  <2>1. invariant_backoff' \in [Units -> [left : 0..BackoffMax, step : 0..BackoffMax]]
    <3>1. NoBackoff \in [Units -> [left : 0..BackoffMax, step : 0..BackoffMax]]
      BY PolicyAssumption DEF PolicyAssumption, NoBackoff
    <3> QED BY <1>12, <3>1 DEF DecideSettle
  <2>2. preempted' \subseteq Units
    BY <1>12 DEF DecideSettle, preempted_units
  <2>3. degraded' \in BOOLEAN /\ reason' \in Reasons /\ todo' \subseteq Units
    BY <1>12, <2>2 DEF DecideSettle, Reasons
  <2> QED
    BY <1>12, <2>1, <2>2, <2>3 DEF DecideSettle, Points
<1>13. CASE \E u \in Units : Check(u)
  BY <1>13 DEF Check, IsNext
<1>14. CASE CheckDone
  BY <1>14, UnprobedType DEF CheckDone, Points
<1>15. CASE \E u \in Units : EvictOne(u)
  BY <1>15 DEF EvictOne, evict_timed, IsNext
<1>16. CASE ManualStopDone
  BY <1>16, NoResultsType DEF ManualStopDone, Points, Replies, Reasons
<1>17. CASE EvictDone
  <2>1. 0 \in 0..BackoffMax
    BY PolicyAssumption DEF PolicyAssumption
  <2>2. invariant_backoff' \in [Units -> [left : 0..BackoffMax, step : 0..BackoffMax]]
    BY <1>17, <2>1, NoteBackoffType DEF EvictDone
  <2> QED
    BY <1>17, <2>2, NoResultsType DEF EvictDone, EvictionFailed, Points, States
<1>18. CASE InvariantDone
  <2>1. invariant_backoff' \in [Units -> [left : 0..BackoffMax, step : 0..BackoffMax]]
    BY <1>18, NoteBackoffType DEF InvariantDone
  <2> QED
    BY <1>18, <2>1, NoResultsType DEF InvariantDone, EvictionFailed, Points
<1>19. CASE PreemptDone
  BY <1>19, NoResultsType DEF PreemptDone, ensure_running_targets, resume_targets, Points
<1>20. CASE \E u \in Units : Candidate(u)
  BY <1>20 DEF Candidate, IsNext
<1>21. CASE CandidatesDone
  BY <1>21 DEF CandidatesDone, Points
<1>22. CASE StartScan
  BY <1>22 DEF StartScan, Points
<1>23. CASE StartScanFails
  BY <1>23, ReturnType DEF StartScanFails
<1>24. CASE \E u \in Units : Start(u)
  BY <1>24 DEF Start, start, IsNext, Points
<1>25. CASE StartsDone
  BY <1>25 DEF StartsDone, resume_targets, Points
<1>26. CASE \E u \in Units : ResumeProbe(u)
  BY <1>26 DEF ResumeProbe, IsNext, Points
<1>27. CASE ResumeScan
  BY <1>27 DEF ResumeScan, Points
<1>28. CASE \E u \in Units : Resume(u)
  BY <1>28 DEF Resume, IsNext, Points
<1>29. CASE ResumesDone
  BY <1>29 DEF ResumesDone, Points
<1>30. CASE Refresh
  BY <1>30, ReturnType DEF Refresh
<1>31. CASE GameLaunch \/ GameExit \/ Heal
  BY <1>31 DEF GameLaunch, GameExit, Heal
<1>32. CASE \E u \in Units : UnitUp(u) \/ UnitDown(u)
  BY <1>32 DEF UnitUp, UnitDown
<1>33. CASE Tick
  BY <1>33, TickType
<1>34. CASE Crash
  <2>1. NoBackoff \in [Units -> [left : 0..BackoffMax, step : 0..BackoffMax]]
    BY PolicyAssumption DEF PolicyAssumption, NoBackoff
  <2>2. pending' \in NoTime..Grace /\ elapsed' \in 0..BackoffMax
    BY <1>34, PolicyAssumption DEF PolicyAssumption, Crash, NoTime
  <2> QED
    BY <1>34, <2>1, <2>2, NoResultsType, UnprobedType DEF Crash, Points, States, Replies, Reasons
<1> QED
  BY <1>0, <1>1, <1>2, <1>3, <1>4, <1>5, <1>6, <1>7, <1>8, <1>9, <1>10, <1>11, <1>12, <1>13,
     <1>14, <1>15, <1>16, <1>17, <1>18, <1>19, <1>20, <1>21, <1>22, <1>23, <1>24, <1>25, <1>26,
     <1>27, <1>28, <1>29, <1>30, <1>31, <1>32, <1>33, <1>34, Zenon
     DEF Next, PassStep, ManualGate, Decision, Eviction, Restore, Environment

\* Every variable keeps its type, for any units, priorities and durations.
THEOREM TypeCorrect == Spec => []TypeOK
<1> QED BY TypeInit, TypeStep, PTL DEF Spec


-----------------------------------------------------------------------------
(***************************************************************************)
(* The shape of a pass.  TypeOK says nothing of the order in which a pass  *)
(* visits its points; every property below needs some of it: which state   *)
(* is published at a point, which locals are still empty there, and which  *)
(* units the restoring loops may visit.                                    *)
(***************************************************************************)
Restoring == {"candidates", "start_scan", "start", "resume_probe", "resume_scan", "resume"}

\* What the state is at each point.
StateShape ==
  /\ state = "evicting" <=> (pc = "evict" /\ reason = "game")
  /\ pc \in Gates \cup Restoring => state = "available"
  /\ pc = "probe" => desired # "evicting"
  /\ pc = "check" => reason \in {"gaming invariant", "tenant preemption"}
  /\ pc \in {"check", "evict"} /\ reason = "gaming invariant" => state = "gaming"
  /\ pc \in {"check", "evict"} /\ reason = "tenant preemption" => state = "available"

\* Which locals are empty at each point.
LocalsShape ==
  /\ pc # "evict" => results = NoResults
  /\ pc \notin {"gate_probe", "probe", "check", "candidates"} => picked = {}
  /\ pc \notin (Restoring \cup {"refresh"}) \ {"candidates"} => started = {}

\* What the restoring loops may visit.
TargetsShape ==
  /\ pc \in {"candidates", "start_scan", "start"} =>
       (todo \cup picked \cup started) \cap (preempted \cup held) = {}
  /\ pc \in {"resume_probe", "resume_scan", "resume"} =>
       todo \subseteq needs_resume /\ todo \cap (preempted \cup held) = {}

PassShape == StateShape /\ LocalsShape /\ TargetsShape

IInv == TypeOK /\ PassShape

LEMMA ShapeInit == Init => PassShape
BY DEF Init, PassShape, StateShape, LocalsShape, TargetsShape, Restoring, Gates

LEMMA ShapeStep ==
  ASSUME IInv, [Next]_vars
  PROVE  PassShape'
<1> USE DEF IInv, PassShape, StateShape, LocalsShape, TargetsShape, Restoring, Gates,
            machine, arbiter, trigger, scratch
<1>0. CASE UNCHANGED vars
  BY <1>0 DEF vars
<1>1. CASE BeginPass
  BY <1>1 DEF BeginPass
<1>2. CASE \E u \in Units : BeginManualStart(u)
  BY <1>2 DEF BeginManualStart
<1>3. CASE \E u \in Units : BeginManualStop(u)
  BY <1>3 DEF BeginManualStop
<1>4. CASE \E u \in Units : ProbeBusy(u)
  BY <1>4 DEF ProbeBusy
<1>5. CASE GateTenant
  BY <1>5 DEF GateTenant
<1>6. CASE GateScan
  BY <1>6 DEF GateScan
<1>7. CASE ManualProbe
  BY <1>7 DEF ManualProbe
<1>8. CASE ManualStart
  BY <1>8 DEF ManualStart
<1>9. CASE ObserveFails
  BY <1>9 DEF ObserveFails, Return
<1>10. CASE Observe
  <2>1. desired' # "evicting"
    <3>1. resolve_state(game) \in {"available", "gaming"}
      BY DEF resolve_state
    <3> QED BY <1>10, <3>1, DebounceType DEF Observe, TypeOK
  <2> QED BY <1>10, <2>1 DEF Observe
<1>11. CASE DecideEvict
  BY <1>11 DEF DecideEvict
<1>12. CASE DecideSettle
  BY <1>12 DEF DecideSettle, TypeOK, States
<1>13. CASE \E u \in Units : Check(u)
  BY <1>13 DEF Check
<1>14. CASE CheckDone
  BY <1>14 DEF CheckDone
<1>15. CASE \E u \in Units : EvictOne(u)
  BY <1>15 DEF EvictOne
<1>16. CASE ManualStopDone
  BY <1>16 DEF ManualStopDone
<1>17. CASE EvictDone
  BY <1>17 DEF EvictDone
<1>18. CASE InvariantDone
  BY <1>18 DEF InvariantDone
<1>19. CASE PreemptDone
  BY <1>19 DEF PreemptDone, ensure_running_targets, resume_targets
<1>20. CASE \E u \in Units : Candidate(u)
  BY <1>20 DEF Candidate, IsNext
<1>21. CASE CandidatesDone
  BY <1>21 DEF CandidatesDone
<1>22. CASE StartScan
  BY <1>22 DEF StartScan
<1>23. CASE StartScanFails
  BY <1>23 DEF StartScanFails, Return
<1>24. CASE \E u \in Units : Start(u)
  BY <1>24 DEF Start, IsNext
<1>25. CASE StartsDone
  BY <1>25 DEF StartsDone, resume_targets
<1>26. CASE \E u \in Units : ResumeProbe(u)
  BY <1>26 DEF ResumeProbe
<1>27. CASE ResumeScan
  BY <1>27 DEF ResumeScan
<1>28. CASE \E u \in Units : Resume(u)
  BY <1>28 DEF Resume, IsNext
<1>29. CASE ResumesDone
  BY <1>29 DEF ResumesDone
<1>30. CASE Refresh
  BY <1>30 DEF Refresh, Return
<1>31. CASE GameLaunch \/ GameExit \/ Heal
  BY <1>31 DEF GameLaunch, GameExit, Heal
<1>32. CASE \E u \in Units : UnitUp(u) \/ UnitDown(u)
  BY <1>32 DEF UnitUp, UnitDown
<1>33. CASE Tick
  BY <1>33 DEF Tick
<1>34. CASE Crash
  BY <1>34 DEF Crash
<1> QED
  BY <1>0, <1>1, <1>2, <1>3, <1>4, <1>5, <1>6, <1>7, <1>8, <1>9, <1>10, <1>11, <1>12, <1>13,
     <1>14, <1>15, <1>16, <1>17, <1>18, <1>19, <1>20, <1>21, <1>22, <1>23, <1>24, <1>25, <1>26,
     <1>27, <1>28, <1>29, <1>30, <1>31, <1>32, <1>33, <1>34, Zenon
     DEF Next, PassStep, ManualGate, Decision, Eviction, Restore, Environment

LEMMA InvariantHolds == Spec => []IInv
<1>1. Init => IInv
  BY TypeInit, ShapeInit DEF IInv
<1>2. IInv /\ [Next]_vars => IInv'
  BY TypeStep, ShapeStep DEF IInv
<1> QED BY <1>1, <1>2, PTL DEF Spec

\* `evicting' is published only while the batch of the edge is being stopped.
THEOREM EvictingTransient == Spec => []EvictingIsTransient
<1>1. IInv => EvictingIsTransient
  BY DEF IInv, PassShape, StateShape, EvictingIsTransient
<1> QED BY <1>1, InvariantHolds, PTL

\* No pass starts a unit it preempts, or one an operator holds.
THEOREM NoFight == Spec => []NoFightWithItself
<1>1. IInv => NoFightWithItself
  BY DEF IInv, PassShape, TargetsShape, NoFightWithItself
<1> QED BY <1>1, InvariantHolds, PTL


(***************************************************************************)
(* A held unit is brought up only at the operator's request for it, and    *)
(* its hold is lifted only when it is up: only a manual start that ends    *)
(* with the unit up lifts it, and the starts of a pass avoid held units    *)
(* (TargetsShape).                                                         *)
(***************************************************************************)
LEMMA HoldStep ==
  ASSUME IInv, [Next]_vars
  PROVE  HoldKept \/ UNCHANGED vars
<1> USE DEF HoldKept, machine, arbiter
<1>1. CASE ManualProbe
  BY <1>1 DEF ManualProbe, is_running, readings
<1>2. CASE ManualStart
  BY <1>2 DEF ManualStart, start, readings
<1>3. CASE \E u \in Units : Start(u)
  BY <1>3 DEF Start, start, IsNext, IInv, PassShape, TargetsShape
<1>4. CASE \E u \in Units : UnitUp(u) \/ UnitDown(u)
  BY <1>4 DEF UnitUp, UnitDown
<1>5. CASE Crash
  BY <1>5 DEF Crash
<1>6. CASE \E u \in Units : EvictOne(u)
  BY <1>6 DEF EvictOne, evict_timed
<1>7. CASE \E u \in Units : BeginManualStart(u) \/ BeginManualStop(u)
  BY <1>7 DEF BeginManualStart, BeginManualStop
<1>8. CASE GateTenant \/ GateScan
  BY <1>8 DEF GateTenant, GateScan
<1>9. CASE \/ BeginPass \/ ObserveFails \/ Observe \/ DecideEvict \/ DecideSettle \/ CheckDone
           \/ \E u \in Units : ProbeBusy(u) \/ Check(u)
  BY <1>9 DEF BeginPass, ObserveFails, Observe, DecideEvict, DecideSettle, CheckDone, ProbeBusy,
              Check
<1>10. CASE ManualStopDone \/ EvictDone \/ InvariantDone \/ PreemptDone
  BY <1>10 DEF ManualStopDone, EvictDone, InvariantDone, PreemptDone
<1>11. CASE \/ CandidatesDone \/ StartScan \/ StartScanFails \/ StartsDone \/ ResumeScan
            \/ ResumesDone \/ Refresh
            \/ \E u \in Units : Candidate(u) \/ ResumeProbe(u) \/ Resume(u)
  BY <1>11 DEF CandidatesDone, StartScan, StartScanFails, StartsDone, ResumeScan, ResumesDone,
               Refresh, Candidate, ResumeProbe, Resume
<1>12. CASE GameLaunch \/ GameExit \/ Tick \/ Heal
  BY <1>12 DEF GameLaunch, GameExit, Tick, Heal
<1> QED
  BY <1>1, <1>2, <1>3, <1>4, <1>5, <1>6, <1>7, <1>8, <1>9, <1>10, <1>11, <1>12, Zenon
     DEF Next, PassStep, ManualGate, Decision, Eviction, Restore, Environment

THEOREM HoldsAreRespected == Spec => HoldRespected
<1>1. IInv /\ [Next]_vars => [HoldKept]_vars
  BY HoldStep
<1> QED BY <1>1, InvariantHolds, PTL DEF Spec, HoldRespected

-----------------------------------------------------------------------------
(***************************************************************************)
(* Which actions move a variable.  These facts stand for a case split over *)
(* the thirty-odd actions in each of the proofs below.                     *)
(***************************************************************************)
\* The actions that settle the state or the accounts of a batch.
Settling == DecideSettle \/ EvictDone \/ InvariantDone \/ Crash

Moves ==
  /\ state' = state \/ DecideEvict \/ DecideSettle \/ EvictDone \/ Crash
  /\ up' \subseteq up \/ pc' = pc \/ (state = "available" /\ state' = "available")
  /\ results' \in {results, NoResults} \/ \E u \in Units : EvictOne(u)
  /\ pc = "evict" /\ pc' = "evict" => UNCHANGED <<todo, results>> \/ \E u \in Units : EvictOne(u)
  /\ Settling \/ \A u \in Units : invariant_backoff'[u].step = invariant_backoff[u].step
  /\ Settling \/ degraded' = degraded
  /\ pc = "evict" /\ pc' = "refresh" => EvictDone \/ InvariantDone
  /\ needs_resume \subseteq needs_resume' \/ \E u \in Units : Resume(u)
  /\ held' \subseteq held \/ \E u \in Units : BeginManualStop(u)

\* Time runs the backoffs down and leaves their steps alone.
LEMMA TickKeepsSteps ==
  ASSUME Tick, NEW u \in Units
  PROVE  invariant_backoff'[u].step = invariant_backoff[u].step
<1> DEFINE left == IF invariant_backoff[u].left > 0 THEN invariant_backoff[u].left - 1 ELSE 0
<1>1. invariant_backoff'[u] = [left |-> left, step |-> invariant_backoff[u].step]
  BY Zenon DEF Tick
<1> HIDE DEF left
<1> QED BY <1>1

LEMMA WhoMoves ==
  ASSUME IInv, Next
  PROVE  Moves
<1> USE DEF Next, PassStep, ManualGate, Decision, Eviction, Restore, Environment, machine, arbiter,
      scratch, Return, BeginPass, BeginManualStart, BeginManualStop, ProbeBusy, GateTenant,
      GateScan, ManualProbe, ManualStart, ObserveFails, Observe, Check, CheckDone, EvictOne,
      ManualStopDone, PreemptDone, Candidate, CandidatesDone, StartScan, StartScanFails, Start,
      StartsDone, ResumeProbe, ResumeScan, ResumesDone, Refresh, GameLaunch, GameExit, Heal, UnitUp,
      UnitDown, Settling
<1>1. state' = state \/ DecideEvict \/ DecideSettle \/ EvictDone \/ Crash
  BY DEF InvariantDone, Resume, Tick
<1>2. up' \subseteq up \/ pc' = pc \/ (state = "available" /\ state' = "available")
  BY DEF IInv, PassShape, StateShape, Gates, Restoring, start, evict_timed, DecideEvict,
         DecideSettle, EvictDone, InvariantDone, Resume, Tick, Crash
<1>3. results' \in {results, NoResults} \/ \E u \in Units : EvictOne(u)
  BY DEF DecideEvict, DecideSettle, EvictDone, InvariantDone, Resume, Tick, Crash
<1>4. pc = "evict" /\ pc' = "evict" => UNCHANGED <<todo, results>> \/ \E u \in Units : EvictOne(u)
  BY DEF trigger, DecideEvict, DecideSettle, EvictDone, InvariantDone, Resume,
         Tick, Crash
<1>5. Settling \/ \A u \in Units : invariant_backoff'[u].step = invariant_backoff[u].step
  <2>1. Settling \/ Tick \/ invariant_backoff' = invariant_backoff
    BY DEF DecideEvict, Resume
  <2>2. Tick => \A u \in Units : invariant_backoff'[u].step = invariant_backoff[u].step
    BY TickKeepsSteps
  <2> QED BY <2>1, <2>2, Zenon
<1>6. Settling \/ degraded' = degraded
  BY DEF DecideEvict, Resume, Tick
<1>7. pc = "evict" /\ pc' = "refresh" => EvictDone \/ InvariantDone
  BY DEF DecideEvict, DecideSettle, Resume, Tick, Crash
<1>8. needs_resume \subseteq needs_resume' \/ \E u \in Units : Resume(u)
  BY DEF DecideEvict, DecideSettle, EvictDone, InvariantDone, Tick, Crash, IInv, TypeOK
<1>9. held' \subseteq held \/ \E u \in Units : BeginManualStop(u)
  BY DEF DecideEvict, DecideSettle, EvictDone, InvariantDone, Resume, Tick, Crash
<1> QED BY <1>1, <1>2, <1>3, <1>4, <1>5, <1>6, <1>7, <1>8, <1>9 DEF Moves


\* History variables restrict nothing: what holds of Spec holds of HSpec.
LEMMA HistoryRefines == HSpec => Spec
<1>1. HInit => Init
  BY DEF HInit
<1>2. [HNext]_hvars => [Next]_vars
  BY DEF HNext, hvars
<1> QED BY <1>1, <1>2, PTL DEF HSpec, Spec

-----------------------------------------------------------------------------
(***************************************************************************)
(* Types.  What is said to have come back, or to have been up throughout,  *)
(* is up: a pass is opened by steps that leave the units alone.            *)
(***************************************************************************)
LEMMA OpeningLeavesUnits ==
  ASSUME Next, pc \in AtRest, pc' \notin AtRest
  PROVE  up' = up
<1> QED
  BY DEF AtRest, Next, PassStep, ManualGate, Decision, Eviction, Restore, Environment, machine,
      arbiter, scratch, Return, BeginPass, BeginManualStart, BeginManualStop, ProbeBusy,
      GateTenant, GateScan, ManualProbe, ManualStart, ObserveFails, Observe, Check, CheckDone,
      EvictOne, ManualStopDone, PreemptDone, Candidate, CandidatesDone, StartScan,
      StartScanFails, Start, StartsDone, ResumeProbe, ResumeScan, ResumesDone, Refresh,
      GameLaunch, GameExit, Heal, UnitUp, UnitDown, DecideEvict, DecideSettle, EvictDone,
      InvariantDone, Resume, Tick, Crash

LEMMA HistoryTypesStep ==
  ASSUME HTypeOK, TypeOK', HNext
  PROVE  HTypeOK'
<1>1. came_back' \subseteq up'
  BY DEF HNext, Remember, RecordCameBack
<1>2. tenured' \subseteq up'
  <2>1. CASE pc \in AtRest /\ pc' \notin AtRest
    BY <2>1, OpeningLeavesUnits DEF HNext, Remember, RecordTenured
  <2>2. CASE ~(pc \in AtRest /\ pc' \notin AtRest)
    BY <2>2 DEF HNext, Remember, RecordTenured
  <2> QED BY <2>1, <2>2
<1>3. fresh' \in BOOLEAN
  BY Zenon DEF HNext, Remember, RecordFresh
<1>4. quiet' \in 0..Grace
  <2>1. quiet' = 0 \/ quiet' = quiet \/ (quiet < Grace /\ quiet' = quiet + 1)
    BY DEF HNext, Remember, RecordQuiet
  <2> QED BY <2>1, PolicyAssumption DEF HTypeOK
<1>5. unrepaired' \subseteq Units
  BY DEF HNext, Remember, RecordUnrepaired, HTypeOK
<1>6. parked' \subseteq Units
  BY DEF HNext, Remember, RecordParked, HTypeOK
<1> QED BY <1>1, <1>2, <1>3, <1>4, <1>5, <1>6 DEF HTypeOK

\* The variables of the task and of its observer keep their types.
THEOREM HistoryTypes == HSpec => []HTypeOK
<1>1. HInit /\ TypeOK => HTypeOK
  BY PolicyAssumption DEF HInit, HTypeOK, Init, TypeOK
<1>2. HTypeOK /\ TypeOK' /\ [HNext]_hvars => HTypeOK'
  <2> SUFFICES ASSUME HTypeOK, TypeOK', [HNext]_hvars PROVE HTypeOK'
    OBVIOUS
  <2>1. CASE UNCHANGED hvars
    BY <2>1 DEF hvars, vars, machine, HTypeOK
  <2> QED BY <2>1, HistoryTypesStep
<1> QED BY <1>1, <1>2, HistoryRefines, TypeCorrect, PTL DEF HSpec

-----------------------------------------------------------------------------
(***************************************************************************)
(* Freed for the game.  FreedForGame speaks of `gaming' alone; it is made  *)
(* true while `evicting', one unit at a time, and kept by the batches of   *)
(* the gaming invariant, which forgive a unit only when it was found or    *)
(* left stopped.                                                           *)
(***************************************************************************)
FreedShape ==
  /\ FreedForGame
  /\ state = "evicting" =>
       \A u \in up \cap BelowGame : u \in todo \/ u \in came_back \/ results[u] = "Error"
  /\ state # "available" =>
       \A u \in up : results[u] \in {"AlreadyClear", "Freed"} => u \in came_back
  /\ state # "gaming" => \A u \in Units : invariant_backoff[u].step = 0

\* The batch of the edge covers every unit a game displaces.
LEMMA EdgeCoversBelowGame ==
  ASSUME DecideEvict
  PROVE  desired = "gaming" /\ BelowGame \subseteq todo'
<1>1. desired = "gaming"
  BY Zenon DEF DecideEvict, unit_action
<1>2. BelowGame \subseteq preempted_units(Demand)
  BY <1>1 DEF BelowGame, preempted_units, Demand, effective_demand
<1> QED BY <1>1, <1>2 DEF DecideEvict

\* A unit that is up after an eviction that did not fail came back.
LEMMA EvictOneFrees ==
  ASSUME IInv, NEW u \in Units, EvictOne(u)
  PROVE  /\ up' \subseteq up
         /\ todo' = todo \ {u}
         /\ \A v \in Units : v # u => results'[v] = results[v]
         /\ u \notin up' \/ results'[u] = "Error"
BY DEF IInv, TypeOK, EvictOne, evict_timed, Outcomes


\* From the announcement on, a unit that is up and did not come back was up before.
LEMMA NoNewTenant ==
  ASSUME IInv, HNext, state' # "available", NEW u \in up', u \notin came_back'
  PROVE  u \in up /\ u \notin came_back
<1>1. came_back' = (came_back \cap up') \cup {v \in up' \ up : pc' = pc}
  BY DEF HNext, Remember, RecordCameBack
<1>2. up' \subseteq up \/ pc' = pc
  BY WhoMoves DEF HNext, Moves
<1> QED BY <1>1, <1>2

\* The state leaves `gaming' and reaches it in one place each.
LEMMA StateSteps ==
  ASSUME IInv, Next
  PROVE  /\ state' = "gaming" => state = "gaming" \/ EvictDone
         /\ state' = "evicting" => state = "evicting" \/ DecideEvict
         /\ DecideEvict => state = "available" /\ state' = "evicting"
         /\ EvictDone => state = "evicting" /\ state' = "gaming"
         /\ DecideSettle => state' = "available" \/ (state = "gaming" /\ state' = "gaming")
<1>1. DecideEvict => state = "available" /\ state' = "evicting"
  BY Zenon DEF DecideEvict, unit_action
<1>2. EvictDone => state = "evicting" /\ state' = "gaming"
  BY DEF EvictDone, IInv, PassShape, StateShape
<1>3. ASSUME DecideSettle, state' # "available"
      PROVE  state = "gaming" /\ state' = "gaming"
  <2>1. pc = "probe" /\ state' = desired /\ unit_action(state, desired) # "Evict"
    BY <1>3 DEF DecideSettle
  <2>2. desired = "gaming" /\ state \in {"available", "gaming"}
    BY <1>3, <2>1 DEF IInv, TypeOK, States, PassShape, StateShape
  <2>3. state # "available"
    BY <2>1, <2>2, Zenon DEF unit_action
  <2> QED BY <2>1, <2>2, <2>3
<1>4. Crash => state' = "available"
  BY DEF Crash
<1>5. state' = state \/ DecideEvict \/ DecideSettle \/ EvictDone \/ Crash
  BY WhoMoves DEF Moves
<1> QED BY <1>1, <1>2, <1>3, <1>4, <1>5

LEMMA FreedInit == HInit => FreedShape
BY DEF HInit, Init, FreedShape, FreedForGame, NoBackoff

LEMMA FreedStep ==
  ASSUME IInv, IInv', FreedShape, HNext
  PROVE  FreedShape'
<1>0. Next /\ Moves
  BY WhoMoves DEF HNext
<1>1. FreedForGame'
  <2> SUFFICES ASSUME state' = "gaming", NEW u \in up', u \in BelowGame, u \notin came_back'
               PROVE  invariant_backoff'[u].step > 0
    BY DEF FreedForGame
  <2>1. u \in Units /\ u \in up /\ u \notin came_back
    BY NoNewTenant DEF BelowGame, preempted_units
  <2>2. CASE EvictDone
    <3>1. results[u] = "Error"
      BY <1>0, <2>1, <2>2, StateSteps DEF EvictDone, FreedShape
    <3>2. 0 \in 0..BackoffMax
      BY PolicyAssumption DEF PolicyAssumption
    <3> QED BY <2>1, <2>2, <3>1, <3>2, NoteBackoffStep DEF EvictDone, IInv
  <2>3. CASE state = "gaming"
    <3>1. invariant_backoff[u].step > 0
      BY <2>1, <2>3 DEF FreedShape, FreedForGame
    <3>2. CASE InvariantDone
      <4>1. results[u] \notin {"AlreadyClear", "Freed"}
        BY <2>1, <2>3 DEF FreedShape
      <4>2. CASE results[u] = "none"
        BY <2>1, <3>1, <3>2, <4>2, Zenon DEF InvariantDone, note_invariant_backoff
      <4>3. CASE results[u] \in {"Escalated", "Error"}
        BY <2>1, <3>2, <4>3, NoteBackoffStep DEF InvariantDone, IInv, TypeOK
      <4> QED BY <2>1, <4>1, <4>2, <4>3 DEF IInv, TypeOK, Outcomes
    <3>3. CASE DecideSettle
      BY <3>1, <3>3 DEF DecideSettle
    <3>4. ~EvictDone /\ ~Crash
      BY <1>0, <2>3, StateSteps DEF Crash
    <3> QED BY <1>0, <2>1, <3>1, <3>2, <3>3, <3>4 DEF Moves, Settling
  <2> QED BY <1>0, <2>2, <2>3, StateSteps
<1>2. ASSUME state' = "evicting", NEW u \in up', u \in BelowGame, u \notin came_back'
      PROVE  u \in todo' \/ results'[u] = "Error"
  <2>1. u \in Units /\ u \in up /\ u \notin came_back
    BY <1>2, NoNewTenant DEF BelowGame, preempted_units
  <2>2. CASE DecideEvict
    BY <1>2, <2>2, EdgeCoversBelowGame
  <2>3. CASE state = "evicting"
    <3>1. u \in todo \/ results[u] = "Error"
      BY <1>2, <2>1, <2>3 DEF FreedShape
    <3>2. CASE \E v \in Units : EvictOne(v)
      BY <1>2, <2>1, <3>1, <3>2, EvictOneFrees
    <3>3. pc = "evict" /\ pc' = "evict"
      BY <1>2, <2>3 DEF IInv, PassShape, StateShape
    <3> QED BY <1>0, <3>1, <3>2, <3>3 DEF Moves
  <2> QED BY <1>0, <1>2, <2>2, <2>3, StateSteps
<1>3. ASSUME state' # "available", NEW u \in up', results'[u] \in {"AlreadyClear", "Freed"},
             u \notin came_back'
      PROVE  FALSE
  <2>1. u \in Units /\ u \in up /\ u \notin came_back
    BY <1>3, NoNewTenant DEF IInv, TypeOK
  <2>2. results[u] \notin {"AlreadyClear", "Freed"}
    <3>1. CASE state # "available"
      BY <2>1, <3>1 DEF FreedShape
    <3>2. CASE state = "available"
      <4>1. DecideEvict
        BY <1>0, <1>3, <3>2, StateSteps DEF IInv, TypeOK, States
      <4>2. results = NoResults
        BY <4>1 DEF DecideEvict, IInv, PassShape, LocalsShape
      <4> QED BY <2>1, <4>2 DEF NoResults
    <3> QED BY <3>1, <3>2
  <2>3. CASE \E v \in Units : EvictOne(v)
    BY <1>3, <2>1, <2>2, <2>3, EvictOneFrees
  <2>4. NoResults[u] = "none"
    BY <2>1 DEF NoResults
  <2> QED BY <1>0, <1>3, <2>2, <2>3, <2>4 DEF Moves
<1>4. ASSUME state' # "gaming", NEW u \in Units
      PROVE  invariant_backoff'[u].step = 0
  <2>1. NoBackoff[u].step = 0
    BY DEF NoBackoff
  <2>2. CASE state = "gaming"
    BY <1>0, <1>4, <2>1, <2>2, StateSteps DEF Moves, DecideSettle, Crash, IInv, TypeOK, States,
       PassShape, StateShape
  <2>3. CASE state # "gaming"
    <3>1. invariant_backoff[u].step = 0
      BY <2>3 DEF FreedShape
    <3>2. CASE DecideSettle \/ Crash
      BY <1>0, <2>1, <3>1, <3>2 DEF DecideSettle, Crash
    <3>3. ~EvictDone /\ ~InvariantDone
      BY <1>0, <1>4, <2>3, StateSteps DEF InvariantDone, IInv, PassShape, StateShape
    <3> QED BY <1>0, <3>1, <3>2, <3>3 DEF Moves, Settling
  <2> QED BY <2>2, <2>3
<1> QED BY <1>1, <1>2, <1>3, <1>4 DEF FreedShape


LEMMA HistoryInvariant == HSpec => []IInv
BY HistoryRefines, InvariantHolds, PTL

LEMMA FreedInvariant == HSpec => []FreedShape
<1>1. FreedShape /\ IInv /\ IInv' /\ [HNext]_hvars => FreedShape'
  <2> SUFFICES ASSUME FreedShape, IInv, IInv', [HNext]_hvars PROVE FreedShape'
    OBVIOUS
  <2>1. CASE HNext
    BY <2>1, FreedStep
  <2>2. CASE UNCHANGED hvars
    BY <2>2 DEF hvars, vars, machine, arbiter, scratch, FreedShape, FreedForGame, BelowGame,
                preempted_units
  <2> QED BY <2>1, <2>2
<1> QED BY <1>1, FreedInit, HistoryInvariant, PTL DEF HSpec

(***************************************************************************)
(* While gaming, a unit below the game's priority that is up came back by  *)
(* itself, or is backed off after a kill or a failed stop.                 *)
(***************************************************************************)
THEOREM GpuIsFreed == HSpec => []FreedForGame
<1>1. FreedShape => FreedForGame
  BY DEF FreedShape
<1> QED BY <1>1, FreedInvariant, PTL

-----------------------------------------------------------------------------
(***************************************************************************)
(* The reconcile task implements GpuHandover.                              *)
(***************************************************************************)
LEMMA HandoverInit == HInit => Handover!Init
BY DEF HInit, Init, Handover!Init, Backed, NoBackoff, BelowGame, preempted_units

LEMMA HandoverStep ==
  ASSUME IInv, IInv', FreedShape, FreedShape', HNext
  PROVE  Handover!Next \/ UNCHANGED Handover!vars
<1> DEFINE tenants == (up \cap BelowGame) \ came_back
<1>0. Next /\ Moves
  BY WhoMoves DEF HNext
<1>1. /\ tenants \in SUBSET BelowGame /\ tenants' \in SUBSET BelowGame
      /\ Backed \in SUBSET BelowGame /\ Backed' \in SUBSET BelowGame
      /\ state # "gaming" => Backed = {}
      /\ state' # "gaming" => Backed' = {}
      /\ state = "gaming" => tenants \subseteq Backed
      /\ state' = "gaming" => tenants' \subseteq Backed'
  BY DEF FreedShape, FreedForGame, Backed, BelowGame, preempted_units
<1>2. state' # "available" => tenants' \subseteq tenants
  BY NoNewTenant DEF BelowGame, preempted_units
<1>3. CASE state' = "available"
  <2>1. came_back' = {}
    BY <1>3 DEF HNext, Remember, RecordCameBack
  <2>2. CASE state = "available"
    BY <1>1, <1>3, <2>2 DEF Handover!Next, Handover!Run
  <2>3. CASE state # "available"
    <3>1. up' = up
      BY <1>0, <1>3, <2>3, StateSteps DEF Moves, DecideSettle, Crash, machine
    <3>2. tenants \subseteq tenants'
      BY <2>1, <3>1 DEF BelowGame, preempted_units
    <3> QED BY <1>1, <1>3, <3>2 DEF Handover!Next, Handover!Release
  <2> QED BY <2>2, <2>3
<1>4. CASE state' = "evicting"
  <2>1. CASE DecideEvict
    <3>1. state = "available" /\ tenants' = tenants
      <4>1. up' = up /\ pc' # pc
        BY <2>1 DEF DecideEvict, machine
      <4> QED BY <1>0, <2>1, <4>1, StateSteps
              DEF HNext, Remember, RecordCameBack, BelowGame, preempted_units
    <3> QED BY <1>1, <1>4, <3>1 DEF Handover!Next, Handover!Announce
  <2>2. CASE state = "evicting"
    BY <1>1, <1>2, <1>4, <2>2 DEF Handover!Next, Handover!Vacate
  <2> QED BY <1>0, <1>4, <2>1, <2>2, StateSteps
<1>5. CASE state' = "gaming"
  <2>1. CASE EvictDone
    <3>1. state = "evicting" /\ tenants' = tenants
      <4>1. up' = up /\ pc' # pc
        BY <2>1 DEF EvictDone, machine
      <4> QED BY <1>0, <2>1, <4>1, StateSteps
              DEF HNext, Remember, RecordCameBack, BelowGame, preempted_units
    <3> QED BY <1>1, <1>5, <3>1 DEF Handover!Next, Handover!Handover
  <2>2. CASE state = "gaming" /\ InvariantDone
    <3>1. tenants' = tenants
      <4>1. up' = up /\ pc' # pc
        BY <2>2 DEF InvariantDone, machine
      <4> QED BY <1>5, <4>1 DEF HNext, Remember, RecordCameBack, BelowGame, preempted_units
    <3> QED BY <1>1, <1>5, <2>2, <3>1 DEF Handover!Next, Handover!Excuse
  <2>3. CASE state = "gaming" /\ ~InvariantDone
    <3>1. CASE DecideSettle
      <4>1. invariant_backoff' = invariant_backoff
        BY <1>5, <3>1 DEF DecideSettle
      <4>2. Backed' = Backed
        BY <4>1 DEF Backed, BelowGame, preempted_units
      <4> QED BY <1>1, <1>2, <1>5, <2>3, <4>2 DEF Handover!Next, Handover!Vacate
    <3>2. CASE ~DecideSettle
      <4>1. \A u \in Units : invariant_backoff'[u].step = invariant_backoff[u].step
        BY <1>0, <1>5, <2>3, <3>2, StateSteps DEF Moves, Settling, Crash
      <4>2. Backed' = Backed
        BY <4>1 DEF Backed, BelowGame, preempted_units
      <4> QED BY <1>1, <1>2, <1>5, <2>3, <4>2 DEF Handover!Next, Handover!Vacate
    <3> QED BY <3>1, <3>2
  <2> QED BY <1>0, <1>5, <2>1, <2>2, <2>3, StateSteps
<1> QED BY <1>3, <1>4, <1>5 DEF IInv, TypeOK, States

(***************************************************************************)
(* Every behaviour of the task is one of the handover: `evicting' is       *)
(* announced before anything is stopped, tenants only leave until the      *)
(* release, and `gaming' is reached and kept with the excused ones alone.  *)
(***************************************************************************)
THEOREM ImplementsHandover == HSpec => HandsOver
<1>1. HInit => Handover!Init
  BY HandoverInit
<1>2. IInv /\ IInv' /\ FreedShape /\ FreedShape' /\ [HNext]_hvars => [Handover!Next]_(Handover!vars)
  <2> SUFFICES ASSUME IInv, IInv', FreedShape, FreedShape', [HNext]_hvars
               PROVE  Handover!Next \/ UNCHANGED Handover!vars
    OBVIOUS
  <2>1. CASE HNext
    BY <2>1, HandoverStep
  <2>2. CASE UNCHANGED hvars
    BY <2>2 DEF hvars, vars, machine, arbiter, Handover!vars, Backed, BelowGame, preempted_units
  <2> QED BY <2>1, <2>2
<1> QED BY <1>1, <1>2, HistoryInvariant, FreedInvariant, PTL
       DEF HSpec, HandsOver, Handover!Spec

(***************************************************************************)
(* So the promise of GpuHandover is kept by the task: while it publishes   *)
(* `gaming', whatever tenant is still up is one it tried to stop and could *)
(* not.                                                                    *)
(***************************************************************************)
THEOREM HandoverIsExclusive == HSpec => []Handover!Exclusive
<1>1. Handover!Init => Handover!Exclusive
  BY DEF Handover!Init, Handover!Exclusive
<1>2. Handover!Exclusive /\ [Handover!Next]_(Handover!vars) => Handover!Exclusive'
  BY DEF Handover!Exclusive, Handover!Next, Handover!vars, Handover!Run, Handover!Announce,
         Handover!Vacate, Handover!Handover, Handover!Excuse, Handover!Release
<1> QED BY <1>1, <1>2, ImplementsHandover, PTL DEF HandsOver, Handover!Spec


-----------------------------------------------------------------------------
(***************************************************************************)
(* Starts, resumes and the flag.                                           *)
(***************************************************************************)
\* A clear scan stays good until the command it was made for, but for games
\* launched since: the probe of a manual start lies in between.
FreshShape == pc \in {"manual_probe", "manual_start", "start", "resume"} /\ game => fresh

LEMMA FreshStep ==
  ASSUME FreshShape, HNext
  PROVE  FreshShape'
<1> SUFFICES ASSUME pc' \in {"manual_probe", "manual_start", "start", "resume"}, game'
             PROVE  fresh'
  BY DEF FreshShape
<1>1. fresh' = (game' /\ (~game \/ (fresh /\ ~(pc \in ScanPoints /\ pc' # pc))))
  BY DEF HNext, Remember, RecordFresh
<1>2. CASE ~game
  BY <1>1, <1>2
<1>3. CASE game
  <2>1. scan \cap {"clear"} = {}
    BY <1>3 DEF scan
  <2>2. pc \in {"manual_probe", "manual_start", "start", "resume"}
    BY <2>1 DEF HNext, Next, PassStep, ManualGate, Decision, Eviction, Restore, Environment, Return,
         BeginPass, BeginManualStart, BeginManualStop, ProbeBusy, GateTenant, GateScan, ManualProbe,
         ManualStart, ObserveFails, Observe, DecideEvict, DecideSettle, Check, CheckDone, EvictOne,
         ManualStopDone, EvictDone, InvariantDone, PreemptDone, Candidate, CandidatesDone,
         StartScan, StartScanFails, Start, StartsDone, ResumeProbe, ResumeScan, Resume,
         ResumesDone, Refresh, GameLaunch, GameExit, Heal, UnitUp, UnitDown, Tick, Crash
  <2> QED BY <1>1, <1>3, <2>2 DEF FreshShape, ScanPoints
<1> QED BY <1>2, <1>3

\* A unit is started or told to resume with a game running only if the game
\* was launched after the scan made for that very command.
THEOREM NoStartMeetsKnownGame == HSpec => []NoStartIntoKnownGame
<1>1. HInit => FreshShape
  BY DEF HInit, Init, FreshShape
<1>2. FreshShape /\ [HNext]_hvars => FreshShape'
  <2> SUFFICES ASSUME FreshShape, [HNext]_hvars PROVE FreshShape'
    OBVIOUS
  <2>1. CASE UNCHANGED hvars
    BY <2>1 DEF hvars, vars, machine, FreshShape
  <2> QED BY <2>1, FreshStep
<1>3. FreshShape => NoStartIntoKnownGame
  BY DEF FreshShape, NoStartIntoKnownGame
<1> QED BY <1>1, <1>2, <1>3, PTL DEF HSpec

\* What is parked is a set of units.
ResumeShape == parked \subseteq Units /\ ResumeNeverLost

LEMMA ResumeStep ==
  ASSUME IInv, IInv', ResumeShape, HNext
  PROVE  ResumeShape'
<1>0. Next /\ Moves
  BY WhoMoves DEF HNext
<1>1. parked' = (parked \cup {u \in Units : results'[u] \notin {results[u], "none"}})
                  \ {u \in needs_resume \ needs_resume' : pc = "resume"}
  BY DEF HNext, Remember, RecordParked
<1>2. parked' \subseteq Units
  BY <1>1 DEF ResumeShape
<1>3. ASSUME NEW u \in parked' PROVE u \in needs_resume'
  <2>1. CASE \E v \in Units : EvictOne(v)
    BY <1>1, <1>3, <2>1 DEF EvictOne, IInv, TypeOK, ResumeShape, ResumeNeverLost
  <2>2. CASE ~\E v \in Units : EvictOne(v)
    <3>1. results' \in {results, NoResults}
      BY <1>0, <2>2 DEF Moves
    <3>2. u \in parked
      BY <1>1, <1>3, <3>1 DEF NoResults
    <3>3. u \in needs_resume
      BY <3>2 DEF ResumeShape, ResumeNeverLost
    <3> QED BY <1>0, <1>1, <1>3, <3>3 DEF Moves, Resume
  <2> QED BY <2>1, <2>2
<1>4. ASSUME NEW u \in held' PROVE u \in needs_resume'
  <2>1. CASE \E v \in Units : BeginManualStop(v)
    BY <1>4, <2>1 DEF BeginManualStop, ResumeShape, ResumeNeverLost
  <2>2. CASE \E v \in Units : Resume(v)
    BY <1>4, <2>2 DEF Resume, IsNext, IInv, PassShape, TargetsShape, ResumeShape, ResumeNeverLost
  <2> QED BY <1>0, <1>4, <2>1, <2>2 DEF Moves, ResumeShape, ResumeNeverLost
<1> QED BY <1>2, <1>3, <1>4 DEF ResumeShape, ResumeNeverLost

\* A unit evicted and not successfully resumed since owes a resume, and so
\* does every unit an operator holds.
THEOREM ResumesAreNeverLost == HSpec => []ResumeNeverLost
<1>1. HInit => ResumeShape
  BY DEF HInit, Init, ResumeShape, ResumeNeverLost
<1>2. ResumeShape /\ IInv /\ IInv' /\ [HNext]_hvars => ResumeShape'
  <2> SUFFICES ASSUME ResumeShape, IInv, IInv', [HNext]_hvars PROVE ResumeShape'
    OBVIOUS
  <2>1. CASE UNCHANGED hvars
    BY <2>1 DEF hvars, vars, arbiter, ResumeShape, ResumeNeverLost
  <2> QED BY <2>1, ResumeStep
<1>3. ResumeShape => ResumeNeverLost
  BY DEF ResumeShape
<1> QED BY <1>1, <1>2, <1>3, HistoryInvariant, PTL DEF HSpec

\* There is nothing to tell outside `gaming'.
DegradedShape == DegradedTellsTheTruth /\ (state # "gaming" => unrepaired = {})

LEMMA DegradedStep ==
  ASSUME IInv, DegradedShape, HNext
  PROVE  DegradedShape'
<1>0. Next /\ Moves
  BY WhoMoves DEF HNext
<1>1. unrepaired' = IF state' = "available" THEN {}
                    ELSE IF pc = "evict" /\ pc' = "refresh"
                      THEN (unrepaired \ Evicted) \cup {u \in Units : results[u] = "Error"}
                      ELSE unrepaired
  BY DEF HNext, Remember, RecordUnrepaired
<1>2. CASE state' = "available"
  BY <1>1, <1>2 DEF DegradedShape, DegradedTellsTheTruth
<1>3. CASE EvictDone
  <2>1. state = "evicting" /\ state' = "gaming" /\ pc = "evict" /\ pc' = "refresh"
    BY <1>0, <1>3, StateSteps DEF EvictDone
  <2>2. unrepaired' = {u \in Units : results[u] = "Error"}
    BY <1>1, <2>1 DEF DegradedShape
  <2> QED BY <1>3, <2>1, <2>2 DEF EvictDone, EvictionFailed, DegradedShape, DegradedTellsTheTruth
<1>4. CASE InvariantDone
  <2>1. state = "gaming" /\ state' = "gaming" /\ pc = "evict" /\ pc' = "refresh"
    BY <1>4 DEF InvariantDone, IInv, PassShape, StateShape
  <2>2. unrepaired' \subseteq unrepaired \cup {u \in Units : results[u] = "Error"}
    BY <1>1, <2>1
  <2> QED
    BY <1>4, <2>1, <2>2 DEF InvariantDone, EvictionFailed, DegradedShape, DegradedTellsTheTruth
<1>5. CASE state' # "available" /\ ~EvictDone /\ ~InvariantDone
  <2>1. unrepaired' = unrepaired
    BY <1>0, <1>1, <1>5 DEF Moves
  <2>2. degraded' = degraded
    BY <1>0, <1>5 DEF Moves, Settling, DecideSettle, Crash
  <2>3. state' = "gaming" <=> state = "gaming"
    BY <1>0, <1>5, StateSteps DEF Moves, Crash
  <2> QED BY <2>1, <2>2, <2>3 DEF DegradedShape, DegradedTellsTheTruth
<1> QED BY <1>2, <1>3, <1>4, <1>5

\* While gaming, `degraded' is set as long as the last eviction of some unit for
\* the game failed; evictions an operator asks for are another matter.
THEOREM DegradedIsHonest == HSpec => []DegradedTellsTheTruth
<1>1. HInit => DegradedShape
  BY DEF HInit, Init, DegradedShape, DegradedTellsTheTruth
<1>2. DegradedShape /\ IInv /\ [HNext]_hvars => DegradedShape'
  <2> SUFFICES ASSUME DegradedShape, IInv, [HNext]_hvars PROVE DegradedShape'
    OBVIOUS
  <2>1. CASE UNCHANGED hvars
    BY <2>1 DEF hvars, vars, arbiter, DegradedShape, DegradedTellsTheTruth
  <2> QED BY <2>1, DegradedStep
<1>3. DegradedShape => DegradedTellsTheTruth
  BY DEF DegradedShape
<1> QED BY <1>1, <1>2, <1>3, HistoryInvariant, PTL DEF HSpec

-----------------------------------------------------------------------------
(***************************************************************************)
(* How a pass gets to its points.                                          *)
(***************************************************************************)
Paths ==
  /\ running_now' \in {running_now, Unprobed} \/ \E u \in Units : ProbeBusy(u)
  /\ pc' \in AtRest => running_now' = Unprobed \/ (pc \in AtRest /\ running_now' = running_now)
  /\ pc' = "check" => \/ DecideSettle \/ \E u \in Units : Check(u)
                      \/ UNCHANGED <<pc, todo, picked, reason, desired, preempted>>
  /\ pc' = "evict" /\ reason' # "manual stop" =>
       \/ DecideEvict \/ CheckDone \/ \E u \in Units : EvictOne(u)
       \/ UNCHANGED <<pc, todo, results, reason, desired, preempted>>
  /\ pc' \in Restoring => PreemptDone \/ (pc \in Restoring /\ desired' = desired)
  /\ pc' = "refresh" => \/ EvictDone \/ InvariantDone
                        \/ pc \in Restoring \cup {"refresh"} /\ desired' = desired
  /\ pending' = pending \/ Observe \/ Tick \/ Crash
  /\ pc' = "probe" => Observe \/ (pc = "probe" /\ desired' = desired /\ state' = state)

LEMMA HowAPassGoes ==
  ASSUME IInv, Next
  PROVE  Paths
<1> USE DEF Next, PassStep, ManualGate, Decision, Eviction, Restore, Environment, machine, arbiter,
      scratch, Return, BeginPass, BeginManualStart, BeginManualStop, GateTenant, GateScan,
      ManualProbe, ManualStart, ObserveFails, ManualStopDone, Candidate, CandidatesDone, StartScan,
      StartScanFails, Start, StartsDone, ResumeProbe, ResumeScan, Resume, ResumesDone, Refresh,
      GameLaunch, GameExit, Heal, UnitUp, UnitDown, AtRest, Restoring
<1>1. running_now' \in {running_now, Unprobed} \/ \E u \in Units : ProbeBusy(u)
  BY DEF Observe, DecideEvict, DecideSettle, Check, CheckDone, EvictOne, EvictDone, InvariantDone,
         PreemptDone, Tick, Crash
<1>2. pc' \in AtRest => running_now' = Unprobed \/ (pc \in AtRest /\ running_now' = running_now)
  BY DEF ProbeBusy, Observe, DecideEvict, DecideSettle, Check, CheckDone, EvictOne, EvictDone,
         InvariantDone, PreemptDone, Tick, Crash
<1>3. pc' = "check" => \/ DecideSettle \/ \E u \in Units : Check(u)
                       \/ UNCHANGED <<pc, todo, picked, reason, desired, preempted>>
  BY DEF ProbeBusy, Observe, DecideEvict, CheckDone, EvictOne, EvictDone, InvariantDone,
         PreemptDone, Tick, Crash
<1>4. pc' = "evict" /\ reason' # "manual stop" =>
        \/ DecideEvict \/ CheckDone \/ \E u \in Units : EvictOne(u)
        \/ UNCHANGED <<pc, todo, results, reason, desired, preempted>>
  BY DEF ProbeBusy, Observe, DecideSettle, Check, EvictDone, InvariantDone, PreemptDone, Tick,
         Crash
<1>5. pc' \in Restoring => PreemptDone \/ (pc \in Restoring /\ desired' = desired)
  BY DEF ProbeBusy, Observe, DecideEvict, DecideSettle, Check, CheckDone, EvictOne, EvictDone,
         InvariantDone, Tick, Crash
<1>6. pc' = "refresh" => \/ EvictDone \/ InvariantDone
                         \/ pc \in Restoring \cup {"refresh"} /\ desired' = desired
  BY DEF ProbeBusy, Observe, DecideEvict, DecideSettle, Check, CheckDone, EvictOne, PreemptDone,
         Tick, Crash
<1>7. pending' = pending \/ Observe \/ Tick \/ Crash
  BY DEF ProbeBusy, DecideEvict, DecideSettle, Check, CheckDone, EvictOne, EvictDone,
         InvariantDone, PreemptDone
<1>8. pc' = "probe" => Observe \/ (pc = "probe" /\ desired' = desired /\ state' = state)
  BY DEF ProbeBusy, DecideEvict, DecideSettle, Check, CheckDone, EvictOne, EvictDone,
         InvariantDone, PreemptDone, Tick, Crash
<1> QED BY <1>1, <1>2, <1>3, <1>4, <1>5, <1>6, <1>7, <1>8 DEF Paths

-----------------------------------------------------------------------------
(***************************************************************************)
(* The invariant.  A unit that is up throughout reads as up in every probe *)
(* of the pass, so each loop takes it over from the one before: it is      *)
(* checked, then evicted, and an eviction that leaves it up has failed.    *)
(***************************************************************************)
\* Its last stop needed the kill or failed, and it is left alone for a while.
Excused(u) == desired = "gaming" /\ invariant_backoff[u].step > 0

BackoffShape == \A u \in Units : invariant_backoff[u].left > 0 => invariant_backoff[u].step > 0

\* What the pass is after at each point.
AimShape ==
  /\ pc \in {"check", "evict"} /\ reason = "tenant preemption" => desired = "available"
  /\ pc \in {"check", "evict"} /\ reason \in {"game", "gaming invariant"} =>
       desired = "gaming" /\ BelowGame \subseteq preempted
  /\ pc \in Restoring => desired = "available"

ReadShape ==
  /\ pc \in AtRest => running_now = Unprobed
  /\ \A u \in tenured : running_now[u] # "stopped" /\ results[u] \in {"none", "Error"}

CatchShape ==
  /\ pc = "check" =>
       \A u \in tenured \cap preempted : u \in todo \cup picked \/ Excused(u)
  /\ pc = "evict" /\ reason # "manual stop" =>
       \A u \in tenured \cap preempted : u \in todo \/ results[u] = "Error" \/ Excused(u)
  /\ NoTenuredSurvivor

LadderShape == BackoffShape /\ AimShape /\ ReadShape /\ CatchShape

LEMMA LadderInit == HInit => LadderShape
BY DEF HInit, Init, LadderShape, BackoffShape, AimShape, ReadShape, CatchShape,
       NoTenuredSurvivor, NoBackoff, Restoring, AtRest

\* A unit up throughout the pass so far was so before the step, or the pass begins.
LEMMA TenuredBefore ==
  ASSUME HTypeOK, HNext, NEW u \in tenured'
  PROVE  /\ u \in Units /\ u \in up /\ u \in up'
         /\ u \in tenured \/ (pc \in AtRest /\ pc' \notin AtRest)
<1>1. tenured' = IF pc' \in AtRest THEN {}
                 ELSE IF pc \in AtRest THEN up ELSE tenured \cap up'
  BY DEF HNext, Remember, RecordTenured
<1>2. CASE pc \in AtRest
  BY <1>1, <1>2, OpeningLeavesUnits DEF HNext, HTypeOK, TypeOK
<1>3. CASE pc \notin AtRest
  BY <1>1, <1>3 DEF HTypeOK, TypeOK
<1> QED BY <1>2, <1>3

LEMMA BackoffStep ==
  ASSUME IInv, BackoffShape, Next
  PROVE  BackoffShape'
<1>1. \/ EvictDone \/ InvariantDone \/ Tick
      \/ invariant_backoff' \in {invariant_backoff, NoBackoff}
  BY DEF Next, PassStep, ManualGate, Decision, Eviction, Restore, Environment, machine, arbiter,
      scratch, Return, BeginPass, BeginManualStart, BeginManualStop, ProbeBusy, GateTenant,
      GateScan, ManualProbe, ManualStart, ObserveFails, Observe, DecideEvict, DecideSettle, Check,
      CheckDone, EvictOne, ManualStopDone, PreemptDone, Candidate, CandidatesDone, StartScan,
      StartScanFails, Start, StartsDone, ResumeProbe, ResumeScan, Resume, ResumesDone, Refresh,
      GameLaunch, GameExit, Heal, UnitUp, UnitDown, Crash
<1>2. ASSUME NEW since \in 0..BackoffMax, invariant_backoff' = note_invariant_backoff(since)
      PROVE  BackoffShape'
  <2> SUFFICES ASSUME NEW u \in Units, invariant_backoff'[u].left > 0
               PROVE  invariant_backoff'[u].step > 0
    BY DEF BackoffShape
  <2>1. CASE results[u] = "none"
    <3>1. invariant_backoff'[u] = invariant_backoff[u]
      BY <1>2, <2>1, Zenon DEF note_invariant_backoff
    <3> QED BY <3>1 DEF BackoffShape
  <2>2. CASE results[u] \in {"Freed", "AlreadyClear"}
    <3>1. invariant_backoff'[u].left = 0
      BY <1>2, <2>2 DEF note_invariant_backoff
    <3> QED BY <3>1
  <2>3. CASE results[u] \in {"Escalated", "Error"}
    BY <1>2, <2>3, NoteBackoffStep DEF IInv
  <2> QED BY <2>1, <2>2, <2>3 DEF IInv, TypeOK, Outcomes
<1>3. CASE EvictDone \/ InvariantDone
  <2>1. 0 \in 0..BackoffMax /\ elapsed \in 0..BackoffMax
    BY PolicyAssumption DEF PolicyAssumption, IInv, TypeOK
  <2> QED BY <1>2, <1>3, <2>1 DEF EvictDone, InvariantDone
<1>4. CASE Tick
  <2> SUFFICES ASSUME NEW u \in Units, invariant_backoff'[u].left > 0
               PROVE  invariant_backoff'[u].step > 0
    BY DEF BackoffShape
  <2> DEFINE less == IF invariant_backoff[u].left > 0 THEN invariant_backoff[u].left - 1 ELSE 0
  <2>1. invariant_backoff'[u] = [left |-> less, step |-> invariant_backoff[u].step]
    BY <1>4, Zenon DEF Tick
  <2>2. invariant_backoff[u].left > 0
    BY <2>1
  <2> HIDE DEF less
  <2> QED BY <2>1, <2>2 DEF BackoffShape
<1>5. CASE invariant_backoff' \in {invariant_backoff, NoBackoff}
  BY <1>5 DEF BackoffShape, NoBackoff
<1> QED BY <1>1, <1>3, <1>4, <1>5

\* Both ways to decide preempt every unit below the game when the pass is after one.
LEMMA DecisionCoversBelowGame ==
  ASSUME DecideEvict \/ DecideSettle, desired = "gaming"
  PROVE  BelowGame \subseteq preempted'
<1>1. BelowGame \subseteq preempted_units(Demand)
  BY DEF BelowGame, preempted_units, Demand, effective_demand
<1> QED BY <1>1 DEF DecideEvict, DecideSettle

LEMMA AimStep ==
  ASSUME IInv, AimShape, Next
  PROVE  AimShape'
<1>0. Paths
  BY HowAPassGoes
<1>1. CASE DecideEvict
  <2>1. desired = "gaming"
    BY <1>1, Zenon DEF DecideEvict, unit_action
  <2> QED BY <1>1, <2>1, DecisionCoversBelowGame DEF DecideEvict, AimShape, Restoring
<1>2. CASE DecideSettle
  <2>1. desired \in {"available", "gaming"}
    BY <1>2 DEF DecideSettle, IInv, TypeOK, States, PassShape, StateShape
  <2> QED BY <1>2, <2>1, DecisionCoversBelowGame DEF DecideSettle, AimShape, Restoring
<1>3. CASE CheckDone
  BY <1>3 DEF CheckDone, AimShape, Restoring
<1>4. CASE \E u \in Units : Check(u) \/ EvictOne(u)
  BY <1>4 DEF Check, EvictOne, AimShape, Restoring
<1>5. CASE PreemptDone
  BY <1>5 DEF PreemptDone, AimShape, Restoring
<1>6. CASE ~(\/ DecideEvict \/ DecideSettle \/ CheckDone \/ PreemptDone
             \/ \E u \in Units : Check(u) \/ EvictOne(u))
  BY <1>0, <1>6 DEF Paths, AimShape, Restoring
<1> QED BY <1>1, <1>2, <1>3, <1>4, <1>5, <1>6

LEMMA ReadStep ==
  ASSUME IInv, HTypeOK, ReadShape, HNext
  PROVE  ReadShape'
<1>0. Next /\ Paths /\ Moves
  BY HowAPassGoes, WhoMoves DEF HNext
<1>1. pc' \in AtRest => running_now' = Unprobed
  BY <1>0 DEF Paths, ReadShape
<1>2. ASSUME NEW u \in tenured'
      PROVE  running_now'[u] # "stopped"
  <2>1. u \in Units /\ u \in up /\ running_now[u] # "stopped"
    BY <1>2, TenuredBefore DEF ReadShape, Unprobed
  <2>2. CASE \E v \in Units : ProbeBusy(v)
    <3>1. PICK v \in Units : ProbeBusy(v)
      BY <2>2
    <3>2. PICK r \in is_running(v) :
            running_now' = IF pc = "probe" THEN [running_now EXCEPT ![v] = r] ELSE running_now
      BY <3>1 DEF ProbeBusy
    <3>3. u = v => r # "stopped"
      BY <2>1 DEF is_running, readings
    <3> QED BY <2>1, <3>2, <3>3 DEF IInv, TypeOK
  <2>3. CASE running_now' \in {running_now, Unprobed}
    BY <2>1, <2>3 DEF Unprobed
  <2> QED BY <1>0, <2>2, <2>3 DEF Paths
<1>3. ASSUME NEW u \in tenured'
      PROVE  results'[u] \in {"none", "Error"}
  <2>1. u \in Units /\ u \in up' /\ results[u] \in {"none", "Error"}
    BY <1>3, TenuredBefore DEF ReadShape, IInv, PassShape, LocalsShape, AtRest, NoResults
  <2>2. CASE \E v \in Units : EvictOne(v)
    BY <2>1, <2>2, EvictOneFrees
  <2>3. CASE results' \in {results, NoResults}
    BY <2>1, <2>3 DEF NoResults
  <2> QED BY <1>0, <2>2, <2>3 DEF Moves
<1> QED BY <1>1, <1>2, <1>3 DEF ReadShape

\* While the pass goes on after a game, a unit is excused for good.
LEMMA ExcusedStays ==
  ASSUME IInv, HNext, NEW u \in Units, Excused(u), desired' = desired, ~DecideSettle, ~EvictDone,
         ~InvariantDone, pc' # "boot"
  PROVE  Excused(u)'
<1>1. ~Crash
  BY DEF Crash
<1> QED BY <1>1, WhoMoves DEF HNext, Moves, Settling, Excused

LEMMA CheckCatches ==
  ASSUME IInv, HTypeOK, LadderShape, HNext, pc' = "check", NEW u \in tenured' \cap preempted'
  PROVE  u \in todo' \cup picked' \/ Excused(u)'
<1>0. Next /\ Paths
  BY HowAPassGoes DEF HNext
<1>1. u \in Units /\ u \in up
  BY TenuredBefore
<1>2. pc \notin AtRest => u \in tenured
  BY TenuredBefore
<1>3. CASE DecideSettle
  <2>1. CASE desired = "available"
    BY <1>3, <2>1 DEF DecideSettle
  <2>2. CASE desired # "available"
    <3>1. desired = "gaming" /\ state = "gaming"
      <4>1. desired = "gaming" /\ state \in {"available", "gaming"}
        BY <1>3, <2>2 DEF DecideSettle, IInv, TypeOK, States, PassShape, StateShape
      <4>2. unit_action("available", "gaming") = "Evict"
        BY Zenon DEF unit_action
      <4> QED BY <1>3, <4>1, <4>2 DEF DecideSettle
    <3>2. invariant_backoff' = invariant_backoff /\ desired' = desired
      BY <1>3, <2>2 DEF DecideSettle
    <3>3. CASE invariant_backoff[u].left = 0
      BY <1>3, <2>2, <3>1, <3>3 DEF DecideSettle
    <3>4. CASE invariant_backoff[u].left # 0
      <4>1. invariant_backoff[u].left \in 0..BackoffMax
        BY <1>1 DEF IInv, TypeOK
      <4>2. invariant_backoff[u].left > 0
        BY <3>4, <4>1, PolicyAssumption DEF PolicyAssumption
      <4> QED BY <1>1, <3>1, <3>2, <4>2 DEF LadderShape, BackoffShape, Excused
    <3> QED BY <3>3, <3>4
  <2> QED BY <2>1, <2>2
<1>4. CASE pc = "check" /\ ~DecideSettle
  <2>1. u \in tenured
    BY <1>2, <1>4 DEF AtRest
  <2>2. CASE \E v \in Units : Check(v)
    <3>1. PICK v \in Units : Check(v)
      BY <2>2
    <3>2. running_now[v] # "unprobed" => running_now[v] \in Readings
      BY DEF IInv, TypeOK
    <3>3. u \in todo \cup picked => u \in todo' \cup picked'
      BY <1>1, <2>1, <3>1 DEF Check, is_running, readings, LadderShape, ReadShape
    <3>4. preempted' = preempted /\ desired' = desired /\ invariant_backoff' = invariant_backoff
      BY <3>1 DEF Check, arbiter
    <3> QED BY <1>4, <2>1, <3>3, <3>4 DEF LadderShape, CatchShape, Excused
  <2>3. CASE UNCHANGED <<pc, todo, reason, desired, preempted, picked>>
    <3>1. u \in todo \cup picked \/ Excused(u)
      BY <1>4, <2>1, <2>3 DEF LadderShape, CatchShape
    <3>2. ~EvictDone /\ ~InvariantDone
      BY <1>4 DEF EvictDone, InvariantDone
    <3> QED BY <1>1, <1>4, <2>3, <3>1, <3>2, ExcusedStays
  <2> QED BY <1>0, <1>4, <2>2, <2>3 DEF Paths
<1> QED BY <1>0, <1>3, <1>4 DEF Paths, Check

LEMMA EvictCatches ==
  ASSUME IInv, HTypeOK, LadderShape, HNext, pc' = "evict", reason' # "manual stop",
         NEW u \in tenured' \cap preempted'
  PROVE  u \in todo' \/ results'[u] = "Error" \/ Excused(u)'
<1>0. Next /\ Paths
  BY HowAPassGoes DEF HNext
<1>1. u \in Units /\ u \in up /\ u \in up'
  BY TenuredBefore
<1>2. pc \notin AtRest => u \in tenured
  BY TenuredBefore
<1>3. CASE DecideEvict
  BY <1>3 DEF DecideEvict
<1>4. CASE CheckDone
  <2>1. u \in picked \/ Excused(u)
    BY <1>2, <1>4 DEF CheckDone, AtRest, LadderShape, CatchShape
  <2> QED BY <1>4, <2>1 DEF CheckDone, Excused, arbiter
<1>5. CASE \E v \in Units : EvictOne(v)
  <2>1. PICK v \in Units : EvictOne(v)
    BY <1>5
  <2>2. u \in todo \/ results[u] = "Error" \/ Excused(u)
    BY <1>2, <2>1 DEF EvictOne, AtRest, LadderShape, CatchShape
  <2>3. Excused(u) => Excused(u)'
    BY <2>1 DEF EvictOne, Excused
  <2> QED BY <1>1, <2>1, <2>2, <2>3, EvictOneFrees
<1>6. CASE UNCHANGED <<pc, todo, results, reason, desired, preempted>>
  <2>1. u \in todo \/ results[u] = "Error" \/ Excused(u)
    BY <1>2, <1>6 DEF AtRest, LadderShape, CatchShape
  <2>2. ~EvictDone /\ ~InvariantDone /\ ~DecideSettle
    BY <1>6 DEF EvictDone, InvariantDone, DecideSettle
  <2> QED BY <1>1, <1>6, <2>1, <2>2, ExcusedStays
<1> QED BY <1>0, <1>3, <1>4, <1>5, <1>6 DEF Paths

LEMMA SurvivorsAreExcused ==
  ASSUME IInv, HTypeOK, LadderShape, HNext, pc' = "refresh", desired' = "gaming",
         NEW u \in tenured' \cap BelowGame
  PROVE  invariant_backoff'[u].step > 0
<1>0. Next /\ Paths
  BY HowAPassGoes DEF HNext
<1>1. u \in Units
  BY TenuredBefore
<1>2. pc \notin AtRest => u \in tenured
  BY TenuredBefore
<1>3. CASE EvictDone \/ InvariantDone
  <2>1. /\ pc = "evict" /\ todo = {} /\ reason \in {"game", "gaming invariant"}
        /\ u \in tenured /\ u \in preempted
    BY <1>2, <1>3 DEF EvictDone, InvariantDone, AtRest, LadderShape, AimShape
  <2>2. results[u] = "Error" \/ invariant_backoff[u].step > 0
    BY <2>1 DEF LadderShape, CatchShape, Excused
  <2>3. PICK since \in 0..BackoffMax : invariant_backoff' = note_invariant_backoff(since)
    <3>1. 0 \in 0..BackoffMax /\ elapsed \in 0..BackoffMax
      BY PolicyAssumption DEF PolicyAssumption, IInv, TypeOK
    <3> QED BY <1>3, <3>1 DEF EvictDone, InvariantDone
  <2>4. CASE results[u] = "Error"
    BY <1>1, <2>3, <2>4, NoteBackoffStep DEF IInv
  <2>5. CASE results[u] = "none"
    <3>1. invariant_backoff'[u] = invariant_backoff[u]
      BY <1>1, <2>3, <2>5, Zenon DEF note_invariant_backoff
    <3> QED BY <2>2, <2>5, <3>1
  <2> QED BY <2>1, <2>4, <2>5 DEF LadderShape, ReadShape
<1>4. CASE pc = "refresh" /\ desired' = desired
  <2>1. Excused(u)
    BY <1>2, <1>4 DEF AtRest, LadderShape, CatchShape, NoTenuredSurvivor, Excused
  <2>2. ~EvictDone /\ ~InvariantDone /\ ~DecideSettle
    BY <1>4 DEF EvictDone, InvariantDone, DecideSettle
  <2> QED BY <1>1, <1>4, <2>1, <2>2, ExcusedStays DEF Excused
<1>5. ~(pc \in Restoring /\ desired' = desired)
  BY DEF LadderShape, AimShape
<1> QED BY <1>0, <1>3, <1>4, <1>5 DEF Paths

LEMMA LadderInvariant == HSpec => []LadderShape
<1>1. ASSUME IInv, HTypeOK, LadderShape, [HNext]_hvars PROVE LadderShape'
  <2>1. CASE UNCHANGED hvars
    BY <1>1, <2>1 DEF hvars, vars, machine, arbiter, scratch, LadderShape, BackoffShape, AimShape,
       ReadShape, CatchShape, NoTenuredSurvivor, Excused, BelowGame, preempted_units
  <2>2. CASE HNext
    <3>1. BackoffShape' /\ AimShape' /\ ReadShape'
      BY <1>1, <2>2, BackoffStep, AimStep, ReadStep DEF HNext, LadderShape
    <3>2. CatchShape'
      BY <1>1, <2>2, CheckCatches, EvictCatches, SurvivorsAreExcused
         DEF CatchShape, NoTenuredSurvivor, BelowGame, preempted_units
    <3> QED BY <3>1, <3>2 DEF LadderShape
  <2> QED BY <1>1, <2>1, <2>2
<1> QED BY <1>1, LadderInit, HistoryInvariant, HistoryTypes, PTL DEF HSpec

(***************************************************************************)
(* At the end of a pass that acted on a game, no unit below its priority   *)
(* has been up from the beginning of the pass, unless it is in backoff.    *)
(***************************************************************************)
THEOREM NoneSurvivesAPass == HSpec => []NoTenuredSurvivor
<1>1. LadderShape => NoTenuredSurvivor
  BY DEF LadderShape, CatchShape
<1> QED BY <1>1, LadderInvariant, PTL

(***************************************************************************)
(* When the tenant preemption of a pass is over, a unit below the demand   *)
(* that has been up through the pass is one whose eviction failed, and the *)
(* pass starts none of those units.                                        *)
(***************************************************************************)
THEOREM LadderIsEnforced == HSpec => []LadderEnforced
<1>1. IInv /\ LadderShape => LadderEnforced
  <2> SUFFICES ASSUME IInv, LadderShape PROVE LadderEnforced
    OBVIOUS
  <2>1. ASSUME pc = "evict", todo = {}, reason = "tenant preemption",
               NEW u \in tenured \cap preempted
        PROVE  results[u] = "Error"
    BY <2>1 DEF LadderShape, AimShape, CatchShape, Excused
  <2>2. pc \in {"start_scan", "start"} => (todo \cup started) \cap preempted = {}
    BY DEF IInv, PassShape, TargetsShape
  <2> QED BY <2>1, <2>2 DEF LadderEnforced
<1> QED BY <1>1, LadderInvariant, HistoryInvariant, PTL

-----------------------------------------------------------------------------
(***************************************************************************)
(* The exit grace.  The window of the debounce is never older than the     *)
(* last observation that saw a claim.                                      *)
(***************************************************************************)
GraceShape ==
  /\ pending <= quiet
  /\ pc = "probe" /\ state = "gaming" /\ desired = "available" => quiet = Grace

LEMMA GraceStep ==
  ASSUME IInv, IInv', HTypeOK, HTypeOK', GraceShape, HNext
  PROVE  GraceShape'
<1>0. Next /\ Paths
  BY HowAPassGoes DEF HNext
<1>1. /\ pending \in NoTime..Grace /\ pending' \in NoTime..Grace
      /\ quiet \in 0..Grace /\ quiet' \in 0..Grace
      /\ Grace \in Nat /\ NoTime = -1
  BY PolicyAssumption DEF PolicyAssumption, IInv, TypeOK, HTypeOK, NoTime
<1>2. quiet' = IF pc = "observe" /\ pc' = "probe" /\ game THEN 0
               ELSE IF Tick /\ quiet < Grace THEN quiet + 1 ELSE quiet
  BY DEF HNext, Remember, RecordQuiet
<1>3. CASE Observe
  <2> DEFINE d == debounce_game_exit(state, resolve_state(game), pending)
  <2>1. pc = "observe" /\ pc' = "probe" /\ desired' = d.desired /\ pending' = d.pending
        /\ state' = state
    BY <1>3 DEF Observe
  <2>2. CASE game
    <3>1. d = [desired |-> "gaming", pending |-> NoTime]
      BY <2>2 DEF debounce_game_exit, resolve_state
    <3>2. quiet' = 0
      BY <1>2, <2>1, <2>2
    <3>3. pending' = NoTime /\ desired' = "gaming"
      BY <2>1, <3>1
    <3> QED BY <1>1, <3>2, <3>3 DEF GraceShape
  <2>3. CASE ~game /\ state = "available"
    <3>1. d = [desired |-> "available", pending |-> NoTime]
      BY <2>3 DEF debounce_game_exit, resolve_state
    <3> QED BY <1>1, <2>1, <2>3, <3>1 DEF GraceShape
  <2>4. CASE ~game /\ state # "available"
    <3> DEFINE since == IF pending = NoTime THEN 0 ELSE pending
    <3>1. since \in 0..Grace /\ since <= quiet
      BY <1>1 DEF GraceShape
    <3>2. d = IF since >= Grace THEN [desired |-> "available", pending |-> NoTime]
              ELSE [desired |-> "gaming", pending |-> since]
      BY <2>4 DEF debounce_game_exit, resolve_state
    <3>3. quiet' = quiet
      <4>1. ~Tick
        BY <2>1 DEF Tick
      <4> QED BY <1>2, <2>4, <4>1
    <3> HIDE DEF since
    <3>4. CASE since >= Grace
      <4>1. quiet = Grace
        BY <1>1, <3>1, <3>4
      <4>2. pending' = NoTime
        BY <2>1, <3>2, <3>4
      <4> QED BY <1>1, <3>3, <4>1, <4>2 DEF GraceShape
    <3>5. CASE ~(since >= Grace)
      <4>1. pending' = since /\ desired' = "gaming"
        BY <2>1, <3>2, <3>5
      <4> QED BY <3>1, <3>3, <4>1 DEF GraceShape
    <3> QED BY <3>4, <3>5
  <2> QED BY <2>2, <2>3, <2>4
<1>4. CASE Tick
  <2>1. pending' = IF pending \in 0..Grace - 1 THEN pending + 1 ELSE pending
    BY <1>4 DEF Tick
  <2>2. pc' = pc /\ state' = state /\ desired' = desired
    BY <1>4 DEF Tick
  <2>3. quiet' = IF quiet < Grace THEN quiet + 1 ELSE quiet
    BY <1>2, <1>4, <2>2
  <2> QED BY <1>1, <2>1, <2>2, <2>3 DEF GraceShape
<1>5. CASE ~Observe /\ ~Tick
  <2>1. quiet' = quiet \/ (pc' = "probe" /\ pc = "observe")
    BY <1>2, <1>5
  <2>2. pending' = pending \/ pending' = NoTime
    BY <1>0, <1>5 DEF Paths, Crash
  <2>3. pc' = "probe" => pc = "probe" /\ desired' = desired /\ state' = state
    BY <1>0, <1>5 DEF Paths
  <2> QED BY <1>1, <2>1, <2>2, <2>3 DEF GraceShape
<1> QED BY <1>3, <1>4, <1>5

\* Gaming ends only when no observation of the last game_exit_grace_s saw a claim.
THEOREM GraceIsHonoured == HSpec => GraceHonoured
<1>1. HInit => GraceShape
  BY PolicyAssumption DEF PolicyAssumption, HInit, Init, GraceShape, NoTime
<1>2. ASSUME IInv, IInv', HTypeOK, HTypeOK', GraceShape, [HNext]_hvars PROVE GraceShape'
  <2>1. CASE UNCHANGED hvars
    BY <1>2, <2>1 DEF hvars, vars, arbiter, GraceShape
  <2> QED BY <1>2, <2>1, GraceStep
<1>3. ASSUME IInv, GraceShape, [HNext]_hvars, state = "gaming", state' = "available", pc' # "boot"
      PROVE  quiet = Grace
  <2>1. Next
    BY <1>3 DEF HNext, hvars, vars, arbiter
  <2>2. DecideSettle
    BY <1>3, <2>1, StateSteps, WhoMoves DEF Moves, Crash
  <2> QED BY <1>3, <2>2 DEF DecideSettle, GraceShape
<1> QED BY <1>1, <1>2, <1>3, HistoryInvariant, HistoryTypes, PTL DEF HSpec, GraceHonoured

=============================================================================
