----------------------------- MODULE Reconcile ------------------------------
(***************************************************************************)
(* The reconcile task of the daemon and the machine it watches.            *)
(*                                                                         *)
(* One task owns ArbiterState and runs one pass at a time (src/main.rs,    *)
(* reconcile_task).  A pass is a long sequence of awaits: scans of the     *)
(* process table, is-active and busy probes, stop and start commands,      *)
(* resume hooks.  Every await is a point where the machine moves under     *)
(* the pass, so the pass is modelled as a program with one action per      *)
(* await, interleaved with an environment in which games launch and exit,  *)
(* units come up and go down by themselves, time passes and the daemon     *)
(* dies.  The eviction of one unit (units::evict_inner) is one step with   *)
(* an outcome; the other calls are one step each.                          *)
(*                                                                         *)
(* Durations are not assumed: any number of ticks may pass at any await.   *)
(***************************************************************************)
EXTENDS Policy, Commands

CONSTANTS
  NoUnit,   \* no manual request is being handled
  Faults    \* which calls may fail: a subset of FaultKinds

FaultKinds == {"scan", "probe", "start", "slow", "stop", "resume", "crash"}

ASSUME ReconcileAssumption ==
  /\ NoUnit \notin Units
  /\ Faults \subseteq FaultKinds

VARIABLES
  \* The machine.
  game,               \* some process is classified as a game claim
  up,                 \* the units whose is-active probe would succeed
  healed,             \* the calls have stopped failing
  \* ArbiterState, in memory only.
  state,              \* the externally visible state
  claims,             \* a claim is recorded (the claim list is not empty)
  held,               \* units an operator stopped by hand
  needs_resume,       \* units that owe a resume_cmd
  pending,            \* age of game_exit_pending_since, or NoTime
  invariant_backoff,  \* per unit: time left until `until', and `step' (0: no entry)
  degraded,           \* the flag of /status
  \* The locals of reconcile_with.
  pc,                 \* which await the pass is at
  request,            \* the unit of the manual trigger, or NoUnit
  reply,              \* what that trigger was just answered, or "none"
  reason,             \* why the current batch of units is evicted
  desired,            \* the state this pass acts on
  running_now,        \* the run states probe_busy read
  preempted,          \* the units below the demand of this pass
  todo,               \* what the current loop has still to visit
  picked,             \* what the current loop has selected so far
  results,            \* the eviction outcomes of the current batch
  started,            \* the units this pass has started
  elapsed             \* time since the gaming invariant read the clock

machine == <<game, up, healed>>
arbiter == <<state, claims, held, needs_resume, pending, invariant_backoff, degraded>>
trigger == <<request, reply>>
scratch == <<running_now, preempted, todo, picked, results, started, elapsed>>
vars == <<machine, arbiter, pc, trigger, reason, desired, scratch>>

Readings == {"running", "stopped", "unknown"}
Outcomes == {"AlreadyClear", "Freed", "Escalated", "Error"}
Replies  == {"none", "Ok", "Failed", "GpuHeldByGame", "PreemptedByTenant"}
Reasons  == {"none", "manual stop", "game", "gaming invariant", "tenant preemption"}
Points   == {"boot", "idle", "gate_probe", "gate_scan", "manual_probe", "manual_start",
             "observe", "probe", "check", "evict", "candidates", "start_scan", "start",
             "resume_probe", "resume_scan", "resume", "refresh"}

Gates    == {"gate_probe", "gate_scan", "manual_probe", "manual_start"}

NoBackoff == [u \in Units |-> [left |-> 0, step |-> 0]]
NoResults == [u \in Units |-> "none"]
Unprobed  == [u \in Units |-> "unprobed"]

TypeOK ==
  /\ game \in BOOLEAN
  /\ up \subseteq Units
  /\ healed \in BOOLEAN
  /\ state \in States
  /\ claims \in BOOLEAN
  /\ held \subseteq Units
  /\ needs_resume \subseteq Units
  /\ pending \in NoTime..Grace
  /\ invariant_backoff \in [Units -> [left : 0..BackoffMax, step : 0..BackoffMax]]
  /\ degraded \in BOOLEAN
  /\ pc \in Points
  /\ request \in Units \cup {NoUnit}
  /\ pc \in Gates => request \in Units
  /\ reply \in Replies
  /\ reason \in Reasons
  /\ desired \in States
  /\ running_now \in [Units -> Readings \cup {"unprobed"}]
  /\ preempted \subseteq Units
  /\ todo \subseteq Units
  /\ picked \subseteq Units
  /\ results \in [Units -> Outcomes \cup {"none"}]
  /\ started \subseteq Units
  /\ elapsed \in 0..BackoffMax

(***************************************************************************)
(* A fresh process rebuilds everything it keeps in memory, and every unit  *)
(* owes one resume (ArbiterState::with_config).                            *)
(***************************************************************************)
Init ==
  /\ game \in BOOLEAN
  /\ up \in SUBSET Units
  /\ healed = FALSE
  /\ state = "available"
  /\ claims = FALSE
  /\ held = {}
  /\ needs_resume = Units
  /\ pending = NoTime
  /\ invariant_backoff = NoBackoff
  /\ degraded = FALSE
  /\ pc = "boot"
  /\ request = NoUnit
  /\ reply = "none"
  /\ reason = "none"
  /\ desired = "available"
  /\ running_now = Unprobed
  /\ preempted = {}
  /\ todo = {}
  /\ picked = {}
  /\ results = NoResults
  /\ started = {}
  /\ elapsed = 0

(***************************************************************************)
(* The answers of the machine.                                             *)
(***************************************************************************)
\* What may still fail: a unit may always be slow to stop.
faults == IF healed THEN Faults \cap {"slow"} ELSE Faults

\* units::is_running, the units in S being up: the truth, or an error.
readings(u, S) ==
  {IF u \in S THEN "running" ELSE "stopped"} \cup {r \in {"unknown"} : "probe" \in faults}

is_running(u) == readings(u, up)

\* observe + claim_set: does the process table hold a claim, or did the scan fail?
scan == {IF game THEN "claim" ELSE "clear"} \cup {r \in {"error"} : "scan" \in faults}

\* units::is_busy: whatever busy_cmd may answer.
busy_answers(u) == {is_busy(end) : end \in run_argv(u \in HasBusyCmd)}

(***************************************************************************)
(* units::resume.  A resume_cmd, if there is one, only fails when calls    *)
(* may fail.                                                               *)
(***************************************************************************)
resume_answers ==
  {resumed(configured, end) :
     configured \in BOOLEAN, end \in {e \in run_argv(TRUE) : "resume" \in faults \/ success(e)}}

(***************************************************************************)
(* units::start.  It believes the exit status.  A start that fails may     *)
(* bring the unit up all the same (it was cut off at its time limit), or   *)
(* be refused because the unit is up; one that reports success may leave   *)
(* the unit down.                                                          *)
(***************************************************************************)
start(u, ok) ==
  \/ ok /\ up' = up \cup {u}
  \/ ok /\ "start" \in faults /\ up' = up
  \/ ~ok /\ ("start" \in faults \/ u \in up) /\ up' \in {up, up \cup {u}}

(***************************************************************************)
(* units::evict_timed, one unit.  Freed and Escalated end with a probe     *)
(* that finds the unit stopped; an error says nothing of it: the first     *)
(* probe failed and nothing was done, or the stop or the kill failed.      *)
(***************************************************************************)
evict_timed(u, outcome) ==
  \/ outcome = "AlreadyClear" /\ u \notin up /\ up' = up
  \/ outcome = "Freed" /\ u \in up /\ up' = up \ {u}
  \/ outcome = "Escalated" /\ "slow" \in faults /\ u \in up /\ up' = up \ {u}
  \/ outcome = "Error" /\ "probe" \in faults /\ up' = up
  \/ outcome = "Error" /\ "stop" \in faults /\ u \in up /\ up' \in {up, up \ {u}}

Evicted == {u \in Units : results[u] # "none"}
EvictionFailed == \E u \in Units : results[u] = "Error"

\* Mutant: an eviction error does not back the unit off.
note_backoff_kills_only(since) ==
  [u \in Units |->
     LET step == next_invariant_backoff(invariant_backoff[u].step)
     IN  CASE results[u] = "none" -> invariant_backoff[u]
           [] results[u] \in {"Freed", "AlreadyClear", "Error"} -> [left |-> 0, step |-> 0]
           [] OTHER -> [left |-> IF since >= step THEN 0 ELSE step - since, step |-> step]]

(***************************************************************************)
(* note_invariant_backoff, `since' ticks after `now' was read: a clean     *)
(* stop clears the entry, a kill or a failure renews it with a longer step *)
(* counted from `now'.                                                     *)
(***************************************************************************)
note_invariant_backoff(since) ==
  [u \in Units |->
     LET step == next_invariant_backoff(invariant_backoff[u].step)
     IN  CASE results[u] = "none" -> invariant_backoff[u]
           [] results[u] \in {"Freed", "AlreadyClear"} -> [left |-> 0, step |-> 0]
           [] OTHER -> [left |-> IF since >= step THEN 0 ELSE step - since, step |-> step]]

\* The pass returns: its locals are gone.
Return ==
  /\ pc' = "idle"
  /\ request' = NoUnit /\ reply' = "none"
  /\ reason' = "none" /\ desired' = "available"
  /\ running_now' = Unprobed /\ preempted' = {} /\ todo' = {} /\ picked' = {}
  /\ results' = NoResults /\ started' = {} /\ elapsed' = 0

-----------------------------------------------------------------------------
(***************************************************************************)
(* The trigger that opens the pass.                                        *)
(***************************************************************************)
\* Startup, Timer or ProcEvent: nothing precedes the observation.
BeginPass ==
  /\ pc \in {"boot", "idle"}
  /\ pc' = "observe"
  /\ UNCHANGED <<machine, arbiter, trigger, reason, desired, scratch>>

\* Mutant: a manual start is not refused while a game has the GPU.
BeginManualStartAnytime(u) ==
  /\ pc = "idle"
  /\ request' = u
  /\ todo' = HasBusyCmd \ held
  /\ pc' = "gate_probe"
  /\ UNCHANGED <<machine, arbiter, reply, reason, desired, running_now, preempted, picked,
                 results, started, elapsed>>

\* ManualStart: the state of the last pass decides first, the ladder next.
BeginManualStart(u) ==
  /\ pc = "idle"
  /\ request' = u
  /\ \/ /\ state \in {"gaming", "evicting"}
        /\ reply' = "GpuHeldByGame"
        /\ pc' = "observe"
        /\ UNCHANGED todo
     \/ /\ state = "available"
        /\ todo' = HasBusyCmd \ held
        /\ pc' = "gate_probe"
        /\ UNCHANGED reply
  /\ UNCHANGED <<machine, arbiter, reason, desired, running_now, preempted, picked,
                 results, started, elapsed>>

\* ManualStop: hold first, whatever the eviction does.
BeginManualStop(u) ==
  /\ pc = "idle"
  /\ request' = u
  /\ held' = held \cup {u}
  /\ needs_resume' = needs_resume \cup {u}
  /\ reason' = "manual stop"
  /\ todo' = {u}
  /\ pc' = "evict"
  /\ UNCHANGED <<machine, state, claims, pending, invariant_backoff, degraded, reply, desired,
                 running_now, preempted, picked, results, started, elapsed>>

(***************************************************************************)
(* probe_busy, one unit: is it up, and does it have work?  Any answer of   *)
(* busy_cmd is possible unless the unit is confirmed stopped, which is not *)
(* asked.  preempting_tenant drops the run states it read.                 *)
(***************************************************************************)
ProbeBusy(u) ==
  /\ pc \in {"gate_probe", "probe"}
  /\ IsNext(u, todo)
  /\ \E r \in is_running(u), busy \in busy_answers(u) :
       /\ picked' = IF busy /\ r # "stopped" THEN picked \cup {u} ELSE picked
       /\ running_now' = IF pc = "probe" THEN [running_now EXCEPT ![u] = r] ELSE running_now
  /\ todo' = todo \ {u}
  /\ UNCHANGED <<machine, arbiter, pc, trigger, reason, desired, preempted, results, started,
                 elapsed>>

\* preempting_tenant: a busy unit above the requested one refuses the start.
GateTenant ==
  /\ pc = "gate_probe" /\ todo = {}
  /\ picked' = {}
  /\ \/ /\ request \in preempted_units(effective_demand(FALSE, picked))
        /\ reply' = "PreemptedByTenant"
        /\ pc' = "observe"
     \/ /\ request \notin preempted_units(effective_demand(FALSE, picked))
        /\ pc' = "gate_scan"
        /\ UNCHANGED reply
  /\ UNCHANGED <<machine, arbiter, request, reason, desired, running_now, preempted, todo,
                 results, started, elapsed>>

\* The re-scan before a manual start.
GateScan ==
  /\ pc = "gate_scan"
  /\ \/ "clear" \in scan /\ pc' = "manual_probe" /\ UNCHANGED reply
     \/ "claim" \in scan /\ pc' = "observe" /\ reply' = "GpuHeldByGame"
     \/ "error" \in scan /\ pc' = "observe" /\ reply' = "Failed"
  /\ UNCHANGED <<machine, arbiter, request, reason, desired, scratch>>

\* manual_start, first half: a unit that is up is left alone and released.
ManualProbe ==
  /\ pc = "manual_probe"
  /\ \E r \in is_running(request) :
       \/ /\ r = "running"
          /\ held' = held \ {request}
          /\ reply' = "Ok"
          /\ pc' = "observe"
       \/ /\ r # "running"
          /\ pc' = "manual_start"
          /\ UNCHANGED <<held, reply>>
  /\ UNCHANGED <<machine, state, claims, needs_resume, pending, invariant_backoff, degraded,
                 request, reason, desired, scratch>>

\* manual_start, second half: a start that fails on a unit that is up after
\* all is a success; any other failure keeps the hold.
ManualStart ==
  /\ pc = "manual_start"
  /\ \E ok \in BOOLEAN, r \in Readings :
       /\ start(request, ok)
       /\ ok \/ r \in readings(request, up')
       /\ \/ (ok \/ r = "running") /\ held' = held \ {request} /\ reply' = "Ok"
          \/ ~ok /\ r # "running" /\ held' = held /\ reply' = "Failed"
  /\ pc' = "observe"
  /\ UNCHANGED <<game, healed, state, claims, needs_resume, pending, invariant_backoff, degraded,
                 request, reason, desired, scratch>>

-----------------------------------------------------------------------------
(***************************************************************************)
(* Observe and decide.                                                     *)
(***************************************************************************)
\* A scan that fails abandons the pass and leaves the state alone.
ObserveFails ==
  /\ pc = "observe"
  /\ "error" \in scan
  /\ Return
  /\ UNCHANGED <<machine, arbiter>>

\* The scan, and the lock section that debounces and records the claims.
Observe ==
  /\ pc = "observe"
  /\ LET d == debounce_game_exit(state, resolve_state(game), pending)
     IN  desired' = d.desired /\ pending' = d.pending
  /\ claims' = game
  /\ todo' = HasBusyCmd \ held
  /\ pc' = "probe"
  /\ request' = NoUnit /\ reply' = "none"
  /\ UNCHANGED <<machine, state, held, needs_resume, invariant_backoff, degraded, reason,
                 running_now, preempted, picked, results, started, elapsed>>

\* Mutant: the exit grace demands nothing.
DemandOfClaimsOnly == effective_demand(claims, picked)

\* The demand of this pass: the exit grace still demands for the game.
Demand ==
  effective_demand(claims, picked) \cup {p \in {GamePriority} : desired = "gaming"}

\* available -> gaming: announce `evicting', then stop every preempted unit.
DecideEvict ==
  /\ pc = "probe" /\ todo = {}
  /\ unit_action(state, desired) = "Evict"
  /\ preempted' = preempted_units(Demand)
  /\ state' = "evicting"
  /\ reason' = "game"
  /\ todo' = preempted'
  /\ picked' = {}
  /\ pc' = "evict"
  /\ UNCHANGED <<machine, claims, held, needs_resume, pending, invariant_backoff, degraded,
                 trigger, desired, running_now, results, started, elapsed>>

\* Mutant: the backoff of a unit never expires.
DecideSettleForGood ==
  /\ pc = "probe" /\ todo = {}
  /\ unit_action(state, desired) # "Evict"
  /\ preempted' = preempted_units(Demand)
  /\ state' = desired
  /\ \/ /\ desired = "available"
        /\ degraded' = FALSE
        /\ invariant_backoff' = NoBackoff
        /\ reason' = "tenant preemption"
        /\ todo' = preempted'
     \/ /\ desired # "available"
        /\ reason' = "gaming invariant"
        /\ todo' = {u \in preempted' : state = "gaming" /\ invariant_backoff[u].step = 0}
        /\ UNCHANGED <<degraded, invariant_backoff>>
  /\ picked' = {}
  /\ pc' = "check"
  /\ UNCHANGED <<machine, claims, held, needs_resume, pending, trigger, desired, running_now,
                 results, started, elapsed>>

\* The state settles, and the preempted units that are up are looked for:
\* all of them when available (the ladder), those out of backoff when gaming.
DecideSettle ==
  /\ pc = "probe" /\ todo = {}
  /\ unit_action(state, desired) # "Evict"
  /\ preempted' = preempted_units(Demand)
  /\ state' = desired
  /\ \/ /\ desired = "available"
        /\ degraded' = FALSE
        /\ invariant_backoff' = NoBackoff
        /\ reason' = "tenant preemption"
        /\ todo' = preempted'
     \/ /\ desired # "available"
        /\ reason' = "gaming invariant"
        /\ todo' = {u \in preempted' : state = "gaming" /\ invariant_backoff[u].left = 0}
        /\ UNCHANGED <<degraded, invariant_backoff>>
  /\ picked' = {}
  /\ pc' = "check"
  /\ UNCHANGED <<machine, claims, held, needs_resume, pending, trigger, desired, running_now,
                 results, started, elapsed>>

\* Mutant: a unit that cannot be told counts as stopped.
CheckUnsureIsStopped(u) ==
  /\ pc = "check"
  /\ IsNext(u, todo)
  /\ \E r \in IF running_now[u] = "unprobed" THEN is_running(u) ELSE {running_now[u]} :
       picked' = IF r = "running" THEN picked \cup {u} ELSE picked
  /\ todo' = todo \ {u}
  /\ UNCHANGED <<machine, arbiter, pc, trigger, reason, desired, running_now, preempted,
                 results, started, elapsed>>

\* Is this preempted unit up?  The reading of probe_busy is reused, and a
\* unit that cannot be told counts as up.
Check(u) ==
  /\ pc = "check"
  /\ IsNext(u, todo)
  /\ \E r \in IF running_now[u] = "unprobed" THEN is_running(u) ELSE {running_now[u]} :
       picked' = IF r = "stopped" THEN picked ELSE picked \cup {u}
  /\ todo' = todo \ {u}
  /\ UNCHANGED <<machine, arbiter, pc, trigger, reason, desired, running_now, preempted,
                 results, started, elapsed>>

CheckDone ==
  /\ pc = "check" /\ todo = {}
  /\ todo' = picked
  /\ picked' = {}
  /\ running_now' = Unprobed
  /\ pc' = "evict"
  /\ UNCHANGED <<machine, arbiter, trigger, reason, desired, preempted, results, started,
                 elapsed>>

-----------------------------------------------------------------------------
(***************************************************************************)
(* Evicting a batch, and what each kind of batch does with the outcomes.   *)
(***************************************************************************)
\* Mutant: an eviction that failed owes no resume.
EvictOneOwingOnSuccess(u) ==
  /\ pc = "evict"
  /\ IsNext(u, todo)
  /\ \E o \in Outcomes :
       /\ evict_timed(u, o)
       /\ results' = [results EXCEPT ![u] = o]
       /\ needs_resume' = IF o = "Error" THEN needs_resume ELSE needs_resume \cup {u}
  /\ todo' = todo \ {u}
  /\ UNCHANGED <<game, healed, state, claims, held, pending, invariant_backoff, degraded, pc,
                 trigger, reason, desired, running_now, preempted, picked, started, elapsed>>

\* evict_one: whatever the outcome, the unit owes a resume.
EvictOne(u) ==
  /\ pc = "evict"
  /\ IsNext(u, todo)
  /\ \E o \in Outcomes : evict_timed(u, o) /\ results' = [results EXCEPT ![u] = o]
  /\ needs_resume' = needs_resume \cup {u}
  /\ todo' = todo \ {u}
  /\ UNCHANGED <<game, healed, state, claims, held, pending, invariant_backoff, degraded, pc,
                 trigger, reason, desired, running_now, preempted, picked, started, elapsed>>

\* A manual stop is answered; the pass goes on.
ManualStopDone ==
  /\ pc = "evict" /\ todo = {} /\ reason = "manual stop"
  /\ reply' = IF EvictionFailed THEN "Failed" ELSE "Ok"
  /\ reason' = "none"
  /\ results' = NoResults
  /\ pc' = "observe"
  /\ UNCHANGED <<machine, arbiter, request, desired, running_now, preempted, todo, picked,
                 started, elapsed>>

\* Mutant: the announcement is withdrawn once the units are stopped.
EvictDoneUnsettled ==
  /\ pc = "evict" /\ todo = {} /\ reason = "game"
  /\ invariant_backoff' = note_invariant_backoff(0)
  /\ degraded' = EvictionFailed
  /\ state' = "available"
  /\ results' = NoResults
  /\ pc' = "refresh"
  /\ UNCHANGED <<machine, claims, held, needs_resume, pending, trigger, reason, desired,
                 running_now, preempted, todo, picked, started, elapsed>>

\* evicting -> gaming, whatever the outcomes; the clock is read now.
EvictDone ==
  /\ pc = "evict" /\ todo = {} /\ reason = "game"
  /\ invariant_backoff' = note_invariant_backoff(0)
  /\ degraded' = EvictionFailed
  /\ state' = "gaming"
  /\ results' = NoResults
  /\ pc' = "refresh"
  /\ UNCHANGED <<machine, claims, held, needs_resume, pending, trigger, reason, desired,
                 running_now, preempted, todo, picked, started, elapsed>>

\* Mutant: each batch of the gaming invariant overwrites the flag.
InvariantDoneOverwriting ==
  /\ pc = "evict" /\ todo = {} /\ reason = "gaming invariant"
  /\ invariant_backoff' = note_invariant_backoff(elapsed)
  /\ degraded' = EvictionFailed
  /\ results' = NoResults
  /\ pc' = "refresh"
  /\ UNCHANGED <<machine, state, claims, held, needs_resume, pending, trigger, reason, desired,
                 running_now, preempted, todo, picked, started, elapsed>>

\* The gaming invariant counts its backoff from before the evictions.
InvariantDone ==
  /\ pc = "evict" /\ todo = {} /\ reason = "gaming invariant"
  /\ invariant_backoff' = note_invariant_backoff(elapsed)
  /\ degraded' = (degraded \/ EvictionFailed)
  /\ results' = NoResults
  /\ pc' = "refresh"
  /\ UNCHANGED <<machine, state, claims, held, needs_resume, pending, trigger, reason, desired,
                 running_now, preempted, todo, picked, started, elapsed>>

\* The outcomes of tenant preemption are ignored; the ensure-running step follows.
PreemptDone ==
  /\ pc = "evict" /\ todo = {} /\ reason = "tenant preemption"
  /\ results' = NoResults
  /\ todo' = ensure_running_targets(desired, held, preempted)
  /\ pc' = "candidates"
  /\ UNCHANGED <<machine, arbiter, trigger, reason, desired, running_now, preempted, picked,
                 started, elapsed>>

-----------------------------------------------------------------------------
(***************************************************************************)
(* Ensure running, owed resumes, refresh.                                  *)
(***************************************************************************)
\* Mutant: only a unit that owes a resume is a start candidate.
CandidateOwing(u) ==
  /\ pc = "candidates"
  /\ IsNext(u, todo)
  /\ \E r \in is_running(u) :
       picked' = IF r = "running" \/ u \notin needs_resume THEN picked ELSE picked \cup {u}
  /\ todo' = todo \ {u}
  /\ UNCHANGED <<machine, arbiter, pc, trigger, reason, desired, running_now, preempted,
                 results, started, elapsed>>

\* Only a unit not confirmed up is a start candidate.
Candidate(u) ==
  /\ pc = "candidates"
  /\ IsNext(u, todo)
  /\ \E r \in is_running(u) : picked' = IF r = "running" THEN picked ELSE picked \cup {u}
  /\ todo' = todo \ {u}
  /\ UNCHANGED <<machine, arbiter, pc, trigger, reason, desired, running_now, preempted,
                 results, started, elapsed>>

CandidatesDone ==
  /\ pc = "candidates" /\ todo = {}
  /\ todo' = picked
  /\ picked' = {}
  /\ pc' = "start_scan"
  /\ UNCHANGED <<machine, arbiter, trigger, reason, desired, running_now, preempted, results,
                 started, elapsed>>

\* Mutant: only the first start of a pass is preceded by a scan.
StartScanOnce ==
  /\ pc = "start_scan" /\ todo # {}
  /\ \/ ("clear" \in scan \/ started # {}) /\ pc' = "start"
     \/ "claim" \in scan /\ started = {} /\ pc' = "refresh"
  /\ UNCHANGED <<machine, arbiter, trigger, reason, desired, scratch>>

\* The re-scan before each start: a claim stops the starts and the resumes.
StartScan ==
  /\ pc = "start_scan" /\ todo # {}
  /\ \/ "clear" \in scan /\ pc' = "start"
     \/ "claim" \in scan /\ pc' = "refresh"
  /\ UNCHANGED <<machine, arbiter, trigger, reason, desired, scratch>>

\* A failed re-scan abandons the pass, refresh included.
StartScanFails ==
  /\ pc = "start_scan" /\ todo # {}
  /\ "error" \in scan
  /\ Return
  /\ UNCHANGED <<machine, arbiter>>

Start(u) ==
  /\ pc = "start"
  /\ IsNext(u, todo)
  /\ \E ok \in BOOLEAN :
       /\ start(u, ok)
       /\ started' = IF ok THEN started \cup {u} ELSE started
  /\ todo' = todo \ {u}
  /\ pc' = "start_scan"
  /\ UNCHANGED <<game, healed, arbiter, trigger, reason, desired, running_now, preempted, picked,
                 results, elapsed>>

StartsDone ==
  /\ pc = "start_scan" /\ todo = {}
  /\ todo' = resume_targets(desired, held, preempted) \cap needs_resume
  /\ pc' = "resume_probe"
  /\ UNCHANGED <<machine, arbiter, trigger, reason, desired, running_now, preempted, picked,
                 results, started, elapsed>>

\* Mutant: only a unit this pass started is told to resume.
ResumeProbeStartedOnly(u) ==
  /\ pc = "resume_probe"
  /\ IsNext(u, todo)
  /\ \/ u \in started /\ pc' = "resume_scan" /\ UNCHANGED todo
     \/ u \notin started /\ todo' = todo \ {u} /\ UNCHANGED pc
  /\ UNCHANGED <<machine, arbiter, trigger, reason, desired, running_now, preempted, picked,
                 results, started, elapsed>>

\* An owed unit that is not up keeps its resume owed.
ResumeProbe(u) ==
  /\ pc = "resume_probe"
  /\ IsNext(u, todo)
  /\ \/ /\ u \in started \/ "running" \in is_running(u)
        /\ pc' = "resume_scan"
        /\ UNCHANGED todo
     \/ /\ u \notin started /\ \E r \in is_running(u) : r # "running"
        /\ todo' = todo \ {u}
        /\ UNCHANGED pc
  /\ UNCHANGED <<machine, arbiter, trigger, reason, desired, running_now, preempted, picked,
                 results, started, elapsed>>

\* The re-scan before each resume: here a failure counts as a claim.
ResumeScan ==
  /\ pc = "resume_scan"
  /\ \/ "clear" \in scan /\ pc' = "resume"
     \/ scan \cap {"claim", "error"} # {} /\ pc' = "refresh"
  /\ UNCHANGED <<machine, arbiter, trigger, reason, desired, scratch>>

\* units::resume: a resume that fails stays owed.
Resume(u) ==
  /\ pc = "resume"
  /\ IsNext(u, todo)
  /\ \E done \in resume_answers :
       needs_resume' = IF done THEN needs_resume \ {u} ELSE needs_resume
  /\ todo' = todo \ {u}
  /\ pc' = "resume_probe"
  /\ UNCHANGED <<machine, state, claims, held, pending, invariant_backoff, degraded, trigger,
                 reason, desired, running_now, preempted, picked, results, started, elapsed>>

ResumesDone ==
  /\ pc = "resume_probe" /\ todo = {}
  /\ pc' = "refresh"
  /\ UNCHANGED <<machine, arbiter, trigger, reason, desired, scratch>>

\* refresh_substate publishes readings no pass decides on; the pass is over.
Refresh ==
  /\ pc = "refresh"
  /\ Return
  /\ UNCHANGED <<machine, arbiter>>

-----------------------------------------------------------------------------
(***************************************************************************)
(* The machine moves by itself.                                            *)
(***************************************************************************)
GameLaunch ==
  /\ ~game /\ game' = TRUE
  /\ UNCHANGED <<up, healed, arbiter, pc, trigger, reason, desired, scratch>>

GameExit ==
  /\ game /\ game' = FALSE
  /\ UNCHANGED <<up, healed, arbiter, pc, trigger, reason, desired, scratch>>

\* A service manager, an operator or a script starts a unit.
UnitUp(u) ==
  /\ u \notin up /\ up' = up \cup {u}
  /\ UNCHANGED <<game, healed, arbiter, pc, trigger, reason, desired, scratch>>

\* A unit crashes or is stopped from outside.
UnitDown(u) ==
  /\ u \in up /\ up' = up \ {u}
  /\ UNCHANGED <<game, healed, arbiter, pc, trigger, reason, desired, scratch>>

\* Time passes: the ages and the remaining times saturate.
Tick ==
  /\ pending' = IF pending \in 0..Grace - 1 THEN pending + 1 ELSE pending
  /\ invariant_backoff' =
       [u \in Units |-> [left |-> IF invariant_backoff[u].left > 0
                                    THEN invariant_backoff[u].left - 1 ELSE 0,
                          step |-> invariant_backoff[u].step]]
  /\ elapsed' = IF reason = "gaming invariant" /\ elapsed < BackoffMax THEN elapsed + 1
                ELSE elapsed
  /\ UNCHANGED <<machine, state, claims, held, needs_resume, degraded, pc, trigger, reason,
                 desired, running_now, preempted, todo, picked, results, started>>

\* From now on no call fails, and the daemon does not die.
Heal ==
  /\ ~healed /\ healed' = TRUE
  /\ UNCHANGED <<game, up, arbiter, pc, trigger, reason, desired, scratch>>

\* The daemon dies (a panic, a kill) and its service manager restarts it.
Crash ==
  /\ "crash" \in faults
  /\ state' = "available" /\ claims' = FALSE /\ held' = {} /\ needs_resume' = Units
  /\ pending' = NoTime /\ invariant_backoff' = NoBackoff /\ degraded' = FALSE
  /\ pc' = "boot"
  /\ request' = NoUnit /\ reply' = "none" /\ reason' = "none" /\ desired' = "available"
  /\ running_now' = Unprobed /\ preempted' = {} /\ todo' = {} /\ picked' = {}
  /\ results' = NoResults /\ started' = {} /\ elapsed' = 0
  /\ UNCHANGED machine

-----------------------------------------------------------------------------
ManualGate ==
  \/ GateTenant \/ GateScan \/ ManualProbe \/ ManualStart

Decision ==
  \/ ObserveFails \/ Observe \/ DecideEvict \/ DecideSettle \/ CheckDone
  \/ \E u \in Units : ProbeBusy(u) \/ Check(u)

Eviction ==
  \/ ManualStopDone \/ EvictDone \/ InvariantDone \/ PreemptDone
  \/ \E u \in Units : EvictOne(u)

Restore ==
  \/ CandidatesDone \/ StartScan \/ StartScanFails \/ StartsDone \/ ResumeScan \/ ResumesDone
  \/ Refresh
  \/ \E u \in Units : Candidate(u) \/ Start(u) \/ ResumeProbe(u) \/ Resume(u)

\* One await of the pass in progress.
PassStep == ManualGate \/ Decision \/ Eviction \/ Restore

Environment ==
  \/ GameLaunch \/ GameExit \/ Tick \/ Heal \/ Crash
  \/ \E u \in Units : UnitUp(u) \/ UnitDown(u)

Next ==
  \/ BeginPass
  \/ \E u \in Units : BeginManualStart(u) \/ BeginManualStop(u)
  \/ PassStep
  \/ Environment

Spec == Init /\ [][Next]_vars

(***************************************************************************)
(* The task never stops in the middle of a pass (every command it awaits   *)
(* has a time limit), the timer opens a pass whenever the task is idle,    *)
(* and time goes on.  Games, units, operators and failures owe nothing.    *)
(***************************************************************************)
Fairness == WF_vars(PassStep) /\ WF_vars(BeginPass) /\ WF_vars(Tick)

FairSpec == Spec /\ Fairness

-----------------------------------------------------------------------------
(***************************************************************************)
(* `evicting' is announced only while the batch of the available -> gaming *)
(* edge is being stopped: no pass leaves it behind, on any error path.     *)
(***************************************************************************)
EvictingIsTransient ==
  state = "evicting" <=> (pc = "evict" /\ reason = "game")

(***************************************************************************)
(* A unit an operator stopped is brought up by the daemon only at the      *)
(* operator's request for that very unit, and its hold is lifted only when *)
(* that request is answered with success: by a start that reports it, or   *)
(* a unit found up (or the daemon restarts, which forgets every hold).     *)
(***************************************************************************)
HoldKept ==
  /\ \A u \in held : u \in up' \ up => pc' = pc \/ request = u
  /\ \A u \in held \ held' : pc' = "boot" \/ (request = u /\ reply' = "Ok")

HoldRespected == [][HoldKept]_vars

(***************************************************************************)
(* A pass never starts what it is preempting or what is held: no unit is   *)
(* stopped and started by turns while a higher tier is busy.               *)
(***************************************************************************)
NoFightWithItself ==
  pc \in {"start_scan", "start"} => (todo \cup started) \cap (preempted \cup held) = {}

(***************************************************************************)
(* Whatever failed before, and however often the daemon died: once calls   *)
(* have stopped failing, every promise below is kept from any state.       *)
(***************************************************************************)
\* A game that stays is taken note of, for good.
GameIsSeen == <>[](healed /\ game) => <>[](state = "gaming")

\* When the games stay away the GPU is returned, for good.
GpuIsReturned == <>[](healed /\ ~game) => <>[](state = "available")

\* A unit below the game's priority cannot hold the GPU against a game that
\* stays, however often it is restarted and however often it takes a kill.
IntruderIsStopped == \A u \in BelowGame : <>[](healed /\ game) => []<>(u \notin up)

\* With no game, no hold and no demand above it, an eager unit is up again
\* and again, however often it crashes.
EagerComesUp ==
  \A u \in Eager :
    <>[](healed /\ ~game /\ u \notin held /\ u \notin preempted) => []<>(u \in up)

\* A unit that stays up and eligible is told to resume, and owes nothing more.
ResumeIsDelivered ==
  \A u \in Units :
    <>[](healed /\ ~game /\ u \in up /\ u \notin held /\ u \notin preempted) =>
      <>[](u \notin needs_resume)

=============================================================================
