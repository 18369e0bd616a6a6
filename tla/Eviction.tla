------------------------------ MODULE Eviction ------------------------------
(***************************************************************************)
(* The eviction of one unit (src/units.rs, evict_inner): stop it, wait     *)
(* until its VRAM is released and its supervisor says it is stopped, kill  *)
(* it when that takes too long.                                            *)
(*                                                                         *)
(* The code awaits commands and queries one after the other; each is an    *)
(* action, and between two of them the unit goes down, or is brought back  *)
(* by its service manager, its VRAM is taken and released, the game takes  *)
(* VRAM of its own, and time passes.                                       *)
(***************************************************************************)
EXTENDS Integers, Commands

CONSTANTS
  Threshold,  \* vram_free_threshold_mb, in units of the model's VRAM levels
  MaxVram,    \* the most VRAM the unit, or the rest of the machine, may hold
  Timeout,    \* eviction_timeout_s, in ticks
  Settle      \* KILL_SETTLE, in ticks

ASSUME EvictionAssumption ==
  /\ Threshold \in Nat
  /\ MaxVram \in Nat
  /\ Timeout \in Nat
  /\ Settle \in Nat

VARIABLES
  \* The machine.
  setup,         \* what the platform and the unit's configuration allow; never changes
  up,            \* the unit's is-active probe would succeed
  vram,          \* the VRAM the unit's processes hold
  other_vram,    \* the VRAM everything else holds, the game included
  \* The locals of evict_inner.
  pc,            \* the await it is at
  seen_nonzero,  \* a poll has attributed VRAM to the unit
  step,          \* the EvictionStep of the current poll
  waited,        \* time since the stop command returned (up to Timeout)
  settling,      \* time since the kill command returned (up to Settle)
  outcome,       \* what was returned, or "none"
  \* History.
  asked,         \* the stop command: not sent, "ok" or "failed"
  killed,        \* a kill was tried
  answer,        \* the last answer of is_running
  drained        \* the unit held less than the threshold at the last reading

machine == <<setup, up, vram, other_vram>>
history == <<asked, killed, answer, drained>>
vars == <<machine, pc, seen_nonzero, step, waited, settling, outcome, history>>

\* windows: WDDM.  channel: a systemd unit, or one with a vram_match.  backend: the
\* vendor's query lists processes.  sees: that query does list this unit's processes.
\* verbs: what the unit's supervisor has a command for.
Setups ==
  [windows : BOOLEAN, channel : BOOLEAN, backend : BOOLEAN, sees : BOOLEAN,
   verbs : {resolve(overrides) : overrides \in SUBSET Verbs}]

Levels   == 0..MaxVram
Readings == {"running", "stopped", "unknown"}
Outcomes == {"AlreadyClear", "Freed", "Escalated", "Error"}
Steps    == {"Freed", "Escalate", "KeepWaiting"}
Points   == {"probe", "stop", "stop_failed", "kill_failed_stop", "read", "gate",
             "recheck", "kill", "settle", "done"}

TypeOK ==
  /\ setup \in Setups
  /\ up \in BOOLEAN
  /\ vram \in Levels
  /\ other_vram \in Levels
  /\ pc \in Points
  /\ seen_nonzero \in BOOLEAN
  /\ step \in Steps
  /\ waited \in 0..Timeout
  /\ settling \in 0..Settle
  /\ outcome \in Outcomes \cup {"none"}
  /\ outcome # "none" <=> pc = "done"
  /\ asked \in {"no", "ok", "failed"}
  /\ killed \in BOOLEAN
  /\ answer \in Readings \cup {"none"}
  /\ drained \in BOOLEAN

Init ==
  /\ setup \in Setups
  /\ up \in BOOLEAN
  /\ vram \in Levels
  /\ other_vram \in Levels
  /\ pc = "probe"
  /\ seen_nonzero = FALSE
  /\ step = "KeepWaiting"
  /\ waited = 0
  /\ settling = 0
  /\ outcome = "none"
  /\ asked = "no"
  /\ killed = FALSE
  /\ answer = "none"
  /\ drained = FALSE

-----------------------------------------------------------------------------
(***************************************************************************)
(* What the machine answers.                                               *)
(***************************************************************************)
\* The probe's exit status, if it gives one, tells the truth.
probe_ends ==
  {end \in run_argv("is_active" \in setup.verbs) : end \in Statuses => (success(end) <=> up)}

is_running == {run_state(end) : end \in probe_ends}

\* No attribution, or no memory reading, this poll.
NoReading == -1

\* attribute_unit_vram and the query before it, which may fail: an explicit zero when
\* no listed process belongs to the unit.
attribute_unit_vram ==
  {NoReading} \cup
    {v \in {IF setup.sees THEN vram ELSE 0} : setup.channel /\ setup.backend}

\* Mutant: every attribution is trusted.
trust_any_attribution(attributed, seen) == attributed # NoReading

attribution_is_trustworthy(attributed, seen) ==
  attributed # NoReading /\ (attributed > 0 \/ seen)

\* query_memory: the whole device, or an error.
query_memory == {vram + other_vram, NoReading}

\* Mutant: the timeout fires one tick early.
eviction_step_early(mb, elapsed) ==
  IF mb # NoReading /\ mb < Threshold THEN "Freed"
  ELSE IF elapsed + 1 >= Timeout THEN "Escalate"
  ELSE "KeepWaiting"

\* mb is the unit's own VRAM, or the device's as a fallback, or NoReading: a failed
\* read, and every reading on Windows.
eviction_step(mb, elapsed) ==
  IF mb # NoReading /\ mb < Threshold THEN "Freed"
  ELSE IF elapsed >= Timeout THEN "Escalate"
  ELSE "KeepWaiting"

vram_open == step = "Freed" \/ setup.windows

\* Mutant: a freed step wins over the timeout although the unit is up.
poll_step_patient(running, timed_out) ==
  IF vram_open /\ running = "stopped" THEN "Freed"
  ELSE IF step = "Freed" THEN "KeepWaiting"
  ELSE step

\* Freed needs a confirmed stop.
poll_step(running, timed_out) ==
  IF vram_open /\ running = "stopped" THEN "Freed"
  ELSE IF step = "Freed" THEN (IF timed_out THEN "Escalate" ELSE "KeepWaiting")
  ELSE step

-----------------------------------------------------------------------------
(***************************************************************************)
(* evict_inner, one action per await.                                      *)
(***************************************************************************)
GoTo(p) == pc' = p /\ UNCHANGED outcome

Return(o) == pc' = "done" /\ outcome' = o

\* Nothing is done to a unit that is not running, or that cannot be probed.
FirstProbe ==
  /\ pc = "probe"
  /\ answer' \in is_running
  /\ \/ answer' = "stopped" /\ Return("AlreadyClear")
     \/ answer' = "unknown" /\ Return("Error")
     \/ answer' = "running" /\ GoTo("stop")
  /\ UNCHANGED <<machine, seen_nonzero, step, waited, settling, asked, killed, drained>>

\* stop_unit.  Whatever it reports, a command that ran may have taken the unit down.
Stop ==
  /\ pc = "stop"
  /\ \E end \in run_argv("stop" \in setup.verbs) :
       /\ up' \in IF spawned(end) THEN {up, FALSE} ELSE {up}
       /\ \/ success(end) /\ asked' = "ok" /\ GoTo("read")
          \/ ~success(end) /\ asked' = "failed" /\ GoTo("stop_failed")
  /\ UNCHANGED <<setup, vram, other_vram, seen_nonzero, step, waited, settling, killed,
                 answer, drained>>

\* Mutant: a unit that cannot be probed is taken for stopped.
StopFailedTrusting ==
  /\ pc = "stop_failed"
  /\ answer' \in is_running
  /\ IF answer' # "running" THEN Return("Error") ELSE GoTo("kill_failed_stop")
  /\ UNCHANGED <<machine, seen_nonzero, step, waited, settling, asked, killed, drained>>

\* A stop that failed: the unit is killed unless it is known to be stopped.
StopFailed ==
  /\ pc = "stop_failed"
  /\ answer' \in is_running
  /\ IF answer' = "stopped" THEN Return("Error") ELSE GoTo("kill_failed_stop")
  /\ UNCHANGED <<machine, seen_nonzero, step, waited, settling, asked, killed, drained>>

\* kill_unit: SIGKILL, kill_cmd, or stop_cmd once more, or nothing at all.  It may or may
\* not take the unit down, and what is killed holds no VRAM.
kill_unit ==
  /\ killed' = TRUE
  /\ \E end \in run_argv("kill" \in setup.verbs) :
       /\ up' \in IF spawned(end) THEN {up, FALSE} ELSE {up}
       /\ vram' \in IF spawned(end) THEN {vram, 0} ELSE {vram}
  /\ UNCHANGED <<setup, other_vram>>

KillFailedStop ==
  /\ pc = "kill_failed_stop"
  /\ kill_unit
  /\ Return("Error")
  /\ UNCHANGED <<seen_nonzero, step, waited, settling, asked, answer, drained>>

\* unit_vram_reading, then the poll's step: the unit's own VRAM when its attribution is
\* trusted, the whole device otherwise, nothing on Windows.
ReadVram ==
  /\ pc = "read"
  /\ \E attributed \in attribute_unit_vram, total \in query_memory :
       LET trusted == ~setup.windows /\ attribution_is_trustworthy(attributed, seen_nonzero)
           mb == IF setup.windows THEN NoReading ELSE IF trusted THEN attributed ELSE total
       IN  /\ seen_nonzero' = (seen_nonzero \/ (trusted /\ attributed > 0))
           /\ step' = eviction_step(mb, waited)
  /\ drained' = (vram < Threshold)
  /\ GoTo("gate")
  /\ UNCHANGED <<machine, waited, settling, asked, killed, answer>>

\* The unit is probed when VRAM does not stand in the way; then the poll decides.
Gate ==
  /\ pc = "gate"
  /\ IF vram_open THEN answer' \in is_running ELSE answer' = "none"
  /\ LET decision == poll_step(answer', waited >= Timeout)
     IN  \/ decision = "Freed" /\ Return("Freed")
         \/ decision = "Escalate" /\ GoTo("recheck")
         \/ decision = "KeepWaiting" /\ GoTo("read")
  /\ UNCHANGED <<machine, seen_nonzero, step, waited, settling, asked, killed, drained>>

\* Timed out: a unit that stopped meanwhile is not killed.
Recheck ==
  /\ pc = "recheck"
  /\ answer' \in is_running
  /\ IF answer' = "stopped" THEN Return("Freed") ELSE GoTo("kill")
  /\ UNCHANGED <<machine, seen_nonzero, step, waited, settling, asked, killed, drained>>

Kill ==
  /\ pc = "kill"
  /\ kill_unit
  /\ GoTo("settle")
  /\ UNCHANGED <<seen_nonzero, step, waited, settling, asked, answer, drained>>

\* Mutant: a probe that fails is proof that the unit is gone.
WaitUntilStoppedTrusting ==
  /\ pc = "settle"
  /\ answer' \in is_running
  /\ IF answer' # "running" THEN Return("Escalated")
     ELSE IF settling >= Settle THEN Return("Error")
     ELSE GoTo("settle")
  /\ UNCHANGED <<machine, seen_nonzero, step, waited, settling, asked, killed, drained>>

\* wait_until_stopped: the kill is judged by the run state, whatever it reported.
WaitUntilStopped ==
  /\ pc = "settle"
  /\ answer' \in is_running
  /\ IF answer' = "stopped" THEN Return("Escalated")
     ELSE IF settling >= Settle THEN Return("Error")
     ELSE GoTo("settle")
  /\ UNCHANGED <<machine, seen_nonzero, step, waited, settling, asked, killed, drained>>

-----------------------------------------------------------------------------
(***************************************************************************)
(* The machine.  A unit that is down may leave VRAM behind (the driver     *)
(* reclaims it late, a runner escapes its wrapper); it only shrinks.       *)
(***************************************************************************)
locals == <<pc, seen_nonzero, step, outcome, history>>

UnitDown ==
  /\ up
  /\ up' = FALSE
  /\ UNCHANGED <<setup, vram, other_vram, waited, settling, locals>>

UnitUp ==
  /\ ~up
  /\ up' = TRUE
  /\ UNCHANGED <<setup, vram, other_vram, waited, settling, locals>>

UnitVram ==
  /\ vram' \in IF up THEN Levels ELSE 0..vram
  /\ UNCHANGED <<setup, up, other_vram, waited, settling, locals>>

OtherVram ==
  /\ other_vram' \in Levels
  /\ UNCHANGED <<setup, up, vram, waited, settling, locals>>

\* One tick of the timer that runs.
Tick ==
  /\ \/ pc \in {"read", "gate"} /\ waited < Timeout
        /\ waited' = waited + 1 /\ UNCHANGED settling
     \/ pc = "settle" /\ settling < Settle
        /\ settling' = settling + 1 /\ UNCHANGED waited
  /\ UNCHANGED <<machine, locals>>

EvictStep ==
  \/ FirstProbe \/ Stop \/ StopFailed \/ KillFailedStop \/ ReadVram \/ Gate
  \/ Recheck \/ Kill \/ WaitUntilStopped

Environment == UnitDown \/ UnitUp \/ UnitVram \/ OtherVram

Next == EvictStep \/ Tick \/ Environment

Spec == Init /\ [][Next]_vars

\* Every command has a time limit and the task waits for nothing else; time goes on.
Fairness == WF_vars(EvictStep) /\ WF_vars(Tick)

FairSpec == Spec /\ Fairness

-----------------------------------------------------------------------------
(***************************************************************************)
(* VRAM opens the gate before the timeout only if the unit really had      *)
(* released it: a query that cannot see the unit, a failing one or the     *)
(* VRAM of the game are never mistaken for a drained unit.                 *)
(***************************************************************************)
EarlyReleaseIsDrained ==
  outcome = "Freed" /\ waited < Timeout /\ ~setup.windows => drained

(***************************************************************************)
(* The kill is the last resort: it follows a failed stop, or a stop that   *)
(* had its whole timeout, and the probe before it did not find the unit    *)
(* stopped.                                                                *)
(***************************************************************************)
KillIsLastResort ==
  [][killed' # killed =>
       /\ asked = "failed" \/ (asked = "ok" /\ waited = Timeout)
       /\ answer \in {"running", "unknown"}]_vars

(***************************************************************************)
(* An error of a unit that was asked to stop leaves no stone unturned: a   *)
(* kill was tried, or the last probe found it stopped.                     *)
(***************************************************************************)
ErrorMeansKilled ==
  outcome = "Error" /\ asked # "no" => killed \/ answer = "stopped"

(***************************************************************************)
(* An eviction ends, whatever the unit, its VRAM and the probes do.        *)
(***************************************************************************)
EvictionEnds == <>(pc = "done")

(***************************************************************************)
(* docs/reference.md:335 and src/reconcile.rs:680: a unit whose run state  *)
(* cannot be determined counts as running and is stopped.                  *)
(***************************************************************************)
UnsureIsStopped == outcome # "none" /\ answer = "unknown" /\ up => asked # "no"

(***************************************************************************)
(* One step of Reconcile.  Between its first probe and its answer the      *)
(* eviction counts as a running unit; at the answer, the run state is the  *)
(* machine's.                                                              *)
(***************************************************************************)
Busy == pc \notin {"probe", "done"}

reported == IF up \/ Busy THEN {"unit"} ELSE {}

Coarse == INSTANCE Reconcile WITH
  Units <- {"unit"}, Rank <- [u \in {"unit"} |-> 0], Priority <- [u \in {"unit"} |-> 0],
  GamePriority <- 1, Eager <- {}, HasBusyCmd <- {}, Grace <- 0, BackoffMin <- 1,
  BackoffMax <- 1, NoUnit <- "none", Faults <- {"probe", "slow", "stop"},
  game <- TRUE, up <- reported, healed <- FALSE,
  state <- "evicting", claims <- TRUE, held <- {}, needs_resume <- {}, pending <- 0,
  invariant_backoff <- 0, degraded <- FALSE, pc <- "evict", request <- "none",
  reply <- "none", reason <- "game", desired <- "gaming", running_now <- 0,
  preempted <- {}, todo <- {}, picked <- {}, results <- 0, started <- {}, elapsed <- 0

(***************************************************************************)
(* Reconcile may take the eviction of a unit for one step: every eviction  *)
(* is one of the outcomes it allows, a stop of the unit where it reports   *)
(* success, and before and after it the unit is on its own.                *)
(***************************************************************************)
EvictionIsOneStep ==
  [][\/ outcome' # outcome /\ Coarse!evict_timed("unit", outcome')
     \/ outcome' = outcome /\ (UNCHANGED reported \/ (~Busy /\ ~Busy'))]_vars

=============================================================================
