-------------------------- MODULE ReconcileHistory --------------------------
(***************************************************************************)
(* Reconcile with history variables: what an observer of the machine and   *)
(* of the daemon remembers.  They are functions of the steps Reconcile     *)
(* takes and restrict none of them; the properties that relate a state to  *)
(* earlier ones are stated with them.                                      *)
(***************************************************************************)
EXTENDS Reconcile

VARIABLES
  came_back,   \* units that came up by themselves since `evicting' was announced
  tenured,     \* units that have been up since the current pass began
  fresh,       \* the game that runs was launched after the last scan
  quiet,       \* ticks since an observation last saw a claim (up to Grace)
  unrepaired,  \* units whose last eviction for the game of this session failed
  parked       \* units evicted, or tried, since their last successful resume

hvars == <<vars, came_back, tenured, fresh, quiet, unrepaired, parked>>

AtRest == {"boot", "idle"}
ScanPoints == {"observe", "gate_scan", "start_scan", "resume_scan"}

HInit ==
  /\ Init
  /\ came_back = {}
  /\ tenured = {}
  /\ fresh = game
  /\ quiet = Grace
  /\ unrepaired = {}
  /\ parked = {}

\* A unit comes up by itself in a step that does not move the pass.
RecordCameBack ==
  came_back' = IF state' = "available" THEN {}
               ELSE (came_back \cap up') \cup {u \in up' \ up : pc' = pc}

RecordTenured ==
  tenured' = IF pc' \in AtRest THEN {}
             ELSE IF pc \in AtRest THEN up ELSE tenured \cap up'

RecordFresh ==
  fresh' = (game' /\ (~game \/ (fresh /\ ~(pc \in ScanPoints /\ pc' # pc))))

RecordQuiet ==
  quiet' = IF pc = "observe" /\ pc' = "probe" /\ game THEN 0
           ELSE IF Tick /\ quiet < Grace THEN quiet + 1 ELSE quiet

\* The batches stopped for the game: the edge's, and those of the gaming invariant.
RecordUnrepaired ==
  unrepaired' = IF state' = "available" THEN {}
                ELSE IF pc = "evict" /\ pc' = "refresh"
                  THEN (unrepaired \ Evicted) \cup {u \in Units : results[u] = "Error"}
                  ELSE unrepaired

RecordParked ==
  parked' = (parked \cup {u \in Units : results'[u] \notin {results[u], "none"}})
              \ {u \in needs_resume \ needs_resume' : pc = "resume"}

Remember ==
  /\ RecordCameBack
  /\ RecordTenured
  /\ RecordFresh
  /\ RecordQuiet
  /\ RecordUnrepaired
  /\ RecordParked

HNext == Next /\ Remember

HSpec == HInit /\ [][HNext]_hvars

HTypeOK ==
  /\ TypeOK
  /\ came_back \subseteq up
  /\ tenured \subseteq up
  /\ fresh \in BOOLEAN
  /\ quiet \in 0..Grace
  /\ unrepaired \subseteq Units
  /\ parked \subseteq Units

-----------------------------------------------------------------------------
(***************************************************************************)
(* While the state is `gaming', every unit below the game's priority that  *)
(* is up came back by itself after the eviction was announced, or is one   *)
(* whose last stop needed the kill or failed and that is in its backoff    *)
(* ("freed" is the unit not running).                                      *)
(***************************************************************************)
FreedForGame ==
  state = "gaming" =>
    \A u \in up \cap BelowGame : u \in came_back \/ invariant_backoff[u].step > 0

(***************************************************************************)
(* At the end of a pass that acted on a game, no unit below its priority   *)
(* has been up through the whole pass, unless it is in backoff: a unit     *)
(* that comes back in the middle of a game lives at most one pass more.    *)
(***************************************************************************)
NoTenuredSurvivor ==
  pc = "refresh" /\ desired = "gaming" =>
    \A u \in tenured \cap BelowGame : invariant_backoff[u].step > 0

(***************************************************************************)
(* When the tenant preemption of a pass is over, a unit below the demand   *)
(* that has been up through the pass is one whose eviction failed: the     *)
(* readings probe_busy took earlier in the pass hide no running unit.  And *)
(* the pass starts none of those units again.                              *)
(***************************************************************************)
LadderEnforced ==
  /\ pc = "evict" /\ todo = {} /\ reason = "tenant preemption" =>
       \A u \in tenured \cap preempted : results[u] = "Error"
  /\ pc \in {"start_scan", "start"} => (todo \cup started) \cap preempted = {}

(***************************************************************************)
(* A unit is started, or told to resume, with a game running only if the   *)
(* game was launched after the scan made for that very start or resume.    *)
(***************************************************************************)
NoStartIntoKnownGame ==
  pc \in {"manual_start", "start", "resume"} /\ game => fresh

(***************************************************************************)
(* Gaming ends only when no observation of the last game_exit_grace_s saw  *)
(* a claim (a restart of the daemon forgets the game and is not an end).   *)
(***************************************************************************)
GraceHonoured ==
  [][state = "gaming" /\ state' = "available" /\ pc' # "boot" => quiet = Grace]_hvars

(***************************************************************************)
(* While gaming, `degraded' is set as long as the last eviction of some    *)
(* unit for the game, on the edge or by the gaming invariant, failed:      *)
(* later clean evictions of other units, manual actions and abandoned      *)
(* passes included.  A manual stop that fails does not set it, nor does a  *)
(* tenant preemption: docs/reference.md:318-327 says that every eviction   *)
(* does, src/state.rs:292 speaks of the one on the edge alone.             *)
(***************************************************************************)
DegradedTellsTheTruth ==
  state = "gaming" /\ unrepaired # {} => degraded

(***************************************************************************)
(* No eviction is forgotten: a unit evicted and not successfully resumed   *)
(* since owes a resume, across failed passes and restarts of the daemon;   *)
(* and a unit held by an operator owes one.                                *)
(***************************************************************************)
ResumeNeverLost == parked \cup held \subseteq needs_resume

-----------------------------------------------------------------------------
(***************************************************************************)
(* The reconcile task implements the handover.                             *)
(***************************************************************************)
Backed == {u \in BelowGame : invariant_backoff[u].step > 0}

Handover == INSTANCE GpuHandover WITH
  Displaceable <- BelowGame,
  phase <- state,
  tenants <- (up \cap BelowGame) \ came_back,
  excused <- Backed

HandsOver == Handover!Spec

=============================================================================
