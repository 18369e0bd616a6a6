------------------------------ MODULE Commands ------------------------------
(***************************************************************************)
(* The commands the daemon runs for a unit and how it reads the way they   *)
(* end (src/units.rs): the verbs of its supervisor, its busy_cmd and its   *)
(* resume_cmd.  A command is told by whether it is configured, a run of it *)
(* by how it ended.                                                        *)
(***************************************************************************)

Verbs == {"start", "stop", "is_active", "kill"}

(***************************************************************************)
(* The verbs that have something to run, given those the configuration     *)
(* overrides: all of them for a systemd unit; otherwise the overridden     *)
(* ones, and a kill without a command of its own runs the stop again.      *)
(***************************************************************************)
resolve(overrides) ==
  IF overrides = {} THEN Verbs
  ELSE overrides \cup {v \in {"kill"} : "stop" \in overrides}

\* A run ends with an exit code, by a signal, or in a UnitError: nothing to run (Exit),
\* no process (Control), no end in time (Timeout, and the process is killed).
Statuses   == {"0", "1", "other", "signal"}
UnitErrors == {"Exit", "Control", "Timeout"}
Ends       == Statuses \cup UnitErrors

run_argv(configured) == IF configured THEN Ends \ {"Exit"} ELSE {"Exit"}

\* The command may have had an effect.
spawned(end) == end \notin {"Exit", "Control"}

\* start, stop_unit, kill_unit and resume judge by the exit status.
success(end) == end = "0"

\* is_running: exit 0 is running, any other status stopped, no status an error.
run_state(end) ==
  IF end \in UnitErrors THEN "unknown" ELSE IF success(end) THEN "running" ELSE "stopped"

classify_busy_exit(end) ==
  CASE end = "0"      -> "Busy"
    [] end = "1"      -> "Idle"
    [] end = "other"  -> "IdleOther"
    [] end = "signal" -> "Killed"

\* is_busy: whatever goes wrong reads as idle, and so does a unit without a busy_cmd.
is_busy(end) == end \notin UnitErrors /\ classify_busy_exit(end) = "Busy"

\* resume: nothing is left to do without a resume_cmd, or when it succeeded.
resumed(configured, end) == ~configured \/ success(end)

=============================================================================
