# gpu-arbiter: models and proofs

gpu-arbiter is a daemon for a desktop with one GPU. It watches the process table for games,
stops the managed services ("units": model servers, image generators) that hold the GPU when a
game starts, and brings them back when the game is over; between games it lets a busy unit of a
higher priority displace those below it. This directory holds the TLA+ models of the daemon, the
TLC runs that check them and the TLAPS proofs about them.

## The system

Paths are relative to the repository (`src/...` is the crate).

| Component | State | Operations | Interacts with |
|---|---|---|---|
| Reconcile task (`src/reconcile.rs`, `src/state.rs`) | `ArbiterState`: state, claims, held, needs_resume, game_exit_pending_since, invariant_backoff, degraded; the locals of a pass | one pass per trigger: manual action, observe, decide, evict, preempt, ensure running, resume, refresh | sole writer of `ArbiterState`, sole caller of unit commands; scans the process table; answers HTTP handlers over a oneshot |
| Pass decisions (`src/reconcile.rs`) | none | `effective_demand`, `preempted_units`, `unit_action`, `debounce_game_exit`, `resume_targets`, `ensure_running_targets`, `next_invariant_backoff` | called by the pass |
| Unit control (`src/units.rs`) | locals of one eviction (`seen_nonzero`, clocks); counters of failed hooks | `is_running`, `is_busy`, `start`, `resume`, `evict_timed` (stop, poll, kill, settle) | runs `systemctl` or configured commands; reads VRAM through `src/gpu.rs` |
| Trigger loop (`src/main.rs`) | bounded channel (64), timer, cancellation token | startup pass, binding of the listeners, select, debounce of process events, shutdown | feeds the reconcile task; joins it with a time limit |
| Process monitor (`src/procmon.rs`) | dropped-event counter | forwards exec/exit events, drops when the channel is full | trigger channel |
| HTTP API (`src/http.rs`) | none of its own | `/status`, `/metrics`, start and stop of a unit (enqueue, await the reply) | reads `ArbiterState`; trigger channel |
| Control socket (`src/http.rs`) | a path in the file system | probe for a live owner, unlink, bind in a staging directory, rename without replacing | other daemons at the same path |
| Presence (`src/presence.rs`) | last input time, device count, health flag; the map of pumps | watches input devices, re-enumerates | read by `refresh_substate` |
| GPU and cgroup readings (`src/gpu.rs`, `src/cgroup.rs`) | none | VRAM totals, per-process VRAM, attribution to a unit | eviction gate, `/status` |
| Classification, configuration (`src/classify.rs`, `src/config.rs`) | none | name matching; file parsing and linting | give the claim predicate and the constants |
| Clients (`src/cli.rs`, `src/main.rs`, `src/bin/gpu-arbiter-tray.rs`) | the words not yet read; the last state shown, a deadline | argument parsing, `--check-config`, `status`, `wait`, `watch`, the tray's poll loop | poll `/status` |

What is hard here is time. A pass is one sequential function, but every step of it is an await that
may take seconds, and the machine does not wait: games launch between the scan and the start they
were scanned for, service managers restart what the daemon has just stopped, probes fail, kills are
needed, the daemon dies with everything it knew. The state a pass reads at its top (the claims, the
run states, the held set) is used many awaits later. And what the daemon promises (a game has the
GPU, a hold is respected, a displaced service hears that it may resume) spans many passes.

What makes each component correct:

- reconcile task: nothing is stopped before `evicting` is published, and `gaming` means the GPU is
  freed and stays freed; no unit is started into a known game, or against a hold or the ladder; every
  eviction owes a resume until one succeeds; the exit grace is served; a failure shows; and all of
  it eventually happens;
- unit control: `Freed` and `Escalated` mean the unit is confirmed stopped, and an eviction ends;
- trigger loop: no manual trigger is lost in a burst of events, dropped events cost one timer
  period, shutdown lets the pass in flight finish;
- control socket: one live owner of the path, and no live owner is ever unlinked;
- presence: nobody is present without a cause, and a monitor that sees nothing finds out and says so;
- process listener: what was missed shows in its counter, and nothing it meets makes it push a
  trigger too many or stop early;
- observation: the claims of a pass, and every run state, model and VRAM figure of `/status`, are of
  this observation, and it is bounded in time;
- clients: an exit code means what a script takes it for, no typing error starts a daemon, changes
  that are announced chain, and a state that stays is shown.

## Modules

| Module | Models |
|---|---|
| `Policy` | the pure decisions of a pass, under their names in the source |
| `Commands` | the commands of a unit: which verbs have one, how a run ends, how the daemon reads that |
| `Reconcile` | the reconcile task and the machine: one action per await of a pass, and the environment |
| `ReconcileHistory` | `Reconcile` with history variables, the properties that relate a state to earlier ones, and the refinement mapping to `GpuHandover` |
| `GpuHandover` | the promise to games, with no pass, probe or clock |
| `ReconcileProofs` | theorems and proofs about the task, about what its observer remembers, and about single passes |
| `MCReconcile`, `MCReconcileHistory` | two units and their priorities, for TLC |
| `Eviction` | the eviction of one unit: stop, poll, gate, kill, settle; shown to be one step of `Reconcile` |
| `EvictionProofs` | theorems and proofs |
| `ProcScan` | the process table, the walk over `/proc` and the classification of what it finds |
| `Substate` | the refresh that ends a pass: GPU processes, cgroups, units, memory |
| `SubstateProofs` | theorems and proofs about both |
| `MCSubstate` | two pids, seven programs and two units, for TLC |
| `TriggerLoop` | what makes the task run a pass: startup, channel, debounce, timer, process events, HTTP handlers, shutdown |
| `TriggerLoopProofs` | theorems and proofs |
| `MCTriggerLoop` | two manual actions and a request for an unmanaged unit, for TLC |
| `ProcListener` | the netlink listener between the kernel's buffer and the channel; shown to be the listener of `TriggerLoop` |
| `ProcListenerProofs` | theorems and proofs |
| `ControlSocket` | daemons that start, serve and die at one `socket_path` |
| `ControlSocketProofs` | theorems and proofs |
| `MCControlSocket` | two daemons with one TCP address and one with its own, or one each |
| `Presence` | the watcher of the input devices and its pumps |
| `PresenceView` | `Presence` with the snapshot a pass takes of it and what `/metrics` makes of that |
| `PresenceProofs` | theorems and proofs |
| `MCPresenceView` | a keyboard and a streamed pad |
| `Configuration` | which files load, what `--check-config` warns of, where a client looks for its daemon |
| `CommandLine` | the argument parser, word by word |
| `Client` | `status`, `wait`, `watch` and the tray from the command line to the exit code |
| `ClientProofs` | theorems and proofs |
| `MCClient` | every command line of up to `MaxWords` words, and a few longer ones |

How they fit: `TriggerLoop` decides when a pass runs and `ProcListener` is one of its producers;
`Reconcile` is the pass, `Eviction` is what one of its steps does inside, `ProcScan` and `Substate` are
the observations it opens and ends with, `Commands` is how all of them read a command; and
`GpuHandover` is what the pass promises to a game. `ControlSocket` is how the requests of
`TriggerLoop` get a place to arrive, `Presence` a reading published beside the state, and `Client` what
reads the result.

### How Reconcile corresponds to the code

`pc` names the await `reconcile_with` is at. The locals of the function that live across an await
are variables: `desired`, `running_now` (the map `probe_busy` returns), `preempted`, `started`,
`results` (the vector `evict_units` returns), and `todo`/`picked`, which are the remaining and the
collected elements of whichever loop the pass is in. The fields of `ArbiterState` that a decision
reads are variables under their names; the claim list is kept as whether it is empty; instants
(`game_exit_pending_since`, `until`) are kept as ages and remaining times in ticks.

| Part of `reconcile_with` | Actions |
|---|---|
| `ManualStart` arm, `preempting_tenant`, `claim_appeared`, `manual_start` | `BeginManualStart`, `ProbeBusy`, `GateTenant`, `GateScan`, `ManualProbe`, `ManualStart` |
| `ManualStop` arm | `BeginManualStop`, `EvictOne`, `ManualStopDone` |
| observe, lock section | `Observe`, `ObserveFails` |
| `probe_busy`, demand, `unit_action` | `ProbeBusy`, `DecideEvict`, `DecideSettle` |
| `Evict` arm | `EvictOne`, `EvictDone` |
| gaming invariant | `Check`, `CheckDone`, `EvictOne`, `InvariantDone` |
| tenant preemption | `Check`, `CheckDone`, `EvictOne`, `PreemptDone` |
| ensure running | `Candidate`, `CandidatesDone`, `StartScan`, `StartScanFails`, `Start` |
| owed resumes | `StartsDone`, `ResumeProbe`, `ResumeScan`, `Resume`, `ResumesDone` |
| `refresh_substate` and return | `Refresh` |

The environment launches and ends games, brings units up and down by itself, lets time pass and
kills the daemon. `Faults` says which calls may fail: the scan, a probe, a start, a stop that needs
the kill (`slow`), a stop that fails, a resume, the process itself. `healed` says that they have
stopped failing (`slow` stops go on): the liveness properties are about what happens from then on,
from whatever state the failures have left. What `is_busy` and `resume` answer is computed with
`Commands` from how their command ends. The eviction of one unit
(`units::evict_timed`) is one step whose outcome says what its last probe saw; an error says nothing
about the unit. A start may fail and still bring the unit up, or succeed and leave it down (what a
`start_cmd` exits with says nothing about the unit). A manual start is refused on the state of the
previous pass, as in the code.

Left out of the module: metrics, `last_evictions`, the rate limit of a warning, VRAM readings and
the published sub-state (the module `Substate`), none of which a decision reads.

### History variables

`came_back` (units that came up by themselves since `evicting` was published), `tenured` (units up
since the pass began), `fresh` (the running game was launched after the last scan), `quiet` (ticks
since an observation saw a claim), `unrepaired` (units whose last eviction for the game of this
session failed, on the edge or by the gaming invariant; what a manual stop comes to is not in it)
and `parked` (units evicted since their last successful resume). `HNext` is `Next` with their
updates; they are functions of the step and restrict nothing.

### How Eviction corresponds to the code

The actions are the awaits of `evict_inner`: `FirstProbe`, `Stop`, `StopFailed`, `KillFailedStop`,
then `ReadVram` and `Gate` (one turn of the poll loop), `Recheck`, `Kill` and `WaitUntilStopped`.
`seen_nonzero`, `step` and the two clocks are its locals. `setup` is what the platform and the unit's
configuration allow (Windows, a way to tell the unit's processes, a vendor query that lists them, and
the verbs the unit has a command for, `Commands!resolve`); it is chosen once. A command ends with an
exit status, by a signal, or in an error of the daemon's own, and is read as `Commands` says.

VRAM is a level: the unit's own (`vram`, which may stay behind for a while after its
process is gone) and everything else's. Whether the vendor's query lists the unit's processes is taken
to be constant during one eviction (`setup.sees`): a query that lists some of them only would make
an attributed reading that is too low, and the gate open early. `Coarse` instantiates `Reconcile`
and `EvictionIsOneStep` says that the way from the call to its answer is an outcome `evict_timed`
of `Reconcile` allows; the two modules would not fit if either drifted from the code.

### How ProcScan and Substate correspond to the code

`ListProc`, `ReadProc` and `ScanDone` are `observe`: one listing, then one read per entry, while
processes exec and exit. A command line is the set of texts it contains; `classify` and
`match_pattern` keep the order of the rules. The refresh is `QueryCompute`, `ReadCgroup` for each
listed process, `IsRunning` and `LoadedModels` of each unit (the futures of one `join_all`, in any
order), and `QueryMemory`, which publishes. `found` is what the futures will return, `units` what
`/status` shows: until the end that is `Earlier`, the result of the refresh before. `left` is what
remains of the time limit of each command in flight, and `elapsed` adds up to `RefreshIsBounded`.
`was`, `then`, `steady` and `witnessed` record what was true meanwhile. The figures of the list may
be wrong (a cell that is no number is a 0), so the properties about VRAM are stated with what the
processes held (`Held`, from `then`) and not with the list. A run begins with the walk or with the
refresh, since nothing is handed from one to the other but the claims.

Three things are idealised. The reads of `/proc`, of the cgroups and of an AMD card's sysfs have no
time limit in the code and take no time here; what becomes of the daemon when one of them never
returns is in `TriggerLoop`. The read of a process that is alive succeeds, as it does for a daemon
that runs as root. And a unit that moves its processes into scopes of its own, below its cgroup, is
left out; a container that has a `system.slice` further down its path is not.

### How TriggerLoop and ProcListener correspond to the code

| Code | Actions |
|---|---|
| `async_main` up to the shutdown | the startup pass (`Init` is at its observation), `SpawnTasks`, `Bind`, `BindFails`, `SignalUnhandled` |
| `do_start_uds` and its siblings, `guard_loopback`, `guard_unit`, `enqueue_and_await` | `Submit`, `HangUp` |
| `procmon::run`, seen from the channel | `ExecOrExit` (the kernel tells it, or not), `Forward` (pushes, or drops), `ListenerExits` |
| `select!` of `reconcile_task` | `SelectCancel`, `SelectTimer`, `SelectReceive` |
| `debounce_proc_events` | `DebounceElapsed`, `DebounceReceive` |
| the pass | `Handle` (the manual action and its reply), `Observe` (may fail), `EndPass`; each may hang in a blocking read |
| end of `async_main` and of `run` | `Signal`, `Stop`, `Leave` (every task is dropped), `Exit` (the runtime's drop has waited for the blocking reads) |

The channel is a sequence of at most `Depth` triggers with a queue of waiting handlers, because
tokio's `mpsc` hands a freed slot to the one that has waited longest. A trigger is the request it
answers, `ProcEvent`, `Timer` or `Startup`. Time is a `Tick` that moves the debounce deadline, the
interval and the join limit together. The interval does not skip missed ticks, so `due` counts them.
A pass hangs (`wedged`) only in a `spawn_blocking` closure that does not return, in the scan of
`/proc`, a cgroup or a sysfs file: everything else it awaits has a time limit. Such a closure is not
ended by the end of its task, and keeps the process in `leaving`.

In `ProcListener` the listener has its code's shape: `Connect`, `Subscribe`, `Recv`, then one of
`SkipCorrupt`, `SkipNoise`, `TrySendOk`, `TrySendFull` and `TrySendClosed` for every message of the
datagram; `RecvOverrun` is `ENOBUFS`. `Coarse` instantiates `TriggerLoop`, and `ListenerIsCoarse` says
that each of its steps is a step of the listener there or leaves what that listener shows alone.

### How ControlSocket corresponds to the code

One action per await of `bind_uds`, for each daemon: `Probe`, `Unlink`, `Stage`, `Listen`,
`RestrictMode`, `rename_no_replace`, `CleanUp`; before them `BindTcp`, after them the shutdown,
which drops the TCP listener and the socket in either order, and `Die` anywhere. `path` names who
listens at the socket file, so a file that outlives its listener is a `Leftover`. Staging
directories have unique names here (in the code, a process id and a counter).

### How Presence corresponds to the code

`watched` is the map of pumps; a pump is `gone` between the unplugging of its device and the error
that tells it, and `ended` until `reenumerate` notices. `SetDeviceCount` and `SetHealthy` are two
steps, as they are two stores; `ReadLastInput`, `ReadDevices` and `ReadHealth` are three, as they are
three loads. `silence` is the true age of the last human input, against which the wall clock's
verdict is judged.

### How CommandLine, Configuration and Client correspond to the code

`Inform`, `TakeSwitch`, `TakeValue`, `TakeEquals`, `TakePositional` and `UnknownFlag` are the arms of the
`match` in `parse_args`, `Finalize` the checks after it. `Configuration` is functions only: `Loads`,
`introspection`, `ollama_base_url`, `check_config`, `resolve_daemon_url`, of files reduced to what they
tell apart. In `Client` a poll is `Send`, `Answer`, and `Status`, `Wait`, `Watch` or `Tray`, which acts on
the answer; the daemon publishes, dies, restarts (`Publish`, `Restart`, `Fail`) and may be wedged in
between: it accepts, and does not answer. `during` is what it published while the request was open.

## Runs

| Run | Bounds | Shows |
|---|---|---|
| `game` | 2 units below the game, the higher with a `busy_cmd`, every fault, `Grace` 2, backoff fixed at 1, with history | `FreedForGame`, `NoTenuredSurvivor`, `LadderEnforced`, `NoStartIntoKnownGame`, `DegradedTellsTheTruth`, `ResumeNeverLost`, `GraceHonoured`, and the refinement `HandsOver` |
| `live` | one unit above the game and one below, every fault until `healed`, `Grace` 2, backoff 1 to 2, fair task and timer | `GameIsSeen`, `GpuIsReturned`, `IntruderIsStopped`, `EagerComesUp`, `ResumeIsDelivered`; `HoldRespected` |
| `kill` | `Threshold` 2, VRAM 0 to 2, `Timeout` 2, `Settle` 1, every setup, fair | `EarlyReleaseIsDrained`, `ErrorMeansKilled`, `KillIsLastResort`, `EvictionIsOneStep`, `EvictionEnds` |
| `unsure` | violation, same bounds | a unit that is up and cannot be probed is not stopped, against `docs/reference.md:335` |
| `trigger` | 2 manual actions and a request for an unmanaged unit, `Depth` 1, `Window` 2, `Interval` 1, `JoinLimit` 1, fair | `NoRequestLost`, `PassIsNotAborted`; `EveryClientIsAnswered`, `ChangesAreSeen`, `ShutdownGoesThrough` |
| `listener` | kernel buffer of 2 datagrams of at most 2 messages, channel of 2, `MaxEmitted` 5 | `MissesShow`; `ListenerIsCoarse` |
| `socket` | 3 daemons, two with one TCP address, the third with its own and unreliable | `RefusalHasCause`; `OneAddressOneOwner` |
| `stolen` | violation, 2 daemons, an address each | a live socket is unlinked by a second daemon, against `src/http.rs:793` |
| `desk` | a keyboard and a streamed pad, clock 0 to 1, set back by at most 1, `Threshold` 1, fair | `PresenceIsEarned`; `BlindnessEnds`, `HotplugIsSeen` |
| `client` | every line of up to 3 of 21 words and three longer ones, every file, `PollInterval` 1, `DefaultTimeout` 3, fair | `ExitCodesTellTheTruth`, `NoAccidentalDaemon`; `ChangesChain`, `CommandsEnd`, `StaysShown` |
| `hang` | violation, one plain `wait` | it never exits when the daemon accepts and does not answer, against `src/cli.rs:97` |
| `substate` | 2 pids, 7 programs, 2 patterns, 2 units, limits of 1 for a unit's commands, `MaxMoves` 2 | `ClaimsAreOfTheWalk`, `StatusIsOfThisRefresh`, `VramIsTheUnits`, `RefreshIsBounded` |

The type invariants of `Reconcile`, `ReconcileHistory`, `Eviction`, `TriggerLoop`, `ProcListener`,
`ControlSocket`, `PresenceView` and `Client`, and the properties of `Reconcile` and `ControlSocket` that no run lists
(`EvictingIsTransient`, `NoFightWithItself`, `NeverReplaced`, `ListensPrivately`), are proved.

Why the bounds are enough to be interesting: two units are needed for the ladder (one displaces the
other) and for a batch in which one eviction fails and the other does not; the pass treats units
independently beyond that, so a third repeats the same pairs. `Grace` 2 makes the three cases of the
debounce (no window, inside, elapsed) happen, with a claim that comes back inside. Backoff 1
to 2 makes the first interval, the doubling and the cap happen. Time is not tied to passes: any
number of ticks fits between two awaits, so every ratio of an eviction's length to the grace and to
the backoff occurs.

For an eviction, `Threshold` 2 separates no VRAM, a residue below the threshold and VRAM above it,
and two ticks of `Timeout` let it be released before, at and after the limit. A channel of `Depth` 1
is filled by one event, which makes handlers wait for a slot and for one another; `Window` 2 lets a
burst be ended by the deadline or by a request inside it, and is the least with which a window that
starts again at every event would never end; the timer falls due at any point of it; `MaxDue` 1 is a
backlog that starts again as soon as it is worked off; `JoinLimit` lets the join win and lose against
a pass. In `listener` two datagrams of two messages and one more fill the kernel's buffer and overrun
it while the listener is inside a datagram, and the channel is filled by one of them.

Three daemons are one more than any of the races needs: a starter, an owner, and one that stops; the
two with the same address are interchangeable, hence the symmetry. Presence needs a device that
counts and one that does not, and a clock that moves past the threshold and back by less than all of
it. Three words are a subcommand with an option and its value; the longer lines put `--for` and
`--timeout` before and behind their subcommand. In `substate` two pids are one that stays and one that
is reused, two moves let a process be replaced twice or a unit stop and a process with it, and the
programs are chosen so that each source of a wrong figure is there: a service of the same name in a
user's session and in a container of that session, a number the driver does not tell, of a systemd
unit and of one driven by commands, a game that does not compute, a launcher one pattern vetoes and
another is for. `Earlier` shows both units running with a model, which a refresh must not carry over.
A tick for each command of a unit is enough to tell units asked at once from units asked in turn; the
queries of the device, which come before and after them in any case, take none in this run.

`CHECK_DEADLOCK FALSE` stands where the program may end: a client exits, the daemon stops, the
listener returns, a walk or a refresh is over.

### Fairness

- `live` (`Reconcile!Fairness`): the pass in flight goes on, because every command it awaits has a
  time limit (`src/units.rs`, `SYSTEMCTL_TIMEOUT` and the limits of hooks); the timer opens a pass
  when the task is idle (`interval.tick()` in the select); time goes on. Games, units, operators and
  failures are not fair; what is promised is promised once the failures have stopped (`healed`).
- `kill`: the steps of the eviction go on and time passes, for the same reason.
- `trigger`: a pass ends unless it hangs, startup steps are taken, time goes on, and the branches of
  the two `select!`s are strongly fair: tokio polls them in a random order and neither is `biased`, so
  a branch that is ready again and again is taken some day. A scan may fail any number of times but
  not for ever. Nothing is assumed of a pass that hangs (`wedged`): the properties about clients and
  changes excuse that state; the join does not (first part of `ShutdownGoesThrough`), and the end of
  the process has to (second part). Clients, events and signals are not fair.
- `desk`: the watcher is scheduled, its timer ticks, a pump hears that its device is gone, and a
  device that is tried again and again opens; hotplug events may all be lost.
- `client`: the process runs and time passes. A daemon that serves answers; a wedged one does not have
  to, and nothing brings a dead one back.

## Proofs

Everything below is proved with TLAPS for every value of the constants the named assumptions allow,
and TLC evaluates each assumption in a run. Each invariant was checked by TLC on a small instance
before it was proved. Every safety invariant and every action property that a passing run
checks is proved.

The theorems of the library about induction take an operator as a parameter, which the provers cannot
instantiate; that `<` is well founded on the naturals does not. So a proof that would be an induction
takes a least counterexample (`LeastOf`, from `WFMin`), and the sums over sets and the concatenations
that the library defines by recursion can be proved about.

For `Reconcile`, from `PolicyAssumption` and `ReconcileAssumption` (any units, priorities, faults,
grace and backoff bounds):

- `TypeCorrect`: `Spec => []TypeOK`, and `HistoryTypes`: `HSpec => []HTypeOK`.
- `EvictingTransient`, `NoFight`, `HoldsAreRespected`. They follow from `IInv`, which adds to `TypeOK`
  the shape of a pass: `StateShape` (the published state at each point), `LocalsShape` (the locals
  that are still empty there) and `TargetsShape` (which units the restoring loops may visit).
  `TypeOK` alone is not enough for any of them: that the start loop avoids held units, for one,
  depends on `held` being changed only where no loop runs.
- `GpuIsFreed`: `HSpec => []FreedForGame`. It is not inductive: it is made true while `evicting`,
  unit by unit. `FreedShape` adds that while `evicting` each unit below the game that is up is still
  to be visited, came back, or failed; that a unit whose eviction did not fail and that is up came
  back; and that nothing is backed off outside `gaming`.
- `ImplementsHandover`: `HSpec => HandsOver`, every step of the task is a step of `GpuHandover` or a
  stutter, from `IInv` and `FreedShape`; and `HandoverIsExclusive`, what `GpuHandover` promises, kept by
  the task.
- `NoStartMeetsKnownGame`, `ResumesAreNeverLost`, `DegradedIsHonest`.
- `NoneSurvivesAPass` and `LadderIsEnforced`, from `LadderShape`: a unit
  that is up throughout the pass reads as up in each of its probes (`ReadShape`), and each loop takes
  it over from the one before, so at every point it is still to be checked, still to be evicted,
  among the failed, or excused by its backoff (`CatchShape`); `AimShape` ties each loop to what the
  pass is after, and `BackoffShape` an interval that runs to an entry that is there.
- `GraceIsHonoured`, from `GraceShape`: the debounce window is never older than the last observation
  that saw a claim, and a pass that has decided to leave `gaming` has found the window served.

`WhoMoves` says once which actions move which variable, and `HowAPassGoes` which action leads to
which point; the proofs of the history invariants split on them instead of on all actions.

For `Eviction`, from `EvictionAssumption`: `EvictionTypes`, `EarlyRelease`, `FailedStopIsKilled`,
`KillComesLast`, and `OneStepOfReconcile`, the step refinement into `Reconcile`. The invariant is
`IInv`: `TypeOK` with `Asked` (what is known of the stop command at each await), `Polled` (VRAM that
was attributed was seen; a poll that says freed has measured it; the timeout is behind whoever
rechecks) and `Killing` (the last probe of whoever is about to be killed). `StepOfPoll` and
`ReadingBoundsVram` state what the helpers return: a reading that is trusted never understates the
unit's own VRAM.

For `TriggerLoop`, from `TriggerAssumption`: `TriggerTypes`, `RequestsAreNotLost` and
`PassesRunToTheirEnd`. The invariant is `QueueInv`, which adds to the types and `NoRequestLost` that no
handler is twice among the senders (the slot it is given is its own) and that the task leaves by the
cancellation alone. `AppendToSet`, `HeadAndTail` and `RemoveFromSet` say what each operation on a queue
does to the set of those queued in it, and whether it stays free of duplicates.

For `ControlSocket`, from `SocketAssumption` (any daemons, any addresses): `SocketTypes`,
`DefiniteWinner`, `PrivateFromTheStart`, `ReachedAtThePath`, `RefusedByRival` (from `Rivals`: who finds
something at the path on the way has met its owner) and `TcpGuardsThePath`. For the last, the types
are not enough; `OneInside` adds that the TCP address admits one daemon at a time and that
nobody owns the path while another with its address is between its probe and its rename. A
predecessor that has dropped its TCP listener but not its socket is the case that needs both.

For `PresenceView`, from `PresenceAssumption`: `PresenceTypes` and `PresenceHasACause`. The stamp and
the clock do not tell how long ago a human was there, because the clock may be set back;
`StampTells` bounds both ways they may err by what it was set back in all.

For `ProcListener`, from `ListenerAssumption` (any channel, kernel buffer and length of datagrams):

- `ListenerTypes`, which adds to `TypeOK` that the listener iterates over something.
- `DropsAreOwnedUp`: `Spec => []MissesShow`. It is not inductive: after an overrun the counter is behind
  until the next `recv`. `CountInv` counts that one (`noted`) with the dropped ones, and says that
  nothing was sent before the socket was subscribed.
- `ListenerRefines`: `Spec => ListenerIsCoarse`, action by action.

What waits is the concatenation of the datagrams. `FlattenAppend` and `FlattenHead` say what it is when
one joins at the end or leaves at the front, from the existence and the uniqueness of the function
that the definition of `FlattenSeq` chooses (`UnrollingExists`, `UnrollingIsUnique`).

For `ProcScan` and `Substate`, from `ProcScanAssumption`, `SubstateAssumption` and `CgroupAssumption` (any
processes, patterns, units and time limits):

- `WalkClaims`, from `WalkInv`: a steady process that is not yet listed or read is still to be read, and
  one that was read has left a claim. `ClassifyIsAClaim` says that what `classify` returns is a claim
  that applies to the process, and that it returns one if any does.
- `RefreshEndsInTime`, from `ClockInv`: what has elapsed and what is left of the limit of the command in
  flight add up to no more than the way to this point allows, for each unit on its own.
- `StatusIsFresh`, from `SeenInv`: what a future has read of its unit so far was so meanwhile, whatever
  `Earlier` is.
- `VramIsOwn`, from `VramInv`: the listed memory of a pid is that of the process it was then, or 0 if the
  driver did not tell it; `Owned` says which pids are still to be looked up, and whose the others were
  found to be. `CgroupAssumption` says what systemd is relied on for: a path rooted at `system.slice`
  names a unit exactly if the process is one of the unit's. Of a path with a `system.slice` further
  down nothing is assumed; what such a process holds is in the upper bound. The sums are `Total`, which
  grows with the set summed over and with the values summed (`TotalGrows`, `TotalBelow`).

For `Client`, from `ClientAssumption` (any command lines of words, any poll interval and timeout):

- `DaemonIsMeant`, from `ParseInv`: what is left of the line is its end, and what was read before is
  nothing but a configuration path, unless the fields read so far show that it is more.
- `ClientTypes`, `ExitCodesAreTrue` and `LinesChain`, from `PollInv`, which knows at each point of the poll
  loop what an answer is worth: it is an error, or was published during the open request, or comes
  from another service; and what `watch` shows is what it said last.

Only model-checked: every liveness property, which is beyond the prover. These are the first five of
`live`, `EvictionEnds`, `EveryClientIsAnswered`, `ChangesAreSeen`, `ShutdownGoesThrough`, `BlindnessEnds`,
`HotplugIsSeen`, `CommandsEnd` and `StaysShown`.

## Where code and documentation disagree

Three runs are counterexamples to a sentence of the documentation or of a comment; each is listed with
its line among the findings of `PROJECT.json`.

- `unsure`: `evict_inner` probes again and gives up on a probe that fails, so a unit counted as
  running because nobody could tell is never asked to stop.
- `stolen`: probe and unlink are two awaits, and the rename that refuses to replace does not help
  once the path has been cleared. Daemons with one TCP address are safe (`socket`, and proved).
- `hang`: `run_wait` looks at its deadline between two requests, and a request has no time limit.

The models follow the code, not the text, in more places that have no run of their own.

The pass and the evictions:

- a manual stop evicts like every other eviction, but an error there is logged and answered and does
  not set `degraded` (`src/reconcile.rs:472`), and a failed tenant preemption does not either, while
  `docs/reference.md:318` says that every eviction is alike, "a manual stop" too, and that an error is
  "counted as `error`, `degraded` set". `src/state.rs:292` speaks of the pass from `available` to
  `gaming` only, which leaves out the gaming invariant. So a unit may be up in the middle of a game
  after an eviction that failed, with `degraded` clear;
- `degraded` is set by a failed batch and cleared on reaching `available` only
  (`src/reconcile.rs:724`), so it outlives a clean eviction of the same game
  (`DegradedTellsTheTruth` is what it does mean); `docs/reference.md:93` says it is about the most
  recent eviction;
- the backoff of the gaming invariant counts from a clock read before the evictions
  (`src/reconcile.rs:688`), so the stop itself uses it up; `docs/reference.md:336` counts it from
  the stop;
- a poll that times out and then finds the unit inactive returns `Freed` whatever the VRAM, while
  `src/units.rs:156` says that VRAM dropped below the threshold;
- `Supervisor::resolve` says that the runner treats an empty command as a no-op (`src/units.rs:126`);
  `run_argv` answers it with an error (`Commands!run_argv`);
- an introspection command that runs into its limit is not killed, unlike those of `run_argv`,
  although its documentation says so (`src/units.rs:890`);
- an `is-active` probe that dies by a signal reads as a stopped unit (`src/units.rs:716`).

What `/status` shows of a unit:

- an `introspect_cmd` that fails is an empty list of models and no `models_error`
  (`src/units.rs:878`, `899`), while `docs/reference.md:88` says that "an empty `models` list without it
  is a real 'nothing loaded', never a silent failure" and `src/state.rs:200` that a failed query is
  never indistinguishable from an idle tenant. `StatusIsOfThisRefresh` therefore claims that a failure
  does not look idle of Ollama units only;
- a unit all of whose cells are `[N/A]` is shown with 0 MiB (`src/gpu.rs:279`), while
  `src/reconcile.rs:1358` says that the figure is omitted "rather than lying with a 0" and
  `src/state.rs:204` that it is `None` when unknown. The lower bound of `VramIsTheUnits` is therefore
  of what the driver told;
- the `system.slice` of a cgroup path is looked for anywhere in it (`src/cgroup.rs:69`), not at its
  root (`src/cgroup.rs:51`), so a service in a container of a user's session may be taken for a managed
  unit of the same name, against `src/cgroup.rs:47` ("a session scope can never spuriously attribute to
  one"). Its memory is in the upper bound of `VramIsTheUnits`.

The daemon around it:

- the join of the reconcile task is bounded "so a genuinely wedged pass can't hang shutdown forever"
  (`src/main.rs:534`), the drop of the runtime behind it (`src/main.rs:320`) is not: it waits for running
  `spawn_blocking` closures, and those are the only awaits of a pass without a time limit of their own
  (`src/reconcile.rs:117`, `src/cgroup.rs:90`, `src/gpu.rs:411`). In the model the daemon stays in
  `leaving` with the pass `wedged`, which `ShutdownGoesThrough` excuses;
- after the cancellation one more pass may start: the select is not biased, and the debounce window
  does not look at the token (`src/main.rs:628`: cancellation only stops the loop from starting
  another);
- a bind that fails, or a signal before there is a handler for it, aborts a pass in flight
  (`src/main.rs:533` says that it always runs to completion); and the startup pass of a second daemon
  has driven the same units before its bind fails;
- the events of a corrupt datagram are not counted as dropped, and a listener that has ended counts
  nothing (`src/procmon.rs:41`);
- the presence snapshot is three loads (`src/reconcile.rs:1464`), so a count and a health may appear
  together that never were, while the comment above it says point in time;
- the stamp of the last input never moves back but the wall clock may, so somebody stays present
  longer by what the clock was set back, which `PresenceIsEarned` therefore allows for;
  `src/presence.rs:163` does not.

The clients:

- a `wait` with a timeout near 2^64 seconds panics (`Overflow`);
- `status -q` exits with 1 for a GPU that is taken and for an answer without a state, and with 2 for a
  daemon that cannot be reached and for a usage error;
- `--help` and `--version` win only where the parser reaches them: not behind an unknown flag, and not
  as the value of one;
- the tray uses a `GPU_ARBITER_URL` that is set to nothing, the command line ignores it;
- the default address is 127.0.0.1, where a daemon bound to one LAN address does not listen;
- the tray has no message for `evicting` to `gaming`, nor for a change across an outage.

## Plan

Done: all modules above, with the proofs above.

What a next step would take up: `TriggerLoop` and `Reconcile` composed, a manual action from the
request to the reply; two daemons that drive the same units until one of them fails to bind.

Not modelled and why:

- a panic of the reconcile task: the code has no recovery from it; handlers see a dropped reply, as
  after a shutdown;
- the counters behind `/metrics` and its exposition, the hook-failure counters, log excerpts: nothing
  reads them back, and a model would restate each increment;
- the bytes of a netlink frame, the columns of the GPU tools' output, the sysfs files of an AMD card,
  the TOML syntax and the texts of the linter: parsing with no state of its own, covered by the unit
  tests of the repository;
- human-readable rendering, the tray's menu and icon pixels;
- the Windows backends: stubs, and a process walk over another listing behind the same functions
  (the routes and the VRAM gate of Windows are in `TriggerLoop` and `Eviction`).
