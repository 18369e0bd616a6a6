------------------------------ MODULE Substate ------------------------------
(***************************************************************************)
(* The two observations of a pass: the walk over the process table that    *)
(* opens it (ProcScan), and reconcile::refresh_substate, which ends it and *)
(* fills in what /status says of the units and of the GPU.                 *)
(*                                                                         *)
(* A refresh awaits a list of GPU processes, the cgroup of each of them,   *)
(* then two queries of every unit, all units at once, then the memory of   *)
(* the device, and publishes what it found.  The machine moves in between. *)
(* Every command has a time limit, and any of them may fail.  The reads of *)
(* /proc and of the sysfs of an AMD card have none and take no time here:  *)
(* what a read does that never returns is in TriggerLoop.                  *)
(***************************************************************************)
EXTENDS ProcScan, FiniteSets

CONSTANTS
  Units,
  Systemd,          \* the units whose supervisor is systemd
  Asks,             \* their introspection: "Ollama", "Command" or "None"
  VramMatch,        \* their vram_match, or Unset
  Unset,
  Earlier,          \* per unit: the UnitStatus the refresh before has published
  QueryTime,        \* NVIDIA_SMI_TIMEOUT, in ticks
  ControlTime,      \* SYSTEMCTL_TIMEOUT
  IntrospectTime,   \* INTROSPECTION_TIMEOUT
  MaxMoves          \* bounds the moves of the machine during one observation

ASSUME SubstateAssumption ==
  /\ Systemd \subseteq Units
  /\ Unset \notin Units \cup Nat /\ Units \cap {"device", "system.slice"} = {}
  /\ Asks \in [Units -> {"Ollama", "Command", "None"}]
  /\ {QueryTime, ControlTime, IntrospectTime, MaxMoves} \subseteq Nat

VARIABLES
  active,     \* the machine: the units whose is-active probe would succeed
  backend,    \* the GpuBackend
  failed,     \* the query for the GPU processes failed
  compute,    \* its list
  unread,     \* the pids in it whose cgroup is not read yet
  await,      \* per unit: the query its future is at
  left,       \* the ticks left of a unit's query, and of the device's
  found,      \* per unit: the UnitStatus it will return
  units,      \* per unit: the UnitStatus that /status shows
  memory,     \* gpu_vram_used_mb
  elapsed,    \* history: ticks since the refresh began
  was,        \* history: per unit, what was true of it since then
  then,       \* history: the table when the GPU processes were listed
  moves       \* how often the machine has moved (up to MaxMoves)

machine  == <<table, active, backend>>
listing  == <<failed, compute, unread>>
futures  == <<await, left, found>>
shown    == <<units, memory>>
observer == <<elapsed, was, then, moves>>
vars     == <<machine, pc, scanning, listing, futures, shown, observer>>

Device == "device"
Bound  == QueryTime + ControlTime + IntrospectTime + QueryTime

\* GpuBackend::resolve, of gpu_backend and what the machine shows.
resolve(kind, smi_on_path, amd_card) ==
  IF kind # "auto" THEN kind
  ELSE IF ~smi_on_path /\ amd_card THEN "amd" ELSE "nvidia"

\* A unit name at the end of a cgroup path, or of a part of it.
UnitNames == Units \cup {"other.service", "some.scope"}

\* Mutant: a unit of a user's session is taken for the system's.
unit_from_any_cgroup(path) ==
  LET hits == {i \in DOMAIN path : path[i] \in UnitNames}
  IN  IF hits = {} THEN Unset ELSE path[Max(hits)]

\* The last segment below a system.slice that names a unit.
unit_from_cgroup(path) ==
  LET hits == {i \in DOMAIN path : /\ path[i] \in UnitNames
                                   /\ \E j \in 1..i - 1 : path[j] = "system.slice"}
  IN  IF hits = {} THEN Unset ELSE path[Max(hits)]

\* A path rooted at system.slice that names this unit and no other.
InUnit(path, u) ==
  path # <<>> /\ path[1] = "system.slice" /\ Range(path) \cap UnitNames = {u}

(***************************************************************************)
(* systemd keeps the processes of a unit, and no others, in the cgroup of  *)
(* the unit at its root (a unit that moves its processes into scopes of    *)
(* its own is left out).  A container may have a system.slice, and a unit  *)
(* of the same name in it, further down the path.                          *)
(***************************************************************************)
ASSUME CgroupAssumption ==
  \A g \in Programs :
    /\ g.cgroup \in Seq(Range(g.cgroup)) /\ g.vram \in Nat
    /\ \A u \in Units : InUnit(g.cgroup, u) <=> u \in Systemd /\ g.of = u

\* A line of the list, and its cell that is no number: parse_compute_procs_csv.
GpuComputeProc(g) ==
  [name |-> g.cmdline, vram_mb |-> IF g.told THEN g.vram ELSE 0, owning_unit |-> Unset]

Named(u, name) == VramMatch[u] # Unset /\ VramMatch[u] \in name

VramOf(pids) == SumFunctionOnSet([p \in DOMAIN compute |-> compute[p].vram_mb], pids)

\* vram_mb_by_cgroup, and vram_mb_matching if that finds nothing.
vram_mb(u) ==
  LET owned == {p \in DOMAIN compute : compute[p].owning_unit = u}
      named == {p \in DOMAIN compute : Named(u, compute[p].name)}
  IN  CASE owned # {} -> VramOf(owned)
        [] owned = {} /\ named # {} -> VramOf(named)
        [] owned \cup named = {} -> Unset

\* What a refresh can tell apart: a process that is not listed is as good as none.
Listable == {g \in Programs : g.computes} \cup {Gone}

-----------------------------------------------------------------------------
\* A model is loaded while a process of the unit computes.
Loaded(u, t) == \E p \in Pids : t[p] # Gone /\ t[p].computes /\ t[p].of = u

Facts(u, t, a) ==
  {IF u \in a THEN "running" ELSE "stopped", IF Loaded(u, t) THEN "loaded" ELSE "idle"}

Blank(r) == [running |-> r, models |-> "none", models_error |-> FALSE, vram_mb |-> Unset]

Init ==
  /\ \/ pc = "list" /\ table \in Table /\ active = {}
     \/ pc = "compute" /\ table \in [Pids -> Listable] /\ active \in SUBSET Units
  /\ \E kind \in {"auto", "nvidia", "amd"}, smi_on_path, amd_card \in BOOLEAN :
       backend = resolve(kind, smi_on_path, amd_card)
  /\ listed = {} /\ claims = {} /\ steady = {} /\ witnessed = {}
  /\ failed = FALSE /\ compute = <<>> /\ unread = {}
  /\ await = [u \in Units |-> "is-active"]
  /\ left = [x \in Units \cup {Device} |-> IF x = Device THEN QueryTime ELSE ControlTime]
  /\ found = [u \in Units |-> Blank("unknown")]
  /\ units = Earlier /\ memory = 0
  /\ elapsed = 0 /\ then = [p \in Pids |-> Gone] /\ moves = 0
  /\ was = [u \in Units |-> Facts(u, table, active)]

\* query_compute_procs: an AMD card has no list, and that is no failure.
QueryCompute ==
  /\ pc = "compute"
  /\ failed' \in {f \in BOOLEAN : f => backend = "nvidia"}
  /\ compute' = [p \in {q \in Alive : backend = "nvidia" /\ ~failed' /\ table[q].computes} |->
                   GpuComputeProc(table[p])]
  /\ unread' = DOMAIN compute'
  /\ steady' = Pids /\ then' = table
  /\ pc' = "cgroups"
  /\ UNCHANGED <<machine, listed, claims, witnessed, futures, shown, elapsed, was, moves>>

\* attribute_units, one process: it may be gone, and its pid may be another's.
ReadCgroup ==
  /\ pc = "cgroups" /\ unread # {}
  /\ LET p == Min(unread)
     IN  /\ unread' = unread \ {p}
         /\ compute' = [compute EXCEPT ![p].owning_unit =
                          IF table[p] = Gone THEN Unset ELSE unit_from_cgroup(table[p].cgroup)]
  /\ UNCHANGED <<machine, pc, scanning, failed, futures, shown, observer>>

CgroupsRead ==
  /\ pc = "cgroups" /\ unread = {}
  /\ pc' = "units"
  /\ UNCHANGED <<machine, scanning, listing, futures, shown, observer>>

\* Mutant: one unit is asked after the other.
IsRunningInTurn(u) ==
  /\ pc = "units" /\ await[u] = "is-active"
  /\ \A v \in Units : await[v] \in {"is-active", "done"}
  /\ \E r \in {IF u \in active THEN "running" ELSE "stopped", "unknown"} :
       /\ found' = [found EXCEPT ![u] = Blank(r)]
       /\ await' = [await EXCEPT ![u] = IF r = "running" THEN "models" ELSE "done"]
       /\ left' = [x \in DOMAIN left |->
                    IF x = u THEN IF await'[u] = "models" THEN IntrospectTime ELSE 0
                    ELSE IF x # Device /\ await[x] = "is-active" THEN ControlTime ELSE left[x]]
  /\ UNCHANGED <<machine, pc, scanning, listing, shown, observer>>

\* is_running: the truth, or no answer.
IsRunning(u) ==
  /\ pc = "units" /\ await[u] = "is-active"
  /\ \E r \in {IF u \in active THEN "running" ELSE "stopped", "unknown"} :
       /\ found' = [found EXCEPT ![u] = Blank(r)]
       /\ await' = [await EXCEPT ![u] = IF r = "running" THEN "models" ELSE "done"]
  /\ left' = [left EXCEPT ![u] = IF await'[u] = "models" THEN IntrospectTime ELSE 0]
  /\ UNCHANGED <<machine, pc, scanning, listing, shown, observer>>

\* Mutant: a query that fails leaves what was shown before.
LoadedModelsKeeping(u) ==
  /\ pc = "units" /\ await[u] = "models"
  /\ \E m \in {IF Loaded(u, table) THEN "some" ELSE "none", "failed"} :
       found' = [found EXCEPT ![u] =
                   [@ EXCEPT !.models = IF m = "failed" THEN units[u].models
                                        ELSE IF Asks[u] = "None" THEN "none" ELSE m,
                             !.vram_mb = IF failed THEN Unset ELSE vram_mb(u)]]
  /\ await' = [await EXCEPT ![u] = "done"]
  /\ left' = [left EXCEPT ![u] = 0]
  /\ UNCHANGED <<machine, pc, scanning, listing, shown, observer>>

\* loaded_models: the failure of a command is an empty list; the rest follows at once.
LoadedModels(u) ==
  /\ pc = "units" /\ await[u] = "models"
  /\ \E m \in {IF Loaded(u, table) THEN "some" ELSE "none", "failed"} :
       found' = [found EXCEPT ![u] =
                   [@ EXCEPT !.models = IF m = "failed" \/ Asks[u] = "None" THEN "none" ELSE m,
                             !.models_error = (m = "failed" /\ Asks[u] = "Ollama"),
                             !.vram_mb = IF failed THEN Unset ELSE vram_mb(u)]]
  /\ await' = [await EXCEPT ![u] = "done"]
  /\ left' = [left EXCEPT ![u] = 0]
  /\ UNCHANGED <<machine, pc, scanning, listing, shown, observer>>

\* join_all.
UnitsDone ==
  /\ pc = "units" /\ \A u \in Units : await[u] = "done"
  /\ pc' = "memory"
  /\ left' = [left EXCEPT ![Device] = QueryTime]
  /\ UNCHANGED <<machine, scanning, listing, await, found, shown, observer>>

\* query_memory: an error keeps the last number.  Everything is published at once.
QueryMemory ==
  /\ pc = "memory"
  /\ units' = found
  /\ \/ memory' = SumFunctionOnSet([p \in Alive |-> table[p].vram], Alive)
     \/ UNCHANGED memory
  /\ pc' = "done"
  /\ UNCHANGED <<machine, scanning, listing, futures, observer>>

-----------------------------------------------------------------------------
Refreshing == pc \notin {"list", "walk", "scanned", "done"}

InFlight ==
  {x \in Units \cup {Device} :
     IF x = Device THEN backend = "nvidia" /\ pc \in {"compute", "memory"}
     ELSE pc = "units" /\ await[x] # "done"}

\* No command outlives its time limit.
Tick ==
  /\ InFlight # {} /\ \A x \in InFlight : left[x] > 0
  /\ left' = [x \in DOMAIN left |-> IF x \in InFlight THEN left[x] - 1 ELSE left[x]]
  /\ elapsed' = elapsed + 1
  /\ UNCHANGED <<machine, pc, scanning, listing, await, found, shown, was, then, moves>>

Note ==
  /\ moves < MaxMoves /\ moves' = moves + 1
  /\ was' = [u \in Units |-> was[u] \cup IF Refreshing THEN Facts(u, table', active') ELSE {}]

ProcessMoves ==
  /\ pc \notin {"scanned", "done"}
  /\ \E p \in Pids, g \in IF Refreshing THEN Listable ELSE Programs \cup {Gone} : Becomes(p, g)
  /\ UNCHANGED <<pc, active, backend, listing, futures, shown, elapsed, then>>
  /\ Note

UnitMoves ==
  /\ Refreshing
  /\ \E u \in Units : active' = (active \ {u}) \cup ({u} \ active)
  /\ UNCHANGED <<table, pc, scanning, backend, listing, futures, shown, elapsed, then>>
  /\ Note

Scan ==
  /\ ListProc \/ ReadProc \/ ScanDone
  /\ UNCHANGED <<machine, listing, futures, shown, observer>>

RefreshStep ==
  \/ QueryCompute \/ ReadCgroup \/ CgroupsRead \/ UnitsDone \/ QueryMemory
  \/ \E u \in Units : IsRunning(u) \/ LoadedModels(u)

Next == Scan \/ RefreshStep \/ Tick \/ ProcessMoves \/ UnitMoves

Spec == Init /\ [][Next]_vars

-----------------------------------------------------------------------------
(***************************************************************************)
(* /status never shows what was true in an earlier refresh only: a run     *)
(* state and a loaded model were seen in this one, or are said to be       *)
(* unknown.  And a unit asked through the Ollama API that shows no model   *)
(* and no error had none: unreachable does not look idle.  Of a unit with  *)
(* an introspect_cmd that is not so (src/units.rs:899): its failure is an  *)
(* empty list without an error, though docs/reference.md:88 says that such *)
(* a list is "never a silent failure".                                     *)
(***************************************************************************)
StatusIsOfThisRefresh ==
  pc = "done" => \A u \in Units :
    LET s == units[u]
    IN  /\ s.running # "unknown" => s.running \in was[u]
        /\ s.models = "some" => s.running = "running" /\ "loaded" \in was[u]
        /\ s.running = "running" /\ s.models = "none" /\ ~s.models_error /\ Asks[u] = "Ollama" =>
             "idle" \in was[u]

-----------------------------------------------------------------------------
(***************************************************************************)
(* The truth about the memory, as it was when the processes were listed.   *)
(***************************************************************************)
\* What the listed processes among pids held.
Held(pids) == SumFunctionOnSet([p \in DOMAIN compute |-> then[p].vram], pids)

\* The processes of a unit that systemd runs.
Own(u) == {p \in DOMAIN compute : u \in Systemd /\ then[p].of = u}

\* A path that names the unit and a system.slice, further down some other cgroup.
Nested(path, u) == {"system.slice", u} \subseteq Range(path) /\ ~InUnit(path, u)

(***************************************************************************)
(* The VRAM told of a unit: at least what its own processes held, of those *)
(* that stayed to have their cgroup read and whose number the driver told; *)
(* at most what they all held, and with them those that the vram_match     *)
(* names, those nested in another cgroup, and the pids that changed hands. *)
(* No more than that: memory the driver does not tell is shown as 0        *)
(* (src/gpu.rs:279), and a system.slice anywhere in a path counts          *)
(* (src/cgroup.rs:69).                                                     *)
(***************************************************************************)
VramIsTheUnits ==
  pc = "done" /\ ~failed => \A u \in Units :
    LET told  == {p \in DOMAIN compute : then[p].told}
        loose == {p \in DOMAIN compute : \/ Named(u, then[p].cmdline) \/ p \notin steady
                                         \/ Nested(then[p].cgroup, u)}
        vram  == IF units[u].vram_mb = Unset THEN 0 ELSE units[u].vram_mb
    IN  units[u].running = "running" =>
          vram \in Held(Own(u) \cap steady \cap told)..Held(Own(u) \cup loose)

-----------------------------------------------------------------------------
\* The commands of a refresh take as long as those of its slowest unit, not of all of them
\* one after the other: as far as they go, the task that waits for it can act on a game
\* again within this time.
RefreshIsBounded == elapsed <= Bound

=============================================================================
