------------------------------ MODULE ProcScan ------------------------------
(***************************************************************************)
(* The process table of the machine, and what a pass reads from it: the    *)
(* walk over /proc (reconcile::observe, scan_proc) and the classification  *)
(* of what it finds (src/classify.rs, reconcile::claim_set).               *)
(*                                                                         *)
(* The walk lists the table first and then reads one entry after the       *)
(* other, while processes start, end and exec.  A command line is the set  *)
(* of the texts it contains; an empty one (a kernel thread, a zombie)      *)
(* contains none.                                                          *)
(***************************************************************************)
EXTENDS Naturals, Sequences, FiniteSetsExt, Functions

CONSTANTS
  Pids,          \* a set of numbers
  Programs,      \* what a process may run
  GamePatterns,  \* game_patterns: a sequence of [name, match, exclude]
  detect_steam,  \* the configuration key
  Gone           \* no process has this pid

(***************************************************************************)
(* A program: its command line, the unit whose process it is, the path of  *)
(* its cgroup, the VRAM it holds, whether the driver tells that number,    *)
(* and whether nvidia-smi lists it, which lists what computes and not what *)
(* draws.                                                                  *)
(***************************************************************************)
ASSUME ProcScanAssumption ==
  /\ Pids \subseteq Nat /\ IsFiniteSet(Pids)
  /\ detect_steam \in BOOLEAN
  /\ Gone \notin Programs
  /\ \A g \in Programs : DOMAIN g = {"cmdline", "of", "cgroup", "vram", "told", "computes"}
  /\ GamePatterns \in Seq(Range(GamePatterns))
  /\ \A r \in Range(GamePatterns) : r.name # "none"   \* which stands for Option::None

VARIABLES
  table,      \* the machine: what each pid runs
  pc,
  listed,     \* the entries read_dir returned that are not yet read
  claims,     \* the claims found so far
  steady,     \* history: the pids that have run the same since they were listed
  witnessed   \* history: every claim some process could have given since then

scanning == <<listed, claims, steady, witnessed>>

Table == [Pids -> Programs \cup {Gone}]
Alive == {p \in Pids : table[p] # Gone}

SteamMarker == "SteamLaunch AppId=440"

\* steam_appid: the marker and the digits behind it.
steam_appid(cmdline) == SteamMarker \in cmdline

NoMatch == [name |-> "none"]

\* Mutant: a veto ends the search.
match_pattern_first_only(cmdline) ==
  LET hits == {i \in DOMAIN GamePatterns : GamePatterns[i].match \in cmdline}
  IN  IF hits = {} \/ GamePatterns[Min(hits)].exclude \cap cmdline # {} THEN NoMatch
      ELSE GamePatterns[Min(hits)]

\* match_pattern: the first pattern that matches and that nothing vetoes.
match_pattern(cmdline) ==
  LET hits == {i \in DOMAIN GamePatterns : /\ GamePatterns[i].match \in cmdline
                                           /\ GamePatterns[i].exclude \cap cmdline = {}}
  IN  IF hits = {} THEN NoMatch ELSE GamePatterns[Min(hits)]

\* classify: Steam wins over the patterns.
classify(cmdline) ==
  CASE detect_steam /\ steam_appid(cmdline) -> {"steam"}
    [] ~(detect_steam /\ steam_appid(cmdline)) -> {match_pattern(cmdline).name} \ {"none"}

\* Every claim the rules allow for a command line, whatever their order.
Claimable(g) ==
  IF g = Gone THEN {}
  ELSE {c \in {"steam"} : detect_steam /\ SteamMarker \in g.cmdline} \cup
       {r.name : r \in {q \in Range(GamePatterns) : /\ q.match \in g.cmdline
                                                   /\ q.exclude \cap g.cmdline = {}}}

-----------------------------------------------------------------------------
\* read_dir("/proc"): which pids are there now?
ListProc ==
  /\ pc = "list"
  /\ listed' = Alive
  /\ claims' = {}
  /\ steady' = Alive
  /\ witnessed' = UNION {Claimable(table[p]) : p \in Pids}
  /\ pc' = "walk"

\* The next entry, if its process is still there and has a command line.
ReadProc ==
  /\ pc = "walk" /\ listed # {}
  /\ LET p == Min(listed)
     IN  /\ listed' = listed \ {p}
         /\ claims' = claims \cup (IF table[p] = Gone THEN {} ELSE classify(table[p].cmdline))
  /\ UNCHANGED <<pc, steady, witnessed>>

\* claim_set: the claims are recorded.
ScanDone ==
  /\ pc = "walk" /\ listed = {}
  /\ pc' = "scanned"
  /\ UNCHANGED scanning

-----------------------------------------------------------------------------
\* A process starts, ends, or execs.
Becomes(p, g) ==
  /\ table[p] # g
  /\ table' = [table EXCEPT ![p] = g]
  /\ steady' = steady \ {p}
  /\ witnessed' = IF pc = "walk" THEN witnessed \cup Claimable(g) ELSE witnessed
  /\ UNCHANGED <<listed, claims>>

-----------------------------------------------------------------------------
(***************************************************************************)
(* The claims of a walk.  A game that runs from its start to its end is    *)
(* claimed by a rule that applies to it, in spite of the vetoes of other   *)
(* rules; and every claim was given by a process that ran meanwhile.       *)
(***************************************************************************)
ClaimsAreOfTheWalk ==
  pc = "scanned" =>
    /\ \A p \in steady : Claimable(table[p]) # {} => Claimable(table[p]) \cap claims # {}
    /\ claims \subseteq witnessed

=============================================================================
