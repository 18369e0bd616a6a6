------------------------------- MODULE Policy -------------------------------
(***************************************************************************)
(* The pure decisions of a reconcile pass: who demands the GPU, which      *)
(* managed units that demand preempts, which units may run again, what the *)
(* game-exit debounce answers, and how the gaming-invariant backoff grows. *)
(*                                                                         *)
(* The operators carry the names of the functions of src/reconcile.rs they *)
(* are translated from. They are constant-level: every input is an         *)
(* argument, as in the source ("Pure -- unit-tested").                     *)
(***************************************************************************)
EXTENDS Integers

CONSTANTS
  Units,         \* the configured managed units (Config::resolved_units)
  Rank,          \* Rank[u]: the position of u in the configured order
  Priority,      \* Priority[u]: ManagedUnit::priority, a u8
  GamePriority,  \* Config::game_priority, a u8
  Eager,         \* the units with eager_restart = true
  HasBusyCmd,    \* the units with a busy_cmd
  Grace,         \* Config::game_exit_grace_s, in ticks; 0 disables it
  BackoffMin,    \* INVARIANT_BACKOFF_MIN, in ticks
  BackoffMax     \* INVARIANT_BACKOFF_MAX, in ticks

ASSUME PolicyAssumption ==
  /\ Rank \in [Units -> Nat]
  /\ \A u, v \in Units : Rank[u] = Rank[v] => u = v
  /\ Priority \in [Units -> 0..255]
  /\ GamePriority \in 0..255
  /\ Eager \subseteq Units
  /\ HasBusyCmd \subseteq Units
  /\ Grace \in Nat
  /\ BackoffMin \in Nat \ {0}
  /\ BackoffMax \in Nat
  /\ BackoffMin <= BackoffMax

States == {"available", "gaming", "evicting"}

(***************************************************************************)
(* Times are ages or remaining times in ticks; NoTime is Option::None.     *)
(***************************************************************************)
NoTime == -1

\* u is the next of the units in S, taken in the configured order.
IsNext(u, S) == u \in S /\ \A v \in S : Rank[u] <= Rank[v]

\* ArbiterState::resolve_state: any game claim means gaming.
resolve_state(claims) == IF claims THEN "gaming" ELSE "available"

(***************************************************************************)
(* effective_demand folds the demands on the GPU with max; the model keeps *)
(* the set of them.  The result is only ever compared with `<' against a   *)
(* priority (preempted_units), and p < max(D) is \E d \in D : p < d.  An   *)
(* empty set is None: nothing demands the GPU.                             *)
(***************************************************************************)
effective_demand(claims, busy) ==
  {Priority[b] : b \in busy} \cup {p \in {GamePriority} : claims}

\* The units of strictly lower priority than the demand: equals coexist.
preempted_units(demand) == {u \in Units : \E d \in demand : Priority[u] < d}

\* The units a game displaces whatever the tenants do.
BelowGame == preempted_units({GamePriority})

(***************************************************************************)
(* The transition table: what a pass does to the units when it goes from   *)
(* state `current' to `desired'.                                           *)
(***************************************************************************)
unit_action(current, desired) ==
  CASE current = "available" /\ desired = "gaming"    -> "Evict"
    [] current = "gaming"    /\ desired = "available" -> "Restart"
    [] OTHER                                          -> "None"

\* Mutant: a claim that reappears does not reset the window.
debounce_without_reset(current, observed, pending) ==
  LET since == IF pending = NoTime THEN 0 ELSE pending
  IN  IF observed # "available" \/ current = "available"
        THEN [desired |-> observed, pending |-> pending]
      ELSE IF since >= Grace
        THEN [desired |-> "available", pending |-> NoTime]
        ELSE [desired |-> "gaming", pending |-> since]

\* Mutant: every pass restarts the window (insert for get_or_insert).
debounce_restarting(current, observed, pending) ==
  IF observed # "available" \/ current = "available"
    THEN [desired |-> observed, pending |-> NoTime]
  ELSE IF 0 >= Grace
    THEN [desired |-> "available", pending |-> NoTime]
    ELSE [desired |-> "gaming", pending |-> 0]

(***************************************************************************)
(* The game-exit debounce.  `pending' is how long ago the claim set was    *)
(* first seen empty while gaming (game_exit_pending_since as an age).      *)
(***************************************************************************)
debounce_game_exit(current, observed, pending) ==
  LET since == IF pending = NoTime THEN 0 ELSE pending
  IN  IF observed # "available" \/ current = "available"
        THEN [desired |-> observed, pending |-> NoTime]
      ELSE IF since >= Grace
        THEN [desired |-> "available", pending |-> NoTime]
        ELSE [desired |-> "gaming", pending |-> since]

\* Mutant: a held unit is eligible.
resume_targets_held_too(desired, held, preempted) ==
  {u \in Units : desired = "available" /\ u \notin preempted}

\* The units that may hold the GPU again, and so may be told to resume.
resume_targets(desired, held, preempted) ==
  {u \in Units : desired = "available" /\ u \notin held /\ u \notin preempted}

\* Those among them the daemon starts by itself.
ensure_running_targets(desired, held, preempted) ==
  resume_targets(desired, held, preempted) \cap Eager

\* The interval after `prev': the minimum first, then doubling to the cap.
\* 0 stands for "no entry" (None).
next_invariant_backoff(prev) ==
  IF prev = 0 THEN BackoffMin
  ELSE IF 2 * prev <= BackoffMax THEN 2 * prev ELSE BackoffMax

=============================================================================
