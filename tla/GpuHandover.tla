---------------------------- MODULE GpuHandover -----------------------------
(***************************************************************************)
(* What the daemon promises about the GPU, with no pass, no probe and no   *)
(* clock: the GPU is handed to games and taken back.                       *)
(*                                                                         *)
(* `tenants' are the displaceable units that run on the daemon's account:  *)
(* whatever was up when the handover began, and whatever the daemon        *)
(* started.  A unit somebody else starts in the middle of a game is not    *)
(* one of them.  `excused' are units the daemon tried to stop and could    *)
(* not stop cleanly, and which it leaves alone for a while.                *)
(***************************************************************************)
CONSTANT Displaceable   \* the units that must yield to a game

VARIABLES phase, tenants, excused

vars == <<phase, tenants, excused>>

Init ==
  /\ phase = "available"
  /\ tenants \in SUBSET Displaceable
  /\ excused = {}

\* Tenants come and go as they like while nobody plays.
Run ==
  /\ phase = "available"
  /\ tenants' \in SUBSET Displaceable
  /\ UNCHANGED <<phase, excused>>

\* A game is seen: the handover is announced before anything is stopped.
Announce ==
  /\ phase = "available"
  /\ phase' = "evicting"
  /\ UNCHANGED <<tenants, excused>>

\* From the announcement until the release, tenants only go away.
Vacate ==
  /\ phase \in {"evicting", "gaming"}
  /\ tenants' \in SUBSET tenants
  /\ UNCHANGED <<phase, excused>>

\* The game has the GPU when every tenant left is an excused one.
Handover ==
  /\ phase = "evicting"
  /\ phase' = "gaming"
  /\ excused' \in SUBSET Displaceable
  /\ tenants \subseteq excused'
  /\ UNCHANGED tenants

\* Excuses are given and withdrawn, never withdrawn from a tenant that runs.
Excuse ==
  /\ phase = "gaming"
  /\ excused' \in SUBSET Displaceable
  /\ tenants \subseteq excused'
  /\ UNCHANGED <<phase, tenants>>

\* The game is over, or the daemon starts afresh: every unit is a tenant again.
Release ==
  /\ phase' = "available"
  /\ tenants' \in SUBSET Displaceable
  /\ tenants \subseteq tenants'
  /\ excused' = {}

Next == Run \/ Announce \/ Vacate \/ Handover \/ Excuse \/ Release

Spec == Init /\ [][Next]_vars

\* While a game has the GPU, only excused tenants are left.
Exclusive == phase = "gaming" => tenants \subseteq excused

=============================================================================
