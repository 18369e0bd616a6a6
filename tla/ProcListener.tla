---------------------------- MODULE ProcListener ----------------------------
(***************************************************************************)
(* The process event listener (src/procmon.rs, run): it subscribes to the  *)
(* kernel's process connector and turns exec and exit events into triggers *)
(* of the reconcile task.  Nothing makes the kernel, the listener and the  *)
(* task keep pace: the kernel drops what its buffer cannot hold, and the   *)
(* listener what the channel cannot; a counter owns up to both.            *)
(*                                                                         *)
(* The kernel, the socket and the channel's other users are external, as   *)
(* the code uses them.                                                     *)
(***************************************************************************)
EXTENDS Naturals, Sequences, SequencesExt

CONSTANTS
  Depth,      \* TRIGGER_CHANNEL_DEPTH
  Buffer,     \* datagrams the kernel keeps for the socket
  MaxLength,  \* messages of a datagram
  MaxEmitted  \* bound on the messages the kernel sends

ASSUME ListenerAssumption ==
  /\ Depth \in Nat \ {0} /\ Buffer \in Nat \ {0}
  /\ MaxLength \in Nat \ {0} /\ MaxEmitted \in Nat

VARIABLES
  datagrams,  \* what the kernel has queued for the socket
  overrun,    \* the next recv reports ENOBUFS
  listener,   \* where run is
  iter,       \* what is left of the datagram in its hands
  channel,    \* the triggers queued
  open,       \* the reconcile task holds the receiver
  dropped,    \* PROC_EVENTS_DROPPED
  \* History.
  emitted,    \* messages the kernel sent to the subscribed socket
  handled,    \* messages that were pushed, or asked for no trigger
  corrupt     \* messages that came in a datagram that does not parse, and were skipped

vars == <<datagrams, overrun, listener, iter, channel, open, dropped, emitted, handled,
          corrupt>>

ProcEvent == "ProcEvent"
Manual    == "Manual"

\* What kind_of tells apart, a frame without a payload, and bytes that do not parse.
Kinds     == {"Fork", "Exec", "Exit", "Other"}
Messages  == Kinds \cup {"control", "garbage"}
Datagrams == SeqOf(Messages, MaxLength) \ {<<>>}

Ended  == {"failed", "closed"}
Points == {"connect", "subscribe", "recv", "iterate"} \cup Ended

TypeOK ==
  /\ datagrams \in Seq(Datagrams) /\ Len(datagrams) <= Buffer
  /\ overrun \in BOOLEAN
  /\ listener \in Points
  /\ iter \in Seq(Messages)
  /\ iter # <<>> => listener = "iterate"
  /\ channel \in Seq({ProcEvent, Manual}) /\ Len(channel) <= Depth
  /\ open \in BOOLEAN
  /\ {dropped, emitted, handled, corrupt} \subseteq Nat

Init ==
  /\ datagrams = <<>>
  /\ overrun = FALSE
  /\ listener = "connect"
  /\ iter = <<>>
  /\ channel = <<>>
  /\ open = TRUE
  /\ dropped = 0
  /\ emitted = 0
  /\ handled = 0
  /\ corrupt = 0

Room == Len(channel) < Depth

kernel  == <<datagrams, overrun, emitted>>
queue   == <<channel, open>>
history == <<handled, corrupt>>

\* Mutant: a fork is worth a pass, too.
is_trigger_kind_any(m) == m \in {"Fork", "Exec", "Exit"}

is_trigger_kind(m) == m \in {"Exec", "Exit"}

-----------------------------------------------------------------------------
(***************************************************************************)
(* run.                                                                    *)
(***************************************************************************)
\* The socket joins the multicast group, or cannot be opened.
Connect ==
  /\ listener = "connect"
  /\ listener' \in {"subscribe", "failed"}
  /\ UNCHANGED <<kernel, iter, queue, dropped, history>>

\* PROC_CN_MCAST_LISTEN is built and sent, or cannot be.
Subscribe ==
  /\ listener = "subscribe"
  /\ listener' \in {"recv", "failed"}
  /\ UNCHANGED <<kernel, iter, queue, dropped, history>>

Recv ==
  /\ listener = "recv"
  /\ ~overrun
  /\ datagrams # <<>>
  /\ datagrams' = Tail(datagrams)
  /\ iter' = Head(datagrams)
  /\ listener' = "iterate"
  /\ UNCHANGED <<overrun, emitted, queue, dropped, history>>

\* Mutant: the overflow is logged and not counted.
RecvOverrunUncounted ==
  /\ listener = "recv"
  /\ overrun
  /\ overrun' = FALSE
  /\ UNCHANGED <<datagrams, emitted, listener, iter, queue, dropped, history>>

\* ENOBUFS is not fatal: the socket is still subscribed.
RecvOverrun ==
  /\ listener = "recv"
  /\ overrun
  /\ overrun' = FALSE
  /\ dropped' = dropped + 1
  /\ UNCHANGED <<datagrams, emitted, listener, iter, queue, history>>

RecvFails ==
  /\ listener = "recv"
  /\ ~overrun
  /\ listener' = "failed"
  /\ UNCHANGED <<kernel, iter, queue, dropped, history>>

\* After a message: the next one, or the next recv.
Advance ==
  /\ iter' = Tail(iter)
  /\ listener' = IF Len(iter) = 1 THEN "recv" ELSE "iterate"

\* A parse error ends the datagram.
SkipCorrupt ==
  /\ listener = "iterate"
  /\ Head(iter) = "garbage"
  /\ iter' = <<>>
  /\ listener' = "recv"
  /\ corrupt' = corrupt + Len(iter)
  /\ UNCHANGED <<kernel, queue, dropped, handled>>

\* A frame without a payload, or an event that is not trigger-worthy.
SkipNoise ==
  /\ listener = "iterate"
  /\ Head(iter) # "garbage" /\ ~is_trigger_kind(Head(iter))
  /\ Advance
  /\ handled' = handled + 1
  /\ UNCHANGED <<kernel, queue, dropped, corrupt>>

TryingToSend == listener = "iterate" /\ is_trigger_kind(Head(iter))

TrySendOk ==
  /\ TryingToSend
  /\ open /\ Room
  /\ channel' = Append(channel, ProcEvent)
  /\ Advance
  /\ handled' = handled + 1
  /\ UNCHANGED <<kernel, open, dropped, corrupt>>

TrySendFull ==
  /\ TryingToSend
  /\ open /\ ~Room
  /\ dropped' = dropped + 1
  /\ Advance
  /\ UNCHANGED <<kernel, queue, history>>

TrySendClosed ==
  /\ TryingToSend
  /\ ~open
  /\ listener' = "closed"
  /\ iter' = <<>>
  /\ UNCHANGED <<kernel, queue, dropped, history>>

Run ==
  \/ Connect \/ Subscribe
  \/ Recv \/ RecvOverrun \/ RecvFails
  \/ SkipCorrupt \/ SkipNoise \/ TrySendOk \/ TrySendFull \/ TrySendClosed

-----------------------------------------------------------------------------
(***************************************************************************)
(* The kernel, and what else happens to the channel.                       *)
(***************************************************************************)
Listening == listener \in {"recv", "iterate"}

\* A datagram that finds the buffer full is lost; the socket is told once.
Emit ==
  /\ Listening
  /\ \E d \in Datagrams :
       /\ emitted + Len(d) <= MaxEmitted
       /\ emitted' = emitted + Len(d)
       /\ \/ Len(datagrams) < Buffer /\ datagrams' = Append(datagrams, d)
               /\ UNCHANGED overrun
          \/ Len(datagrams) = Buffer /\ overrun' = TRUE /\ UNCHANGED datagrams
  /\ UNCHANGED <<listener, iter, queue, dropped, history>>

TaskReceives ==
  /\ channel # <<>>
  /\ channel' = Tail(channel)
  /\ UNCHANGED <<kernel, listener, iter, open, dropped, history>>

HandlerSends ==
  /\ open /\ Room
  /\ channel' = Append(channel, Manual)
  /\ UNCHANGED <<kernel, listener, iter, open, dropped, history>>

TaskExits ==
  /\ open
  /\ open' = FALSE
  /\ channel' = <<>>
  /\ UNCHANGED <<kernel, listener, iter, dropped, history>>

Environment == Emit \/ TaskReceives \/ HandlerSends \/ TaskExits

Next == Run \/ Environment

Spec == Init /\ [][Next]_vars

-----------------------------------------------------------------------------
(***************************************************************************)
(* The counter tells the truth about the events that were missed           *)
(* (src/procmon.rs:42): it never exceeds them, and when there are any it   *)
(* is not zero, or will not be after the next recv.  Only the messages of  *)
(* a corrupt datagram go uncounted.                                        *)
(***************************************************************************)
waiting == Len(iter) + Len(FlattenSeq(datagrams))

missed == emitted - handled - corrupt - waiting

MissesShow ==
  Listening =>
    /\ dropped <= missed
    /\ missed > 0 => dropped > 0 \/ overrun

(***************************************************************************)
(* Seen from the reconcile task, the listener is the one of TriggerLoop:   *)
(* every trigger it pushes stands for an exec or exit event it heard of    *)
(* and still owed, into a free slot, and nothing it meets makes it push    *)
(* another or stop but a fatal error and a closed channel.                 *)
(***************************************************************************)
running == listener \notin Ended

owes ==
  /\ running
  /\ \E m \in ToSet(iter) \cup ToSet(FlattenSeq(datagrams)) : m \in {"Exec", "Exit"}

Coarse == INSTANCE TriggerLoop WITH
  Requests <- {Manual}, Managed <- {Manual}, Window <- 0, Interval <- 1, JoinLimit <- 0,
  MaxDue <- 1, senders <- <<>>, client <- [r \in {Manual} |-> "idle"],
  loop <- IF open THEN "select" ELSE "exited", trigger <- ProcEvent, deadline <- 0,
  until_tick <- 1, due <- 0, procmon <- running, heard <- owes, changed <- TRUE,
  daemon <- "running", join_left <- 0

TaskStep == TaskReceives \/ HandlerSends \/ TaskExits

ListenerIsCoarse ==
  [][\/ Coarse!ExecOrExit \/ Coarse!Listener
     \/ TaskStep /\ UNCHANGED <<running, owes>>
     \/ UNCHANGED <<channel, open, running, owes>>]_vars

=============================================================================
