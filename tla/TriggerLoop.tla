---------------------------- MODULE TriggerLoop -----------------------------
(***************************************************************************)
(* What makes the reconcile task run a pass: the daemon's startup, the     *)
(* bounded trigger channel, its three producers (process events, HTTP      *)
(* handlers, the timer), the debounce window, and the shutdown             *)
(* (src/main.rs, reconcile_task and async_main; src/procmon.rs, run;       *)
(* src/http.rs, do_start_uds to enqueue_and_await).                        *)
(*                                                                         *)
(* What a pass does is the module Reconcile; here it answers its request,  *)
(* observes the machine and comes to an end.  The channel (tokio's mpsc)   *)
(* gives a freed slot to the handler that has waited longest, and select!  *)
(* takes any branch that is ready.  What the listener does between an      *)
(* event and its trigger is the module ProcListener.                       *)
(***************************************************************************)
EXTENDS Naturals, Sequences, SequencesExt

CONSTANTS
  Requests,     \* requests for POST /units/{unit}/start or stop
  Managed,      \* those that name a unit the daemon manages
  Depth,        \* TRIGGER_CHANNEL_DEPTH
  Window,       \* DEBOUNCE, in ticks
  Interval,     \* reconcile_interval_s, in ticks
  JoinLimit,    \* SHUTDOWN_JOIN_TIMEOUT, in ticks
  MaxDue        \* bound on the ticks of the timer the task is behind

ProcEvent == "ProcEvent"
Timer     == "Timer"
Startup   == "Startup"

ASSUME TriggerAssumption ==
  /\ Managed \subseteq Requests
  /\ Requests \cap {ProcEvent, Timer, Startup} = {}
  /\ Depth \in Nat \ {0} /\ Interval \in Nat \ {0} /\ MaxDue \in Nat \ {0}
  /\ Window \in Nat /\ JoinLimit \in Nat

VARIABLES
  channel,     \* the triggers queued
  senders,     \* the handlers waiting for a slot, in order of arrival
  client,      \* what became of each request
  loop,        \* where reconcile_task is
  trigger,     \* the trigger in its hands
  deadline,    \* time left of the debounce window
  until_tick,  \* time to the next tick of the interval
  due,         \* ticks of the interval not yet taken
  procmon,     \* the netlink listener runs
  heard,       \* it has yet to push a trigger for what the kernel told it
  changed,     \* processes came or went since a pass last observed them
  daemon,      \* where async_main is
  join_left    \* what is left of the time to join the reconcile task

queues == <<channel, senders, client>>
clocks == <<deadline, until_tick, due, join_left>>
events == <<procmon, heard, changed>>
vars == <<queues, loop, trigger, clocks, events, daemon>>

\* starting: the startup pass runs and nothing else.  binding: the tasks are spawned, the
\* listeners not bound yet.  joining: after the shutdown signal.  leaving: async_main has
\* returned, main drops the runtime.
Stages == {"starting", "binding", "running", "joining", "leaving", "stopped"}

cancelled == daemon \in {"joining", "leaving", "stopped"}

\* wedged: in a blocking read (/proc, a cgroup, the sysfs of an AMD card) that does not
\* return; everything else a pass waits for has a time limit.
PassPoints == {"handle", "observe", "act", "wedged"}
LoopPoints == {"select", "debounce", "exited", "abandoned"} \cup PassPoints

pass_in_flight == loop \in PassPoints

\* A manual action, the scan and what follows it make such reads.
reading == loop \in {"observe", "act"} \/ (loop = "handle" /\ trigger \in Managed)

\* idle: not sent yet.  denied: 403 or 404.  refused: 500, the task is gone.  cut: the
\* server is gone.
Pending == {"sending", "waiting"}
Answers == {"done", "denied", "refused", "cut", "gone"}

TypeOK ==
  /\ channel \in Seq(Managed \cup {ProcEvent}) /\ Len(channel) <= Depth
  /\ senders \in Seq(Managed)
  /\ senders # <<>> => Len(channel) = Depth
  /\ client \in [Requests -> {"idle"} \cup Pending \cup Answers]
  /\ loop \in LoopPoints
  /\ trigger \in Managed \cup {ProcEvent, Timer, Startup}
  /\ deadline \in 0..Window
  /\ until_tick \in 1..Interval
  /\ due \in 0..MaxDue
  /\ procmon \in BOOLEAN
  /\ heard \in BOOLEAN
  /\ changed \in BOOLEAN
  /\ daemon \in Stages
  /\ join_left \in 0..JoinLimit

\* The startup pass is about to observe: its trigger asks for no action of its own.
Init ==
  /\ channel = <<>>
  /\ senders = <<>>
  /\ client = [r \in Requests |-> "idle"]
  /\ loop = "observe"
  /\ trigger = Startup
  /\ deadline = 0
  /\ until_tick = Interval
  /\ due = 0
  /\ procmon = FALSE
  /\ heard = FALSE
  /\ changed = TRUE
  /\ daemon = "starting"
  /\ join_left = JoinLimit

Room == Len(channel) < Depth

-----------------------------------------------------------------------------
(***************************************************************************)
(* The producers.                                                          *)
(***************************************************************************)
\* The write routes: the unix control socket, or on Windows the TCP port, where only a
\* peer on the loopback is heard.  The TCP port has no write route elsewhere.
Routes == {"socket", "loopback", "lan"}

guard_loopback(route) == route # "lan"
guard_unit(r) == r \in Managed

\* The gates, then enqueue_and_await.  The servers outlive the reconcile task.
Submit(r) ==
  /\ client[r] = "idle"
  /\ daemon \in {"running", "joining"}
  /\ \E route \in Routes :
       LET admitted == guard_loopback(route) /\ guard_unit(r)
           answered(a) == client' = [client EXCEPT ![r] = a]
       IN  \/ ~admitted /\ answered("denied") /\ UNCHANGED <<channel, senders>>
           \/ admitted /\ loop = "exited" /\ answered("refused")
                /\ UNCHANGED <<channel, senders>>
           \/ admitted /\ loop # "exited" /\ Room /\ answered("waiting")
                /\ channel' = Append(channel, r) /\ UNCHANGED senders
           \/ admitted /\ loop # "exited" /\ ~Room /\ answered("sending")
                /\ senders' = Append(senders, r) /\ UNCHANGED channel
  /\ UNCHANGED <<loop, trigger, clocks, events, daemon>>

\* The client hangs up and its handler is dropped.  What is queued stays queued.
HangUp(r) ==
  /\ client[r] \in Pending
  /\ client' = [client EXCEPT ![r] = "gone"]
  /\ \/ client[r] = "waiting" /\ UNCHANGED senders
     \/ \E i \in DOMAIN senders : senders[i] = r /\ senders' = RemoveAt(senders, i)
  /\ UNCHANGED <<channel, loop, trigger, clocks, events, daemon>>

\* A process starts or ends.  The kernel tells a listener that is there, or drops it.
ExecOrExit ==
  /\ daemon # "stopped"
  /\ changed' = TRUE
  /\ heard' \in {heard, procmon}
  /\ UNCHANGED <<queues, loop, trigger, clocks, procmon, daemon>>

\* The listener pushes a trigger if there is room for it, or drops it; it may have more
\* to push, or not.
Forward ==
  /\ procmon /\ heard
  /\ heard' \in BOOLEAN
  /\ \/ channel' = channel
     \/ loop # "exited" /\ Room /\ channel' = Append(channel, ProcEvent)
  /\ UNCHANGED <<senders, client, loop, trigger, clocks, procmon, changed, daemon>>

\* A fatal socket error, or the receiver is gone: the listener returns.
ListenerExits ==
  /\ procmon
  /\ procmon' = FALSE
  /\ heard' = FALSE
  /\ UNCHANGED <<queues, loop, trigger, clocks, changed, daemon>>

-----------------------------------------------------------------------------
(***************************************************************************)
(* reconcile_task.                                                         *)
(***************************************************************************)
\* recv: the slot goes to the handler that waits for one.
Receive ==
  /\ channel # <<>>
  /\ channel' = Tail(channel) \o (IF senders = <<>> THEN <<>> ELSE <<Head(senders)>>)
  /\ senders' = IF senders = <<>> THEN <<>> ELSE Tail(senders)
  /\ client' = [r \in Requests |->
                  IF senders # <<>> /\ r = Head(senders) THEN "waiting" ELSE client[r]]

\* Mutant: the cancellation is raced against the pass in flight.
SelectCancelAnytime ==
  /\ loop \in {"select"} \cup PassPoints
  /\ cancelled
  /\ loop' = "exited"
  /\ channel' = <<>>
  /\ senders' = <<>>
  /\ client' = [r \in Requests |-> IF client[r] \in Pending THEN "refused" ELSE client[r]]
  /\ UNCHANGED <<trigger, clocks, events, daemon>>

\* The task returns; its receiver goes with every trigger in it, and their replies.
SelectCancel ==
  /\ loop = "select"
  /\ cancelled
  /\ loop' = "exited"
  /\ channel' = <<>>
  /\ senders' = <<>>
  /\ client' = [r \in Requests |-> IF client[r] \in Pending THEN "refused" ELSE client[r]]
  /\ UNCHANGED <<trigger, clocks, events, daemon>>

\* Mutant: no backstop, the timer only runs passes for what the channel holds.
SelectTimerLazily ==
  /\ loop = "select"
  /\ due > 0 /\ channel # <<>>
  /\ due' = due - 1
  /\ trigger' = Timer
  /\ loop' = "handle"
  /\ UNCHANGED <<queues, deadline, until_tick, join_left, events, daemon>>

SelectTimer ==
  /\ loop = "select"
  /\ due > 0
  /\ due' = due - 1
  /\ trigger' = Timer
  /\ loop' = "handle"
  /\ UNCHANGED <<queues, deadline, until_tick, join_left, events, daemon>>

SelectReceive ==
  /\ loop = "select"
  /\ Receive
  /\ trigger' = Head(channel)
  /\ IF Head(channel) = ProcEvent
       THEN loop' = "debounce" /\ deadline' = Window
       ELSE loop' = "handle" /\ UNCHANGED deadline
  /\ UNCHANGED <<until_tick, due, join_left, events, daemon>>

\* debounce_proc_events: the window is over.
DebounceElapsed ==
  /\ loop = "debounce"
  /\ deadline = 0
  /\ loop' = "handle"
  /\ UNCHANGED <<queues, trigger, clocks, events, daemon>>

\* Mutant: a trigger taken in the window is put down, its handler left waiting.
DebounceReceiveForgetting ==
  /\ loop = "debounce"
  /\ Receive
  /\ UNCHANGED <<loop, trigger, clocks, events, daemon>>

\* debounce_proc_events: more of the burst is swallowed, anything else ends the window.
DebounceReceive ==
  /\ loop = "debounce"
  /\ Receive
  /\ IF Head(channel) = ProcEvent
       THEN UNCHANGED <<loop, trigger>>
       ELSE loop' = "handle" /\ trigger' = Head(channel)
  /\ UNCHANGED <<clocks, events, daemon>>

\* The pass first carries out the manual action and answers, if anybody still waits; the
\* scan of /proc it makes for that may hang.
Handle ==
  /\ loop = "handle"
  /\ \/ /\ loop' = "observe"
        /\ client' = [r \in Requests |->
                        IF r = trigger /\ client[r] = "waiting" THEN "done" ELSE client[r]]
     \/ trigger \in Managed /\ loop' = "wedged" /\ UNCHANGED client
  /\ UNCHANGED <<channel, senders, trigger, clocks, events, daemon>>

\* The scan: a pass that cannot observe is logged and dropped; a scan may hang.
Observe ==
  /\ loop = "observe"
  /\ \/ loop' = "act" /\ changed' = FALSE
     \/ loop' \in {"select", "wedged"} /\ UNCHANGED changed
  /\ UNCHANGED <<queues, trigger, clocks, procmon, heard, daemon>>

\* Whatever the pass goes on to do, it ends, well or with an error; or it hangs in a read
\* that never returns.
EndPass ==
  /\ loop = "act"
  /\ loop' \in {"select", "wedged"}
  /\ UNCHANGED <<queues, trigger, clocks, events, daemon>>

-----------------------------------------------------------------------------
(***************************************************************************)
(* async_main: startup, shutdown and time.                                 *)
(***************************************************************************)
\* Whatever came of the startup pass, the tasks are spawned; the listener only on Linux.
SpawnTasks ==
  /\ daemon = "starting" /\ loop = "select"
  /\ daemon' = "binding"
  /\ procmon' \in BOOLEAN
  /\ UNCHANGED <<queues, loop, trigger, clocks, heard, changed>>

Bind ==
  /\ daemon = "binding"
  /\ daemon' = "running"
  /\ UNCHANGED <<queues, loop, trigger, clocks, events>>

\* Every task is gone, wherever it was.
TasksEnd ==
  /\ procmon' = FALSE
  /\ heard' = FALSE
  /\ channel' = <<>>
  /\ senders' = <<>>
  /\ client' = [r \in Requests |-> IF client[r] \in Pending THEN "cut" ELSE client[r]]
  /\ UNCHANGED <<trigger, clocks, changed>>

\* async_main returns and main drops the runtime: it takes every task with it, but not
\* the blocking read a pass is in, which may never return.
Leave ==
  /\ daemon' = "leaving"
  /\ \/ loop \in {"exited", "wedged"} /\ loop' = loop
     \/ loop \notin {"exited", "wedged"} /\ loop' = "abandoned"
     \/ reading /\ loop' = "wedged"
  /\ TasksEnd

\* The runtime has waited for the blocking reads, without a time limit.
Exit ==
  /\ daemon = "leaving"
  /\ loop # "wedged"
  /\ daemon' = "stopped"
  /\ UNCHANGED <<queues, loop, trigger, clocks, events>>

\* The TCP port or the control socket cannot be bound.
BindFails ==
  /\ daemon = "binding"
  /\ Leave

\* A signal before wait_for_shutdown has a handler for it kills the process.
SignalUnhandled ==
  /\ daemon \in {"starting", "binding"}
  /\ daemon' = "stopped"
  /\ loop' = "abandoned"
  /\ TasksEnd

\* SIGTERM or SIGINT: the token is cancelled and the task is joined.
Signal ==
  /\ daemon = "running"
  /\ daemon' = "joining"
  /\ UNCHANGED <<queues, loop, trigger, clocks, events>>

\* Mutant: the join has no time limit.
StopPatiently ==
  /\ daemon = "joining"
  /\ loop = "exited"
  /\ Leave

\* The task is gone, or given up; the other tasks are aborted and main returns.
Stop ==
  /\ daemon = "joining"
  /\ loop = "exited" \/ join_left = 0
  /\ Leave

\* The interval does not skip: missed ticks are taken one after the other (up to MaxDue).
Tick ==
  /\ daemon \in {"binding", "running", "joining"}
  /\ deadline' = IF deadline > 0 THEN deadline - 1 ELSE 0
  /\ until_tick' = IF until_tick > 1 THEN until_tick - 1 ELSE Interval
  /\ due' = IF until_tick = 1 /\ due < MaxDue THEN due + 1 ELSE due
  /\ join_left' = IF daemon = "joining" /\ join_left > 0 THEN join_left - 1 ELSE join_left
  /\ UNCHANGED <<queues, loop, trigger, events, daemon>>

Select == SelectCancel \/ SelectTimer \/ SelectReceive
Debounce == DebounceElapsed \/ DebounceReceive
Pass == Handle \/ Observe \/ EndPass
Main == SpawnTasks \/ Bind \/ BindFails \/ SignalUnhandled \/ Signal \/ Stop \/ Exit
Listener == Forward \/ ListenerExits
Outside == ExecOrExit \/ \E r \in Requests : Submit(r) \/ HangUp(r)

Next == Select \/ Debounce \/ Pass \/ Main \/ Tick \/ Listener \/ Outside

Spec == Init /\ [][Next]_vars

(***************************************************************************)
(* A pass that is not wedged ends, and time goes on.  select! polls its    *)
(* branches in a random order, so a branch that is ready again and again   *)
(* is taken some day; and a scan that is tried again and again succeeds.   *)
(* The outside world owes nothing.                                         *)
(***************************************************************************)
ObserveSucceeds == Observe /\ loop' = "act"

Fairness ==
  /\ SF_vars(SelectCancel) /\ SF_vars(SelectTimer) /\ SF_vars(SelectReceive)
  /\ SF_vars(DebounceElapsed) /\ WF_vars(Debounce)
  /\ WF_vars(Pass) /\ SF_vars(ObserveSucceeds)
  /\ WF_vars(SpawnTasks) /\ WF_vars(Bind \/ BindFails) /\ WF_vars(Stop)
  /\ WF_vars(Exit)
  /\ WF_vars(Tick)

FairSpec == Spec /\ Fairness

-----------------------------------------------------------------------------
(***************************************************************************)
(* A handler waits only for a trigger that is on its way: queued, or in    *)
(* the hands of a task that acts on it or hangs; and it is told that its   *)
(* action failed untried only when the daemon shuts down.  The debounce    *)
(* window, a full channel and clients that hang up lose none.              *)
(***************************************************************************)
NoRequestLost ==
  \A r \in Requests :
    /\ client[r] = "waiting" =>
         r \in ToSet(channel) \/ (loop \in {"handle", "wedged"} /\ trigger = r)
    /\ client[r] = "sending" <=> r \in ToSet(senders)
    /\ client[r] = "refused" => cancelled

(***************************************************************************)
(* A pass in flight is never aborted by the shutdown, short of the time    *)
(* limit of the join (src/main.rs:533: it always runs to completion).  A   *)
(* startup that fails, or is killed, cuts it.                              *)
(***************************************************************************)
PassIsNotAborted ==
  [][pass_in_flight /\ ~pass_in_flight' =>
       \/ loop' = "select"
       \/ daemon = "joining" /\ join_left = 0
       \/ daemon \in {"starting", "binding"}]_vars

(***************************************************************************)
(* Whoever asks gets an answer, through a full channel, a burst, a failing *)
(* pass and a shutdown, unless a pass never returns.                       *)
(***************************************************************************)
EveryClientIsAnswered ==
  \A r \in Managed : client[r] \in Pending ~> client[r] \notin Pending \/ loop = "wedged"

(***************************************************************************)
(* Events are only an accelerator: whatever is dropped, whether or not the *)
(* listener runs, and however long a burst of them lasts, a pass observes  *)
(* every change, unless the daemon is shut down or hangs.                  *)
(***************************************************************************)
ChangesAreSeen == changed ~> ~changed \/ cancelled \/ loop = "wedged"

(***************************************************************************)
(* The join does not hang: a shutdown comes to the end of async_main even  *)
(* if the pass in flight never ends (src/main.rs:535), and from there the  *)
(* process ends, unless a blocking read holds the runtime, whose drop      *)
(* waits for it (src/main.rs:320; the comment at :534 promises more).      *)
(***************************************************************************)
ShutdownGoesThrough ==
  /\ daemon = "joining" ~> daemon \in {"leaving", "stopped"}
  /\ daemon = "leaving" ~> daemon = "stopped" \/ loop = "wedged"

=============================================================================
