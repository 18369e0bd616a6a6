------------------------------- MODULE Client -------------------------------
(***************************************************************************)
(* The two programs that read GET /status: the status, wait and watch      *)
(* subcommands of the daemon's own binary (src/main.rs), and the tray      *)
(* (src/bin/gpu-arbiter-tray.rs), from the command line to the exit code.  *)
(*                                                                         *)
(* A poll is three steps: the request leaves, the daemon answers with what *)
(* it publishes then, the client acts on the answer.  In between the       *)
(* daemon goes on, dies, comes back, or stops answering.  No request has a *)
(* time limit of its own.                                                  *)
(***************************************************************************)
EXTENDS CommandLine

CONSTANTS
  Lines,            \* the command lines that may be typed
  PollInterval,     \* POLL_INTERVAL, in ticks
  DefaultTimeout    \* DEFAULT_WAIT_TIMEOUT_S, in ticks

\* Unset is no text, so no word is spelled like it.
ASSUME ClientAssumption ==
  /\ PollInterval \in Nat \ {0} /\ DefaultTimeout \in Nat \ {0}
  /\ Lines \subseteq Seq([word : STRING \ {Unset}, value : STRING])

VARIABLES
  \* The daemon, as a client sees it.
  daemon,       \* "serving", "down", or "wedged": it accepts and never answers
  published,    \* the state in its /status
  \* The process.
  pc,
  base,         \* what answers at the resolved address
  answer,       \* the state in the last answer, "?" if it has none, or "error"
  shown,        \* prev_state of watch; the tray's icon and last_state
  waited,       \* ticks since run_wait read the clock
  nap,          \* ticks left of the sleep
  code,         \* the exit code, or -1
  warnings,     \* --check-config: the file and what was said of it
  \* An observer.
  during,       \* the states published since the last request left
  said          \* the last line of watch, or notification of the tray

world  == <<daemon, published>>
vars   == <<parser, world, pc, base, answer, shown, waited, nap, code, warnings, during, said>>

States == {"available", "evicting", "gaming"}
Kind   == command.kind
Target == IF command.args.for_state = Unset THEN "available"
          ELSE WaitStates[command.args.for_state]
Limit  == CASE command.args.timeout_s = "0" -> 0
            [] command.args.timeout_s = "2" -> 2
            [] OTHER -> DefaultTimeout
Nobody == [from |-> "none", to |-> "none"]

TypeOK ==
  /\ daemon \in {"serving", "down", "wedged"} /\ published \in States
  /\ pc \in {"start", "poll", "sent", "answered", "sleep", "exit"}
  /\ base \in {"none", "daemon", "elsewhere", "nowhere"}
  /\ answer \in States \cup {"none", "?", "error"}
  /\ shown \in States \cup {"none", "?"}
  /\ waited \in 0..DefaultTimeout /\ nap \in 0..PollInterval
  /\ code \in {-1, 0, 1, 2, 101}
  /\ during \subseteq States
  /\ said \in [from : States \cup {"none", "?"}, to : States \cup {"none", "?"}]

Init ==
  /\ \/ typed \in Lines /\ command = Parsing
     \/ typed = <<>> /\ command = Command("Tray")
  /\ argv = typed /\ raw = NoArgs
  /\ daemon = "serving" /\ published = "available"
  /\ pc = "start" /\ base = "none" /\ answer = "none" /\ shown = "none"
  /\ waited = 0 /\ nap = 0 /\ code = -1 /\ warnings = {}
  /\ during = {} /\ said = Nobody

Exit(c) == pc' = "exit" /\ code' = c

-----------------------------------------------------------------------------
\* The parser reads argv before anything else happens in the process.
ParseArgs ==
  /\ pc = "start" /\ Kind = "parsing"
  /\ Parse
  /\ UNCHANGED <<world, pc, base, answer, shown, waited, nap, code, warnings, during, said>>

\* The commands that are over without a daemon.
EndAtOnce ==
  /\ pc = "start"
  /\ \/ Kind = "UsageError" /\ Exit(2)
     \/ Kind \in {"Version", "Help"} /\ Exit(0)
  /\ UNCHANGED <<parser, world, base, answer, shown, waited, nap, warnings, during, said>>

\* CheckConfig; and RunDaemon, which exits with an error on the same failures.
CheckConfig ==
  /\ pc = "start" /\ Kind \in {"CheckConfig", "RunDaemon"}
  /\ \E file \in Files :
       \/ Loads(file) /\ Kind = "CheckConfig"
          /\ Exit(0) /\ warnings' = {<<load(file), check_config(load(file))>>}
       \/ ~Loads(file) /\ Exit(1) /\ UNCHANGED warnings
  /\ UNCHANGED <<parser, world, base, answer, shown, waited, nap, during, said>>

(***************************************************************************)
(* Where is the daemon?  Something answers at "daemon" and "elsewhere",    *)
(* the latter being another service; any other text names nobody.  The     *)
(* local configuration is the one the daemon runs with.                    *)
(***************************************************************************)
Site(url) == IF url \in {"daemon", "elsewhere"} THEN url ELSE "nowhere"

\* 127.0.0.1 is not where a daemon bound to one LAN address listens.
LocalSite(cfg) == IF cfg.bind = "loopback" THEN "daemon" ELSE "nowhere"

GivenUrl(env) == command.args.url # Unset \/ env \notin {Unset, ""}

\* resolve_daemon_url_or_exit: the configuration is loaded only if it decides.
Resolve ==
  /\ pc = "start" /\ Kind \in {"Status", "Wait", "Watch"}
  /\ \E env \in {Unset, "", "daemon", "elsewhere"} :
       \/ /\ GivenUrl(env)
          /\ base' = Site(resolve_daemon_url(command.args.url, env, "none"))
          /\ pc' = "poll" /\ UNCHANGED code
       \/ /\ ~GivenUrl(env)
          /\ \E file \in Files :
               \/ Loads(file) /\ base' = LocalSite(load(file)) /\ pc' = "poll" /\ UNCHANGED code
               \/ ~Loads(file) /\ UNCHANGED base /\ Exit(1)
  /\ command' = [command EXCEPT !.args.url = Unset, !.args.config = Unset]
  /\ typed' = <<>>
  /\ UNCHANGED <<argv, raw, world, answer, shown, waited, nap, warnings, during, said>>

\* The tray's BASE_URL: a variable that is set is used, even when it is empty.
ResolveTray ==
  /\ pc = "start" /\ Kind = "Tray"
  /\ \E env \in {Unset, "", "daemon", "elsewhere"} :
       base' = IF env = Unset THEN "daemon" ELSE Site(env)
  /\ pc' = "poll"
  /\ UNCHANGED <<parser, world, answer, shown, waited, nap, code, warnings, during, said>>

\* run_wait adds the timeout to the clock: a sum the clock cannot hold panics.
Overflow ==
  /\ pc = "poll" /\ Kind = "Wait" /\ command.args.timeout_s = "2^64-1"
  /\ Exit(101)
  /\ UNCHANGED <<parser, world, base, answer, shown, waited, nap, warnings, during, said>>

-----------------------------------------------------------------------------
\* fetch_status_json, fetch_status: the request leaves.
Send ==
  /\ pc = "poll" /\ command.args.timeout_s # "2^64-1"
  /\ pc' = "sent"
  /\ during' = {published}
  /\ UNCHANGED <<parser, world, base, answer, shown, waited, nap, code, warnings, said>>

(***************************************************************************)
(* The answer: what the daemon publishes now, a body without a state, or   *)
(* an error (nobody listens, or the connection breaks).  The tray wants a  *)
(* whole StatusSnapshot.  A wedged daemon gives none.                      *)
(***************************************************************************)
Answer ==
  /\ pc = "sent"
  /\ \/ base = "daemon" /\ daemon = "serving" /\ answer' = published
     \/ base = "daemon" /\ daemon = "down" /\ answer' = "error"
     \/ base = "elsewhere" /\ answer' = IF Kind = "Tray" THEN "error" ELSE "?"
     \/ base = "nowhere" /\ answer' = "error"
  /\ pc' = "answered"
  /\ UNCHANGED <<parser, world, base, shown, waited, nap, code, warnings, during, said>>

quiet_exit_code(s) == IF s = "available" THEN 0 ELSE 1

\* run_status.
Status ==
  /\ pc = "answered" /\ Kind = "Status"
  /\ CASE answer = "error" -> Exit(IF command.args.quiet # Unset THEN 2 ELSE 1)
       [] answer # "error" -> Exit(IF command.args.quiet # Unset THEN quiet_exit_code(answer)
                                   ELSE 0)
  /\ UNCHANGED <<parser, world, base, answer, shown, waited, nap, warnings, during, said>>

Sleep == pc' = "sleep" /\ nap' = PollInterval

\* Mutant: the deadline is checked before the answer.
WaitDeadlineFirst ==
  /\ pc = "answered" /\ Kind = "Wait"
  /\ CASE answer = "error" \/ waited >= Limit -> Exit(1) /\ UNCHANGED nap
       [] answer = Target /\ waited < Limit -> Exit(0) /\ UNCHANGED nap
       [] OTHER -> Sleep /\ UNCHANGED code
  /\ UNCHANGED <<parser, world, base, answer, shown, waited, warnings, during, said>>

\* Mutant: an error is retried for ever.
WaitThroughErrors ==
  /\ pc = "answered" /\ Kind = "Wait"
  /\ CASE answer = Target -> Exit(0) /\ UNCHANGED nap
       [] answer \notin {Target, "error"} /\ waited >= Limit -> Exit(1) /\ UNCHANGED nap
       [] OTHER -> Sleep /\ UNCHANGED code
  /\ UNCHANGED <<parser, world, base, answer, shown, waited, warnings, during, said>>

\* run_wait: the answer decides first, the deadline next.
Wait ==
  /\ pc = "answered" /\ Kind = "Wait"
  /\ CASE answer = Target -> Exit(0) /\ UNCHANGED nap
       [] answer = "error" \/ (answer # Target /\ waited >= Limit) -> Exit(1) /\ UNCHANGED nap
       [] OTHER -> Sleep /\ UNCHANGED code
  /\ UNCHANGED <<parser, world, base, answer, shown, waited, warnings, during, said>>

\* Mutant: an error forgets the state that was printed.
WatchForgetful ==
  /\ pc = "answered" /\ Kind = "Watch"
  /\ IF answer \notin {"error", shown}
       THEN said' = [from |-> shown, to |-> answer] /\ shown' = answer
       ELSE UNCHANGED said /\ shown' = IF answer = "error" THEN "none" ELSE shown
  /\ Sleep
  /\ UNCHANGED <<parser, world, base, answer, waited, code, warnings, during>>

\* run_watch: a line for the first state and for every change; errors are skipped.
Watch ==
  /\ pc = "answered" /\ Kind = "Watch"
  /\ IF answer \notin {"error", shown}
       THEN said' = [from |-> shown, to |-> answer] /\ shown' = answer
       ELSE UNCHANGED <<said, shown>>
  /\ Sleep
  /\ UNCHANGED <<parser, world, base, answer, waited, code, warnings, during>>

\* transition_message: no message from evicting to gaming, nor after an error.
transition_message(from, to) ==
  /\ from \in States /\ from # to
  /\ to = "gaming" => from = "available"

\* Mutant: the icon keeps its colour when the daemon cannot be reached.
TrayKeepsColour ==
  /\ pc = "answered" /\ Kind = "Tray"
  /\ shown' = IF answer = "error" THEN shown ELSE answer
  /\ said' = IF answer # "error" /\ transition_message(shown, answer)
               THEN [from |-> shown, to |-> answer] ELSE said
  /\ Sleep
  /\ UNCHANGED <<parser, world, base, answer, waited, code, warnings, during>>

\* The poll loop of the tray: grey, and no memory, on an error.
Tray ==
  /\ pc = "answered" /\ Kind = "Tray"
  /\ shown' = IF answer = "error" THEN "?" ELSE answer
  /\ said' = IF answer # "error" /\ transition_message(shown, answer)
               THEN [from |-> shown, to |-> answer] ELSE said
  /\ Sleep
  /\ UNCHANGED <<parser, world, base, answer, waited, code, warnings, during>>

Wake ==
  /\ pc = "sleep" /\ nap = 0
  /\ pc' = "poll"
  /\ UNCHANGED <<parser, world, base, answer, shown, waited, nap, code, warnings, during, said>>

\* watch runs until killed; the tray until Quit, or until its host is gone.
Quit ==
  /\ Kind \in {"Watch", "Tray"} /\ pc # "exit"
  /\ Exit(0)
  /\ UNCHANGED <<parser, world, base, answer, shown, waited, nap, warnings, during, said>>

-----------------------------------------------------------------------------
\* The daemon's moves matter while the process polls it.
Polling == pc \in {"poll", "sent", "answered", "sleep"}

\* What the passes of the daemon publish (set_state).
Publish ==
  /\ Polling /\ daemon = "serving"
  /\ published' = CASE published = "available" -> "evicting"
                    [] published = "evicting" -> "gaming"
                    [] published = "gaming" -> "available"
  /\ during' = during \cup {published'}
  /\ UNCHANGED <<parser, daemon, pc, base, answer, shown, waited, nap, code, warnings, said>>

\* A daemon serves after its startup pass, which may have failed to see a game.
Restart ==
  /\ Polling /\ daemon = "down" /\ daemon' = "serving"
  /\ published' \in {"available", "gaming"}
  /\ during' = during \cup {published'}
  /\ UNCHANGED <<parser, pc, base, answer, shown, waited, nap, code, warnings, said>>

\* It dies, is suspended, and is woken up again.
Fail ==
  /\ Polling
  /\ \/ daemon # "down" /\ daemon' = "down"
     \/ daemon = "serving" /\ daemon' = "wedged"
     \/ daemon = "wedged" /\ daemon' = "serving"
  /\ UNCHANGED <<parser, published, pc, base, answer, shown, waited, nap, code, warnings, during,
                 said>>

Tick ==
  /\ Polling
  /\ nap' = IF nap > 0 THEN nap - 1 ELSE 0
  /\ waited' = IF Kind = "Wait" /\ waited < DefaultTimeout THEN waited + 1 ELSE waited
  /\ UNCHANGED <<parser, world, pc, base, answer, shown, code, warnings, during, said>>

-----------------------------------------------------------------------------
Process ==
  \/ ParseArgs \/ EndAtOnce \/ CheckConfig \/ Resolve \/ ResolveTray \/ Overflow
  \/ Send \/ Answer \/ Status \/ Wait \/ Watch \/ Tray \/ Wake

Next == Process \/ Quit \/ Publish \/ Restart \/ Fail \/ Tick

(***************************************************************************)
(* The client runs and time passes.  A daemon that serves answers, and an  *)
(* address where nobody listens refuses; nothing makes a wedged daemon     *)
(* answer, and nothing makes a dead one come back.                         *)
(***************************************************************************)
Spec == Init /\ [][Next]_vars /\ WF_vars(Process) /\ WF_vars(Tick)

-----------------------------------------------------------------------------
(***************************************************************************)
(* What an exit code tells a script.  wait: 0 only if the daemon published *)
(* the awaited state while the last request was open; 1 after an answer    *)
(* only if the time is up and that state was not there through the whole   *)
(* request.  status -q: 0 if the GPU was available while it asked, 1 after *)
(* an answer if it was not so all the time, 2 if nobody could be asked.    *)
(* --check-config: 0 with a warning of the ollama_url exactly if the       *)
(* daemon will fail to ask it for models.                                  *)
(***************************************************************************)
ExitCodesTellTheTruth ==
  pc = "exit" =>
    /\ Kind = "Wait" /\ base = "daemon" /\ answer # "none" =>
         /\ code = 0 => Target \in during
         /\ code = 1 /\ answer # "error" => waited >= Limit /\ during # {Target}
    /\ Kind = "Status" /\ command.args.quiet # Unset /\ base = "daemon" =>
         /\ code = 0 => "available" \in during
         /\ code = 1 => during # {"available"}
         /\ code = 2 <=> answer = "error"
    /\ \A w \in warnings : code = 0 /\ ("ollama_url" \in w[2] <=> ModelsFail(w[1]))

(***************************************************************************)
(* The lines of watch chain, whatever was missed between two polls or      *)
(* while the daemon was away: each begins where the last one ended.  The   *)
(* tray notifies of a change of the state its icon showed, and of nothing  *)
(* it did not see.                                                         *)
(***************************************************************************)
ChangesChain ==
  [][said' # said =>
       /\ said'.from # said'.to
       /\ Kind = "Watch" => said'.from = said.to
       /\ Kind = "Tray" => said'.from = shown /\ said'.to \in during]_vars

(***************************************************************************)
(* A line that starts the daemon holds nothing but a configuration path: a *)
(* misspelt subcommand, or flags without one, never start a second daemon. *)
(***************************************************************************)
NoAccidentalDaemon ==
  Kind = "RunDaemon" =>
    \A i \in DOMAIN typed :
      typed[i].word = "--config" \/ (i > 1 /\ typed[i - 1] = Bare("--config"))

\* A command that is not meant to run for ever ends, unless the daemon is wedged.
CommandsEnd ==
  <>[](daemon # "wedged") => <>(pc = "exit" \/ Kind \in {"Watch", "Tray", "RunDaemon"})

\* A state that stays is printed by watch and shown by the tray, for good,
\* whatever outages came before; and an outage that stays greys the icon.
StaysShown ==
  /\ \A s \in States :
       <>[](daemon = "serving" /\ published = s) =>
         <>[](base = "daemon" /\ Kind \in {"Watch", "Tray"} => shown = s \/ pc = "exit")
  /\ <>[](daemon = "down") => <>[](Kind = "Tray" => shown = "?" \/ pc = "exit")

\* wait gives up after its timeout, "not to hang a caller ... indefinitely
\* against a wedged daemon" (DEFAULT_WAIT_TIMEOUT_S).
WaitGivesUp == <>[](daemon = "wedged") => (Kind = "Wait" ~> pc = "exit")

=============================================================================
