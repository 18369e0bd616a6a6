---------------------------- MODULE CommandLine -----------------------------
(***************************************************************************)
(* cli::parse_args: one pass over the words of the command line, left to   *)
(* right, then the checks of finalize.  A word is a record: `word' is the  *)
(* word, or the part before its `=' in the form --flag=value.              *)
(***************************************************************************)
EXTENDS Configuration, Sequences, Functions

VARIABLES
  typed,     \* the command line, until it is done with
  argv,      \* the words of it not yet read
  raw,       \* RawArgs
  command    \* the Command, or "parsing"

parser == <<typed, argv, raw, command>>

Switches == [check_config |-> "--check-config", json |-> "--json", quiet |-> "--quiet"]
Options  == [config |-> "--config", url |-> "--url", for_state |-> "--for",
             timeout_s |-> "--timeout"]
Flags    == DOMAIN Switches \cup DOMAIN Options

Bare(word) == [word |-> word, value |-> Unset]

\* The words that start with a dash.
Dashed == {"--version", "--help", "--bogus"} \cup Range(Switches) \cup Range(Options)

NoArgs == [subcommand |-> Unset, check_config |-> Unset, json |-> Unset, quiet |-> Unset,
           config |-> Unset, url |-> Unset, for_state |-> Unset, timeout_s |-> Unset]

Command(kind) == [kind |-> kind, args |-> NoArgs]
Parsing == Command("parsing")
UsageError == Command("UsageError")

\* The flags that mean something to a subcommand.
AppliesTo(subcommand) ==
  CASE subcommand = "status" -> {"config", "url", "json", "quiet"}
    [] subcommand = "wait"   -> {"config", "url", "for_state", "timeout_s"}
    [] subcommand = "watch"  -> {"config", "url", "json"}
    [] OTHER                 -> {"config", "check_config"}

\* WaitFor::from_str and the parse of --timeout.
WaitStates == [available |-> "available", claimed |-> "gaming"]
Timeouts   == {"0", "2", "2^64-1"}

Misused(r) == {f \in Flags : r[f] # Unset} \ AppliesTo(r.subcommand)

Malformed(r) ==
  \/ r.subcommand \notin {Unset, "status", "wait", "watch"}
  \/ r.subcommand = "status" /\ r.json # Unset /\ r.quiet # Unset
  \/ r.for_state \notin DOMAIN WaitStates \cup {Unset}
  \/ r.timeout_s \notin Timeouts \cup {Unset}

\* Mutant: a word that is no subcommand is overlooked.
finalize_lenient(r) ==
  IF Misused(r) # {} \/ (r.subcommand \in {"status", "wait", "watch"} /\ Malformed(r))
    THEN UsageError
  ELSE [args |-> r,
        kind |-> CASE r.subcommand = "status" -> "Status"
                   [] r.subcommand = "wait" -> "Wait"
                   [] r.subcommand = "watch" -> "Watch"
                   [] r.check_config # Unset -> "CheckConfig"
                   [] OTHER -> "RunDaemon"]

\* finalize: a flag that does not apply, or a value out of its set, is a usage error.
finalize(r) ==
  IF Misused(r) # {} \/ Malformed(r) THEN UsageError
  ELSE [args |-> r,
        kind |-> CASE r.subcommand = "status" -> "Status"
                   [] r.subcommand = "wait" -> "Wait"
                   [] r.subcommand = "watch" -> "Watch"
                   [] r.check_config # Unset -> "CheckConfig"
                   [] OTHER -> "RunDaemon"]

-----------------------------------------------------------------------------
Reading == command = Parsing /\ argv # <<>>
Word    == Head(argv)

\* The words --version and --help end the parse when they are reached.
Inform ==
  /\ Reading
  /\ \/ Word = Bare("--version") /\ command' = Command("Version")
     \/ Word = Bare("--help") /\ command' = Command("Help")
  /\ argv' = <<>>
  /\ UNCHANGED raw

TakeSwitch(f) ==
  /\ Reading /\ Word = Bare(Switches[f])
  /\ raw' = [raw EXCEPT ![f] = "given"]
  /\ argv' = Tail(argv)
  /\ UNCHANGED command

\* take_value: the next word, whatever it is, unless it is empty or missing.
TakeValue(f) ==
  /\ Reading /\ Word = Bare(Options[f])
  /\ IF Len(argv) > 1 /\ argv[2].word # ""
       THEN /\ raw' = [raw EXCEPT ![f] = IF argv[2].value = Unset THEN argv[2].word ELSE "a=b"]
            /\ argv' = Tail(Tail(argv))
            /\ UNCHANGED command
       ELSE command' = UsageError /\ argv' = <<>> /\ UNCHANGED raw

\* non_empty_eq: the form --flag=value.
TakeEquals(f) ==
  /\ Reading /\ Word.word = Options[f] /\ Word.value # Unset
  /\ IF Word.value # ""
       THEN /\ raw' = [raw EXCEPT ![f] = Word.value]
            /\ argv' = Tail(argv)
            /\ UNCHANGED command
       ELSE command' = UsageError /\ argv' = <<>> /\ UNCHANGED raw

\* The first word that is no flag is the subcommand; a second one is an error.
TakePositional ==
  /\ Reading /\ Word.word \notin Dashed
  /\ IF raw.subcommand = Unset
       THEN /\ raw' = [raw EXCEPT !.subcommand = Word.word]
            /\ argv' = Tail(argv)
            /\ UNCHANGED command
       ELSE command' = UsageError /\ argv' = <<>> /\ UNCHANGED raw

\* A flag nobody knows; a switch with a value is one.
UnknownFlag ==
  /\ Reading /\ Word.word \in Dashed \ Range(Options)
  /\ Word.word = "--bogus" \/ Word.value # Unset
  /\ command' = UsageError
  /\ argv' = <<>>
  /\ UNCHANGED raw

Finalize ==
  /\ command = Parsing /\ argv = <<>>
  /\ command' = finalize(raw)
  /\ raw' = NoArgs
  /\ UNCHANGED argv

Parse ==
  /\ \/ Inform \/ TakePositional \/ UnknownFlag \/ Finalize
     \/ \E f \in DOMAIN Switches : TakeSwitch(f)
     \/ \E f \in DOMAIN Options : TakeValue(f) \/ TakeEquals(f)
  /\ UNCHANGED typed

=============================================================================
