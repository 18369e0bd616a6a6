---------------------------- MODULE ClientProofs ----------------------------
(***************************************************************************)
(* Proofs about Client, for any command lines, poll interval and timeout.  *)
(***************************************************************************)
EXTENDS Client, SequenceTheorems, TLAPS

-----------------------------------------------------------------------------
(***************************************************************************)
(* Reading a command line.                                                 *)
(***************************************************************************)
Argument == [word : STRING \ {Unset}, value : STRING]

\* argv is the end of the command line that is not yet read.
RestOf(a, t) ==
  Len(a) <= Len(t) /\ \A i \in 1..Len(a) : a[i] = t[Len(t) - Len(a) + i]

LEMMA NextWord ==
  ASSUME NEW t \in Seq(Argument), NEW a \in Seq(Argument), a # <<>>, RestOf(a, t)
  PROVE  /\ Tail(a) \in Seq(Argument) /\ RestOf(Tail(a), t)
         /\ Len(Tail(a)) = Len(a) - 1 /\ Len(a) \in Nat \ {0} /\ Len(t) \in Nat
         /\ Len(a) <= Len(t)
         /\ Head(a) = t[Len(t) - Len(a) + 1] /\ Head(a).word # Unset
<1> DEFINE b == Tail(a)
<1>1. /\ b \in Seq(Argument) /\ Len(b) = Len(a) - 1 /\ Head(a) = a[1]
      /\ \A i \in 1..Len(b) : b[i] = a[i + 1]
      /\ Len(a) \in Nat \ {0} /\ Len(t) \in Nat
  BY HeadTailProperties, LenProperties, EmptySeq
<1>2. Head(a).word # Unset
  <2>1. Head(a) \in Argument
    BY HeadTailProperties
  <2> QED BY <2>1 DEF Argument
<1> HIDE DEF b
<1>3. RestOf(b, t)
  <2>1. \A i \in 1..Len(b) : i + 1 \in 1..Len(a) /\ a[i + 1] = t[Len(t) - Len(a) + (i + 1)]
    BY <1>1 DEF RestOf
  <2> QED BY <1>1, <2>1 DEF RestOf
<1> QED BY <1>1, <1>2, <1>3 DEF RestOf, b

LEMMA FlagNames ==
  /\ Flags = {"check_config", "json", "quiet", "config", "url", "for_state", "timeout_s"}
  /\ DOMAIN Switches = {"check_config", "json", "quiet"}
  /\ DOMAIN Options = {"config", "url", "for_state", "timeout_s"}
  /\ \A f \in DOMAIN Options : Options[f] = "--config" => f = "config"
  /\ Options["config"] = "--config"
BY DEF Flags, Switches, Options

Fields == {"subcommand"} \cup Flags

LEMMA NoArgsFields == DOMAIN NoArgs = Fields /\ \A f \in Fields : NoArgs[f] = Unset
BY FlagNames DEF NoArgs, Fields

\* No field but the path of the configuration is given.
Plain(r) == \A f \in Fields \ {"config"} : r[f] = Unset

ConfigWord(t, i) == t[i].word = "--config" \/ (i > 1 /\ t[i - 1] = Bare("--config"))

(***************************************************************************)
(* Only a plain line starts the daemon; an argument of wait is one that    *)
(* run_wait knows.                                                         *)
(***************************************************************************)
LEMMA FinalizePlain ==
  ASSUME NEW r, DOMAIN r = Fields
  PROVE  /\ finalize(r).kind = "RunDaemon" => Plain(r)
         /\ finalize(r) # Parsing
         /\ DOMAIN finalize(r) = {"kind", "args"} /\ DOMAIN finalize(r).args = Fields
         /\ finalize(r).args.for_state \in DOMAIN WaitStates \cup {Unset}
<1>1. CASE Misused(r) # {} \/ Malformed(r)
  <2>1. finalize(r) = UsageError
    BY <1>1 DEF finalize
  <2> QED BY <2>1, NoArgsFields, FlagNames DEF UsageError, Command, Parsing, Fields
<1>2. CASE Misused(r) = {} /\ ~Malformed(r)
  <2> DEFINE kind == CASE r.subcommand = "status" -> "Status"
                       [] r.subcommand = "wait" -> "Wait"
                       [] r.subcommand = "watch" -> "Watch"
                       [] r.check_config # Unset -> "CheckConfig"
                       [] OTHER -> "RunDaemon"
  <2>1. finalize(r) = [args |-> r, kind |-> kind]
    BY <1>2 DEF finalize
  <2>2. kind # "parsing"
    OBVIOUS
  <2>3. r.for_state \in DOMAIN WaitStates \cup {Unset}
    BY <1>2 DEF Malformed
  <2>4. ASSUME kind = "RunDaemon" PROVE Plain(r)
    <3>1. r.subcommand = Unset /\ r.check_config = Unset
      BY <1>2, <2>4 DEF Malformed
    <3>2. AppliesTo(r.subcommand) = {"config", "check_config"}
      BY <3>1 DEF AppliesTo, Unset
    <3>3. \A f \in Flags \ {"config", "check_config"} : r[f] = Unset
      BY <1>2, <3>2 DEF Misused
    <3> QED BY <3>1, <3>3 DEF Plain, Fields
  <2> HIDE DEF kind
  <2>5. finalize(r).kind = kind /\ finalize(r).args = r /\ DOMAIN finalize(r) = {"kind", "args"}
    BY <2>1
  <2>6. finalize(r) # Parsing
    BY <2>2, <2>5 DEF Parsing, Command
  <2> QED BY <2>3, <2>4, <2>5, <2>6
<1> QED BY <1>1, <1>2

-----------------------------------------------------------------------------
(***************************************************************************)
(* While the parser reads, what it has read is plain, unless raw shows     *)
(* that it is not; so is a whole line that has become RunDaemon.           *)
(***************************************************************************)
ParseInv ==
  /\ typed \in Seq(Argument) /\ argv \in Seq(Argument)
  /\ DOMAIN raw = Fields
  /\ DOMAIN command = {"kind", "args"} /\ DOMAIN command.args = Fields
  /\ command.args.for_state \in DOMAIN WaitStates \cup {Unset}
  /\ command = Parsing =>
       /\ pc = "start" /\ RestOf(argv, typed)
       /\ Plain(raw) => \A i \in 1..Len(typed) - Len(argv) : ConfigWord(typed, i)
  /\ Kind = "RunDaemon" => \A i \in DOMAIN typed : ConfigWord(typed, i)

LEMMA CommandFields ==
  ASSUME NEW kind
  PROVE  /\ Command(kind).kind = kind /\ DOMAIN Command(kind) = {"kind", "args"}
         /\ DOMAIN Command(kind).args = Fields
         /\ Command(kind).args.for_state = Unset
BY NoArgsFields, FlagNames DEF Command, Fields

LEMMA ParseInit == Init => ParseInv
<1> SUFFICES ASSUME Init PROVE ParseInv
  OBVIOUS
<1>1. typed \in Seq(Argument) /\ argv = typed /\ raw = NoArgs /\ pc = "start"
  BY ClientAssumption, EmptySeq DEF Init, Argument
<1>2. Len(typed) \in Nat
  BY <1>1, LenProperties
<1>3. PICK kind \in {"parsing", "Tray"} : command = Command(kind)
  BY DEF Init, Parsing
<1>4. Kind # "RunDaemon"
  BY <1>3, CommandFields DEF Kind
<1>5. RestOf(argv, typed) /\ 1..Len(typed) - Len(argv) = {}
  BY <1>1, <1>2 DEF RestOf
<1> QED BY <1>1, <1>3, <1>4, <1>5, CommandFields, NoArgsFields DEF ParseInv

\* A field that is given stays given, and a word was read for it.
LEMMA GiveField ==
  ASSUME NEW r, DOMAIN r = Fields, NEW f \in Fields, NEW v, v # Unset
  PROVE  /\ DOMAIN [r EXCEPT ![f] = v] = Fields
         /\ Plain([r EXCEPT ![f] = v]) => f = "config" /\ Plain(r)
<1> DEFINE s == [r EXCEPT ![f] = v]
<1>1. DOMAIN s = Fields /\ s[f] = v /\ \A g \in Fields \ {f} : s[g] = r[g]
  OBVIOUS
<1> HIDE DEF s
<1>2. ASSUME Plain(s) PROVE f = "config" /\ Plain(r)
  <2>1. f = "config"
    BY <1>1, <1>2 DEF Plain
  <2> QED BY <1>1, <1>2, <2>1 DEF Plain
<1> QED BY <1>1, <1>2 DEF s

\* One more word of the line is read, and it is no more than a path unless raw says so.
LEMMA ReadWord ==
  ASSUME NEW t \in Seq(Argument), NEW a \in Seq(Argument), a # <<>>, RestOf(a, t),
         \A i \in 1..Len(t) - Len(a) : ConfigWord(t, i),
         ConfigWord(t, Len(t) - Len(a) + 1)
  PROVE  \A i \in 1..Len(t) - Len(Tail(a)) : ConfigWord(t, i)
<1> DEFINE m == Len(a)
           n == Len(t)
           k == Len(Tail(a))
<1>1. k = m - 1 /\ m \in Nat \ {0} /\ n \in Nat /\ m <= n
  BY NextWord
<1> HIDE DEF m, n, k
<1>2. \A i \in 1..n - k : i \in 1..n - m \/ i = n - m + 1
  BY <1>1
<1>3. \A i \in 1..n - k : ConfigWord(t, i)
  BY <1>2 DEF n, m
<1> QED BY <1>3 DEF n, k

LEMMA ParseStep == ParseInv /\ ParseArgs => ParseInv'
<1> SUFFICES ASSUME ParseInv, ParseArgs PROVE ParseInv'
  OBVIOUS
<1> USE DEF ParseInv
<1>1. typed' = typed /\ pc' = "start" /\ Parse
  BY DEF ParseArgs, Parse
<1>2. ASSUME NEW kind, kind \notin {"parsing", "RunDaemon"}, command' = Command(kind),
             argv' \in Seq(Argument), DOMAIN raw' = Fields
      PROVE  ParseInv'
  BY <1>1, <1>2, CommandFields DEF Kind, Parsing
<1>3. <<>> \in Seq(Argument) /\ DOMAIN NoArgs = Fields
  BY EmptySeq, NoArgsFields
<1>4. CASE Inform
  <2>1. argv' = <<>> /\ raw' = raw /\ command' \in {Command("Version"), Command("Help")}
    BY <1>4 DEF Inform
  <2> QED BY <1>2, <1>3, <2>1
<1>5. ASSUME argv' = <<>>, raw' = raw, command' = UsageError
      PROVE  ParseInv'
  BY <1>2, <1>3, <1>5 DEF UsageError
<1>6. ASSUME Reading, NEW f \in Fields, NEW v, v # Unset, command' = command,
             raw' = [raw EXCEPT ![f] = v], argv' \in Seq(Argument), RestOf(argv', typed),
             f = "config" /\ (\A i \in 1..Len(typed) - Len(argv) : ConfigWord(typed, i)) =>
               \A i \in 1..Len(typed) - Len(argv') : ConfigWord(typed, i)
      PROVE  ParseInv'
  <2>1. DOMAIN raw' = Fields /\ (Plain(raw') => f = "config" /\ Plain(raw))
    BY <1>6, GiveField
  <2>2. Plain(raw') => \A i \in 1..Len(typed') - Len(argv') : ConfigWord(typed', i)
    BY <1>1, <1>6, <2>1 DEF Reading
  <2>3. Kind # "RunDaemon"
    BY <1>6, CommandFields DEF Reading, Kind, Parsing
  <2> QED BY <1>1, <1>6, <2>1, <2>2, <2>3 DEF Kind
<1>7. ASSUME Reading
      PROVE  /\ Len(argv) \in Nat \ {0} /\ Len(typed) \in Nat
             /\ Tail(argv) \in Seq(Argument) /\ RestOf(Tail(argv), typed)
             /\ Word = typed[Len(typed) - Len(argv) + 1] /\ Word.word # Unset
  BY <1>7, NextWord DEF Reading, Word
<1>8. ASSUME Reading, Word.word = "--config",
             \A i \in 1..Len(typed) - Len(argv) : ConfigWord(typed, i)
      PROVE  \A i \in 1..Len(typed) - Len(Tail(argv)) : ConfigWord(typed, i)
  <2>1. ConfigWord(typed, Len(typed) - Len(argv) + 1)
    BY <1>7, <1>8 DEF ConfigWord
  <2> QED BY <1>8, <2>1, ReadWord DEF Reading
<1>9. ASSUME NEW f \in DOMAIN Switches, TakeSwitch(f) PROVE ParseInv'
  <2>1. /\ Reading /\ raw' = [raw EXCEPT ![f] = "given"]
        /\ argv' = Tail(argv) /\ command' = command
    BY <1>9 DEF TakeSwitch
  <2>2. f \in Fields /\ f # "config" /\ "given" # Unset
    BY FlagNames DEF Fields, Unset
  <2> QED BY <1>6, <1>7, <2>1, <2>2
<1>10. ASSUME NEW f \in DOMAIN Options, TakeValue(f) PROVE ParseInv'
  <2>1. CASE ~(Len(argv) > 1 /\ argv[2].word # "")
    BY <1>5, <1>10, <2>1 DEF TakeValue
  <2>2. CASE Len(argv) > 1 /\ argv[2].word # ""
    <3>0. Len(argv) \in Nat /\ 2 \in 1..Len(argv) /\ Len(argv) - 1 # 0
      <4>1. Len(argv) > 1
        BY <2>2
      <4>2. Len(argv) \in Nat
        BY LenProperties
      <4> HIDE DEF ParseInv
      <4> QED BY <4>1, <4>2
    <3> DEFINE v == IF argv[2].value = Unset THEN argv[2].word ELSE "a=b"
               next == Tail(argv)
    <3>1. /\ Reading /\ Word = Bare(Options[f]) /\ raw' = [raw EXCEPT ![f] = v]
          /\ argv' = Tail(next) /\ command' = command
      BY <1>10, <2>2 DEF TakeValue
    <3>2. v # Unset
      <4>1. argv[2] \in Argument
        BY <3>0, ElementOfSeq
      <4> QED BY <4>1 DEF Argument, Unset
    <3>3. Len(next) = Len(argv) - 1 /\ next # <<>>
      <4>1. Len(next) = Len(argv) - 1
        BY <3>1, NextWord DEF Reading
      <4> HIDE DEF next
      <4> QED BY <3>0, <4>1, EmptySeq
    <3> HIDE DEF v, next
    <3>4. next \in Seq(Argument) /\ RestOf(next, typed)
      BY <1>7, <3>1 DEF next
    <3>5. argv' \in Seq(Argument) /\ RestOf(argv', typed)
      BY <3>1, <3>3, <3>4, NextWord
    <3>6. ASSUME f = "config", \A i \in 1..Len(typed) - Len(argv) : ConfigWord(typed, i)
          PROVE  \A i \in 1..Len(typed) - Len(argv') : ConfigWord(typed, i)
      <4>1. Word = Bare("--config")
        BY <3>1, <3>6, FlagNames
      <4>2. Word.word = "--config"
        BY <4>1 DEF Bare
      <4>3. \A i \in 1..Len(typed) - Len(next) : ConfigWord(typed, i)
        BY <1>8, <3>1, <3>6, <4>2 DEF next
      <4>4. /\ Len(typed) - Len(next) + 1 > 1
            /\ typed[Len(typed) - Len(next)] = Bare("--config")
        <5>1. Len(argv) <= Len(typed)
          BY <3>1 DEF Reading, RestOf
        <5>2. Len(typed) - Len(next) = Len(typed) - Len(argv) + 1
          BY <1>7, <3>1, <3>3
        <5> QED BY <1>7, <3>1, <4>1, <5>1, <5>2
      <4>5. ConfigWord(typed, Len(typed) - Len(next) + 1)
        <5>1. Len(typed) - Len(next) + 1 - 1 = Len(typed) - Len(next)
          BY <1>7, <3>1, <3>3
        <5> QED BY <4>4, <5>1 DEF ConfigWord
      <4> QED BY <3>1, <3>3, <3>4, <4>3, <4>5, ReadWord
    <3>7. f \in Fields
      BY FlagNames DEF Fields
    <3> QED BY <1>6, <3>1, <3>2, <3>5, <3>6, <3>7
  <2> QED BY <2>1, <2>2
<1>11. ASSUME NEW f \in DOMAIN Options, TakeEquals(f) PROVE ParseInv'
  <2>1. CASE Word.value = ""
    BY <1>5, <1>11, <2>1 DEF TakeEquals
  <2>2. CASE Word.value # ""
    <3>1. /\ Reading /\ Word.word = Options[f] /\ Word.value # Unset
          /\ raw' = [raw EXCEPT ![f] = Word.value] /\ argv' = Tail(argv) /\ command' = command
      BY <1>11, <2>2 DEF TakeEquals
    <3>2. f \in Fields /\ (f = "config" => Word.word = "--config")
      BY <3>1, FlagNames DEF Fields
    <3> QED BY <1>6, <1>7, <1>8, <3>1, <3>2
  <2> QED BY <2>1, <2>2
<1>12. CASE TakePositional
  <2>1. CASE raw.subcommand # Unset
    BY <1>5, <1>12, <2>1 DEF TakePositional
  <2>2. CASE raw.subcommand = Unset
    <3>1. /\ Reading /\ raw' = [raw EXCEPT !["subcommand"] = Word.word]
          /\ argv' = Tail(argv) /\ command' = command
      BY <1>12, <2>2 DEF TakePositional
    <3>2. "subcommand" \in Fields
      BY DEF Fields
    <3> QED BY <1>6, <1>7, <3>1, <3>2
  <2> QED BY <2>1, <2>2
<1>13. CASE UnknownFlag
  BY <1>5, <1>13 DEF UnknownFlag
<1>14. CASE Finalize
  <2>1. /\ command = Parsing /\ argv = <<>> /\ command' = finalize(raw)
        /\ raw' = NoArgs /\ argv' = argv
    BY <1>14 DEF Finalize
  <2>2. DOMAIN typed = 1..Len(typed) - Len(argv)
    <3>1. Len(argv) = 0 /\ Len(typed) \in Nat /\ DOMAIN typed = 1..Len(typed)
      BY <2>1, EmptySeq, LenProperties
    <3> QED BY <3>1
  <2>3. Kind' = "RunDaemon" => \A i \in DOMAIN typed' : ConfigWord(typed', i)
    BY <1>1, <2>1, <2>2, FinalizePlain DEF Kind
  <2> QED BY <1>1, <1>3, <2>1, <2>3, FinalizePlain
<1> QED BY <1>1, <1>4, <1>9, <1>10, <1>11, <1>12, <1>13, <1>14 DEF Parse

(***************************************************************************)
(* A line that becomes RunDaemon holds nothing but paths of configurations *)
(* (parse_args, finalize): once the daemon's command is there, so does the *)
(* whole line, and every later step of the process leaves both alone, or   *)
(* is done with the line.                                                  *)
(***************************************************************************)
LEMMA ParseInvStep == ParseInv /\ [Next]_vars => ParseInv'
<1> SUFFICES ASSUME ParseInv, [Next]_vars PROVE ParseInv'
  OBVIOUS
<1>1. ASSUME UNCHANGED parser, pc' = pc \/ command # Parsing PROVE ParseInv'
  BY <1>1 DEF ParseInv, parser, Kind
<1>2. CASE ParseArgs
  BY <1>2, ParseStep
<1>3. ASSUME Kind # "parsing" PROVE command # Parsing
  BY <1>3, CommandFields DEF Parsing, Kind
<1>4. CASE Resolve
  <2>1. /\ command' = [command EXCEPT !.args.url = Unset, !.args.config = Unset]
        /\ typed' = <<>> /\ argv' = argv /\ raw' = raw /\ Kind # "parsing"
    BY <1>4 DEF Resolve
  <2>2. /\ DOMAIN command' = {"kind", "args"} /\ DOMAIN command'.args = Fields
        /\ command'.args.for_state = command.args.for_state /\ command'.kind = command.kind
    BY <2>1, FlagNames DEF ParseInv, Fields
  <2>3. command' # Parsing
    BY <2>1, <2>2, CommandFields DEF Parsing, Kind
  <2>4. <<>> \in Seq(Argument) /\ DOMAIN <<>> = {}
    BY EmptySeq
  <2> QED BY <2>1, <2>2, <2>3, <2>4 DEF ParseInv
<1>5. CASE EndAtOnce \/ CheckConfig
  BY <1>1, <1>3, <1>5 DEF EndAtOnce, CheckConfig
<1>6. CASE ResolveTray \/ Overflow
  BY <1>1, <1>3, <1>6 DEF ResolveTray, Overflow
<1>7. ASSUME pc # "start" PROVE command # Parsing
  BY <1>7 DEF ParseInv
<1>8. CASE Send \/ Answer \/ Status \/ Wait \/ Watch \/ Tray \/ Wake
  BY <1>1, <1>7, <1>8 DEF Send, Answer, Status, Wait, Watch, Tray, Wake
<1>9. CASE Quit
  BY <1>1, <1>3, <1>9 DEF Quit
<1>10. CASE Publish \/ Restart \/ Fail \/ Tick
  BY <1>1, <1>10 DEF Publish, Restart, Fail, Tick
<1>11. CASE UNCHANGED vars
  BY <1>1, <1>11 DEF vars
<1> QED BY <1>2, <1>4, <1>5, <1>6, <1>8, <1>9, <1>10, <1>11 DEF Next, Process

(***************************************************************************)
(* A line that starts the daemon holds nothing but a configuration path    *)
(* (RawArgs, parse_args): no misspelt subcommand and no stray flag starts  *)
(* one, whatever else was typed before or behind it.                       *)
(***************************************************************************)
THEOREM DaemonIsMeant == Spec => []NoAccidentalDaemon
<1>1. ParseInv => NoAccidentalDaemon
  BY DEF ParseInv, NoAccidentalDaemon, ConfigWord
<1> QED BY <1>1, ParseInit, ParseInvStep, PTL DEF Spec

-----------------------------------------------------------------------------
(***************************************************************************)
(* Polling.  An answer is an error, or the state of a daemon that was      *)
(* published since the request left, or what another service says.         *)
(***************************************************************************)
PollInv ==
  /\ TypeOK
  /\ pc = "start" => base = "none" /\ answer = "none" /\ shown = "none" /\ said = Nobody
  /\ pc # "exit" => warnings = {}
  /\ pc = "sent" => published \in during
  /\ pc = "answered" => \/ answer = "error"
                        \/ base = "daemon" /\ answer \in during
                        \/ base = "elsewhere" /\ Kind # "Tray" /\ answer = "?"
  /\ Kind # "Tray" => shown = said.to
  /\ ExitCodesTellTheTruth

\* --check-config warns of the ollama_url exactly if the daemon will fail with it.
LEMMA WarningIsRight ==
  ASSUME NEW cfg
  PROVE  "ollama_url" \in check_config(cfg) <=> ModelsFail(cfg)
<1>1. "ollama_url" \in check_config(cfg) <=>
        introspection(cfg.unit) = "Ollama" /\ cfg.unit.ollama_url = "https"
  BY DEF check_config
<1>2. ollama_base_url(cfg.unit) = "https" <=> cfg.unit.ollama_url = "https"
  BY DEF ollama_base_url, Unset
<1> QED BY <1>1, <1>2 DEF ModelsFail

LEMMA PollInit == Init => PollInv
<1> SUFFICES ASSUME Init PROVE PollInv
  OBVIOUS
<1>1. TypeOK
  BY ClientAssumption DEF Init, TypeOK, States, Nobody
<1> QED BY <1>1 DEF Init, PollInv, Nobody, ExitCodesTellTheTruth

LEMMA SiteNames ==
  /\ \A url : Site(url) \in {"daemon", "elsewhere", "nowhere"}
  /\ \A cfg : LocalSite(cfg) \in {"daemon", "elsewhere", "nowhere"}
BY DEF Site, LocalSite

LEMMA TypeStep == TypeOK /\ [Next]_vars => TypeOK'
<1> SUFFICES ASSUME TypeOK, [Next]_vars PROVE TypeOK'
  OBVIOUS
<1> USE ClientAssumption DEF TypeOK, world
<1>1. CASE ParseArgs
  BY <1>1 DEF ParseArgs
<1>2. CASE EndAtOnce \/ CheckConfig
  BY <1>2 DEF EndAtOnce, CheckConfig, Exit
<1>3. CASE Resolve
  <2>1. /\ \/ base' \in {"daemon", "elsewhere", "nowhere"} /\ pc' = "poll" /\ UNCHANGED code
           \/ UNCHANGED base /\ Exit(1)
        /\ UNCHANGED <<world, answer, shown, waited, nap, warnings, during, said>>
    BY <1>3, SiteNames DEF Resolve
  <2> QED BY <2>1 DEF Exit
<1>4. CASE ResolveTray
  <2>1. /\ base' \in {"daemon", "elsewhere", "nowhere"} /\ pc' = "poll"
        /\ UNCHANGED <<world, answer, shown, waited, nap, code, warnings, during, said>>
    BY <1>4, SiteNames DEF ResolveTray
  <2> QED BY <2>1
<1>5. CASE Overflow
  BY <1>5 DEF Overflow, Exit
<1>6. CASE Send
  BY <1>6 DEF Send
<1>7. CASE Answer
  BY <1>7 DEF Answer
<1>8. CASE Status
  <2>1. pc' = "exit" /\ code' \in {0, 1, 2}
    BY <1>8 DEF Status, Exit, quiet_exit_code
  <2> QED BY <1>8, <2>1 DEF Status
<1>9. CASE Wait
  BY <1>9 DEF Wait, Exit, Sleep
<1>10. CASE Watch
  BY <1>10 DEF Watch, Sleep
<1>11. CASE Tray
  BY <1>11 DEF Tray, Sleep, transition_message
<1>12. CASE Wake
  BY <1>12 DEF Wake
<1>13. CASE Quit
  BY <1>13 DEF Quit, Exit
<1>14. CASE Publish
  BY <1>14 DEF Publish, States
<1>15. CASE Restart
  BY <1>15 DEF Restart, States
<1>16. CASE Fail
  BY <1>16 DEF Fail
<1>17. CASE Tick
  BY <1>17 DEF Tick
<1>18. CASE UNCHANGED vars
  BY <1>18 DEF vars
<1> QED BY <1>1, <1>2, <1>3, <1>4, <1>5, <1>6, <1>7, <1>8, <1>9, <1>10, <1>11, <1>12,
           <1>13, <1>14, <1>15, <1>16, <1>17, <1>18 DEF Next, Process

LEMMA TargetNames ==
  command.args.for_state \in DOMAIN WaitStates \cup {Unset} => Target \in States
BY DEF Target, WaitStates, States, Unset

\* The rest of the invariant, without the types.
PollClauses ==
  /\ pc = "start" => base = "none" /\ answer = "none" /\ shown = "none" /\ said = Nobody
  /\ pc # "exit" => warnings = {}
  /\ pc = "sent" => published \in during
  /\ pc = "answered" => \/ answer = "error"
                        \/ base = "daemon" /\ answer \in during
                        \/ base = "elsewhere" /\ Kind # "Tray" /\ answer = "?"
  /\ Kind # "Tray" => shown = said.to

LEMMA PollStep == ParseInv /\ PollInv /\ [Next]_vars => PollInv'
<1> SUFFICES ASSUME ParseInv, PollInv, [Next]_vars PROVE PollInv'
  OBVIOUS
<1>1. TypeOK /\ TypeOK'
  BY TypeStep DEF PollInv
<1>2. ASSUME PollClauses', pc' = "exit" => ExitCodesTellTheTruth' PROVE PollInv'
  BY <1>1, <1>2 DEF PollInv, PollClauses, ExitCodesTellTheTruth
<1>3. PollClauses /\ ExitCodesTellTheTruth
  BY DEF PollInv, PollClauses
<1> USE DEF PollClauses
\* The steps of a process that has not asked anybody.
<1>4. ASSUME UNCHANGED <<base, answer, shown, said>>, pc = "start",
             pc' \in {"start", "poll", "exit"}, warnings' = {}
      PROVE  PollInv'
  <2>1. base' = "none" /\ answer' = "none" /\ shown' = "none" /\ said' = Nobody
    BY <1>3, <1>4
  <2>2. PollClauses'
    BY <1>4, <2>1 DEF Nobody
  <2>3. ExitCodesTellTheTruth'
    BY <1>4, <2>1 DEF ExitCodesTellTheTruth
  <2> QED BY <1>2, <2>2, <2>3
<1>5. CASE ParseArgs
  BY <1>3, <1>4, <1>5 DEF ParseArgs
<1>6. CASE EndAtOnce
  BY <1>3, <1>4, <1>6 DEF EndAtOnce, Exit
<1>7. CASE CheckConfig
  <2>1. PICK file \in Files :
          \/ Loads(file) /\ Kind = "CheckConfig"
             /\ Exit(0) /\ warnings' = {<<load(file), check_config(load(file))>>}
          \/ ~Loads(file) /\ Exit(1) /\ UNCHANGED warnings
    BY <1>7 DEF CheckConfig
  <2>2. CASE UNCHANGED warnings
    BY <1>3, <1>4, <1>7, <2>1, <2>2 DEF CheckConfig, Exit
  <2>3. CASE warnings' = {<<load(file), check_config(load(file))>>} /\ Exit(0)
    <3>1. \A w \in warnings' : "ollama_url" \in w[2] <=> ModelsFail(w[1])
      BY <2>3, WarningIsRight
    <3>2. code' = 0 /\ pc' = "exit"
      BY <2>3 DEF Exit
    <3>3. base' = "none" /\ answer' = "none" /\ shown' = "none" /\ said' = Nobody
      BY <1>3, <1>7 DEF CheckConfig
    <3>4. PollClauses'
      BY <3>2, <3>3 DEF Nobody
    <3>5. ExitCodesTellTheTruth'
      BY <3>1, <3>2, <3>3 DEF ExitCodesTellTheTruth
    <3> QED BY <1>2, <3>4, <3>5
  <2> QED BY <2>1, <2>2, <2>3
\* An address is found, and said of nobody yet.
<1>8. ASSUME UNCHANGED <<answer, shown, said>>, pc = "start", pc' = "poll", warnings' = {}
      PROVE  PollInv'
  <2>1. PollClauses'
    BY <1>3, <1>8 DEF Nobody
  <2> QED BY <1>2, <1>8, <2>1
<1>9. CASE Resolve
  <2>1. \/ pc' = "poll"
        \/ UNCHANGED base /\ Exit(1)
    BY <1>9 DEF Resolve
  <2> QED BY <1>3, <1>4, <1>8, <1>9, <2>1 DEF Resolve, Exit
<1>10. CASE ResolveTray
  BY <1>3, <1>8, <1>10 DEF ResolveTray
<1>11. CASE Overflow
  <2>1. PollClauses'
    BY <1>3, <1>11 DEF Overflow, Exit, parser, world, Kind
  <2>2. ExitCodesTellTheTruth'
    BY <1>3, <1>11 DEF Overflow, Exit, parser, world, Kind, ExitCodesTellTheTruth
  <2> QED BY <1>2, <2>1, <2>2
<1>12. CASE Send
  <2>1. PollClauses' /\ pc' = "sent"
    BY <1>3, <1>12 DEF Send, parser, world, Kind
  <2> QED BY <1>2, <2>1
<1>13. CASE Answer
  <2>1. PollClauses' /\ pc' = "answered"
    BY <1>3, <1>13 DEF Answer, parser, world, Kind
  <2> QED BY <1>2, <2>1
<1>14. CASE Status
  <2> DEFINE quiet == command.args.quiet # Unset
  <2>1. /\ pc = "answered" /\ Kind = "Status" /\ pc' = "exit"
        /\ answer = "error" => code' = IF quiet THEN 2 ELSE 1
        /\ answer # "error" => code' = IF quiet THEN quiet_exit_code(answer) ELSE 0
        /\ UNCHANGED <<parser, world, base, answer, shown, warnings, during, said>>
    BY <1>14 DEF Status, Exit
  <2>2. PollClauses'
    BY <1>3, <2>1 DEF parser, world, Kind
  <2>3. ASSUME base = "daemon", quiet
        PROVE  /\ code' = 0 => "available" \in during
               /\ code' = 1 => during # {"available"}
               /\ code' = 2 <=> answer = "error"
    BY <1>3, <2>1, <2>3 DEF quiet_exit_code
  <2>4. ExitCodesTellTheTruth'
    <3>1. warnings' = {} /\ Kind' = "Status" /\ command' = command /\ during' = during
          /\ base' = base /\ answer' = answer
      BY <1>3, <2>1 DEF parser, Kind
    <3> QED BY <2>3, <3>1 DEF ExitCodesTellTheTruth
  <2> QED BY <1>2, <2>2, <2>4
<1>15. CASE Wait
  <2>0. Target \in States
    BY TargetNames DEF ParseInv
  <2>1. /\ pc = "answered" /\ Kind = "Wait"
        /\ \/ answer = Target /\ Exit(0)
           \/ answer # Target /\ (answer = "error" \/ waited >= Limit) /\ Exit(1)
           \/ pc' = "sleep"
        /\ UNCHANGED <<parser, world, base, answer, shown, waited, warnings, during, said>>
    <3>1. CASE answer = Target
      BY <1>15, <2>0, <3>1 DEF Wait, States
    <3>2. CASE answer # Target /\ (answer = "error" \/ waited >= Limit)
      BY <1>15, <3>2 DEF Wait
    <3>3. CASE ~(answer = Target \/ answer = "error" \/ waited >= Limit)
      BY <1>15, <3>3 DEF Wait, Sleep
    <3> QED BY <3>1, <3>2, <3>3
  <2>2. PollClauses'
    BY <1>3, <2>1 DEF parser, world, Kind, Exit
  <2>4. ASSUME base = "daemon"
        PROVE  /\ pc' = "exit" /\ code' = 0 => Target \in during
               /\ pc' = "exit" /\ code' = 1 /\ answer # "error" =>
                    waited >= Limit /\ during # {Target}
    BY <1>3, <2>0, <2>1, <2>4 DEF Exit, States
  <2>5. ASSUME pc' = "exit" PROVE ExitCodesTellTheTruth'
    <3>1. warnings' = {} /\ Kind' = "Wait" /\ command' = command /\ during' = during
          /\ base' = base /\ answer' = answer /\ waited' = waited
      BY <1>3, <2>1 DEF parser, Kind
    <3>2. Target' = Target /\ Limit' = Limit
      BY <3>1 DEF Target, Limit
    <3> QED BY <2>4, <2>5, <3>1, <3>2 DEF ExitCodesTellTheTruth
  <2> QED BY <1>2, <2>2, <2>5
<1>16. CASE Watch
  <2>1. PollClauses' /\ pc' = "sleep"
    BY <1>3, <1>16 DEF Watch, Sleep, parser, world, Kind
  <2> QED BY <1>2, <2>1
<1>17. CASE Tray
  <2>1. PollClauses' /\ pc' = "sleep"
    BY <1>3, <1>17 DEF Tray, Sleep, parser, world, Kind
  <2> QED BY <1>2, <2>1
<1>18. CASE Wake
  <2>1. PollClauses' /\ pc' = "poll"
    BY <1>3, <1>18 DEF Wake, parser, world, Kind
  <2> QED BY <1>2, <2>1
<1>19. CASE Quit
  <2>1. PollClauses'
    BY <1>3, <1>19 DEF Quit, Exit, parser, world, Kind
  <2>2. ExitCodesTellTheTruth'
    BY <1>3, <1>19 DEF Quit, Exit, parser, world, Kind, ExitCodesTellTheTruth
  <2> QED BY <1>2, <2>1, <2>2
<1>20. CASE Publish \/ Restart \/ Fail \/ Tick
  <2>1. /\ UNCHANGED <<parser, pc, base, answer, shown, warnings, said>>
        /\ during \subseteq during' /\ pc # "exit"
        /\ published' = published \/ published' \in during'
    BY <1>20 DEF Publish, Restart, Fail, Tick, Polling, world
  <2>2. PollClauses'
    BY <1>3, <2>1 DEF parser, Kind
  <2> QED BY <1>2, <2>1, <2>2
<1>21. CASE UNCHANGED vars
  <2>1. PollClauses'
    BY <1>3, <1>21 DEF vars, parser, world, Kind
  <2>2. ExitCodesTellTheTruth'
    BY <1>3, <1>21 DEF vars, parser, world, Kind, ExitCodesTellTheTruth, Target, Limit
  <2> QED BY <1>2, <2>1, <2>2
<1> QED BY <1>5, <1>6, <1>7, <1>9, <1>10, <1>11, <1>12, <1>13, <1>14, <1>15, <1>16,
           <1>17, <1>18, <1>19, <1>20, <1>21 DEF Next, Process

(***************************************************************************)
(* A client keeps its types from the command line to the exit code: the    *)
(* time it waits, the state it showed last, the line it printed, and the   *)
(* code are of the kinds the code gives them, whatever was typed.          *)
(***************************************************************************)
THEOREM ClientTypes == Spec => []TypeOK
<1>1. PollInv => TypeOK
  BY DEF PollInv
<1> QED BY <1>1, ParseInit, ParseInvStep, PollInit, PollStep, PTL DEF Spec

(***************************************************************************)
(* The exit codes of status -q, wait and --check-config tell the truth     *)
(* (run_status, run_wait, check_config): what was answered was published   *)
(* while the request was open, however the daemon moved, died or came back *)
(* in between.                                                             *)
(***************************************************************************)
THEOREM ExitCodesAreTrue == Spec => []ExitCodesTellTheTruth
<1>1. PollInv => ExitCodesTellTheTruth
  BY DEF PollInv
<1> QED BY <1>1, ParseInit, ParseInvStep, PollInit, PollStep, PTL DEF Spec

(***************************************************************************)
(* The lines of watch chain, and the tray tells of changes of what it      *)
(* showed, to a state the daemon published (run_watch, the tray's loop).   *)
(***************************************************************************)
THEOREM LinesChain == Spec => ChangesChain
<1>1. ASSUME PollInv, [Next]_vars
      PROVE  [said' # said =>
                /\ said'.from # said'.to
                /\ Kind = "Watch" => said'.from = said.to
                /\ Kind = "Tray" => said'.from = shown /\ said'.to \in during]_vars
  <2> SUFFICES ASSUME said' # said
               PROVE  /\ said'.from # said'.to
                      /\ Kind = "Watch" => said'.from = said.to
                      /\ Kind = "Tray" => said'.from = shown /\ said'.to \in during
    OBVIOUS
  <2>1. Watch \/ Tray
    BY <1>1 DEF Next, Process, ParseArgs, EndAtOnce, CheckConfig, Resolve, ResolveTray, Overflow,
                Send, Answer, Status, Wait, Wake, Quit, Publish, Restart, Fail, Tick, vars
  <2>2. CASE Watch
    BY <1>1, <2>2 DEF Watch, PollInv
  <2>3. CASE Tray
    BY <1>1, <2>3 DEF Tray, PollInv, transition_message
  <2> QED BY <2>1, <2>2, <2>3
<1> QED BY <1>1, ParseInit, ParseInvStep, PollInit, PollStep, PTL DEF Spec, ChangesChain

=============================================================================
