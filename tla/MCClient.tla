------------------------------ MODULE MCClient ------------------------------
(***************************************************************************)
(* Client with every command line of up to MaxWords words, or with a few   *)
(* command lines that reach a daemon.                                      *)
(***************************************************************************)
EXTENDS Client, SequencesExt

CONSTANT MaxWords

Words ==
  {Bare(w) : w \in {"status", "wait", "watch", "claimed", "2^64-1", "0", "2", "", "--json",
                    "--quiet", "--check-config", "--for", "--timeout", "--url", "--help",
                    "--version", "--bogus"}}
  \cup {[word |-> "--for", value |-> "available"], [word |-> "--config", value |-> ""],
        [word |-> "--url", value |-> "daemon"], [word |-> "--json", value |-> "1"]}

\* Longer lines, with the subcommand before, between and behind its flags.
Claimed0 == {<<"wait", "--for", "claimed", "--timeout", "0">>,
             <<"--for", "claimed", "wait", "--timeout", "2">>,
             <<"--timeout", "0", "--for", "claimed", "wait">>}

MCLines == SeqOf(Words, MaxWords) \cup {[i \in DOMAIN l |-> Bare(l[i])] : l \in Claimed0}

\* One wait with the default timeout.
PlainWait == {<<Bare("wait")>>}

=============================================================================
