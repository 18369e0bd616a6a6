----------------------------- MODULE MCSubstate -----------------------------
EXTENDS Substate

CONSTANTS ollama, asr   \* a systemd unit with an API, and a unit driven by commands

MCUnits   == {ollama, asr}
MCAsks    == [u \in MCUnits |-> IF u = ollama THEN "Ollama" ELSE "Command"]
MCEarlier == [u \in MCUnits |-> [running |-> "running", models |-> "some",
                                 models_error |-> FALSE, vram_mb |-> 2]]
MCMatch   == [u \in MCUnits |-> IF u = asr THEN "asr" ELSE Unset]

Process(cmdline, of, cgroup, vram, told, computes) ==
  [cmdline |-> cmdline, of |-> of, cgroup |-> cgroup, vram |-> vram, told |-> told,
   computes |-> computes]

MCPrograms ==
  { Process({"ollama"}, ollama, <<"system.slice", ollama>>, 2, TRUE, TRUE),
    \* The driver does not tell what it holds.
    Process({"ollama"}, ollama, <<"system.slice", ollama>>, 2, FALSE, TRUE),
    \* The same program as a service of a user's session, and of a container in it.
    Process({"ollama"}, Unset, <<"user.slice", "some.scope", ollama>>, 1, TRUE, TRUE),
    Process({"ollama"}, Unset, <<"user.slice", "some.scope", "system.slice", ollama>>, 1, TRUE,
            TRUE),
    Process({"asr"}, asr, <<"system.slice", "other.service">>, 1, FALSE, TRUE),
    Process({"SteamLaunch AppId=440", "steam"}, Unset, <<"user.slice", "some.scope">>, 1, TRUE,
            FALSE),
    \* A launcher that one pattern vetoes and a later one is written for.
    Process({"proton", "launcher"}, Unset, <<>>, 0, TRUE, FALSE) }

MCPatterns ==
  << [name |-> "proton", match |-> "proton", exclude |-> {"launcher", "asr"}],
     [name |-> "launcher", match |-> "launcher", exclude |-> {"steam"}] >>

=============================================================================
