--------------------------- MODULE Configuration ----------------------------
(***************************************************************************)
(* src/config.rs and the file-reading half of src/cli.rs: how a            *)
(* configuration file becomes a Config or an error, what --check-config    *)
(* warns of, and where a client looks for its daemon.                      *)
(*                                                                         *)
(* A file is a record of what the code tells apart.  Texts that are only   *)
(* carried along are left out.                                             *)
(***************************************************************************)
EXTENDS Naturals, FiniteSets

Unset == "unset"   \* Option::None, or a key or a variable that is absent

\* Whether a unit's name holds "ollama", and the fields that choose its introspection.
ManagedUnit == [named_ollama : BOOLEAN,
                kind : {Unset, "ollama", "other"},
                introspect_cmd : {Unset, "blank", "too long", "argv"},
                ollama_url : {Unset, "blank", "http", "https"},
                retired : BOOLEAN]              \* yield_cmd or yield_timeout_s is set

\* game_exit_grace_s, in units of MAX_GAME_EXIT_GRACE_S.
MAX_GAME_EXIT_GRACE_S == 1

default_managed_unit ==
  [named_ollama |-> TRUE, kind |-> "ollama", introspect_cmd |-> Unset, ollama_url |-> Unset,
   retired |-> FALSE]

DefaultConfig ==
  [unit |-> default_managed_unit, retired |-> FALSE, grace |-> 0, bind |-> "loopback"]

\* What read_to_string and the TOML parser make of a path.  A file lists one unit.
Files ==
  [read : {"NotFound", "denied", "malformed"}] \cup
  [read : {"parsed"}, unit : ManagedUnit, retired : BOOLEAN,
   grace : {MAX_GAME_EXIT_GRACE_S, MAX_GAME_EXIT_GRACE_S + 1}, bind : {"loopback", "lan"}]

(***************************************************************************)
(* Config::load and from_toml: a file that is not there is the default     *)
(* configuration, every other failure is an error.                         *)
(***************************************************************************)
Loads(file) ==
  \/ file.read = "NotFound"
  \/ file.read = "parsed" /\ file.grace <= MAX_GAME_EXIT_GRACE_S

load(file) == IF file.read = "NotFound" THEN DefaultConfig ELSE file

\* ManagedUnit::introspection: a usable command, else the kind, else the name.
introspection(u) ==
  CASE u.introspect_cmd = "argv" -> "Command"
    [] u.introspect_cmd # "argv" /\ (u.kind = "ollama" \/ (u.kind = Unset /\ u.named_ollama)) ->
         "Ollama"
    [] OTHER -> "None"

\* ManagedUnit::ollama_base_url: a blank url is the default one.
ollama_base_url(u) == IF u.ollama_url \in {Unset, "blank"} THEN "http" ELSE u.ollama_url

\* Config::deprecated_keys: does the file set any?
deprecated_keys(cfg) == cfg.retired \/ cfg.unit.retired

\* check_config: what a file that loads is warned of.
check_config(cfg) ==
  {w \in {"deprecated keys"} : deprecated_keys(cfg)} \cup
  {w \in {"ollama_url"} : introspection(cfg.unit) = "Ollama" /\ cfg.unit.ollama_url = "https"}

\* units::loaded_models: the daemon asks the Ollama API, over plain http only.
ModelsFail(cfg) == introspection(cfg.unit) = "Ollama" /\ ollama_base_url(cfg.unit) = "https"

\* --url, GPU_ARBITER_URL unless it is empty, and 127.0.0.1 at the port of the local
\* configuration.
resolve_daemon_url(flag, env, local) ==
  CASE flag # Unset -> flag
    [] flag = Unset /\ env \notin {Unset, ""} -> env
    [] OTHER -> local

=============================================================================
