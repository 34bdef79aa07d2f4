----------------------------- MODULE ModelSetup -----------------------------
(***************************************************************************)
(* How a task gets its model: the configuration file (config/loader.py),   *)
(* the enabled providers and their keys (agents/spec.py, credentials/      *)
(* store.py), the check before the task and those of the run (hub/         *)
(* executor.py, agents/backend.py), and the models (llm/model_registry.py).*)
(*                                                                         *)
(* The credentials file and the keyring change at any time; the hub's      *)
(* environment and configuration are fixed when it starts.                 *)
(***************************************************************************)
EXTENDS Naturals, FiniteSets

CONSTANTS
  Provider,   \* names in the configuration
  Keyed,      \* those PROVIDER_META gives an API key
  Creatable,  \* those the model registry knows
  Configs,    \* [default : Provider, enabled : SUBSET Provider]
  Defaults,   \* the one without a configuration file
  MaxTasks,   \* bound: tasks
  MaxEdits    \* bound: changes of the credentials file and the keyring

VARIABLES
  config,     \* the hub's configuration
  environ,    \* providers with an API key in the hub's environment
  file,       \* the credentials file: its shape and the providers in it
  keyring,    \* providers with a key in the keyring
  request,    \* the task at hand
  tasks,
  edits

vars == <<config, environ, file, keyring, request, tasks, edits>>

-----------------------------------------------------------------------------
\* "nested" is what set_api_key writes, "flat" maps a name to its key, and
\* "broken" is no JSON or cannot be read.
Shape == {"absent", "nested", "flat", "broken"}

NoRequest == [at |-> "none", missing |-> {}, models |-> {}]

\* _resolve_config_path: a path that is given, but is not there, ends the
\* search.
Candidates == {"option", "environment", "working directory", "home"}
ConfigPath(given, existing) ==
  CASE "option" \in given -> existing \cap {"option"}
    [] "option" \notin given /\ "environment" \in given -> existing \cap {"environment"}
    [] given = {} /\ "working directory" \in existing -> {"working directory"}
    [] given = {} /\ "working directory" \notin existing -> existing \cap {"home"}

Init ==
  /\ \E given \in SUBSET {"option", "environment"}, existing \in SUBSET Candidates :
       IF ConfigPath(given, existing) = {} THEN config = Defaults ELSE config \in Configs
  /\ environ \in SUBSET Provider
  /\ file = [shape |-> "absent", keys |-> {}]
  /\ keyring \in SUBSET Provider
  /\ request = NoRequest
  /\ tasks = 0
  /\ edits = 0

-----------------------------------------------------------------------------
(* Keys.                                                                   *)

\* _read_file and _get_from_file: the entry of a flat file is no dictionary,
\* and asking it for "api_key" raises.
FromFile(p) ==
  CASE file.shape = "nested" /\ p \in file.keys -> "key"
    [] file.shape = "flat" /\ p \in file.keys   -> "raises"
    [] OTHER -> "none"

\* get_api_key: the environment, then the file, then the keyring.
ApiKey(p) ==
  CASE p \in environ -> "key"
    [] p \notin environ /\ FromFile(p) # "none" -> FromFile(p)
    [] p \notin environ /\ FromFile(p) = "none" /\ p \in keyring -> "key"
    [] OTHER -> "none"

\* The default provider is enabled whatever its own flag says.
EnabledProviders == {config.default} \cup config.enabled

\* check_credentials.
Asked     == EnabledProviders \cap Keyed
CheckFails == \E p \in Asked : ApiKey(p) = "raises"
Missing   == {p \in Asked : ApiKey(p) = "none"}

-----------------------------------------------------------------------------
Outside == <<config, environ, tasks, request>>

EditFile(shape, keys) ==
  /\ edits < MaxEdits
  /\ edits' = edits + 1
  /\ file' = [shape |-> shape, keys |-> keys]
  /\ UNCHANGED <<Outside, keyring>>

KeyringChanges(keys) ==
  /\ edits < MaxEdits
  /\ edits' = edits + 1
  /\ keyring' = keys
  /\ UNCHANGED <<Outside, file>>

World == <<config, environ, file, keyring, edits>>

Receive ==
  /\ request.at \in {"none", "running", "auth_required", "failed", "raised"}
  /\ tasks < MaxTasks
  /\ tasks' = tasks + 1
  /\ request' = [NoRequest EXCEPT !.at = "received"]
  /\ UNCHANGED World

\* _setup_task: nothing around it catches an exception.
SetupTask ==
  /\ request.at = "received"
  /\ request' =
       [request EXCEPT
          !.at = IF CheckFails THEN "raised"
                 ELSE IF Missing # {} THEN "auth_required" ELSE "loading",
          !.missing = IF CheckFails THEN {} ELSE Missing]
  /\ UNCHANGED <<World, tasks>>

\* run_steps and _build_model check again, after the history has been
\* loaded; here whatever is raised fails the task.
BuildModel ==
  /\ request.at = "loading"
  /\ LET keyless == CheckFails \/ Missing # {}
         raises  == \E p \in EnabledProviders : p \notin Creatable \/ ApiKey(p) = "raises" IN
     request' = IF keyless \/ raises
                  THEN [request EXCEPT !.at = "failed", !.missing = Missing]
                  ELSE [request EXCEPT !.at = "running", !.models = EnabledProviders]
  /\ UNCHANGED <<World, tasks>>

Next ==
  \/ \E shape \in Shape, keys \in SUBSET Provider : EditFile(shape, keys)
  \/ \E keys \in SUBSET Provider : KeyringChanges(keys)
  \/ Receive
  \/ SetupTask
  \/ BuildModel

SetupSpec == Init /\ [][Next]_vars

-----------------------------------------------------------------------------
\* docs/configuration.md:123.  The credentials file may be edited by hand into
\* a flat object from providers to keys: with such a file a task is set up, or
\* told what is missing, but never lost (store.py _get_from_file).
FlatFileIsRead ==
  file.shape = "flat" => request.at # "raised"

=============================================================================
