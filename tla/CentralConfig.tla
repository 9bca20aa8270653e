--------------------------- MODULE CentralConfig ----------------------------
(***************************************************************************)
(* Central configuration (VersionedConfig in elasticapm/conf/__init__.py): *)
(* the updater thread polls the APM server (get_config in                  *)
(* elasticapm/transport/http.py), applies what it finds on top of the      *)
(* current configuration and goes back to the first one when the server    *)
(* has none.  Some options have a callback that applies the value outside  *)
(* the configuration (the level of the loggers, for instance): applied is  *)
(* what the last callback applied.                                         *)
(* (MutantX is X with a bug, for a property to find.)                      *)
(*                                                                         *)
(* A configuration is a function from the options that were set to their   *)
(* values, as the dict _values is; an option that is not set has its       *)
(* default.  The server knows a configuration by its version (the Etag)    *)
(* and always sends one.                                                   *)
(***************************************************************************)

CONSTANTS
  Options,       \* the dynamic options
  Values,        \* their values
  Invalid,       \* values that a validator rejects
  Default,       \* the default of each option
  WithCallback,  \* the options that have a callback
  First,         \* the configuration that the program started with
  Versions,      \* the versions the server may have
  Remote,        \* the configuration of each version
  NoVersion      \* None

Configs == UNION {[D -> Values \ Invalid] : D \in SUBSET Options}
RemoteConfigs == UNION {[D -> Values] : D \in SUBSET Options}

ASSUME CentralConfigAssumption ==
  /\ Default \in [Options -> Values]
  /\ WithCallback \subseteq Options
  /\ First \in Configs
  /\ Remote \in [Versions -> RemoteConfigs]
  /\ NoVersion \notin Versions

Nothing == [o \in {} |-> Default[o]]   \* the empty dict

VARIABLES
  remote,    \* the version the server has
  config,    \* _config
  version,   \* _version
  changed,   \* _config is not the object _first_config
  applied,   \* what the last callback of an option applied
  pc,        \* where update_config is
  response,  \* new_version and new_config, as get_config returned them
  todo       \* what the rest of update or reset works with: the options whose
             \* callback is to run, or the new configuration

vars == <<remote, config, version, changed, applied, pc, response, todo>>

Value(c, o) == IF o \in DOMAIN c THEN c[o] ELSE Default[o]

Answer(v, c) == [version |-> v, config |-> c]
NoAnswer == Answer(NoVersion, Nothing)

Init ==
  /\ remote \in Versions
  /\ config = First
  /\ version = NoVersion
  /\ changed = FALSE
  /\ applied = [o \in WithCallback |-> Value(First, o)]
  /\ pc = "idle"
  /\ response = NoAnswer
  /\ todo = Nothing

\* Somebody changes the configuration on the server.
ServerChange(v) ==
  /\ v # remote
  /\ remote' = v
  /\ UNCHANGED <<config, version, changed, applied, pc, response, todo>>

(***************************************************************************)
(* get_config: what the poll of the server returns.                        *)
(***************************************************************************)
Fetch(answer) ==
  /\ pc = "idle"
  /\ pc' = "fetched"
  /\ response' = answer
  /\ UNCHANGED <<remote, config, version, changed, applied, todo>>

\* 304 to If-None-Match, or 200 with an Etag and a body.
FetchOk == Fetch(IF version = remote THEN Answer(version, Nothing)
                                     ELSE Answer(remote, Remote[remote]))

\* A connection error, an empty body, a body that is not JSON.
FetchFails == Fetch(Answer(version, Nothing))

\* A status of 400 or more.
FetchRefused == Fetch(Answer(NoVersion, Nothing))

(***************************************************************************)
(* update_config: what is made of the answer.                              *)
(***************************************************************************)
HasConfig == response.version # NoVersion /\ response.config # Nothing

\* _ConfigBase.update sets every valid option of the answer, and leaves the
\* others of the current configuration as they are.
Valid(c) == [o \in {p \in DOMAIN c : c[p] \notin Invalid} |-> c[o]]
MutantRejected(c) == FALSE
Rejected(c) == \E o \in DOMAIN c : c[o] \in Invalid
NewConfig ==
  LET c == Valid(response.config)
  IN  [o \in DOMAIN c \cup DOMAIN config |->
         IF o \in DOMAIN c THEN c[o] ELSE config[o]]

\* The callbacks of the options of S run, with the values of c.
Callbacks(S, c) ==
  applied' = [o \in WithCallback |-> IF o \in S THEN Value(c, o) ELSE applied[o]]

\* update, up to the lock: the callbacks of what differs run even if there are
\* errors; then the new configuration is given up.
Update ==
  /\ pc = "fetched"
  /\ HasConfig
  /\ Callbacks({o \in Options : Value(config, o) # Value(NewConfig, o)}, NewConfig)
  /\ IF Rejected(response.config)
       THEN pc' = "idle" /\ todo' = Nothing
       ELSE pc' = "swap" /\ todo' = NewConfig
  /\ UNCHANGED <<remote, config, version, changed, response>>

\* update, under the lock.
Swap ==
  /\ pc = "swap"
  /\ version' = response.version
  /\ config' = todo
  /\ changed' = TRUE
  /\ pc' = "idle"
  /\ todo' = Nothing
  /\ UNCHANGED <<remote, applied, response>>

\* "Remote config unchanged", or nothing to reset.
Keep ==
  /\ pc = "fetched"
  /\ ~HasConfig
  /\ response.version = version \/ response.config # Nothing \/ ~changed
  /\ pc' = "idle"
  /\ UNCHANGED <<remote, config, version, changed, applied, response, todo>>

\* The options whose callback reset() runs: those that are set both in the
\* current and in the first configuration, to different values.
MutantResetCallbacks == {}
ResetCallbacks ==
  {o \in DOMAIN config \cap DOMAIN First : config[o] # First[o]}

\* The version of the configuration that is in effect after reset().
MutantResetVersion == version
ResetVersion == NoVersion

\* reset, under the lock.
Reset ==
  /\ pc = "fetched"
  /\ ~HasConfig
  /\ response.version # version
  /\ response.config = Nothing
  /\ changed
  /\ todo' = [o \in ResetCallbacks |-> First[o]]
  /\ version' = ResetVersion
  /\ config' = First
  /\ changed' = FALSE
  /\ pc' = "callbacks"
  /\ UNCHANGED <<remote, applied, response>>

\* reset, after the lock.
RunCallbacks ==
  /\ pc = "callbacks"
  /\ Callbacks(DOMAIN todo, todo)
  /\ todo' = Nothing
  /\ pc' = "idle"
  /\ UNCHANGED <<remote, config, version, changed, response>>

UpdateConfig == Update \/ Swap \/ Keep \/ Reset \/ RunCallbacks

Next ==
  \/ \E v \in Versions : ServerChange(v)
  \/ FetchOk
  \/ FetchFails
  \/ FetchRefused
  \/ UpdateConfig

Spec == Init /\ [][Next]_vars

(***************************************************************************)
(* The updater is an IntervalTimer: it polls again and again, and a poll   *)
(* does not fail each time.                                                *)
(***************************************************************************)
FairSpec == Spec /\ WF_vars(UpdateConfig) /\ SF_vars(FetchOk)

-----------------------------------------------------------------------------
\* Every variable has its type; a configuration has no invalid value; and the
\* two ways in which the code asks whether it is the first one agree.
TypeOK ==
  /\ remote \in Versions
  /\ config \in Configs
  /\ version \in Versions \cup {NoVersion}
  /\ changed \in BOOLEAN
  /\ changed <=> version # NoVersion
  /\ applied \in [WithCallback -> Values]
  /\ pc \in {"idle", "fetched", "swap", "callbacks"}
  /\ response \in [version : Versions \cup {NoVersion}, config : RemoteConfigs]
  /\ todo \in Configs

\* The version that the agent reports to the server (If-None-Match) is honest:
\* every option of that version is in effect.  Else the server would answer
\* 304 for ever and the agent would never get what it misses.
VersionHonest ==
  /\ version # NoVersion =>
       \A o \in DOMAIN Remote[version] :
         o \in DOMAIN config /\ config[o] = Remote[version][o]
  /\ version = NoVersion => config = First

\* A rejected configuration never sets the option o to a valid value: its
\* callback is not run for a configuration that is then given up.
OnlyWithAccepted(o) ==
  \A v \in Versions : Rejected(Remote[v]) => o \notin DOMAIN Valid(Remote[v])

InSync(o) == pc = "idle" => applied[o] = Value(config, o)

\* Between two polls, what the callbacks applied is what the configuration
\* says, through updates, rejected updates and resets, for an option that the
\* program set itself and that no rejected configuration touches.
CallbacksInSync ==
  \A o \in WithCallback \cap DOMAIN First : OnlyWithAccepted(o) => InSync(o)

\* The same for the options that the program left at their default.  The
\* docstring of reset() promises to "run any callbacks that might exist" for
\* whatever differs from the original configuration.
ResetRunsCallbacks ==
  \A o \in WithCallback : OnlyWithAccepted(o) => InSync(o)

\* If the server settles on a version, the agent gets there, again after every
\* reset that a refused poll causes; a version without options brings the
\* first configuration back.
InEffect(v) ==
  IF Remote[v] = Nothing THEN config = First
  ELSE version = v /\ \A o \in DOMAIN Remote[v] : Value(config, o) = Remote[v][o]

Converges ==
  \A v \in Versions :
    ~Rejected(Remote[v]) => (<>[](remote = v) => []<>InEffect(v))
=============================================================================
