---------------------------- MODULE SecureConfig ----------------------------
(***************************************************************************)
(* SecureConfigManager, FeatureFlags and HealthCheckManager                *)
(* (src/secure_config.cpp).  Their methods are critical sections of one    *)
(* mutex each, so each is one step, and a change callback runs inside the  *)
(* step that calls it.  A callback that reads the configuration waits for  *)
(* the mutex its own thread holds; nobody gets that mutex again.           *)
(*                                                                         *)
(* The file and the environment are changed by others at any time.  The    *)
(* three managers share nothing and have a next-state relation each.       *)
(***************************************************************************)
EXTENDS Integers, Sequences, FiniteSets

CONSTANTS Keys, RequiredKeys, ConfigValues,
          Flags, FlagUsers,        \* feature flags, and users
          UserHash,                \* user -> hash_user_id() % 10000, in hundredths of a percent
          Percentages,             \* rollouts asked for, in hundredths of a percent
          HealthChecks, Critical   \* checks that may be registered, and those registered as critical

VARIABLES config,          \* config_data_
          file,            \* whether the file can be opened, and its lines: key -> value
          environment,     \* overrides set in the environment: key -> value
          callbacks,       \* callbacks_: key -> what the callback does
          configLocked,    \* a thread waits for the mutex it holds
          loaded,          \* some load_config() has returned success (history)
          flags,           \* flags_
          rollout,         \* rollout_percentages_
          registered,      \* checks_
          condition        \* what each check function would return now

configVars == <<config, file, environment, callbacks, configLocked, loaded>>
flagVars == <<flags, rollout>>
healthVars == <<registered, condition>>

NotFound == "CONFIG_KEY_NOT_FOUND"
Partial(D, R) == UNION {[S -> R] : S \in SUBSET D}
Override(f, g) == [x \in DOMAIN f \cup DOMAIN g |-> IF x \in DOMAIN g THEN g[x] ELSE f[x]]

-----------------------------------------------------------------------------
ConfigInit ==
  /\ config = [k \in {} |-> 0] /\ environment = [k \in {} |-> 0] /\ callbacks = [k \in {} |-> 0]
  /\ file = [opens |-> FALSE, lines |-> [k \in {} |-> 0]] /\ configLocked = FALSE /\ loaded = FALSE

FileChanges ==
  /\ file' \in [opens : BOOLEAN, lines : Partial(Keys, ConfigValues)]
  /\ UNCHANGED <<config, environment, callbacks, configLocked, loaded>>

EnvironmentChanges ==
  /\ environment' \in Partial(Keys, ConfigValues)
  /\ UNCHANGED <<config, file, callbacks, configLocked, loaded>>

(* Mutant of LoadEncryptedFile: the old values are dropped before the file is read. *)
LoadReplacing(old) == file.lines

(* The lines of the file are put over what is there. *)
LoadEncryptedFile(old) == Override(old, file.lines)

(* Only keys that exist are looked up in the environment. *)
LoadEnvironmentOverrides(data) == [k \in DOMAIN data |-> IF k \in DOMAIN environment THEN environment[k] ELSE data[k]]

ValidateConfiguration(data) == RequiredKeys \subseteq DOMAIN data

(* load_config() and reload_config(): what was read stays even if it does not validate. *)
LoadConfig ==
  /\ ~configLocked
  /\ IF ~file.opens
     THEN UNCHANGED <<config, loaded>>
     ELSE LET data == LoadEnvironmentOverrides(LoadEncryptedFile(config))
          IN config' = data /\ loaded' = (loaded \/ ValidateConfiguration(data))
  /\ UNCHANGED <<file, environment, callbacks, configLocked>>

(* set_value() and notify_callbacks(): a callback that throws is ignored. *)
SetValue(key, value) ==
  /\ ~configLocked
  /\ config' = Override(config, [k \in {key} |-> value])
  /\ configLocked' = (key \in DOMAIN callbacks /\ callbacks[key] = "reads")
  /\ UNCHANGED <<file, environment, callbacks, loaded>>

RegisterChangeCallback(key, kind) ==
  /\ ~configLocked
  /\ callbacks' = Override(callbacks, [k \in {key} |-> kind])
  /\ UNCHANGED <<config, file, environment, configLocked, loaded>>

(* get_value() and has_key(). *)
GetValue(key) == IF key \in DOMAIN config THEN config[key] ELSE NotFound

ConfigNext ==
  \/ FileChanges \/ EnvironmentChanges \/ LoadConfig
  \/ \E k \in Keys : \E v \in ConfigValues : SetValue(k, v)
  \/ \E k \in Keys : \E c \in {"returns", "throws", "reads"} : RegisterChangeCallback(k, c)

(***************************************************************************)
(* load_config() and reload_config(): once a load has succeeded, every     *)
(* required key has a value from then on, through reloads of a file that   *)
(* cannot be opened or that misses keys, overrides and set_value().        *)
(***************************************************************************)
RequiredKeysStay == loaded => \A k \in RequiredKeys : GetValue(k) \in ConfigValues

-----------------------------------------------------------------------------
FlagInit == flags = [f \in {} |-> FALSE] /\ rollout = [f \in {} |-> 0]

SetFlag(flag, enabled) == flags' = Override(flags, [f \in {flag} |-> enabled]) /\ UNCHANGED rollout

Clamp(percentage) == IF percentage < 0 THEN 0 ELSE IF percentage > 10000 THEN 10000 ELSE percentage

SetRolloutPercentage(flag, percentage) ==
  rollout' = Override(rollout, [f \in {flag} |-> Clamp(percentage)]) /\ UNCHANGED flags

IsEnabled(flag) == flag \in DOMAIN flags /\ flags[flag]

WithinRollout(flag, user) == UserHash[user] < rollout[flag]

IsEnabledForUser(flag, user) == IsEnabled(flag) /\ (flag \in DOMAIN rollout => WithinRollout(flag, user))

FlagNext ==
  \E f \in Flags :
    \/ \E e \in BOOLEAN : SetFlag(f, e)
    \/ \E p \in Percentages : SetRolloutPercentage(f, p)

(***************************************************************************)
(* FeatureFlags: while a flag is on, a rollout of nothing reaches nobody   *)
(* and one of everything everybody, whatever was set before, and a user is *)
(* reached before every user with a higher hash.                           *)
(***************************************************************************)
RolloutExact ==
  \A f \in DOMAIN rollout : IsEnabled(f) =>
    /\ rollout[f] = 0 => \A u \in FlagUsers : ~IsEnabledForUser(f, u)
    /\ rollout[f] = 10000 => \A u \in FlagUsers : IsEnabledForUser(f, u)
    /\ \A u, v \in FlagUsers : UserHash[u] <= UserHash[v] /\ IsEnabledForUser(f, v) => IsEnabledForUser(f, u)

-----------------------------------------------------------------------------
HealthInit == registered = <<>> /\ condition = [c \in HealthChecks |-> "HEALTHY"]

(* A check function may also throw. *)
ConditionChanges(check) ==
  /\ condition' \in [HealthChecks -> {"HEALTHY", "DEGRADED", "UNHEALTHY", "throws"}]
  /\ \A c \in HealthChecks \ {check} : condition'[c] = condition[c]
  /\ UNCHANGED registered

RegisterHealthCheck(check) ==
  /\ Len(registered) < Cardinality(HealthChecks)
  /\ registered' = Append(registered, check)
  /\ UNCHANGED condition

RunCheck(check) == IF condition[check] = "throws" THEN "UNHEALTHY" ELSE condition[check]
Registered == {registered[i] : i \in DOMAIN registered}

GetOverallStatus ==
  CASE \E c \in Registered : RunCheck(c) = "UNHEALTHY" /\ c \in Critical -> "UNHEALTHY"
    [] \E c \in Registered : RunCheck(c) = "DEGRADED" -> "DEGRADED"
    [] OTHER -> "HEALTHY"

IsReady == GetOverallStatus # "UNHEALTHY"
IsLive == \A c \in Registered : c \in Critical => RunCheck(c) # "UNHEALTHY"

HealthNext == \E c \in HealthChecks : ConditionChanges(c) \/ RegisterHealthCheck(c)

(***************************************************************************)
(* HealthCheckManager: is_ready() and is_live(), computed in different     *)
(* ways, agree: a check that is not critical, failing or throwing, holds   *)
(* neither of them up.                                                     *)
(***************************************************************************)
HealthAgrees == IsReady <=> IsLive

(***************************************************************************)
(* The managers keep what they promise to the rest of the exchange:        *)
(* required settings, rollouts and health.                                 *)
(***************************************************************************)
ConfigSound == RequiredKeysStay /\ RolloutExact /\ HealthAgrees
=============================================================================
