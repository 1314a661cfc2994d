------------------------------ MODULE Settings ------------------------------
(***************************************************************************)
(* What the files of a label say of one of its storage entries: the        *)
(* configuration (internal/config), the secrets (internal/secrets) and the *)
(* storage value (internal/duplicacy/storage.go).                          *)
(*                                                                         *)
(* A TOML table is a function from the keys it gives to their values.      *)
(* Numbers are integers, a retention policy is the sequence of its words,  *)
(* other texts are classes the code tells apart.  Left out: filters, paths *)
(* of the restore workspace, the words of errors.                          *)
(***************************************************************************)
EXTENDS Integers, Sequences, FiniteSets

-----------------------------------------------------------------------------
(* Defaults and their place. *)

MaxThreads              == 16
MaxHealthThresholdHours == 24 * 366

Defaults == [threads |-> 0, prune |-> <<>>, retention |-> 30,
             maxPercent |-> 10, maxCount |-> 25, minTotal |-> 20]

HealthDefaults == [warn |-> 30, fail |-> 48, doctor |-> 48, verify |-> 168]

NotifyDefaults == [webhook |-> "", url |-> "https://ntfy.sh", topic |-> "",
                   notifyOn |-> {"degraded", "unhealthy"},
                   sendFor |-> {"doctor", "verify"}, interactive |-> FALSE]

\* A table over another one: what it does not give is left as it was.
Over(table, under) ==
  [k \in DOMAIN table \union DOMAIN under |->
     IF k \in DOMAIN table THEN table[k] ELSE under[k]]

\* Mutant: [common] wins over [storage.<name>].
CommonFirst(file, s) == Over(file.common, Over(file.storage[s].values, Defaults))

\* mergeCommon under the storage entry, over NewDefaults.
ResolveValues(file, s) == Over(file.storage[s].values, Over(file.common, Defaults))

\* [storage.<name>.health] over [health] over the defaults.
ResolveHealth(file, s) ==
  Over(file.storage[s].health, Over(file.health, HealthDefaults))

\* Applied last: [storage.<name>.health.notify], then [notify], [health.notify].
ResolveNotify(file, s) ==
  Over(file.storage[s].notify,
       Over(file.notify, Over(file.healthNotify, NotifyDefaults)))

\* What is left of a file for the entry s.
Config(file, s) ==
  [name |-> s, location |-> file.storage[s].location, storage |-> file.storage[s].storage,
   source |-> file.source, values |-> ResolveValues(file, s),
   health |-> ResolveHealth(file, s), notify |-> ResolveNotify(file, s)]

\* loadConfigWithOptions until the plan has its identity: the file is there and
\* is TOML of known keys, has the entry with a storage value, no number in force
\* is negative, and the label is the one asked for.
Identified(file, s) ==
  /\ file.syntax = "known keys"
  /\ s \in DOMAIN file.storage /\ file.storage[s].storage # ""
  /\ \A k \in {"threads", "retention", "maxPercent", "maxCount", "minTotal"} :
       ResolveValues(file, s)[k] >= 0
  /\ file.label = "asked"

-----------------------------------------------------------------------------
(* Validation of a configuration. *)

ValidateRequired(cfg, doBackup, doPrune) ==
  /\ doBackup => cfg.source # "" /\ cfg.values.threads # 0
  /\ doPrune  => cfg.values.prune # <<>>

ValidateThreads(cfg) ==
  /\ cfg.values.threads \in 1 .. MaxThreads
  /\ \E k \in 0 .. 4 : cfg.values.threads = 2 ^ k

\* HealthConfig.Validate.
ValidateNotify(n) ==
  /\ n.notifyOn \subseteq {"degraded", "unhealthy"}
  /\ n.sendFor \subseteq {"status", "doctor", "verify", "backup", "prune", "cleanup-storage"}
  /\ n.url \notin {"", "https://ntfy.sh"} => n.topic # ""
  /\ n.topic # "" => n.url # ""

ValidateThresholds(cfg) ==
  /\ cfg.values.maxPercent \in 0 .. 100
  /\ \A k \in {"maxCount", "minTotal", "retention"} : cfg.values[k] >= 0
  /\ \A k \in {"warn", "fail", "doctor", "verify"} :
       cfg.health[k] \in 0 .. MaxHealthThresholdHours
  /\ cfg.health.fail > 0 => cfg.health.warn <= cfg.health.fail
  /\ cfg.location \in {"", "local", "remote"}
  /\ ValidateNotify(cfg.notify)

ValidateStorageSemantics(cfg) == cfg.location # ""

\* strings.Fields: blanks separate words and are none.
BuildPruneArgs(cfg) == SelectSeq(cfg.values.prune, LAMBDA word : word # " ")

ValidatePrunePolicy(cfg) ==
  LET words == BuildPruneArgs(cfg) IN
  \A i \in 1 .. Len(words) :
    CASE words[i] = "-keep"      -> i < Len(words) /\ words[i + 1] = "<age>:<count>"
      [] words[i] = "<age>:<count>" -> i > 1 /\ words[i - 1] = "-keep"
      [] OTHER -> words[i] \in {"-all", "-exclusive", "-exhaustive"}

-----------------------------------------------------------------------------
(* The storage value. *)

\* IsLocalPath: no URL, or a file URL.
IsLocalPath(storage) == storage \in {"/path", "relative/path", "file:///path"}

RequiredSecretKeys(storage) ==
  CASE storage \in {"s3://bucket", "s3:"} -> {"s3_id", "s3_secret"}
    [] storage = "storj://bucket"         -> {"storj_key", "storj_passphrase"}
    [] OTHER                              -> {}

NeedsSecrets(storage) == RequiredSecretKeys(storage) # {}

\* validateLocalStorage tries a bare path, and nothing else.
ValidateForConfig(storage, writable) ==
  /\ storage \notin {"", "s3:", "relative/path"}
  /\ storage = "/path" => writable

UsesRootProtectedLocalRepository(cfg) ==
  cfg.location = "local" /\ IsLocalPath(cfg.storage)

-----------------------------------------------------------------------------
(* The secrets file. *)

\* validateFileOwner: the user of the process, or with sudo the one who called
\* it.
Readers(owner) ==
  CASE owner = "operator" -> {"operator", "sudo"}
    [] owner = "root"     -> {"sudo", "root"}
    [] OTHER              -> {}

ValidateFileAccess(secrets, user) ==
  secrets.owner # "missing" /\ secrets.mode = "0600" /\ user \in Readers(secrets.owner)

\* LoadSecretsFile and Validate: an entry of the storage whose keys have values.
LoadSecrets(secrets, s, user) ==
  /\ ValidateFileAccess(secrets, user)
  /\ secrets.syntax = "known keys"
  /\ s \in DOMAIN secrets.storage
  /\ \A k \in DOMAIN secrets.storage[s] : k # "" /\ secrets.storage[s][k] # ""

\* StorageSpec.ValidateSecrets.
ValidateSecrets(storage, keys) ==
  \A k \in RequiredSecretKeys(storage) : k \in DOMAIN keys /\ keys[k] # ""
=============================================================================
