------------------------------ MODULE Planner ------------------------------
(***************************************************************************)
(* The commands that turn the files of a label into a plan or a verdict:   *)
(* backup, prune and cleanup-storage up to the plan they hand to their     *)
(* executor (workflow/planner.go, cmd/duplicacy-backup/dispatch.go), and   *)
(* config validate, explain and paths (workflow/config_commands.go).       *)
(*                                                                         *)
(* A command reads the configuration, then the secrets, and when it is     *)
(* refused the configuration once more to tell of it.  The operator may    *)
(* edit either file between any two of these reads.                        *)
(***************************************************************************)
EXTENDS Settings

CONSTANTS
  Storage,       \* the storage entries that commands ask for
  Files,         \* the contents the configuration file may have
  SecretsFiles,  \* the contents the secrets file may have
  Hosts,         \* the commands and volumes the host may have
  MaxEdits,      \* bound: edits of the two files
  MaxCommands    \* bound: commands in one behaviour

NoConfig == [none |-> TRUE]
NoKeys   == [none |-> TRUE]

\* Numbers of a file are integers, whatever else is in it.
ASSUME FilesAssumption ==
  \A f \in Files : \A s \in DOMAIN f.storage :
    /\ \A k \in {"threads", "retention", "maxPercent", "maxCount", "minTotal"} :
         ResolveValues(f, s)[k] \in Int
    /\ \A k \in {"warn", "fail", "doctor", "verify"} : ResolveHealth(f, s)[k] \in Int

\* The keys of a secrets entry have texts as values, and "none" is not one of them.
ASSUME SecretsAssumption ==
  \A f \in SecretsFiles : \A s \in DOMAIN f.storage : f.storage[s] # NoKeys

\* Commands ask for some storage entry.
ASSUME StorageAssumption == Storage # {}

ASSUME BoundsAssumption == MaxEdits \in Nat /\ MaxCommands \in Nat

\* The operator, the operator with sudo, root that names the profile on the
\* command line, and root that does not.
User    == {"operator", "sudo", "root", "bare root"}
Runtime == {"backup", "prune", "cleanup-storage"}
Command == Runtime \union {"validate", "explain", "paths"}

VARIABLES
  file,        \* <label>-backup.toml
  secrets,     \* <label>-secrets.toml
  host,        \* tools in the path, /volume1, the source, a writable storage
  asked,       \* the command, its storage, its user, --dry-run, on a terminal
  pc,          \* where it is
  cfg,         \* the configuration it has read
  keys,        \* the storage keys it has read
  verdict,     \* how it ended
  told,        \* a refused backup has been notified
  steady,      \* no file was edited since the command began
  vouched,     \* what config validate passed since the last edit, and for whom
  edits, commands

files  == <<file, secrets, edits>>
vars   == <<files, host, asked, pc, cfg, keys, verdict, told, steady, vouched, commands>>

NoRequest == [command |-> "paths", storage |-> CHOOSE s \in Storage : TRUE,
              user |-> "operator", dryRun |-> FALSE, attended |-> FALSE]

Root   == asked.user # "operator"
Backup == asked.command = "backup"
Steps  == {"dispatch", "environment", "load", "host", "secrets", "planned",
                 "refused", "validate", "probe", "read", "done"}

-----------------------------------------------------------------------------
Init ==
  /\ file \in Files /\ secrets \in SecretsFiles /\ host \in Hosts
  /\ asked = NoRequest
  /\ pc = "idle" /\ cfg = NoConfig /\ keys = NoKeys
  /\ verdict = "none" /\ told = FALSE /\ steady = TRUE
  /\ vouched = {} /\ edits = 0 /\ commands = 0

Go(step) ==
  pc' = step /\ UNCHANGED <<files, host, asked, verdict, told, steady, vouched, commands>>

Start(command, s, user, dryRun, attended) ==
  /\ pc = "idle" /\ commands < MaxCommands
  /\ dryRun => command \in Runtime
  /\ attended => command = "backup"  \* the only one that minds
  /\ commands' = commands + 1
  /\ asked' = [command |-> command, storage |-> s, user |-> user,
               dryRun |-> dryRun, attended |-> attended]
  /\ pc' = "dispatch"
  /\ UNCHANGED <<files, host, cfg, keys, verdict, told, steady, vouched>>

\* The command ends and its report with it.
Leave(how) ==
  /\ pc' = "done" /\ verdict' = how
  /\ UNCHANGED <<files, host, asked, cfg, keys, told, steady, vouched, commands>>

\* validateRootExecution: root that may have meant another profile is sent away
\* before anything is read.
RejectBareRoot ==
  pc = "dispatch" /\ asked.user = "bare root" /\ Leave("rejected")

Dispatch ==
  /\ pc = "dispatch" /\ asked.user # "bare root"
  /\ Go(CASE asked.command \in Runtime    -> "environment"
          [] asked.command = "validate"   -> "validate"
          [] OTHER                        -> "read")
  /\ UNCHANGED <<cfg, keys>>

-----------------------------------------------------------------------------
(* Planner.Build. *)

\* A step that has a condition, and refuses the run when it does not hold.
Require(condition, next) == Go(IF condition THEN next ELSE "refused")

ValidateEnvironment ==
  /\ pc = "environment"
  /\ Require(/\ Backup => Root
             /\ "duplicacy" \in host.tools
             /\ Backup => "btrfs" \in host.tools, "load")
  /\ UNCHANGED <<cfg, keys>>

Loads(f) ==
  /\ Identified(f, asked.storage)
  /\ LET c == Config(f, asked.storage) IN
     /\ ValidateRequired(c, Backup, asked.command = "prune")
     /\ ValidateThresholds(c) /\ ValidateStorageSemantics(c)
     /\ Backup => ValidateThreads(c)

LoadConfig ==
  /\ pc = "load"
  /\ Require(Loads(file), "host")
  /\ cfg' = IF Loads(file) THEN Config(file, asked.storage) ELSE NoConfig
  /\ UNCHANGED keys

\* Privilege for what changes or previews a protected repository; the volumes
\* for a backup, which a dry run does not look at.
CheckHost ==
  /\ pc = "host"
  /\ Require(/\ UsesRootProtectedLocalRepository(cfg) /\ ~Root
                  => asked.command = "cleanup-storage" /\ asked.dryRun
             /\ Backup /\ ~asked.dryRun => host.rootVolume /\ host.source = "subvolume",
             IF NeedsSecrets(cfg.storage) THEN "secrets" ELSE "planned")
  /\ UNCHANGED <<cfg, keys>>

ReadSecrets ==
  /\ pc = "secrets"
  /\ LET good == LoadSecrets(secrets, asked.storage, asked.user) IN
     /\ Require(good, "planned")
     /\ keys' = IF good THEN secrets.storage[asked.storage] ELSE NoKeys
  /\ UNCHANGED cfg

\* The executor takes over.
HandOver == pc = "planned" /\ Leave("planned")

-----------------------------------------------------------------------------
(* A refused run: FailureContext and handlePlannerFailure. *)

\* Mutant: the context is a plan that Build would accept.
HasLoadedContext(f) == Loads(f)

\* FailureContext reads the file without the validations of Build.  A plan
\* with a location will do where the rest is incomplete.
HasFailureContext(f) ==
  /\ Identified(f, asked.storage)
  /\ LET c == Config(f, asked.storage) IN
     \/ c.location # ""
     \/ /\ ValidateRequired(c, Backup, asked.command = "prune")
        /\ Backup => ValidateThreads(c)

\* shouldSendConfiguredNotification; a topic alone has a destination too.
ShouldNotify(n) ==
  /\ n.webhook # "" \/ n.topic # ""
  /\ asked.attended => n.interactive
  /\ "backup" \in n.sendFor

\* MaybeSendPreRunFailureNotification tells of backups only.
Refuse ==
  /\ pc = "refused"
  /\ told' = (/\ HasFailureContext(file) /\ Backup /\ ~asked.dryRun
              /\ ShouldNotify(ResolveNotify(file, asked.storage)))
  /\ pc' = "done" /\ verdict' = "refused"
  /\ UNCHANGED <<files, host, asked, cfg, keys, steady, vouched, commands>>

-----------------------------------------------------------------------------
(* config validate, explain and paths. *)

LoadForValidation ==
  /\ pc = "validate"
  /\ IF Identified(file, asked.storage)
       THEN /\ cfg' = Config(file, asked.storage)
            /\ Go("probe") /\ UNCHANGED keys
       ELSE Leave("rejected")

\* The lines of the report that need no repository.
SettingsValid ==
  /\ ValidateRequired(cfg, TRUE, FALSE) /\ ValidateThreads(cfg)
  /\ ValidateThresholds(cfg) /\ ValidateStorageSemantics(cfg)
  /\ ValidatePrunePolicy(cfg)
  /\ cfg.source = "/path" /\ host.source = "subvolume"

\* Mutant: the secrets are not among what is validated.
StorageValidWithoutSecrets ==
  ValidateForConfig(cfg.storage, host.writable \/ Root)

\* A local repository is not looked at without root, which is no success.
StorageValid ==
  /\ ValidateForConfig(cfg.storage, host.writable \/ Root)
  /\ UsesRootProtectedLocalRepository(cfg) => Root
  /\ NeedsSecrets(cfg.storage) =>
       /\ LoadSecrets(secrets, asked.storage, asked.user)
       /\ ValidateSecrets(cfg.storage, secrets.storage[asked.storage])

\* duplicacy list -files finds a repository, an empty storage, or fails.
ProbeRepository(accessible) ==
  /\ pc = "probe"
  /\ accessible => "duplicacy" \in host.tools
  /\ LET passed == SettingsValid /\ StorageValid /\ accessible IN
     /\ verdict' = IF passed THEN "passed" ELSE "rejected"
     /\ vouched' = IF passed /\ steady
                   THEN vouched \union {<<asked.storage, asked.user>>} ELSE vouched
  /\ pc' = "done"
  /\ UNCHANGED <<files, host, asked, cfg, keys, told, steady, commands>>

\* Explain shows a configuration that loads; paths shows what it can.
Show ==
  /\ pc = "read"
  /\ Leave(IF asked.command = "paths" \/ Loads(file) THEN "shown" ELSE "rejected")

-----------------------------------------------------------------------------
\* The process ends, and its memory with it.
Finish ==
  /\ pc = "done" /\ pc' = "idle"
  /\ asked' = NoRequest /\ cfg' = NoConfig /\ keys' = NoKeys
  /\ verdict' = "none" /\ told' = FALSE /\ steady' = TRUE
  /\ UNCHANGED <<files, host, vouched, commands>>

\* The operator saves one of the files.
Edit ==
  /\ edits < MaxEdits /\ edits' = edits + 1
  /\ \/ file' \in Files /\ UNCHANGED secrets
     \/ secrets' \in SecretsFiles /\ UNCHANGED file
  /\ steady' = (pc = "idle") /\ vouched' = {}
  /\ UNCHANGED <<host, asked, pc, cfg, keys, verdict, told, commands>>

Build == ValidateEnvironment \/ LoadConfig \/ CheckHost \/ ReadSecrets

Next ==
  \/ \E command \in Command, s \in Storage, user \in User, dryRun \in BOOLEAN,
        attended \in BOOLEAN : Start(command, s, user, dryRun, attended)
  \/ RejectBareRoot \/ Dispatch \/ Build \/ HandOver \/ Refuse
  \/ LoadForValidation \/ (\E accessible \in BOOLEAN : ProbeRepository(accessible))
  \/ Show \/ Finish \/ Edit

Spec == Init /\ [][Next]_vars

-----------------------------------------------------------------------------
TypeOK ==
  /\ file \in Files /\ secrets \in SecretsFiles /\ host \in Hosts
  /\ asked.command \in Command /\ asked.storage \in Storage /\ asked.user \in User
  /\ pc \in Steps \union {"idle"}
  /\ verdict \in {"none", "planned", "refused", "passed", "rejected", "shown"}
  /\ told \in BOOLEAN /\ steady \in BOOLEAN
  /\ vouched \subseteq Storage \X User

\* A setting in force is the most specific one that the file read gives.
MostSpecific == \E f \in Files :
  /\ asked.storage \in DOMAIN f.storage
  /\ cfg = Config(f, asked.storage)
  /\ \A k \in DOMAIN Defaults :
       cfg.values[k] = IF k \in DOMAIN f.storage[asked.storage].values
                         THEN f.storage[asked.storage].values[k]
                       ELSE IF k \in DOMAIN f.common THEN f.common[k] ELSE Defaults[k]

\* What the executor, the safe prune and the health checks take for granted of
\* a plan (executor.go, prune.go, health/state_runner.go), whichever file was
\* read and whatever was edited meanwhile: a threshold that limits, a number of
\* threads duplicacy takes, keys where the storage needs them, root where the
\* repository or the source is root's.
PlanFits ==
  verdict = "planned" =>
    /\ [maxCount |-> cfg.values.maxCount, maxPercent |-> cfg.values.maxPercent,
        minTotal |-> cfg.values.minTotal]
         \in [maxCount : Nat, maxPercent : 0 .. 100, minTotal : Nat]
    /\ cfg.health.warn \in Nat /\ cfg.health.fail \in Nat
    /\ cfg.name = asked.storage /\ cfg.location \in {"local", "remote"}
    /\ NeedsSecrets(cfg.storage) => keys # NoKeys /\ \A k \in DOMAIN keys : keys[k] # ""
    /\ Backup => Root /\ cfg.source # "" /\ cfg.values.threads \in {1, 2, 4, 8, 16}
    /\ asked.command = "prune" => /\ cfg.values.prune # <<>>
                                  /\ cfg.location = "local" /\ IsLocalPath(cfg.storage) => Root
    /\ MostSpecific

\* "Validate backup-readiness for the selected storage" (docs/cli.md:73): after
\* config validate has passed, and until a file is edited, a run of the same
\* user, or of the operator with sudo, is only refused for what validate does
\* not look at: the user, the btrfs command, /volume1, a missing policy.
VouchedFor ==
  \E u \in User : /\ <<asked.storage, u>> \in vouched
                  /\ u = asked.user \/ (u = "operator" /\ asked.user = "sudo")
Excused ==
  \/ Backup /\ (~Root \/ "btrfs" \notin host.tools \/ ~host.rootVolume)
  \/ asked.command = "prune" /\ ResolveValues(file, asked.storage).prune = <<>>
  \/ ~Root /\ UsesRootProtectedLocalRepository(Config(file, asked.storage))
ValidatedIsPlanned == verdict = "refused" /\ steady /\ VouchedFor => Excused

\* A backup that nobody watches does not fail to start in silence: when the
\* file can be resolved and asks for it, and no edit comes in between, the
\* refusal is notified, whatever the reason for it (docs/configuration.md:133).
Resolvable == Identified(file, asked.storage) /\ file.storage[asked.storage].location # ""
RefusalIsTold ==
  verdict = "refused" /\ steady /\ Backup /\ ~asked.dryRun /\ Resolvable
    /\ ShouldNotify(ResolveNotify(file, asked.storage)) => told
=============================================================================
