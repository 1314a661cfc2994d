--------------------------- MODULE PlannerProofs ---------------------------
(***************************************************************************)
(* Theorems about the planner and config validate, for any configuration   *)
(* and secrets files, any hosts, and any number of commands and of edits.  *)
(***************************************************************************)
EXTENDS Planner, TLAPS

\* A verdict is the end of a command.
EndInv == verdict # "none" => pc = "done"

\* What a run has been found to have when it is past a step of Build, in the files as
\* they were when that step read them.
Past(steps) == pc \in steps \/ verdict = "planned"

BuildInv ==
  /\ Past({"load", "host", "secrets", "planned"}) => (Backup => Root)
  /\ Past({"host", "secrets", "planned"})
       => \E f \in Files : Loads(f) /\ cfg = Config(f, asked.storage)
  /\ Past({"secrets", "planned"}) =>
       (UsesRootProtectedLocalRepository(cfg) /\ ~Root
          => asked.command = "cleanup-storage" /\ asked.dryRun)
  /\ pc = "secrets" => NeedsSecrets(cfg.storage)
  /\ Past({"planned"}) /\ NeedsSecrets(cfg.storage) =>
       \E g \in SecretsFiles : /\ LoadSecrets(g, asked.storage, asked.user)
                               /\ keys = g.storage[asked.storage]

\* What has been read is what the file says as long as nobody edits it.
ReadInv ==
  steady /\ pc \in {"host", "secrets", "probe"}
    => Identified(file, asked.storage) /\ cfg = Config(file, asked.storage)

\* What config validate has found of the files as they are, and of the host.
Validated(s, u) ==
  /\ "duplicacy" \in host.tools /\ host.source = "subvolume"
  /\ Identified(file, s)
  /\ LET c == Config(file, s) IN
     /\ ValidateRequired(c, TRUE, FALSE) /\ ValidateThreads(c)
     /\ ValidateThresholds(c) /\ ValidateStorageSemantics(c)
     /\ NeedsSecrets(c.storage) => LoadSecrets(secrets, s, u)

VouchInv == \A s \in Storage, u \in User : <<s, u>> \in vouched => Validated(s, u)

\* A refusal that is on its way is excused already.
ExcuseInv ==
  (pc = "refused" \/ verdict = "refused") /\ steady /\ VouchedFor => Excused

Inv ==
  /\ TypeOK /\ EndInv
  /\ BuildInv /\ ReadInv /\ VouchInv /\ ExcuseInv /\ RefusalIsTold

-----------------------------------------------------------------------------
(* The files and the commands. *)

\* A number that three tables may give is taken from the most specific one.
LEMMA MostSpecificWins ==
  ASSUME NEW f, NEW s, NEW k \in DOMAIN Defaults
  PROVE  ResolveValues(f, s)[k] = IF k \in DOMAIN f.storage[s].values
                                    THEN f.storage[s].values[k]
                                  ELSE IF k \in DOMAIN f.common THEN f.common[k]
                                  ELSE Defaults[k]
  BY DEF ResolveValues, Over

\* The powers of two that are no more than MaxThreads.
LEMMA NumbersOfThreads ==
  ASSUME NEW c, ValidateThreads(c)
  PROVE  c.values.threads \in {1, 2, 4, 8, 16}
<1>1. PICK k \in 0 .. 4 : c.values.threads = 2 ^ k
  BY DEF ValidateThreads
<1>2. 2 ^ 0 = 1 /\ 2 ^ 1 = 2 /\ 2 ^ 2 = 4 /\ 2 ^ 3 = 8 /\ 2 ^ 4 = 16
  OBVIOUS
<1>3. k = 0 \/ k = 1 \/ k = 2 \/ k = 3 \/ k = 4
  OBVIOUS
<1> QED
  BY <1>1, <1>2, <1>3

\* The types of the variables hold in every state.
LEMMA TypeStep ==
  ASSUME TypeOK, [Next]_vars
  PROVE  TypeOK'
<1> USE DEF TypeOK, Steps, Command
<1>1. CASE UNCHANGED vars
  BY <1>1 DEF vars, files
<1>2. ASSUME NEW command \in Command, NEW s \in Storage, NEW user \in User,
             NEW dryRun \in BOOLEAN, NEW attended \in BOOLEAN,
             Start(command, s, user, dryRun, attended)
      PROVE  TypeOK'
  BY <1>2 DEF Start, files
<1>3. CASE RejectBareRoot \/ Dispatch \/ Build \/ HandOver \/ Show
  BY <1>3 DEF RejectBareRoot, Dispatch, Build, ValidateEnvironment, LoadConfig, CheckHost,
              ReadSecrets, HandOver, Show, Require, Go, Leave, files
<1>4. CASE Refuse \/ LoadForValidation
  BY <1>4 DEF Refuse, LoadForValidation, Go, Leave, files
<1>5. ASSUME NEW accessible \in BOOLEAN, ProbeRepository(accessible) PROVE TypeOK'
  <2>1. vouched' \subseteq Storage \X User
    BY <1>5 DEF ProbeRepository
  <2> QED
    BY <1>5, <2>1 DEF ProbeRepository, files
<1>6. CASE Finish
  BY <1>6, StorageAssumption DEF Finish, files, NoRequest, User
<1>7. CASE Edit
  BY <1>7 DEF Edit
<1> HIDE DEF TypeOK
<1> QED
  BY <1>1, <1>2, <1>3, <1>4, <1>5, <1>6, <1>7 DEF Next

\* Only Finish leaves the end of a command, and it takes the verdict along.
LEMMA EndStep ==
  ASSUME EndInv, [Next]_vars
  PROVE  EndInv'
  BY DEF EndInv, Next, vars, files, Start, RejectBareRoot, Dispatch, Build, ValidateEnvironment,
         LoadConfig, CheckHost, ReadSecrets, HandOver, Show, Require, Go, Leave, Refuse,
         LoadForValidation, ProbeRepository, Finish, Edit

-----------------------------------------------------------------------------
(* What Build passes. *)

\* Every step of Build adds what it requires, and the steps after it keep that.
LEMMA BuildStep ==
  ASSUME TypeOK, EndInv, BuildInv, [Next]_vars
  PROVE  BuildInv'
<1> USE DEF BuildInv, Past, Backup, Root
<1>1. CASE UNCHANGED vars \/ Edit
  <2>1. UNCHANGED <<pc, verdict, asked, cfg, keys>>
    BY <1>1 DEF vars, Edit
  <2> QED
    BY <2>1 DEF Loads
<1>2. ASSUME pc' \notin {"load", "host", "secrets", "planned"}, verdict' # "planned"
      PROVE  BuildInv'
  BY <1>2
<1>3. ASSUME \/ \E command \in Command, s \in Storage, user \in User, dryRun \in BOOLEAN,
                   attended \in BOOLEAN : Start(command, s, user, dryRun, attended)
             \/ RejectBareRoot \/ Dispatch \/ Refuse \/ LoadForValidation \/ Show \/ Finish
             \/ \E accessible \in BOOLEAN : ProbeRepository(accessible)
      PROVE  BuildInv'
  <2>1. pc' \notin {"load", "host", "secrets", "planned"} /\ verdict' # "planned"
    BY <1>3 DEF EndInv, Start, RejectBareRoot, Dispatch, Refuse, LoadForValidation, Show, Finish,
                ProbeRepository, Go, Leave
  <2> QED
    BY <1>2, <2>1
<1>4. CASE ValidateEnvironment
  <2>1. pc' \notin {"host", "secrets", "planned"} /\ verdict' # "planned"
    BY <1>4 DEF EndInv, ValidateEnvironment, Require, Go
  <2> QED
    BY <1>4, <2>1 DEF ValidateEnvironment, Require, Go
<1>5. CASE LoadConfig
  <2>1. /\ pc' = IF Loads(file) THEN "host" ELSE "refused"
        /\ verdict' # "planned" /\ asked' = asked
    BY <1>5 DEF EndInv, LoadConfig, Require, Go
  <2>2. CASE Loads(file)
    <3>1. cfg' = Config(file, asked.storage) /\ file \in Files /\ (Backup => Root)
      BY <1>5, <2>2 DEF LoadConfig, TypeOK
    <3> QED
      BY <2>1, <2>2, <3>1 DEF Loads
  <2> QED
    BY <1>2, <2>1, <2>2
<1>6. CASE CheckHost
  <2>1. /\ pc' \in {"secrets", "planned", "refused"}
        /\ verdict' # "planned" /\ asked' = asked /\ cfg' = cfg
        /\ pc' = "secrets" => NeedsSecrets(cfg.storage)
        /\ pc' = "planned" => ~NeedsSecrets(cfg.storage)
        /\ pc' # "refused" =>
             (UsesRootProtectedLocalRepository(cfg) /\ ~Root
                => asked.command = "cleanup-storage" /\ asked.dryRun)
    BY <1>6 DEF EndInv, CheckHost, Require, Go
  <2>2. (Backup => Root) /\ \E f \in Files : Loads(f) /\ cfg = Config(f, asked.storage)
    BY <1>6 DEF CheckHost
  <2>3. /\ (Backup => Root)'
        /\ (\E f \in Files : Loads(f) /\ cfg = Config(f, asked.storage))'
        /\ pc' # "refused" =>
             (UsesRootProtectedLocalRepository(cfg) /\ ~Root
                => asked.command = "cleanup-storage" /\ asked.dryRun)'
    BY <2>1, <2>2 DEF Loads
  <2>4. CASE pc' = "refused"
    BY <1>2, <2>1, <2>4
  <2>5. CASE pc' = "secrets"
    BY <2>1, <2>3, <2>5
  <2>6. CASE pc' = "planned"
    <3>1. ~NeedsSecrets(cfg.storage)'
      BY <2>1, <2>6
    <3> QED
      BY <2>1, <2>3, <2>6, <3>1
  <2> QED
    BY <2>1, <2>4, <2>5, <2>6
<1>7. CASE ReadSecrets
  <2>1. /\ pc' \in {"planned", "refused"}
        /\ verdict' # "planned" /\ asked' = asked /\ cfg' = cfg
        /\ pc' = "planned" => /\ LoadSecrets(secrets, asked.storage, asked.user)
                              /\ keys' = secrets.storage[asked.storage]
    BY <1>7 DEF EndInv, ReadSecrets, Require, Go
  <2>2. /\ (Backup => Root) /\ secrets \in SecretsFiles
        /\ \E f \in Files : Loads(f) /\ cfg = Config(f, asked.storage)
        /\ UsesRootProtectedLocalRepository(cfg) /\ ~Root
             => asked.command = "cleanup-storage" /\ asked.dryRun
    BY <1>7 DEF ReadSecrets, TypeOK
  <2> QED
    BY <2>1, <2>2 DEF Loads
<1>8. CASE HandOver
  <2>1. pc = "planned" /\ pc' = "done" /\ UNCHANGED <<asked, cfg, keys>>
    BY <1>8 DEF HandOver, Leave
  <2> QED
    BY <2>1 DEF Loads
<1> QED
  BY <1>1, <1>3, <1>4, <1>5, <1>6, <1>7, <1>8 DEF Next, Build
-----------------------------------------------------------------------------
(* What config validate has passed, and the refusals after it. *)

\* A read is up to date while it is steady, whoever reads.
LEMMA ReadStep ==
  ASSUME TypeOK, ReadInv, [Next]_vars
  PROVE  ReadInv'
<1> USE DEF ReadInv
<1>1. CASE UNCHANGED vars
  BY <1>1 DEF vars, files
<1>2. CASE Edit
  BY <1>2 DEF Edit
<1>3. CASE LoadConfig \/ LoadForValidation
  BY <1>3 DEF LoadConfig, LoadForValidation, Loads, Require, Go, Leave, files
<1>4. CASE CheckHost
  BY <1>4 DEF CheckHost, Require, Go, files
<1>5. ASSUME \/ \E command \in Command, s \in Storage, user \in User, dryRun \in BOOLEAN,
                   attended \in BOOLEAN : Start(command, s, user, dryRun, attended)
             \/ RejectBareRoot \/ Dispatch \/ ValidateEnvironment \/ ReadSecrets \/ HandOver
             \/ Refuse \/ Show \/ Finish
             \/ \E accessible \in BOOLEAN : ProbeRepository(accessible)
      PROVE  ReadInv'
  <2>1. pc' \notin {"host", "secrets", "probe"}
    BY <1>5 DEF Start, RejectBareRoot, Dispatch, ValidateEnvironment, ReadSecrets, HandOver,
                Refuse, Show, Finish, ProbeRepository, Require, Go, Leave
  <2> QED
    BY <2>1
<1> QED
  BY <1>1, <1>2, <1>3, <1>4, <1>5 DEF Next, Build

\* What is vouched for was validated as the files are, and an edit ends all vouching.
LEMMA VouchStep ==
  ASSUME TypeOK, ReadInv, VouchInv, [Next]_vars
  PROVE  VouchInv'
<1>1. ASSUME UNCHANGED <<file, secrets, host, vouched>> PROVE VouchInv'
  BY <1>1 DEF VouchInv, Validated
<1>2. CASE Edit
  BY <1>2 DEF Edit, VouchInv
<1>3. ASSUME NEW accessible \in BOOLEAN, ProbeRepository(accessible) PROVE VouchInv'
  <2>1. UNCHANGED <<file, secrets, host>> /\ pc = "probe"
    BY <1>3 DEF ProbeRepository, files
  <2>2. ASSUME vouched' # vouched
        PROVE  /\ vouched' = vouched \union {<<asked.storage, asked.user>>}
               /\ Validated(asked.storage, asked.user)
    <3>1. /\ vouched' = vouched \union {<<asked.storage, asked.user>>}
          /\ SettingsValid /\ StorageValid /\ accessible /\ steady
          /\ "duplicacy" \in host.tools
      BY <1>3, <2>2 DEF ProbeRepository
    <3>2. Identified(file, asked.storage) /\ cfg = Config(file, asked.storage)
      BY <2>1, <3>1 DEF ReadInv
    <3> QED
      BY <3>1, <3>2 DEF Validated, SettingsValid, StorageValid
  <2>3. ASSUME NEW s \in Storage, NEW u \in User, <<s, u>> \in vouched'
        PROVE  Validated(s, u)
    BY <2>2, <2>3 DEF VouchInv
  <2> QED
    BY <2>1, <2>3 DEF VouchInv, Validated
<1>4. ASSUME \/ \E command \in Command, s \in Storage, user \in User, dryRun \in BOOLEAN,
                   attended \in BOOLEAN : Start(command, s, user, dryRun, attended)
             \/ RejectBareRoot \/ Dispatch \/ Build \/ HandOver \/ Refuse \/ LoadForValidation
             \/ Show \/ Finish \/ UNCHANGED vars
      PROVE  UNCHANGED <<file, secrets, host, vouched>>
  BY <1>4 DEF vars, files, Start, RejectBareRoot, Dispatch, Build, ValidateEnvironment,
              LoadConfig, CheckHost, ReadSecrets, HandOver, Refuse, LoadForValidation, Show,
              Finish, Require, Go, Leave
<1> QED
  BY <1>1, <1>2, <1>3, <1>4 DEF Next

\* What the operator may read, the operator may read with sudo.
LEMMA SudoReads ==
  ASSUME NEW g, NEW s, LoadSecrets(g, s, "operator")
  PROVE  LoadSecrets(g, s, "sudo")
  BY DEF LoadSecrets, ValidateFileAccess, Readers

\* What config validate has passed for the user who asks, or for the operator before
\* sudo, is fit for a run of that user.
LEMMA VouchedIsFit ==
  ASSUME TypeOK, VouchInv, VouchedFor
  PROVE  /\ "duplicacy" \in host.tools /\ host.source = "subvolume"
         /\ Identified(file, asked.storage)
         /\ LET c == Config(file, asked.storage) IN
            /\ ValidateRequired(c, TRUE, FALSE) /\ ValidateThreads(c)
            /\ ValidateThresholds(c) /\ ValidateStorageSemantics(c)
            /\ NeedsSecrets(c.storage) => LoadSecrets(secrets, asked.storage, asked.user)
<1>1. PICK u \in User : /\ <<asked.storage, u>> \in vouched
                        /\ u = asked.user \/ (u = "operator" /\ asked.user = "sudo")
  BY DEF VouchedFor
<1>2. Validated(asked.storage, u)
  BY <1>1 DEF TypeOK, VouchInv
<1> QED
  BY <1>1, <1>2, SudoReads DEF Validated

\* A step of Build that refuses what is vouched for has an excuse, which stays.
LEMMA ExcuseStep ==
  ASSUME TypeOK, EndInv, BuildInv, ReadInv, VouchInv, ExcuseInv, [Next]_vars
  PROVE  ExcuseInv'
<1>1. ASSUME UNCHANGED <<file, host, asked>> PROVE Excused' = Excused
  BY <1>1 DEF Excused, Backup, Root
<1>2. ASSUME UNCHANGED <<asked, vouched>> PROVE VouchedFor' = VouchedFor
  BY <1>2 DEF VouchedFor
<1>3. ASSUME UNCHANGED <<file, host, asked, vouched, steady>>,
             (pc' = "refused" \/ verdict' = "refused")
               => (pc = "refused" \/ verdict = "refused")
      PROVE  ExcuseInv'
  BY <1>1, <1>2, <1>3 DEF ExcuseInv
<1>4. ASSUME pc' # "refused", verdict' # "refused" PROVE ExcuseInv'
  BY <1>4 DEF ExcuseInv
<1>5. CASE UNCHANGED vars
  BY <1>3, <1>5 DEF vars, files
<1>6. CASE Edit
  BY <1>6 DEF Edit, ExcuseInv, EndInv
<1>7. CASE Refuse
  BY <1>3, <1>7 DEF Refuse, files
<1>8. ASSUME \/ \E command \in Command, s \in Storage, user \in User, dryRun \in BOOLEAN,
                   attended \in BOOLEAN : Start(command, s, user, dryRun, attended)
             \/ RejectBareRoot \/ Dispatch \/ HandOver \/ LoadForValidation \/ Show \/ Finish
             \/ \E accessible \in BOOLEAN : ProbeRepository(accessible)
      PROVE  ExcuseInv'
  <2>1. pc' # "refused" /\ verdict' # "refused"
    BY <1>8 DEF EndInv, Start, RejectBareRoot, Dispatch, HandOver, LoadForValidation, Show,
                Finish, ProbeRepository, Go, Leave
  <2> QED
    BY <1>4, <2>1
<1>9. CASE Build
  <2>1. UNCHANGED <<file, secrets, host, asked, vouched, steady, verdict>> /\ pc # "done"
    BY <1>9 DEF Build, ValidateEnvironment, LoadConfig, CheckHost, ReadSecrets, Require, Go, files
  <2>2. SUFFICES ASSUME pc' = "refused", steady, VouchedFor PROVE Excused
    BY <1>1, <1>2, <2>1 DEF ExcuseInv, EndInv
  <2> DEFINE c == Config(file, asked.storage)
  <2>3. /\ "duplicacy" \in host.tools /\ host.source = "subvolume"
        /\ Identified(file, asked.storage)
        /\ ValidateRequired(c, TRUE, FALSE) /\ ValidateThreads(c)
        /\ ValidateThresholds(c) /\ ValidateStorageSemantics(c)
        /\ NeedsSecrets(c.storage) => LoadSecrets(secrets, asked.storage, asked.user)
    BY <2>2, VouchedIsFit
  <2>4. CASE ValidateEnvironment
    BY <2>2, <2>3, <2>4 DEF ValidateEnvironment, Require, Go, Excused
  <2>5. CASE LoadConfig
    <3>1. ~Loads(file)
      BY <2>2, <2>5 DEF LoadConfig, Require, Go
    <3>2. asked.command = "prune" /\ c.values.prune = <<>>
      BY <2>3, <3>1 DEF Loads, ValidateRequired
    <3> QED
      BY <3>2 DEF Excused, Config
  <2>6. CASE CheckHost
    <3>1. cfg = c
      BY <2>2, <2>6 DEF CheckHost, ReadInv
    <3> QED
      BY <2>2, <2>3, <2>6, <3>1 DEF CheckHost, Require, Go, Excused
  <2>7. CASE ReadSecrets
    <3>1. cfg = c /\ NeedsSecrets(cfg.storage)
      BY <2>2, <2>7 DEF ReadSecrets, ReadInv, BuildInv
    <3> QED
      BY <2>2, <2>3, <2>7, <3>1 DEF ReadSecrets, Require, Go
  <2> QED
    BY <1>9, <2>4, <2>5, <2>6, <2>7 DEF Build
<1> QED
  BY <1>5, <1>6, <1>7, <1>8, <1>9 DEF Next
\* The failure context is there for every file that resolves, and what is said of the
\* refusal stays said until the command or its file is gone.
LEMMA ToldStep ==
  ASSUME EndInv, RefusalIsTold, [Next]_vars
  PROVE  RefusalIsTold'
<1> USE DEF RefusalIsTold
<1>1. CASE UNCHANGED vars
  BY <1>1 DEF vars, files, Backup, Resolvable, ShouldNotify
<1>2. CASE Edit
  BY <1>2 DEF Edit, EndInv
<1>3. CASE Refuse
  <2>1. /\ UNCHANGED <<file, asked>>
        /\ told' = (/\ HasFailureContext(file) /\ Backup /\ ~asked.dryRun
                    /\ ShouldNotify(ResolveNotify(file, asked.storage)))
    BY <1>3 DEF Refuse, files
  <2>2. Resolvable => HasFailureContext(file)
    BY DEF Resolvable, HasFailureContext, Config
  <2> QED
    BY <2>1, <2>2 DEF Backup, Resolvable, ShouldNotify
<1>4. ASSUME \/ \E command \in Command, s \in Storage, user \in User, dryRun \in BOOLEAN,
                   attended \in BOOLEAN : Start(command, s, user, dryRun, attended)
             \/ RejectBareRoot \/ Dispatch \/ Build \/ HandOver \/ LoadForValidation
             \/ Show \/ Finish
             \/ \E accessible \in BOOLEAN : ProbeRepository(accessible)
      PROVE  RefusalIsTold'
  <2>1. verdict' # "refused"
    BY <1>4 DEF EndInv, Start, RejectBareRoot, Dispatch, Build, ValidateEnvironment, LoadConfig,
                CheckHost, ReadSecrets, HandOver, LoadForValidation, Show, Finish,
                ProbeRepository, Require, Go, Leave
  <2> QED
    BY <2>1
<1> QED
  BY <1>1, <1>2, <1>3, <1>4 DEF Next

-----------------------------------------------------------------------------
\* What is true of the planner and of config validate in every state, whatever is
\* edited while they read.
THEOREM PlannerInvariant == Spec => []Inv
<1>1. Init => Inv
  <2> SUFFICES ASSUME Init PROVE Inv
    OBVIOUS
  <2>1. TypeOK
    BY StorageAssumption DEF Init, TypeOK, NoRequest, User, Command
  <2>2. EndInv /\ BuildInv /\ ReadInv /\ VouchInv /\ ExcuseInv /\ RefusalIsTold
    BY DEF Init, EndInv, BuildInv, Past, ReadInv, VouchInv, ExcuseInv, RefusalIsTold
  <2> QED
    BY <2>1, <2>2 DEF Inv
<1>2. Inv /\ [Next]_vars => Inv'
  BY TypeStep, EndStep, BuildStep, ReadStep, VouchStep, ExcuseStep, ToldStep DEF Inv
<1> QED
  BY <1>1, <1>2, PTL DEF Spec

\* A file that loads for a command gives a plan whose limits limit, whose threads
\* duplicacy takes, and whose numbers are the most specific ones.
LEMMA LoadedFits ==
  ASSUME NEW f \in Files, Loads(f), cfg = Config(f, asked.storage)
  PROVE  /\ [maxCount |-> cfg.values.maxCount, maxPercent |-> cfg.values.maxPercent,
             minTotal |-> cfg.values.minTotal]
              \in [maxCount : Nat, maxPercent : 0 .. 100, minTotal : Nat]
         /\ cfg.health.warn \in Nat /\ cfg.health.fail \in Nat
         /\ cfg.name = asked.storage /\ cfg.location \in {"local", "remote"}
         /\ Backup => cfg.source # "" /\ cfg.values.threads \in {1, 2, 4, 8, 16}
         /\ asked.command = "prune" => cfg.values.prune # <<>>
         /\ MostSpecific
<1>1. /\ asked.storage \in DOMAIN f.storage
      /\ ValidateRequired(cfg, Backup, asked.command = "prune")
      /\ ValidateThresholds(cfg) /\ ValidateStorageSemantics(cfg)
      /\ Backup => ValidateThreads(cfg)
  BY DEF Loads, Identified
<1>2. cfg.values = ResolveValues(f, asked.storage) /\ cfg.health = ResolveHealth(f, asked.storage)
  BY DEF Config
<1>3. /\ cfg.values.maxCount \in Int /\ cfg.values.minTotal \in Int
      /\ cfg.health.warn \in Int /\ cfg.health.fail \in Int
  BY <1>1, <1>2, FilesAssumption
<1>4. /\ cfg.values.maxCount \in Nat /\ cfg.values.minTotal \in Nat
      /\ cfg.values.maxPercent \in 0 .. 100
      /\ cfg.health.warn \in Nat /\ cfg.health.fail \in Nat
  <2>1. /\ cfg.values.maxCount >= 0 /\ cfg.values.minTotal >= 0
        /\ cfg.values.maxPercent \in 0 .. 100
    BY <1>1 DEF ValidateThresholds
  <2>2. /\ cfg.health.warn \in 0 .. MaxHealthThresholdHours
        /\ cfg.health.fail \in 0 .. MaxHealthThresholdHours
    BY <1>1 DEF ValidateThresholds
  <2>3. cfg.values.maxCount \in Nat /\ cfg.values.minTotal \in Nat
    BY <1>3, <2>1
  <2>4. cfg.health.warn \in Nat /\ cfg.health.fail \in Nat
    BY <1>3, <2>2
  <2> QED
    BY <2>1, <2>3, <2>4
<1>5. cfg.name = asked.storage /\ cfg.location \in {"local", "remote"}
  BY <1>1 DEF Config, ValidateThresholds, ValidateStorageSemantics
<1>6. Backup => cfg.source # "" /\ cfg.values.threads \in {1, 2, 4, 8, 16}
  BY <1>1, NumbersOfThreads DEF ValidateRequired
<1>7. asked.command = "prune" => cfg.values.prune # <<>>
  BY <1>1 DEF ValidateRequired
<1>8. MostSpecific
  BY <1>1, <1>2, MostSpecificWins DEF MostSpecific
<1> QED
  BY <1>4, <1>5, <1>6, <1>7, <1>8

\* Whichever files were read, and whatever was edited meanwhile, the executor gets a
\* plan that fits.
THEOREM PlansFit == Spec => []PlanFits
<1>1. Inv => PlanFits
  <2> SUFFICES ASSUME Inv, verdict = "planned" PROVE PlanFits
    BY DEF PlanFits
  <2>1. /\ Backup => Root
        /\ \E f \in Files : Loads(f) /\ cfg = Config(f, asked.storage)
        /\ UsesRootProtectedLocalRepository(cfg) /\ ~Root
             => asked.command = "cleanup-storage" /\ asked.dryRun
        /\ NeedsSecrets(cfg.storage) =>
             \E g \in SecretsFiles : /\ LoadSecrets(g, asked.storage, asked.user)
                                     /\ keys = g.storage[asked.storage]
    BY DEF Inv, BuildInv, Past
  <2>2. NeedsSecrets(cfg.storage) => keys # NoKeys /\ \A k \in DOMAIN keys : keys[k] # ""
    BY <2>1, SecretsAssumption DEF LoadSecrets
  <2>3. asked.command = "prune" /\ cfg.location = "local" /\ IsLocalPath(cfg.storage) => Root
    BY <2>1 DEF UsesRootProtectedLocalRepository
  <2> QED
    BY <2>1, <2>2, <2>3, LoadedFits DEF PlanFits
<1> QED
  BY <1>1, PlannerInvariant, PTL

\* Until a file is edited, what config validate has passed is only refused for what
\* validate does not look at.
THEOREM ValidationIsKept == Spec => []ValidatedIsPlanned
<1>1. Inv => ValidatedIsPlanned
  BY DEF Inv, ExcuseInv, ValidatedIsPlanned
<1> QED
  BY <1>1, PlannerInvariant, PTL

\* A backup that nobody watches and that is refused is told of, if the file resolves and
\* asks for it.
THEOREM RefusalsAreTold == Spec => []RefusalIsTold
<1>1. Inv => RefusalIsTold
  BY DEF Inv
<1> QED
  BY <1>1, PlannerInvariant, PTL
=============================================================================
