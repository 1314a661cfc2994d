# duplicacy-backup: a formal model

`duplicacy-backup` is a Go program for Synology NAS devices. It takes a btrfs
snapshot of a source volume, backs the snapshot up with the Duplicacy CLI,
prunes old revisions, checks their health, restores from them, tells whoever is
configured of what failed, and updates itself. This directory holds TLA+ modules
of those parts, TLC configurations that check them on small instances, and
proofs that TLAPS checks for every instance.

All paths below are relative to `src/`; `workflow/` and the like stand for
`internal/workflow/`.

| what you want | where it is |
| --- | --- |
| the parts of the program and what could go wrong in each | section 1 |
| which module models what, and how | section 2 |
| what is checked, with which bounds and fairness | section 3 |
| what is proved, and how | section 4 |
| where code and documents disagree | section 5 |
| what is left out, and what comes next | sections 6 and 7 |

## 1. The system

### Parts, state and operations

| part | state it keeps | operations | correct if |
| --- | --- | --- | --- |
| lock (`lock/lock.go`) | a directory per lock with a file `pid` in it | `Acquire`, `Release`, `inspectLock` | one live run at a time is inside; a lock left behind by a dead run can be taken; a report of the lock is true |
| executor (`workflow/executor.go`, `cleanup.go`, `prune.go`) | the fields of `Executor`, a snapshot, a work directory with the storage secrets, two locks | `Run` and everything it calls, `cleanup`, the signal handler | one repository phase per label and storage; the snapshot outlives the backup; nothing is left behind in silence; exit status, record and notification are true |
| state file (`workflow/state.go`, `workflowcore/state.go`) | `<label>.<storage>.json` | `updateRunState`, `updateHealthCheckState`, `LoadRunState` | an update changes its own fields only; the fields agree with each other; a reader finds a state |
| safe prune (`workflow/prune.go`, `duplicacy/duplicacy.go`) | the preview in memory | preview, count, enforce, delete | without `--force` no more is deleted than the thresholds allow |
| commands (`btrfs/`, `duplicacy/`, `exec/`) | snapshots on the volume, revisions in the storage | one child process each | (they are the environment of the executor) |
| planner and config commands (`workflow/planner.go`, `config_commands.go`) | none; it reads two files that may change | builds a `Plan` from flags, configuration and secrets; `validate`, `explain`, `paths` | a plan that is executed has been validated; what `validate` passes is not refused later; a refused backup is told |
| configuration, secrets, storage value (`config/`, `secrets/`, `duplicacy/storage.go`) | none | merge tables, validate, load secrets | the most specific setting wins; values are in range |
| health (`health/`) | a `Report` | `status`, `doctor`, `verify` | the report is true, the exit code is the worst of its checks, whoever is configured is told |
| restore (`restore/`) | a workspace directory with preferences, an interrupt tracker | `plan`, `list-revisions`, `run`, `select`, interrupt handling | what is reported as restored is there; what was written before an error or a signal is told; Ctrl-C ends it |
| restore picker (`restorepicker/`) | a tree of marked entries | toggle, expand, compile to paths | parents' marks agree with their children; the compiled paths are the chosen files |
| update and rollback (`update/`, `scripts/install-synology.sh`) | versioned binaries, the link `current`, the link `.current.rollback` | `update`, `rollback`, `install.sh` | the stable command always runs; there is a version to go back to |
| notify (`notify/`, `workflow/notify.go`) | none | build a payload, send it to each provider | every event that asks for it goes to every provider, whatever the others answer |
| logger, command line, presentation, operator messages, errors | log files with retention | parse, route, print | |

### How they interact

```
 cron / operator --> cmd/duplicacy-backup --> planner --> Executor.Run ----+
                                                |                          |
      signal --> handler goroutine --> cleanup  |      btrfs, duplicacy (child processes)
                          |                     |                          |
   +----------------------+--------+            v                          v
   v          v           v        v        health ---- inspectLock --> lock directory
 locks   state file   snapshot  notify <-----+ |                     snapshot, storage
              ^                    ^           |
              +--------------------|- updateHealthCheckState
                                   |
      configuration, secrets ------+----> planner, health, restore
      restore --> picker --> compiled paths --> duplicacy restore --> workspace
```

Several processes run at once: cron may start backups of several storage
entries of one label together, an operator may start a health command, a restore
or an update at any time. They only meet in the file system (locks, state files,
snapshots, the install root) and in the storage. Inside one process, the signal
handler's goroutine runs `cleanup()` on the same `Executor` as the main
goroutine, with no synchronisation.

### What is hard

* **Two goroutines, one `Executor`.** `cleanedUp`, `exitCode` and the report are
  read and written by both (`executor.go:109`, `cleanup.go:10`).
* **Child processes outlive their parent.** Commands get `context.Background()`;
  the handler exits while they run. The model lets a signal reach the program's
  process only, as `kill` does; a signal typed at a terminal reaches the
  children too.
* **A lock made of several system calls.** Directory first, pid later; stale
  locks are broken by the next caller (`lock.go:99-135`). Pids are reused.
* **Read, change, write without a lock.** The state file (`state.go:127`) and
  the install root have no lock at all.
* **Check, then act.** The prune that runs is not the one that was previewed
  (`prune.go:46`); a rollback activates what it planned before the prompt; verify
  lists the revisions with one command and checks them with another
  (`health/checks.go:199`); a refused run reads its configuration twice
  (`planner.go:68`).
* **Stopping half-way.** A restore of several paths may fail at any of them or be
  interrupted, by a goroutine that reads what the main one writes
  (`restore_interrupt.go:37`), and leaves its workspace to the next command.
* **Long sequences.** Toggling in the picker must keep the marks of every ancestor
  in line with what is taken (`restorepicker/tree.go:97`).
* **Dying anywhere.** SIGKILL, a power cut, or a full disk between any two steps.
* **Boundaries.** Percent thresholds on small counts, `--keep 0` and `--keep 1`.

Every such place is listed under `hazards` in `PROJECT.json` at the line where
it bites, with the properties about it.

## 2. The modules

```
 Mutex  <---- refined by ---- DirLock             MCDirLock      DirLockProofs
   ^                                              (instances     (theorems)
   +--------- refined by ---- Executor            MCExecutor      ExecutorProofs
                                 .                for TLC)
                                 . "preview" .. "prune" in detail
                              SafePrune           MCSafePrune    SafePruneProofs
 StateStore <-- refined by -- RunState            MCRunState     RunStateProofs
                              Install             MCInstall      InstallProofs
 Notify <------ extended by -- Health             MCHealth       HealthProofs
                 PickerTree <- extended by
 Selection <--- refined by --- Restore            MCRestore      RestoreProofs
 Settings <---- extended by -- Planner            MCPlanner
```

Names of actions and variables are those of the code wherever it has one; the
`map` of `PROJECT.json` gives the source lines of each definition. Definitions
that follow a comment `Mutant:` are wrong on purpose. No specification uses
them; they stand beside the right one as examples of bugs that the properties
detect.

**Mutex** is what a lock promises: a set of holders that never has two members.

**DirLock** is `lock.go` at the grain of its system calls, for one lock path:
`mkdir`; read `pid`; look for `/proc/<pid>`; the three calls `os.RemoveAll`
makes; `chown`; create the pid file; write it. Each is an action, so another
process may run, or the process may die (`Die`), between any two. `Start`
reuses the pid of a dead process, `ForeignStart` gives it to an unrelated one.
`linked` records whose open file the name `pid` refers to, since a pid may be
written into a file that was unlinked in between. `InspectStat`, `InspectRead` and
`InspectProcess` are the three steps of the health commands' `inspectLock`; any call of
another process may come between them. The history variable `history` says
whether two calls of `Acquire` and `Release` have overlapped so far, `lull` whether
nobody has held the lock at some instant of the inspection under way.

**Executor** is one process per element of `Run`, all for one label: its request,
its two goroutines (`pc[r]["main"]`, `pc[r]["sig"]`), the child each waits for,
the fields of `Executor` that control the flow, and what it leaves in the file
system. `MainStep` follows `Run` from the confirmation over both locks and the
set-up to the commands; `CleanupStep` is `cleanup()`, by either goroutine;
`Interrupt` is the arrival of the first signal, `Kill` that of SIGKILL. A command
is `StartCommand` and later `CommandEnds`, with success or failure, also after
its process is gone. Locks are taken and released in one step here. That this is
justified as long as calls do not overlap is what DirLock shows; where the two
levels differ is finding 1 below. The call may fail: an `Acquire` then leaves
whoever was on record, nobody, or the caller itself (`LeftOnRecord`: the `chown` of the
pid file comes last), and a `Release` leaves the lock (`AfterRelease`), which nobody
hears of. `warned` names what a process has warned of, one by one. `Leave` is the exit of
the process and not the return of `Run`: a JSON summary that cannot be written turns
0 into 1. A dry run takes its locks, executes no command and creates nothing.

**SafePrune** opens up the executor's steps from `preview` to `prune`: the storage
is a set of revisions, the retention policy expires all up to a horizon, and
`StorageMoves` lets other hosts and the time change both, at any point. The
preview, the count, the thresholds and `--force` are those of the code,
arithmetic included. `still` says whether the storage has been at rest since the
preview.

**StateStore** is what the state file promises: updates are applied one after the
other, each as a whole. **RunState** is what `mutateRunState` does: load; apply;
open with `O_TRUNC`; write. Fields are grouped by the updates that set them, and
the value of a group is the update that set it last; that is enough to tell
whether an update was lost, torn or mixed. Two writers may leave garbage; `Stop`
ends a process or fails its write.

**Install** is the install root: for each version, its rank by age (0 if it is not
installed), the links `current` and `.current.rollback`; and the stable command's link in the
bin directory (`stable`). A session is an
`update` (plan, fetch, then the script), a `rollback` or an `install.sh` that
somebody runs by hand. Each file system operation is a step; `Stop` ends a session
anywhere. The script runs `ln -sfn` for `current` and then for the stable link. Each
replaces its link in one step or in two (implementations do either), and `Cut` ends it
between them. `history` says whether sessions have
overlapped, and whether one that prunes has. `undo` remembers what the last
update replaced, for `UpdateKeepsFallback`.

**Notify** is `notify/delivery.go` with its callers for `notify test` and for
updates: who wants to hear of what (`Wanted`, `Destinations`), and the delivery,
one provider after the other (`Begin`, `Attempt`). An attempt reads a token, which
may be missing, unreadable or invalid, and makes one request, which is accepted,
rejected, not delivered, or delivered without an answer. `inbox` is what the
receivers know, `delivered` what the sender knows. **Health** is its third caller
and `health/`: `run()` is cut at every point where the storage may change under
it. `Start`, `Prepare`, `ReadState`, `SetUp`, `List` and its failures, `DoctorChecks`,
`Check` and its failures, `RecordRun`, `Conclude`, `Attempt` per provider,
`FinishDelivery`. Duplicacy's check prints, for every revision, any part of the
truth and never the opposite of it. `Backup`, `Prune` and `Damage` are the other
processes and the disk. `Exit` also stands for a kill: a health command holds
nothing that outlives it but the files of `prepare.go` (section 5).

**PickerTree** is the tree of `restorepicker/`: a node is a sequence of names,
`marks` is `Node.Selection`, and `UpdateAncestors` is the loop from the parent to
the root, written as a recursive function. `CompileSelection` is the walk of
`compile.go`. **Selection** is what all of it promises: a set of offered files, a
set of chosen ones, and an outcome. **Restore** extends the tree with the commands:
from `Start` over the answers of the operator (`SelectPaths`, `Toggle`, `Commit`,
`Decline`, `Confirm`) to one round per path (`BeginPath`, `PrepareWorkspace`,
`WritePreferences`, `Own`, `Exec`, `Return`, `Succeed`, `Completed`), and `Exit`. The
duplicacy process writes one file at a time (`DuplicacyWrites`) and ends well or
badly whenever it likes. `Signal` is a Ctrl-C, which also reaches duplicacy;
`Tell` and `CancelContext` are the goroutine of `restore_interrupt.go`, `KillChild` is
what `os/exec` does about a cancelled context; `Crash` is a power cut. Workspaces
and their preferences stay, and the next command finds them.

**Settings** is a configuration file as functions from keys to values, so that a
table over another is the operator `Over`; its operators are the merge, every `Validate...` of
`config.go`, the storage value and the secrets file. **Planner** is the sequence:
`Build` (`ValidateEnvironment`, `LoadConfig`, `CheckHost`, `ReadSecrets`), `Refuse` with its
second reading of the file, and `config validate`, `explain` and `paths`. `Edit` lets
the operator save another file between any two steps. `vouched` remembers what
`validate` has passed since the last edit.

### How the modules fit together

What one module takes for granted another one shows. Executor and SafePrune start
from any plan with thresholds in range; `PlanFits` of Planner is that assumption,
for every plan that is handed over. Health treats the state file and the lock as
readings of any outcome; RunState and DirLock say which there are. Notify assumes
that no policy asks for the status "healthy" (`PoliciesAssumption`); `ValidateNotify` in
Settings is why. Executor decides that a run notifies (`Notifiable`), Planner that a
refused one does (`Refuse`), and Notify delivers.

### History variables

Several guarantees hold only while processes do not step on each other. Rather
than forbid the interleavings, the models let them happen and remember that they
did (`history` in DirLock and Install, `serial` in RunState, `still` in
SafePrune, `steady` in Planner). A property then says from when on it is void: `serial => ...`. Where
nothing is void, the property has no such premise (`LiveHolderUndisturbed`,
`AlwaysCoherent`, `DeletesOnlyApproved`, `SuccessIsTrue`).

## 3. What TLC checks

| run | instance | states | what it shows |
| --- | --- | --- | --- |
| `lock` | 3 processes, chown may fail | 85 thousand | `SerialInv`: what every position in `Acquire` and `Release` knows about the directory; `RefinesMutex`: it implements Mutex; `InspectSound`: a lock that is held all through an inspection is not reported absent or stale, wherever the inspection falls in the calls of others, as long as those have not overlapped each other; `LiveHolderUndisturbed`: even under overlap, nobody disturbs a holder whose pid is on record and who has been seen |
| `exec_runs` | 2 runs, 2 storage entries, kills | 5.1 million | `UndisturbedExclusive`: one repository phase per storage; `BackupReadsSnapshot`; `CreationSerialised`, `DeletionSerialised`: one snapshot is created or deleted at a time, unless a cleanup has warned; `CleanExit`: a snapshot or work directory that is left is told; `ExitMatchesRecord`; `FailedBackupNotifies`; `RefinesMutex`: the lock on record follows the mutex |
| `exec_signals` | 1 run, signals and kills, fair handler | 93 thousand | `SuccessIsTrue`: success is reported only if the operation succeeded; `DryRunInert`: a dry run starts nothing that changes the storage or the volume and writes nothing but its locks; `InterruptEnds`: an interrupted process ends |
| `state` | 3 updates of 7 kinds | 41 thousand | `AlwaysCoherent`: the recorded fields agree with each other, whatever overlaps or dies; `SerialFocusedMutation`: one at a time, no update drops another's fields, even after deaths; `NeverRefused`, `RefinesStore`: undisturbed, it implements the store |
| `prune` | revisions 1 to 4, 48 threshold combinations | 563 thousand | `DeletesWithinLimits`: an unforced prune of a storage at rest stays within the thresholds; `DeletesOnlyApproved`: of a moving one, it deletes only after a complete and acceptable preview |
| `install` | 3 versions, 2 sessions, `--keep` 0 to 2 | 849 thousand | `ActiveRuns`: both links of the stable command resolve, unless ln is or was cut off at that very link; `KeepsNewest`: pruning spares the active binary and the newest ones; `UpdateKeepsFallback`: after an update there is a version to go back to; `RollbackAsPlanned`: a rollback activates what it announced |
| `health` | 2 revisions, 2 policies, ages 0 to 3 | 661 thousand | `VerdictTruthful`: a passed integrity check is true of every listed revision, whatever happens between listing and check; `VerifyExplained`: every path of `verify` that ends otherwise is unhealthy; `AlertsAsConfigured`: every configured destination is tried, whatever the others answer; `NotificationKeepsVerdict`: the exit code does not depend on the delivery |
| `restore` | 3 files, 2 storage entries, 2 commands, fair goroutines | 485 thousand | `ReportMatchesWorkspace`: what is reported as restored is on the disk in the version asked for; `InterruptMessageTrue`: what an interrupt prints was done; `InterruptEnds`; `RefinesSelection`: marks, toggles and compiled paths are the set of files the operator chose |
| `plan` | 16 configurations, 5 secrets files, 5 hosts, 2 commands, 1 edit | 1.6 million | `PlanFits`: a plan that is handed over keeps what executor, prune and health take for granted, and every setting is the most specific one; `ValidatedIsPlanned`: what `validate` passes is refused only for what it does not look at; `RefusalIsTold`: a refused backup is notified where the file asks for it |

`lock`, `exec_runs`, `state` and `install` also check `TypeOK`; the types of SafePrune,
Health and Planner are theorems, and RestoreProofs has those of Restore that its
proofs need. Three more runs show a violation (section 5).

### Bounds, and why they are enough

* **Lock, three processes.** A bad interleaving needs one process that left a
  lock, one that breaks it and one that comes between. The inspection is a fourth party
  that only reads. Pids are finite because
  they are reused; the number of calls is not bounded.
* **Executor, two runs.** Exclusion, takeover and cleanup concern pairs of
  processes. Two storage entries let two runs meet in the source lock only, or in
  both locks. Two runs together are backups or prunes (`PairRequests`): to another
  process `cleanup-storage` is a prune with other commands, and a dry run, which starts
  no command, only its locks. Those two kinds run alone, beside the others, in
  `exec_signals`, and the theorems cover every mix. Signals
  are checked on one run: the properties of that run concern one process with
  two goroutines. What signals do to a second run is finding 2; what a process does to the end
  (`BackupReadsSnapshot`, `CleanExit`, `ExitMatchesRecord`, `FailedBackupNotifies`) is
  stated for one that no signal has reached (`Uninterrupted`). A process starts
  once; one that starts later stands for its restart.
* **State, three updates.** A lost update needs one to load, one to save and one
  to notice. A process makes one update, as in the code.
* **Prune, four revisions.** `MCLimit` has, for every threshold, values that the
  storage stays below, meets exactly and exceeds: counts 0, 1, 2 and 9,
  percentages 0, 33 (not a whole share of any small number), 50 and 100, minimum
  totals 0, 3 and 4.
* **Install, three versions.** The active one, the one it replaced, and one that is
  neither. `--keep` 0 keeps all, 1 keeps nothing to go back to, 2 is the
  default of `update`. The run stops exploring once sessions contend (`CONSTRAINT
  Calm`), because by then every property is void, forever.
* **Health, two revisions.** One that was listed, and one that comes or goes before
  the check. Ages 0 to 3 lie below, between and above the two thresholds 1 and
  2. One policy tells two providers, so that one may fail beside the other, the
  other policy tells one on a terminal too. Commands follow each other without
  a bound, since a command leaves nothing but the storage behind.
* **Restore, three files.** At three depths, so that a toggle has a sibling, an
  ancestor with a partial mark and one that becomes full; the prefixes are
  none, a directory and a file. A selection has up to two paths: one to be
  restored and one to fail. The second of two commands meets what the first
  has left: a workspace of the same or of the other storage, cut short or not.
  Revisions of a version only matter by being another one, which the other
  storage is.
* **Plan.** One good configuration and, for each validation, a file that fails it
  alone, or whose error is hidden by the more specific table; likewise for the
  secrets and the host. Two commands are a `validate` and the run it speaks
  of; one edit comes between any two steps of either.
* Symmetry is used in safety runs only, over sets whose members `Init`, `Next`
  and the properties treat alike.

`CHECK_DEADLOCK FALSE` stands where the system stops on its own: all runs have
ended, all updates are done, all sessions were cut off, or the bound on commands
is reached. DirLock and Health never stop and are checked for deadlock.

### Fairness

Two specifications assume fairness.

`HandlerSpec` of Executor: weak fairness of the handler's goroutine and
of the command *it* waits for (`btrfs subvolume delete`). The Go scheduler runs a
runnable goroutine, and the deletion of a subvolume returns. Nothing is assumed
of `Run()` or of the command that it waits for, so `InterruptEnds` holds even if
Duplicacy hangs: the handler does not wait for it.

`FairSpec` of Restore: weak fairness of the main goroutine once the restore has
been confirmed (`Work`), of the interrupt goroutine (`Handler`), and of the kill that
`os/exec` sends when a context is cancelled (`KillChild`). All three only need the
Go scheduler and the kernel. Nothing is assumed of the operator, who may never
answer, nor of Duplicacy, which may hang: `InterruptEnds` then rests on the kill.

### Mutants

For every property of a passing run, `PROJECT.json` names a wrong definition that
makes the run fail. They are bugs that this code could have had: a lock that
trusts nobody's pid, a count failure treated as an empty storage, a
percentage that is divided before it is compared, a file opened without
`O_TRUNC`, a snapshot taken without its lock, a prune that does not spare the
binary in use, a delivery that stops at the first failure, an error of Duplicacy
that is dropped, a toggle that only the parent hears of, a merge in the wrong
order.

## 4. What TLAPS proves

Every safety property, action property and refinement that a passing run checks is a
theorem. The theorems hold for any number of processes, storage entries, versions
and revisions, any thresholds, retention and notification policies, any
configuration and secrets files, hosts and edits, any listing and any sequence of
commands. They rest on the named assumptions
of the modules only: markers such as `NoFile`, `Free`, `Nobody`, `Lost`, `None`
are no pids, runs, updates or versions (`PidAssumption`, `FreeAssumption`,
`NobodyAssumption`, `LostAssumption`, `NoneAssumption`), thresholds are natural
numbers and percentages (`LimitAssumption`), bounds are natural numbers
(`BoundAssumption`, `BoundsAssumption`, `VersionAssumption`, `KeepAssumption`),
switches are Boolean (`OwnerAssumption`, `HazardAssumption`), a policy names
providers and does not ask for healthy reports (`PoliciesAssumption`), a listing is
finite, its paths and the prefixes of a restore are sequences of names, and no path
is below another
(`OutputAssumption`, `ListingAssumption`, `PrefixesAssumption`), no storage entry is
called like a state of a preferences file (`StorageAssumption` of Restore), the numbers
of a configuration file are integers (`FilesAssumption`), no keys of a secrets file are
mistaken for their absence (`SecretsAssumption`), and there is a storage to ask for
(`StorageAssumption` of Planner).

| module | theorem | says | rests on |
| --- | --- | --- | --- |
| DirLockProofs | `TypeCorrect` | `[]TypeOK` | |
| | `SerialInvariant` | `[]SerialInv` | inductive with `TypeOK` |
| | `SerialMutualExclusion` | while calls do not overlap, one holder | `SerialInv` |
| | `SerialRefinesMutex` | the directory implements Mutex | `SerialInv` |
| | `HolderProtected` | `LiveHolderUndisturbed` | `TypeOK`, one case per system call |
| | `InspectionIsSound` | `InspectSound` | `SerialInv`, `InspectInv` |
| ExecutorProofs | `TypeCorrect` | `[]TypeOK` | |
| | `LocksAreMutexes` | `RefinesMutex` | `TypeOK` |
| | `LockInvariant`, `OneRepositoryPhase` | `[]LockInv`, `[]UndisturbedExclusive` | `LockInv` |
| | `SuccessInvariant`, `SuccessReportedTruly` | `[]SuccessInv`, `[]SuccessIsTrue` | `SuccessInv` |
| | `AloneInvariant` | `[]AloneInv` | inductive with `TypeOK` |
| | `SnapshotStands`, `LeavesNothing` | `[]BackupReadsSnapshot`, `[]CleanExit` | `AloneInv` |
| | `ExitTellsRecord`, `FailureIsTold` | `[]ExitMatchesRecord`, `[]FailedBackupNotifies` | `AloneInv`, `SuccessInv` |
| | `CreatorInvariant` | `[]CreatorInv` | inductive with `LockInv` |
| | `OneSnapshotAtATime`, `DeletionIsSerialised` | `[]CreationSerialised`, `[]DeletionSerialised` | `CreatorInv`, `LockInv` |
| | `DryRunsAreInert` | `DryRunInert` | `DryInv` |
| RunStateProofs | `TypeCorrect`, `StateIsCoherent` | `[]TypeOK`, `[]AlwaysCoherent` | `CoherentInv` |
| | `SerialUpdatesAreFocused` | `SerialFocusedMutation` | `SerialInv` |
| | `UndisturbedNeverRefused`, `FileRefinesStore` | `[]NeverRefused`, `RefinesStore` | `SerialInv`, `Undamaged` |
| SafePruneProofs | `TypeCorrect` | `[]TypeOK` | |
| | `OnlyApproved` | `DeletesOnlyApproved` | `Cleared` |
| | `WithinThresholds` | `DeletesWithinLimits` | `Measured`, `Cleared` |
| InstallProofs | `TypeCorrect` | `[]TypeOK` | `KindInv` |
| | `StableCommandRuns` | `[]ActiveRuns` | `CalmInv` |
| | `RollbackKeepsItsPlan` | `RollbackAsPlanned` | `CalmInv`, `OneAtATime` |
| | `RetentionInvariant` | `[]RetentionInv` | inductive with the above |
| | `PruningKeepsNewest` | `KeepsNewest` | `RetentionInv` |
| | `UpdateLeavesFallback` | `UpdateKeepsFallback` | `RetentionInv` |
| HealthProofs | `TypeCorrect` | `[]TypeOK` | |
| | `Explained` | `[]VerifyExplained` | `HealthInv` |
| | `Truthful` | `VerdictTruthful` | `TypeOK` |
| | `AlertsSent`, `VerdictKept` | `AlertsAsConfigured`, `NotificationKeepsVerdict` | `HealthInv` |
| RestoreProofs | `RestoreInvariant` | `[]RestoreInv` | |
| | `ReportTrue` | `[]ReportMatchesWorkspace` | `RestoreInv` |
| | `MessageTrue` | `InterruptMessageTrue` | `RestoreInv` |
| | `PickerRefines` | `RefinesSelection` | `PickInv` |
| PlannerProofs | `PlannerInvariant` | `[]Inv`, with the types | |
| | `PlansFit` | `[]PlanFits` | `BuildInv` |
| | `ValidationIsKept` | `[]ValidatedIsPlanned` | `ReadInv`, `VouchInv`, `ExcuseInv` |
| | `RefusalsAreTold` | `[]RefusalIsTold` | inductive with `EndInv` |

Why none of the properties is inductive by itself, and what is added:

* *DirLock.* That there is one holder says nothing about a process that is just
  about to remove the directory. `SerialInv` says, for every position, what the
  process there knows: a creator has the directory to itself (`CreatorAlone`), a
  holder is on record (`OwnerRecorded`), and who breaks a lock breaks nobody's
  (`BreakerSafe`). `InspectInv` carries that through an inspection: if somebody has
  held the lock at every instant of it so far, it is the process whose pid was read,
  since a change of holder needs a moment without one.
* *Executor, exclusion.* `OnRecord`: from `AcquireTargetLock` to its cleanup an
  undisturbed process is the one on record, and it waits for the command it
  started. Two of them on one storage would both be on record.
* *Executor, one process to its end.* As long as no signal has come, `AloneInv` ties the
  position of the main goroutine to what exists: which locks are held
  (`Placed`), what is on record and notified (`Recorded`, `Announced`), that the snapshot
  stands from its creation to its deletion (`Standing`), and what cleanup has
  removed or warned of so far (`Tidied`). A step of another process touches none of
  this and takes no lock for it. That who creates a snapshot, or deletes one without
  having warned, is on record in the source lock is `CreatorInv`, and that a dry run owns nothing, interrupted or not, `DryInv`.
* *Executor, truth.* `SuccessInv` relates the position of each goroutine to the
  exit code, the error and the phase; it survives the races on them because the
  exit code is never set back to 0 and a result is computed from it before it is
  saved.
* *RunState.* The states in memory are coherent too (`CoherentInv`), and while
  updates take turns the one in progress was computed from what is on record
  (`SerialInv`).
* *SafePrune.* What was measured is what is there (`Measured`), and what reaches
  the deletion was not blocked (`Cleared`). The last step is arithmetic: the
  cross-multiplied comparison is the percentage.
* *Install.* A link that does not resolve has a session between the two steps of its `ln`,
  or stopped there (`Resolves`). While sessions are calm, one that prunes is alone; what the others have
  chosen is installed, and what is about to be removed is not active (`CalmInv`).
  Sessions that take turns own the temporary link they rename (`OneAtATime`). For
  retention, the ranks of the installed versions have no two alike (`Ranked`), what a
  script has yet to prune is older than what it keeps (`OnlyOld`), and an update
  that prunes keeps a version next to the active one all along (`KeepsFallback`).
* *Health.* That a verdict is explained at the end depends on every check before it:
  whatever went wrong is an error in the report and each code is counted (`Coded`),
  a `verify` past its check has an error or passed without a code (`Checked`), the
  status is that of the issues from the delivery on (`Final`), and the destinations
  of a delivery are those still queued, delivered or failed, of which the delivered
  have the message (`Sending`).
* *Restore.* `ReportMatchesWorkspace` is lost by the next step unless one also knows where the
  command is (`Placed`), that only the last path can have failed (`Ended`), that a
  workspace named after a storage has no other one's preferences (`Named`), and
  that a duplicacy that ended well has written everything it was asked for
  (`Written`), also for commands that start in a workspace another one left. For
  what an interrupt prints, `Tracked` says that the tracker is one behind between a
  report and `setCompleted`, which is why the number told may be one too low, and
  never too high. That needs the paths to be finite, hence four lemmas from
  the finite listing to the compiled selection.
* *Picker.* `PickInv`: the mark of every node is told by the chosen files below it. What a
  toggle must preserve is computed by a recursive function on the path to the root.
  Its value is not found by induction but by existence and uniqueness: the marks
  of the new set solve its equation, and two solutions would differ first at some
  least depth (`Least`, from the well-foundedness of the naturals). A compiled
  pattern then restores its branch and no more, because nothing is offered
  outside the prefix.
* *Planner.* `PlanFits` looks back at every check of `Build`: `BuildInv` says what the run has passed at
  each step, in the file as it was read. Without an edit what was read is what
  is there (`ReadInv`), and what `validate` has passed is valid in the files as
  they are (`VouchInv`), so that a refusal has an excuse as soon as it is on its
  way (`ExcuseInv`).

Each proof has one step per action. Strengthenings were checked with TLC before
they were proved. The steps of one action are split where the prover needs it,
and facts used in several places are lemmas (`OthersRely`, `MoveRely`, `EndRely`
in InstallProofs, `RevisionsCount`, `NotBlockedIsWithin` in SafePruneProofs).

Only model-checked: `InterruptEnds` of Executor and of Restore, which is liveness under
fairness and out of the prover's reach, and the three violations, which are
refuted and not proved.

## 5. Where the code and its documents disagree

Each of these has a run whose expected outcome is a violation.

1. `lock_overlap`. Two overlapping `Acquire` calls can both succeed: the
   directory exists before the pid is in it, and the second caller removes it
   as stale (`lock.go:117`). `lock.go:2` promises that "mkdir atomicity" prevents
   concurrent runs. The window is a few system calls wide.
2. `exec_orphan`. After a signal the repository lock is released and the process
   exits while its `duplicacy` command still runs; the next run starts a second
   one on the same storage. `docs/how-it-works.md:450` describes one lock per
   repository phase.
3. `state_lost_update`. An update of the state file that overlaps another one
   writes back what it loaded before; `docs/how-it-works.md:453` describes one
   "focused mutation".

Also against the documents, seen while modelling and kept in the models as it
is, without a run of its own:

* *Cleanup cut short.* The goroutine that finds `cleanedUp` set ends the process
  (`cleanup.go:10-12`) before the other one has removed the work directory, which holds
  the storage secrets. `docs/how-it-works.md:863` calls the cleanup safe to call more
  than once. `CleanExit` is stated for a process that is not interrupted.
* *Dry runs of prune.* `docs/how-it-works.md:308-310` says that `prune --dry-run` "runs the
  safe-prune preview and reads snapshot/revision metadata", and `docs/cli.md:201` that it
  "reads revision metadata". The code prints the commands and runs none of them
  (`prune.go:14-25`, `duplicacy.go:590-592`); the preview is empty. `DryRunInert` forbids only what
  both agree on: a command that changes the storage or the volume.
* *Maintenance that fails early.* A prune or storage cleanup that fails in its
  set-up is in no tracked phase (`executor.go:159-163`) and sends no notification,
  although `docs/configuration.md:133-135` promises one for "those failure events". The
  same goes for one that the planner refuses (`runtime_notify.go:50`).
* *Rollback without a version* activates the highest retained version that is not
  active (`rollback.go:102-126`), which need not be the one the last update
  replaced; `docs/operations.md:94` says it undoes the last update.
* *Prune policy.* `docs/configuration.md:517` says that `config validate` and prune check
  its syntax; only `config_commands.go:84` does, and the planner does not. A policy
  of blanks passes `ValidateRequired` and means no retention at all.
* *Advice to use sudo.* A notification may advise `sudo` for a remote repository
  (`delivery.go:588`), which `docs/how-it-works.md:763-767` governs by its credentials.

No text of the repository claims the opposite, or the premise of a property
names it:

* a lock whose pid belongs to an unrelated process counts as held until that ends;
* a lock may be left in silence: the results of `Release` are dropped (`cleanup.go:65`, 130,
  `executor.go:315`) and its removal may fail (`lock.go:150`); an `Acquire` that fails at the last
  `chown` leaves the lock with its own pid (`lock.go:157`), which the cleanup does not
  release. `CleanExit` therefore speaks of snapshots and work directories only; the next
  run takes the lock over once the process has ended;
* a run whose JSON summary cannot be written exits with 1 although "success" is on
  record, and notifies nobody (`dispatch.go:285-287`, 299-307); `ExitMatchesRecord` and
  `FailedBackupNotifies` name that case (`SummaryLost`). The health commands turn 0
  into 2 in the same way (`dispatch.go:309-317`); `NotificationKeepsVerdict` is about the
  delivery only;
* a direct root login that is refused, and a run whose logger cannot be opened, send no
  notification; they are not among the refusals of `RefusalIsTold`, which begin with the planner;
* after a signal the handler deletes the snapshot under the running backup
  (`BackupReadsSnapshot` is about processes that are not interrupted);
* a process that dies between emptying and writing the state file leaves a file that
  every later update refuses (`NeverRefused` says when that cannot happen);
* what expires between preview and prune is deleted on top of what was approved
  (`DeletesWithinLimits` says `still`);
* an update after a rollback may prune the version that was active before it,
  since binaries go by age: what remains to go back to is the newest other one;
* an update that prunes while a rollback is under way may remove its target;
* a health command that fails in its set-up, or is killed, leaves its work
  directory with the secrets (`health/prepare.go:63`);
* a given workspace with the preferences of another storage is restored from
  that one (`restore_workspace.go:373`); `ReportMatchesWorkspace` therefore compares it with
  the storage its preferences name, unless the program has named it;
* a crash while the preferences are written leaves a workspace that counts as
  prepared and fails every later restore;
* Ctrl-C that ends duplicacy before the handler has run is reported as "Failed",
  not as "Interrupted" (`Return`);
* a select whose workspace is refused reports the path as "Completed"
  (`restore_command.go:399-407`), with an error exit;
* a full restore below a prefix that is a file asks for `file/*`, which matches
  nothing and is reported as restored (`restore_command.go:264-274`);
* secrets that belong to the operator are refused for a direct root login;
* the planner loads the secrets and does not check that the storage has those it
  needs; `config validate` does.

## 6. Not modelled

* **Formatting, usage texts, presentation and messages**: sequential code without
  state. That includes the drawing, cursor and scrolling of the picker's
  `app.go`, the text of notifications, and reports of `health` and `restore` beyond what a
  property speaks of.
* **Parsing** of flags, TOML and of commands' output. A file is what its tables say, or
  cannot be read; a count or a listing is a number, a set or a failure. A listing
  without a line the program can parse counts 0 revisions and switches the
  percentage off; saying more needs a model of that text.
* **Lock names.** Label and storage are joined by a hyphen; that two pairs may
  share a name is a matter of strings. Names are model values here.
* **Paths of profiles, workspaces and logs**, their permissions and ownership,
  except where a failing `chown` leaves a lock or a result behind, and where the
  owner of the secrets decides who reads them. That a workspace inside the
  live source is refused is a comparison of path strings.
* **The logger** and the retention of its files, and `diagnostics`, which only reads.
* **Downloading and verifying a release**: one step of Install that succeeds or fails.
  The configuration of the application itself is used for update notifications
  only, as a policy of Notify.
* **Names that Duplicacy reads as patterns.** `compile.go:111-116` passes a chosen file's name
  as it is; one with a wildcard of Duplicacy's in it may match other files. Names are model
  values here and match themselves.
* **Two versions in one given workspace.** The run `restore` has one revision, so versions differ
  by storage only; `ReportTrue` is proved for any number of revisions.
* **Release, CI and packaging scripts**, which run outside the program.

## 7. What could come next

1. **System**: Executor, RunState and Health together, so that two runs and a
   health command share one state file and one storage.
2. **Names**: lock keys over short strings of letters and hyphens.
3. **Notify** for its other callers: the theorems about delivery are stated for health
   commands, and `notify test` and updates only differ in what they conclude.

## 8. Running it

```
tlc -config lock.cfg MCDirLock.tla             # the module of each run is in PROJECT.json
tlapm InstallProofs.tla
```

`exec_runs`, `restore` and `plan` take a minute or two, every other run about one or
less. Every proof module is checked in a few minutes;
RestoreProofs takes longest.
