------------------------------ MODULE Executor ------------------------------
(***************************************************************************)
(* internal/workflow executor.go, cleanup.go, prune.go: the life of one    *)
(* backup, prune or cleanup-storage process, with any number of others for *)
(* the same label, its deferred cleanup and its signal handler.            *)
(*                                                                         *)
(* A process has two goroutines that touch the Executor: "main" runs       *)
(* Run(), and "sig" waits for the first SIGINT, SIGHUP or SIGTERM.  Both   *)
(* end in cleanup().  The btrfs and duplicacy commands are child           *)
(* processes: exec.Runner starts them with context.Background(), so they   *)
(* outlive the process that started them.                                  *)
(*                                                                         *)
(* The locks are taken and released in one step; DirLock shows when that   *)
(* is what the lock directory does.  A lock left by a process that is gone *)
(* can be taken; one recorded for a live process, even the process itself, *)
(* cannot.  An Acquire that fails may leave its own process on record, and *)
(* a Release may leave the lock as it is, in silence.                      *)
(*                                                                         *)
(* Left out: log files, terminal output other than the warnings that the   *)
(* properties name, and which notification destinations are configured     *)
(* (all are, for every event).                                             *)
(***************************************************************************)

CONSTANTS
  Run,      \* the processes, all for one source label
  Storage,  \* the label's storage entries
  Asked,    \* what a process may be asked to do: operation, dry run, storage entry
  Free,     \* nobody's lock
  Signals,  \* a running process may receive a signal it handles
  Kills     \* a running process may be killed outright (SIGKILL, power loss)

Op == {"backup", "prune", "cleanup-storage"}

ASSUME AskedAssumption == Asked \subseteq [op : Op, dryRun : BOOLEAN, storage : Storage]
ASSUME FreeAssumption == Free \notin Run
ASSUME HazardAssumption == {Signals, Kills} \subseteq BOOLEAN

VARIABLES
  req,     \* what each process was asked to do
  proc,    \* how far each process is: started, alive, or how it ended
  pc,      \* the next step of each of its goroutines
  child,   \* the command each goroutine has started and that still runs
  cleanedUp, acquired, exitCode, lastErr,  \* fields of the Executor
  phase,   \* its report: how far the tracked phase of the operation is
  result,  \* its report: Result, "success" until CompleteRun says otherwise
  held,    \* <<process, goroutine>> pairs whose cleanup took the source lock
  source,  \* the label's source lock: who is on record
  target,  \* the storage entries' repository locks
  snapshot, workRoot,          \* what each process has in the file system
  recorded, notified, warned   \* what each told: state file, notification, warnings

report == <<phase, result>>
ex     == <<cleanedUp, acquired, exitCode, lastErr, report>>
locks  == <<held, source, target>>
disk   == <<snapshot, workRoot>>
out    == <<recorded, notified, warned>>
vars   == <<req, proc, pc, child, ex, locks, disk, out>>

Thread == {"main", "sig"}

\* The commands that work on the storage; the other two work on the volume.
Duplicacy == {"backup", "list", "preview", "count", "prune", "exclusive"}
Btrfs     == {"create", "delete"}

SetupLabel   == {"confirm", "lock", "locked", "source", "create", "unsource",
                 "unsourceErr", "dirs", "prefs", "perms"}
CleanupLabel == {"check", "mark", "sourceAgain", "delete", "removeDir",
                 "sourceDone", "work", "unlock", "report", "notify", "save", "after"}
Label        == {"wait", "enforce"} \cup SetupLabel \cup Duplicacy \cup CleanupLabel

\* What a process warns of: the source lock it cleans up without, the snapshot and
\* the work directory it could not remove, the JSON summary it could not write.
Warning == {"source", "snapshot", "work", "summary"}

ExType ==
  /\ cleanedUp \in [Run -> BOOLEAN]
  /\ acquired \in [Run -> BOOLEAN]
  /\ exitCode \in [Run -> {0, 1}]
  /\ lastErr \in [Run -> BOOLEAN]
  /\ phase \in [Run -> {"none", "running", "success", "failed"}]
  /\ result \in [Run -> {"success", "failed"}]

OutType ==
  /\ recorded \in [Run -> {"none", "success", "failed"}]
  /\ notified \in [Run -> BOOLEAN]
  /\ warned \in [Run -> SUBSET Warning]

TypeOK ==
  /\ req \in [Run -> Asked]
  /\ proc \in [Run -> {"new", "running", "exit0", "exit1", "killed"}]
  /\ pc \in [Run -> [Thread -> Label]]
  /\ child \in [Run -> [Thread -> Duplicacy \cup Btrfs \cup {"none"}]]
  /\ held \subseteq Run \X Thread
  /\ source \in Run \cup {Free}
  /\ target \in [Storage -> Run \cup {Free}]
  /\ snapshot \in [Run -> BOOLEAN]
  /\ workRoot \in [Run -> {"none", "dirs", "secrets"}]
  /\ ExType
  /\ OutType

Backs(r)   == req[r].op = "backup"
Dry(r)     == req[r].dryRun
Repo(r)    == req[r].storage
Alive(r)   == proc[r] = "running"
At(r, t, l) == Alive(r) /\ pc[r][t] = l /\ child[r][t] = "none"

\* Mutant: the lock is broken whoever is on record.
TakeableAlways(owner) == TRUE

\* lock.Acquire succeeds: nobody is on record, or somebody who is gone.
Takeable(owner) == owner \notin {q \in Run : Alive(q)}

\* Whom a lock.Acquire by r that fails leaves on record.  Before it has created the
\* directory that is whoever was there, or nobody; a directory whose owner cannot be
\* set is nobody's, and one whose pid file's owner cannot be set is r's.
LeftOnRecord(r, owner) == {owner} \cup (IF Takeable(owner) THEN {Free, r} ELSE {})

\* Release removes the lock if r is on record, or fails.
AfterRelease(r, owner) == IF owner = r THEN {Free, owner} ELSE {owner}

\* The log, or standard error, has the warning w.
Warn(r, w) == warned' = [warned EXCEPT ![r] = @ \cup {w}]

Goto(r, t, l) == pc' = [pc EXCEPT ![r][t] = l]

Jump(r, t, l) == /\ Goto(r, t, l)
                 /\ UNCHANGED <<req, proc, child, ex, locks, disk, out>>

-----------------------------------------------------------------------------
Init ==
  /\ req \in [Run -> Asked]
  /\ proc = [r \in Run |-> "new"]
  /\ pc = [r \in Run |-> [t \in Thread |-> IF t = "main" THEN "confirm" ELSE "wait"]]
  /\ child = [r \in Run |-> [t \in Thread |-> "none"]]
  /\ cleanedUp = [r \in Run |-> FALSE] /\ acquired = [r \in Run |-> FALSE]
  /\ exitCode = [r \in Run |-> 0]      /\ lastErr = [r \in Run |-> FALSE]
  /\ phase = [r \in Run |-> "none"]    /\ result = [r \in Run |-> "success"]
  /\ held = {}
  /\ source = Free
  /\ target = [s \in Storage |-> Free]
  /\ snapshot = [r \in Run |-> FALSE]  /\ workRoot = [r \in Run |-> "none"]
  /\ recorded = [r \in Run |-> "none"]
  /\ notified = [r \in Run |-> FALSE]  /\ warned = [r \in Run |-> {}]

\* The process starts, plans its run and enters Run() with its handler installed.
Begin(r) ==
  /\ proc[r] = "new"
  /\ proc' = [proc EXCEPT ![r] = "running"]
  /\ UNCHANGED <<req, pc, child, ex, locks, disk, out>>

Exit(r, how) ==
  /\ proc' = [proc EXCEPT ![r] = how]
  /\ UNCHANGED <<req, pc, child, ex, locks, disk, out>>

Kill(r) == Kills /\ Alive(r) /\ Exit(r, "killed")

\* Mutant: the exit code is not set.
FailedQuietly(r) ==
  /\ lastErr' = [lastErr EXCEPT ![r] = TRUE]
  /\ phase' = [phase EXCEPT ![r] = IF @ = "running" THEN "failed" ELSE @]
  /\ UNCHANGED <<exitCode, cleanedUp, acquired, result>>

\* fail(err), after the tracked phase it stopped, if any, is marked as failed.
Failed(r) ==
  /\ exitCode' = [exitCode EXCEPT ![r] = 1]
  /\ lastErr' = [lastErr EXCEPT ![r] = TRUE]
  /\ phase' = [phase EXCEPT ![r] = IF @ = "running" THEN "failed" ELSE @]
  /\ UNCHANGED <<cleanedUp, acquired, result>>

\* Run() then returns into the deferred cleanup.
GiveUp(r) ==
  /\ Failed(r)
  /\ Goto(r, "main", "check")
  /\ UNCHANGED <<req, proc, child, disk, out>>

Fail(r) == GiveUp(r) /\ UNCHANGED locks

-----------------------------------------------------------------------------
(* Run() up to the operation. *)

\* A forced prune or a storage cleanup asks first, on a terminal.
ConfirmSafetyRails(r) ==
  /\ At(r, "main", "confirm")
  /\ \/ Jump(r, "main", "lock")
     \/ ~Dry(r) /\ ~Backs(r) /\ Fail(r)

AcquireTargetLock(r) ==
  /\ At(r, "main", "lock")
  /\ \/ /\ Takeable(target[Repo(r)])
        /\ target' = [target EXCEPT ![Repo(r)] = r]
        /\ Goto(r, "main", "locked")
        /\ UNCHANGED <<req, proc, child, ex, held, source, disk, out>>
     \/ /\ \E owner \in LeftOnRecord(r, target[Repo(r)]) :
             target' = [target EXCEPT ![Repo(r)] = owner]
        /\ GiveUp(r)
        /\ UNCHANGED <<held, source>>

\* Mutant: the snapshot is created without the source lock.
StartWithoutSourceLock(r) ==
  /\ At(r, "main", "locked")
  /\ acquired' = [acquired EXCEPT ![r] = TRUE]
  /\ phase' = [phase EXCEPT ![r] = IF Backs(r) THEN "running" ELSE @]
  /\ UNCHANGED <<cleanedUp, exitCode, lastErr, result>>
  /\ Goto(r, "main", IF Backs(r) THEN "create" ELSE "dirs")
  /\ UNCHANGED <<req, proc, child, locks, disk, out>>

\* targetLockAcquired is set and the visible run starts; a backup's setup is
\* part of its tracked phase.
StartVisibleRun(r) ==
  /\ At(r, "main", "locked")
  /\ acquired' = [acquired EXCEPT ![r] = TRUE]
  /\ phase' = [phase EXCEPT ![r] = IF Backs(r) THEN "running" ELSE @]
  /\ UNCHANGED <<cleanedUp, exitCode, lastErr, result>>
  /\ Goto(r, "main", IF Backs(r) THEN "source" ELSE "dirs")
  /\ UNCHANGED <<req, proc, child, locks, disk, out>>

\* withSourceLock around the creation of the snapshot.
TakeSourceLock(r) ==
  /\ At(r, "main", "source")
  /\ \/ /\ Takeable(source)
        /\ source' = r
        /\ Goto(r, "main", "create")
        /\ UNCHANGED <<req, proc, child, ex, held, target, disk, out>>
     \/ /\ source' \in LeftOnRecord(r, source)
        /\ GiveUp(r)
        /\ UNCHANGED <<held, target>>

\* Its deferred Release, whose result is dropped.
DropSourceLock(r) ==
  /\ \/ /\ At(r, "main", "unsource")
        /\ Goto(r, "main", "dirs")
        /\ UNCHANGED ex
     \/ /\ At(r, "main", "unsourceErr")
        /\ Goto(r, "main", "check")
        /\ Failed(r)
  /\ source' \in AfterRelease(r, source)
  /\ UNCHANGED <<req, proc, child, held, target, disk, out>>

\* A set-up step that a dry run skips, or that may fail.
WorkStep(r, here, next, need, made) ==
  /\ At(r, "main", here)
  /\ \/ Dry(r) /\ Jump(r, "main", next)
     \/ /\ ~Dry(r) /\ workRoot[r] \in need
        /\ workRoot' = [workRoot EXCEPT ![r] = made]
        /\ Goto(r, "main", next)
        /\ UNCHANGED <<req, proc, child, ex, locks, snapshot, out>>
     \/ ~Dry(r) /\ Fail(r)

CreateDirs(r) == WorkStep(r, "dirs", "prefs", {"none"}, "dirs")

\* The preferences file holds the storage's secrets.
WritePreferences(r) == WorkStep(r, "prefs", "perms", {"dirs"}, "secrets")

\* WriteFilters and SetPermissions; prune and cleanup-storage then start the
\* tracked phase of their own.
FirstCommand(r) == IF Backs(r) THEN "backup" ELSE "list"

FinishSetup(r) ==
  /\ At(r, "main", "perms")
  /\ \/ /\ Dry(r) \/ workRoot[r] = "secrets"
        /\ phase' = [phase EXCEPT ![r] = "running"]
        /\ UNCHANGED <<cleanedUp, acquired, exitCode, lastErr, result>>
        /\ Goto(r, "main", FirstCommand(r))
        /\ UNCHANGED <<req, proc, child, locks, disk, out>>
     \/ ~Dry(r) /\ Fail(r)

-----------------------------------------------------------------------------
(* Commands. *)

\* Where main goes when its command has succeeded: the next one, or cleanup().
AfterCommand(r, c) ==
  CASE c = "create"  -> "unsource"
    [] c = "list"    -> IF req[r].op = "prune" THEN "preview" ELSE "exclusive"
    [] c = "preview" -> "count"
    [] c = "count"   -> "enforce"
    [] OTHER         -> "check"

LastCommand == {"backup", "prune", "exclusive"}

Succeed(r, c) ==
  /\ phase' = [phase EXCEPT ![r] = IF c \in LastCommand THEN "success" ELSE @]
  /\ UNCHANGED <<cleanedUp, acquired, exitCode, lastErr, result>>

\* A dry run executes no command; a duplicacy command starts in the work
\* directory and cannot start when that is gone.
StartCommand(r, c) ==
  /\ At(r, "main", c)
  /\ \/ /\ ~Dry(r)
        /\ c = "create" \/ workRoot[r] # "none"
        /\ child' = [child EXCEPT ![r]["main"] = c]
        /\ UNCHANGED <<req, proc, pc, ex, locks, disk, out>>
     \/ /\ Dry(r)
        /\ Goto(r, "main", AfterCommand(r, c))
        /\ Succeed(r, c)
        /\ UNCHANGED <<req, proc, child, locks, disk, out>>
     \/ ~Dry(r) /\ c \in Duplicacy /\ workRoot[r] = "none" /\ Fail(r)

\* Mutant: a snapshot that was not created is not noticed.
MainResumesWithoutSnapshot(r, c, ok) ==
  /\ UNCHANGED out
  /\ \/ /\ ok \/ c = "create"
        /\ Goto(r, "main", AfterCommand(r, c))
        /\ Succeed(r, c)
     \/ /\ ~ok /\ c = "count"
        /\ Goto(r, "main", "enforce")
        /\ UNCHANGED ex
     \/ /\ ~ok /\ c \notin {"create", "count"}
        /\ Goto(r, "main", "check")
        /\ Failed(r)

\* Mutant: the answer of the last command is dropped.
MainResumesUnasked(r, c, ok) ==
  /\ UNCHANGED out
  /\ \/ /\ ok
        /\ Goto(r, "main", AfterCommand(r, c))
        /\ Succeed(r, c)
     \/ /\ ~ok
        /\ Goto(r, "main", IF c = "create" THEN "unsourceErr"
                           ELSE IF c = "count" THEN "enforce" ELSE "check")
        /\ UNCHANGED ex

\* What main does with the answer of its command.  A failed revision count is
\* left to enforcePrunePreview.
MainResumes(r, c, ok) ==
  /\ UNCHANGED out
  /\ \/ /\ ok
        /\ Goto(r, "main", AfterCommand(r, c))
        /\ Succeed(r, c)
     \/ /\ ~ok /\ c \in {"create", "count"}
        /\ Goto(r, "main", IF c = "create" THEN "unsourceErr" ELSE "enforce")
        /\ UNCHANGED ex
     \/ /\ ~ok /\ c \notin {"create", "count"}
        /\ Goto(r, "main", "check")
        /\ Failed(r)

\* cleanupSnapshot only warns about a snapshot it could not delete.
DeleteResumes(r, t, ok) ==
  /\ Goto(r, t, "removeDir")
  /\ \/ ok /\ UNCHANGED warned
     \/ ~ok /\ Warn(r, "snapshot")
  /\ UNCHANGED <<ex, recorded, notified>>

\* A command ends, well or badly, whether or not its process still waits.
CommandEnds(r, t) ==
  LET c == child[r][t] IN
  /\ c # "none"
  /\ child' = [child EXCEPT ![r][t] = "none"]
  /\ \E ok \in BOOLEAN :
       /\ c = "delete" /\ ok => snapshot[r]
       /\ snapshot' = [snapshot EXCEPT ![r] = IF ok /\ c \in Btrfs THEN c = "create" ELSE @]
       /\ \/ ~Alive(r) /\ UNCHANGED <<pc, ex, out>>
          \/ Alive(r) /\ c # "delete" /\ MainResumes(r, c, ok)
          \/ Alive(r) /\ c = "delete" /\ DeleteResumes(r, t, ok)
  /\ UNCHANGED <<req, proc, locks, workRoot>>

\* enforcePrunePreview lets the prune go on or refuses (module SafePrune).
EnforcePrunePreview(r) ==
  /\ At(r, "main", "enforce")
  /\ \/ Jump(r, "main", "prune")
     \/ ~Dry(r) /\ Fail(r)

MainStep(r) ==
  \/ ConfirmSafetyRails(r) \/ AcquireTargetLock(r) \/ StartVisibleRun(r)
  \/ TakeSourceLock(r) \/ DropSourceLock(r)
  \/ CreateDirs(r) \/ WritePreferences(r) \/ FinishSetup(r)
  \/ \E c \in Duplicacy \cup {"create"} : StartCommand(r, c)
  \/ EnforcePrunePreview(r)

-----------------------------------------------------------------------------
(* The signal handler. *)

Interrupt(r) ==
  /\ Signals /\ At(r, "sig", "wait")
  /\ exitCode' = [exitCode EXCEPT ![r] = 1]
  /\ UNCHANGED <<cleanedUp, acquired, lastErr, report>>
  /\ Goto(r, "sig", "check")
  /\ UNCHANGED <<req, proc, child, locks, disk, out>>

-----------------------------------------------------------------------------
(* cleanup(), by either goroutine. *)

\* "if e.cleanedUp { return }"
CheckCleanedUp(r, t) ==
  /\ At(r, t, "check")
  /\ Jump(r, t, IF cleanedUp[r] THEN "after" ELSE "mark")

MarkCleanedUp(r, t) ==
  /\ At(r, t, "mark")
  /\ cleanedUp' = [cleanedUp EXCEPT ![r] = TRUE]
  /\ UNCHANGED <<acquired, exitCode, lastErr, report>>
  /\ Goto(r, t, IF Backs(r) THEN "sourceAgain" ELSE "work")
  /\ UNCHANGED <<req, proc, child, locks, disk, out>>

\* Mutant: the cleanup waits for the source lock.
SourceAgainWaiting(r, t) ==
  /\ At(r, t, "sourceAgain")
  /\ Takeable(source)
  /\ source' = r
  /\ held' = held \cup {<<r, t>>}
  /\ Goto(r, t, "delete")
  /\ UNCHANGED <<req, proc, child, ex, target, disk, out>>

\* Mutant: the cleanup does not ask for the source lock.
SourceNotAgain(r, t) ==
  /\ At(r, t, "sourceAgain")
  /\ Jump(r, t, "delete")

\* Without the source lock the cleanup only warns and goes on.
SourceAgain(r, t) ==
  /\ At(r, t, "sourceAgain")
  /\ Goto(r, t, "delete")
  /\ \/ /\ Takeable(source)
        /\ source' = r
        /\ held' = held \cup {<<r, t>>}
        /\ UNCHANGED warned
     \/ /\ source' \in LeftOnRecord(r, source)
        /\ Warn(r, "source")
        /\ UNCHANGED held
  /\ UNCHANGED <<req, proc, child, ex, target, disk, recorded, notified>>

DeleteSnapshot(r, t) ==
  /\ At(r, t, "delete")
  /\ \/ /\ snapshot[r]
        /\ child' = [child EXCEPT ![r][t] = "delete"]
        /\ UNCHANGED <<req, proc, pc, ex, locks, disk, out>>
     \/ ~snapshot[r] /\ Jump(r, t, "removeDir")

\* What is still there is removed as a directory, or there is a warning.
RemoveSnapshotDir(r, t) ==
  /\ At(r, t, "removeDir")
  /\ Goto(r, t, "sourceDone")
  /\ \/ snapshot' = [snapshot EXCEPT ![r] = FALSE] /\ UNCHANGED warned
     \/ snapshot[r] /\ Warn(r, "snapshot") /\ UNCHANGED snapshot
  /\ UNCHANGED <<req, proc, child, ex, locks, workRoot, recorded, notified>>

\* Only what the cleanup has taken, and without a word when that fails.
ReleaseSource(r, t) ==
  /\ At(r, t, "sourceDone")
  /\ Goto(r, t, "work")
  /\ held' = held \ {<<r, t>>}
  /\ source' \in IF <<r, t>> \in held THEN AfterRelease(r, source) ELSE {source}
  /\ UNCHANGED <<req, proc, child, ex, target, disk, out>>

\* Mutant: the work directory of a failed run is kept.
CleanupWorkRootAfterSuccess(r, t) ==
  /\ At(r, t, "work")
  /\ Goto(r, t, "unlock")
  /\ workRoot' = [workRoot EXCEPT ![r] = IF exitCode[r] = 0 THEN "none" ELSE @]
  /\ UNCHANGED <<req, proc, child, ex, locks, snapshot, out>>

CleanupWorkRoot(r, t) ==
  /\ At(r, t, "work")
  /\ Goto(r, t, "unlock")
  /\ \/ workRoot' = [workRoot EXCEPT ![r] = "none"] /\ UNCHANGED warned
     \/ /\ workRoot[r] # "none"
        /\ Warn(r, "work") /\ UNCHANGED workRoot
  /\ UNCHANGED <<req, proc, child, ex, locks, snapshot, recorded, notified>>

ReleaseTargetLock(r, t) ==
  /\ At(r, t, "unlock")
  /\ Goto(r, t, "report")
  /\ \E owner \in IF acquired[r] THEN AfterRelease(r, target[Repo(r)])
                                 ELSE {target[Repo(r)]} :
       target' = [target EXCEPT ![Repo(r)] = owner]
  /\ UNCHANGED <<req, proc, child, ex, held, source, disk, out>>

\* Mutant: the status of the phase is taken for the result.
CompleteRunWithPhase(r, t) ==
  /\ At(r, t, "report")
  /\ result' = [result EXCEPT ![r] = phase[r]]
  /\ UNCHANGED <<cleanedUp, acquired, exitCode, lastErr, phase>>
  /\ Goto(r, t, "notify")
  /\ UNCHANGED <<req, proc, child, locks, disk, out>>

\* report.CompleteRun(e.exitCode, ...)
CompleteRun(r, t) ==
  /\ At(r, t, "report")
  /\ result' = [result EXCEPT ![r] = IF exitCode[r] = 0 THEN "success" ELSE "failed"]
  /\ UNCHANGED <<cleanedUp, acquired, exitCode, lastErr, phase>>
  /\ Goto(r, t, "notify")
  /\ UNCHANGED <<req, proc, child, locks, disk, out>>

\* Mutant: only a tracked phase that failed is worth a notification.
NotifiablePhase(r) == /\ exitCode[r] # 0 /\ lastErr[r] /\ ~Dry(r)
                      /\ phase[r] = "failed"

\* maybeSendFailureNotification: for a backup that could not start, and for a
\* tracked phase that failed.
Notifiable(r) == /\ exitCode[r] # 0 /\ lastErr[r] /\ ~Dry(r)
                 /\ phase[r] = "failed" \/ (Backs(r) /\ ~acquired[r])

MaybeNotify(r, t) ==
  /\ At(r, t, "notify")
  /\ notified' = [notified EXCEPT ![r] = @ \/ Notifiable(r)]
  /\ Goto(r, t, "save")
  /\ UNCHANGED <<req, proc, child, ex, locks, disk, recorded, warned>>

\* Mutant: a dry run is recorded as well.
UpdateRunStateAlways(r, t) ==
  /\ At(r, t, "save")
  /\ Goto(r, t, "after")
  /\ recorded' = [recorded EXCEPT ![r] = result[r]]
  /\ UNCHANGED <<req, proc, child, ex, locks, disk, notified, warned>>

\* updateRunState; a failure to write the state file is only a warning.
UpdateRunState(r, t) ==
  /\ At(r, t, "save")
  /\ Goto(r, t, "after")
  /\ \/ ~Dry(r) /\ recorded' = [recorded EXCEPT ![r] = result[r]]
     \/ UNCHANGED recorded
  /\ UNCHANGED <<req, proc, child, ex, locks, disk, notified, warned>>

\* Run() returns what it decided before the deferred cleanup; the program exits
\* with it unless the JSON summary it was asked for cannot be written.  The handler
\* calls os.Exit(1).
Leave(r, t) ==
  /\ At(r, t, "after")
  /\ \/ Exit(r, IF t = "main" /\ ~lastErr[r] THEN "exit0" ELSE "exit1")
     \/ /\ t = "main"
        /\ proc' = [proc EXCEPT ![r] = "exit1"]
        /\ Warn(r, "summary")
        /\ UNCHANGED <<req, pc, child, ex, locks, disk, recorded, notified>>

CleanupStep(r, t) ==
  \/ CheckCleanedUp(r, t) \/ MarkCleanedUp(r, t)
  \/ SourceAgain(r, t) \/ DeleteSnapshot(r, t) \/ RemoveSnapshotDir(r, t)
  \/ ReleaseSource(r, t) \/ CleanupWorkRoot(r, t) \/ ReleaseTargetLock(r, t)
  \/ CompleteRun(r, t) \/ MaybeNotify(r, t) \/ UpdateRunState(r, t) \/ Leave(r, t)

-----------------------------------------------------------------------------
Next ==
  \E r \in Run :
    \/ Begin(r) \/ Kill(r) \/ Interrupt(r) \/ MainStep(r)
    \/ \E t \in Thread : CommandEnds(r, t) \/ CleanupStep(r, t)

Spec == Init /\ [][Next]_vars

\* The scheduler runs the handler's goroutine and the command it waits for ends;
\* nothing is assumed of Run() or of the commands it waits for.
HandlerSpec ==
  Spec /\ \A r \in Run : /\ WF_vars(CleanupStep(r, "sig"))
                         /\ WF_vars(CommandEnds(r, "sig"))
-----------------------------------------------------------------------------
(* Properties. *)

\* One repository phase at a time: no two processes ever have duplicacy
\* commands at work on the same storage entry of the label.
BothAtWork(q, r) == /\ child[q]["main"] \in Duplicacy /\ child[r]["main"] \in Duplicacy
                    /\ q # r /\ Repo(q) = Repo(r)
RepositoryExclusive == \A q, r \in Run : ~BothAtWork(q, r)

\* It holds among the processes that have been neither interrupted nor killed,
\* whatever happens to the others.
Undisturbed(r) == proc[r] # "killed" /\ pc[r]["sig"] = "wait"
UndisturbedExclusive ==
  \A q, r \in Run : BothAtWork(q, r) => ~(Undisturbed(q) /\ Undisturbed(r))

\* Why: from AcquireTargetLock to its cleanup an undisturbed process is on
\* record, and it waits for the commands it starts.
LockedLabel == Duplicacy \cup {"locked", "source", "create", "unsource", "unsourceErr",
                               "dirs", "prefs", "perms", "enforce"}
OnRecord(r) ==
  Undisturbed(r) =>
    /\ child[r]["sig"] = "none"
    /\ child[r]["main"] # "none" => Alive(r) /\ pc[r]["main"] = child[r]["main"]
    /\ pc[r]["main"] \in LockedLabel => Alive(r) /\ target[Repo(r)] = r
LockInv == \A r \in Run : OnRecord(r)

\* What a signal changes is said in the properties by its absence: the handler's
\* goroutine has not left its wait.
Uninterrupted(r) == pc[r]["sig"] = "wait"

\* The snapshot a backup reads stays in place until duplicacy has ended, even when
\* the process is killed, unless its handler cleans up under it.
BackupReadsSnapshot ==
  \A r \in Run : Uninterrupted(r) /\ child[r]["main"] = "backup" => snapshot[r]

\* Snapshots of one source are created one at a time, unless a killed process
\* left its command behind.
CreationSerialised ==
  \A q, r \in Run : /\ child[q]["main"] = "create" /\ Undisturbed(q)
                    /\ child[r]["main"] = "create" /\ Undisturbed(r)
                    => q = r

\* Nor is one deleted while another is created or deleted, unless the cleanup that
\* deletes it has warned that it goes on without the source lock.
Warned(r, w) == w \in warned[r]
DeletionSerialised ==
  \A q, r \in Run : /\ child[q]["main"] = "delete" /\ Undisturbed(q)
                    /\ child[r]["main"] \in Btrfs    /\ Undisturbed(r)
                    /\ q # r
                    => Warned(q, "source") \/ Warned(r, "source")

\* A process that ends by itself leaves no snapshot and no work directory (with
\* the secrets in it) unless it has warned of that very thing, whatever happens
\* to the others.
Ended(r) == proc[r] \in {"exit0", "exit1"}
CleanExit ==
  \A r \in Run : Uninterrupted(r) /\ Ended(r)
                 => /\ snapshot[r] => Warned(r, "snapshot")
                    /\ workRoot[r] # "none" => Warned(r, "work")

\* The exit status and the recorded result tell the same story; they differ only
\* when the JSON summary of a recorded success could not be written.
SummaryLost(r) == /\ phase[r] = "success" /\ Warned(r, "summary")
                  /\ proc[r] = "exit1"
ExitMatchesRecord ==
  \A r \in Run : Uninterrupted(r) /\ Ended(r) /\ recorded[r] # "none"
                 => \/ proc[r] = "exit0" <=> recorded[r] = "success"
                    \/ SummaryLost(r) /\ recorded[r] = "success"

\* Success, as an exit status or in the state file, is only ever reported by a
\* process whose tracked phase ran to its end.
SuccessIsTrue ==
  \A r \in Run : proc[r] = "exit0" \/ recorded[r] = "success"
                 => phase[r] = "success"

\* Why: main reaches its cleanup either done or with an error, the exit code
\* never returns to 0, and a result is computed from it before it is saved.
OwnCommand(r) ==
  /\ \A t \in Thread : child[r][t] # "none" => pc[r][t] = child[r][t]
  /\ child[r]["sig"] \in {"none", "delete"}
  /\ pc[r]["main"] # "wait"
  /\ pc[r]["sig"] \in {"wait"} \cup CleanupLabel
Truthful(r) ==
  /\ pc[r]["main"] \in CleanupLabel
       => phase[r] = "success" \/ (exitCode[r] = 1 /\ lastErr[r])
  /\ phase[r] = "success" => pc[r]["main"] \in CleanupLabel
  /\ pc[r]["sig"] # "wait" => exitCode[r] = 1
  /\ \A t \in Thread : pc[r][t] \in {"notify", "save"} /\ result[r] = "success"
                       => phase[r] = "success"
  /\ proc[r] = "exit0" \/ recorded[r] = "success" => phase[r] = "success"
SuccessInv == \A r \in Run : OwnCommand(r) /\ Truthful(r)

\* A backup that fails tells the operator, whatever the point it failed at; one that
\* has only lost its JSON summary does not.
FailedBackupNotifies ==
  \A r \in Run : Uninterrupted(r) /\ proc[r] = "exit1" /\ Backs(r) /\ ~Dry(r)
                 => notified[r] \/ SummaryLost(r)

\* A dry run starts no command that changes the storage or the volume, and writes
\* nothing but its locks.
Changing == Btrfs \cup {"backup", "prune", "exclusive"}
DryRunInert ==
  [][\A r \in Run : Dry(r) => /\ \A t \in Thread : child'[r][t] \notin Changing
                              /\ snapshot'[r] = snapshot[r] /\ workRoot'[r] = workRoot[r]
                              /\ recorded'[r] = recorded[r] /\ notified'[r] = notified[r]]_vars

\* An interrupted process ends, even when the command it was running hangs.
InterruptEnds ==
  \A r \in Run : Alive(r) /\ pc[r]["sig"] # "wait" ~> ~Alive(r)

\* The holders of each storage entry's lock follow the abstract mutex.
Holders(s) == {r \in Run : Repo(r) = s /\ Alive(r) /\ target[s] = r}
Repository(s) == INSTANCE Mutex WITH Proc <- Run, holders <- Holders(s)
RefinesMutex ==
  /\ \A s \in Storage : Repository(s)!Init
  /\ [][\A s \in Storage : [Repository(s)!Next]_(Holders(s))]_vars
=============================================================================
