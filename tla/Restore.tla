------------------------------ MODULE Restore ------------------------------
(***************************************************************************)
(* The restore commands of internal/restore: choose what to                *)
(* restore, prepare the drill workspace, run one "duplicacy restore" per   *)
(* path, report each, and stop at the first failure or at a signal.        *)
(*                                                                         *)
(* One command runs at a time; MaxCommands of them follow each other on    *)
(* the same workspaces, which are never cleaned up by the program.  A file *)
(* of a workspace holds the version of the storage and revision it was     *)
(* restored from.  The signal handler is a goroutine of its own and the    *)
(* duplicacy command a process of its own.                                 *)
(***************************************************************************)
EXTENDS PickerTree

CONSTANTS
  Storage,      \* the storage entries of the label
  Revision,     \* the revisions each of them holds
  Templates,    \* sets of the variables a workspace template uses
  MaxCommands   \* bound: restore commands in one behaviour

ASSUME TemplatesAssumption == Templates \subseteq SUBSET {"storage", "revision"}
ASSUME BoundAssumption == MaxCommands \in Nat
\* No storage entry is named like a state of the preferences file.
ASSUME StorageAssumption == Storage \intersect {"none", "cut short"} = {}

Version == [storage : Storage, revision : Revision]

\* renderRestoreWorkspaceTemplate: the folder name keeps the values of the
\* variables the template uses.  --workspace names one folder whatever is asked.
Given           == [given |-> TRUE]
Derived(t, v)   == [field \in t |-> v[field]]
Workspace       == {Given} \union {Derived(t, v) : t \in Templates, v \in Version}

NoFile          == [none |-> TRUE]
NoPath          == [none |-> TRUE]
NotTold         == [none |-> TRUE]
Result == {"none", "Restored into workspace", "Failed", "Interrupted",
           "Ownership repair failed", "Pending confirmation", "Completed"}

VARIABLES
  command,      \* "plan", "list-revisions", "run" or "select"
  asked,        \* --storage and the revision
  workspace,    \* the workspace of the command
  results,      \* per path of the command, its result; "none" while unknown
  current,      \* the path being restored
  pc,           \* where the command is
  exit,         \* how it ended
  preferences,  \* per workspace, .duplicacy/preferences: missing, cut short,
                \* or the storage they name
  foreign,      \* the given workspace held other entries from the start
  files,        \* per workspace and file, the version it holds
  child,        \* the duplicacy command: "none", "running", "ok", "failed"
  signal,       \* "none", "pending", "told", "cancelled"
  tracker,      \* restoreInterruptTracker: paths completed, of how many
  told,         \* what PrintInterrupted printed
  commands      \* restore commands so far

request   == <<command, asked, workspace>>
disk      == <<preferences, foreign, files>>
interrupt == <<signal, told>>
progress  == <<results, current, tracker>>
vars == <<picker, request, disk, interrupt, progress, pc, exit, child, commands>>

Paths        == DOMAIN results
Restored     == {p \in Paths : results[p] = "Restored into workspace"}
Idle         == pc = "idle"
\* newRestoreInterruptContext has been called and its cleanup has not.
Interruptible == pc \in {"begin", "prepare", "write", "own", "exec",
                         "running", "returned", "next", "repair"}
Prepared(w)  == preferences[w] # "none"

\* The version "duplicacy restore -r" brings into the workspace: the storage is
\* the one its preferences name.
Source == [storage |-> preferences[workspace], revision |-> asked.revision]

\* The process ends, and its memory with it; its report stays.
Leave(how) ==
  /\ pc' = "idle" /\ exit' = how
  /\ prefix' = <<>> /\ marks' = Blank(<<>>)
  /\ signal' = "none" /\ told' = NotTold /\ child' = "none"
  /\ UNCHANGED <<request, disk, progress, commands>>

NoResults(paths) == [p \in paths |-> "none"]

-----------------------------------------------------------------------------
(* Up to the confirmation.  Nothing has been written, and a signal here    *)
(* ends the process as any program.                                        *)

\* validateRestoreWorkspaceSelection and the resolution of the workspace: an
\* explicit one, or a name rendered for the restore point.  Workspaces inside
\* the live source are refused by path and are not among these.
Start(kind, v, w, pre) ==
  /\ Idle
  /\ commands < MaxCommands
  /\ w \in {Given} \union {Derived(t, v) : t \in Templates}
  /\ commands' = commands + 1
  /\ command' = kind /\ asked' = v /\ workspace' = w
  /\ prefix' = pre /\ marks' = Blank(pre)
  /\ pc' = "asked" /\ exit' = "none"
  /\ results' = NoResults({}) /\ current' = NoPath
  /\ tracker' = [completed |-> 0, total |-> 0]
  /\ UNCHANGED <<disk, interrupt, child>>

\* Configuration, privileges, the secrets file, or a listing that fails.  A
\* select lists through the preferences of the given workspace if it has some.
Refuse == pc = "asked" /\ Leave("failed")

\* A listing through preferences cut short cannot succeed.
Listable == workspace = Given => preferences[workspace] # "cut short"

\* restore plan reads the configuration and the state file; list-revisions
\* and inspection list, the former only through a prepared --workspace.
Plan == pc = "asked" /\ command = "plan" /\ Leave("ok")

ListRevisions ==
  /\ pc = "asked" /\ command = "list-revisions" /\ Listable
  /\ workspace = Given => Prepared(workspace)
  /\ Leave("ok")

Inspect == pc = "asked" /\ command = "select" /\ Listable /\ Leave("ok")

DryRun == pc = "asked" /\ command = "run" /\ Leave("ok")

\* restore run: all of the revision, or --path with a file or a directory's
\* pattern.
RunPath(n) == LET p == PathsUnder(n, n \notin Listing) IN
  /\ pc = "asked" /\ command = "run"
  /\ results' = NoResults({p})
  /\ pc' = "confirm"
  /\ UNCHANGED <<picker, request, disk, interrupt, current, tracker, exit, child, commands>>

\* Intent 2: everything below the prefix, which is not compared with a listing.
SelectFull ==
  /\ pc = "asked" /\ command = "select" /\ Listable
  /\ results' = NoResults({PathsUnder(prefix, TRUE)})
  /\ pc' = "confirm"
  /\ UNCHANGED <<picker, request, disk, interrupt, current, tracker, exit, child, commands>>

\* Intent 3: the picker, if the prefix matches something.
SelectPaths ==
  /\ pc = "asked" /\ command = "select" /\ Listable
  /\ FilterPaths(prefix) # {}
  /\ pc' = "picker"
  /\ UNCHANGED <<picker, request, disk, interrupt, progress, exit, child, commands>>

Toggle(n) ==
  /\ pc = "picker" /\ n \in Tree
  /\ ToggleSelection(n)
  /\ UNCHANGED <<request, disk, interrupt, progress, pc, exit, child, commands>>

\* The key g, refused while nothing is taken.  The picker is gone after it.
Commit ==
  /\ pc = "picker"
  /\ CompileSelection # {}
  /\ results' = NoResults(CompileSelection)
  /\ pc' = "confirm"
  /\ marks' = Blank(prefix)
  /\ UNCHANGED <<prefix, request, disk, interrupt, current, tracker, exit, child, commands>>

Cancel == pc \in {"picker", "confirm"} /\ Leave("cancelled")

\* Any other answer than yes: an error for run, the preview for select.
Decline ==
  /\ pc = "confirm"
  /\ Leave(IF command = "run" THEN "failed" ELSE "ok")

\* Confirmed, or --yes: the interrupt context exists from here on.
Confirm ==
  /\ pc = "confirm"
  /\ pc' = "begin"
  /\ UNCHANGED <<picker, request, disk, interrupt, progress, exit, child, commands>>

-----------------------------------------------------------------------------
(* One path after the other.                                               *)

\* Mutant: the tracker counts the path that begins as completed.
BeginPathCounted(p) ==
  /\ pc = "begin" /\ p \in Paths /\ results[p] = "none"
  /\ current' = p
  /\ tracker' = [completed |-> Cardinality(Restored) + 1, total |-> Cardinality(Paths)]
  /\ pc' = "prepare"
  /\ UNCHANGED <<picker, request, disk, interrupt, results, exit, child, commands>>

\* tracker.setCurrent.  The paths come in the order of their names, on which
\* nothing here depends.
BeginPath(p) ==
  /\ pc = "begin" /\ p \in Paths /\ results[p] = "none"
  /\ current' = p
  /\ tracker' = [completed |-> Cardinality(Restored), total |-> Cardinality(Paths)]
  /\ pc' = "prepare"
  /\ UNCHANGED <<picker, request, disk, interrupt, results, exit, child, commands>>

\* The result of the current path; what follows it.
Report(result, next) ==
  /\ results' = [results EXCEPT ![current] = result]
  /\ pc' = next
  /\ UNCHANGED <<picker, request, interrupt, current, tracker, exit, commands>>

\* An error of executeRestoreRunConfirmed.  A select takes its result from the
\* report, and where there is none from a default; then it repairs the
\* ownership, which a run has done before.
ReportError(result) ==
  Report(result, IF command = "run" THEN "leave" ELSE "repair")

\* prepareRestoreWorkspace: a workspace with preferences is used as it is, and
\* one without must be empty.  os.WriteFile empties the file, then fills it.
PrepareWorkspace ==
  /\ pc = "prepare"
  /\ Prepared(workspace) \/ ~(foreign /\ workspace = Given)
  /\ IF Prepared(workspace)
       THEN pc' = "own" /\ UNCHANGED disk
       ELSE /\ preferences' = [preferences EXCEPT ![workspace] = "cut short"]
            /\ pc' = "write"
            /\ UNCHANGED <<foreign, files>>
  /\ UNCHANGED <<picker, request, interrupt, progress, exit, child, commands>>

WritePreferences ==
  /\ pc = "write"
  /\ preferences' = [preferences EXCEPT ![workspace] = asked.storage]
  /\ pc' = "own"
  /\ UNCHANGED <<picker, request, foreign, files, interrupt, progress, exit, child, commands>>

\* The workspace is refused or cannot be written: there is no report.
PrepareFails ==
  /\ pc \in {"prepare", "write"}
  /\ pc = "prepare" => ~Prepared(workspace)
  /\ ReportError(IF command = "select" THEN "Completed" ELSE "Failed")
  /\ UNCHANGED <<disk, child>>

\* A run gives the workspace to the profile owner before and after duplicacy;
\* a select once, at its end.
Own ==
  /\ pc = "own"
  /\ pc' = "exec"
  /\ UNCHANGED <<picker, request, disk, interrupt, progress, exit, child, commands>>

OwnFails ==
  /\ pc = "own" /\ command = "run"
  /\ ReportError("Pending confirmation")
  /\ UNCHANGED <<disk, child>>

\* exec.CommandContext starts nothing once the context is cancelled.
Exec ==
  /\ pc = "exec"
  /\ IF signal = "cancelled" THEN child' = "failed" ELSE child' = "running"
  /\ pc' = "running"
  /\ UNCHANGED <<picker, request, disk, interrupt, progress, exit, commands>>

\* Mutant: the error is only looked at when the context is cancelled.
ReturnDroppingError ==
  /\ pc = "running" /\ child # "running"
  /\ IF child = "ok" \/ signal # "cancelled"
       THEN /\ pc' = "returned"
            /\ UNCHANGED <<picker, request, disk, interrupt, progress, exit, commands>>
       ELSE ReportError("Interrupted") /\ UNCHANGED disk
  /\ child' = "none"

\* The command has ended.  RestoreRevisionContext calls an error an
\* interruption when the context is cancelled by then.
Return ==
  /\ pc = "running" /\ child # "running"
  /\ IF child = "ok"
       THEN /\ pc' = "returned"
            /\ UNCHANGED <<picker, request, disk, interrupt, progress, exit, commands>>
       ELSE /\ ReportError(IF signal = "cancelled" THEN "Interrupted" ELSE "Failed")
            /\ UNCHANGED disk
  /\ child' = "none"

Succeed ==
  /\ pc = "returned"
  /\ Report("Restored into workspace", "next")
  /\ UNCHANGED <<disk, child>>

OwnershipFails ==
  /\ pc = "returned" /\ command = "run"
  /\ ReportError("Ownership repair failed")
  /\ UNCHANGED <<disk, child>>

\* tracker.setCompleted, and the next path or the end.
Completed ==
  /\ pc = "next"
  /\ tracker' = [completed |-> Cardinality(Restored), total |-> Cardinality(Paths)]
  /\ pc' = IF Restored # Paths THEN "begin"
           ELSE IF command = "run" THEN "leave" ELSE "repair"
  /\ UNCHANGED <<picker, request, disk, interrupt, results, current, exit, child, commands>>

\* An ownership error beside an interruption wraps it.
Failure == IF \E p \in Paths : results[p] = "Interrupted" THEN "interrupted"
                                                         ELSE "failed"

\* Batch ownership repair, which may fail.
Repair ==
  /\ pc = "repair"
  /\ \/ /\ pc' = "leave"
        /\ UNCHANGED <<picker, request, disk, interrupt, progress, exit, child, commands>>
     \/ Leave(Failure)

\* runRestoreRequest.
Exit ==
  /\ pc = "leave"
  /\ Leave(IF Restored = Paths THEN "ok" ELSE Failure)

-----------------------------------------------------------------------------
(* duplicacy, in the workspace.  It writes a file that is missing, leaves  *)
(* one that is the same, and without -overwrite fails on another version.  *)

DuplicacyWrites(f) ==
  /\ child = "running" /\ preferences[workspace] # "cut short"
  /\ f \in Matches(current) /\ files[workspace][f] = NoFile
  /\ files' = [files EXCEPT ![workspace][f] = Source]
  /\ UNCHANGED <<picker, request, preferences, foreign, interrupt, progress, pc,
                 exit, child, commands>>

DuplicacyEnds ==
  /\ child = "running" /\ preferences[workspace] # "cut short"
  /\ \A f \in Matches(current) : files[workspace][f] = Source
  /\ child' = "ok"
  /\ UNCHANGED <<picker, request, disk, interrupt, progress, pc, exit, commands>>

\* A conflict, unusable preferences, the storage or the network.
DuplicacyFails ==
  /\ child = "running"
  /\ child' = "failed"
  /\ UNCHANGED <<picker, request, disk, interrupt, progress, pc, exit, commands>>

-----------------------------------------------------------------------------
(* Signals.                                                                *)

\* Ctrl-C reaches the processes of the terminal, so the duplicacy command may
\* end of it before the handler has run.
Signal ==
  /\ Interruptible /\ signal = "none"
  /\ signal' = "pending"
  /\ child' \in IF child = "running" THEN {"running", "failed"} ELSE {child}
  /\ UNCHANGED <<picker, request, disk, told, progress, pc, exit, commands>>

\* The goroutine: markInterrupted and PrintInterrupted, then cancel.
Tell ==
  /\ Interruptible /\ signal = "pending"
  /\ signal' = "told"
  /\ told' = IF tracker.total = 0 THEN [tracker EXCEPT !.total = 1] ELSE tracker
  /\ UNCHANGED <<picker, request, disk, progress, pc, exit, child, commands>>

CancelContext ==
  /\ Interruptible /\ signal = "told"
  /\ signal' = "cancelled"
  /\ UNCHANGED <<picker, request, disk, told, progress, pc, exit, child, commands>>

\* Mutant: the command runs without the context.
KillChildBackground == FALSE /\ UNCHANGED vars

\* exec kills the command of a cancelled context.
KillChild ==
  /\ child = "running" /\ signal = "cancelled"
  /\ child' = "failed"
  /\ UNCHANGED <<picker, request, disk, interrupt, progress, pc, exit, commands>>

\* The host stops, or everything is killed.
Crash == ~Idle /\ Leave("crashed")

-----------------------------------------------------------------------------
Init ==
  /\ prefix = <<>> /\ marks = Blank(<<>>)
  /\ command = "run" /\ workspace = Given
  /\ asked \in Version /\ asked = CHOOSE v \in Version : TRUE
  /\ results = NoResults({}) /\ current = NoPath
  /\ pc = "idle" /\ exit = "none"
  /\ preferences = [w \in Workspace |-> "none"]
  /\ foreign \in BOOLEAN
  /\ files = [w \in Workspace |-> [f \in Listing |-> NoFile]]
  /\ child = "none" /\ signal = "none"
  /\ tracker = [completed |-> 0, total |-> 0] /\ told = NotTold
  /\ commands = 0

Choose ==
  \/ \E v \in Version, w \in Workspace :
       \/ \E kind \in {"plan", "list-revisions", "run"} : Start(kind, v, w, <<>>)
       \/ \E pre \in PathPrefixes : Start("select", v, w, pre)
  \/ Refuse \/ Plan \/ ListRevisions \/ Inspect \/ DryRun \/ SelectFull \/ SelectPaths
  \/ \E n \in BuildTree(Listing) : RunPath(n)
  \/ \E n \in Tree : Toggle(n)
  \/ Commit \/ Cancel \/ Decline \/ Confirm

Work ==
  \/ \E p \in Paths : BeginPath(p)
  \/ PrepareWorkspace \/ WritePreferences \/ PrepareFails
  \/ Own \/ OwnFails \/ Exec \/ Return \/ Succeed \/ OwnershipFails
  \/ Completed \/ Repair \/ Exit

Duplicacy == (\E f \in Listing : DuplicacyWrites(f)) \/ DuplicacyEnds \/ DuplicacyFails

Handler == Tell \/ CancelContext

Next == Choose \/ Work \/ Duplicacy \/ Signal \/ Handler \/ KillChild \/ Crash

Spec == Init /\ [][Next]_vars

\* The goroutines of the command are scheduled and the kernel delivers the
\* kill.  Nothing is assumed of the operator, of duplicacy or of the storage.
FairSpec == Spec /\ WF_vars(Work) /\ WF_vars(Handler) /\ WF_vars(KillChild)

-----------------------------------------------------------------------------
TypeOK ==
  /\ PickerTypeOK
  /\ command \in {"plan", "list-revisions", "run", "select"} /\ asked \in Version
  /\ workspace \in Workspace
  /\ Paths \subseteq RestorePath /\ results \in [Paths -> Result]
  /\ current \in Paths \union {NoPath}
  /\ pc \in {"idle", "asked", "picker", "confirm", "leave"} \union
            {"begin", "prepare", "write", "own", "exec", "running", "returned",
             "next", "repair"}
  /\ exit \in {"none", "ok", "cancelled", "failed", "interrupted", "crashed"}
  /\ preferences \in [Workspace -> Storage \union {"none", "cut short"}]
  /\ foreign \in BOOLEAN
  /\ files \in [Workspace -> [Listing -> Version \union {NoFile}]]
  /\ child \in {"none", "running", "ok", "failed"}
  /\ signal \in {"none", "pending", "told", "cancelled"}
  /\ tracker \in [completed : Nat, total : Nat]
  /\ told \in [completed : Nat, total : Nat] \union {NotTold}
  /\ commands \in 0 .. MaxCommands

\* The restore report is true of the disk (restore_command.go, after any
\* failures, signals, crashes and earlier commands in the same workspace).
\* Every path reported as restored is there, whole, in one version: that of the
\* revision asked for in the storage the workspace was prepared for, which is
\* the one asked for when the program has named the workspace after it.  The
\* exit is a success only if that is so of every path, and at most one path was
\* begun and not restored.
ReportMatchesWorkspace ==
  /\ \A p \in Restored : \A f \in Matches(p) :
       /\ files[workspace][f] = Source
       /\ "storage" \in DOMAIN workspace => files[workspace][f] = asked
  /\ exit = "ok" /\ current # NoPath => Restored = Paths
  /\ Cardinality({p \in Paths : results[p] \notin
                     {"none", "Restored into workspace"}}) <= 1

\* What an interrupt tells the operator was done by then: no path that was not,
\* at most the last one missing, of all there are once the first has begun.
Counted ==
  /\ told'.completed \in {Cardinality(Restored), Cardinality(Restored) - 1}
  /\ told'.total = IF current = NoPath THEN 1 ELSE Cardinality(Paths)

InterruptMessageTrue == [][told' \notin {told, NotTold} => Counted]_vars

\* Ctrl-C ends a restore that has been confirmed, wherever it arrives and
\* whatever duplicacy does: restore_interrupt.go and exec/runner.go.
InterruptEnds == (signal # "none" /\ Interruptible) ~> Idle

\* The files the operator took with space are, after any toggles, those the
\* marks show and those the paths to confirm restore: tree.go, compile.go.
Shown == INSTANCE Selection WITH
           open    <- pc = "picker",
           offered <- IF pc = "picker" THEN FilterPaths(prefix) ELSE {},
           chosen  <- IF pc = "picker" THEN Taken ELSE {},
           outcome <- IF pc = "confirm" /\ command = "select"
                        THEN UNION {Matches(p) : p \in Paths} ELSE {}

RefinesSelection == Shown!SelectionSpec
=============================================================================
