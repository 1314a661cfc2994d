------------------------------ MODULE DirLock ------------------------------
(***************************************************************************)
(* internal/lock/lock.go: the directory-based PID lock that serialises     *)
(* backup, prune and cleanup-storage runs of one label and storage, and    *)
(* the snapshot work of one label.                                         *)
(*                                                                         *)
(* One lock path is modelled at the grain of its system calls: mkdir, the  *)
(* open (create and truncate) and the write of the pid file, the read of   *)
(* the pid file, the stat of /proc/<pid>, and the three calls os.RemoveAll *)
(* makes on a directory that holds at most one file.  Between any two of   *)
(* them another process may run, or the process may die.                   *)
(*                                                                         *)
(* Simplifications:                                                        *)
(*  - os.RemoveAll opens the directory, lists it and unlinks what it found *)
(*    in one step.                                                         *)
(*  - Two processes that write the pid file through descriptors of the     *)
(*    same file leave the last writer's pid (pids of equal length).        *)
(*  - Acquire is called by a process that does not hold the lock, and      *)
(*    Release by one that does.  One caller may do otherwise: the cleanup  *)
(*    of an interrupted run takes the source lock while Run() has it.      *)
(*    Executor models that: Acquire finds a live pid, its own.             *)
(***************************************************************************)

CONSTANTS
  Proc,      \* process identifiers
  NoFile,    \* the lock directory has no pid file
  Empty,     \* the pid file exists and holds no number
  HasOwner   \* the lock restores profile ownership (NewWithOwner): chown may fail

ASSUME PidAssumption == /\ NoFile \notin Proc
                        /\ Empty \notin Proc
                        /\ NoFile # Empty
ASSUME OwnerAssumption == HasOwner \in BOOLEAN

VARIABLES
  dir,       \* the lock directory exists
  pidFile,   \* the content of <lock>/pid
  linked,    \* the processes whose open pid file is the one <lock>/pid names
  pc,        \* where each process is in Acquire, Release or outside them
  seen,      \* what readPID returned, until processExists is asked about it
  inspect,   \* how far the health check's inspectLock is, or what it has answered
  inspected, \* the pid it has read, until processExists is asked about it
  history,   \* whether two calls of Acquire and Release have overlapped so far
  lull       \* history: nobody holds the lock, or nobody has at some instant of
             \* the inspection that is under way

look == <<inspect, inspected>>
vars == <<dir, pidFile, linked, pc, seen, look, history, lull>>

InAcquire == {"mkdir", "readPid", "checkPid", "staleTry", "staleUnlink",
              "staleRmdir", "retryMkdir", "retryRead", "chownDir", "openPid",
              "writePid", "chownPid"}
InRelease == {"relRead", "relTry", "relUnlink", "relRmdir"}
Outside   == {"unborn", "gone", "foreign", "idle", "holding"}

PidContent == Proc \cup {NoFile, Empty}

TypeOK ==
  /\ dir \in BOOLEAN
  /\ pidFile \in PidContent
  /\ linked \subseteq Proc
  /\ pc \in [Proc -> InAcquire \cup InRelease \cup Outside]
  /\ seen \in [Proc -> PidContent]
  /\ inspect \in {"none", "present", "asking", "absent", "stale", "active"}
  /\ inspected \in Proc \cup {NoFile}
  /\ inspect = "asking" => inspected \in Proc
  /\ history \in {"serial", "overlapped"}
  /\ lull \in BOOLEAN

Holding(p) == pc[p] = "holding"
InCall(p) == pc[p] \in InAcquire \cup InRelease

\* No two calls on the lock have overlapped so far.
serial == history = "serial"

\* linuxProcProcessExists: /proc/<pid> exists for any live process, a run of
\* this program or not.
processExists(p) == pc[p] \notin {"unborn", "gone"}

\* readPID returned a number and that process is alive.
RecordsLiveProcess(content) == content \in Proc /\ processExists(content)

\* Acquire or Release begins, whether or not another call of them is under way.
Begin == history' = IF \E q \in Proc : InCall(q) THEN "overlapped" ELSE history

\* inspectLock is between two of its system calls.
Inspecting == inspect \in {"present", "asking"}

\* What the inspection under way could have seen of the holders so far.
Unheld == \A p \in Proc : ~Holding(p)
Observe == lull' = (Unheld' \/ (Inspecting /\ lull))

Goto(p, label) == pc' = [pc EXCEPT ![p] = label]

-----------------------------------------------------------------------------
Init ==
  /\ dir = FALSE
  /\ pidFile = NoFile
  /\ linked = {}
  /\ pc = [p \in Proc |-> "unborn"]
  /\ seen = [p \in Proc |-> NoFile]
  /\ inspect = "none"
  /\ inspected = NoFile
  /\ history = "serial"
  /\ lull = TRUE

(* Processes. *)

\* A run of the program starts, with a new pid or with that of a dead process.
Start(p) ==
  /\ pc[p] \in {"unborn", "gone"}
  /\ Goto(p, "idle")
  /\ UNCHANGED <<dir, pidFile, linked, seen, look, history>>

\* The process dies, wherever it is: killed, out of power, or at its own exit.
Die(p) ==
  /\ processExists(p)
  /\ Goto(p, "gone")
  /\ linked' = linked \ {p}
  /\ seen' = [seen EXCEPT ![p] = NoFile]
  /\ UNCHANGED <<dir, pidFile, look, history>>

\* An unrelated process receives the pid of a dead run.
ForeignStart(p) ==
  /\ pc[p] = "gone"
  /\ Goto(p, "foreign")
  /\ UNCHANGED <<dir, pidFile, linked, seen, look, history>>

-----------------------------------------------------------------------------
(* Acquire. *)

BeginAcquire(p) ==
  /\ pc[p] = "idle" /\ Begin
  /\ Goto(p, "mkdir")
  /\ UNCHANGED <<dir, pidFile, linked, seen, look>>

\* Acquire returns an error after a failed call that changed nothing.
AcquireFails(p) ==
  /\ Goto(p, "idle")
  /\ UNCHANGED <<dir, pidFile, linked, seen, look, history>>

\* mkdir succeeds and the lock directory awaits its owner and its pid.
CreateDir(p) ==
  /\ ~dir
  /\ dir' = TRUE
  /\ Goto(p, "chownDir")
  /\ UNCHANGED <<pidFile, linked, seen, look, history>>

\* The first mkdir: created, EEXIST, or another error of it or of its parent.
Mkdir(p) ==
  /\ pc[p] = "mkdir"
  /\ \/ CreateDir(p)
     \/ /\ dir
        /\ Goto(p, "readPid")
        /\ UNCHANGED <<dir, pidFile, linked, seen, look, history>>
     \/ AcquireFails(p)

\* Mutant: an unreadable pid file is not an error and reads as process 0.
ReadPidZero(p) ==
  /\ pc[p] = "readPid"
  /\ seen' = [seen EXCEPT ![p] = IF pidFile \in Proc THEN pidFile ELSE 0]
  /\ Goto(p, "checkPid")
  /\ UNCHANGED <<dir, pidFile, linked, look, history>>

ReadPid(p) ==
  /\ pc[p] = "readPid"
  /\ seen' = [seen EXCEPT ![p] = pidFile]
  /\ Goto(p, "checkPid")
  /\ UNCHANGED <<dir, pidFile, linked, look, history>>

\* Mutant: the liveness of the recorded process is not asked.
CheckPidTrustingNobody(p) ==
  /\ pc[p] = "checkPid"
  /\ Goto(p, "staleTry")
  /\ seen' = [seen EXCEPT ![p] = NoFile]
  /\ UNCHANGED <<dir, pidFile, linked, look, history>>

\* A recorded live process means "held"; anything else is a stale lock.
CheckPid(p) ==
  /\ pc[p] = "checkPid"
  /\ Goto(p, IF RecordsLiveProcess(seen[p]) THEN "idle" ELSE "staleTry")
  /\ seen' = [seen EXCEPT ![p] = NoFile]
  /\ UNCHANGED <<dir, pidFile, linked, look, history>>

(***************************************************************************)
(* os.RemoveAll on the lock path: rmdir first; if the directory is not     *)
(* empty, unlink what it holds and rmdir again.  An absent path is a       *)
(* success; a second rmdir that finds a new pid file is an error.          *)
(***************************************************************************)
RemoveEmptyDir(p, from, done) ==
  /\ pc[p] = from
  /\ ~dir \/ pidFile = NoFile
  /\ dir' = FALSE
  /\ Goto(p, done)
  /\ UNCHANGED <<pidFile, linked, seen, look, history>>

DirNotEmpty(p, from, next) ==
  /\ pc[p] = from
  /\ dir /\ pidFile # NoFile
  /\ Goto(p, next)
  /\ UNCHANGED <<dir, pidFile, linked, seen, look, history>>

UnlinkPid(p, from, next) ==
  /\ pc[p] = from
  /\ pidFile' = NoFile
  /\ linked' = {}
  /\ Goto(p, next)
  /\ UNCHANGED <<dir, seen, look, history>>

RemoveAll(p, try, unlink, rmdir, done) ==
  \/ RemoveEmptyDir(p, try, done)
  \/ DirNotEmpty(p, try, unlink)
  \/ UnlinkPid(p, unlink, rmdir)
  \/ RemoveEmptyDir(p, rmdir, done)
  \/ DirNotEmpty(p, rmdir, "idle")

RemoveStale(p) ==
  RemoveAll(p, "staleTry", "staleUnlink", "staleRmdir", "retryMkdir")

\* The mkdir after the stale lock is removed.
RetryMkdir(p) ==
  /\ pc[p] = "retryMkdir"
  /\ \/ CreateDir(p)
     \/ /\ dir
        /\ Goto(p, "retryRead")
        /\ UNCHANGED <<dir, pidFile, linked, seen, look, history>>
     \/ AcquireFails(p)

\* Somebody created the directory first: "held" or "stale-retry", both errors.
RetryRead(p) == pc[p] = "retryRead" /\ AcquireFails(p)

\* Restoring the profile owner of the directory; a failure leaves it behind.
ChownDir(p) ==
  /\ pc[p] = "chownDir"
  /\ \/ /\ HasOwner => dir
        /\ Goto(p, "openPid")
        /\ UNCHANGED <<dir, pidFile, linked, seen, look, history>>
     \/ HasOwner /\ AcquireFails(p)

\* os.WriteFile opens the pid file: it exists and is empty from here on.
OpenPid(p) ==
  /\ pc[p] = "openPid"
  /\ \/ /\ dir
        /\ pidFile' = Empty
        /\ linked' = linked \cup {p}
        /\ Goto(p, "writePid")
        /\ UNCHANGED <<dir, seen, look, history>>
     \/ ~dir /\ AcquireFails(p)

\* Mutant: the pid is never written to the file.
WritePidNothing(p) ==
  /\ pc[p] = "writePid"
  /\ linked' = linked \ {p}
  /\ Goto(p, "chownPid")
  /\ UNCHANGED <<dir, pidFile, seen, look, history>>

\* The write reaches the lock only if the open file is still linked there.
WritePid(p) ==
  /\ pc[p] = "writePid"
  /\ pidFile' = IF p \in linked THEN p ELSE pidFile
  /\ linked' = linked \ {p}
  /\ Goto(p, "chownPid")
  /\ UNCHANGED <<dir, seen, look, history>>

\* Restoring the owner of the pid file, the last step of Acquire.
ChownPid(p) ==
  /\ pc[p] = "chownPid"
  /\ \/ /\ HasOwner => pidFile # NoFile
        /\ Goto(p, "holding")
        /\ UNCHANGED <<dir, pidFile, linked, seen, look, history>>
     \/ HasOwner /\ AcquireFails(p)

Acquire(p) ==
  \/ BeginAcquire(p) \/ Mkdir(p) \/ ReadPid(p) \/ CheckPid(p)
  \/ RemoveStale(p) \/ RetryMkdir(p) \/ RetryRead(p)
  \/ ChownDir(p) \/ OpenPid(p) \/ WritePid(p) \/ ChownPid(p)

-----------------------------------------------------------------------------
(* Release. *)

BeginRelease(p) ==
  /\ pc[p] = "holding" /\ Begin
  /\ Goto(p, "relRead")
  /\ UNCHANGED <<dir, pidFile, linked, seen, look>>

\* A readable pid of another process means the lock is not ours; a missing or
\* unreadable pid file does not stop the removal.
ReleaseRead(p) ==
  /\ pc[p] = "relRead"
  /\ Goto(p, IF pidFile \in Proc \ {p} THEN "idle" ELSE "relTry")
  /\ UNCHANGED <<dir, pidFile, linked, seen, look, history>>

ReleaseRemove(p) ==
  RemoveAll(p, "relTry", "relUnlink", "relRmdir", "idle")

Release(p) == BeginRelease(p) \/ ReleaseRead(p) \/ ReleaseRemove(p)

-----------------------------------------------------------------------------
(***************************************************************************)
(* inspectLock, called by the health commands: a stat, the read of the pid *)
(* file and the question whether that process exists.  The lock may be     *)
(* released, broken and taken between any two of them.                     *)
(***************************************************************************)
\* An error of the stat ends the inspection without an answer.
InspectStat ==
  /\ ~Inspecting
  /\ inspect' \in {IF dir THEN "present" ELSE "absent", "none"}
  /\ UNCHANGED <<dir, pidFile, linked, pc, seen, inspected, history>>

\* A pid file that is not there or holds no number makes the lock a stale one.
InspectRead ==
  /\ inspect = "present"
  /\ \/ pidFile \in Proc /\ inspect' = "asking" /\ inspected' = pidFile
     \/ pidFile \notin Proc /\ inspect' = "stale" /\ UNCHANGED inspected
  /\ UNCHANGED <<dir, pidFile, linked, pc, seen, history>>

\* Mutant: a live holder is reported stale.
InspectProcessInverted ==
  /\ inspect = "asking"
  /\ inspect' = IF processExists(inspected) THEN "stale" ELSE "active"
  /\ inspected' = NoFile
  /\ UNCHANGED <<dir, pidFile, linked, pc, seen, history>>

InspectProcess ==
  /\ inspect = "asking"
  /\ inspect' = IF processExists(inspected) THEN "active" ELSE "stale"
  /\ inspected' = NoFile
  /\ UNCHANGED <<dir, pidFile, linked, pc, seen, history>>

Inspect == InspectStat \/ InspectRead \/ InspectProcess

-----------------------------------------------------------------------------
Next ==
  /\ \/ \E p \in Proc : \/ Start(p) \/ Die(p) \/ ForeignStart(p)
                        \/ Acquire(p) \/ Release(p)
     \/ Inspect
  /\ Observe

Spec == Init /\ [][Next]_vars
-----------------------------------------------------------------------------
(* Properties. *)

\* Two runs are never inside the locked region at once: the purpose of the
\* package ("to prevent concurrent backup runs for the same label").
MutualExclusion == \A p, q \in Proc : Holding(p) /\ Holding(q) => p = q

(***************************************************************************)
(* What each position in Acquire and Release knows about the lock path     *)
(* while calls do not overlap: an inductive invariant.                     *)
(***************************************************************************)
OneCall == \A p, q \in Proc : InCall(p) /\ InCall(q) => p = q

NoPidWithoutDir == ~dir => pidFile = NoFile

\* A holder, and a holder that is releasing, is the process on record.
OwnerRecorded ==
  \A p \in Proc : pc[p] \in {"holding", "relRead", "relTry", "relUnlink", "chownPid"}
                  => dir /\ pidFile = p

\* A process that is creating the lock has the directory to itself.
CreatorAlone ==
  \A p \in Proc :
    /\ pc[p] \in {"chownDir", "openPid"} => dir /\ pidFile = NoFile
    /\ pc[p] = "writePid" => dir /\ pidFile = Empty /\ p \in linked

\* A process that is breaking a stale lock breaks nobody's lock, and one that
\* is about to ask for a recorded pid has the holder's, if there is a holder.
BreakerSafe ==
  \A p, q \in Proc :
    /\ pc[p] \in {"staleTry", "staleUnlink", "staleRmdir", "retryMkdir", "relRmdir"}
         => ~Holding(q)
    /\ pc[p] = "checkPid" /\ Holding(q) => seen[p] = q

RetryFindsNoDir ==
  \A p \in Proc : /\ pc[p] = "retryMkdir" => ~dir
                  /\ pc[p] \in {"staleRmdir", "relRmdir"} => pidFile = NoFile
                  /\ pc[p] # "retryRead"

Exclusive == /\ OneCall
             /\ NoPidWithoutDir
             /\ OwnerRecorded
             /\ CreatorAlone
             /\ BreakerSafe
             /\ RetryFindsNoDir
SerialInv == serial => Exclusive

\* The lock directory implements the abstract mutex: a run's Acquire succeeds
\* only when no live run is between its Acquire and its Release.  A call that
\* overlaps another one ends the promise: the abstract holder leaves, for good.
Abstract == INSTANCE Mutex WITH holders <- IF serial THEN {p \in Proc : Holding(p)} ELSE {}
RefinesMutex == Abstract!Spec

(***************************************************************************)
(* An inspection may begin, read and end anywhere in the calls of others.  *)
(* When it answers "absent" or "stale", there was an instant since it      *)
(* began at which no run held the lock: a run that has the lock all the    *)
(* time is never reported as having none.  (Calls of Acquire that overlap  *)
(* may leave two holders, of which one is not on record.)                  *)
(***************************************************************************)
InspectSound ==
  [][serial' /\ inspect' # inspect /\ inspect' \in {"absent", "stale"} => lull']_vars

\* Why: a holder that has been there all the time is the one whose pid was read.
InspectInv ==
  serial /\ inspect = "asking" /\ ~lull => \E p \in Proc : Holding(p) /\ inspected = p

(***************************************************************************)
(* Even when calls overlap: once a holder's pid is on record and every     *)
(* other process is outside Acquire and Release, or in the part of Acquire *)
(* that only looks and has seen that holder, nobody but the holder itself  *)
(* can disturb the lock.                                                   *)
(***************************************************************************)
OnlyLooking(q, p) == \/ pc[q] \in {"unborn", "gone", "foreign", "idle", "mkdir", "readPid"}
                     \/ pc[q] = "checkPid" /\ seen[q] = p

Established(p) == /\ Holding(p) /\ dir /\ pidFile = p
                  /\ \A q \in Proc \ {p} : OnlyLooking(q, p)

LiveHolderUndisturbed ==
  [][\A p \in Proc : Established(p) /\ Holding(p)' => Established(p)']_vars
=============================================================================
