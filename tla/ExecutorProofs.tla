--------------------------- MODULE ExecutorProofs ---------------------------
(***************************************************************************)
(* Proofs about Executor, for any number of processes and storage entries. *)
(* First the pieces an action is built from, then one step per action.     *)
(***************************************************************************)
EXTENDS Executor, TLAPS

\* Moving a goroutine to a label of the program keeps pc a map of labels.
LEMMA GotoType ==
  ASSUME TypeOK, NEW r \in Run, NEW t \in Thread, NEW l \in Label, Goto(r, t, l)
  PROVE  pc' \in [Run -> [Thread -> Label]]
  BY DEF TypeOK, Goto

\* fail() and the completion of a phase keep the Executor's fields in range.
LEMMA FailedType ==
  ASSUME TypeOK, NEW r \in Run, Failed(r)
  PROVE  ExType'
  BY DEF TypeOK, ExType, Failed

LEMMA SucceedType ==
  ASSUME TypeOK, NEW r \in Run, NEW c, Succeed(r, c)
  PROVE  ExType'
  BY DEF TypeOK, ExType, Succeed

LEMMA AfterCommandLabel ==
  ASSUME NEW r \in Run, NEW c
  PROVE  AfterCommand(r, c) \in Label
  BY DEF AfterCommand, Label, SetupLabel, Duplicacy, CleanupLabel

\* A process works for one of the label's storage entries.
LEMMA RepoType ==
  ASSUME TypeOK, NEW r \in Run
  PROVE  Repo(r) \in Storage
<1>1. req[r] \in [op : Op, dryRun : BOOLEAN, storage : Storage]
  BY AskedAssumption DEF TypeOK
<1> QED
  BY <1>1 DEF Repo

\* Groups of variables a step leaves alone.
LEMMA UnchangedType ==
  ASSUME TypeOK
  PROVE  /\ UNCHANGED ex => ExType'
         /\ UNCHANGED out => OutType'
         /\ UNCHANGED locks => /\ held' \subseteq Run \X Thread
                               /\ source' \in Run \cup {Free}
                               /\ target' \in [Storage -> Run \cup {Free}]
         /\ UNCHANGED disk => /\ snapshot' \in [Run -> BOOLEAN]
                              /\ workRoot' \in [Run -> {"none", "dirs", "secrets"}]
  BY DEF TypeOK, ExType, OutType, ex, report, out, locks, disk

\* A step that only moves a goroutine.
LEMMA JumpType ==
  ASSUME TypeOK, NEW r \in Run, NEW t \in Thread, NEW l \in Label, Jump(r, t, l)
  PROVE  TypeOK'
<1>1. pc' \in [Run -> [Thread -> Label]]
  BY GotoType DEF Jump
<1> QED
  BY <1>1 DEF TypeOK, Jump, ex, report, locks, disk, out, ExType, OutType

\* Whoever a lock call leaves on record is a process or nobody.
LEMMA OnRecordType ==
  ASSUME NEW r \in Run, NEW owner \in Run \cup {Free}
  PROVE  LeftOnRecord(r, owner) \cup AfterRelease(r, owner) \subseteq Run \cup {Free}
  BY DEF LeftOnRecord, AfterRelease

\* A step that gives up and goes to cleanup(), whatever it has done to the locks.
LEMMA GiveUpType ==
  ASSUME TypeOK, NEW r \in Run, GiveUp(r), held' = held,
         source' \in Run \cup {Free}, target' \in [Storage -> Run \cup {Free}]
  PROVE  TypeOK'
<1>1. pc' \in [Run -> [Thread -> Label]]
  BY GotoType DEF GiveUp, Thread, Label, CleanupLabel
<1>2. ExType'
  BY FailedType DEF GiveUp
<1> QED
  BY <1>1, <1>2 DEF TypeOK, GiveUp, disk, out, OutType

LEMMA FailType ==
  ASSUME TypeOK, NEW r \in Run, Fail(r)
  PROVE  TypeOK'
  BY GiveUpType DEF Fail, TypeOK, locks

LEMMA SetupStepType ==
  ASSUME TypeOK, NEW r \in Run,
         \/ ConfirmSafetyRails(r) \/ AcquireTargetLock(r) \/ StartVisibleRun(r)
         \/ TakeSourceLock(r) \/ DropSourceLock(r)
         \/ CreateDirs(r) \/ WritePreferences(r) \/ FinishSetup(r)
  PROVE  TypeOK'
<1> USE DEF Label, SetupLabel, CleanupLabel, Duplicacy, Thread
<1>1. CASE ConfirmSafetyRails(r)
  BY <1>1, JumpType, FailType DEF ConfirmSafetyRails
<1>2. CASE AcquireTargetLock(r)
  <2>0. target' \in [Storage -> Run \cup {Free}]
    <3>1. target[Repo(r)] \in Run \cup {Free}
      BY RepoType DEF TypeOK
    <3> QED
      BY <1>2, <3>1, OnRecordType DEF AcquireTargetLock, TypeOK
  <2>1. CASE GiveUp(r)
    BY <1>2, <2>0, <2>1, GiveUpType DEF AcquireTargetLock, TypeOK
  <2>2. CASE ~GiveUp(r)
    <3>1. pc' \in [Run -> [Thread -> Label]]
      BY <1>2, <2>2, GotoType DEF AcquireTargetLock
    <3>2. UNCHANGED <<req, proc, child, ex, held, source, disk, out>>
      BY <1>2, <2>2 DEF AcquireTargetLock
    <3> QED
      BY <2>0, <3>1, <3>2, UnchangedType DEF TypeOK
  <2> QED BY <2>1, <2>2
<1>3. CASE StartVisibleRun(r)
  <2>1. pc' \in [Run -> [Thread -> Label]]
    BY <1>3, GotoType DEF StartVisibleRun
  <2>2. phase' \in [Run -> {"none", "running", "success", "failed"}]
    BY <1>3 DEF StartVisibleRun, TypeOK, ExType
  <2>3. acquired' \in [Run -> BOOLEAN]
    BY <1>3 DEF StartVisibleRun, TypeOK, ExType
  <2>4. ExType'
    BY <1>3, <2>2, <2>3 DEF StartVisibleRun, TypeOK, ExType
  <2> QED
    BY <1>3, <2>1, <2>4, UnchangedType DEF StartVisibleRun, TypeOK
<1>4. CASE TakeSourceLock(r)
  <2>0. source' \in Run \cup {Free}
    BY <1>4, OnRecordType DEF TakeSourceLock, TypeOK
  <2>1. CASE GiveUp(r)
    BY <1>4, <2>0, <2>1, GiveUpType DEF TakeSourceLock, TypeOK
  <2>2. CASE ~GiveUp(r)
    <3>1. pc' \in [Run -> [Thread -> Label]]
      BY <1>4, <2>2, GotoType DEF TakeSourceLock
    <3>2. UNCHANGED <<req, proc, child, ex, held, target, disk, out>>
      BY <1>4, <2>2 DEF TakeSourceLock
    <3> QED
      BY <2>0, <3>1, <3>2, UnchangedType DEF TypeOK
  <2> QED BY <2>1, <2>2
<1>5. CASE DropSourceLock(r)
  <2>1. pc' \in [Run -> [Thread -> Label]]
    BY <1>5, GotoType DEF DropSourceLock
  <2>2. ExType'
    BY <1>5, FailedType DEF DropSourceLock, TypeOK, ExType, ex, report
  <2>3. source' \in Run \cup {Free}
    BY <1>5, OnRecordType DEF DropSourceLock, TypeOK
  <2> QED
    BY <1>5, <2>1, <2>2, <2>3 DEF DropSourceLock, TypeOK, disk, out, OutType
<1>6. ASSUME NEW here \in Label, NEW next \in Label, NEW need,
             NEW made \in {"dirs", "secrets"}, WorkStep(r, here, next, need, made)
      PROVE  TypeOK'
  <2>1. CASE Fail(r)
    BY <2>1, FailType
  <2>2. CASE Jump(r, "main", next)
    BY <2>2, JumpType
  <2>3. CASE ~Fail(r) /\ ~Jump(r, "main", next)
    <3>1. pc' \in [Run -> [Thread -> Label]]
      BY <1>6, <2>3, GotoType DEF WorkStep
    <3>2. workRoot' = [workRoot EXCEPT ![r] = made]
          /\ UNCHANGED <<req, proc, child, ex, locks, snapshot, out>>
      BY <1>6, <2>3 DEF WorkStep
    <3>3. workRoot' \in [Run -> {"none", "dirs", "secrets"}]
      BY <1>6, <3>2 DEF TypeOK
    <3> QED
      BY <3>1, <3>2, <3>3, UnchangedType DEF TypeOK
  <2> QED BY <2>1, <2>2, <2>3
<1>7. CASE CreateDirs(r) \/ WritePreferences(r)
  BY <1>7, <1>6 DEF CreateDirs, WritePreferences
<1>8. CASE FinishSetup(r)
  <2>1. CASE Fail(r)
    BY <2>1, FailType
  <2>2. CASE ~Fail(r)
    <3>1. FirstCommand(r) \in Label
      BY DEF FirstCommand
    <3>2. pc' \in [Run -> [Thread -> Label]]
      BY <1>8, <2>2, <3>1, GotoType DEF FinishSetup
    <3> QED
      BY <1>8, <2>2, <3>2 DEF FinishSetup, TypeOK, locks, disk, out, ExType, OutType
  <2> QED BY <2>1, <2>2
<1> QED
  BY <1>1, <1>2, <1>3, <1>4, <1>5, <1>7, <1>8

\* A warning is one of the warnings there are.
LEMMA WarnType ==
  ASSUME TypeOK, NEW r \in Run, NEW w \in Warning, Warn(r, w)
  PROVE  warned' \in [Run -> SUBSET Warning]
  BY DEF TypeOK, OutType, Warn

LEMMA CommandStepType ==
  ASSUME TypeOK, NEW r \in Run,
         \/ \E c \in Duplicacy \cup {"create"} : StartCommand(r, c)
         \/ EnforcePrunePreview(r)
         \/ \E t \in Thread : CommandEnds(r, t)
  PROVE  TypeOK'
<1>1. ASSUME NEW c \in Duplicacy \cup {"create"}, StartCommand(r, c) PROVE TypeOK'
  <2>1. CASE Fail(r)
    BY <2>1, FailType
  <2>2. CASE child' = [child EXCEPT ![r]["main"] = c] /\ UNCHANGED <<pc, ex>>
    BY <1>1, <2>2 DEF StartCommand, Fail, GiveUp, Goto, TypeOK, Thread, Btrfs,
                      ex, report, locks, disk, out, ExType, OutType
  <2>3. CASE Goto(r, "main", AfterCommand(r, c)) /\ Succeed(r, c)
    <3>1. pc' \in [Run -> [Thread -> Label]]
      BY <2>3, GotoType, AfterCommandLabel DEF Thread
    <3>2. ExType'
      BY <2>3, SucceedType
    <3> QED
      BY <1>1, <3>1, <3>2 DEF StartCommand, Fail, GiveUp, TypeOK, Thread, Btrfs,
                              locks, disk, out, OutType
  <2> QED BY <1>1, <2>1, <2>2, <2>3 DEF StartCommand
<1>2. CASE EnforcePrunePreview(r)
  BY <1>2, JumpType, FailType DEF EnforcePrunePreview, Label, Duplicacy, Thread
<1>3. ASSUME NEW t \in Thread, CommandEnds(r, t) PROVE TypeOK'
  <2> DEFINE c == child[r][t]
  <2>1. PICK ok \in BOOLEAN :
          \/ ~Alive(r) /\ UNCHANGED <<pc, ex, out>>
          \/ Alive(r) /\ c # "delete" /\ MainResumes(r, c, ok)
          \/ Alive(r) /\ c = "delete" /\ DeleteResumes(r, t, ok)
    BY <1>3 DEF CommandEnds
  <2>2. pc' \in [Run -> [Thread -> Label]]
    <3> USE DEF Thread, Label, SetupLabel, CleanupLabel
    <3>1. CASE UNCHANGED pc
      BY <3>1 DEF TypeOK
    <3>2. CASE MainResumes(r, c, ok)
      BY <3>2, GotoType, AfterCommandLabel DEF MainResumes
    <3>3. CASE DeleteResumes(r, t, ok)
      BY <3>3, GotoType DEF DeleteResumes
    <3> QED BY <2>1, <3>1, <3>2, <3>3
  <2>3. ExType'
    BY <2>1, FailedType, SucceedType
       DEF TypeOK, ExType, ex, report, MainResumes, DeleteResumes
  <2>4. OutType'
    BY <2>1, WarnType DEF TypeOK, OutType, out, MainResumes, DeleteResumes, Warning
  <2>5. snapshot' \in [Run -> BOOLEAN]
    BY <1>3 DEF CommandEnds, TypeOK
  <2> QED
    BY <1>3, <2>2, <2>3, <2>4, <2>5 DEF CommandEnds, TypeOK, locks
<1> QED
  BY <1>1, <1>2, <1>3

LEMMA CleanupStepType ==
  ASSUME TypeOK, NEW r \in Run, NEW t \in Thread, CleanupStep(r, t)
  PROVE  TypeOK'
<1> USE DEF Label, CleanupLabel
<1>1. CASE CheckCleanedUp(r, t)
  BY <1>1, JumpType DEF CheckCleanedUp
<1>2. CASE DeleteSnapshot(r, t)
  <2>1. CASE Jump(r, t, "removeDir")
    BY <2>1, JumpType
  <2>2. CASE ~Jump(r, t, "removeDir")
    <3>1. child' = [child EXCEPT ![r][t] = "delete"]
          /\ UNCHANGED <<req, proc, pc, ex, locks, disk, out>>
      BY <1>2, <2>2 DEF DeleteSnapshot, locks
    <3>2. child' \in [Run -> [Thread -> Duplicacy \cup Btrfs \cup {"none"}]]
      BY <3>1 DEF TypeOK, Btrfs
    <3> QED
      BY <3>1, <3>2, UnchangedType DEF TypeOK
  <2> QED BY <2>1, <2>2
<1>3. CASE Leave(r, t)
  <2>1. OutType'
    BY <1>3, WarnType DEF Leave, Exit, TypeOK, out, OutType, Warning
  <2>2. proc' \in [Run -> {"new", "running", "exit0", "exit1", "killed"}]
    BY <1>3 DEF Leave, Exit, TypeOK
  <2>3. UNCHANGED <<req, pc, child, ex, locks, disk>>
    BY <1>3 DEF Leave, Exit
  <2> QED
    BY <2>1, <2>2, <2>3, UnchangedType DEF TypeOK
<1>4. CASE ~CheckCleanedUp(r, t) /\ ~DeleteSnapshot(r, t) /\ ~Leave(r, t)
  <2>1. pc' \in [Run -> [Thread -> Label]]
    BY <1>4, GotoType
       DEF CleanupStep, MarkCleanedUp, SourceAgain, RemoveSnapshotDir, ReleaseSource,
           CleanupWorkRoot, ReleaseTargetLock, CompleteRun, MaybeNotify, UpdateRunState
  <2>2. CASE MarkCleanedUp(r, t) \/ CompleteRun(r, t)
    BY <2>1, <2>2 DEF MarkCleanedUp, CompleteRun, TypeOK, report, locks, disk, out, ExType, OutType
  <2>3. CASE SourceAgain(r, t) \/ ReleaseSource(r, t) \/ ReleaseTargetLock(r, t)
    <3>1. /\ held' \subseteq Run \X Thread
          /\ source' \in Run \cup {Free}
      BY <2>3, OnRecordType DEF SourceAgain, ReleaseSource, ReleaseTargetLock, TypeOK
    <3>2. target' \in [Storage -> Run \cup {Free}]
      <4>1. target[Repo(r)] \in Run \cup {Free}
        BY RepoType DEF TypeOK
      <4> QED
        BY <2>3, <4>1, OnRecordType DEF SourceAgain, ReleaseSource, ReleaseTargetLock, TypeOK
    <3>3. OutType'
      BY <2>3, WarnType
         DEF SourceAgain, ReleaseSource, ReleaseTargetLock, TypeOK, OutType, out, Warning
    <3>4. UNCHANGED <<req, proc, child, ex, disk>>
      BY <2>3 DEF SourceAgain, ReleaseSource, ReleaseTargetLock
    <3> QED
      BY <2>1, <3>1, <3>2, <3>3, <3>4, UnchangedType DEF TypeOK
  <2>4. CASE RemoveSnapshotDir(r, t) \/ CleanupWorkRoot(r, t)
    <3>1. snapshot' \in [Run -> BOOLEAN]
      BY <2>4 DEF RemoveSnapshotDir, CleanupWorkRoot, TypeOK
    <3>2. workRoot' \in [Run -> {"none", "dirs", "secrets"}]
      BY <2>4 DEF RemoveSnapshotDir, CleanupWorkRoot, TypeOK
    <3>3. OutType'
      BY <2>4, WarnType DEF RemoveSnapshotDir, CleanupWorkRoot, TypeOK, OutType, Warning
    <3>4. UNCHANGED <<req, proc, child, ex, locks>>
      BY <2>4 DEF RemoveSnapshotDir, CleanupWorkRoot
    <3> QED
      BY <2>1, <3>1, <3>2, <3>3, <3>4, UnchangedType DEF TypeOK
  <2>5. CASE MaybeNotify(r, t) \/ UpdateRunState(r, t)
    <3>1. CASE MaybeNotify(r, t)
      <4>1. notified' = [notified EXCEPT ![r] = notified[r] \/ Notifiable(r)]
        BY <3>1 DEF MaybeNotify
      <4>2. notified' \in [Run -> BOOLEAN]
        BY <4>1, Zenon DEF TypeOK, OutType
      <4>3. OutType'
        BY <3>1, <4>2 DEF MaybeNotify, TypeOK, OutType
      <4> QED
        BY <2>1, <3>1, <4>3, UnchangedType DEF MaybeNotify, TypeOK
    <3>2. CASE UpdateRunState(r, t)
      <4>1. recorded' = [recorded EXCEPT ![r] = result[r]] \/ UNCHANGED recorded
        BY <3>2 DEF UpdateRunState
      <4>2. result[r] \in {"success", "failed"}
        BY DEF TypeOK, ExType
      <4>3. recorded' \in [Run -> {"none", "success", "failed"}]
        BY <4>1, <4>2 DEF TypeOK, OutType
      <4>4. OutType'
        BY <3>2, <4>3 DEF UpdateRunState, TypeOK, OutType
      <4> QED
        BY <2>1, <3>2, <4>4, UnchangedType DEF UpdateRunState, TypeOK
    <3> QED BY <2>5, <3>1, <3>2
  <2> QED
    BY <1>4, <2>2, <2>3, <2>4, <2>5 DEF CleanupStep
<1> QED
  BY <1>1, <1>2, <1>3, <1>4

-----------------------------------------------------------------------------
LEMMA InitType == Init => TypeOK
  BY AskedAssumption DEF Init, TypeOK, ExType, OutType, Op, Label, SetupLabel, CleanupLabel,
         Duplicacy, Btrfs, Thread

LEMMA NextType ==
  ASSUME TypeOK, [Next]_vars
  PROVE  TypeOK'
<1>1. CASE UNCHANGED vars
  BY <1>1, UnchangedType DEF vars, TypeOK
<1>2. ASSUME NEW r \in Run, Begin(r) \/ Kill(r) PROVE TypeOK'
  <2>1. proc' \in [Run -> {"new", "running", "exit0", "exit1", "killed"}]
    BY <1>2 DEF Begin, Kill, Exit, TypeOK
  <2> QED
    BY <1>2, <2>1, UnchangedType DEF Begin, Kill, Exit, TypeOK
<1>3. ASSUME NEW r \in Run, Interrupt(r) PROVE TypeOK'
  <2>1. pc' \in [Run -> [Thread -> Label]]
    BY <1>3, GotoType DEF Interrupt, Thread, Label, CleanupLabel
  <2>2. ExType'
    BY <1>3 DEF Interrupt, TypeOK, ExType, report
  <2> QED
    BY <1>3, <2>1, <2>2, UnchangedType DEF Interrupt, TypeOK
<1>4. ASSUME NEW r \in Run, MainStep(r) PROVE TypeOK'
  BY <1>4, SetupStepType, CommandStepType DEF MainStep
<1>5. ASSUME NEW r \in Run, NEW t \in Thread, CommandEnds(r, t) \/ CleanupStep(r, t)
      PROVE  TypeOK'
  BY <1>5, CommandStepType, CleanupStepType
<1> QED
  BY <1>1, <1>2, <1>3, <1>4, <1>5 DEF Next

\* The fields of the Executor, the locks and the labels keep their types.
THEOREM TypeCorrect == Spec => []TypeOK
  BY InitType, NextType, PTL DEF Spec

-----------------------------------------------------------------------------
(* Whose step it is. *)

Step(r) == \/ Begin(r) \/ Kill(r) \/ Interrupt(r) \/ MainStep(r)
           \/ \E t \in Thread : CommandEnds(r, t) \/ CleanupStep(r, t)

\* A process's own part of the state.
Mine(q) == <<proc[q], pc[q], child[q], exitCode[q], lastErr[q], phase[q], result[q],
             recorded[q]>>

LEMMA StepIsOfOne ==
  ASSUME TypeOK, NEW r \in Run, Step(r), NEW q \in Run \ {r}
  PROVE  UNCHANGED Mine(q)
<1> USE DEF TypeOK, ExType, OutType, Mine, ex, report, locks, disk, out, Goto
<1>1. CASE Begin(r) \/ Kill(r) \/ Interrupt(r)
  BY <1>1 DEF Begin, Kill, Exit, Interrupt
<1>2. CASE MainStep(r)
  BY <1>2 DEF MainStep, ConfirmSafetyRails, AcquireTargetLock, StartVisibleRun,
              TakeSourceLock, DropSourceLock, CreateDirs, WritePreferences, WorkStep,
              FinishSetup, StartCommand, EnforcePrunePreview, Jump, Fail, GiveUp, Failed, Succeed
<1>3. ASSUME NEW t \in Thread, CommandEnds(r, t) PROVE UNCHANGED Mine(q)
  BY <1>3 DEF CommandEnds, MainResumes, DeleteResumes, Failed, Succeed
<1>4. ASSUME NEW t \in Thread, CleanupStep(r, t) PROVE UNCHANGED Mine(q)
  BY <1>4 DEF CleanupStep, CheckCleanedUp, MarkCleanedUp, SourceAgain, DeleteSnapshot,
              RemoveSnapshotDir, ReleaseSource, CleanupWorkRoot, ReleaseTargetLock,
              CompleteRun, MaybeNotify, UpdateRunState, Leave, Exit, Jump
<1> QED
  BY <1>1, <1>2, <1>3, <1>4 DEF Step

-----------------------------------------------------------------------------
(* The locks. *)

\* A repository lock changes hands only when nobody alive is on record, to the
\* process that asks for it or to nobody, and is given up only by the process on
\* record.
LEMMA TargetStep ==
  ASSUME TypeOK, NEW r \in Run, Step(r), NEW s \in Storage
  PROVE  \/ target'[s] = target[s]
         \/ /\ Takeable(target[s]) \/ target[s] = r
            /\ target'[s] \in {r, Free}
            /\ target'[s] = Free \/ Takeable(target[s])
            /\ UNCHANGED <<req, proc>>
<1>1. CASE UNCHANGED target
  BY <1>1
<1>2. CASE AcquireTargetLock(r)
  BY <1>2 DEF AcquireTargetLock, GiveUp, LeftOnRecord, TypeOK
<1>3. ASSUME NEW t \in Thread, ReleaseTargetLock(r, t)
      PROVE  \/ target'[s] = target[s]
             \/ target[s] = r /\ target'[s] = Free /\ UNCHANGED <<req, proc>>
  BY <1>3 DEF ReleaseTargetLock, AfterRelease, TypeOK
<1>4. \/ UNCHANGED target
      \/ AcquireTargetLock(r)
      \/ \E t \in Thread : ReleaseTargetLock(r, t)
  <2> USE DEF locks
  <2>1. ASSUME Begin(r) \/ Kill(r) \/ Interrupt(r) PROVE UNCHANGED target
    BY <2>1 DEF Begin, Kill, Exit, Interrupt
  <2>2. ASSUME MainStep(r) PROVE UNCHANGED target \/ AcquireTargetLock(r)
    BY <2>2 DEF MainStep, ConfirmSafetyRails, StartVisibleRun, TakeSourceLock,
                DropSourceLock, CreateDirs, WritePreferences, WorkStep, FinishSetup,
                StartCommand, EnforcePrunePreview, Jump, Fail
  <2>3. ASSUME NEW t \in Thread, CommandEnds(r, t) PROVE UNCHANGED target
    BY <2>3 DEF CommandEnds
  <2>4. ASSUME NEW t \in Thread, CleanupStep(r, t)
        PROVE  UNCHANGED target \/ ReleaseTargetLock(r, t)
    BY <2>4 DEF CleanupStep, CheckCleanedUp, MarkCleanedUp, SourceAgain, DeleteSnapshot,
                RemoveSnapshotDir, ReleaseSource, CleanupWorkRoot, CompleteRun,
                MaybeNotify, UpdateRunState, Leave, Exit, Jump
  <2> QED
    BY <2>1, <2>2, <2>3, <2>4 DEF Step
<1> QED
  BY <1>1, <1>2, <1>3, <1>4

\* The same, whoever moves.
LEMMA TargetChange ==
  ASSUME TypeOK, [Next]_vars, NEW s \in Storage
  PROVE  \/ target'[s] = target[s]
         \/ Takeable(target[s]) \/ target'[s] = Free
<1>1. CASE UNCHANGED vars
  BY <1>1 DEF vars, locks
<1>2. CASE \E r \in Run : Step(r)
  BY <1>2, TargetStep
<1> QED
  BY <1>1, <1>2 DEF Next, Step

\* Each repository lock implements the abstract mutex, whatever is killed or
\* interrupted: its holders are at most the one process on record.
THEOREM LocksAreMutexes == Spec => RefinesMutex
<1>1. Init => \A s \in Storage : Repository(s)!Init
  BY DEF Init, Repository!Init, Holders, Alive
<1>2. ASSUME TypeOK, [Next]_vars
      PROVE  [\A s \in Storage : [Repository(s)!Next]_(Holders(s))]_vars
  <2> SUFFICES ASSUME NEW s \in Storage
               PROVE  [Repository(s)!Next]_(Holders(s))
    OBVIOUS
  <2>1. Holders(s) = {} \/ (target[s] \in Run /\ Holders(s) = {target[s]})
    BY DEF Holders
  <2>2. Holders(s)' = {} \/ (target'[s] \in Run /\ Holders(s)' = {target'[s]})
    BY DEF Holders
  <2>3. ASSUME NEW p \in Run, Holders(s) = {}, Holders(s)' = {p}
        PROVE  Repository(s)!Next
    BY <2>3 DEF Repository!Next, Repository!Enter
  <2>4. ASSUME NEW p \in Run, Holders(s) = {p}, Holders(s)' = {}
        PROVE  Repository(s)!Next
    BY <2>4 DEF Repository!Next, Repository!Leave
  <2>5. CASE target'[s] = target[s]
    BY <2>1, <2>2, <2>3, <2>4, <2>5
  <2>6. CASE Takeable(target[s])
    <3>1. Holders(s) = {}
      BY <2>6 DEF Takeable, Holders
    <3> QED
      BY <2>2, <2>3, <3>1
  <2>7. CASE target'[s] = Free
    <3>1. Holders(s)' = {}
      BY <2>7, FreeAssumption DEF Holders
    <3> QED
      BY <2>1, <2>4, <3>1
  <2> QED
    BY <1>2, <2>5, <2>6, <2>7, TargetChange
<1>3. TypeOK /\ [Next]_vars
        => [\A s \in Storage : [Repository(s)!Next]_(Holders(s))]_vars
  BY <1>2
<1> QED
  BY <1>1, <1>3, TypeCorrect, PTL DEF Spec, RefinesMutex

-----------------------------------------------------------------------------
(* Success is true. *)

\* A process whose own part does not change keeps its invariant.
LEMMA OthersKeepInv ==
  ASSUME NEW q \in Run, UNCHANGED Mine(q), OwnCommand(q), Truthful(q)
  PROVE  OwnCommand(q)' /\ Truthful(q)'
  BY DEF Mine, OwnCommand, Truthful, Alive

\* The labels main moves to before its cleanup are not labels of the cleanup.
LEMMA SetupStepTruthful ==
  ASSUME TypeOK, NEW r \in Run, OwnCommand(r), Truthful(r),
         \/ ConfirmSafetyRails(r) \/ AcquireTargetLock(r) \/ StartVisibleRun(r)
         \/ TakeSourceLock(r) \/ DropSourceLock(r)
         \/ CreateDirs(r) \/ WritePreferences(r) \/ FinishSetup(r)
         \/ EnforcePrunePreview(r)
  PROVE  OwnCommand(r)' /\ Truthful(r)'
<1> USE DEF TypeOK, ExType, OutType, OwnCommand, Truthful, At, Alive, Goto,
            ex, report, out, CleanupLabel, Thread
<1>1. ASSUME GiveUp(r), pc[r]["main"] \notin CleanupLabel, child[r]["main"] = "none"
      PROVE  OwnCommand(r)' /\ Truthful(r)'
  BY <1>1 DEF GiveUp, Failed
<1>2. ASSUME NEW l \in Label \ (CleanupLabel \cup {"wait"}), Goto(r, "main", l),
             pc[r]["main"] \notin CleanupLabel, child[r]["main"] = "none",
             UNCHANGED <<proc, child, exitCode, lastErr, result, recorded>>,
             phase'[r] = phase[r] \/ phase'[r] = "running"
      PROVE  OwnCommand(r)' /\ Truthful(r)'
  BY <1>2
<1>3. CASE ConfirmSafetyRails(r) \/ AcquireTargetLock(r) \/ TakeSourceLock(r)
           \/ EnforcePrunePreview(r)
  BY <1>1, <1>2, <1>3 DEF ConfirmSafetyRails, AcquireTargetLock, TakeSourceLock,
       EnforcePrunePreview, Jump, Fail, Label, SetupLabel, Duplicacy
<1>4. CASE StartVisibleRun(r) \/ FinishSetup(r)
  BY <1>1, <1>2, <1>4 DEF StartVisibleRun, FinishSetup, FirstCommand,
       Fail, Label, SetupLabel, Duplicacy
<1>5. CASE CreateDirs(r) \/ WritePreferences(r)
  BY <1>1, <1>2, <1>5 DEF CreateDirs, WritePreferences, WorkStep, Jump,
       Fail, Label, SetupLabel, Duplicacy
<1>6. CASE DropSourceLock(r)
  BY <1>2, <1>6 DEF DropSourceLock, Failed, Label, SetupLabel, Duplicacy
<1> QED
  BY <1>3, <1>4, <1>5, <1>6

LEMMA CommandStepTruthful ==
  ASSUME TypeOK, NEW r \in Run, OwnCommand(r), Truthful(r),
         \/ \E c \in Duplicacy \cup {"create"} : StartCommand(r, c)
         \/ \E t \in Thread : CommandEnds(r, t)
  PROVE  OwnCommand(r)' /\ Truthful(r)'
<1> USE DEF TypeOK, ExType, OutType, OwnCommand, Truthful, Alive, Goto,
            ex, report, out, CleanupLabel, Thread, Duplicacy, Btrfs
<1>1. ASSUME NEW c \in Duplicacy \cup {"create"}, StartCommand(r, c)
      PROVE  OwnCommand(r)' /\ Truthful(r)'
  BY <1>1 DEF StartCommand, At, AfterCommand, LastCommand, Succeed, Fail, GiveUp, Failed
<1>2. CASE CommandEnds(r, "main")
  BY <1>2 DEF CommandEnds, MainResumes, DeleteResumes, AfterCommand, LastCommand,
              Succeed, Failed
<1>3. CASE CommandEnds(r, "sig")
  BY <1>3 DEF CommandEnds, DeleteResumes
<1> QED
  BY <1>1, <1>2, <1>3

LEMMA CleanupStepTruthful ==
  ASSUME TypeOK, NEW r \in Run, OwnCommand(r), Truthful(r), NEW t \in Thread,
         CleanupStep(r, t)
  PROVE  OwnCommand(r)' /\ Truthful(r)'
<1> USE DEF TypeOK, ExType, OutType, OwnCommand, Truthful, At, Alive, Goto,
            ex, report, out, CleanupLabel, Thread
<1>1. CASE Leave(r, t)
  BY <1>1 DEF Leave, Exit
<1>2. CASE CompleteRun(r, t)
  BY <1>2 DEF CompleteRun
<1>3. CASE UpdateRunState(r, t)
  BY <1>3 DEF UpdateRunState
<1>4. CASE DeleteSnapshot(r, t)
  BY <1>4 DEF DeleteSnapshot, Jump
<1>5. CASE CheckCleanedUp(r, t) \/ MarkCleanedUp(r, t) \/ SourceAgain(r, t)
           \/ RemoveSnapshotDir(r, t) \/ ReleaseSource(r, t) \/ CleanupWorkRoot(r, t)
           \/ ReleaseTargetLock(r, t) \/ MaybeNotify(r, t)
  BY <1>5 DEF CheckCleanedUp, MarkCleanedUp, SourceAgain, RemoveSnapshotDir,
              ReleaseSource, CleanupWorkRoot, ReleaseTargetLock, MaybeNotify, Jump
<1> QED
  BY <1>1, <1>2, <1>3, <1>4, <1>5 DEF CleanupStep

LEMMA StartAndStopTruthful ==
  ASSUME TypeOK, NEW r \in Run, OwnCommand(r), Truthful(r),
         \/ Begin(r) \/ Kill(r) \/ Interrupt(r)
  PROVE  OwnCommand(r)' /\ Truthful(r)'
<1> USE DEF TypeOK, ExType, OutType, OwnCommand, Truthful, At, Alive, Goto,
            ex, report, out, CleanupLabel, Thread
<1>1. CASE Begin(r)
  BY <1>1 DEF Begin
<1>2. CASE Kill(r)
  BY <1>2 DEF Kill, Exit
<1>3. CASE Interrupt(r)
  BY <1>3 DEF Interrupt
<1> QED
  BY <1>1, <1>2, <1>3

\* Main reaches its cleanup done or with an error, and says so.
THEOREM SuccessInvariant == Spec => []SuccessInv
<1>1. Init => SuccessInv
  <2> SUFFICES ASSUME Init, NEW r \in Run PROVE OwnCommand(r) /\ Truthful(r)
    BY DEF SuccessInv
  <2>1. /\ proc[r] = "new" /\ pc[r]["main"] = "confirm" /\ pc[r]["sig"] = "wait"
        /\ child[r]["main"] = "none" /\ child[r]["sig"] = "none"
        /\ phase[r] = "none" /\ recorded[r] = "none"
    BY DEF Init, Thread
  <2> QED
    BY <2>1 DEF OwnCommand, Truthful, CleanupLabel, Thread, Alive
<1>2. ASSUME TypeOK, SuccessInv, [Next]_vars PROVE SuccessInv'
  <2>1. CASE UNCHANGED vars
    BY <1>2, <2>1, OthersKeepInv DEF SuccessInv, vars, ex, report, out, Mine
  <2>2. ASSUME NEW r \in Run, Step(r), NEW q \in Run PROVE OwnCommand(q)' /\ Truthful(q)'
    <3>1. CASE q # r
      BY <1>2, <2>2, <3>1, StepIsOfOne, OthersKeepInv DEF SuccessInv
    <3>2. OwnCommand(r) /\ Truthful(r)
      BY <1>2 DEF SuccessInv
    <3>3. CASE q = r /\ (Begin(r) \/ Kill(r) \/ Interrupt(r))
      BY <1>2, <3>2, <3>3, StartAndStopTruthful
    <3>4. CASE q = r /\ ~(Begin(r) \/ Kill(r) \/ Interrupt(r))
      BY <1>2, <2>2, <3>2, <3>4, SetupStepTruthful, CommandStepTruthful,
         CleanupStepTruthful DEF Step, MainStep
    <3> QED
      BY <3>1, <3>3, <3>4
  <2> QED
    BY <1>2, <2>1, <2>2 DEF Next, Step, SuccessInv
<1>3. TypeOK /\ SuccessInv /\ [Next]_vars => SuccessInv'
  BY <1>2
<1> QED
  BY <1>1, <1>3, TypeCorrect, PTL DEF Spec

\* Success, as an exit status or in the state file, is only ever reported by a
\* process whose tracked phase ran to its end, whatever interrupts it.
THEOREM SuccessReportedTruly == Spec => []SuccessIsTrue
<1>1. SuccessInv => SuccessIsTrue
  BY DEF SuccessInv, Truthful, SuccessIsTrue
<1> QED
  BY <1>1, SuccessInvariant, PTL

-----------------------------------------------------------------------------
(* One repository phase at a time, among processes that are not disturbed. *)

LEMMA LockInvInit == Init => LockInv
<1> SUFFICES ASSUME Init, NEW r \in Run
             PROVE  /\ pc[r]["main"] = "confirm" /\ pc[r]["sig"] = "wait"
                    /\ child[r]["main"] = "none" /\ child[r]["sig"] = "none"
  BY DEF LockInv, OnRecord, Undisturbed, LockedLabel, Duplicacy
<1> QED
  BY DEF Init, Thread

\* The others are not disturbed: their lock is neither taken nor given up.
LEMMA OthersStayOnRecord ==
  ASSUME TypeOK, NEW r \in Run, Step(r), NEW q \in Run \ {r}, OnRecord(q)
  PROVE  OnRecord(q)'
<1>1. UNCHANGED Mine(q) /\ UNCHANGED req
  <2>1. UNCHANGED req
    BY DEF Step, Begin, Kill, Exit, Interrupt, MainStep, ConfirmSafetyRails,
           AcquireTargetLock, StartVisibleRun, TakeSourceLock, DropSourceLock,
           CreateDirs, WritePreferences, WorkStep, FinishSetup, StartCommand,
           EnforcePrunePreview, Jump, Fail, GiveUp, CommandEnds, CleanupStep, CheckCleanedUp,
           MarkCleanedUp, SourceAgain, DeleteSnapshot, RemoveSnapshotDir, ReleaseSource,
           CleanupWorkRoot, ReleaseTargetLock, CompleteRun, MaybeNotify, UpdateRunState,
           Leave
  <2> QED
    BY <2>1, StepIsOfOne
<1>2. Repo(q) \in Storage
  BY RepoType
<1>3. \/ target'[Repo(q)] = target[Repo(q)]
      \/ Takeable(target[Repo(q)]) \/ target[Repo(q)] = r
  BY <1>2, TargetStep
<1> QED
  BY <1>1, <1>3 DEF Mine, OnRecord, Undisturbed, Alive, Repo, Takeable

LEMMA StepOnRecord ==
  ASSUME TypeOK, NEW r \in Run, Step(r), OnRecord(r)
  PROVE  OnRecord(r)'
<1> USE DEF TypeOK, OnRecord, Undisturbed, LockedLabel, Duplicacy, Thread, At, Alive, Goto, Repo, locks
<1>1. CASE Begin(r) \/ Kill(r) \/ Interrupt(r)
  BY <1>1 DEF Begin, Kill, Exit, Interrupt
<1>2. CASE MainStep(r)
  <2>0. child[r]["main"] = "none"
    BY <1>2 DEF MainStep, ConfirmSafetyRails, AcquireTargetLock, StartVisibleRun,
       TakeSourceLock, DropSourceLock, CreateDirs, WritePreferences, WorkStep,
       FinishSetup, StartCommand, EnforcePrunePreview
  <2>1. CASE GiveUp(r)
    BY <2>0, <2>1 DEF GiveUp
  <2>2. CASE ConfirmSafetyRails(r) \/ AcquireTargetLock(r)
    BY <2>1, <2>2, RepoType DEF ConfirmSafetyRails, AcquireTargetLock, Jump, Fail
  <2>3. CASE StartVisibleRun(r) \/ TakeSourceLock(r) \/ DropSourceLock(r)
    BY <2>1, <2>3 DEF StartVisibleRun, TakeSourceLock, DropSourceLock
  <2>4. CASE CreateDirs(r) \/ WritePreferences(r)
    BY <2>1, <2>4 DEF CreateDirs, WritePreferences, WorkStep, Jump, Fail
  <2>5. CASE FinishSetup(r) \/ EnforcePrunePreview(r)
    BY <2>1, <2>5 DEF FinishSetup, FirstCommand, EnforcePrunePreview, Jump, Fail
  <2>6. ASSUME NEW c \in Duplicacy \cup {"create"}, StartCommand(r, c) PROVE OnRecord(r)'
    BY <2>1, <2>6 DEF StartCommand, AfterCommand, Fail
  <2> QED
    BY <1>2, <2>2, <2>3, <2>4, <2>5, <2>6 DEF MainStep
<1>3. ASSUME NEW t \in Thread, CommandEnds(r, t) PROVE OnRecord(r)'
  BY <1>3 DEF CommandEnds, MainResumes, DeleteResumes, AfterCommand
<1>4. ASSUME NEW t \in Thread, CleanupStep(r, t) PROVE OnRecord(r)'
  <2> USE DEF CleanupStep, CheckCleanedUp, MarkCleanedUp, SourceAgain, DeleteSnapshot,
              RemoveSnapshotDir, ReleaseSource, CleanupWorkRoot, ReleaseTargetLock,
              CompleteRun, MaybeNotify, UpdateRunState, Leave, Exit, Jump
  <2>1. CASE t = "main"
    BY <1>4, <2>1
  <2>2. CASE t = "sig"
    BY <1>4, <2>2 DEF CleanupLabel
  <2> QED
    BY <2>1, <2>2
<1> QED
  BY <1>1, <1>2, <1>3, <1>4 DEF Step

\* From AcquireTargetLock to its cleanup an undisturbed process is on record.
THEOREM LockInvariant == Spec => []LockInv
<1>1. TypeOK /\ LockInv /\ [Next]_vars => LockInv'
  <2> SUFFICES ASSUME TypeOK, LockInv, [Next]_vars, NEW q \in Run PROVE OnRecord(q)'
    BY DEF LockInv
  <2>1. OnRecord(q)
    BY DEF LockInv
  <2>2. CASE UNCHANGED vars
    BY <2>1, <2>2 DEF vars, locks, OnRecord, Undisturbed, Alive, Repo
  <2>3. ASSUME NEW r \in Run, Step(r) PROVE OnRecord(q)'
    BY <2>1, <2>3, OthersStayOnRecord, StepOnRecord
  <2> QED
    BY <2>2, <2>3 DEF Next, Step
<1> QED
  BY <1>1, LockInvInit, TypeCorrect, PTL DEF Spec

\* No two processes that are neither interrupted nor killed ever have duplicacy
\* commands at work on the same storage entry, whatever happens to the others.
THEOREM OneRepositoryPhase == Spec => []UndisturbedExclusive
<1>1. LockInv => UndisturbedExclusive
  BY DEF LockInv, OnRecord, LockedLabel, Duplicacy, UndisturbedExclusive, BothAtWork, Repo
<1> QED
  BY <1>1, LockInvariant, PTL

-----------------------------------------------------------------------------
(* A process alone.  Until it is interrupted a process is its main         *)
(* goroutine, from its start to the end of its deferred cleanup; what the  *)
(* others do does not touch what it relies on, however they are            *)
(* interrupted or killed.                                                  *)

\* Where main is, and how the process has ended.
Placed(r) ==
  /\ child[r]["sig"] = "none"
  /\ child[r]["main"] # "none" => ~Dry(r) /\ pc[r]["main"] = child[r]["main"]
  /\ pc[r]["main"] # "wait"
  /\ Ended(r) => /\ pc[r]["main"] = "after"
                 /\ proc[r] = "exit0" => ~lastErr[r]
                 /\ proc[r] = "exit1" => lastErr[r] \/ Warned(r, "summary")

\* The exit code, the result and the record follow the error.
Recorded(r) ==
  /\ exitCode[r] = IF lastErr[r] THEN 1 ELSE 0
  /\ lastErr[r] => pc[r]["main"] \in CleanupLabel
  /\ cleanedUp[r] => pc[r]["main"] \in CleanupLabel \ {"check", "mark"}
  /\ pc[r]["main"] \in {"notify", "save", "after"}
       => result[r] = IF lastErr[r] THEN "failed" ELSE "success"
  /\ recorded[r] # "none" => pc[r]["main"] = "after" /\ recorded[r] = result[r]

\* A backup that has its lock is in its tracked phase until it ends.
Announced(r) ==
  /\ Backs(r) /\ acquired[r] => phase[r] # "none"
  /\ phase[r] = "running" => pc[r]["main"] \notin CleanupLabel
  /\ phase[r] = "success" => pc[r]["main"] \in CleanupLabel /\ ~lastErr[r]
  /\ pc[r]["main"] \in {"save", "after"} /\ lastErr[r] /\ Backs(r) /\ ~Dry(r)
       => notified[r]

\* The snapshot stands while the backup may read it.
BackupOnly == {"source", "create", "unsource", "unsourceErr", "backup",
               "sourceAgain", "delete", "removeDir", "sourceDone"}
Standing(r) ==
  /\ pc[r]["main"] \in BackupOnly => Backs(r)
  /\ ~Backs(r) \/ Dry(r) => ~snapshot[r]
  /\ /\ Backs(r) /\ ~Dry(r)
     /\ pc[r]["main"] \in {"unsource", "dirs", "prefs", "perms", "backup"}
     => snapshot[r]

\* What is still there, and what the log says of it.
Reported == {"report", "notify", "save", "after"}
Tidied(r) ==
  /\ pc[r]["main"] \in {"sourceDone", "work", "unlock"} \cup Reported
       => (snapshot[r] => Warned(r, "snapshot"))
  /\ pc[r]["main"] \in {"unlock"} \cup Reported
       => (workRoot[r] # "none" => Warned(r, "work"))

Alone(r) == Placed(r) /\ Recorded(r) /\ Announced(r) /\ Standing(r) /\ Tidied(r)
AloneInv == \A r \in Run : Uninterrupted(r) => Alone(r)

\* While an undisturbed process creates its snapshot it is on record, and so it is
\* while it deletes it, unless it has warned that it is not.
CreatorOnRecord(r) ==
  /\ Undisturbed(r)
  /\ \/ pc[r]["main"] \in {"create", "unsource", "unsourceErr"}
     \/ pc[r]["main"] \in {"delete", "removeDir", "sourceDone"} /\ ~Warned(r, "source")
  => Alive(r) /\ source = r
CreatorInv == \A r \in Run : CreatorOnRecord(r)

\* All that a process has to itself; the rest are the locks.
Own(q) == <<Mine(q), req, cleanedUp[q], acquired[q], notified[q], warned[q],
            snapshot[q], workRoot[q]>>

\* Nobody else's step touches any of it.
LEMMA StepIsOfOneOnly ==
  ASSUME TypeOK, NEW r \in Run, Step(r), NEW q \in Run \ {r}
  PROVE  UNCHANGED Own(q)
<1> USE DEF TypeOK, ExType, OutType, Own, ex, report, locks, disk, out, Goto, Warn
<1>0. UNCHANGED Mine(q)
  BY StepIsOfOne
<1>1. CASE Begin(r) \/ Kill(r) \/ Interrupt(r)
  BY <1>0, <1>1 DEF Begin, Kill, Exit, Interrupt
<1>2. CASE MainStep(r)
  BY <1>0, <1>2
     DEF MainStep, ConfirmSafetyRails, AcquireTargetLock, StartVisibleRun,
         TakeSourceLock, DropSourceLock, CreateDirs, WritePreferences, WorkStep,
         FinishSetup, StartCommand, EnforcePrunePreview, Jump, Fail, GiveUp, Failed, Succeed
<1>3. ASSUME NEW t \in Thread, CommandEnds(r, t) PROVE UNCHANGED Own(q)
  BY <1>0, <1>3 DEF CommandEnds, MainResumes, DeleteResumes, Failed, Succeed
<1>4. ASSUME NEW t \in Thread, CleanupStep(r, t) PROVE UNCHANGED Own(q)
  BY <1>0, <1>4
     DEF CleanupStep, CheckCleanedUp, MarkCleanedUp, SourceAgain, DeleteSnapshot,
         RemoveSnapshotDir, ReleaseSource, CleanupWorkRoot, ReleaseTargetLock,
         CompleteRun, MaybeNotify, UpdateRunState, Leave, Exit, Jump
<1> QED
  BY <1>1, <1>2, <1>3, <1>4 DEF Step

\* The source lock changes hands only when nobody alive is on record, to the process
\* that asks for it or to nobody, and is given up only by the process on record.
LEMMA SourceStep ==
  ASSUME TypeOK, NEW r \in Run, Step(r)
  PROVE  \/ source' = source
         \/ Takeable(source) /\ source' \in {r, Free}
         \/ source = r /\ source' = Free
<1> USE DEF locks, LeftOnRecord, AfterRelease
<1>1. CASE Begin(r) \/ Kill(r) \/ Interrupt(r)
  BY <1>1 DEF Begin, Kill, Exit, Interrupt
<1>2. CASE MainStep(r)
  BY <1>2
     DEF MainStep, ConfirmSafetyRails, AcquireTargetLock, StartVisibleRun,
         TakeSourceLock, DropSourceLock, CreateDirs, WritePreferences, WorkStep,
         FinishSetup, StartCommand, EnforcePrunePreview, Jump, Fail, GiveUp
<1>3. CASE \E t \in Thread : CommandEnds(r, t)
  BY <1>3 DEF CommandEnds
<1>4. ASSUME NEW t \in Thread, CleanupStep(r, t)
      PROVE  \/ source' = source
             \/ Takeable(source) /\ source' \in {r, Free}
             \/ source = r /\ source' = Free
  BY <1>4
     DEF CleanupStep, CheckCleanedUp, MarkCleanedUp, SourceAgain, DeleteSnapshot,
         RemoveSnapshotDir, ReleaseSource, CleanupWorkRoot, ReleaseTargetLock,
         CompleteRun, MaybeNotify, UpdateRunState, Leave, Exit, Jump
<1> QED
  BY <1>1, <1>2, <1>3, <1>4 DEF Step

\* What holds of a process alone is not lost by the steps of the others.
LEMMA OthersAlone ==
  ASSUME TypeOK, NEW r \in Run, Step(r), NEW q \in Run \ {r}, Alone(q)
  PROVE  Alone(q)'
<1> USE StepIsOfOneOnly DEF Own, Mine, Backs, Dry, Alone, Warned
<1>1. Placed(q)' /\ Recorded(q)'
  BY DEF Placed, Recorded, Ended
<1>2. Announced(q)' /\ Standing(q)' /\ Tidied(q)'
  BY DEF Announced, Standing, Tidied
<1> QED
  BY <1>1, <1>2

-----------------------------------------------------------------------------
(* Its own steps, group by group.  In each group a step that fails is the same. *)

\* fail() and the return into the deferred cleanup.
LEMMA GiveUpAlone ==
  ASSUME TypeOK, NEW r \in Run, Alone(r), Alive(r), child[r]["main"] = "none",
         pc[r]["main"] \in SetupLabel \cup Duplicacy \cup {"enforce"},
         GiveUp(r)
  PROVE  Alone(r)'
<1> USE DEF TypeOK, ExType, OutType, Alone, Alive, Ended, GiveUp, Failed, Goto, Thread,
            CleanupLabel, SetupLabel, Duplicacy, disk, out, Backs, Dry, Warned
<1>1. Placed(r)' /\ Recorded(r)'
  BY DEF Placed, Recorded
<1>2. Announced(r)' /\ Standing(r)'
  BY DEF Announced, Standing, BackupOnly, Placed, Recorded
<1>3. Tidied(r)'
  BY DEF Tidied, Reported
<1> QED
  BY <1>1, <1>2, <1>3

\* A step before the cleanup that changes only the position of main, what it says
\* of its phase, and the work directory.
LEMMA ForwardAlone ==
  ASSUME TypeOK, NEW r \in Run, Alone(r), Alive(r), child[r]["main"] = "none",
         pc[r]["main"] \in {"confirm", "dirs", "prefs", "perms", "enforce"},
         NEW l, \/ pc[r]["main"] = "confirm" /\ l = "lock"
                \/ pc[r]["main"] = "dirs" /\ l = "prefs"
                \/ pc[r]["main"] = "prefs" /\ l = "perms"
                \/ pc[r]["main"] = "perms" /\ l = FirstCommand(r)
                \/ pc[r]["main"] = "enforce" /\ l = "prune",
         Goto(r, "main", l),
         phase'[r] \in {phase[r], "running"},
         UNCHANGED <<req, proc, child, cleanedUp, acquired, exitCode, lastErr, result,
                     snapshot, out>>
  PROVE  Alone(r)'
<1> USE DEF TypeOK, ExType, OutType, Alone, Alive, Ended, Goto, Thread, FirstCommand,
            CleanupLabel, out, Backs, Dry, Warned
<1>1. Placed(r)' /\ Recorded(r)'
  BY DEF Placed, Recorded
<1>2. Announced(r)' /\ Standing(r)'
  BY DEF Announced, Standing, BackupOnly, Placed, Recorded
<1>3. Tidied(r)'
  BY DEF Tidied, Reported
<1> QED
  BY <1>1, <1>2, <1>3

\* Taking and dropping the two locks around the set-up.
LEMMA LockStepAlone ==
  ASSUME TypeOK, NEW r \in Run, Alone(r),
         \/ AcquireTargetLock(r) \/ StartVisibleRun(r)
         \/ TakeSourceLock(r) \/ DropSourceLock(r)
  PROVE  Alone(r)'
<1> USE DEF TypeOK, ExType, OutType, Alone, At, Alive, Ended, Goto, Thread,
            CleanupLabel, ex, report, disk, out, Backs, Dry, Warned, Placed
<1>1. CASE GiveUp(r) /\ ~DropSourceLock(r) /\ ~StartVisibleRun(r)
  BY <1>1, GiveUpAlone DEF AcquireTargetLock, TakeSourceLock, SetupLabel
<1>2. CASE AcquireTargetLock(r) /\ ~GiveUp(r)
  <2> USE <1>2 DEF AcquireTargetLock
  <2>1. Placed(r)' /\ Recorded(r)' /\ Announced(r)'
    BY DEF Recorded, Announced
  <2>2. Standing(r)'
    BY DEF Standing, BackupOnly
  <2>3. Tidied(r)'
    BY DEF Tidied, Reported
  <2> QED
    BY <2>1, <2>2, <2>3
<1>3. CASE StartVisibleRun(r)
  <2> USE <1>3 DEF StartVisibleRun
  <2>1. Placed(r)' /\ Recorded(r)' /\ Announced(r)'
    BY DEF Recorded, Announced
  <2>2. Standing(r)'
    BY DEF Standing, BackupOnly
  <2>3. Tidied(r)'
    BY DEF Tidied, Reported
  <2> QED
    BY <2>1, <2>2, <2>3
<1>4. CASE TakeSourceLock(r) /\ ~GiveUp(r)
  <2> USE <1>4 DEF TakeSourceLock
  <2>1. Placed(r)' /\ Recorded(r)' /\ Announced(r)'
    BY DEF Recorded, Announced
  <2>2. Standing(r)'
    BY DEF Standing, BackupOnly
  <2>3. Tidied(r)'
    BY DEF Tidied, Reported
  <2> QED
    BY <2>1, <2>2, <2>3
<1>5. CASE DropSourceLock(r)
  <2> USE <1>5 DEF DropSourceLock, Failed
  <2>1. Placed(r)' /\ Recorded(r)'
    BY DEF Recorded
  <2>2. Announced(r)' /\ Standing(r)'
    BY DEF Announced, Standing, BackupOnly, Recorded
  <2>3. Tidied(r)'
    BY DEF Tidied, Reported
  <2> QED
    BY <2>1, <2>2, <2>3
<1> QED
  BY <1>1, <1>2, <1>3, <1>4, <1>5

\* The other steps before the first command, and the decision after the last count.
LEMMA SetupStepAlone ==
  ASSUME TypeOK, NEW r \in Run, Alone(r),
         \/ ConfirmSafetyRails(r) \/ CreateDirs(r) \/ WritePreferences(r)
         \/ FinishSetup(r) \/ EnforcePrunePreview(r)
  PROVE  Alone(r)'
<1> USE DEF At
<1>1. CASE Fail(r)
  BY <1>1, GiveUpAlone DEF Fail, ConfirmSafetyRails, CreateDirs, WritePreferences, WorkStep,
       FinishSetup, EnforcePrunePreview, SetupLabel
<1>2. CASE ~Fail(r)
  BY <1>2, ForwardAlone DEF ConfirmSafetyRails, CreateDirs, WritePreferences, WorkStep,
       FinishSetup, EnforcePrunePreview, Jump, ex, report, disk, TypeOK, ExType
<1> QED
  BY <1>1, <1>2

\* A command is started, skipped by a dry run, or cannot start.
LEMMA StartCommandAlone ==
  ASSUME TypeOK, NEW r \in Run, Alone(r), NEW c \in Duplicacy \cup {"create"},
         StartCommand(r, c)
  PROVE  Alone(r)'
<1> USE DEF TypeOK, ExType, OutType, Alone, At, Alive, Ended, Goto, Thread,
            CleanupLabel, Duplicacy, ex, report, disk, out, Backs, Dry, Warned
<1>1. CASE c \in Duplicacy /\ Fail(r)
  BY <1>1, GiveUpAlone DEF Fail, StartCommand
<1>2. CASE ~Dry(r) /\ child' = [child EXCEPT ![r]["main"] = c]
           /\ UNCHANGED <<req, proc, pc, ex, disk, out>>
  BY <1>2 DEF StartCommand, Placed, Recorded, Announced, Standing, Tidied
<1>3. CASE Dry(r) /\ Goto(r, "main", AfterCommand(r, c)) /\ Succeed(r, c)
           /\ UNCHANGED <<req, proc, child, disk, out>>
  <2> USE <1>3 DEF StartCommand, AfterCommand, Succeed, LastCommand
  <2>1. Placed(r)' /\ Recorded(r)'
    BY DEF Placed, Recorded
  <2>2. Announced(r)' /\ Standing(r)'
    BY DEF Announced, Standing, BackupOnly, Placed, Recorded
  <2>3. Tidied(r)'
    BY DEF Tidied, Reported
  <2> QED
    BY <2>1, <2>2, <2>3
<1> QED
  BY <1>1, <1>2, <1>3 DEF StartCommand

\* A command ends: main goes on, unless it has been killed.
LEMMA CommandEndsAlone ==
  ASSUME TypeOK, NEW r \in Run, Alone(r), NEW t \in Thread, CommandEnds(r, t)
  PROVE  Alone(r)'
<1> USE DEF TypeOK, ExType, OutType, Alone, Ended, Goto, Thread, Btrfs,
            CleanupLabel, Duplicacy, ex, report, out, Backs, Dry, Warned
<1> DEFINE c == child[r]["main"]
<1>1. /\ t = "main" /\ c # "none" /\ ~Dry(r) /\ pc[r]["main"] = c
      /\ child' = [child EXCEPT ![r]["main"] = "none"]
      /\ UNCHANGED <<req, proc, locks, workRoot>>
  BY DEF CommandEnds, Placed
<1>2. PICK ok \in BOOLEAN :
        /\ c = "delete" /\ ok => snapshot[r]
        /\ snapshot' = [snapshot EXCEPT ![r] = IF ok /\ c \in Btrfs THEN c = "create" ELSE @]
        /\ \/ ~Alive(r) /\ UNCHANGED <<pc, ex, out>>
           \/ Alive(r) /\ c # "delete" /\ MainResumes(r, c, ok)
           \/ Alive(r) /\ c = "delete" /\ DeleteResumes(r, t, ok)
  BY <1>1 DEF CommandEnds
<1>3. snapshot'[r] \in BOOLEAN
  BY <1>2
<1> USE <1>1, <1>2
<1>4. CASE UNCHANGED <<pc, ex, out>>
  <2>1. Placed(r)' /\ Recorded(r)' /\ Announced(r)'
    BY <1>4 DEF Placed, Recorded, Announced
  <2>2. Standing(r)'
    BY <1>4 DEF Standing, BackupOnly
  <2>3. Tidied(r)'
    BY <1>4 DEF Tidied, Reported
  <2> QED
    BY <2>1, <2>2, <2>3
<1>5. CASE Alive(r) /\ c # "delete" /\ MainResumes(r, c, ok)
  <2> USE <1>5 DEF MainResumes, AfterCommand, Succeed, Failed, LastCommand, Alive
  <2>1. Placed(r)' /\ Recorded(r)'
    BY DEF Placed, Recorded
  <2>2. Announced(r)'
    BY DEF Announced, Recorded
  <2>3. Standing(r)'
    BY DEF Standing, BackupOnly
  <2>4. Tidied(r)'
    BY DEF Tidied, Reported
  <2> QED
    BY <2>1, <2>2, <2>3, <2>4
<1>6. CASE Alive(r) /\ c = "delete" /\ DeleteResumes(r, t, ok)
  <2> USE <1>6 DEF DeleteResumes, Warn, Alive
  <2>1. Placed(r)' /\ Recorded(r)' /\ Announced(r)'
    BY DEF Placed, Recorded, Announced
  <2>2. Standing(r)'
    BY DEF Standing, BackupOnly
  <2>3. Tidied(r)'
    BY DEF Tidied, Reported
  <2> QED
    BY <2>1, <2>2, <2>3
<1> QED
  BY <1>4, <1>5, <1>6

\* The steps of cleanup() before the locks and the report.
LEMMA DisposeAlone ==
  ASSUME TypeOK, NEW r \in Run, Alone(r),
         \/ CheckCleanedUp(r, "main") \/ MarkCleanedUp(r, "main")
         \/ DeleteSnapshot(r, "main") \/ RemoveSnapshotDir(r, "main")
         \/ CleanupWorkRoot(r, "main")
  PROVE  Alone(r)'
<1> USE DEF TypeOK, ExType, OutType, Alone, At, Alive, Ended, Goto, Jump, Thread, Btrfs,
            CleanupLabel, ex, report, disk, out, Backs, Dry, Warned
<1>1. CASE CheckCleanedUp(r, "main")
  BY <1>1 DEF CheckCleanedUp, Placed, Recorded, Announced, Standing, BackupOnly, Tidied,
              Reported
<1>2. CASE MarkCleanedUp(r, "main")
  BY <1>2 DEF MarkCleanedUp, Placed, Recorded, Announced, Standing, BackupOnly, Tidied,
              Reported
<1>3. CASE DeleteSnapshot(r, "main")
  <2> USE <1>3 DEF DeleteSnapshot
  <2>1. Placed(r)' /\ Recorded(r)' /\ Announced(r)'
    <3>1. Dry(r) => ~snapshot[r]
      BY DEF Standing
    <3> QED
      BY <3>1 DEF Placed, Recorded, Announced, Standing
  <2>2. Standing(r)' /\ Tidied(r)'
    BY DEF Standing, BackupOnly, Tidied, Reported
  <2> QED
    BY <2>1, <2>2
<1>4. CASE RemoveSnapshotDir(r, "main")
  BY <1>4 DEF RemoveSnapshotDir, Warn, Placed, Recorded, Announced, Standing, BackupOnly, Tidied,
              Reported
<1>5. CASE CleanupWorkRoot(r, "main")
  BY <1>5 DEF CleanupWorkRoot, Warn, Placed, Recorded, Announced, Standing, BackupOnly, Tidied,
              Reported
<1> QED
  BY <1>1, <1>2, <1>3, <1>4, <1>5

\* The locks that cleanup() takes and gives up.
LEMMA UnlockAlone ==
  ASSUME TypeOK, NEW r \in Run, Alone(r),
         \/ SourceAgain(r, "main") \/ ReleaseSource(r, "main")
         \/ ReleaseTargetLock(r, "main")
  PROVE  Alone(r)'
<1> USE DEF TypeOK, ExType, OutType, Alone, At, Alive, Ended, Goto, Thread,
            CleanupLabel, ex, report, disk, out, Backs, Dry, Warned
<1>1. CASE SourceAgain(r, "main")
  BY <1>1 DEF SourceAgain, Warn, Placed, Recorded, Announced, Standing, BackupOnly, Tidied,
              Reported
<1>2. CASE ReleaseSource(r, "main")
  BY <1>2
     DEF ReleaseSource, Placed, Recorded, Announced, Standing, BackupOnly, Tidied, Reported
<1>3. CASE ReleaseTargetLock(r, "main")
  BY <1>3
     DEF ReleaseTargetLock, Placed, Recorded, Announced, Standing, BackupOnly, Tidied,
         Reported
<1> QED
  BY <1>1, <1>2, <1>3

\* The notification is sent when it is due.
LEMMA TellAlone ==
  ASSUME TypeOK, NEW r \in Run, Alone(r),
         \/ CompleteRun(r, "main") \/ MaybeNotify(r, "main")
         \/ UpdateRunState(r, "main") \/ Leave(r, "main")
  PROVE  Alone(r)'
<1> USE DEF TypeOK, ExType, OutType, Alone, At, Alive, Ended, Goto, Thread,
            CleanupLabel, ex, report, disk, out, Backs, Dry, Warned
<1>1. CASE CompleteRun(r, "main")
  BY <1>1 DEF CompleteRun, Placed, Recorded, Announced, Standing, BackupOnly, Tidied,
              Reported
<1>2. CASE MaybeNotify(r, "main")
  <2> USE <1>2 DEF MaybeNotify
  <2>1. Placed(r)' /\ Recorded(r)'
    BY DEF Placed, Recorded
  <2>2. lastErr[r] /\ Backs(r) /\ ~Dry(r) => Notifiable(r)
    BY DEF Notifiable, Recorded, Announced
  <2>3. Announced(r)'
    BY <2>2 DEF Announced
  <2>4. Standing(r)' /\ Tidied(r)'
    BY DEF Standing, BackupOnly, Tidied, Reported
  <2> QED
    BY <2>1, <2>3, <2>4
<1>3. CASE UpdateRunState(r, "main")
  BY <1>3 DEF UpdateRunState, Placed, Recorded, Announced, Standing, BackupOnly, Tidied,
              Reported
<1>4. CASE Leave(r, "main")
  BY <1>4 DEF Leave, Exit, Warn, Placed, Recorded, Announced, Standing, BackupOnly, Tidied,
              Reported
<1> QED
  BY <1>1, <1>2, <1>3, <1>4

\* The handler's goroutine never returns to its wait.
LEMMA InterruptedStays ==
  ASSUME TypeOK, NEW r \in Run, Step(r), NEW q \in Run, Uninterrupted(q)'
  PROVE  Uninterrupted(q)
<1>1. CASE q # r
  BY <1>1, StepIsOfOne DEF Mine, Uninterrupted
<1>2. CASE q = r
  <2> USE DEF TypeOK, Uninterrupted, Goto, Thread
  <2>1. CASE Begin(r) \/ Kill(r) \/ Interrupt(r)
    BY <1>2, <2>1 DEF Begin, Kill, Exit, Interrupt, At
  <2>2. CASE MainStep(r)
    BY <1>2, <2>2
       DEF MainStep, ConfirmSafetyRails, AcquireTargetLock, StartVisibleRun,
           TakeSourceLock, DropSourceLock, CreateDirs, WritePreferences, WorkStep,
           FinishSetup, StartCommand, EnforcePrunePreview, Jump, Fail, GiveUp
  <2>3. ASSUME NEW t \in Thread, CommandEnds(r, t) PROVE Uninterrupted(r)
    BY <1>2, <2>3 DEF CommandEnds, MainResumes, DeleteResumes, AfterCommand
  <2>4. ASSUME NEW t \in Thread, CleanupStep(r, t) PROVE Uninterrupted(r)
    BY <1>2, <2>4
       DEF CleanupStep, CheckCleanedUp, MarkCleanedUp, SourceAgain, DeleteSnapshot,
           RemoveSnapshotDir, ReleaseSource, CleanupWorkRoot, ReleaseTargetLock,
           CompleteRun, MaybeNotify, UpdateRunState, Leave, Exit, Jump, At
  <2> QED
    BY <1>2, <2>1, <2>2, <2>3, <2>4 DEF Step
<1> QED
  BY <1>1, <1>2

\* Together: any step of a process that is not interrupted by it.
LEMMA StepAlone ==
  ASSUME TypeOK, NEW r \in Run, Step(r), Uninterrupted(r), Uninterrupted(r)', Alone(r)
  PROVE  Alone(r)'
<1>1. CASE Begin(r) \/ Kill(r)
  BY <1>1 DEF Begin, Kill, Exit, Alive, Ended, Alone, Placed, Recorded, Announced,
              Standing, Tidied, TypeOK, ex, report, disk, out, Warned, Backs, Dry
<1>2. CASE MainStep(r)
  BY <1>2, LockStepAlone, SetupStepAlone, StartCommandAlone DEF MainStep
<1>3. CASE \E t \in Thread : CommandEnds(r, t)
  BY <1>3, CommandEndsAlone
<1>4. ~CleanupStep(r, "sig")
  BY DEF Uninterrupted, CleanupStep, At, CheckCleanedUp, MarkCleanedUp, SourceAgain,
         DeleteSnapshot, RemoveSnapshotDir, ReleaseSource, CleanupWorkRoot,
         ReleaseTargetLock, CompleteRun, MaybeNotify, UpdateRunState, Leave
<1>5. CASE CleanupStep(r, "main")
  BY <1>5, DisposeAlone, UnlockAlone, TellAlone DEF CleanupStep
<1>6. ~Interrupt(r)
  BY DEF Interrupt, Goto, TypeOK, Uninterrupted, Thread
<1> QED
  BY <1>1, <1>2, <1>3, <1>4, <1>5, <1>6 DEF Step, Thread

\* What holds of a process until it is interrupted, whatever becomes of the others.
THEOREM AloneInvariant == Spec => []AloneInv
<1>1. Init => AloneInv
  <2> SUFFICES ASSUME Init, NEW r \in Run PROVE Alone(r)
    BY DEF AloneInv
  <2>1. /\ proc[r] = "new" /\ pc[r]["main"] = "confirm"
        /\ child[r]["main"] = "none" /\ child[r]["sig"] = "none"
        /\ ~cleanedUp[r] /\ ~acquired[r] /\ exitCode[r] = 0 /\ ~lastErr[r]
        /\ phase[r] = "none" /\ recorded[r] = "none" /\ ~snapshot[r]
    BY DEF Init, Thread
  <2> QED
    BY <2>1
       DEF Alone, Placed, Recorded, Announced, Standing, BackupOnly, Tidied, Reported,
           Ended, CleanupLabel
<1>2. ASSUME TypeOK, AloneInv, [Next]_vars PROVE AloneInv'
  <2> SUFFICES ASSUME NEW q \in Run, Uninterrupted(q)' PROVE Alone(q)'
    BY DEF AloneInv
  <2>1. CASE UNCHANGED vars
    BY <1>2, <2>1
       DEF AloneInv, Uninterrupted, vars, ex, report, disk, out, Alone, Placed,
           Recorded, Announced, Standing, Tidied, Ended, Backs, Dry, Warned
  <2>2. ASSUME NEW r \in Run, Step(r) PROVE Alone(q)'
    <3>1. Uninterrupted(q)
      BY <1>2, <2>2, InterruptedStays
    <3> QED
      BY <1>2, <2>2, <3>1, StepAlone, OthersAlone DEF AloneInv
  <2> QED
    BY <1>2, <2>1, <2>2 DEF Next, Step
<1>3. TypeOK /\ AloneInv /\ [Next]_vars => AloneInv'
  BY <1>2
<1> QED
  BY <1>1, <1>3, TypeCorrect, PTL DEF Spec

\* The snapshot a backup reads stays in place until duplicacy has ended, even when
\* the process is killed, unless its handler cleans up under it.
THEOREM SnapshotStands == Spec => []BackupReadsSnapshot
<1>1. AloneInv => BackupReadsSnapshot
  BY DEF AloneInv, Alone, Placed, Standing, BackupOnly, BackupReadsSnapshot
<1> QED
  BY <1>1, AloneInvariant, PTL

\* An uninterrupted process that ends leaves no snapshot and no work directory
\* behind, unless it has warned of that very thing.
THEOREM LeavesNothing == Spec => []CleanExit
<1>1. AloneInv => CleanExit
  BY DEF AloneInv, Alone, Placed, Tidied, Reported, CleanExit
<1> QED
  BY <1>1, AloneInvariant, PTL

\* A process whose cleanup is done without an error has ended its tracked phase.
LEMMA NoErrorNoFailure ==
  ASSUME SuccessInv, NEW r \in Run, pc[r]["main"] = "after", ~lastErr[r]
  PROVE  phase[r] = "success"
  BY DEF SuccessInv, Truthful, CleanupLabel

\* Its exit status and the result it recorded tell the same story, unless its JSON
\* summary could not be written.
THEOREM ExitTellsRecord == Spec => []ExitMatchesRecord
<1>1. SuccessInv /\ AloneInv => ExitMatchesRecord
  BY NoErrorNoFailure
     DEF AloneInv, Alone, Placed, Recorded, ExitMatchesRecord, SummaryLost, Ended
<1> QED
  BY <1>1, AloneInvariant, SuccessInvariant, PTL

\* A backup that fails has told the operator when it ends.
THEOREM FailureIsTold == Spec => []FailedBackupNotifies
<1>1. SuccessInv /\ AloneInv => FailedBackupNotifies
  BY NoErrorNoFailure
     DEF AloneInv, Alone, Placed, Announced, Ended, FailedBackupNotifies, SummaryLost
<1> QED
  BY <1>1, AloneInvariant, SuccessInvariant, PTL

-----------------------------------------------------------------------------
(* One snapshot at a time. *)

\* A process on record stays there: only one that is gone loses the source lock.
LEMMA StepCreatorOnRecord ==
  ASSUME TypeOK, LockInv, NEW r \in Run, Step(r), NEW q \in Run, CreatorOnRecord(q)
  PROVE  CreatorOnRecord(q)'
<1> USE DEF CreatorOnRecord, Undisturbed, Warned
<1>1. CASE q # r
  <2>1. UNCHANGED Own(q)
    BY <1>1, StepIsOfOneOnly
  <2>2. source = q /\ Alive(q) => source' = q
    BY <1>1, SourceStep DEF Takeable
  <2> QED
    BY <2>1, <2>2 DEF Own, Mine, Alive
<1>2. CASE q = r
  <2>0. OnRecord(r)
    BY DEF LockInv
  <2> USE <1>2 DEF TypeOK, OutType, Goto, Thread, locks, disk, out, At, Alive, Warn
  <2>1. CASE Begin(r) \/ Kill(r) \/ Interrupt(r)
    BY <2>1 DEF Begin, Kill, Exit, Interrupt
  <2>2. CASE MainStep(r)
    BY <2>2
       DEF MainStep, ConfirmSafetyRails, AcquireTargetLock, StartVisibleRun,
           TakeSourceLock, DropSourceLock, CreateDirs, WritePreferences, WorkStep,
           FinishSetup, FirstCommand, StartCommand, AfterCommand, EnforcePrunePreview,
           Jump, Fail, GiveUp, Duplicacy
  <2>3. ASSUME NEW t \in Thread, CommandEnds(r, t) PROVE CreatorOnRecord(r)'
    BY <2>0, <2>3
       DEF OnRecord, CommandEnds, MainResumes, DeleteResumes, AfterCommand, Warning
  <2>4. ASSUME NEW t \in Thread, CleanupStep(r, t) PROVE CreatorOnRecord(r)'
    <3> USE DEF CleanupStep, CheckCleanedUp, MarkCleanedUp, SourceAgain, DeleteSnapshot,
           RemoveSnapshotDir, ReleaseSource, CleanupWorkRoot, ReleaseTargetLock,
           CompleteRun, MaybeNotify, UpdateRunState, Leave, Exit, Jump
    <3>1. CASE t = "main"
      BY <2>4, <3>1
    <3>2. CASE t = "sig"
      BY <2>4, <3>2
    <3> QED
      BY <3>1, <3>2
  <2> QED
    BY <2>1, <2>2, <2>3, <2>4 DEF Step
<1> QED
  BY <1>1, <1>2

\* Around its btrfs commands an undisturbed process is on record.
THEOREM CreatorInvariant == Spec => []CreatorInv
<1>1. Init => CreatorInv
  <2> SUFFICES ASSUME Init, NEW r \in Run PROVE pc[r]["main"] = "confirm"
    BY DEF CreatorInv, CreatorOnRecord
  <2> QED
    BY DEF Init, Thread
<1>2. ASSUME TypeOK, LockInv, CreatorInv, [Next]_vars PROVE CreatorInv'
  <2>1. CASE UNCHANGED vars
    BY <1>2, <2>1
       DEF CreatorInv, CreatorOnRecord, Undisturbed, Alive, Warned, vars, locks, out
  <2>2. CASE \E r \in Run : Step(r)
    BY <1>2, <2>2, StepCreatorOnRecord DEF CreatorInv
  <2> QED
    BY <1>2, <2>1, <2>2 DEF Next, Step
<1>3. TypeOK /\ LockInv /\ CreatorInv /\ [Next]_vars => CreatorInv'
  BY <1>2
<1> QED
  BY <1>1, <1>3, LockInvariant, TypeCorrect, PTL DEF Spec

\* Two undisturbed processes never create a snapshot of the source at the same time.
THEOREM OneSnapshotAtATime == Spec => []CreationSerialised
<1>1. LockInv /\ CreatorInv => CreationSerialised
  BY DEF LockInv, OnRecord, CreatorInv, CreatorOnRecord, CreationSerialised
<1> QED
  BY <1>1, CreatorInvariant, LockInvariant, PTL

\* Nor does one delete its snapshot while another creates or deletes its own, unless
\* the cleanup has warned that it goes on without the source lock.
THEOREM DeletionIsSerialised == Spec => []DeletionSerialised
<1>1. LockInv /\ CreatorInv => DeletionSerialised
  BY DEF LockInv, OnRecord, CreatorInv, CreatorOnRecord, DeletionSerialised, Btrfs
<1> QED
  BY <1>1, CreatorInvariant, LockInvariant, PTL

-----------------------------------------------------------------------------
(* Dry runs. *)

\* A dry run, interrupted or not, has nothing in the file system and no command.
DryHasNothing(r) ==
  Dry(r) => /\ \A t \in Thread : child[r][t] = "none"
            /\ ~snapshot[r] /\ workRoot[r] = "none"
DryInv == \A r \in Run : DryHasNothing(r)

\* What a dry run's step leaves alone.
DryKept(r) == UNCHANGED <<child[r], snapshot[r], workRoot[r], recorded[r], notified[r]>>

\* Switching off what is off changes nothing.
LEMMA SwitchedOff ==
  ASSUME NEW f \in [Run -> BOOLEAN], NEW r \in Run, ~f[r]
  PROVE  [f EXCEPT ![r] = FALSE] = f
<1>1. f[r] = FALSE
  <2>1. f[r] \in BOOLEAN
    OBVIOUS
  <2> QED
    BY <2>1, Zenon
<1> QED
  BY <1>1

\* A dry run's own steps leave all of that alone.
LEMMA DryStep ==
  ASSUME TypeOK, NEW r \in Run, Step(r), Dry(r), DryHasNothing(r)
  PROVE  DryKept(r)
<1> USE DEF TypeOK, OutType, ExType, DryHasNothing, DryKept, locks, disk, out
<1>1. CASE Begin(r) \/ Kill(r) \/ Interrupt(r)
  BY <1>1 DEF Begin, Kill, Exit, Interrupt
<1>2. CASE MainStep(r)
  BY <1>2
     DEF MainStep, ConfirmSafetyRails, AcquireTargetLock, StartVisibleRun,
         TakeSourceLock, DropSourceLock, CreateDirs, WritePreferences, WorkStep,
         FinishSetup, StartCommand, EnforcePrunePreview, Jump, Fail, GiveUp
<1>3. CASE \E t \in Thread : CommandEnds(r, t)
  BY <1>3 DEF CommandEnds
<1>4. ASSUME NEW t \in Thread, CleanupStep(r, t) PROVE DryKept(r)
  <2>1. CASE MaybeNotify(r, t)
    BY <2>1 DEF MaybeNotify, Notifiable
  <2>2. CASE DeleteSnapshot(r, t) \/ RemoveSnapshotDir(r, t) \/ CleanupWorkRoot(r, t)
    <3>1. CASE DeleteSnapshot(r, t)
      BY <3>1 DEF DeleteSnapshot, Jump
    <3>2. CASE RemoveSnapshotDir(r, t)
      <4>1. snapshot \in [Run -> BOOLEAN] /\ ~snapshot[r]
        OBVIOUS
      <4>2. snapshot' = snapshot
        BY <3>2, <4>1, SwitchedOff DEF RemoveSnapshotDir
      <4> QED
        BY <3>2, <4>2 DEF RemoveSnapshotDir
    <3>3. CASE CleanupWorkRoot(r, t)
      BY <3>3 DEF CleanupWorkRoot
    <3> QED
      BY <2>2, <3>1, <3>2, <3>3
  <2>3. CASE UpdateRunState(r, t)
    BY <2>3 DEF UpdateRunState
  <2>4. CASE CheckCleanedUp(r, t) \/ MarkCleanedUp(r, t) \/ SourceAgain(r, t)
             \/ ReleaseSource(r, t) \/ ReleaseTargetLock(r, t) \/ CompleteRun(r, t)
             \/ Leave(r, t)
    BY <2>4 DEF CheckCleanedUp, MarkCleanedUp, SourceAgain, ReleaseSource,
                ReleaseTargetLock, CompleteRun, Leave, Exit, Jump
  <2> QED
    BY <1>4, <2>1, <2>2, <2>3, <2>4 DEF CleanupStep
<1> QED
  BY <1>1, <1>2, <1>3, <1>4 DEF Step

\* What a process was asked to do never changes.
LEMMA ReqFixed ==
  ASSUME [Next]_vars
  PROVE  req' = req
<1>1. ASSUME NEW r \in Run, Step(r) PROVE req' = req
  BY <1>1 DEF Step, Begin, Kill, Exit, Interrupt, MainStep, ConfirmSafetyRails,
       AcquireTargetLock, StartVisibleRun, TakeSourceLock, DropSourceLock,
       CreateDirs, WritePreferences, WorkStep, FinishSetup, StartCommand,
       EnforcePrunePreview, Jump, Fail, GiveUp, CommandEnds, CleanupStep, CheckCleanedUp,
       MarkCleanedUp, SourceAgain, DeleteSnapshot, RemoveSnapshotDir, ReleaseSource,
       CleanupWorkRoot, ReleaseTargetLock, CompleteRun, MaybeNotify, UpdateRunState,
       Leave
<1> QED
  BY <1>1 DEF Next, Step, vars

\* So does every step.
LEMMA DryNext ==
  ASSUME TypeOK, DryInv, [Next]_vars, NEW q \in Run, Dry(q)
  PROVE  DryKept(q)
<1>1. CASE UNCHANGED vars
  BY <1>1 DEF vars, disk, out, DryKept
<1>2. ASSUME NEW r \in Run, Step(r) PROVE DryKept(q)
  <2>1. CASE q # r
    BY <1>2, <2>1, StepIsOfOneOnly DEF Own, Mine, DryKept
  <2>2. CASE q = r
    BY <1>2, <2>2, DryStep DEF DryInv
  <2> QED
    BY <2>1, <2>2
<1> QED
  BY <1>1, <1>2 DEF Next, Step

\* A dry run starts no command that changes the storage or the volume (in fact no
\* command) and writes nothing but its locks, at any point of its life and whatever
\* interrupts it.
THEOREM DryRunsAreInert == Spec => DryRunInert
<1>1. Init => DryInv
  BY DEF Init, DryInv, DryHasNothing, Thread
<1>2. TypeOK /\ DryInv /\ [Next]_vars => DryInv'
  <2> SUFFICES ASSUME TypeOK, DryInv, [Next]_vars, NEW q \in Run, Dry(q)'
               PROVE  DryHasNothing(q)'
    BY DEF DryInv, DryHasNothing
  <2>1. Dry(q)
    <3>1. req' = req
      BY ReqFixed
    <3> QED
      BY <3>1 DEF Dry
  <2> QED
    BY <2>1, DryNext DEF DryInv, DryHasNothing, DryKept
<1>3. ASSUME TypeOK, DryInv, [Next]_vars, NEW r \in Run, Dry(r)
      PROVE  /\ \A t \in Thread : child'[r][t] \notin Changing
             /\ snapshot'[r] = snapshot[r] /\ workRoot'[r] = workRoot[r]
             /\ recorded'[r] = recorded[r] /\ notified'[r] = notified[r]
  BY <1>3, DryNext DEF DryKept, DryInv, DryHasNothing, Changing, Btrfs
<1>4. TypeOK /\ DryInv /\ [Next]_vars
        => [\A r \in Run : Dry(r) => /\ \A t \in Thread : child'[r][t] \notin Changing
                                     /\ snapshot'[r] = snapshot[r] /\ workRoot'[r] = workRoot[r]
                                     /\ recorded'[r] = recorded[r] /\ notified'[r] = notified[r]]_vars
  BY <1>3
<1> QED
  BY <1>1, <1>2, <1>4, TypeCorrect, PTL DEF Spec, DryRunInert
=============================================================================
