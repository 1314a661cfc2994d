--------------------------- MODULE DirLockProofs ---------------------------
(***************************************************************************)
(* Proofs about DirLock, for every set of processes and both values of     *)
(* HasOwner.                                                               *)
(***************************************************************************)
EXTENDS DirLock, TLAPS

(***************************************************************************)
(* Type correctness.                                                       *)
(***************************************************************************)
\* All of TypeOK but the history that Observe keeps beside every step.
StepType ==
  /\ dir \in BOOLEAN
  /\ pidFile \in PidContent
  /\ linked \subseteq Proc
  /\ pc \in [Proc -> InAcquire \cup InRelease \cup Outside]
  /\ seen \in [Proc -> PidContent]
  /\ inspect \in {"none", "present", "asking", "absent", "stale", "active"}
  /\ inspected \in Proc \cup {NoFile}
  /\ inspect = "asking" => inspected \in Proc
  /\ history \in {"serial", "overlapped"}

\* os.RemoveAll, of a stale lock or of the own one.
LEMMA RemoveAllType ==
  ASSUME TypeOK, NEW p \in Proc, RemoveStale(p) \/ ReleaseRemove(p)
  PROVE  StepType'
  BY DEF TypeOK, StepType, look, RemoveStale, ReleaseRemove, RemoveAll, RemoveEmptyDir,
         DirNotEmpty, UnlinkPid, Goto, PidContent, InAcquire, InRelease, Outside

\* The variables keep their types (lock.go, every operation).
THEOREM TypeCorrect == Spec => []TypeOK
<1>1. Init => TypeOK
  BY DEF Init, TypeOK, PidContent, Outside, look
<1>2. TypeOK /\ [Next]_vars => TypeOK'
  <2> SUFFICES ASSUME TypeOK, [Next]_vars PROVE TypeOK'
    OBVIOUS
  <2> USE DEF TypeOK, StepType, look, PidContent, InAcquire, InRelease, Outside, Goto, Begin
  <2>1. ASSUME NEW p \in Proc, Start(p) \/ Die(p) \/ ForeignStart(p)
        PROVE  StepType'
    BY <2>1 DEF Start, Die, ForeignStart
  <2>2. ASSUME NEW p \in Proc, Acquire(p)
        PROVE  StepType'
    <3>1. CASE BeginAcquire(p) \/ Mkdir(p) \/ RetryMkdir(p) \/ RetryRead(p)
      BY <3>1 DEF BeginAcquire, Mkdir, RetryMkdir, RetryRead, CreateDir, AcquireFails
    <3>2. CASE ReadPid(p) \/ CheckPid(p)
      BY <3>2 DEF ReadPid, CheckPid
    <3>3. CASE RemoveStale(p)
      BY <3>3, RemoveAllType
    <3>4. CASE ChownDir(p) \/ OpenPid(p)
      BY <3>4 DEF ChownDir, OpenPid, AcquireFails
    <3>5. CASE WritePid(p) \/ ChownPid(p)
      BY <3>5 DEF WritePid, ChownPid, AcquireFails
    <3>6. QED
      BY <2>2, <3>1, <3>2, <3>3, <3>4, <3>5 DEF Acquire
  <2>3. ASSUME NEW p \in Proc, Release(p)
        PROVE  StepType'
    <3>1. CASE BeginRelease(p) \/ ReleaseRead(p)
      BY <3>1 DEF BeginRelease, ReleaseRead
    <3>2. CASE ReleaseRemove(p)
      BY <3>2, RemoveAllType
    <3>3. QED
      BY <2>3, <3>1, <3>2 DEF Release
  <2>4. ASSUME Inspect PROVE StepType'
    BY <2>4 DEF Inspect, InspectStat, InspectRead, InspectProcess, Inspecting
  <2>5. CASE UNCHANGED vars
    BY <2>5 DEF vars
  <2>6. ASSUME ~UNCHANGED vars PROVE StepType' /\ lull' \in BOOLEAN
    <3>1. StepType'
      BY <2>1, <2>2, <2>3, <2>4, <2>6 DEF Next
    <3>2. lull' \in BOOLEAN
      BY <2>6 DEF Next, Observe
    <3>3. QED
      BY <3>1, <3>2
  <2>7. QED
    BY <2>5, <2>6
<1>3. QED
  BY <1>1, <1>2, PTL DEF Spec

(***************************************************************************)
(* Calls that do not overlap.  While a process is inside a call every      *)
(* other process is outside the calls, so what the process learned from    *)
(* the lock path is still true at its next step; only processes that start *)
(* or die move meanwhile, and neither makes another process a holder.      *)
(***************************************************************************)
LEMMA RemoveAllSerial ==
  ASSUME TypeOK, SerialInv, NEW p \in Proc, RemoveStale(p) \/ ReleaseRemove(p)
  PROVE  SerialInv'
<1> USE DEF TypeOK, serial, SerialInv, Exclusive, Goto, Holding, InCall, InAcquire, InRelease, PidContent
<1>1. ASSUME NEW from, NEW done, RemoveEmptyDir(p, from, done),
             \/ from \in {"staleTry", "staleRmdir"} /\ done = "retryMkdir"
             \/ from \in {"relTry", "relRmdir"} /\ done = "idle"
      PROVE  SerialInv'
  BY <1>1, PidAssumption
     DEF RemoveEmptyDir, OneCall, NoPidWithoutDir, OwnerRecorded, CreatorAlone,
         BreakerSafe, RetryFindsNoDir
<1>2. ASSUME NEW from, NEW next, DirNotEmpty(p, from, next),
             \/ from = "staleTry" /\ next = "staleUnlink"
             \/ from = "relTry" /\ next = "relUnlink"
             \/ from \in {"staleRmdir", "relRmdir"} /\ next = "idle"
      PROVE  SerialInv'
  BY <1>2, PidAssumption
     DEF DirNotEmpty, OneCall, NoPidWithoutDir, OwnerRecorded, CreatorAlone,
         BreakerSafe, RetryFindsNoDir
<1>3. ASSUME NEW from, NEW next, UnlinkPid(p, from, next),
             \/ from = "staleUnlink" /\ next = "staleRmdir"
             \/ from = "relUnlink" /\ next = "relRmdir"
      PROVE  SerialInv'
  BY <1>3, PidAssumption
     DEF UnlinkPid, OneCall, NoPidWithoutDir, OwnerRecorded, CreatorAlone,
         BreakerSafe, RetryFindsNoDir
<1>4. QED
  BY <1>1, <1>2, <1>3 DEF RemoveStale, ReleaseRemove, RemoveAll

LEMMA SerialStep ==
  ASSUME TypeOK, SerialInv, [Next]_vars
  PROVE  SerialInv'
<1> USE PidAssumption
    DEF TypeOK, serial, SerialInv, Exclusive, Goto, Holding, InCall, InAcquire, InRelease, PidContent,
        OneCall, NoPidWithoutDir, OwnerRecorded, CreatorAlone, BreakerSafe,
        RetryFindsNoDir
<1>1. ASSUME NEW p \in Proc, Start(p) \/ Die(p) \/ ForeignStart(p)
      PROVE  SerialInv'
  BY <1>1 DEF Start, Die, ForeignStart, processExists
<1>2. ASSUME NEW p \in Proc, Acquire(p)
      PROVE  SerialInv'
  <2>1. CASE BeginAcquire(p)
    BY <2>1 DEF BeginAcquire, Begin
  <2>2. CASE Mkdir(p) \/ RetryMkdir(p) \/ RetryRead(p)
    BY <2>2 DEF Mkdir, RetryMkdir, RetryRead, CreateDir, AcquireFails
  <2>3. CASE ReadPid(p)
    BY <2>3 DEF ReadPid
  <2>4. CASE CheckPid(p)
    BY <2>4 DEF CheckPid, RecordsLiveProcess, processExists
  <2>5. CASE RemoveStale(p)
    BY <2>5, RemoveAllSerial
  <2>6. CASE ChownDir(p) \/ OpenPid(p)
    BY <2>6 DEF ChownDir, OpenPid, AcquireFails
  <2>7. CASE WritePid(p) \/ ChownPid(p)
    BY <2>7 DEF WritePid, ChownPid, AcquireFails
  <2>8. QED
    BY <1>2, <2>1, <2>2, <2>3, <2>4, <2>5, <2>6, <2>7 DEF Acquire
<1>3. ASSUME NEW p \in Proc, Release(p)
      PROVE  SerialInv'
  <2>1. CASE BeginRelease(p)
    BY <2>1 DEF BeginRelease, Begin
  <2>2. CASE ReleaseRead(p)
    BY <2>2 DEF ReleaseRead
  <2>3. CASE ReleaseRemove(p)
    BY <2>3, RemoveAllSerial
  <2>4. QED
    BY <1>3, <2>1, <2>2, <2>3 DEF Release
<1>4. CASE Inspect
  BY <1>4 DEF Inspect, InspectStat, InspectRead, InspectProcess
<1>5. CASE UNCHANGED vars
  BY <1>5 DEF vars
<1>6. QED
  BY <1>1, <1>2, <1>3, <1>4, <1>5 DEF Next

\* While calls on the lock do not overlap, each position in Acquire and Release
\* knows about the lock path what SerialInv says, whoever dies where.
THEOREM SerialInvariant == Spec => []SerialInv
<1>1. Init => SerialInv
  BY DEF Init, serial, SerialInv, Exclusive, Holding, InCall, InAcquire, InRelease, OneCall,
         NoPidWithoutDir, OwnerRecorded, CreatorAlone, BreakerSafe, RetryFindsNoDir
<1>2. TypeOK /\ SerialInv /\ [Next]_vars => SerialInv'
  BY SerialStep
<1>3. QED
  BY <1>1, <1>2, TypeCorrect, PTL DEF Spec

\* Two runs are never inside the locked region at once (lock.go:1-2) while their
\* calls on the lock have not overlapped: the pid on record is one number.
THEOREM SerialMutualExclusion == Spec => [](serial => MutualExclusion)
<1>1. SerialInv => (serial => MutualExclusion)
  BY DEF SerialInv, Exclusive, OwnerRecorded, Holding, MutualExclusion
<1>2. QED
  BY <1>1, SerialInvariant, PTL

(***************************************************************************)
(* Refinement.  Only the end of Acquire adds a holder, and it finds the    *)
(* pid file naming the process that ends; a holder leaves by releasing or  *)
(* dying; every other step leaves the holders alone.                       *)
(***************************************************************************)
Inside  == {p \in Proc : Holding(p)}
Holders == IF serial THEN Inside ELSE {}

LEMMA InsideOfGoto ==
  ASSUME TypeOK, NEW p \in Proc, NEW label, Goto(p, label)
  PROVE  /\ label = "holding" => Inside' = Inside \cup {p}
         /\ label # "holding" => Inside' = Inside \ {p}
<1>1. \A q \in Proc : pc'[q] = IF q = p THEN label ELSE pc[q]
  BY DEF TypeOK, Goto
<1>2. QED
  BY <1>1 DEF Inside, Holding

LEMMA LastStepEnters ==
  ASSUME TypeOK, SerialInv, serial, NEW p \in Proc, ChownPid(p)
  PROVE  [Abstract!Next]_Holders
<1>1. Inside = {} /\ serial'
  BY DEF ChownPid, AcquireFails, serial, SerialInv, Exclusive, OwnerRecorded, Inside, Holding
<1>2. CASE Goto(p, "holding")
  <2>1. Inside' = {p}
    BY <1>1, <1>2, InsideOfGoto
  <2>2. QED
    BY <1>1, <2>1 DEF Abstract!Next, Abstract!Enter, Holders, Inside
<1>3. CASE Goto(p, "idle")
  BY <1>1, <1>3, InsideOfGoto DEF Holders
<1>4. QED
  BY <1>2, <1>3 DEF ChownPid, AcquireFails

\* A step after which one process is not inside and the others are as before.
LEMMA OtherStepLeaves ==
  ASSUME TypeOK, serial, serial', NEW p \in Proc, NEW label, Goto(p, label), label # "holding"
  PROVE  [Abstract!Next]_Holders
<1>1. Inside' = Inside \ {p}
  BY InsideOfGoto
<1>2. QED
  BY <1>1 DEF Abstract!Next, Abstract!Leave, Holders, Inside

\* The step at which calls overlap: whoever is inside leaves the abstract mutex.
LEMMA OverlapLeaves ==
  ASSUME SerialInv, ~serial'
  PROVE  [Abstract!Next]_Holders
<1>1. Holders' = {}
  BY DEF Holders
<1>2. CASE Holders = {}
  BY <1>1, <1>2
<1>3. ASSUME NEW p \in Holders PROVE Abstract!Leave(p) /\ p \in Proc
  <2>1. serial /\ p \in Proc /\ Holding(p)
    BY DEF Holders, Inside
  <2>2. \A q \in Proc : Holding(q) => q = p
    BY <2>1 DEF SerialInv, Exclusive, OwnerRecorded, Holding
  <2>3. Holders = {p}
    BY <2>1, <2>2 DEF Holders, Inside
  <2>4. QED
    BY <1>1, <2>1, <2>3 DEF Abstract!Leave, Holders, Inside
<1>4. QED
  BY <1>2, <1>3 DEF Abstract!Next

\* A run's Acquire succeeds only when no live run is inside the locked region:
\* the directory lock implements the mutex until calls overlap.
THEOREM SerialRefinesMutex == Spec => RefinesMutex
<1>1. Init => Abstract!Init
  BY DEF Init, serial, Abstract!Init, Holding
<1>2. TypeOK /\ SerialInv /\ [Next]_vars => [Abstract!Next]_Holders
  <2> SUFFICES ASSUME TypeOK, SerialInv, [Next]_vars, serial'
               PROVE  [Abstract!Next]_Holders
    BY OverlapLeaves
  <2>1. serial
    BY DEF serial, Next, Start, Die, ForeignStart, Inspect, InspectStat, InspectRead,
           InspectProcess, vars, Begin,
           Acquire, BeginAcquire, Mkdir, CreateDir, AcquireFails, ReadPid, CheckPid,
           RemoveStale, RetryMkdir, RetryRead, ChownDir, OpenPid, WritePid, ChownPid,
           Release, BeginRelease, ReleaseRead, ReleaseRemove,
           RemoveAll, RemoveEmptyDir, DirNotEmpty, UnlinkPid
  <2>2. ASSUME NEW p \in Proc, Start(p) \/ Die(p) \/ ForeignStart(p)
        PROVE  [Abstract!Next]_Holders
    BY <2>1, <2>2, OtherStepLeaves DEF Start, Die, ForeignStart
  <2>3. ASSUME NEW p \in Proc, Acquire(p)
        PROVE  [Abstract!Next]_Holders
    <3>1. CASE ChownPid(p)
      BY <2>1, <3>1, LastStepEnters
    <3>2. CASE ~ChownPid(p)
      <4>1. CASE BeginAcquire(p) \/ Mkdir(p) \/ ReadPid(p) \/ CheckPid(p)
        <5>1. \E label : Goto(p, label) /\ label # "holding"
          BY <4>1 DEF BeginAcquire, Mkdir, CreateDir, AcquireFails, ReadPid, CheckPid
        <5>2. QED
          BY <2>1, <5>1, OtherStepLeaves
      <4>2. CASE RemoveStale(p)
        <5>1. \E label : Goto(p, label) /\ label # "holding"
          BY <4>2 DEF RemoveStale, RemoveAll, RemoveEmptyDir, DirNotEmpty, UnlinkPid
        <5>2. QED
          BY <2>1, <5>1, OtherStepLeaves
      <4>3. CASE RetryMkdir(p) \/ RetryRead(p) \/ ChownDir(p) \/ OpenPid(p) \/ WritePid(p)
        <5>1. \E label : Goto(p, label) /\ label # "holding"
          BY <4>3 DEF RetryMkdir, RetryRead, CreateDir, AcquireFails, ChownDir, OpenPid, WritePid
        <5>2. QED
          BY <2>1, <5>1, OtherStepLeaves
      <4>4. QED
        BY <2>3, <3>2, <4>1, <4>2, <4>3 DEF Acquire
    <3>3. QED
      BY <3>1, <3>2
  <2>4. ASSUME NEW p \in Proc, Release(p)
        PROVE  [Abstract!Next]_Holders
    <3>1. PICK label : Goto(p, label) /\ label # "holding"
      BY <2>4 DEF Release, BeginRelease, Begin, ReleaseRead, ReleaseRemove, RemoveAll,
                  RemoveEmptyDir, DirNotEmpty, UnlinkPid
    <3>2. QED
      BY <2>1, <3>1, OtherStepLeaves
  <2>5. CASE UNCHANGED pc
    BY <2>1, <2>5 DEF Holders, Inside, Holding
  <2>6. QED
    BY <2>2, <2>3, <2>4, <2>5 DEF Next, Inspect, InspectStat, InspectRead,
                                        InspectProcess, vars
<1>3. QED
  BY <1>1, <1>2, TypeCorrect, SerialInvariant, PTL
     DEF Spec, RefinesMutex, Abstract!Spec, Holders, Inside

(***************************************************************************)
(* Calls that overlap.  A holder whose pid is on record stays the holder   *)
(* of record while the others only look: mkdir finds the directory,        *)
(* readPID finds the holder, and processExists finds it alive.             *)
(***************************************************************************)
LEMMA LookingStep ==
  ASSUME TypeOK, [Next]_vars, NEW p \in Proc, Established(p), Holding(p)'
  PROVE  Established(p)'
<1> USE DEF TypeOK, Established, OnlyLooking, Holding, Goto
<1>1. ASSUME NEW r \in Proc, Start(r) \/ Die(r) \/ ForeignStart(r)
      PROVE  Established(p)'
  BY <1>1 DEF Start, Die, ForeignStart
<1>2. ASSUME NEW r \in Proc, Acquire(r)
      PROVE  Established(p)'
  <2>1. CASE BeginAcquire(r) \/ Mkdir(r) \/ ReadPid(r)
    BY <2>1 DEF BeginAcquire, Mkdir, CreateDir, AcquireFails, ReadPid
  <2>2. CASE CheckPid(r)
    BY <2>2 DEF CheckPid, RecordsLiveProcess, processExists
  <2>3. CASE RemoveStale(r)
    BY <2>3 DEF RemoveStale, RemoveAll, RemoveEmptyDir, DirNotEmpty, UnlinkPid
  <2>4. CASE RetryMkdir(r) \/ RetryRead(r) \/ ChownDir(r)
    BY <2>4 DEF RetryMkdir, RetryRead, ChownDir
  <2>5. CASE OpenPid(r) \/ WritePid(r) \/ ChownPid(r)
    BY <2>5 DEF OpenPid, WritePid, ChownPid
  <2>6. QED
    BY <1>2, <2>1, <2>2, <2>3, <2>4, <2>5 DEF Acquire
<1>3. ASSUME NEW r \in Proc, Release(r)
      PROVE  Established(p)'
  BY <1>3 DEF Release, BeginRelease, ReleaseRead, ReleaseRemove, RemoveAll,
              RemoveEmptyDir, DirNotEmpty, UnlinkPid
<1>4. CASE Inspect
  BY <1>4 DEF Inspect, InspectStat, InspectRead, InspectProcess
<1>5. CASE UNCHANGED vars
  BY <1>5 DEF vars
<1>6. QED
  BY <1>1, <1>2, <1>3, <1>4, <1>5 DEF Next

\* A live holder on record is safe from every Acquire that starts later, even
\* when calls overlap: the liveness check in Acquire protects it.
THEOREM HolderProtected == Spec => LiveHolderUndisturbed
<1>1. TypeOK /\ [Next]_vars
        => [\A p \in Proc : Established(p) /\ Holding(p)' => Established(p)']_vars
  BY LookingStep
<1>2. QED
  BY <1>1, TypeCorrect, PTL DEF Spec, LiveHolderUndisturbed

(***************************************************************************)
(* inspectLock, with other processes between its steps.  While there has   *)
(* been no lull one and the same run has held the lock: its pid is on      *)
(* record when it is read, and it is alive when it is asked for.           *)
(***************************************************************************)
\* Two runs never hold the lock at once, and a holder is on record.
LEMMA HolderOnRecord ==
  ASSUME SerialInv, serial, NEW p \in Proc, Holding(p)
  PROVE  dir /\ pidFile = p
  BY DEF SerialInv, Exclusive, OwnerRecorded, Holding

\* A run becomes a holder at the end of its Acquire only.
LEMMA HolderEnters ==
  ASSUME TypeOK, [Next]_vars, NEW p \in Proc, Holding(p)'
  PROVE  Holding(p) \/ pc[p] = "chownPid"
<1> USE DEF TypeOK, Holding, Goto
<1>1. ASSUME NEW r \in Proc, Start(r) \/ Die(r) \/ ForeignStart(r)
      PROVE  Holding(p)
  BY <1>1 DEF Start, Die, ForeignStart
<1>2. ASSUME NEW r \in Proc, Acquire(r), ~ChownPid(r)
      PROVE  Holding(p)
  BY <1>2 DEF Acquire, BeginAcquire, Mkdir, CreateDir, AcquireFails, ReadPid, CheckPid,
              RemoveStale, RetryMkdir, RetryRead, ChownDir, OpenPid, WritePid,
              RemoveAll, RemoveEmptyDir, DirNotEmpty, UnlinkPid
<1>3. ASSUME NEW r \in Proc, ChownPid(r)
      PROVE  Holding(p) \/ pc[p] = "chownPid"
  BY <1>3 DEF ChownPid, AcquireFails
<1>4. ASSUME NEW r \in Proc, Release(r)
      PROVE  Holding(p)
  BY <1>4 DEF Release, BeginRelease, ReleaseRead, ReleaseRemove, RemoveAll,
              RemoveEmptyDir, DirNotEmpty, UnlinkPid
<1>5. CASE Inspect \/ UNCHANGED vars
  BY <1>5 DEF Inspect, InspectStat, InspectRead, InspectProcess, vars
<1>6. QED
  BY <1>1, <1>2, <1>3, <1>4, <1>5 DEF Next

\* Only an inspection moves the inspection.
LEMMA OnlyInspectionAnswers ==
  ASSUME [Next]_vars, ~UNCHANGED look
  PROVE  Inspect
  BY DEF Next, vars, look, Start, Die, ForeignStart, Acquire, BeginAcquire, Mkdir, CreateDir,
         AcquireFails, ReadPid, CheckPid, RemoveStale, RetryMkdir, RetryRead, ChownDir,
         OpenPid, WritePid, ChownPid, Release, BeginRelease, ReleaseRead, ReleaseRemove,
         RemoveAll, RemoveEmptyDir, DirNotEmpty, UnlinkPid

\* Calls that have overlapped have done so for good.
LEMMA SerialBefore ==
  ASSUME [Next]_vars, serial'
  PROVE  serial
  BY DEF serial, Next, Start, Die, ForeignStart, Inspect, InspectStat, InspectRead,
         InspectProcess, vars, Begin, Acquire, BeginAcquire, Mkdir, CreateDir,
         AcquireFails, ReadPid, CheckPid, RemoveStale, RetryMkdir, RetryRead, ChownDir,
         OpenPid, WritePid, ChownPid, Release, BeginRelease, ReleaseRead, ReleaseRemove,
         RemoveAll, RemoveEmptyDir, DirNotEmpty, UnlinkPid

\* An inspection moves no process.
LEMMA InspectionMovesNobody ==
  ASSUME Inspect
  PROVE  UNCHANGED <<dir, pidFile, pc>>
  BY DEF Inspect, InspectStat, InspectRead, InspectProcess

\* What was read stays the pid of the holder as long as there is no lull.
LEMMA InspectStep ==
  ASSUME TypeOK, SerialInv, SerialInv', InspectInv, [Next]_vars
  PROVE  InspectInv'
<1> SUFFICES ASSUME serial', inspect' = "asking", ~lull'
             PROVE  \E p \in Proc : Holding(p)' /\ inspected' = p
  BY DEF InspectInv
<1>1. serial
  BY SerialBefore
<1>2. CASE UNCHANGED vars
  BY <1>1, <1>2 DEF InspectInv, vars, look, Holding
<1>3. CASE ~UNCHANGED vars
  <2>1. PICK q \in Proc : Holding(q)'
    BY <1>3 DEF Next, Observe, Unheld, Holding
  <2>2. CASE UNCHANGED look
    <3>1. inspect = "asking" /\ ~lull
      BY <1>3, <2>2 DEF Next, Observe, look, Inspecting
    <3>2. PICK p \in Proc : Holding(p) /\ inspected = p
      BY <1>1, <3>1 DEF InspectInv
    <3>3. pidFile = p
      BY <1>1, <3>2, HolderOnRecord
    <3>4. Holding(q) \/ pc[q] = "chownPid"
      BY <2>1, HolderEnters
    <3>5. pidFile = q
      BY <1>1, <3>4 DEF SerialInv, Exclusive, OwnerRecorded, Holding
    <3>6. QED
      BY <2>1, <2>2, <3>2, <3>3, <3>5 DEF look
  <2>3. CASE ~UNCHANGED look
    <3>1. Inspect /\ UNCHANGED <<dir, pidFile, pc>>
      BY <2>3, OnlyInspectionAnswers, InspectionMovesNobody
    <3>2. inspected' = pidFile
      BY <3>1, <2>3 DEF Inspect, InspectStat, InspectRead, InspectProcess, Inspecting
    <3>3. Holding(q)
      BY <2>1, <3>1 DEF Holding
    <3>4. QED
      BY <1>1, <2>1, <3>2, <3>3, HolderOnRecord
  <2>4. QED
    BY <2>2, <2>3
<1>4. QED
  BY <1>2, <1>3

\* An answer of "absent" or "stale" needs an instant without a holder.
LEMMA AnswerStep ==
  ASSUME SerialInv, InspectInv, [Next]_vars, serial', inspect' # inspect,
         inspect' \in {"absent", "stale"}
  PROVE  lull'
<1>1. serial /\ Inspect /\ UNCHANGED <<dir, pidFile, pc>> /\ Observe
  BY SerialBefore, OnlyInspectionAnswers, InspectionMovesNobody DEF look, Next, vars
<1>2. SUFFICES ASSUME ~lull' PROVE FALSE
  OBVIOUS
<1>3. PICK q \in Proc : Holding(q)
  BY <1>1, <1>2 DEF Observe, Unheld, Holding
<1>4. dir /\ pidFile = q
  BY <1>1, <1>3, HolderOnRecord
<1>5. CASE InspectStat
  BY <1>4, <1>5 DEF InspectStat
<1>6. CASE InspectRead
  BY <1>4, <1>6 DEF InspectRead
<1>7. CASE InspectProcess
  <2>1. inspect = "asking" /\ ~lull
    BY <1>1, <1>2, <1>7 DEF InspectProcess, Observe, Inspecting
  <2>2. PICK p \in Proc : Holding(p) /\ inspected = p
    BY <1>1, <2>1 DEF InspectInv
  <2>3. QED
    BY <1>7, <2>2 DEF InspectProcess, processExists, Holding
<1>8. QED
  BY <1>1, <1>5, <1>6, <1>7 DEF Inspect

\* When inspectLock answers "absent" or "stale" there was an instant during the
\* inspection at which no run held the lock, wherever others acquired, released or
\* died in between; calls of Acquire and Release have not overlapped each other.
THEOREM InspectionIsSound == Spec => InspectSound
<1>1. Init => InspectInv
  BY DEF Init, InspectInv
<1>2. TypeOK /\ SerialInv /\ SerialInv' /\ InspectInv /\ [Next]_vars => InspectInv'
  BY InspectStep
<1>3. SerialInv /\ InspectInv /\ [Next]_vars
        => [serial' /\ inspect' # inspect /\ inspect' \in {"absent", "stale"} => lull']_vars
  BY AnswerStep
<1>4. QED
  BY <1>1, <1>2, <1>3, TypeCorrect, SerialInvariant, PTL DEF Spec, InspectSound
=============================================================================
