--------------------------- MODULE InstallProofs ---------------------------
(***************************************************************************)
(* Theorems about the managed install, for any number of versions and      *)
(* sessions and any retention.                                             *)
(***************************************************************************)
EXTENDS Install, TLAPS

\* What a session at a label has been asked to do and has chosen.
KindInv ==
  \A s \in Session :
    /\ pc[s] \in InUpdate \cup InScript => task[s] \in ScriptTask
    /\ pc[s] \in InScript \ {"list", "prune"} => choice[s] \in Version

\* What a session relies on while none prunes beside another one.
SessionOK(s) ==
  /\ pc[s] \in {"link", "symlink", "confirm", "clear", "tempLink", "rename"}
       => choice[s] \in Installed
  /\ pc[s] = "rename" => temp \in Installed \cup {None}
  /\ pc[s] = "remove" => choice[s] # current
  /\ pc[s] = "remove" \/ (pc[s] = "prune" /\ listed[s] # {}) => Prunes(task[s])
  /\ Busy(s) /\ Prunes(task[s]) => \A q \in Session \ {s} : ~Busy(q)

\* The links resolve, or ln is at work on one that does not, or has been cut off.
Resolves ==
  /\ \/ current \in Installed
     \/ current = None /\ \E s \in Session : pc[s] \in {"symlink", "cut"}
  /\ \/ stable
     \/ \E s \in Session : pc[s] \in {"stableSymlink", "cutStable"}

\* Where a session is, or has stopped, between the two steps of ln.
Relinking == {"symlink", "cut", "stableSymlink", "cutStable"}

\* What holds while no session prunes beside another one.
CalmInv == Resolves /\ \A s \in Session : SessionOK(s)

\* What holds while one session works at a time.
OneAtATime ==
  /\ \A s, q \in Session : Busy(s) /\ Busy(q) => s = q
  /\ \A s \in Session : pc[s] = "rename" => temp = choice[s]

Inv ==
  /\ TypeOK
  /\ KindInv
  /\ calm => CalmInv
  /\ serial => OneAtATime
-----------------------------------------------------------------------------
LEMMA NoneIsNoVersion == None \notin Version
  BY NoneAssumption, VersionAssumption DEF Version

\* A process that ends or stays where it is keeps the types.
LEMMA EndKeepsTypes ==
  ASSUME TypeOK, KindInv, NEW s \in Session, NEW label \in Ended, End(s, label)
  PROVE  /\ task' \in [Session -> Maybe(Task)]
         /\ pc' \in [Session -> Label]
         /\ choice' \in [Session -> Maybe(Version)]
         /\ listed' \in [Session -> SUBSET Version]
         /\ KindInv'
         /\ \A q \in Session :
              pc'[q] \in InRollback \ {"planRollback"} => choice'[q] \in Version
<1>1. /\ task' \in [Session -> Maybe(Task)]
      /\ choice' \in [Session -> Maybe(Version)]
      /\ listed' \in [Session -> SUBSET Version]
  BY DEF End, TypeOK, Maybe
<1>2. pc' \in [Session -> Label]
  BY DEF End, Goto, TypeOK, Label
<1>3. KindInv'
  BY DEF End, Goto, KindInv, TypeOK, InUpdate, InScript, Ended
<1>4. \A q \in Session : pc'[q] \in InRollback \ {"planRollback"} => choice'[q] \in Version
  BY DEF End, Goto, TypeOK, InRollback, Ended
<1> QED
  BY <1>1, <1>2, <1>3, <1>4

LEMMA StartType ==
  ASSUME TypeOK, KindInv, NEW s \in Session, NEW t \in Task, Start(s, t)
  PROVE  TypeOK' /\ KindInv'
<1>1. /\ t.kind \in {"update", "install"} => t \in ScriptTask /\ t.target \in Version
      /\ t.kind \in {"update", "install", "rollback"}
  BY DEF Task, ScriptTask
<1>2. FirstLabel(t) \in Label
  BY DEF FirstLabel, Label, InUpdate, InScript, InRollback
<1>3. choice' \in [Session -> Maybe(Version)]
  BY <1>1 DEF Start, TypeOK, Maybe
<1>4. history' \in {"serial", "overlapped", "contended"}
  BY DEF Start, TypeOK, HistoryAfter
<1>5. task' \in [Session -> Maybe(Task)]
  BY DEF Start, TypeOK, Maybe
<1>6. TypeOK'
  BY <1>2, <1>3, <1>4, <1>5 DEF Start, TypeOK, Goto, disk, FirstLabel, InRollback
<1>7. KindInv'
  BY <1>1 DEF Start, KindInv, TypeOK, Goto, FirstLabel, InUpdate, InScript
<1> QED
  BY <1>6, <1>7

LEMMA PlaceType ==
  ASSUME TypeOK, KindInv, NEW s \in Session, Place(s)
  PROVE  TypeOK' /\ KindInv'
<1>1. choice[s] \in Version
  BY DEF Place, KindInv, InScript
<1>2. rank' \in [Version -> Nat]
  BY <1>1 DEF Place, TypeOK
<1>3. TypeOK'
  BY <1>2 DEF Place, TypeOK, Goto, mine, Label, InScript, InRollback
<1>4. KindInv'
  BY DEF Place, KindInv, TypeOK, Goto, mine, InUpdate, InScript
<1> QED
  BY <1>3, <1>4

LEMMA RemoveType ==
  ASSUME TypeOK, KindInv, NEW s \in Session, Remove(s)
  PROVE  TypeOK' /\ KindInv'
<1>1. choice[s] \in Version
  BY DEF Remove, KindInv, InScript
<1>2. rank' \in [Version -> Nat]
  BY <1>1 DEF Remove, TypeOK
<1>3. TypeOK'
  BY <1>2 DEF Remove, TypeOK, Goto, mine, Label, InScript, InRollback
<1>4. KindInv'
  BY DEF Remove, KindInv, TypeOK, Goto, mine, InUpdate, InScript
<1> QED
  BY <1>3, <1>4

\* Steps that only move on.
LEMMA MoveType ==
  ASSUME TypeOK, KindInv, NEW s \in Session, Plan(s) \/ Fetch(s) \/ List(s) \/ Confirm(s)
  PROVE  TypeOK' /\ KindInv'
<1>1. CASE Plan(s)
  BY <1>1 DEF Plan, TypeOK, KindInv, Goto, disk, mine, Label, InUpdate, InScript, InRollback
<1>2. CASE Fetch(s)
  <2>1. task[s].target \in Version
    BY <1>2 DEF Fetch, KindInv, InUpdate, ScriptTask
  <2> QED
    BY <1>2, <2>1
    DEF Fetch, TypeOK, KindInv, Goto, disk, Label, InUpdate, InScript, InRollback, Maybe
<1>3. CASE List(s)
  <2>1. listed' \in [Session -> SUBSET Version]
    BY <1>3 DEF List, TypeOK, Installed
  <2> QED
    BY <1>3, <2>1 DEF List, TypeOK, KindInv, Goto, disk, Label, InUpdate, InScript,
                      InRollback
<1>4. CASE Confirm(s)
  BY <1>4 DEF Confirm, TypeOK, KindInv, Goto, disk, mine, Label, InUpdate, InScript,
              InRollback
<1> QED
  BY <1>1, <1>2, <1>3, <1>4

LEMMA LinkType ==
  ASSUME TypeOK, KindInv, NEW s \in Session, Link(s) \/ Symlink(s)
  PROVE  TypeOK' /\ KindInv'
<1>1. choice[s] \in Version
  BY DEF Link, Symlink, KindInv, InScript
<1>2. CASE Link(s)
  <2>1. current' \in Maybe(Version) /\ undo' \in Maybe(Version)
    BY <1>1, <1>2 DEF Link, Activated, TypeOK, Maybe
  <2> QED
    BY <1>2, <2>1 DEF Link, TypeOK, KindInv, Goto, mine, Label, InUpdate, InScript,
                      InRollback
<1>3. ASSUME Symlink(s), current = None
      PROVE  TypeOK' /\ KindInv'
  BY <1>1, <1>3
  DEF Symlink, TypeOK, KindInv, Goto, mine, Label, InUpdate, InScript, InRollback, Maybe
<1>4. ASSUME Symlink(s), current # None
      PROVE  TypeOK' /\ KindInv'
  <2>1. End(s, "idle")
    BY <1>4 DEF Symlink
  <2> QED
    BY <1>4, <2>1, EndKeepsTypes DEF Symlink, TypeOK, Ended
<1> QED
  BY <1>2, <1>3, <1>4

LEMMA StableType ==
  ASSUME TypeOK, KindInv, NEW s \in Session, StableLink(s) \/ StableSymlink(s)
  PROVE  TypeOK' /\ KindInv'
<1>1. ASSUME NEW label \in {"list", "stableSymlink"}, Goto(s, label), UNCHANGED mine
      PROVE  TypeOK' /\ KindInv'
  BY <1>1
  DEF StableLink, StableSymlink, TypeOK, KindInv, Goto, mine, Label, InUpdate, InScript,
      InRollback
<1>2. ASSUME StableSymlink(s), End(s, "idle")
      PROVE  TypeOK' /\ KindInv'
  BY <1>2, EndKeepsTypes DEF StableSymlink, TypeOK, Ended
<1> QED
  BY <1>1, <1>2 DEF StableLink, StableSymlink

LEMMA PruneType ==
  ASSUME TypeOK, KindInv, NEW s \in Session, Prune(s)
  PROVE  TypeOK' /\ KindInv'
<1>1. ASSUME listed[s] = {}, End(s, "idle")
      PROVE  TypeOK' /\ KindInv'
  BY <1>1, EndKeepsTypes DEF Prune, TypeOK, disk, Ended
<1>2. ASSUME NEW v \in listed[s],
             choice' = [choice EXCEPT ![s] = v],
             listed' = [listed EXCEPT ![s] = @ \ {v}],
             Goto(s, IF v = current THEN "prune" ELSE "remove"),
             UNCHANGED task
      PROVE  TypeOK' /\ KindInv'
  <2>1. v \in Version
    BY DEF TypeOK
  <2>2. choice' \in [Session -> Maybe(Version)] /\ listed' \in [Session -> SUBSET Version]
    BY <1>2, <2>1 DEF TypeOK, Maybe
  <2>3. pc' \in [Session -> Label]
    BY <1>2 DEF Goto, TypeOK, Label, InScript
  <2>4. TypeOK'
    BY <1>2, <2>2, <2>3 DEF Prune, TypeOK, disk, Goto, InRollback
  <2>5. KindInv'
    BY <1>2, <2>1 DEF Prune, TypeOK, KindInv, Goto, InUpdate, InScript
  <2> QED
    BY <2>4, <2>5
<1> QED
  BY <1>1, <1>2 DEF Prune

LEMMA RollbackType ==
  ASSUME TypeOK, KindInv, NEW s \in Session,
         PlanRollback(s) \/ ClearTemp(s) \/ TempLink(s) \/ Rename(s) \/ UndoTemp(s)
  PROVE  TypeOK' /\ KindInv'
<1>1. CASE PlanRollback(s)
  <2>1. PICK v \in Candidates(s) : choice' = [choice EXCEPT ![s] = v]
    BY <1>1 DEF PlanRollback
  <2>2. v \in Version
    BY DEF Candidates, Installed
  <2> QED
    BY <1>1, <2>1, <2>2
    DEF PlanRollback, TypeOK, KindInv, Goto, disk, Label, InUpdate, InScript, InRollback,
        Maybe
<1>2. CASE ClearTemp(s)
  BY <1>2 DEF ClearTemp, TypeOK, KindInv, Goto, mine, Label, InUpdate, InScript,
              InRollback, Maybe
<1>3. CASE TempLink(s)
  <2>1. ASSUME End(s, "idle"), UNCHANGED temp
        PROVE  TypeOK' /\ KindInv'
    BY <1>3, <2>1, EndKeepsTypes DEF TempLink, TypeOK, Ended
  <2>2. ASSUME temp' = choice[s], Goto(s, "rename"), UNCHANGED mine
        PROVE  TypeOK' /\ KindInv'
    BY <1>3, <2>2
    DEF TempLink, TypeOK, KindInv, Goto, mine, Label, InUpdate, InScript, InRollback
  <2> QED
    BY <1>3, <2>1, <2>2 DEF TempLink
<1>4. CASE Rename(s)
  <2>1. ASSUME temp # None, current' = temp, temp' = None, undo' = None, End(s, "idle")
        PROVE  TypeOK' /\ KindInv'
    BY <1>4, <2>1, EndKeepsTypes DEF Rename, TypeOK, Maybe, Ended
  <2>2. ASSUME Goto(s, "undoTemp"), UNCHANGED <<current, temp, undo, mine>>
        PROVE  TypeOK' /\ KindInv'
    BY <1>4, <2>2 DEF Rename, TypeOK, KindInv, Goto, mine, Label, InUpdate, InScript,
                      InRollback
  <2> QED
    BY <1>4, <2>1, <2>2 DEF Rename
<1>5. CASE UndoTemp(s)
  BY <1>5, EndKeepsTypes DEF UndoTemp, TypeOK, Maybe, Ended
<1> QED
  BY <1>1, <1>2, <1>3, <1>4, <1>5

LEMMA TypeStep ==
  ASSUME TypeOK, KindInv, [Next]_vars
  PROVE  TypeOK' /\ KindInv'
<1>1. CASE UNCHANGED vars
  BY <1>1 DEF TypeOK, KindInv, vars, disk, mine
<1>2. CASE Next
  <2>1. PICK s \in Session :
          \/ \E t \in Task : Start(s, t)
          \/ Stop(s) \/ Cut(s) \/ Update(s) \/ Script(s) \/ Rollback(s)
    BY <1>2 DEF Next
  <2>2. CASE Stop(s) \/ Cut(s)
    BY <2>2, EndKeepsTypes DEF Stop, Cut, TypeOK, disk, Ended
  <2> QED
    BY <2>1, <2>2, StartType, MoveType, PlaceType, LinkType, StableType, PruneType,
       RemoveType, RollbackType
    DEF Update, Script, Rollback
<1> QED
  BY <1>1, <1>2

\* Every variable has its type.
THEOREM TypeCorrect == Spec => []TypeOK
<1>1. Init => TypeOK /\ KindInv
  BY DEF Init, TypeOK, KindInv, Maybe, Label, Ended, InUpdate, InScript, InRollback
<1>2. TypeOK /\ KindInv /\ [Next]_vars => (TypeOK /\ KindInv)'
  BY TypeStep
<1> QED
  BY <1>1, <1>2, PTL DEF Spec

-----------------------------------------------------------------------------
(* The stable command and what a rollback activates. *)

\* Calm and serial pasts stay behind: they end, and do not come back.
LEMMA PastStays ==
  ASSUME [Next]_vars
  PROVE  (calm' => calm) /\ (serial' => serial)
<1>1. CASE UNCHANGED vars
  BY <1>1 DEF vars, calm, serial
<1>2. ASSUME NEW s \in Session, NEW t \in Task, Start(s, t)
      PROVE  (calm' => calm) /\ (serial' => serial)
  BY <1>2 DEF Start, HistoryAfter, calm, serial
<1>3. ASSUME NEW s \in Session, Stop(s) \/ Cut(s) \/ Update(s) \/ Script(s) \/ Rollback(s)
      PROVE  (calm' => calm) /\ (serial' => serial)
  <2>1. history' = history
    BY <1>3 DEF Stop, Cut, Update, Plan, Fetch, Script, Place, Link, Symlink, StableLink,
                StableSymlink, List, Prune, Remove, Rollback, PlanRollback, Confirm,
                ClearTemp, TempLink, Rename, UndoTemp
  <2> QED
    BY <2>1 DEF calm, serial
<1> QED
  BY <1>1, <1>2, <1>3 DEF Next

\* A session that stands by, while another one is at work, can rely on the same.
LEMMA OthersRely ==
  ASSUME TypeOK, CalmInv, NEW s \in Session, NEW q \in Session \ {s}, Busy(s),
         pc'[q] = pc[q], choice'[q] = choice[q], listed'[q] = listed[q], task'[q] = task[q],
         Installed \subseteq Installed' \/ Prunes(task[s]),
         temp' \in {temp, None} \cup Installed',
         \A p \in Session : Busy(p)' => Busy(p)
  PROVE  SessionOK(q)'
<1>1. SessionOK(q) /\ SessionOK(s)
  BY DEF CalmInv
<1>2. Busy(q) => ~Prunes(task[s]) /\ ~Prunes(task[q]) /\ Installed \subseteq Installed'
  BY <1>1 DEF SessionOK
<1>3. Busy(q)' <=> Busy(q)
  BY DEF Busy, Ended
<1>4. Prunes(task[q])' <=> Prunes(task[q])
  BY DEF Prunes
<1>5. CASE ~Busy(q)
  BY <1>3, <1>5 DEF SessionOK, Busy, Ended
<1>6. CASE Busy(q)
  <2>1. ~Prunes(task[q]) /\ pc[q] # "remove" /\ (pc[q] = "prune" => listed[q] = {})
    BY <1>1, <1>2, <1>6 DEF SessionOK
  <2>2. pc[q] \in {"link", "symlink", "confirm", "clear", "tempLink", "rename"}
          => choice'[q] \in Installed'
    BY <1>1, <1>2, <1>6 DEF SessionOK
  <2>3. pc[q] = "rename" => temp' \in Installed' \cup {None}
    BY <1>1, <1>2, <1>6 DEF SessionOK
  <2> QED
    BY <1>3, <1>4, <2>1, <2>2, <2>3 DEF SessionOK
<1> QED
  BY <1>5, <1>6

\* A process that ends has nothing to rely on.
LEMMA EndRely ==
  ASSUME TypeOK, CalmInv, NEW s \in Session, NEW label \in Ended, Busy(s),
         End(s, label), UNCHANGED rank, temp' \in {temp, None}
  PROVE  \A q \in Session : SessionOK(q)'
<1>1. Installed' = Installed
  BY DEF Installed
<1>2. ASSUME NEW q \in Session \ {s}
      PROVE  /\ pc'[q] = pc[q] /\ choice'[q] = choice[q]
             /\ listed'[q] = listed[q] /\ task'[q] = task[q]
  BY DEF End, Goto, TypeOK
<1>3. pc'[s] = label
  BY DEF End, Goto, TypeOK
<1>4. \A p \in Session : Busy(p)' => Busy(p)
  BY <1>2, <1>3 DEF Busy, Ended
<1>5. SessionOK(s)'
  BY <1>3 DEF SessionOK, Busy, Ended
<1>6. ASSUME NEW q \in Session \ {s}
      PROVE  SessionOK(q)'
  BY <1>1, <1>2, <1>4, <1>6, OthersRely
<1> QED
  BY <1>5, <1>6

\* So has one that moves on, if its own part holds.
LEMMA MoveRely ==
  ASSUME TypeOK, CalmInv, NEW s \in Session, NEW label \in Label \ Ended, Busy(s),
         Goto(s, label), task' = task,
         \A q \in Session \ {s} : choice'[q] = choice[q] /\ listed'[q] = listed[q],
         Installed \subseteq Installed' \/ Prunes(task[s]),
         temp' \in {temp, None} \cup Installed',
         label \in {"link", "symlink", "confirm", "clear", "tempLink", "rename"}
           => choice'[s] \in Installed',
         label = "rename" => temp' \in Installed' \cup {None},
         label = "remove" => choice'[s] # current',
         label = "remove" \/ (label = "prune" /\ listed'[s] # {}) => Prunes(task[s])
  PROVE  \A q \in Session : SessionOK(q)'
<1>1. pc'[s] = label /\ \A q \in Session \ {s} : pc'[q] = pc[q]
  BY DEF Goto, TypeOK
<1>2. \A p \in Session : Busy(p)' => Busy(p)
  BY <1>1 DEF Busy, Ended
<1>3. SessionOK(s)'
  <2>1. Prunes(task[s])' <=> Prunes(task[s])
    BY DEF Prunes
  <2>2. Busy(s)' /\ Prunes(task[s])' => \A q \in Session \ {s} : ~Busy(q)'
    <3>1. SessionOK(s)
      BY DEF CalmInv
    <3> QED
      BY <1>2, <2>1, <3>1 DEF SessionOK
  <2> QED
    BY <1>1, <2>1, <2>2 DEF SessionOK
<1>4. ASSUME NEW q \in Session \ {s}
      PROVE  SessionOK(q)'
  BY <1>1, <1>2, <1>4, OthersRely
<1> QED
  BY <1>3, <1>4

LEMMA CalmStart ==
  ASSUME TypeOK, KindInv, calm, CalmInv, NEW s \in Session, NEW t \in Task, Start(s, t), calm'
  PROVE  CalmInv'
<1> DEFINE others == {q \in Session : Busy(q)}
<1>1. /\ Installed' = Installed /\ current' = current /\ temp' = temp /\ listed' = listed
      /\ stable' = stable
  BY DEF Start, disk, Installed
<1>2. pc' = [pc EXCEPT ![s] = FirstLabel(t)] /\ task' = [task EXCEPT ![s] = t]
  BY DEF Start, Goto
<1>3. FirstLabel(t) \in {"plan", "planRollback", "place"}
  BY DEF FirstLabel
<1>4. \A q \in Session \ {s} :
        pc'[q] = pc[q] /\ task'[q] = task[q] /\ choice'[q] = choice[q]
  BY <1>2 DEF Start, TypeOK
<1>5. pc'[s] = FirstLabel(t) /\ task'[s] = t /\ pc[s] = "idle"
  BY <1>2 DEF TypeOK, Start
<1>6. others = {} \/ (~Prunes(t) /\ \A q \in others : ~Prunes(task[q]))
  BY DEF Start, HistoryAfter, calm
<1>7. Resolves'
  BY <1>1, <1>4, <1>5 DEF CalmInv, Resolves
<1>8. SessionOK(s)'
  <2>1. Prunes(t) => \A q \in Session \ {s} : ~Busy(q)'
    BY <1>4, <1>6 DEF Busy, Ended
  <2>2. Prunes(task[s])' <=> Prunes(t)
    BY <1>5 DEF Prunes
  <2> QED
    BY <1>3, <1>5, <2>1, <2>2 DEF SessionOK
<1>9. ASSUME NEW q \in Session \ {s}
      PROVE  SessionOK(q)'
  <2>1. SessionOK(q)
    BY DEF CalmInv
  <2>2. (Busy(q)' <=> Busy(q)) /\ (Prunes(task[q])' <=> Prunes(task[q]))
    BY <1>4 DEF Busy, Ended, Prunes
  <2>3. Busy(q) => ~Prunes(task[q])
    BY <1>6
  <2> QED
    BY <1>1, <1>4, <2>1, <2>2, <2>3 DEF SessionOK
<1> QED
  BY <1>7, <1>8, <1>9 DEF CalmInv

\* A session at work that is no pruner keeps the link in order, as all its steps do.
LEMMA ResolvesStays ==
  ASSUME TypeOK, Resolves, NEW s \in Session, current' = current, stable' = stable,
         Installed \subseteq Installed',
         \A q \in Session : pc[q] \in Relinking => pc'[q] = pc[q]
  PROVE  Resolves'
  BY DEF Resolves, Relinking

LEMMA CalmEnds ==
  ASSUME TypeOK, KindInv, CalmInv, NEW s \in Session, Stop(s) \/ Cut(s) \/ UndoTemp(s)
  PROVE  CalmInv'
<1>1. PICK label \in Ended :
        /\ End(s, label)
        /\ pc[s] = "symlink" => label = "cut"
        /\ pc[s] = "stableSymlink" => label = "cutStable"
  BY DEF Stop, Cut, UndoTemp, Ended
<1>2. Busy(s)
  BY DEF Stop, Cut, UndoTemp, Busy, Ended
<1>3. UNCHANGED <<rank, current, stable>> /\ temp' \in {temp, None}
  BY DEF Stop, Cut, UndoTemp, disk
<1>4. \A q \in Session : SessionOK(q)'
  BY <1>1, <1>2, <1>3, EndRely DEF CalmInv
<1>5. \A q \in Session :
        /\ pc[q] \in {"symlink", "cut"} => pc'[q] \in {"symlink", "cut"}
        /\ pc[q] \in {"stableSymlink", "cutStable"}
             => pc'[q] \in {"stableSymlink", "cutStable"}
  BY <1>1, <1>2 DEF End, Goto, TypeOK, Busy, Ended
<1>6. Resolves'
  BY <1>3, <1>5 DEF CalmInv, Resolves, Installed
<1> QED
  BY <1>4, <1>6 DEF CalmInv

LEMMA CalmMoves ==
  ASSUME TypeOK, KindInv, CalmInv, NEW s \in Session,
         Plan(s) \/ Fetch(s) \/ Place(s) \/ List(s) \/ PlanRollback(s) \/ Confirm(s)
           \/ ClearTemp(s)
  PROVE  CalmInv'
<1> DEFINE next ==
      IF pc[s] = "plan" THEN "fetch" ELSE IF pc[s] = "fetch" THEN "place"
      ELSE IF pc[s] = "place" THEN (IF task[s].activate THEN "link" ELSE "list")
      ELSE IF pc[s] = "list" THEN "prune" ELSE IF pc[s] = "planRollback" THEN "confirm"
      ELSE IF pc[s] = "confirm" THEN "clear" ELSE "tempLink"
<1>1. Goto(s, next) /\ pc[s] \in {"plan", "fetch", "place", "list", "planRollback", "confirm", "clear"}
  BY DEF Plan, Fetch, Place, List, PlanRollback, Confirm, ClearTemp
<1>2. next \in Label \ Ended /\ Busy(s)
  BY <1>1 DEF Busy, Ended, Label, InUpdate, InScript, InRollback
<1>3. task' = task /\ current' = current /\ stable' = stable /\ temp' \in {temp, None}
  BY DEF Plan, Fetch, Place, List, PlanRollback, Confirm, ClearTemp, disk, mine
<1>4. Installed \subseteq Installed'
  <2>1. CASE Place(s)
    <3>1. choice[s] \in Version
      BY <2>1 DEF Place, KindInv, InScript
    <3>2. \A v \in Version : rank[v] > 0 => rank'[v] > 0
      BY <2>1, <3>1 DEF Place, TypeOK
    <3> QED
      BY <3>2 DEF Installed
  <2>2. CASE ~Place(s)
    BY <2>2 DEF Plan, Fetch, List, PlanRollback, Confirm, ClearTemp, disk, Installed
  <2> QED
    BY <2>1, <2>2
<1>5. \A q \in Session \ {s} : choice'[q] = choice[q] /\ listed'[q] = listed[q]
  BY DEF Plan, Fetch, Place, List, PlanRollback, Confirm, ClearTemp, mine, TypeOK
<1>6. next \in {"link", "symlink", "confirm", "clear", "tempLink", "rename"}
        => choice'[s] \in Installed'
  <2>1. CASE Place(s)
    BY <2>1 DEF Place, KindInv, InScript, mine, Installed
  <2>2. CASE PlanRollback(s)
    BY <2>2 DEF PlanRollback, Candidates, disk, Installed, TypeOK
  <2>3. CASE Confirm(s) \/ ClearTemp(s)
    <3>1. choice[s] \in Installed
      BY <2>3 DEF CalmInv, SessionOK, Confirm, ClearTemp
    <3> QED
      BY <2>3, <3>1, <1>4 DEF Confirm, ClearTemp, mine
  <2>4. CASE Plan(s) \/ Fetch(s) \/ List(s)
    BY <2>4 DEF Plan, Fetch, List
  <2> QED
    BY <2>1, <2>2, <2>3, <2>4
<1>7. next = "prune" /\ listed'[s] # {} => Prunes(task[s])
  <2>1. ASSUME List(s), listed'[s] # {}
        PROVE  Prunes(task[s])
    <3>1. task[s] \in ScriptTask
      BY <2>1 DEF List, KindInv, InScript
    <3>2. task[s].keep # 0
      BY <2>1 DEF List, TypeOK
    <3> QED
      BY <3>1, <3>2 DEF Prunes
  <2> QED
    BY <2>1 DEF Plan, Fetch, Place, List, PlanRollback, Confirm, ClearTemp
<1>8. next \notin {"rename", "remove"}
  BY <1>1
<1>9. \A q \in Session : SessionOK(q)'
  BY <1>1, <1>2, <1>3, <1>4, <1>5, <1>6, <1>7, <1>8, MoveRely
<1>10. Resolves'
  BY <1>1, <1>2, <1>3, <1>4, ResolvesStays DEF CalmInv, Goto, TypeOK, Relinking
<1> QED
  BY <1>9, <1>10 DEF CalmInv

LEMMA CalmLinks ==
  ASSUME TypeOK, KindInv, CalmInv, NEW s \in Session, Link(s) \/ Symlink(s)
  PROVE  CalmInv'
<1>1. choice[s] \in Installed /\ Busy(s) /\ pc[s] \in {"link", "symlink"}
  BY DEF Link, Symlink, CalmInv, SessionOK, Busy, Ended
<1>2. Installed' = Installed /\ temp' = temp /\ stable' = stable
  BY DEF Link, Symlink, Installed
<1>3. \A q \in Session \ {s} : ~(pc[q] = "remove")
  <2>1. \A q \in Session : pc[q] = "remove" => Busy(q) /\ Prunes(task[q])
    BY DEF CalmInv, SessionOK, Busy, Ended
  <2> QED
    BY <1>1, <2>1 DEF CalmInv, SessionOK
<1>4. ASSUME NEW label \in {"stable", "symlink"}, Goto(s, label), UNCHANGED mine
      PROVE  \A q \in Session : SessionOK(q)'
  <2>1. label \in Label \ Ended
    BY DEF Label, InScript, Ended
  <2> QED
    BY <1>1, <1>2, <1>4, <2>1, MoveRely DEF mine
<1>5. CASE Link(s)
  <2>1. PICK label \in {"stable", "symlink"} :
          /\ Goto(s, label)
          /\ current' = IF label = "stable" THEN choice[s] ELSE None
    BY <1>5 DEF Link
  <2>2. pc'[s] = label /\ \A q \in Session \ {s} : pc'[q] = pc[q]
    BY <2>1 DEF Goto, TypeOK
  <2>3. Resolves'
    BY <1>1, <1>2, <2>1, <2>2 DEF Resolves, CalmInv
  <2> QED
    BY <1>4, <1>5, <2>1, <2>3 DEF Link, CalmInv
<1>6. ASSUME Symlink(s), current = None, current' = choice[s], Goto(s, "stable"), UNCHANGED mine
      PROVE  CalmInv'
  <2>1. pc'[s] = "stable" /\ \A q \in Session \ {s} : pc'[q] = pc[q]
    BY <1>6 DEF Goto, TypeOK
  <2> QED
    BY <1>1, <1>2, <1>4, <1>6, <2>1 DEF CalmInv, Resolves
<1>7. ASSUME Symlink(s), current # None, End(s, "idle"), UNCHANGED current
      PROVE  CalmInv'
  <2>1. \A q \in Session \ {s} : pc'[q] = pc[q]
    BY <1>7 DEF End, Goto, TypeOK
  <2>2. Resolves'
    BY <1>1, <1>2, <1>7, <2>1 DEF CalmInv, Resolves
  <2> QED
    BY <1>1, <1>2, <1>7, <2>2, EndRely DEF CalmInv, Symlink, Ended
<1> QED
  BY <1>5, <1>6, <1>7 DEF Symlink

LEMMA CalmStable ==
  ASSUME TypeOK, KindInv, CalmInv, NEW s \in Session, StableLink(s) \/ StableSymlink(s)
  PROVE  CalmInv'
<1>1. Busy(s) /\ pc[s] \in {"stable", "stableSymlink"}
  BY DEF StableLink, StableSymlink, Busy, Ended
<1>2. Installed' = Installed /\ temp' = temp /\ current' = current /\ rank' = rank
  BY DEF StableLink, StableSymlink, Installed
<1>3. ASSUME NEW label \in {"list", "stableSymlink"}, Goto(s, label), UNCHANGED mine,
             stable' \/ label = "stableSymlink"
      PROVE  CalmInv'
  <2>1. label \in Label \ Ended
    BY DEF Label, InScript, Ended
  <2>2. \A q \in Session : SessionOK(q)'
    BY <1>1, <1>2, <1>3, <2>1, MoveRely DEF mine
  <2>3. pc'[s] = label /\ \A q \in Session \ {s} : pc'[q] = pc[q]
    BY <1>3 DEF Goto, TypeOK
  <2>4. Resolves'
    BY <1>1, <1>2, <1>3, <2>3 DEF CalmInv, Resolves
  <2> QED
    BY <2>2, <2>4 DEF CalmInv
<1>4. ASSUME End(s, "idle"), stable'
      PROVE  CalmInv'
  <2>1. \A q \in Session : SessionOK(q)'
    BY <1>1, <1>2, <1>4, EndRely DEF Ended
  <2>2. \A q \in Session \ {s} : pc'[q] = pc[q]
    BY <1>4 DEF End, Goto, TypeOK
  <2>3. Resolves'
    BY <1>1, <1>2, <1>4, <2>2 DEF CalmInv, Resolves
  <2> QED
    BY <2>1, <2>3 DEF CalmInv
<1> QED
  BY <1>3, <1>4 DEF StableLink, StableSymlink

LEMMA CalmPrunes ==
  ASSUME TypeOK, KindInv, CalmInv, NEW s \in Session, Prune(s)
  PROVE  CalmInv'
<1>1. pc[s] = "prune" /\ Busy(s)
  BY DEF Prune, Busy, Ended
<1>2. /\ Installed' = Installed /\ temp' = temp /\ current' = current /\ rank' = rank
      /\ stable' = stable
  BY DEF Prune, disk, Installed
<1>3. \A q \in Session : pc[q] \in Relinking => pc'[q] = pc[q]
  BY <1>1 DEF Prune, End, Goto, TypeOK, Relinking
<1>4. Resolves'
  BY <1>2, <1>3, ResolvesStays DEF CalmInv
<1>5. ASSUME End(s, "idle")
      PROVE  \A q \in Session : SessionOK(q)'
  BY <1>1, <1>2, <1>5, EndRely DEF Ended
<1>6. ASSUME NEW v \in listed[s],
             choice' = [choice EXCEPT ![s] = v],
             listed' = [listed EXCEPT ![s] = @ \ {v}],
             Goto(s, IF v = current THEN "prune" ELSE "remove"),
             UNCHANGED task
      PROVE  \A q \in Session : SessionOK(q)'
  <2>1. Prunes(task[s])
    BY <1>1 DEF CalmInv, SessionOK
  <2>2. PICK label \in {"prune", "remove"} :
          Goto(s, label) /\ (label = "remove" => v # current)
    BY <1>6
  <2>3. label \in Label \ Ended
    BY DEF Label, InScript, Ended
  <2>4. choice'[s] = v /\ \A q \in Session \ {s} : choice'[q] = choice[q] /\ listed'[q] = listed[q]
    BY <1>6 DEF TypeOK
  <2> QED
    BY <1>1, <1>2, <1>6, <2>1, <2>2, <2>3, <2>4, MoveRely
<1> QED
  BY <1>4, <1>5, <1>6 DEF Prune, CalmInv

LEMMA CalmRemoves ==
  ASSUME TypeOK, KindInv, CalmInv, NEW s \in Session, Remove(s)
  PROVE  CalmInv'
<1>1. pc[s] = "remove" /\ Busy(s) /\ Prunes(task[s]) /\ choice[s] # current
  BY DEF Remove, Busy, Ended, CalmInv, SessionOK
<1>2. UNCHANGED <<current, temp, stable, task, choice, listed>> /\ Goto(s, "prune")
  BY DEF Remove, mine
<1>3. choice[s] \in Version
  BY <1>1 DEF KindInv, InScript
<1>4. \A v \in Version : v # choice[s] /\ rank[v] > 0 => rank'[v] > 0
  BY <1>3 DEF Remove, TypeOK
<1>5. "prune" \in Label \ Ended
  BY DEF Label, InScript, Ended
<1>6. \A q \in Session : SessionOK(q)'
  BY <1>1, <1>2, <1>5, MoveRely
<1>7. \A q \in Session : pc[q] \in Relinking => pc'[q] = pc[q]
  BY <1>1, <1>2 DEF Goto, TypeOK, Relinking
<1>8. Resolves'
  BY <1>1, <1>2, <1>4, <1>7 DEF CalmInv, Resolves, Relinking, Installed
<1> QED
  BY <1>6, <1>8 DEF CalmInv

LEMMA CalmActivates ==
  ASSUME TypeOK, KindInv, CalmInv, NEW s \in Session, TempLink(s) \/ Rename(s)
  PROVE  CalmInv'
<1>1. pc[s] \in {"tempLink", "rename"} /\ Busy(s) /\ Installed' = Installed /\ stable' = stable
  BY DEF TempLink, Rename, Busy, Ended, Installed
<1>2. choice[s] \in Installed /\ (pc[s] = "rename" => temp \in Installed \cup {None})
  BY <1>1 DEF CalmInv, SessionOK
<1>3. ASSUME End(s, "idle"), temp' \in {temp, None}, rank' = rank,
             current' = current \/ current' \in Installed
      PROVE  CalmInv'
  <2>1. \A q \in Session : SessionOK(q)'
    BY <1>1, <1>3, EndRely DEF Ended
  <2>2. \A q \in Session : pc[q] \in Relinking => pc'[q] = pc[q]
    BY <1>1, <1>3 DEF End, Goto, TypeOK, Relinking
  <2>3. Resolves'
    BY <1>1, <1>3, <2>2 DEF CalmInv, Resolves, Relinking
  <2> QED
    BY <2>1, <2>3 DEF CalmInv
<1>4. ASSUME NEW label \in {"rename", "undoTemp"}, Goto(s, label), UNCHANGED mine,
             label = "rename" => temp' = choice[s],
             label = "undoTemp" => temp' = temp,
             current' = current
      PROVE  CalmInv'
  <2>1. label \in Label \ Ended
    BY DEF Label, InRollback, Ended
  <2>2. \A q \in Session : SessionOK(q)'
    BY <1>1, <1>2, <1>4, <2>1, MoveRely DEF mine
  <2>3. \A q \in Session : pc[q] \in Relinking => pc'[q] = pc[q]
    BY <1>1, <1>4 DEF Goto, TypeOK, Relinking
  <2>4. Resolves'
    BY <1>1, <1>4, <2>3, ResolvesStays DEF CalmInv
  <2> QED
    BY <2>2, <2>4 DEF CalmInv
<1>5. CASE TempLink(s)
  BY <1>3, <1>4, <1>5 DEF TempLink
<1>6. CASE Rename(s)
  BY <1>2, <1>3, <1>4, <1>6 DEF Rename
<1> QED
  BY <1>5, <1>6

LEMMA CalmStep ==
  ASSUME TypeOK, KindInv, calm => CalmInv, [Next]_vars, calm'
  PROVE  CalmInv'
<1>1. calm /\ CalmInv
  BY PastStays
<1>2. CASE UNCHANGED vars
  BY <1>1, <1>2
  DEF CalmInv, Resolves, SessionOK, Installed, Busy, Ended, Prunes, vars, disk, mine
<1>3. CASE Next
  <2>1. PICK s \in Session :
          \/ \E t \in Task : Start(s, t)
          \/ Stop(s) \/ Cut(s) \/ Update(s) \/ Script(s) \/ Rollback(s)
    BY <1>3 DEF Next
  <2> QED
    BY <1>1, <2>1, CalmStart, CalmEnds, CalmMoves, CalmLinks, CalmStable, CalmPrunes,
       CalmRemoves, CalmActivates
    DEF Update, Script, Rollback
<1> QED
  BY <1>2, <1>3

\* Until sessions contend, the stable link is there and "current" names an installed
\* binary, unless ln is or was cut off between its two steps at that very link.
THEOREM StableCommandRuns == Spec => []ActiveRuns
<1> DEFINE I == TypeOK /\ KindInv /\ (calm => CalmInv)
<1>1. Init => I
  <2> SUFFICES ASSUME Init PROVE I
    OBVIOUS
  <2>1. TypeOK /\ KindInv
    BY DEF Init, TypeOK, KindInv, Maybe, Label, Ended, InUpdate, InScript, InRollback
  <2>2. Resolves
    BY DEF Init, Resolves, Installed
  <2>3. \A s \in Session : SessionOK(s)
    BY DEF Init, SessionOK, Busy, Ended
  <2> QED
    BY <2>1, <2>2, <2>3 DEF CalmInv
<1>2. I /\ [Next]_vars => I'
  BY TypeStep, CalmStep
<1>3. I => ActiveRuns
  BY DEF CalmInv, Resolves, ActiveRuns
<1> QED
  BY <1>1, <1>2, <1>3, PTL DEF Spec

-----------------------------------------------------------------------------
\* Sessions that take turns: only the one at work takes steps, and its temporary
\* link is its own.
LEMMA OneStep ==
  ASSUME TypeOK, KindInv, serial => OneAtATime, [Next]_vars, serial'
  PROVE  OneAtATime'
<1>1. serial /\ OneAtATime
  BY PastStays
<1>2. CASE UNCHANGED vars
  BY <1>1, <1>2 DEF OneAtATime, Busy, Ended, vars, disk, mine
<1>3. ASSUME NEW s \in Session, NEW t \in Task, Start(s, t)
      PROVE  OneAtATime'
  <2>1. \A q \in Session : ~Busy(q)
    BY <1>3 DEF Start, HistoryAfter, serial
  <2>2. pc'[s] # "rename" /\ \A q \in Session \ {s} : pc'[q] = pc[q]
    BY <1>3 DEF Start, Goto, FirstLabel, TypeOK
  <2>3. \A q \in Session : pc'[q] # "rename"
    BY <2>1, <2>2 DEF Busy, Ended
  <2>4. \A q \in Session \ {s} : ~Busy(q)'
    BY <2>1, <2>2 DEF Busy, Ended
  <2> QED
    BY <2>3, <2>4 DEF OneAtATime
<1>4. ASSUME NEW s \in Session, Stop(s) \/ Cut(s) \/ Update(s) \/ Script(s) \/ Rollback(s)
      PROVE  OneAtATime'
  <2>1. Busy(s)
    BY <1>4 DEF Busy, Ended, Stop, Cut, Update, Plan, Fetch, Script, Place, Link, Symlink,
                StableLink, StableSymlink, List, Prune, Remove, Rollback, PlanRollback,
                Confirm, ClearTemp, TempLink, Rename, UndoTemp
  <2>2. \A q \in Session \ {s} : pc'[q] = pc[q]
    BY <1>4 DEF TypeOK, End, Goto, Stop, Cut, Update, Plan, Fetch, Script, Place, Link,
                Symlink, StableLink, StableSymlink, List, Prune, Remove, Rollback,
                PlanRollback, Confirm, ClearTemp, TempLink, Rename, UndoTemp
  <2>3. \A q \in Session \ {s} : ~Busy(q) /\ ~Busy(q)'
    BY <1>1, <2>1, <2>2 DEF OneAtATime, Busy, Ended
  <2>4. pc'[s] = "rename" => temp' = choice'[s]
    <3>1. pc'[s] = "rename" => TempLink(s) /\ temp' = choice[s] /\ UNCHANGED mine
      BY <1>4 DEF TypeOK, End, Goto, Stop, Cut, Update, Plan, Fetch, Script, Place, Link,
                  Symlink, StableLink, StableSymlink, List, Prune, Remove, Rollback,
                  PlanRollback, Confirm, ClearTemp, TempLink, Rename, UndoTemp
    <3> QED
      BY <3>1 DEF mine
  <2>5. \A q \in Session \ {s} : pc'[q] # "rename"
    BY <2>3 DEF Busy, Ended
  <2> QED
    BY <2>3, <2>4, <2>5 DEF OneAtATime
<1> QED
  BY <1>2, <1>3, <1>4 DEF Next

LEMMA InitInv == Init => Inv
<1> SUFFICES ASSUME Init PROVE Inv
  OBVIOUS
<1>1. TypeOK /\ KindInv
  BY DEF Init, TypeOK, KindInv, Maybe, Label, Ended, InUpdate, InScript, InRollback
<1>2. CalmInv
  <2>1. Resolves
    BY DEF Init, Resolves, Installed
  <2>2. \A s \in Session : SessionOK(s)
    BY DEF Init, SessionOK, Busy, Ended
  <2> QED
    BY <2>1, <2>2 DEF CalmInv
<1>3. OneAtATime
  BY DEF Init, OneAtATime, Busy, Ended
<1> QED
  BY <1>1, <1>2, <1>3 DEF Inv

\* While sessions take turns, a rollback activates the version it has announced,
\* that version is installed, and no temporary link is left.
THEOREM RollbackKeepsItsPlan == Spec => RollbackAsPlanned
<1> DEFINE A == \A s \in Session :
                  serial' /\ pc[s] = "rename" /\ current' # current
                    => current' = choice[s] /\ choice[s] \in Installed /\ temp' = None
<1>1. Init => Inv
  BY InitInv
<1>2. Inv /\ [Next]_vars => Inv'
  BY TypeStep, CalmStep, OneStep DEF Inv
<1>3. Inv /\ [Next]_vars => [A]_vars
  <2> SUFFICES ASSUME Inv, Next, NEW s \in Session,
                      serial', pc[s] = "rename", current' # current
               PROVE  current' = choice[s] /\ choice[s] \in Installed /\ temp' = None
    BY DEF vars
  <2>1. serial /\ OneAtATime /\ calm /\ CalmInv
    <3>1. serial
      BY PastStays
    <3> QED
      BY <3>1 DEF Inv, serial, calm
  <2>2. choice[s] \in Installed /\ temp = choice[s]
    BY <2>1 DEF CalmInv, SessionOK, OneAtATime
  <2>3. PICK q \in Session :
          \/ \E t \in Task : Start(q, t)
          \/ Stop(q) \/ Cut(q) \/ Update(q) \/ Script(q) \/ Rollback(q)
    BY DEF Next
  <2>4. Link(q) \/ Symlink(q) \/ Rename(q)
    BY <2>3 DEF Start, Stop, Cut, Update, Plan, Fetch, Script, Place, StableLink,
                StableSymlink, List, Prune, Remove, Rollback, PlanRollback, Confirm,
                ClearTemp, TempLink, UndoTemp, disk
  <2>5. q = s
    BY <2>1, <2>4 DEF OneAtATime, Busy, Ended, Link, Symlink, Rename
  <2>6. Rename(s)
    BY <2>4, <2>5 DEF Link, Symlink
  <2> QED
    BY <2>2, <2>6 DEF Rename
<1> QED
  BY <1>1, <1>2, <1>3, PTL DEF Spec, RollbackAsPlanned

-----------------------------------------------------------------------------
(* Retention. *)

\* The ranks of the binaries are 1, 2, 3 and so on, each given once.
Ranked ==
  /\ \A v, w \in Installed : rank[v] = rank[w] => v = w
  /\ \A v \in Installed : rank[v] > 1 => \E w \in Installed : rank[w] = rank[v] - 1

\* What a session has yet to prune is older than the ones it keeps.
OnlyOld(s) ==
  /\ pc[s] \in {"prune", "remove"} => \A v \in listed[s] : rank[v] > task[s].keep
  /\ pc[s] = "remove" => rank[choice[s]] > task[s].keep /\ choice[s] \notin listed[s]

\* An update activates, and what was active before stays until it prunes; then there
\* is an installed version besides the active one.
Updates(s) == task[s] \in ScriptTask /\ task[s].kind = "update"

AfterSwitch == {"stable", "stableSymlink", "list", "prune", "remove"}

KeepsFallback(s) ==
  Updates(s) /\ pc[s] \in InUpdate \cup InScript
    => /\ task[s].activate
       /\ pc[s] = "symlink" /\ undo # None => undo \in Installed \ {choice[s]}
       /\ pc[s] \in AfterSwitch /\ task[s].keep # 1 /\ undo # None
            => Installed \ {current} # {}

RetentionInv ==
  /\ Ranked
  /\ calm => \A s \in Session : OnlyOld(s)
  /\ serial => \A s \in Session : KeepsFallback(s)

-----------------------------------------------------------------------------
\* The binary that is placed goes to the front, and those it overtakes move back.
LEMMA PlaceRanked ==
  ASSUME TypeOK, KindInv, Ranked, NEW s \in Session, Place(s)
  PROVE  Ranked'
<1> DEFINE c == choice[s]
<1>1. c \in Version
  BY DEF Place, KindInv, InScript
<1>2. \A w \in Version : rank[w] \in Nat
  BY DEF TypeOK
<1>3. \A w \in Version :
        rank'[w] = IF w = c THEN 1
                   ELSE IF rank[w] > 0 /\ (rank[c] = 0 \/ rank[w] < rank[c])
                        THEN rank[w] + 1 ELSE rank[w]
  BY DEF Place, TypeOK
<1>4. ASSUME NEW v \in Installed', NEW w \in Installed', rank'[v] = rank'[w]
      PROVE  v = w
  BY <1>1, <1>2, <1>3, <1>4 DEF Ranked, Installed
<1>5. ASSUME NEW v \in Installed', rank'[v] > 1
      PROVE  \E w \in Installed' : rank'[w] = rank'[v] - 1
  <2>1. v \in Version /\ v # c /\ rank[v] > 0
    BY <1>1, <1>2, <1>3, <1>5 DEF Installed
  <2>2. CASE rank[v] = 1
    BY <1>1, <1>2, <1>3, <1>5, <2>1, <2>2 DEF Installed, Ranked
  <2>3. CASE rank[v] > 1
    <3>1. PICK w \in Installed : rank[w] = rank[v] - 1
      BY <2>1, <2>3 DEF Ranked, Installed
    <3>2. CASE w # c
      <4>1. rank[c] > 0 => rank[w] # rank[c] /\ rank[v] # rank[c]
        BY <1>1, <2>1, <3>2 DEF Ranked, Installed
      <4>2. rank'[w] = rank'[v] - 1 /\ rank'[w] > 0
        BY <1>1, <1>2, <1>3, <2>1, <3>1, <3>2, <4>1 DEF Installed
      <4> QED
        BY <4>2 DEF Installed
    <3>3. CASE w = c /\ rank[c] = 1
      BY <1>1, <1>2, <1>3, <2>1, <3>1, <3>3 DEF Installed
    <3>4. CASE w = c /\ rank[c] > 1
      <4>1. PICK u \in Installed : rank[u] = rank[c] - 1
        BY <3>4 DEF Ranked
      <4>2. rank'[u] = rank[c] /\ rank'[v] = rank[v]
        BY <1>1, <1>2, <1>3, <2>1, <3>1, <3>4, <4>1 DEF Installed
      <4>3. u \in Installed' /\ rank'[u] = rank'[v] - 1
        BY <1>2, <3>1, <3>4, <4>1, <4>2 DEF Installed
      <4> QED
        BY <4>3
    <3> QED
      BY <1>1, <1>2, <3>1, <3>2, <3>3, <3>4 DEF Installed
  <2> QED
    BY <1>2, <2>1, <2>2, <2>3
<1> QED
  BY <1>4, <1>5 DEF Ranked

\* The binary that is removed leaves a gap, which those behind it close.
LEMMA RemoveRanked ==
  ASSUME TypeOK, KindInv, Ranked, NEW s \in Session, Remove(s)
  PROVE  Ranked'
<1> DEFINE c == choice[s]
<1>1. c \in Version
  BY DEF Remove, KindInv, InScript
<1>2. \A w \in Version : rank[w] \in Nat
  BY DEF TypeOK
<1>3. \A w \in Version :
        rank'[w] = IF w = c THEN 0
                   ELSE IF rank[c] > 0 /\ rank[w] > rank[c] THEN rank[w] - 1 ELSE rank[w]
  BY DEF Remove, TypeOK
<1>4. ASSUME NEW v \in Installed', NEW w \in Installed', rank'[v] = rank'[w]
      PROVE  v = w
  BY <1>1, <1>2, <1>3, <1>4 DEF Ranked, Installed
<1>5. ASSUME NEW v \in Installed', rank'[v] > 1
      PROVE  \E w \in Installed' : rank'[w] = rank'[v] - 1
  <2>1. v \in Installed /\ v # c /\ rank[v] > 1
    BY <1>1, <1>2, <1>3, <1>5 DEF Installed
  <2>2. PICK w \in Installed : rank[w] = rank[v] - 1
    BY <2>1 DEF Ranked
  <2>3. CASE w # c
    <3>1. rank[c] > 0 => rank[w] # rank[c] /\ rank[v] # rank[c]
      BY <1>1, <2>1, <2>3 DEF Ranked, Installed
    <3>2. rank'[w] = rank'[v] - 1 /\ rank'[w] > 0
      BY <1>1, <1>2, <1>3, <1>5, <2>1, <2>2, <2>3, <3>1 DEF Installed
    <3> QED
      BY <3>2 DEF Installed
  <2>4. CASE w = c
    <3>1. rank'[v] = rank[c] /\ rank[c] > 1
      BY <1>1, <1>2, <1>3, <1>5, <2>1, <2>2, <2>4 DEF Installed
    <3>2. PICK u \in Installed : rank[u] = rank[c] - 1
      BY <2>4, <3>1 DEF Ranked
    <3>3. u \in Installed' /\ rank'[u] = rank'[v] - 1
      BY <1>1, <1>2, <1>3, <3>1, <3>2 DEF Installed
    <3> QED
      BY <3>3
  <2> QED
    BY <2>3, <2>4
<1> QED
  BY <1>4, <1>5 DEF Ranked

\* Only a binary that is placed or removed changes the ranks.
LEMMA RankedStep ==
  ASSUME TypeOK, KindInv, Ranked, [Next]_vars
  PROVE  Ranked'
<1>1. CASE UNCHANGED rank
  BY <1>1 DEF Ranked, Installed
<1>2. UNCHANGED rank \/ \E s \in Session : Place(s) \/ Remove(s)
  BY DEF Next, vars, disk, Start, Stop, Cut, Update, Plan, Fetch, Script, Link, Symlink,
         StableLink, StableSymlink, List, Prune, Rollback, PlanRollback, Confirm,
         ClearTemp, TempLink, Rename, UndoTemp
<1> QED
  BY <1>1, <1>2, PlaceRanked, RemoveRanked

-----------------------------------------------------------------------------
\* A session that has something to prune is alone while sessions are calm: nobody
\* else moves, or starts, without contending with it.
LEMMA PrunerAlone ==
  ASSUME TypeOK, calm, CalmInv, calm', NEW s \in Session, NEW q \in Session \ {s},
         pc[s] = "remove" \/ (pc[s] = "prune" /\ listed[s] # {}),
         \/ \E t \in Task : Start(q, t)
         \/ Stop(q) \/ Cut(q) \/ Update(q) \/ Script(q) \/ Rollback(q)
  PROVE  FALSE
<1>1. Busy(s) /\ Prunes(task[s]) /\ ~Busy(q)
  BY DEF CalmInv, SessionOK, Busy, Ended
<1>2. CASE \E t \in Task : Start(q, t)
  BY <1>1, <1>2 DEF Start, HistoryAfter, calm
<1>3. CASE Stop(q) \/ Cut(q) \/ Update(q) \/ Script(q) \/ Rollback(q)
  BY <1>1, <1>3
  DEF Busy, Ended, Stop, Cut, Update, Plan, Fetch, Script, Place, Link, Symlink,
      StableLink, StableSymlink, List, Prune, Remove, Rollback, PlanRollback, Confirm,
      ClearTemp, TempLink, Rename, UndoTemp
<1> QED
  BY <1>2, <1>3

\* A step that leaves the session before, or takes it out of, its pruning.
LEMMA OnlyOldStep ==
  ASSUME TypeOK, KindInv, calm => CalmInv, calm => \A s \in Session : OnlyOld(s),
         [Next]_vars, calm', NEW s \in Session
  PROVE  OnlyOld(s)'
<1>1. calm /\ CalmInv /\ OnlyOld(s)
  BY PastStays
<1>2. CASE UNCHANGED vars
  BY <1>1, <1>2 DEF OnlyOld, vars, disk, mine
<1>3. ASSUME NEW q \in Session \ {s},
             \/ \E t \in Task : Start(q, t)
             \/ Stop(q) \/ Cut(q) \/ Update(q) \/ Script(q) \/ Rollback(q)
      PROVE  OnlyOld(s)'
  <2>1. ~(pc[s] = "remove" \/ (pc[s] = "prune" /\ listed[s] # {}))
    BY <1>1, <1>3, PrunerAlone
  <2>2. pc'[s] = pc[s] /\ listed'[s] = listed[s]
    BY <1>3
    DEF TypeOK, End, Goto, mine, Start, Stop, Cut, Update, Plan, Fetch, Script, Place,
        Link, Symlink, StableLink, StableSymlink, List, Prune, Remove, Rollback,
        PlanRollback, Confirm, ClearTemp, TempLink, Rename, UndoTemp
  <2> QED
    BY <2>1, <2>2 DEF OnlyOld
<1>4. ASSUME \/ \E t \in Task : Start(s, t)
             \/ Stop(s) \/ Cut(s) \/ Update(s) \/ Rollback(s)
             \/ Place(s) \/ Link(s) \/ Symlink(s) \/ StableLink(s) \/ StableSymlink(s)
      PROVE  OnlyOld(s)'
  <2>1. pc'[s] \notin {"prune", "remove"}
    BY <1>4
    DEF TypeOK, End, Goto, FirstLabel, Start, Stop, Cut, Update, Plan, Fetch, Place, Link,
        Symlink, StableLink, StableSymlink, Rollback, PlanRollback, Confirm, ClearTemp,
        TempLink, Rename, UndoTemp
  <2> QED
    BY <2>1 DEF OnlyOld
<1>5. CASE List(s)
  <2>1. /\ pc'[s] = "prune" /\ task' = task /\ rank' = rank
        /\ listed'[s] = IF task[s].keep = 0 THEN {}
                        ELSE {v \in Installed : rank[v] > task[s].keep}
    BY <1>5 DEF List, Goto, TypeOK, disk
  <2> QED
    BY <2>1 DEF OnlyOld
<1>6. CASE Prune(s)
  <2>1. ASSUME End(s, "idle") PROVE OnlyOld(s)'
    BY <2>1 DEF End, Goto, TypeOK, OnlyOld
  <2>2. ASSUME NEW v \in listed[s],
               choice' = [choice EXCEPT ![s] = v],
               listed' = [listed EXCEPT ![s] = @ \ {v}],
               Goto(s, IF v = current THEN "prune" ELSE "remove"),
               UNCHANGED task
        PROVE  OnlyOld(s)'
    <3>1. choice'[s] = v /\ listed'[s] = listed[s] \ {v} /\ task' = task /\ rank' = rank
      BY <1>6, <2>2 DEF TypeOK, Prune, disk
    <3>2. \A w \in listed[s] : rank[w] > task[s].keep
      BY <1>1, <1>6 DEF Prune, OnlyOld
    <3> QED
      BY <3>1, <3>2 DEF OnlyOld
  <2> QED
    BY <1>6, <2>1, <2>2 DEF Prune
<1>7. CASE Remove(s)
  <2>1. /\ pc'[s] = "prune" /\ task' = task /\ listed' = listed
        /\ \A w \in Version \ {choice[s]} :
             rank'[w] = IF rank[choice[s]] > 0 /\ rank[w] > rank[choice[s]]
                        THEN rank[w] - 1 ELSE rank[w]
    BY <1>7 DEF Remove, Goto, TypeOK, mine
  <2>2. /\ task[s] \in ScriptTask /\ task[s].keep \in Nat /\ choice[s] \in Version
        /\ \A w \in Version : rank[w] \in Nat
    BY <1>7, KeepAssumption DEF Remove, KindInv, InScript, ScriptTask, TypeOK
  <2>3. ASSUME NEW w \in listed[s] PROVE rank'[w] > task[s].keep
    <3>1. /\ w \in Version \ {choice[s]} /\ rank[w] > task[s].keep
          /\ rank[choice[s]] > task[s].keep
      BY <1>1, <1>7 DEF Remove, OnlyOld, TypeOK
    <3> QED
      BY <2>1, <2>2, <3>1
  <2> QED
    BY <2>1, <2>3 DEF OnlyOld
<1> QED
  BY <1>2, <1>3, <1>4, <1>5, <1>6, <1>7 DEF Next, Script

-----------------------------------------------------------------------------
\* Removing a binary that is behind two others leaves an installed version besides
\* the active one.
LEMMA TwoAhead ==
  ASSUME TypeOK, KindInv, Ranked, NEW s \in Session, Remove(s), rank[choice[s]] > 2
  PROVE  Installed' \ {current'} # {}
<1> DEFINE c == choice[s]
<1>1. c \in Installed /\ \A w \in Version : rank[w] \in Nat
  BY DEF Remove, KindInv, InScript, Installed, TypeOK
<1>2. PICK w \in Installed : rank[w] = rank[c] - 1
  <2>1. rank[c] > 1
    BY <1>1 DEF Installed
  <2> QED
    BY <1>1, <2>1 DEF Ranked
<1>3. PICK u \in Installed : rank[u] = rank[w] - 1
  <2>1. rank[w] > 1
    BY <1>1, <1>2 DEF Installed
  <2> QED
    BY <2>1 DEF Ranked
<1>4. u # w /\ u # c /\ w # c
  BY <1>1, <1>2, <1>3 DEF Installed
<1>5. rank'[u] = rank[u] /\ rank'[w] = rank[w]
  BY <1>1, <1>2, <1>3, <1>4 DEF Remove, TypeOK, Installed
<1>6. u \in Installed' /\ w \in Installed'
  BY <1>5 DEF Installed
<1> QED
  BY <1>4, <1>6

\* The switch of the link: what was active before it was installed, and stays.
LEMMA LinkKeepsFallback ==
  ASSUME TypeOK, KindInv, CalmInv, NEW s \in Session, KeepsFallback(s),
         Link(s) \/ Symlink(s)
  PROVE  KeepsFallback(s)'
<1> USE DEF KeepsFallback, AfterSwitch, Updates, InUpdate, InScript
<1>1. choice[s] \in Installed /\ Installed' = Installed
  BY DEF Link, Symlink, CalmInv, SessionOK, Installed
<1>2. CASE Link(s)
  <2>1. undo' # None => undo' = current /\ current # choice[s]
    BY <1>2 DEF Link, Activated
  <2>2. undo' # None => undo' \in Installed \ {choice[s]}
    BY <2>1 DEF CalmInv, Resolves
  <2>3. UNCHANGED mine
    BY <1>2 DEF Link
  <2>4. (pc'[s] = "stable" /\ current' = choice[s]) \/ pc'[s] = "symlink"
    BY <1>2 DEF Link, Goto, TypeOK
  <2> QED
    BY <1>1, <1>2, <2>2, <2>3, <2>4 DEF Link, mine
<1>3. CASE Symlink(s)
  <2>1. ASSUME current' = choice[s], Goto(s, "stable"), UNCHANGED mine PROVE KeepsFallback(s)'
    <3>1. undo' = undo /\ pc'[s] = "stable" /\ pc[s] = "symlink"
      BY <1>3, <2>1 DEF Symlink, Goto, TypeOK
    <3> QED
      BY <1>1, <2>1, <3>1 DEF mine
  <2>2. ASSUME End(s, "idle") PROVE KeepsFallback(s)'
    BY <2>2 DEF End, Goto, TypeOK
  <2> QED
    BY <1>3, <2>1, <2>2 DEF Symlink
<1> QED
  BY <1>2, <1>3

\* What an update falls back on is kept by its own steps, and nobody else moves.
LEMMA FallbackStep ==
  ASSUME TypeOK, KindInv, serial => OneAtATime, calm => CalmInv, Ranked,
         calm => \A s \in Session : OnlyOld(s),
         serial => \A s \in Session : KeepsFallback(s),
         [Next]_vars, serial', NEW s \in Session
  PROVE  KeepsFallback(s)'
<1>1. serial /\ calm /\ OneAtATime /\ CalmInv /\ OnlyOld(s) /\ KeepsFallback(s)
  <2>1. serial
    BY PastStays
  <2> QED
    BY <2>1 DEF serial, calm
<1> USE DEF KeepsFallback, AfterSwitch, Updates, InUpdate, InScript
<1>2. CASE UNCHANGED vars
  BY <1>1, <1>2 DEF vars, disk, mine, Installed
<1>3. ASSUME pc'[s] = pc[s], ~Busy(s) PROVE KeepsFallback(s)'
  BY <1>3 DEF Busy, Ended
<1>4. ASSUME NEW q \in Session \ {s}, NEW t \in Task, Start(q, t) PROVE KeepsFallback(s)'
  <2>1. ~Busy(s)
    BY <1>4 DEF Start, HistoryAfter, serial
  <2>2. pc'[s] = pc[s]
    BY <1>4 DEF Start, Goto, TypeOK
  <2> QED
    BY <1>3, <2>1, <2>2
<1>5. ASSUME NEW q \in Session \ {s},
             Stop(q) \/ Cut(q) \/ Update(q) \/ Script(q) \/ Rollback(q)
      PROVE  KeepsFallback(s)'
  <2>1. Busy(q)
    BY <1>5 DEF Busy, Ended, Stop, Cut, Update, Plan, Fetch, Script, Place, Link, Symlink,
                StableLink, StableSymlink, List, Prune, Remove, Rollback, PlanRollback,
                Confirm, ClearTemp, TempLink, Rename, UndoTemp
  <2>2. pc'[s] = pc[s]
    BY <1>5 DEF TypeOK, End, Goto, Stop, Cut, Update, Plan, Fetch, Script, Place, Link,
                Symlink, StableLink, StableSymlink, List, Prune, Remove, Rollback,
                PlanRollback, Confirm, ClearTemp, TempLink, Rename, UndoTemp
  <2> QED
    BY <1>1, <1>3, <2>1, <2>2 DEF OneAtATime
<1>6. ASSUME NEW t \in Task, Start(s, t) PROVE KeepsFallback(s)'
  <2>1. task'[s] = t /\ pc'[s] = FirstLabel(t)
    BY <1>6 DEF Start, Goto, TypeOK
  <2> QED
    BY <1>6, <2>1 DEF Start, FirstLabel
<1>7. CASE Stop(s) \/ Cut(s) \/ Rollback(s)
  <2>1. pc'[s] \notin InUpdate \cup InScript
    BY <1>7 DEF Stop, Cut, End, Goto, TypeOK, Rollback, PlanRollback, Confirm, ClearTemp,
                TempLink, Rename, UndoTemp
  <2> QED
    BY <2>1
<1>8. CASE Update(s) \/ Place(s)
  <2>1. task' = task
    BY <1>8 DEF Update, Plan, Fetch, Place, mine
  <2>2. pc[s] \in {"plan", "fetch", "place"}
    BY <1>8 DEF Update, Plan, Fetch, Place
  <2>3. pc'[s] \in {"fetch", "place"} \/ pc'[s] = IF task[s].activate THEN "link" ELSE "list"
    BY <1>8 DEF Update, Plan, Fetch, Place, Goto, TypeOK
  <2> QED
    BY <1>1, <2>1, <2>2, <2>3
<1>9. CASE Link(s) \/ Symlink(s)
  BY <1>1, <1>9, LinkKeepsFallback
<1>10. CASE StableLink(s) \/ StableSymlink(s) \/ List(s)
  <2>1. /\ undo' = undo /\ current' = current /\ rank' = rank
        /\ pc[s] \in {"stable", "stableSymlink", "list"}
        /\ \/ task' = task /\ pc'[s] \in {"stableSymlink", "list", "prune"}
           \/ pc'[s] = "idle"
    BY <1>10 DEF StableLink, StableSymlink, List, disk, mine, End, Goto, TypeOK
  <2> QED
    BY <1>1, <2>1 DEF Installed
<1>11. CASE Prune(s)
  <2>1. undo' = undo /\ current' = current /\ rank' = rank /\ pc[s] = "prune"
    BY <1>11 DEF Prune, disk
  <2>2. \/ task' = task /\ pc'[s] \in {"prune", "remove"}
        \/ pc'[s] = "idle"
    BY <1>11 DEF Prune, End, Goto, TypeOK
  <2> QED
    BY <1>1, <2>1, <2>2 DEF Installed
<1>12. CASE Remove(s)
  <2>1. task' = task /\ pc'[s] = "prune" /\ task[s] \in ScriptTask /\ undo' = undo
    BY <1>12 DEF Remove, mine, Goto, TypeOK, KindInv
  <2>2. task[s].keep \in Nat \ {0}
    BY <1>1, <1>12, KeepAssumption DEF Remove, CalmInv, SessionOK, Prunes, ScriptTask
  <2>3. ASSUME task[s].keep # 1 PROVE Installed' \ {current'} # {}
    <3>1. rank[choice[s]] > task[s].keep /\ rank[choice[s]] \in Nat
      BY <1>1, <1>12 DEF Remove, OnlyOld, KindInv, TypeOK
    <3>2. rank[choice[s]] > 2
      BY <2>2, <2>3, <3>1
    <3> QED
      BY <1>12, <3>2, TwoAhead
  <2>4. Updates(s) => task[s].activate
    BY <1>1, <1>12 DEF Remove
  <2> QED
    BY <2>1, <2>3, <2>4
<1>13. PICK q \in Session :
         \/ UNCHANGED vars
         \/ \E t \in Task : Start(q, t)
         \/ Stop(q) \/ Cut(q) \/ Update(q) \/ Script(q) \/ Rollback(q)
  BY DEF Next
<1> QED
  BY <1>2, <1>4, <1>5, <1>6, <1>7, <1>8, <1>9, <1>10, <1>11, <1>12, <1>13 DEF Script

\* The ranks, what is listed for pruning, and what an update falls back on.
THEOREM RetentionInvariant == Spec => [](Inv /\ RetentionInv)
<1>1. Init => RetentionInv
  <2> SUFFICES ASSUME Init PROVE RetentionInv
    OBVIOUS
  <2>1. Ranked
    BY DEF Init, Ranked, Installed
  <2>2. \A s \in Session : OnlyOld(s) /\ KeepsFallback(s)
    BY DEF Init, OnlyOld, KeepsFallback, InUpdate, InScript
  <2> QED
    BY <2>1, <2>2 DEF RetentionInv
<1>2. Inv /\ RetentionInv /\ [Next]_vars => RetentionInv'
  BY RankedStep, OnlyOldStep, FallbackStep DEF Inv, RetentionInv
<1>3. Init => Inv
  BY InitInv
<1>4. Inv /\ [Next]_vars => Inv'
  BY TypeStep, CalmStep, OneStep DEF Inv
<1> QED
  BY <1>1, <1>2, <1>3, <1>4, PTL DEF Spec

\* Until sessions contend, a binary that is pruned is not the active one, and at least
\* as many newer ones are installed as are to be kept.
THEOREM PruningKeepsNewest == Spec => KeepsNewest
<1>1. Inv /\ RetentionInv /\ [Next]_vars
        => [\A s \in Session, v \in Version :
              calm' /\ pc[s] = "remove" /\ rank[v] > 0 /\ rank'[v] = 0
                => v # current /\ rank[v] > task[s].keep]_vars
  <2> SUFFICES ASSUME Inv, RetentionInv, Next, NEW s \in Session, NEW v \in Version,
                      calm', pc[s] = "remove", rank[v] > 0, rank'[v] = 0
               PROVE  v # current /\ rank[v] > task[s].keep
    BY DEF vars
  <2>1. TypeOK /\ KindInv /\ calm /\ CalmInv /\ OnlyOld(s)
    BY PastStays DEF Inv, RetentionInv
  <2>2. PICK q \in Session :
          \/ \E t \in Task : Start(q, t)
          \/ Stop(q) \/ Cut(q) \/ Update(q) \/ Script(q) \/ Rollback(q)
    BY DEF Next
  <2>3. q = s
    BY <2>1, <2>2, PrunerAlone
  <2>4. Remove(s)
    <3>1. UNCHANGED rank \/ Place(s) \/ Remove(s)
      BY <2>2, <2>3
      DEF disk, Start, Stop, Cut, Update, Plan, Fetch, Script, Link, Symlink, StableLink,
          StableSymlink, List, Prune, Rollback, PlanRollback, Confirm, ClearTemp,
          TempLink, Rename, UndoTemp
    <3> QED
      BY <3>1 DEF Place
  <2>5. v = choice[s]
    BY <2>1, <2>4 DEF Remove, TypeOK, KindInv, InScript
  <2> QED
    BY <2>1, <2>5 DEF CalmInv, SessionOK, OnlyOld
<1> QED
  BY <1>1, RetentionInvariant, PTL DEF Spec, KeepsNewest

\* While sessions take turns, an update that keeps at least two binaries ends with an
\* installed version to roll back to.
THEOREM UpdateLeavesFallback == Spec => UpdateKeepsFallback
<1>1. Inv /\ RetentionInv /\ [Next]_vars
        => [\A s \in Session :
              /\ serial' /\ pc[s] = "prune" /\ pc'[s] = "idle" /\ listed[s] = {}
              /\ task[s].kind = "update" /\ task[s].keep # 1 /\ undo # None
              => Installed \ {current} # {}]_vars
  <2> SUFFICES ASSUME Inv, RetentionInv, Next, NEW s \in Session, serial', pc[s] = "prune",
                      task[s].kind = "update", task[s].keep # 1, undo # None
               PROVE  Installed \ {current} # {}
    BY DEF vars
  <2>1. serial /\ KeepsFallback(s) /\ task[s] \in ScriptTask
    BY PastStays DEF Inv, RetentionInv, KindInv, InScript
  <2> QED
    BY <2>1 DEF KeepsFallback, AfterSwitch, Updates, InScript
<1> QED
  BY <1>1, RetentionInvariant, PTL DEF Spec, UpdateKeepsFallback
=============================================================================
