------------------------------ MODULE Install ------------------------------
(***************************************************************************)
(* internal/update and scripts/install-synology.sh: the managed install.   *)
(* The install root holds versioned binaries and the link "current"; the   *)
(* stable command is a link in the bin directory that resolves through it. *)
(* An update downloads a release and runs its install.sh, which places the *)
(* binary, replaces both links and prunes old binaries; a rollback switches*)
(* "current" to a retained one; an operator may also run an install.sh by  *)
(* hand.  None of them takes a lock.                                       *)
(*                                                                         *)
(* Simplifications:                                                        *)
(*  - Versions are numbers in the order of compareVersions.                *)
(*  - The modification times that "ls -1t" sorts by are ranks; binaries    *)
(*    are ranked in the order in which they are placed.                    *)
(*  - The binaries a script prunes may go in any order.                    *)
(*  - The stable link always points to "current", so it is there or not.   *)
(*  - ln -sfn replaces a link in one step or in two (unlink, symlink):     *)
(*    implementations of it do either.                                     *)
(***************************************************************************)
EXTENDS Integers

CONSTANTS
  MaxVersion,  \* the newest version there is
  Keep,        \* the values --keep is given
  Session,     \* the processes that update, roll back or install
  None         \* no version

Version == 1 .. MaxVersion

ASSUME VersionAssumption == MaxVersion \in Nat \ {0}
ASSUME KeepAssumption == Keep \subseteq Nat
ASSUME NoneAssumption == None \notin Nat

VARIABLES
  rank,     \* the binaries in the install root, 1 the newest; 0 is none
  current,  \* the target of the link "current"
  temp,     \* the target of the link ".current.rollback"
  stable,   \* the stable command's link is there
  task,     \* what each session was asked to do
  pc,       \* where it is
  choice,   \* the version it is about to activate
  listed,   \* the binaries it has yet to prune
  history,  \* whether sessions have overlapped, or contended, so far
  undo      \* what was active before the last activation, if an update did that

disk == <<rank, current, temp, stable>>
mine == <<task, choice, listed>>
vars == <<disk, mine, pc, history, undo>>

Installed == {v \in Version : rank[v] > 0}
Maybe(S)  == S \cup {None}

ScriptTask ==
  [kind : {"update", "install"}, target : Version, keep : Keep, activate : BOOLEAN]
Task == ScriptTask \cup [kind : {"rollback"}, target : Maybe(Version)]

InScript ==
  {"place", "link", "symlink", "stable", "stableSymlink", "list", "prune", "remove"}
InUpdate == {"plan", "fetch"}
InRollback == {"planRollback", "confirm", "clear", "tempLink", "rename", "undoTemp"}
Ended == {"idle", "cut", "cutStable"}
Label == Ended \cup InScript \cup InUpdate \cup InRollback

TypeOK ==
  /\ rank \in [Version -> Nat]
  /\ current \in Maybe(Version)
  /\ temp \in Maybe(Version)
  /\ stable \in BOOLEAN
  /\ task \in [Session -> Maybe(Task)]
  /\ pc \in [Session -> Label]
  /\ choice \in [Session -> Maybe(Version)]
  /\ listed \in [Session -> SUBSET Version]
  /\ history \in {"serial", "overlapped", "contended"}
  /\ undo \in Maybe(Version)
  \* A rollback that has a plan has a version to activate.
  /\ \A s \in Session : pc[s] \in InRollback \ {"planRollback"} => choice[s] \in Version

Busy(s) == pc[s] \notin Ended

\* No two sessions have overlapped so far.
serial == history = "serial"

\* No session has pruned, or could have, while another one was at work.
calm == history # "contended"

Prunes(t) == t \in ScriptTask /\ t.keep # 0

\* What the start of a task makes of the history.
HistoryAfter(t) ==
  LET others == {q \in Session : Busy(q)} IN
  IF others = {} THEN history
  ELSE IF Prunes(t) \/ \E q \in others : Prunes(task[q]) THEN "contended"
  ELSE IF history = "serial" THEN "overlapped" ELSE history

Goto(s, label) == pc' = [pc EXCEPT ![s] = label]

\* A process that ends takes what it knew with it.
End(s, label) ==
  /\ Goto(s, label)
  /\ task' = [task EXCEPT ![s] = None]
  /\ choice' = [choice EXCEPT ![s] = None]
  /\ listed' = [listed EXCEPT ![s] = {}]

-----------------------------------------------------------------------------
\* One version has been installed by hand.
Init ==
  /\ \E v \in Version :
       /\ rank = [w \in Version |-> IF w = v THEN 1 ELSE 0]
       /\ current = v
  /\ temp = None
  /\ stable = TRUE
  /\ task = [s \in Session |-> None]
  /\ pc = [s \in Session |-> "idle"]
  /\ choice = [s \in Session |-> None]
  /\ listed = [s \in Session |-> {}]
  /\ history = "serial"
  /\ undo = None

FirstLabel(t) ==
  IF t.kind = "update" THEN "plan" ELSE IF t.kind = "rollback" THEN "planRollback" ELSE "place"

\* A command starts through the stable path, if that resolves; the script of an
\* unpacked package starts in any case.
Start(s, t) ==
  /\ pc[s] = "idle"
  /\ t.kind = "install" \/ (stable /\ current \in Installed)
  /\ t.kind = "update" => t.activate
  /\ task' = [task EXCEPT ![s] = t]
  /\ choice' = [choice EXCEPT ![s] = IF t.kind = "install" THEN t.target ELSE current]
  /\ Goto(s, FirstLabel(t))
  /\ history' = HistoryAfter(t)
  /\ UNCHANGED <<disk, listed, undo>>

\* The session fails, is only a check, is declined at the prompt or is killed; a
\* temporary link stays.
Stop(s) ==
  /\ Busy(s) /\ pc[s] \notin {"symlink", "stableSymlink"}
  /\ End(s, "idle")
  /\ UNCHANGED <<disk, history, undo>>

\* ln is killed, or fails, between unlink and symlink.
Cut(s) ==
  /\ \/ pc[s] = "symlink" /\ End(s, "cut")
     \/ pc[s] = "stableSymlink" /\ End(s, "cutStable")
  /\ UNCHANGED <<disk, history, undo>>

-----------------------------------------------------------------------------
(* update. *)

\* stableCommandPathFor: the stable path still resolves to the running binary.
StillManaged(s) == stable /\ current = choice[s] /\ current \in Installed

\* buildPlan.  Without --force an update to the running version is no update.
Plan(s) ==
  /\ pc[s] = "plan"
  /\ StillManaged(s)
  /\ Goto(s, "fetch")
  /\ UNCHANGED <<disk, mine, history, undo>>

\* The release is confirmed, downloaded, verified and unpacked.
Fetch(s) ==
  /\ pc[s] = "fetch"
  /\ Goto(s, "place")
  /\ choice' = [choice EXCEPT ![s] = task[s].target]
  /\ UNCHANGED <<disk, task, listed, history, undo>>

-----------------------------------------------------------------------------
(* install.sh. *)

\* cp and mv -f: the version becomes the newest file.
Place(s) ==
  /\ pc[s] = "place"
  /\ LET v == choice[s] IN
     rank' = [w \in Version |->
                IF w = v THEN 1
                ELSE IF rank[w] > 0 /\ (rank[v] = 0 \/ rank[w] < rank[v])
                     THEN rank[w] + 1 ELSE rank[w]]
  /\ Goto(s, IF task[s].activate THEN "link" ELSE "list")
  /\ UNCHANGED <<current, temp, stable, mine, history, undo>>

\* What the switch to a version means for a rollback: it undoes an update.
Activated(s) ==
  undo' = IF serial /\ task[s].kind = "update" /\ current # choice[s] THEN current ELSE None

\* ln -sfn, in one step or up to its second one.
Link(s) ==
  /\ pc[s] = "link"
  /\ \/ /\ current' = choice[s]
        /\ Goto(s, "stable")
     \/ /\ current' = None
        /\ Goto(s, "symlink")
  /\ Activated(s)
  /\ UNCHANGED <<rank, temp, stable, mine, history>>

Symlink(s) ==
  /\ pc[s] = "symlink"
  /\ \/ /\ current = None
        /\ current' = choice[s]
        /\ Goto(s, "stable")
        /\ UNCHANGED mine
     \/ /\ current # None
        /\ End(s, "idle")
        /\ UNCHANGED current
  /\ UNCHANGED <<rank, temp, stable, history, undo>>

\* The second ln -sfn replaces the stable link, in one step or up to its second one.
StableLink(s) ==
  /\ pc[s] = "stable"
  /\ \/ stable' = TRUE /\ Goto(s, "list")
     \/ stable' = FALSE /\ Goto(s, "stableSymlink")
  /\ UNCHANGED <<rank, current, temp, mine, history, undo>>

StableSymlink(s) ==
  /\ pc[s] = "stableSymlink"
  /\ \/ ~stable /\ Goto(s, "list") /\ UNCHANGED mine
     \/ stable /\ End(s, "idle")
  /\ stable' = TRUE
  /\ UNCHANGED <<rank, current, temp, history, undo>>

\* Mutant: one binary too few is skipped.
ListKeepingOneLess(s) ==
  /\ pc[s] = "list"
  /\ listed' = [listed EXCEPT ![s] =
       IF task[s].keep = 0 THEN {} ELSE {v \in Installed : rank[v] >= task[s].keep}]
  /\ Goto(s, "prune")
  /\ UNCHANGED <<disk, task, choice, history, undo>>

\* prune_old_binaries: all but the newest ones; 0 keeps all.
List(s) ==
  /\ pc[s] = "list"
  /\ listed' = [listed EXCEPT ![s] =
       IF task[s].keep = 0 THEN {} ELSE {v \in Installed : rank[v] > task[s].keep}]
  /\ Goto(s, "prune")
  /\ UNCHANGED <<disk, task, choice, history, undo>>

\* Mutant: the binary in use is not spared.
PruneCurrentToo(s) ==
  /\ pc[s] = "prune"
  /\ \/ \E v \in listed[s] :
          /\ choice' = [choice EXCEPT ![s] = v]
          /\ listed' = [listed EXCEPT ![s] = @ \ {v}]
          /\ Goto(s, "remove")
          /\ UNCHANGED task
     \/ listed[s] = {} /\ End(s, "idle")
  /\ UNCHANGED <<disk, history, undo>>

\* One turn of its loop: the binary in use is spared.
Prune(s) ==
  /\ pc[s] = "prune"
  /\ \/ \E v \in listed[s] :
          /\ choice' = [choice EXCEPT ![s] = v]
          /\ listed' = [listed EXCEPT ![s] = @ \ {v}]
          /\ Goto(s, IF v = current THEN "prune" ELSE "remove")
          /\ UNCHANGED task
     \/ listed[s] = {} /\ End(s, "idle")
  /\ UNCHANGED <<disk, history, undo>>

\* rm -f
Remove(s) ==
  /\ pc[s] = "remove"
  /\ LET v == choice[s] IN
     rank' = [w \in Version |->
                IF w = v THEN 0
                ELSE IF rank[v] > 0 /\ rank[w] > rank[v] THEN rank[w] - 1 ELSE rank[w]]
  /\ Goto(s, "prune")
  /\ UNCHANGED <<current, temp, stable, mine, history, undo>>

-----------------------------------------------------------------------------
(* rollback. *)

\* selectRollbackTarget: the requested version, or the newest that is not active.
Candidates(s) ==
  LET others == Installed \ {current} IN
  IF task[s].target = None
  THEN {v \in others : \A w \in others : w <= v}
  ELSE others \cap {task[s].target}

\* Mutant: a requested version is not looked up.
PlanRollbackUnseen(s) ==
  /\ pc[s] = "planRollback"
  /\ StillManaged(s)
  /\ \E v \in Candidates(s) \cup (Version \cap {task[s].target}) :
       choice' = [choice EXCEPT ![s] = v]
  /\ Goto(s, "confirm")
  /\ UNCHANGED <<disk, task, listed, history, undo>>

\* Mutant: that nothing is retained besides the active binary is no error.
PlanRollbackWithoutCandidate(s) ==
  /\ pc[s] = "planRollback"
  /\ StillManaged(s)
  /\ \E v \in Candidates(s) \cup (IF Candidates(s) = {} THEN {None} ELSE {}) :
       choice' = [choice EXCEPT ![s] = v]
  /\ Goto(s, "confirm")
  /\ UNCHANGED <<disk, task, listed, history, undo>>

\* buildRollbackPlan
PlanRollback(s) ==
  /\ pc[s] = "planRollback"
  /\ StillManaged(s)
  /\ \E v \in Candidates(s) : choice' = [choice EXCEPT ![s] = v]
  /\ Goto(s, "confirm")
  /\ UNCHANGED <<disk, task, listed, history, undo>>

Confirm(s) ==
  /\ pc[s] = "confirm"
  /\ Goto(s, "clear")
  /\ UNCHANGED <<disk, mine, history, undo>>

\* activateRollback removes the temporary link of an earlier rollback ...
ClearTemp(s) ==
  /\ pc[s] = "clear"
  /\ temp' = None
  /\ Goto(s, "tempLink")
  /\ UNCHANGED <<rank, current, stable, mine, history, undo>>

\* ... makes its own, unless one has appeared ...
TempLink(s) ==
  /\ pc[s] = "tempLink"
  /\ \/ /\ temp = None
        /\ temp' = choice[s]
        /\ Goto(s, "rename")
        /\ UNCHANGED mine
     \/ temp # None /\ End(s, "idle") /\ UNCHANGED temp
  /\ UNCHANGED <<rank, current, stable, history, undo>>

\* ... and renames what is there to "current".
Rename(s) ==
  /\ pc[s] = "rename"
  /\ \/ /\ temp # None
        /\ current' = temp
        /\ temp' = None
        /\ undo' = None
        /\ End(s, "idle")
     \/ Goto(s, "undoTemp") /\ UNCHANGED <<current, temp, undo, mine>>
  /\ UNCHANGED <<rank, stable, history>>

\* A rename that failed: the temporary link is removed.
UndoTemp(s) ==
  /\ pc[s] = "undoTemp"
  /\ temp' = None
  /\ End(s, "idle")
  /\ UNCHANGED <<rank, current, stable, history, undo>>

-----------------------------------------------------------------------------
Update(s)   == Plan(s) \/ Fetch(s)
Script(s)   == Place(s) \/ Link(s) \/ Symlink(s) \/ StableLink(s) \/ StableSymlink(s)
                 \/ List(s) \/ Prune(s) \/ Remove(s)
Rollback(s) == PlanRollback(s) \/ Confirm(s) \/ ClearTemp(s) \/ TempLink(s)
                 \/ Rename(s) \/ UndoTemp(s)

Next == \E s \in Session :
          \/ \E t \in Task : Start(s, t)
          \/ Stop(s) \/ Cut(s) \/ Update(s) \/ Script(s) \/ Rollback(s)

Spec == Init /\ [][Next]_vars
-----------------------------------------------------------------------------
(* Properties. *)

\* The stable command runs: its link is there and "current" names an installed
\* binary, unless ln is replacing that very link or was cut off while it did.
\* Sessions that contend can break this: one prunes what the other has chosen.
ActiveRuns ==
  calm => /\ \/ current \in Installed
             \/ current = None /\ \E s \in Session : pc[s] \in {"symlink", "cut"}
          /\ \/ stable
             \/ \E s \in Session : pc[s] \in {"stableSymlink", "cutStable"}

\* A rollback activates the version it has announced, and that is installed,
\* whatever temporary link an earlier one that was killed has left.
RollbackAsPlanned ==
  [][\A s \in Session :
       serial' /\ pc[s] = "rename" /\ current' # current
         => current' = choice[s] /\ choice[s] \in Installed /\ temp' = None]_vars

\* "keeping newest $KEEP installed binaries": pruning stops while at least as many
\* binaries are left, and the newest of them have survived.
KeepsNewest ==
  [][\A s \in Session, v \in Version :
       calm' /\ pc[s] = "remove" /\ rank[v] > 0 /\ rank'[v] = 0
         => v # current /\ rank[v] > task[s].keep]_vars

\* "update defaults to --keep 2, so the newly activated version and one previous
\* version are retained": after an update there is something to roll back to.
UpdateKeepsFallback ==
  [][\A s \in Session :
       /\ serial' /\ pc[s] = "prune" /\ pc'[s] = "idle" /\ listed[s] = {}
       /\ task[s].kind = "update" /\ task[s].keep # 1 /\ undo # None
       => Installed \ {current} # {}]_vars
=============================================================================
