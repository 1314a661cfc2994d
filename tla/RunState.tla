------------------------------ MODULE RunState ------------------------------
(***************************************************************************)
(* internal/workflow/state.go: the state file <label>.<storage>.json.      *)
(*                                                                         *)
(* Runs (updateRunState, from cleanup(), after the repository lock has     *)
(* been released) and health commands (UpdateHealthCheckState; they take   *)
(* no lock) update it with the same helper, mutateRunState: load the file, *)
(* change some fields, write the file again.  os.WriteFile empties the     *)
(* file when it opens it and fills it with a separate write.               *)
(*                                                                         *)
(* The fields are grouped by the updates that set them; the value of a     *)
(* group is the update that set it last.  Left out: the directory, the     *)
(* modes and the ownership, whose failures come before the file is opened  *)
(* or after it has been written and are only reported.                     *)
(***************************************************************************)
CONSTANTS
  Process,  \* the processes, with one update each
  Nobody,   \* a field that no update has set
  Lost      \* the abstract store after updates have disturbed each other

\* A backup that reported its revision; another success; a failure with a
\* message; an interrupted run, which fails without one; a health command.
Health == {"status", "doctor", "verify"}
Kind   == {"backup", "success", "failure", "interrupted"} \cup Health
Update == Process \X Kind

ASSUME NobodyAssumption == Nobody \notin Update

VARIABLES
  kind,     \* what the update of each process records
  form,     \* what the file holds: nothing yet, no bytes, a state, or garbage
  content,  \* the last state written to it
  pc,       \* where each process is in mutateRunState
  mem,      \* the state it has in memory
  serial    \* no two updates have overlapped so far

vars == <<kind, form, content, pc, mem, serial>>

\* LastRun*, LastSuccessfulRun*, LastSuccessfulBackup*, LastFailureSummary and
\* the recency of the three health commands.
Group == {"lastRun", "lastSuccess", "lastBackup", "lastFailure"} \cup Health
Blank == [g \in Group |-> Nobody]

ASSUME LostAssumption == Lost \notin [Group -> Update \cup {Nobody}]

\* The groups each kind of update sets.
Sets(k) == CASE k = "backup"      -> {"lastRun", "lastSuccess", "lastBackup"}
             [] k = "success"     -> {"lastRun", "lastSuccess"}
             [] k = "failure"     -> {"lastRun", "lastFailure"}
             [] k = "interrupted" -> {"lastRun"}
             [] OTHER             -> {k}

\* Mutant: a success leaves the failure summary where it is.
ClearsNothing(k) == {}

\* The group a success clears.
Clears(k) == IF k \in {"backup", "success"} THEN {"lastFailure"} ELSE {}

\* A group is only ever set by an update it belongs to.
State == {s \in [Group -> Update \cup {Nobody}] :
            \A g \in Group : s[g] # Nobody => g \in Sets(s[g][2])}

TypeOK ==
  /\ kind \in [Process -> Kind]
  /\ form \in {"absent", "empty", "state", "garbled"}
  /\ content \in State
  /\ pc \in [Process -> {"load", "open", "write", "saved", "refused", "dead"}]
  /\ mem \in [Process -> State]
  /\ serial \in BOOLEAN

\* Mutant: the times of a success are recorded whatever the result.
ApplyAnyResult(u, state) ==
  [g \in Group |-> IF g \in Sets(u[2]) \/ (g = "lastSuccess" /\ u[2] \notin Health) THEN u
                   ELSE IF g \in Clears(u[2]) THEN Nobody ELSE state[g]]

\* The mutation of updateRunState and of updateHealthCheckState.
Apply(u, state) ==
  [g \in Group |-> IF g \in Sets(u[2]) THEN u
                   ELSE IF g \in Clears(u[2]) THEN Nobody ELSE state[g]]

InProgress(p) == pc[p] \in {"open", "write"}

-----------------------------------------------------------------------------
Init ==
  /\ kind \in [Process -> Kind]
  /\ form = "absent"
  /\ content = Blank
  /\ pc = [p \in Process |-> "load"]
  /\ mem = [p \in Process |-> Blank]
  /\ serial = TRUE

\* An update begins, whether or not another one is in progress.
Begin(p) == /\ pc[p] = "load"
            /\ serial' = (serial /\ \A q \in Process : ~InProgress(q))

\* Mutant: a file that does not parse is taken for one that is not there.
LoadBrokenAsBlank(p) ==
  /\ Begin(p)
  /\ mem' = [mem EXCEPT ![p] = Apply(<<p, kind[p]>>, IF form = "state" THEN content ELSE Blank)]
  /\ pc' = [pc EXCEPT ![p] = "open"]
  /\ UNCHANGED <<kind, form, content>>

\* Mutant: the state is built anew.
LoadNothing(p) ==
  /\ Begin(p)
  /\ form \in {"absent", "state"}
  /\ mem' = [mem EXCEPT ![p] = Apply(<<p, kind[p]>>, Blank)]
  /\ pc' = [pc EXCEPT ![p] = "open"]
  /\ UNCHANGED <<kind, form, content>>

\* LoadRunState and the mutation.  A missing file is an empty state; a file that
\* does not parse makes mutateRunState return an error.
Load(p) ==
  /\ Begin(p)
  /\ \/ /\ form \in {"absent", "state"}
        /\ mem' = [mem EXCEPT ![p] = Apply(<<p, kind[p]>>, content)]
        /\ pc' = [pc EXCEPT ![p] = "open"]
     \/ /\ form \in {"empty", "garbled"}
        /\ pc' = [pc EXCEPT ![p] = "refused"]
        /\ UNCHANGED mem
  /\ UNCHANGED <<kind, form, content>>

\* Mutant: the file is opened without O_TRUNC.
OpenFileAsItIs(p) ==
  /\ pc[p] = "open"
  /\ form' = IF form = "absent" THEN "empty" ELSE form
  /\ pc' = [pc EXCEPT ![p] = "write"]
  /\ UNCHANGED <<kind, content, mem, serial>>

\* os.WriteFile opens the file with O_CREATE and O_TRUNC.
OpenFile(p) ==
  /\ pc[p] = "open"
  /\ form' = "empty"
  /\ pc' = [pc EXCEPT ![p] = "write"]
  /\ UNCHANGED <<kind, content, mem, serial>>

\* The write, from the start of the file.  Over the bytes of another update it
\* leaves a state only if it is not the shorter of the two.
WriteFile(p) ==
  /\ pc[p] = "write"
  /\ \/ form' = "state"
     \/ form # "empty" /\ form' = "garbled"
  /\ content' = mem[p]
  /\ pc' = [pc EXCEPT ![p] = "saved"]
  /\ UNCHANGED <<kind, mem, serial>>

\* The process dies, or the write fails ("no space left on device").
Stop(p) ==
  /\ InProgress(p)
  /\ pc' = [pc EXCEPT ![p] = "dead"]
  /\ UNCHANGED <<kind, form, content, mem, serial>>

Next == \E p \in Process : Load(p) \/ OpenFile(p) \/ WriteFile(p) \/ Stop(p)

Spec == Init /\ [][Next]_vars
-----------------------------------------------------------------------------
(* Properties. *)

\* "apply one focused mutation": a write changes no field that its own update
\* does not set or clear, so what another update recorded stays on record.
Focused == \A p \in Process, g \in Group :
             /\ pc[p] = "write" /\ pc'[p] = "saved"
             /\ g \notin Sets(kind[p]) \cup Clears(kind[p])
             => content'[g] = content[g]
FocusedMutation == [][Focused]_vars

\* It is focused while updates do not overlap, even after some have died half-way.
SerialFocusedMutation == [][serial' => Focused]_vars

\* No two updates have overlapped and none has died or failed half-way.
Undisturbed == serial /\ \A p \in Process : pc[p] # "dead"

\* "Successful runs update a storage-specific state file": undisturbed updates
\* never leave a file behind that makes a later update fail.
NeverRefused == Undisturbed => \A p \in Process : pc[p] # "refused"

(***************************************************************************)
(* The fields of a state agree with each other, however updates overlap    *)
(* and whatever dies: a last run that succeeded is the last success and    *)
(* has no failure summary, a last run that failed with a message wrote the *)
(* failure summary, and a last success that is a backup is the last one.   *)
(***************************************************************************)
Coherent(s) ==
  \A u \in Update :
    /\ s["lastRun"] = u /\ u[2] \in {"backup", "success"}
         => s["lastSuccess"] = u /\ s["lastFailure"] = Nobody
    /\ s["lastRun"] = u /\ u[2] = "failure" => s["lastFailure"] = u
    /\ s["lastSuccess"] = u /\ u[2] = "backup" => s["lastBackup"] = u
AlwaysCoherent == Coherent(content)

\* What TypeOK and AlwaysCoherent follow from: the states in memory are coherent.
CoherentInv == Coherent(content) /\ \A p \in Process : Coherent(mem[p])

(***************************************************************************)
(* Undisturbed, updates implement the abstract store: each takes effect as *)
(* a whole when it empties the file.  The store is lost at the step that   *)
(* makes two updates overlap or ends one half-way, and at no other.        *)
(***************************************************************************)
Committed == {<<p, kind[p]>> : p \in {q \in Process : pc[q] \in {"write", "saved"}}}
Writer    == CHOOSE p \in Process : pc[p] = "write"
Store     == IF ~Undisturbed THEN Lost
             ELSE IF \E p \in Process : pc[p] = "write" THEN mem[Writer] ELSE content
Abstract  == INSTANCE StateStore
               WITH Empty <- Blank, store <- Store,
                    applied <- IF Undisturbed THEN Committed ELSE {}
RefinesStore == Abstract!Spec

\* Why: an update in progress is alone and was computed from what is on record;
\* undisturbed, the file is broken only while it is being written.
SerialInv ==
  serial =>
    /\ \A p, q \in Process : InProgress(p) /\ InProgress(q) => p = q
    /\ \A p \in Process : InProgress(p) => mem[p] = Apply(<<p, kind[p]>>, content)
Undamaged ==
  Undisturbed =>
    /\ form # "garbled"
    /\ form = "empty" <=> \E p \in Process : pc[p] = "write"
    /\ \A p \in Process : pc[p] # "refused"
=============================================================================
