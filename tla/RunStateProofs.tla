--------------------------- MODULE RunStateProofs ---------------------------
(***************************************************************************)
(* Theorems about the state file, for any number of processes.             *)
(***************************************************************************)
EXTENDS RunState, TLAPS

-----------------------------------------------------------------------------
(* Types. *)

\* A state with an update applied is a state: each group holds its own updates.
LEMMA ApplyType ==
  ASSUME NEW u \in Update, NEW s \in State
  PROVE  Apply(u, s) \in State
<1>1. u[2] \in Kind
  BY DEF Update
<1> QED
  BY <1>1 DEF Apply, State

LEMMA BlankType == Blank \in State
  BY DEF Blank, State

\* Every variable has its type: an update is only on record for its own fields.
THEOREM TypeCorrect == Spec => []TypeOK
<1>1. Init => TypeOK
  BY BlankType DEF Init, TypeOK
<1>2. TypeOK /\ [Next]_vars => TypeOK'
  <2> SUFFICES ASSUME TypeOK, [Next]_vars PROVE TypeOK'
    OBVIOUS
  <2>1. CASE UNCHANGED vars
    BY <2>1 DEF TypeOK, vars
  <2>2. ASSUME NEW p \in Process, Load(p) PROVE TypeOK'
    <3>1. <<p, kind[p]>> \in Update
      BY DEF TypeOK, Update
    <3>2. Apply(<<p, kind[p]>>, content) \in State
      BY <3>1, ApplyType DEF TypeOK
    <3> QED
      BY <2>2, <3>2 DEF Load, Begin, TypeOK
  <2>3. ASSUME NEW p \in Process, OpenFile(p) PROVE TypeOK'
    BY <2>3 DEF OpenFile, TypeOK
  <2>4. ASSUME NEW p \in Process, WriteFile(p) PROVE TypeOK'
    BY <2>4 DEF WriteFile, TypeOK
  <2>5. ASSUME NEW p \in Process, Stop(p) PROVE TypeOK'
    BY <2>5 DEF Stop, TypeOK
  <2> QED
    BY <2>1, <2>2, <2>3, <2>4, <2>5 DEF Next
<1> QED
  BY <1>1, <1>2, PTL DEF Spec

-----------------------------------------------------------------------------
(* Coherence, whatever overlaps and whatever fails. *)

\* Applying an update to a coherent state gives a coherent state.
LEMMA ApplyCoherent ==
  ASSUME NEW u \in Update, NEW s \in State, Coherent(s)
  PROVE  Coherent(Apply(u, s))
<1> DEFINE t == Apply(u, s)
<1>1. u[2] \in Kind /\ u # Nobody
  BY NobodyAssumption DEF Update
<1>2. t["lastRun"] = IF u[2] \in Health THEN s["lastRun"] ELSE u
  BY <1>1 DEF Apply, Group, Sets, Clears, Kind, Health
<1>3. t["lastSuccess"] = IF u[2] \in {"backup", "success"} THEN u ELSE s["lastSuccess"]
  BY <1>1 DEF Apply, Group, Sets, Clears, Kind, Health
<1>4. t["lastBackup"] = IF u[2] = "backup" THEN u ELSE s["lastBackup"]
  BY <1>1 DEF Apply, Group, Sets, Clears, Kind, Health
<1>5. t["lastFailure"] = IF u[2] = "failure" THEN u
                         ELSE IF u[2] \in {"backup", "success"} THEN Nobody
                         ELSE s["lastFailure"]
  BY <1>1 DEF Apply, Group, Sets, Clears, Kind, Health
<1> HIDE DEF t
<1>6. Coherent(t)
  BY <1>1, <1>2, <1>3, <1>4, <1>5 DEF Coherent, Kind, Health
<1> QED
  BY <1>6 DEF t

LEMMA BlankCoherent == Coherent(Blank)
  BY NobodyAssumption DEF Coherent, Blank, Group, Health

\* The state on record is always one that updates, applied one after the other,
\* could have produced: its fields never contradict each other.
THEOREM StateIsCoherent == Spec => []AlwaysCoherent
<1>1. Init => CoherentInv
  BY BlankCoherent DEF Init, CoherentInv
<1>2. TypeOK /\ CoherentInv /\ [Next]_vars => CoherentInv'
  <2> SUFFICES ASSUME TypeOK, CoherentInv, [Next]_vars PROVE CoherentInv'
    OBVIOUS
  <2>1. CASE UNCHANGED vars
    BY <2>1 DEF CoherentInv, Coherent, vars
  <2>2. ASSUME NEW p \in Process, Load(p) PROVE CoherentInv'
    <3>1. <<p, kind[p]>> \in Update /\ content \in State
      BY DEF TypeOK, Update
    <3>2. Coherent(Apply(<<p, kind[p]>>, content))
      BY <3>1, ApplyCoherent DEF CoherentInv
    <3>3. content' = content
      BY <2>2 DEF Load
    <3>4. \A q \in Process : mem'[q] = mem[q] \/ mem'[q] = Apply(<<p, kind[p]>>, content)
      BY <2>2 DEF Load, TypeOK
    <3>5. \A q \in Process : Coherent(mem'[q])
      BY <3>2, <3>4 DEF CoherentInv
    <3>6. Coherent(content')
      BY <3>3 DEF CoherentInv
    <3> QED
      BY <3>5, <3>6 DEF CoherentInv, Coherent
  <2>3. ASSUME NEW p \in Process, OpenFile(p) PROVE CoherentInv'
    BY <2>3 DEF OpenFile, CoherentInv, Coherent
  <2>4. ASSUME NEW p \in Process, WriteFile(p) PROVE CoherentInv'
    <3>1. content' = mem[p] /\ mem' = mem
      BY <2>4 DEF WriteFile
    <3> QED
      BY <3>1 DEF CoherentInv, Coherent
  <2>5. ASSUME NEW p \in Process, Stop(p) PROVE CoherentInv'
    BY <2>5 DEF Stop, CoherentInv, Coherent
  <2> QED
    BY <2>1, <2>2, <2>3, <2>4, <2>5 DEF Next
<1>3. CoherentInv => AlwaysCoherent
  BY DEF CoherentInv, AlwaysCoherent
<1> QED
  BY <1>1, <1>2, <1>3, TypeCorrect, PTL DEF Spec

-----------------------------------------------------------------------------
(* Updates that do not overlap. *)

\* While no two updates have overlapped, an update in progress is alone and was
\* computed from what is on record, even when others died on the way.
LEMMA SerialInvariant == Spec => []SerialInv
<1>1. Init => SerialInv
  BY DEF Init, SerialInv, InProgress
<1>2. TypeOK /\ SerialInv /\ [Next]_vars => SerialInv'
  <2> SUFFICES ASSUME TypeOK, SerialInv, [Next]_vars, serial' PROVE SerialInv'
    BY DEF SerialInv
  <2>1. CASE UNCHANGED vars
    BY <2>1 DEF SerialInv, InProgress, vars, Apply
  <2>2. ASSUME NEW p \in Process, Load(p) PROVE SerialInv'
    <3>1. \A q \in Process : ~InProgress(q)
      BY <2>2 DEF Load, Begin
    <3>2. \A q \in Process : InProgress(q)' => q = p
      BY <2>2, <3>1 DEF Load, InProgress, TypeOK
    <3>3. InProgress(p)' => mem'[p] = Apply(<<p, kind[p]>>, content)
      BY <2>2 DEF Load, InProgress, TypeOK
    <3>4. kind' = kind /\ content' = content
      BY <2>2 DEF Load
    <3> QED
      BY <3>2, <3>3, <3>4 DEF SerialInv, Apply
  <2>3. ASSUME NEW p \in Process, OpenFile(p) PROVE SerialInv'
    BY <2>3 DEF OpenFile, SerialInv, InProgress, TypeOK, Apply
  <2>4. ASSUME NEW p \in Process, WriteFile(p) PROVE SerialInv'
    BY <2>4 DEF WriteFile, SerialInv, InProgress, TypeOK
  <2>5. ASSUME NEW p \in Process, Stop(p) PROVE SerialInv'
    BY <2>5 DEF Stop, SerialInv, InProgress, TypeOK, Apply
  <2> QED
    BY <2>1, <2>2, <2>3, <2>4, <2>5 DEF Next
<1> QED
  BY <1>1, <1>2, TypeCorrect, PTL DEF Spec

\* While updates do not overlap, none disturbs what another one recorded, even
\* when processes die in the middle of theirs.
THEOREM SerialUpdatesAreFocused == Spec => SerialFocusedMutation
<1>1. TypeOK /\ SerialInv /\ [Next]_vars => [serial' => Focused]_vars
  <2> SUFFICES ASSUME TypeOK, SerialInv, Next, serial',
                      NEW p \in Process, NEW g \in Group,
                      pc[p] = "write", pc'[p] = "saved",
                      g \notin Sets(kind[p]) \cup Clears(kind[p])
               PROVE  content'[g] = content[g]
    BY DEF Focused
  <2>1. WriteFile(p)
    BY DEF Next, Load, OpenFile, WriteFile, Stop, Begin, TypeOK
  <2>2. serial
    BY <2>1 DEF WriteFile
  <2>3. content' = Apply(<<p, kind[p]>>, content)
    BY <2>1, <2>2 DEF WriteFile, SerialInv, InProgress
  <2> QED
    BY <2>3 DEF Apply
<1> QED
  BY <1>1, SerialInvariant, TypeCorrect, PTL DEF Spec, SerialFocusedMutation

-----------------------------------------------------------------------------
(* Undisturbed updates. *)

\* Updates that are disturbed now have been disturbed ever since.
LEMMA DisturbedForGood ==
  ASSUME TypeOK, Next, Undisturbed'
  PROVE  Undisturbed
<1>1. ASSUME NEW p \in Process, Load(p) PROVE Undisturbed
  BY <1>1 DEF Load, Begin, Undisturbed, TypeOK
<1>2. ASSUME NEW p \in Process, OpenFile(p) \/ WriteFile(p) \/ Stop(p) PROVE Undisturbed
  BY <1>2 DEF OpenFile, WriteFile, Stop, InProgress, Undisturbed, TypeOK
<1> QED
  BY <1>1, <1>2 DEF Next

\* Undisturbed updates find the file whole: none is refused.
LEMMA UndamagedInvariant == Spec => []Undamaged
<1>1. Init => Undamaged
  BY DEF Init, Undamaged
<1>2. TypeOK /\ SerialInv /\ Undamaged /\ [Next]_vars => Undamaged'
  <2>1. CASE UNCHANGED vars
    BY <2>1 DEF Undamaged, Undisturbed, vars
  <2>2. CASE Next
    <3> SUFFICES ASSUME TypeOK, SerialInv, Undamaged, Next, Undisturbed'
                 PROVE  Undamaged'
      BY <2>2 DEF Undamaged
    <3>1. Undisturbed /\ serial /\ serial'
      BY DisturbedForGood DEF Undisturbed
    <3>2. ASSUME NEW p \in Process, Load(p) PROVE Undamaged'
      BY <3>1, <3>2 DEF Load, Begin, InProgress, Undamaged, TypeOK
    <3>3. ASSUME NEW p \in Process, OpenFile(p) PROVE Undamaged'
      BY <3>1, <3>3 DEF OpenFile, Undamaged, TypeOK
    <3>4. ASSUME NEW p \in Process, WriteFile(p) PROVE Undamaged'
      BY <3>1, <3>4 DEF WriteFile, Undamaged, SerialInv, InProgress, TypeOK
    <3>5. ASSUME NEW p \in Process, Stop(p) PROVE FALSE
      BY <3>5 DEF Stop, Undisturbed, TypeOK
    <3> QED
      BY <3>2, <3>3, <3>4, <3>5 DEF Next
  <2> QED
    BY <2>1, <2>2
<1> QED
  BY <1>1, <1>2, SerialInvariant, TypeCorrect, PTL DEF Spec

\* No undisturbed update fails because of what an earlier one left in the file.
THEOREM UndisturbedNeverRefused == Spec => []NeverRefused
<1>1. Undamaged => NeverRefused
  BY DEF Undamaged, NeverRefused
<1> QED
  BY <1>1, UndamagedInvariant, PTL

\* What the abstract variable "applied" stands for.
Applied == IF Undisturbed THEN Committed ELSE {}

\* Undisturbed, the store is a state: it is not lost.
LEMMA StoreKept ==
  ASSUME TypeOK, Undisturbed
  PROVE  Store # Lost
<1>1. CASE \E p \in Process : pc[p] = "write"
  <2>1. Writer \in Process
    BY <1>1 DEF Writer
  <2> QED
    BY <1>1, <2>1, LostAssumption DEF Store, TypeOK, State
<1>2. CASE ~\E p \in Process : pc[p] = "write"
  BY <1>2, LostAssumption DEF Store, TypeOK, State
<1> QED
  BY <1>1, <1>2

\* Each undisturbed step records an update as a whole or changes nothing.
LEMMA UndisturbedStep ==
  ASSUME TypeOK, SerialInv, Undamaged, Next, Undisturbed, Undisturbed'
  PROVE  [Abstract!Next]_<<Store, Applied>>
<1>1. serial /\ serial' /\ Applied = Committed /\ Applied' = Committed'
  BY DEF Undisturbed, Applied
<1>2. ASSUME NEW p \in Process, Load(p) PROVE UNCHANGED <<Store, Applied>>
  <2>1. \A q \in Process : pc[q] # "write" /\ pc'[q] # "write"
    BY <1>1, <1>2 DEF Load, Begin, InProgress, TypeOK
  <2>2. Committed' = Committed
    BY <1>2, <2>1 DEF Load, Begin, Committed, TypeOK
  <2> QED
    BY <1>1, <1>2, <2>1, <2>2 DEF Load, Store
<1>3. ASSUME NEW p \in Process, OpenFile(p) PROVE Abstract!Next
  <2>1. \A q \in Process : pc[q] # "write" /\ (pc'[q] = "write" <=> q = p)
    BY <1>1, <1>3 DEF OpenFile, SerialInv, InProgress, TypeOK
  <2>2. Store = content /\ Store' = mem'[p]
    BY <2>1 DEF Store, Writer
  <2>3. Store' = Apply(<<p, kind[p]>>, Store)
    BY <1>1, <1>3, <2>2 DEF OpenFile, SerialInv, InProgress
  <2>4. <<p, kind[p]>> \notin Committed
    BY <1>3 DEF OpenFile, Committed
  <2>5. Committed' = Committed \cup {<<p, kind[p]>>}
    BY <1>3 DEF OpenFile, Committed, TypeOK
  <2>6. Abstract!Record(<<p, kind[p]>>)
    BY <1>1, <2>3, <2>4, <2>5, StoreKept DEF Abstract!Record, Applied
  <2> QED
    BY <2>6 DEF Abstract!Next, Update, TypeOK
<1>4. ASSUME NEW p \in Process, WriteFile(p) PROVE UNCHANGED <<Store, Applied>>
  <2>1. \A q \in Process : pc'[q] # "write" /\ (pc[q] = "write" <=> q = p)
    BY <1>1, <1>4 DEF WriteFile, SerialInv, InProgress, TypeOK
  <2>2. Store = mem[p] /\ Store' = content'
    BY <2>1 DEF Store, Writer
  <2>3. Committed' = Committed
    BY <1>4 DEF WriteFile, Committed, TypeOK
  <2> QED
    BY <1>1, <1>4, <2>2, <2>3 DEF WriteFile
<1>5. ASSUME NEW p \in Process, Stop(p) PROVE FALSE
  BY <1>5 DEF Stop, Undisturbed, TypeOK
<1> QED
  BY <1>2, <1>3, <1>4, <1>5 DEF Next

\* Until updates disturb each other, the state file implements the store that
\* records each of them atomically.
THEOREM FileRefinesStore == Spec => RefinesStore
<1>1. Init => Abstract!Init
  BY DEF Init, Abstract!Init, Store, Committed, Undisturbed
<1>2. TypeOK /\ SerialInv /\ Undamaged /\ [Next]_vars
        => [Abstract!Next]_<<Store, Applied>>
  <2> SUFFICES ASSUME TypeOK, SerialInv, Undamaged, [Next]_vars
               PROVE  [Abstract!Next]_<<Store, Applied>>
    OBVIOUS
  <2>1. CASE UNCHANGED vars
    BY <2>1 DEF Store, Writer, Committed, Applied, Undisturbed, vars
  <2>2. CASE Next /\ Undisturbed'
    BY <2>2, DisturbedForGood, UndisturbedStep
  <2>3. CASE ~Undisturbed /\ ~Undisturbed'
    BY <2>3 DEF Store, Applied
  <2>4. CASE Undisturbed /\ ~Undisturbed'
    <3>1. Store # Lost /\ Store' = Lost /\ Applied' = {}
      BY <2>4, StoreKept DEF Store, Applied
    <3> QED
      BY <3>1 DEF Abstract!Next, Abstract!Lose, Applied
  <2> QED
    BY <2>1, <2>2, <2>3, <2>4
<1> QED
  BY <1>1, <1>2, UndamagedInvariant, SerialInvariant, TypeCorrect, PTL
     DEF Spec, RefinesStore, Abstract!Spec, Applied
=============================================================================
