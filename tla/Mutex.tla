------------------------------- MODULE Mutex -------------------------------
(***************************************************************************)
(* What a backup lock promises the workflow that takes it: at most one run *)
(* of the program is inside the locked region, a run enters only when the  *)
(* region is empty, and a run leaves it by releasing the lock or by dying. *)
(* DirLock implements this specification when the calls on one lock        *)
(* directory do not overlap.                                               *)
(***************************************************************************)
CONSTANT Proc       \* the processes that may run the program

VARIABLE holders    \* the processes inside the locked region

Init == holders = {}

\* A run is admitted to the empty region.
Enter(p) == /\ holders = {}
            /\ holders' = {p}

\* A run calls Release, or its process dies.
Leave(p) == /\ p \in holders
            /\ holders' = holders \ {p}

Next == \E p \in Proc : Enter(p) \/ Leave(p)

Spec == Init /\ [][Next]_holders
=============================================================================
