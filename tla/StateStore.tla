----------------------------- MODULE StateStore -----------------------------
(***************************************************************************)
(* What the state file of a label and storage promises: every update is    *)
(* applied as a whole to the state left by the update before it ("apply    *)
(* one focused mutation", docs/how-it-works.md).  Nothing is promised any  *)
(* more once updates have disturbed each other.                            *)
(***************************************************************************)
CONSTANTS Update,       \* the updates that may be applied
          Empty,        \* the state nothing has been recorded in
          Lost,         \* the store about which nothing is promised
          Apply(_, _)   \* Apply(u, state): the state with u recorded

VARIABLES store,        \* the recorded state
          applied       \* the updates recorded so far

Init == store = Empty /\ applied = {}

Record(u) == /\ store # Lost
             /\ u \notin applied
             /\ store' = Apply(u, store)
             /\ applied' = applied \cup {u}

\* Two updates overlap, or one is cut off half-way.
Lose == /\ store # Lost
        /\ store' = Lost
        /\ applied' = {}

Next == Lose \/ \E u \in Update : Record(u)

Spec == Init /\ [][Next]_<<store, applied>>
=============================================================================
