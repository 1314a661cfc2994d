----------------------------- MODULE MCInstall -----------------------------
(***************************************************************************)
(* Instances of Install for TLC.                                           *)
(***************************************************************************)
EXTENDS Install, TLC

SessionSymmetry == Permutations(Session)

\* Once sessions have contended no property says anything any more.
Calm == calm
=============================================================================
