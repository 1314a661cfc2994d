----------------------------- MODULE MCRunState -----------------------------
(***************************************************************************)
(* Instances of RunState for TLC.                                          *)
(***************************************************************************)
EXTENDS RunState, TLC

ProcessSymmetry == Permutations(Process)
=============================================================================
