----------------------------- MODULE MCDirLock -----------------------------
(***************************************************************************)
(* Instances of DirLock for TLC.  Safety is checked up to a permutation of *)
(* the processes, which Init, Next and the properties treat alike.         *)
(***************************************************************************)
EXTENDS DirLock, TLC

ProcSymmetry == Permutations(Proc)
=============================================================================
