----------------------------- MODULE MCExecutor -----------------------------
(***************************************************************************)
(* Instances of Executor for TLC.                                          *)
(***************************************************************************)
EXTENDS Executor, TLC

\* Processes are alike, and so are storage entries.
Symmetry == Permutations(Run) \cup Permutations(Storage)

\* Every request there is.
AnyRequest == [op : Op, dryRun : BOOLEAN, storage : Storage]

\* Two processes together: of the operations without a snapshot, which differ only in
\* their commands, prune stands for both; a dry run, which starts none, runs alone.
PairRequests == [op : {"backup", "prune"}, dryRun : {FALSE}, storage : Storage]
=============================================================================
