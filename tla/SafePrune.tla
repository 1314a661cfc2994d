----------------------------- MODULE SafePrune -----------------------------
(***************************************************************************)
(* The safe prune of internal/workflow prune.go and internal/duplicacy:    *)
(* preview, count, compare with the thresholds, delete.  It is the         *)
(* "preview" to "prune" part of module Executor, with the revisions.       *)
(*                                                                         *)
(* A revision is a number; the retention policy expires the revisions up   *)
(* to a horizon that moves with time.  The repository lock keeps this      *)
(* program's own runs for the label and storage out; time still passes,    *)
(* and other hosts that use the storage do not ask for the lock.           *)
(***************************************************************************)
EXTENDS Integers, FiniteSets

CONSTANTS
  MaxRevision,  \* the bound on revision numbers
  Limit         \* the threshold values that configurations may hold

ASSUME BoundAssumption == MaxRevision \in Nat
ASSUME LimitAssumption ==
  Limit \subseteq [maxCount : Nat, maxPercent : 0 .. 100, minTotal : Nat]

VARIABLES
  limit,        \* the thresholds of the configuration
  force,        \* prune --force
  dryRun,       \* prune --dry-run
  revisions,    \* the revisions in the storage
  horizon,      \* the policy expires every revision up to this one
  pc,           \* where runPrunePhase is
  preview,      \* PrunePreview, without the command output
  still         \* nothing has moved the storage since the preview began

request == <<limit, force, dryRun>>
storage == <<revisions, horizon>>
vars    == <<request, storage, pc, preview, still>>

Revision == 1 .. MaxRevision

NoPreview == [DeleteCount |-> 0, TotalRevisions |-> 0,
              PercentEnforced |-> FALSE, RevisionCountFailed |-> FALSE]

TypeOK ==
  /\ limit \in Limit
  /\ force \in BOOLEAN
  /\ dryRun \in BOOLEAN
  /\ revisions \subseteq Revision
  /\ horizon \in 0 .. MaxRevision
  /\ pc \in {"preview", "count", "enforce", "prune", "done", "failed"}
  /\ preview \in [DeleteCount : Nat, TotalRevisions : Nat,
                  PercentEnforced : BOOLEAN, RevisionCountFailed : BOOLEAN]
  /\ still \in BOOLEAN

\* The revisions "duplicacy prune" with the configured policy deletes.
Expired == {r \in revisions : r <= horizon}

-----------------------------------------------------------------------------
Init ==
  /\ limit \in Limit
  /\ force \in BOOLEAN /\ dryRun \in BOOLEAN
  /\ revisions \in SUBSET Revision
  /\ horizon \in 0 .. MaxRevision
  /\ pc = "preview"
  /\ preview = NoPreview
  /\ still = TRUE

\* SafePrunePreview counts the deletions that a dry run announces.  A dry run of
\* the program executes neither this command nor the next one.
PreviewDeletes ==
  /\ pc = "preview"
  /\ \/ /\ ~dryRun
        /\ preview' = [preview EXCEPT !.DeleteCount = Cardinality(Expired)]
        /\ pc' = "count"
     \/ dryRun /\ pc' = "enforce" /\ UNCHANGED preview
     \/ ~dryRun /\ pc' = "failed" /\ UNCHANGED preview
  /\ UNCHANGED <<request, storage, still>>

\* "totalCount >= minTotalForPercent && totalCount > 0"
Enforced(total) == total >= limit.minTotal /\ total > 0

\* GetTotalRevisionCount; a failed listing leaves the total at 0.
CountRevisions ==
  /\ pc = "count"
  /\ LET total == Cardinality(revisions) IN
     \/ preview' = [preview EXCEPT !.TotalRevisions = total,
                                   !.PercentEnforced = Enforced(total)]
     \/ preview' = [preview EXCEPT !.RevisionCountFailed = TRUE]
  /\ pc' = "enforce"
  /\ UNCHANGED <<request, storage, still>>

\* Mutant: the percentage is computed by division before it is compared.
ExceedsPercentTruncated(p) ==
  /\ p.PercentEnforced /\ p.TotalRevisions > 0
  /\ (p.DeleteCount * 100) \div p.TotalRevisions > limit.maxPercent

\* Cross-multiplied, so that no division truncates.
ExceedsPercent(p) ==
  /\ p.PercentEnforced /\ p.TotalRevisions > 0
  /\ p.DeleteCount * 100 > limit.maxPercent * p.TotalRevisions

\* Mutant: a failed count is as good as an empty storage.
BlockedByLimits(p) == p.DeleteCount > limit.maxCount \/ ExceedsPercent(p)

\* What enforcePrunePreview refuses without --force.
Blocked(p) == \/ p.RevisionCountFailed
              \/ p.DeleteCount > limit.maxCount
              \/ ExceedsPercent(p)

EnforcePrunePreview ==
  /\ pc = "enforce"
  /\ pc' = IF Blocked(preview) /\ ~force THEN "failed" ELSE "prune"
  /\ UNCHANGED <<request, storage, preview, still>>

\* RunPrune.  A prune that fails may have deleted any part of what has expired.
RunPrune ==
  /\ pc = "prune"
  /\ \/ ~dryRun /\ revisions' = revisions \ Expired /\ pc' = "done"
     \/ ~dryRun /\ pc' = "failed" /\ \E d \in SUBSET Expired : revisions' = revisions \ d
     \/ dryRun /\ pc' = "done" /\ UNCHANGED revisions
  /\ UNCHANGED <<request, horizon, preview, still>>

\* Another host backs up or prunes, or time passes.
StorageMoves ==
  /\ pc \notin {"done", "failed"}
  /\ revisions' \in SUBSET Revision
  /\ horizon' \in horizon .. MaxRevision
  /\ still' = (pc = "preview")
  /\ UNCHANGED <<request, pc, preview>>

PruneStep == PreviewDeletes \/ CountRevisions \/ EnforcePrunePreview \/ RunPrune

Next == PruneStep \/ StorageMoves

Spec == Init /\ [][Next]_vars
-----------------------------------------------------------------------------
(* Properties. *)

\* "Maximum revisions a prune may delete", "Maximum percentage of revisions a
\* prune may delete": what an unforced prune deletes is within both thresholds,
\* taken of what is in the storage when it deletes it, if nobody else and no
\* expiry has changed the storage since the preview.
WithinLimits(deleted, total) ==
  /\ deleted <= limit.maxCount
  /\ total > 0 /\ total >= limit.minTotal => deleted * 100 <= limit.maxPercent * total
DeletesWithinLimits ==
  [][PruneStep /\ revisions' # revisions /\ ~force /\ still
       => WithinLimits(Cardinality(revisions \ revisions'), Cardinality(revisions))]_vars

\* Even when the storage moves, an unforced prune deletes only after a preview
\* and a complete count that were both within the thresholds.
Approved ==
  /\ ~preview.RevisionCountFailed
  /\ WithinLimits(preview.DeleteCount, preview.TotalRevisions)
DeletesOnlyApproved ==
  [][PruneStep /\ revisions' # revisions /\ ~force => Approved]_vars

\* Why: what has been measured is still what is there, and was approved.
Measured ==
  /\ still /\ pc \in {"count", "enforce", "prune"} /\ ~dryRun
       => preview.DeleteCount = Cardinality(Expired)
  /\ still /\ pc \in {"enforce", "prune"} /\ ~dryRun /\ ~preview.RevisionCountFailed
       => preview.TotalRevisions = Cardinality(revisions)
Cleared ==
  /\ pc \in {"preview", "count"} => ~preview.RevisionCountFailed
  /\ pc \in {"enforce", "prune"} /\ ~dryRun /\ ~preview.RevisionCountFailed
       => preview.PercentEnforced = Enforced(preview.TotalRevisions)
  /\ pc = "prune" /\ ~force => ~Blocked(preview)
=============================================================================
