-------------------------- MODULE SafePruneProofs --------------------------
(***************************************************************************)
(* Theorems about the safe prune, for any thresholds and any storage.      *)
(***************************************************************************)
EXTENDS SafePrune, FiniteSetTheorems, TLAPS

\* Sets of revisions are finite and can be counted.
LEMMA RevisionsCount ==
  ASSUME NEW S \in SUBSET Revision
  PROVE  IsFiniteSet(S) /\ Cardinality(S) \in Nat
<1>1. IsFiniteSet(Revision)
  BY FS_Interval, BoundAssumption DEF Revision
<1>2. IsFiniteSet(S)
  BY <1>1, FS_Subset
<1> QED
  BY <1>2, FS_CardinalityType

LEMMA LimitType ==
  ASSUME TypeOK
  PROVE  limit.maxCount \in Nat /\ limit.maxPercent \in 0 .. 100 /\ limit.minTotal \in Nat
<1>1. limit \in [maxCount : Nat, maxPercent : 0 .. 100, minTotal : Nat]
  BY LimitAssumption DEF TypeOK
<1> QED
  BY <1>1

\* Every variable has its type.
THEOREM TypeCorrect == Spec => []TypeOK
<1>1. Init => TypeOK
  BY DEF Init, TypeOK, NoPreview
<1>2. TypeOK /\ [Next]_vars => TypeOK'
  <2> SUFFICES ASSUME TypeOK, [Next]_vars PROVE TypeOK'
    OBVIOUS
  <2>1. CASE UNCHANGED vars
    BY <2>1 DEF TypeOK, vars, request, storage
  <2>2. CASE PreviewDeletes
    <3>1. Cardinality(Expired) \in Nat
      BY RevisionsCount DEF Expired, TypeOK
    <3> QED
      BY <2>2, <3>1 DEF PreviewDeletes, TypeOK, request, storage
  <2>3. CASE CountRevisions
    <3>1. Cardinality(revisions) \in Nat
      BY RevisionsCount DEF TypeOK
    <3>2. Enforced(Cardinality(revisions)) \in BOOLEAN
      BY DEF Enforced
    <3> QED
      BY <2>3, <3>1, <3>2 DEF CountRevisions, TypeOK, request, storage
  <2>4. CASE EnforcePrunePreview
    BY <2>4 DEF EnforcePrunePreview, TypeOK, request, storage
  <2>5. CASE RunPrune
    BY <2>5 DEF RunPrune, TypeOK, request
  <2>6. CASE StorageMoves
    <3>1. horizon' \in 0 .. MaxRevision
      BY <2>6, BoundAssumption DEF StorageMoves, TypeOK
    <3> QED
      BY <2>6, <3>1 DEF StorageMoves, TypeOK, request
  <2> QED
    BY <2>1, <2>2, <2>3, <2>4, <2>5, <2>6 DEF Next, PruneStep
<1> QED
  BY <1>1, <1>2, PTL DEF Spec

-----------------------------------------------------------------------------
\* What Blocked lets through is within the thresholds.
LEMMA NotBlockedIsWithin ==
  ASSUME TypeOK, ~Blocked(preview),
         preview.PercentEnforced = Enforced(preview.TotalRevisions)
  PROVE  WithinLimits(preview.DeleteCount, preview.TotalRevisions)
<1>1. /\ preview.DeleteCount \in Nat
      /\ preview.TotalRevisions \in Nat
  BY DEF TypeOK
<1>2. /\ ~(preview.DeleteCount > limit.maxCount)
      /\ ~ExceedsPercent(preview)
  BY DEF Blocked
<1>3. preview.DeleteCount <= limit.maxCount
  BY <1>1, <1>2, LimitType
<1>4. ASSUME preview.TotalRevisions > 0, preview.TotalRevisions >= limit.minTotal
      PROVE  preview.DeleteCount * 100 <= limit.maxPercent * preview.TotalRevisions
  <2>1. preview.PercentEnforced
    BY <1>4 DEF Enforced
  <2>2. ~(preview.DeleteCount * 100 > limit.maxPercent * preview.TotalRevisions)
    BY <1>2, <1>4, <2>1 DEF ExceedsPercent
  <2>3. preview.DeleteCount * 100 \in Nat
    BY <1>1
  <2>4. limit.maxPercent * preview.TotalRevisions \in Nat
    BY <1>1, LimitType
  <2> QED
    BY <2>2, <2>3, <2>4
<1> QED
  BY <1>3, <1>4 DEF WithinLimits

\* A prune that is about to delete without --force has been cleared.
LEMMA ClearedInvariant == Spec => []Cleared
<1>1. Init => Cleared
  BY DEF Init, Cleared, NoPreview
<1>2. TypeOK /\ Cleared /\ [Next]_vars => Cleared'
  <2> SUFFICES ASSUME TypeOK, Cleared, [Next]_vars PROVE Cleared'
    OBVIOUS
  <2>1. CASE UNCHANGED vars
    BY <2>1 DEF Cleared, vars, request, Blocked, ExceedsPercent, Enforced
  <2>2. CASE PreviewDeletes
    BY <2>2 DEF PreviewDeletes, Cleared, TypeOK, request
  <2>3. CASE CountRevisions
    BY <2>3 DEF CountRevisions, Cleared, TypeOK, request, Enforced
  <2>4. CASE EnforcePrunePreview
    BY <2>4 DEF EnforcePrunePreview, Cleared, request, Blocked, ExceedsPercent, Enforced
  <2>5. CASE RunPrune
    BY <2>5 DEF RunPrune, Cleared
  <2>6. CASE StorageMoves
    BY <2>6 DEF StorageMoves, Cleared, request, Blocked, ExceedsPercent, Enforced
  <2> QED
    BY <2>1, <2>2, <2>3, <2>4, <2>5, <2>6 DEF Next, PruneStep
<1> QED
  BY <1>1, <1>2, TypeCorrect, PTL DEF Spec

\* Only RunPrune deletes, and only outside a dry run.
LEMMA WhoDeletes ==
  ASSUME TypeOK, PruneStep, revisions' # revisions
  PROVE  /\ pc = "prune" /\ ~dryRun
         /\ \E d \in SUBSET Expired : revisions' = revisions \ d
<1>1. RunPrune
  BY DEF PruneStep, PreviewDeletes, CountRevisions, EnforcePrunePreview, storage
<1> QED
  BY <1>1 DEF RunPrune

\* An unforced prune deletes only what a preview and a complete count approved,
\* wherever the storage has moved in the meantime.
THEOREM OnlyApproved == Spec => DeletesOnlyApproved
<1> DEFINE A == PruneStep /\ revisions' # revisions /\ ~force => Approved
<1>1. TypeOK /\ Cleared /\ [Next]_vars => [A]_vars
  <2> SUFFICES ASSUME TypeOK, Cleared, PruneStep, revisions' # revisions, ~force
               PROVE  Approved
    OBVIOUS
  <2>1. ~Blocked(preview)
    BY WhoDeletes DEF Cleared
  <2>2. ~preview.RevisionCountFailed
    BY <2>1 DEF Blocked
  <2>3. preview.PercentEnforced = Enforced(preview.TotalRevisions)
    BY <2>2, WhoDeletes DEF Cleared
  <2> QED
    BY <2>1, <2>2, <2>3, NotBlockedIsWithin DEF Approved
<1> QED
  BY <1>1, ClearedInvariant, TypeCorrect, PTL DEF Spec, DeletesOnlyApproved

\* If nothing has moved the storage since the preview, an unforced prune stays
\* within both thresholds of what is there when it deletes.
THEOREM WithinThresholds == Spec => DeletesWithinLimits
<1>1. Init => Measured
  BY DEF Init, Measured
<1>2. TypeOK /\ Cleared /\ Measured /\ [Next]_vars => Measured'
  <2> SUFFICES ASSUME TypeOK, Cleared, Measured, [Next]_vars PROVE Measured'
    OBVIOUS
  <2>1. CASE UNCHANGED vars
    BY <2>1 DEF Measured, Expired, vars, request, storage
  <2>2. CASE PreviewDeletes
    BY <2>2 DEF PreviewDeletes, Measured, Cleared, TypeOK, request, storage, Expired
  <2>3. CASE CountRevisions
    BY <2>3 DEF CountRevisions, Measured, TypeOK, request, storage, Expired
  <2>4. CASE EnforcePrunePreview
    BY <2>4 DEF EnforcePrunePreview, Measured, request, storage, Expired
  <2>5. CASE RunPrune
    BY <2>5 DEF RunPrune, Measured, request, Expired
  <2>6. CASE StorageMoves
    BY <2>6 DEF StorageMoves, Measured
  <2> QED
    BY <2>1, <2>2, <2>3, <2>4, <2>5, <2>6 DEF Next, PruneStep
<1> DEFINE A == PruneStep /\ revisions' # revisions /\ ~force /\ still
                  => WithinLimits(Cardinality(revisions \ revisions'), Cardinality(revisions))
<1>3. TypeOK /\ Cleared /\ Measured /\ [Next]_vars => [A]_vars
  <2> SUFFICES ASSUME TypeOK, Cleared, Measured,
                      PruneStep, revisions' # revisions, ~force, still
               PROVE  WithinLimits(Cardinality(revisions \ revisions'), Cardinality(revisions))
    OBVIOUS
  <2>1. pc = "prune" /\ ~dryRun
    BY WhoDeletes
  <2>2. ~Blocked(preview) /\ ~preview.RevisionCountFailed
    BY <2>1 DEF Cleared, Blocked
  <2>3. WithinLimits(preview.DeleteCount, preview.TotalRevisions)
    BY <2>1, <2>2, NotBlockedIsWithin DEF Cleared
  <2>4. WithinLimits(Cardinality(Expired), Cardinality(revisions))
    BY <2>1, <2>2, <2>3 DEF Measured
  <2>5. Cardinality(revisions \ revisions') <= Cardinality(Expired)
    <3>1. revisions \ revisions' \subseteq Expired
      BY WhoDeletes
    <3>2. IsFiniteSet(Expired)
      BY RevisionsCount DEF Expired, TypeOK
    <3> QED
      BY <3>1, <3>2, FS_Subset
  <2>6. /\ Cardinality(revisions \ revisions') \in Nat
        /\ Cardinality(Expired) \in Nat
        /\ Cardinality(revisions) \in Nat
    BY RevisionsCount DEF TypeOK, Expired
  <2> HIDE DEF Expired
  <2> DEFINE few == Cardinality(revisions \ revisions')
             most == Cardinality(Expired)
             all == Cardinality(revisions)
  <2>7. few \in Nat /\ most \in Nat /\ all \in Nat /\ few <= most
    BY <2>5, <2>6
  <2>8. /\ most <= limit.maxCount
        /\ all > 0 /\ all >= limit.minTotal => most * 100 <= limit.maxPercent * all
    BY <2>4 DEF WithinLimits
  <2> HIDE DEF few, most, all
  <2>9. limit.maxPercent * all \in Nat
    BY <2>7, LimitType
  <2>10. WithinLimits(few, all)
    BY <2>7, <2>8, <2>9, LimitType DEF WithinLimits
  <2> QED
    BY <2>10 DEF few, all
<1> QED
  BY <1>1, <1>2, <1>3, ClearedInvariant, TypeCorrect, PTL DEF Spec, DeletesWithinLimits
=============================================================================
