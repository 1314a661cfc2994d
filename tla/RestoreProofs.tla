--------------------------- MODULE RestoreProofs ---------------------------
(***************************************************************************)
(* Theorems about the restore commands, for any listing, storage entries,  *)
(* revisions, templates and number of commands.                            *)
(***************************************************************************)
EXTENDS Restore, FiniteSetTheorems, SequenceTheorems, WellFoundedInduction, TLAPS

-----------------------------------------------------------------------------
(* The invariant of what is restored and reported, which is true whatever  *)
(* has been taken.  The marks of the picker have one of their own, below.  *)

InPath     == {"prepare", "write", "own", "exec", "running", "returned"}
Unfinished == {p \in Paths : results[p] \notin {"none", "Restored into workspace"}}

Typed ==
  /\ asked \in Version /\ workspace \in Workspace
  /\ results \in [Paths -> Result]
  /\ preferences \in [Workspace -> Storage \union {"none", "cut short"}]
  /\ files \in [Workspace -> [Listing -> Version \union {NoFile}]]

\* What holds at each point of a command.
Placed ==
  /\ pc # "idle" => exit = "none"
  /\ pc \in {"asked", "picker", "confirm"} => current = NoPath /\ Restored = {}
  /\ pc \in InPath \union {"next"} => current \in Paths
  /\ pc \in InPath => results[current] = "none"
  /\ child # "none" => pc = "running"
  /\ pc = "write" => preferences[workspace] = "cut short"
  /\ pc \in {"own", "exec", "running", "returned"} => Prepared(workspace)

\* A path that fails is the last one.
Ended ==
  /\ exit = "ok" /\ current # NoPath => Restored = Paths
  /\ Unfinished \subseteq {current}
  /\ pc \notin {"repair", "leave", "idle"} => Unfinished = {}

\* Preferences name the storage of their workspace.
Named ==
  /\ \A w \in Workspace : "storage" \in DOMAIN w =>
       preferences[w] \in {"none", "cut short", w["storage"]}
  /\ "storage" \in DOMAIN workspace => workspace["storage"] = asked.storage

\* Files that were reported, or will be, are those of the restore point.
Whole(p) == \A f \in Matches(p) : files[workspace][f] = Source
Restorable == preferences[workspace] \notin {"none", "cut short"}
Written ==
  /\ Restored # {} => Restorable
  /\ child = "ok" \/ pc = "returned" => Restorable /\ Whole(current)
  /\ \A p \in Restored : Whole(p)

\* The tracker is one behind between a report and setCompleted.
Tracked ==
  /\ IsFiniteSet(Paths) /\ NoPath \notin Paths
  /\ pc \in {"asked", "picker", "confirm"} => tracker = [completed |-> 0, total |-> 0]
  /\ Interruptible =>
       IF current = NoPath
       THEN tracker = [completed |-> 0, total |-> 0] /\ Restored = {}
       ELSE /\ current \in Paths
            /\ tracker = [completed |-> Cardinality(Restored) - (IF pc = "next" THEN 1 ELSE 0),
                          total |-> Cardinality(Paths)]

RestoreInv == Typed /\ Placed /\ Ended /\ Named /\ Written /\ Tracked

-----------------------------------------------------------------------------
(* A command has finitely many paths. *)

LEMMA ListingFinite == IsFiniteSet(Listing) /\ Listing \subseteq Seq(STRING)
<1> DEFINE rows == {l \in Output : l.kind # "status"}
           f    == [l \in rows |-> l.path]
<1>1. IsFiniteSet(rows)
  BY OutputAssumption, FS_Subset
<1>2. Listing = {l.path : l \in rows}
  BY DEF Listing, ParseListFilesOutput
<1>3. f \in Surjection(rows, Listing)
  BY <1>2 DEF Surjection
<1> QED
  BY <1>1, <1>2, <1>3, FS_Surjection, OutputAssumption

LEMMA PrefixesFinite ==
  ASSUME NEW s \in Seq(STRING) PROVE IsFiniteSet(Prefixes(s))
<1> DEFINE f == [l \in 0 .. Len(s) |-> SubSeq(s, 1, l)]
<1>1. IsFiniteSet(0 .. Len(s))
  BY FS_Interval
<1>2. f \in Surjection(0 .. Len(s), Prefixes(s))
  BY DEF Surjection, Prefixes
<1> QED
  BY <1>1, <1>2, FS_Surjection

LEMMA TreeFinite ==
  ASSUME NEW paths \in SUBSET Listing PROVE IsFiniteSet(BuildTree(paths))
<1> DEFINE branches == {Prefixes(g) : g \in paths}
           f        == [g \in paths |-> Prefixes(g)]
<1>1. IsFiniteSet(paths) /\ paths \subseteq Seq(STRING)
  BY ListingFinite, FS_Subset
<1>2. f \in Surjection(paths, branches)
  BY DEF Surjection
<1>3. IsFiniteSet(branches)
  BY <1>1, <1>2, FS_Surjection
<1>4. \A b \in branches : IsFiniteSet(b)
  BY <1>1, PrefixesFinite
<1>5. IsFiniteSet(UNION branches)
  BY <1>3, <1>4, FS_UNION
<1>6. BuildTree(paths) = (UNION branches) \cup {<<>>}
  BY DEF BuildTree
<1> HIDE DEF branches
<1> QED
  BY <1>5, <1>6, FS_AddElement

LEMMA CompiledFinite == IsFiniteSet(CompileSelection)
<1>1. CASE marks[<<>>] = "full"
  BY <1>1, FS_Singleton DEF CompileSelection
<1>2. CASE marks[<<>>] # "full"
  <2> DEFINE taken == {m \in Tree : /\ marks[m] = "full"
                                    /\ \A k \in 0 .. Len(m) - 1 :
                                         marks[SubSeq(m, 1, k)] = "partial"}
             f     == [n \in taken |-> PathsUnder(n, IsDir(n))]
  <2>1. IsFiniteSet(Tree)
    BY TreeFinite DEF Tree, FilterPaths
  <2>2. IsFiniteSet(taken)
    BY <2>1, FS_Subset
  <2>3. CompileSelection = {PathsUnder(n, IsDir(n)) : n \in taken}
    BY <1>2 DEF CompileSelection
  <2>4. f \in Surjection(taken, CompileSelection)
    BY <2>3 DEF Surjection
  <2> QED
    BY <2>2, <2>4, FS_Surjection
<1> QED
  BY <1>1, <1>2

\* Types.
LEMMA TypedKept ==
  ASSUME Typed, Placed, [Next]_vars PROVE Typed'
<1> USE DEF request, disk, interrupt, progress
<1>0. CASE UNCHANGED vars BY <1>0 DEF Typed, Paths, vars
<1>1. ASSUME NEW kind, NEW v \in Version, NEW w \in Workspace, NEW pre, Start(kind, v, w, pre) PROVE Typed'
  BY <1>1 DEF Start, Typed, Paths, NoResults, Result
<1>2. CASE Refuse
  BY <1>2 DEF Refuse, Leave, Typed, Paths
<1>3. CASE Plan
  BY <1>3 DEF Plan, Leave, Typed, Paths
<1>4. CASE ListRevisions
  BY <1>4 DEF ListRevisions, Leave, Typed, Paths
<1>5. CASE Inspect
  BY <1>5 DEF Inspect, Leave, Typed, Paths
<1>6. CASE DryRun
  BY <1>6 DEF DryRun, Leave, Typed, Paths
<1>7. ASSUME NEW n, RunPath(n) PROVE Typed'
  BY <1>7 DEF RunPath, Typed, Paths, NoResults, Result
<1>8. CASE SelectFull
  BY <1>8 DEF SelectFull, Typed, Paths, NoResults, Result
<1>9. CASE SelectPaths
  BY <1>9 DEF SelectPaths, Typed, Paths
<1>10. ASSUME NEW n, Toggle(n) PROVE Typed'
  BY <1>10 DEF Toggle, Typed, Paths
<1>11. CASE Commit
  BY <1>11 DEF Commit, Typed, Paths, NoResults, Result
<1>12. CASE Cancel
  BY <1>12 DEF Cancel, Leave, Typed, Paths
<1>13. CASE Decline
  BY <1>13 DEF Decline, Leave, Typed, Paths
<1>14. CASE Confirm
  BY <1>14 DEF Confirm, Typed, Paths
<1>15. ASSUME NEW p \in Paths, BeginPath(p) PROVE Typed'
  BY <1>15 DEF BeginPath, Typed, Paths
<1>16. CASE PrepareWorkspace
  BY <1>16 DEF PrepareWorkspace, Typed, Paths
<1>17. CASE WritePreferences
  BY <1>17 DEF WritePreferences, Typed, Paths, Version
<1>18. CASE PrepareFails
  BY <1>18 DEF PrepareFails, Report, ReportError, Typed, Paths, Placed, InPath, Result
<1>19. CASE Own
  BY <1>19 DEF Own, Typed, Paths
<1>20. CASE OwnFails
  BY <1>20 DEF OwnFails, Report, ReportError, Typed, Paths, Placed, InPath, Result
<1>21. CASE Exec
  BY <1>21 DEF Exec, Typed, Paths
<1>22. CASE Return
  BY <1>22 DEF Return, Report, ReportError, Typed, Paths, Placed, InPath, Result
<1>23. CASE Succeed
  BY <1>23 DEF Succeed, Report, ReportError, Typed, Paths, Placed, InPath, Result
<1>24. CASE OwnershipFails
  BY <1>24 DEF OwnershipFails, Report, ReportError, Typed, Paths, Placed, InPath, Result
<1>25. CASE Completed
  BY <1>25 DEF Completed, Typed, Paths
<1>26. CASE Repair
  BY <1>26 DEF Repair, Leave, Typed, Paths
<1>27. CASE Exit
  BY <1>27 DEF Exit, Leave, Typed, Paths
<1>28. ASSUME NEW f \in Listing, DuplicacyWrites(f) PROVE Typed'
  BY <1>28, StorageAssumption DEF DuplicacyWrites, Typed, Paths, Source, Version, Placed, InPath,
              Prepared
<1>29. CASE DuplicacyEnds
  BY <1>29 DEF DuplicacyEnds, Typed, Paths
<1>30. CASE DuplicacyFails
  BY <1>30 DEF DuplicacyFails, Typed, Paths
<1>31. CASE Signal
  BY <1>31 DEF Signal, Typed, Paths
<1>32. CASE Tell
  BY <1>32 DEF Tell, Typed, Paths
<1>33. CASE CancelContext
  BY <1>33 DEF CancelContext, Typed, Paths
<1>34. CASE KillChild
  BY <1>34 DEF KillChild, Typed, Paths
<1>35. CASE Crash
  BY <1>35 DEF Crash, Leave, Typed, Paths
<1> QED BY <1>0, <1>1, <1>2, <1>3, <1>4, <1>5, <1>6, <1>7, <1>8, <1>9, <1>10, <1>11, <1>12, <1>13,
    <1>14, <1>15, <1>16, <1>17, <1>18, <1>19, <1>20, <1>21, <1>22, <1>23, <1>24, <1>25, <1>26,
    <1>27, <1>28, <1>29, <1>30, <1>31, <1>32, <1>33, <1>34, <1>35 DEF Next, Choose, Work,
    Duplicacy, Handler

\* Control.
LEMMA PlacedKept ==
  ASSUME Typed, Placed, [Next]_vars PROVE Placed'
<1> USE DEF request, disk, interrupt, progress
<1>0. CASE UNCHANGED vars BY <1>0 DEF Placed, InPath, Prepared, Restored, Paths, vars
<1>1. ASSUME NEW kind, NEW v \in Version, NEW w \in Workspace, NEW pre, Start(kind, v, w, pre) PROVE Placed'
  <2>1. DOMAIN results' = {} /\ pc' = "asked" /\ exit' = "none" /\ current' = NoPath /\ child' = child
    BY <1>1 DEF Start, NoResults
  <2>2. Restored' = {}
    BY <2>1 DEF Restored, Paths
  <2>3. child = "none"
    BY <1>1 DEF Start, Idle, Placed
  <2> QED
    BY <2>1, <2>2, <2>3 DEF Placed, InPath
<1>2. CASE Refuse
  BY <1>2 DEF Refuse, Leave, Placed, InPath, Prepared, Restored, Paths
<1>3. CASE Plan
  BY <1>3 DEF Plan, Leave, Placed, InPath, Prepared, Restored, Paths
<1>4. CASE ListRevisions
  BY <1>4 DEF ListRevisions, Leave, Placed, InPath, Prepared, Restored, Paths
<1>5. CASE Inspect
  BY <1>5 DEF Inspect, Leave, Placed, InPath, Prepared, Restored, Paths
<1>6. CASE DryRun
  BY <1>6 DEF DryRun, Leave, Placed, InPath, Prepared, Restored, Paths
<1>7. ASSUME NEW n, RunPath(n) PROVE Placed'
  BY <1>7 DEF RunPath, Placed, InPath, Prepared, Restored, Paths, NoResults
<1>8. CASE SelectFull
  BY <1>8 DEF SelectFull, Placed, InPath, Prepared, Restored, Paths, NoResults
<1>9. CASE SelectPaths
  BY <1>9 DEF SelectPaths, Placed, InPath, Prepared, Restored, Paths
<1>10. ASSUME NEW n, Toggle(n) PROVE Placed'
  BY <1>10 DEF Toggle, Placed, InPath, Prepared, Restored, Paths
<1>11. CASE Commit
  BY <1>11 DEF Commit, Placed, InPath, Prepared, Restored, Paths, NoResults
<1>12. CASE Cancel
  BY <1>12 DEF Cancel, Leave, Placed, InPath, Prepared, Restored, Paths
<1>13. CASE Decline
  BY <1>13 DEF Decline, Leave, Placed, InPath, Prepared, Restored, Paths
<1>14. CASE Confirm
  BY <1>14 DEF Confirm, Placed, InPath, Prepared, Restored, Paths
<1>15. ASSUME NEW p \in Paths, BeginPath(p) PROVE Placed'
  BY <1>15 DEF BeginPath, Placed, InPath, Prepared, Restored, Paths
<1>16. CASE PrepareWorkspace
  BY <1>16 DEF PrepareWorkspace, Placed, InPath, Prepared, Restored, Paths, Typed
<1>17. CASE WritePreferences
  BY <1>17, StorageAssumption DEF WritePreferences, Placed, InPath, Prepared, Restored, Paths,
              Typed, Version
<1>18. CASE PrepareFails
  BY <1>18 DEF PrepareFails, Report, ReportError, Placed, InPath, Prepared, Restored, Paths
<1>19. CASE Own
  BY <1>19 DEF Own, Placed, InPath, Prepared, Restored, Paths
<1>20. CASE OwnFails
  BY <1>20 DEF OwnFails, Report, ReportError, Placed, InPath, Prepared, Restored, Paths
<1>21. CASE Exec
  BY <1>21 DEF Exec, Placed, InPath, Prepared, Restored, Paths
<1>22. CASE Return
  BY <1>22 DEF Return, Report, ReportError, Placed, InPath, Prepared, Restored, Paths
<1>23. CASE Succeed
  BY <1>23 DEF Succeed, Report, ReportError, Placed, InPath, Prepared, Restored, Paths
<1>24. CASE OwnershipFails
  BY <1>24 DEF OwnershipFails, Report, ReportError, Placed, InPath, Prepared, Restored, Paths
<1>25. CASE Completed
  BY <1>25 DEF Completed, Placed, InPath, Prepared, Restored, Paths
<1>26. CASE Repair
  BY <1>26 DEF Repair, Leave, Placed, InPath, Prepared, Restored, Paths
<1>27. CASE Exit
  BY <1>27 DEF Exit, Leave, Placed, InPath, Prepared, Restored, Paths
<1>28. ASSUME NEW f \in Listing, DuplicacyWrites(f) PROVE Placed'
  BY <1>28 DEF DuplicacyWrites, Placed, InPath, Prepared, Restored, Paths
<1>29. CASE DuplicacyEnds
  BY <1>29 DEF DuplicacyEnds, Placed, InPath, Prepared, Restored, Paths
<1>30. CASE DuplicacyFails
  BY <1>30 DEF DuplicacyFails, Placed, InPath, Prepared, Restored, Paths
<1>31. CASE Signal
  BY <1>31 DEF Signal, Placed, InPath, Prepared, Restored, Paths, Interruptible
<1>32. CASE Tell
  BY <1>32 DEF Tell, Placed, InPath, Prepared, Restored, Paths, Interruptible
<1>33. CASE CancelContext
  BY <1>33 DEF CancelContext, Placed, InPath, Prepared, Restored, Paths, Interruptible
<1>34. CASE KillChild
  BY <1>34 DEF KillChild, Placed, InPath, Prepared, Restored, Paths
<1>35. CASE Crash
  BY <1>35 DEF Crash, Leave, Placed, InPath, Prepared, Restored, Paths, Idle
<1> QED BY <1>0, <1>1, <1>2, <1>3, <1>4, <1>5, <1>6, <1>7, <1>8, <1>9, <1>10, <1>11, <1>12, <1>13,
    <1>14, <1>15, <1>16, <1>17, <1>18, <1>19, <1>20, <1>21, <1>22, <1>23, <1>24, <1>25, <1>26,
    <1>27, <1>28, <1>29, <1>30, <1>31, <1>32, <1>33, <1>34, <1>35 DEF Next, Choose, Work,
    Duplicacy, Handler

\* A path that fails is the last one.
LEMMA EndedKept ==
  ASSUME Typed, Placed, Ended, [Next]_vars PROVE Ended'
<1> USE DEF request, disk, interrupt, progress
<1>0. CASE UNCHANGED vars BY <1>0 DEF Ended, Unfinished, Restored, Paths, vars
<1>1. ASSUME NEW kind, NEW v \in Version, NEW w \in Workspace, NEW pre, Start(kind, v, w, pre) PROVE Ended'
  BY <1>1 DEF Start, Ended, Unfinished, Restored, Paths, NoResults
<1>2. CASE Refuse
  BY <1>2 DEF Refuse, Leave, Ended, Unfinished, Restored, Paths, Placed
<1>3. CASE Plan
  BY <1>3 DEF Plan, Leave, Ended, Unfinished, Restored, Paths, Placed
<1>4. CASE ListRevisions
  BY <1>4 DEF ListRevisions, Leave, Ended, Unfinished, Restored, Paths, Placed
<1>5. CASE Inspect
  BY <1>5 DEF Inspect, Leave, Ended, Unfinished, Restored, Paths, Placed
<1>6. CASE DryRun
  BY <1>6 DEF DryRun, Leave, Ended, Unfinished, Restored, Paths, Placed
<1>7. ASSUME NEW n, RunPath(n) PROVE Ended'
  BY <1>7 DEF RunPath, Ended, Unfinished, Restored, Paths, NoResults, Placed
<1>8. CASE SelectFull
  BY <1>8 DEF SelectFull, Ended, Unfinished, Restored, Paths, NoResults, Placed
<1>9. CASE SelectPaths
  BY <1>9 DEF SelectPaths, Ended, Unfinished, Restored, Paths
<1>10. ASSUME NEW n, Toggle(n) PROVE Ended'
  BY <1>10 DEF Toggle, Ended, Unfinished, Restored, Paths
<1>11. CASE Commit
  BY <1>11 DEF Commit, Ended, Unfinished, Restored, Paths, NoResults, Placed
<1>12. CASE Cancel
  BY <1>12 DEF Cancel, Leave, Ended, Unfinished, Restored, Paths, Placed
<1>13. CASE Decline
  BY <1>13 DEF Decline, Leave, Ended, Unfinished, Restored, Paths, Placed
<1>14. CASE Confirm
  BY <1>14 DEF Confirm, Ended, Unfinished, Restored, Paths, Placed
<1>15. ASSUME NEW p \in Paths, BeginPath(p) PROVE Ended'
  BY <1>15 DEF BeginPath, Ended, Unfinished, Restored, Paths, Placed
<1>16. CASE PrepareWorkspace
  BY <1>16 DEF PrepareWorkspace, Ended, Unfinished, Restored, Paths
<1>17. CASE WritePreferences
  BY <1>17 DEF WritePreferences, Ended, Unfinished, Restored, Paths
<1>18. CASE PrepareFails
  BY <1>18 DEF PrepareFails, Report, ReportError, Ended, Unfinished, Restored, Paths, Placed,
              InPath, Typed
<1>19. CASE Own
  BY <1>19 DEF Own, Ended, Unfinished, Restored, Paths
<1>20. CASE OwnFails
  BY <1>20 DEF OwnFails, Report, ReportError, Ended, Unfinished, Restored, Paths, Placed, InPath,
              Typed
<1>21. CASE Exec
  BY <1>21 DEF Exec, Ended, Unfinished, Restored, Paths
<1>22. CASE Return
  BY <1>22 DEF Return, Report, ReportError, Ended, Unfinished, Restored, Paths, Placed, InPath,
              Typed
<1>23. CASE Succeed
  BY <1>23 DEF Succeed, Report, ReportError, Ended, Unfinished, Restored, Paths, Placed, InPath,
              Typed
<1>24. CASE OwnershipFails
  BY <1>24 DEF OwnershipFails, Report, ReportError, Ended, Unfinished, Restored, Paths, Placed,
              InPath, Typed
<1>25. CASE Completed
  BY <1>25 DEF Completed, Ended, Unfinished, Restored, Paths
<1>26. CASE Repair
  BY <1>26 DEF Repair, Leave, Ended, Unfinished, Restored, Paths, Placed, Failure
<1>27. CASE Exit
  BY <1>27 DEF Exit, Leave, Ended, Unfinished, Restored, Paths, Placed, Failure
<1>28. ASSUME NEW f \in Listing, DuplicacyWrites(f) PROVE Ended'
  BY <1>28 DEF DuplicacyWrites, Ended, Unfinished, Restored, Paths
<1>29. CASE DuplicacyEnds
  BY <1>29 DEF DuplicacyEnds, Ended, Unfinished, Restored, Paths
<1>30. CASE DuplicacyFails
  BY <1>30 DEF DuplicacyFails, Ended, Unfinished, Restored, Paths
<1>31. CASE Signal
  BY <1>31 DEF Signal, Ended, Unfinished, Restored, Paths
<1>32. CASE Tell
  BY <1>32 DEF Tell, Ended, Unfinished, Restored, Paths
<1>33. CASE CancelContext
  BY <1>33 DEF CancelContext, Ended, Unfinished, Restored, Paths
<1>34. CASE KillChild
  BY <1>34 DEF KillChild, Ended, Unfinished, Restored, Paths
<1>35. CASE Crash
  BY <1>35 DEF Crash, Leave, Ended, Unfinished, Restored, Paths, Placed
<1> QED BY <1>0, <1>1, <1>2, <1>3, <1>4, <1>5, <1>6, <1>7, <1>8, <1>9, <1>10, <1>11, <1>12, <1>13,
    <1>14, <1>15, <1>16, <1>17, <1>18, <1>19, <1>20, <1>21, <1>22, <1>23, <1>24, <1>25, <1>26,
    <1>27, <1>28, <1>29, <1>30, <1>31, <1>32, <1>33, <1>34, <1>35 DEF Next, Choose, Work,
    Duplicacy, Handler

\* Workspaces keep the storage they are named after.
LEMMA NamedKept ==
  ASSUME Typed, Placed, Named, [Next]_vars PROVE Named'
<1> USE DEF request, disk, interrupt, progress
<1>0. CASE UNCHANGED vars BY <1>0 DEF Named, vars
<1>1. ASSUME NEW kind, NEW v \in Version, NEW w \in Workspace, NEW pre, Start(kind, v, w, pre) PROVE Named'
  BY <1>1 DEF Start, Named, Derived, Given, Version
<1>2. CASE Refuse
  BY <1>2 DEF Refuse, Leave, Named
<1>3. CASE Plan
  BY <1>3 DEF Plan, Leave, Named
<1>4. CASE ListRevisions
  BY <1>4 DEF ListRevisions, Leave, Named
<1>5. CASE Inspect
  BY <1>5 DEF Inspect, Leave, Named
<1>6. CASE DryRun
  BY <1>6 DEF DryRun, Leave, Named
<1>7. ASSUME NEW n, RunPath(n) PROVE Named'
  BY <1>7 DEF RunPath, Named
<1>8. CASE SelectFull
  BY <1>8 DEF SelectFull, Named
<1>9. CASE SelectPaths
  BY <1>9 DEF SelectPaths, Named
<1>10. ASSUME NEW n, Toggle(n) PROVE Named'
  BY <1>10 DEF Toggle, Named
<1>11. CASE Commit
  BY <1>11 DEF Commit, Named
<1>12. CASE Cancel
  BY <1>12 DEF Cancel, Leave, Named
<1>13. CASE Decline
  BY <1>13 DEF Decline, Leave, Named
<1>14. CASE Confirm
  BY <1>14 DEF Confirm, Named
<1>15. ASSUME NEW p \in Paths, BeginPath(p) PROVE Named'
  BY <1>15 DEF BeginPath, Named
<1>16. CASE PrepareWorkspace
  BY <1>16 DEF PrepareWorkspace, Named, Typed
<1>17. CASE WritePreferences
  BY <1>17 DEF WritePreferences, Named, Typed, Version
<1>18. CASE PrepareFails
  BY <1>18 DEF PrepareFails, Report, ReportError, Named
<1>19. CASE Own
  BY <1>19 DEF Own, Named
<1>20. CASE OwnFails
  BY <1>20 DEF OwnFails, Report, ReportError, Named
<1>21. CASE Exec
  BY <1>21 DEF Exec, Named
<1>22. CASE Return
  BY <1>22 DEF Return, Report, ReportError, Named
<1>23. CASE Succeed
  BY <1>23 DEF Succeed, Report, ReportError, Named
<1>24. CASE OwnershipFails
  BY <1>24 DEF OwnershipFails, Report, ReportError, Named
<1>25. CASE Completed
  BY <1>25 DEF Completed, Named
<1>26. CASE Repair
  BY <1>26 DEF Repair, Leave, Named
<1>27. CASE Exit
  BY <1>27 DEF Exit, Leave, Named
<1>28. ASSUME NEW f \in Listing, DuplicacyWrites(f) PROVE Named'
  BY <1>28 DEF DuplicacyWrites, Named
<1>29. CASE DuplicacyEnds
  BY <1>29 DEF DuplicacyEnds, Named
<1>30. CASE DuplicacyFails
  BY <1>30 DEF DuplicacyFails, Named
<1>31. CASE Signal
  BY <1>31 DEF Signal, Named
<1>32. CASE Tell
  BY <1>32 DEF Tell, Named
<1>33. CASE CancelContext
  BY <1>33 DEF CancelContext, Named
<1>34. CASE KillChild
  BY <1>34 DEF KillChild, Named
<1>35. CASE Crash
  BY <1>35 DEF Crash, Leave, Named
<1> QED BY <1>0, <1>1, <1>2, <1>3, <1>4, <1>5, <1>6, <1>7, <1>8, <1>9, <1>10, <1>11, <1>12, <1>13,
    <1>14, <1>15, <1>16, <1>17, <1>18, <1>19, <1>20, <1>21, <1>22, <1>23, <1>24, <1>25, <1>26,
    <1>27, <1>28, <1>29, <1>30, <1>31, <1>32, <1>33, <1>34, <1>35 DEF Next, Choose, Work,
    Duplicacy, Handler

\* What was reported stays as it was written.
LEMMA WrittenKept ==
  ASSUME Typed, Placed, Written, [Next]_vars PROVE Written'
<1> USE DEF request, disk, interrupt, progress
<1>0. CASE UNCHANGED vars BY <1>0 DEF Written, Whole, Restorable, Source, Restored, Paths, vars
<1>1. ASSUME NEW kind, NEW v \in Version, NEW w \in Workspace, NEW pre, Start(kind, v, w, pre) PROVE Written'
  <2>1. DOMAIN results' = {} /\ pc' = "asked" /\ exit' = "none" /\ current' = NoPath /\ child' = child
    BY <1>1 DEF Start, NoResults
  <2>2. Paths' = {} /\ Restored' = {}
    BY <2>1 DEF Restored, Paths
  <2>3. child = "none"
    BY <1>1 DEF Start, Idle, Placed
  <2> QED
    BY <2>1, <2>2, <2>3 DEF Written
<1>2. CASE Refuse
  BY <1>2 DEF Refuse, Leave, Written, Whole, Restorable, Source, Restored, Paths, Placed, InPath
<1>3. CASE Plan
  BY <1>3 DEF Plan, Leave, Written, Whole, Restorable, Source, Restored, Paths, Placed, InPath
<1>4. CASE ListRevisions
  BY <1>4 DEF ListRevisions, Leave, Written, Whole, Restorable, Source, Restored, Paths, Placed,
              InPath
<1>5. CASE Inspect
  BY <1>5 DEF Inspect, Leave, Written, Whole, Restorable, Source, Restored, Paths, Placed, InPath
<1>6. CASE DryRun
  BY <1>6 DEF DryRun, Leave, Written, Whole, Restorable, Source, Restored, Paths, Placed, InPath
<1>7. ASSUME NEW n, RunPath(n) PROVE Written'
  BY <1>7 DEF RunPath, Written, Whole, Restorable, Source, Restored, Paths, NoResults, Placed
<1>8. CASE SelectFull
  BY <1>8 DEF SelectFull, Written, Whole, Restorable, Source, Restored, Paths, NoResults, Placed
<1>9. CASE SelectPaths
  BY <1>9 DEF SelectPaths, Written, Whole, Restorable, Source, Restored, Paths, Placed, InPath
<1>10. ASSUME NEW n, Toggle(n) PROVE Written'
  BY <1>10 DEF Toggle, Written, Whole, Restorable, Source, Restored, Paths, Placed, InPath
<1>11. CASE Commit
  BY <1>11 DEF Commit, Written, Whole, Restorable, Source, Restored, Paths, NoResults, Placed
<1>12. CASE Cancel
  BY <1>12 DEF Cancel, Leave, Written, Whole, Restorable, Source, Restored, Paths, Placed, InPath
<1>13. CASE Decline
  BY <1>13 DEF Decline, Leave, Written, Whole, Restorable, Source, Restored, Paths, Placed, InPath
<1>14. CASE Confirm
  BY <1>14 DEF Confirm, Written, Whole, Restorable, Source, Restored, Paths, Placed, InPath
<1>15. ASSUME NEW p \in Paths, BeginPath(p) PROVE Written'
  BY <1>15 DEF BeginPath, Written, Whole, Restorable, Source, Restored, Paths, Placed, InPath
<1>16. CASE PrepareWorkspace
  BY <1>16 DEF PrepareWorkspace, Written, Whole, Restorable, Source, Restored, Paths, Placed,
              InPath, Typed, Prepared
<1>17. CASE WritePreferences
  BY <1>17 DEF WritePreferences, Written, Whole, Restorable, Source, Restored, Paths, Placed,
              InPath, Typed
<1>18. CASE PrepareFails
  BY <1>18 DEF PrepareFails, Report, ReportError, Written, Whole, Restorable, Source, Restored,
              Paths, Placed, InPath, Typed
<1>19. CASE Own
  BY <1>19 DEF Own, Written, Whole, Restorable, Source, Restored, Paths, Placed, InPath
<1>20. CASE OwnFails
  BY <1>20 DEF OwnFails, Report, ReportError, Written, Whole, Restorable, Source, Restored, Paths,
              Placed, InPath, Typed
<1>21. CASE Exec
  BY <1>21 DEF Exec, Written, Whole, Restorable, Source, Restored, Paths, Placed, InPath
<1>22. CASE Return
  BY <1>22 DEF Return, Report, ReportError, Written, Whole, Restorable, Source, Restored, Paths,
              Placed, InPath, Typed
<1>23. CASE Succeed
  BY <1>23 DEF Succeed, Report, ReportError, Written, Whole, Restorable, Source, Restored, Paths,
              Placed, InPath, Typed
<1>24. CASE OwnershipFails
  BY <1>24 DEF OwnershipFails, Report, ReportError, Written, Whole, Restorable, Source, Restored,
              Paths, Placed, InPath, Typed
<1>25. CASE Completed
  BY <1>25 DEF Completed, Written, Whole, Restorable, Source, Restored, Paths, Placed, InPath
<1>26. CASE Repair
  BY <1>26 DEF Repair, Leave, Written, Whole, Restorable, Source, Restored, Paths, Placed, InPath
<1>27. CASE Exit
  BY <1>27 DEF Exit, Leave, Written, Whole, Restorable, Source, Restored, Paths, Placed, InPath
<1>28. ASSUME NEW f \in Listing, DuplicacyWrites(f) PROVE Written'
  <2>1. /\ UNCHANGED <<request, results, current, preferences, pc, child>>
        /\ child = "running" /\ pc = "running"
        /\ files' = [files EXCEPT ![workspace][f] = Source]
    BY <1>28 DEF DuplicacyWrites, Placed
  <2>2. Source' = Source /\ Restored' = Restored /\ Restorable' = Restorable
    BY <2>1 DEF Source, Restored, Paths, Restorable
  <2>3. \A g \in Listing : files'[workspace][g] = IF g = f THEN Source ELSE files[workspace][g]
    BY <2>1, <1>28 DEF Typed
  <2>4. ASSUME NEW p \in Restored PROVE Whole(p)'
    <3>1. Whole(p)
      BY DEF Written
    <3> QED
      BY <2>1, <2>2, <2>3, <3>1 DEF Whole, Matches
  <2> QED
    BY <2>1, <2>2, <2>4 DEF Written
<1>29. CASE DuplicacyEnds
  BY <1>29 DEF DuplicacyEnds, Written, Whole, Restorable, Source, Restored, Paths, Placed, InPath,
              Prepared
<1>30. CASE DuplicacyFails
  BY <1>30 DEF DuplicacyFails, Written, Whole, Restorable, Source, Restored, Paths, Placed, InPath
<1>31. CASE Signal
  BY <1>31 DEF Signal, Written, Whole, Restorable, Source, Restored, Paths, Placed, InPath
<1>32. CASE Tell
  BY <1>32 DEF Tell, Written, Whole, Restorable, Source, Restored, Paths, Placed, InPath
<1>33. CASE CancelContext
  BY <1>33 DEF CancelContext, Written, Whole, Restorable, Source, Restored, Paths, Placed, InPath
<1>34. CASE KillChild
  BY <1>34 DEF KillChild, Written, Whole, Restorable, Source, Restored, Paths, Placed, InPath
<1>35. CASE Crash
  BY <1>35 DEF Crash, Leave, Written, Whole, Restorable, Source, Restored, Paths, Placed, InPath
<1> QED BY <1>0, <1>1, <1>2, <1>3, <1>4, <1>5, <1>6, <1>7, <1>8, <1>9, <1>10, <1>11, <1>12, <1>13,
    <1>14, <1>15, <1>16, <1>17, <1>18, <1>19, <1>20, <1>21, <1>22, <1>23, <1>24, <1>25, <1>26,
    <1>27, <1>28, <1>29, <1>30, <1>31, <1>32, <1>33, <1>34, <1>35 DEF Next, Choose, Work,
    Duplicacy, Handler

\* A path is not the absence of one.
LEMMA PathsAreSome == \A n, b : PathsUnder(n, b) # NoPath
BY DEF PathsUnder, NoPath

\* The tracker counts what is restored, one report behind.
LEMMA TrackedKept ==
  ASSUME Typed, Placed, Ended, Tracked, [Next]_vars PROVE Tracked'
<1> USE DEF request, disk, interrupt, progress
<1>0. CASE UNCHANGED vars
  <2>1. Paths' = Paths /\ Restored' = Restored /\ UNCHANGED <<pc, current, tracker>>
    BY <1>0 DEF Restored, Paths, vars
  <2> QED
    BY <2>1 DEF Tracked, Interruptible
<1>1. ASSUME NEW kind, NEW v \in Version, NEW w \in Workspace, NEW pre, Start(kind, v, w, pre) PROVE Tracked'
  <2>1. DOMAIN results' = {} /\ pc' = "asked" /\ exit' = "none" /\ current' = NoPath /\ child' = child
    BY <1>1 DEF Start, NoResults
  <2>2. Paths' = {} /\ Restored' = {}
    BY <2>1 DEF Restored, Paths
  <2> QED
    BY <1>1, <2>1, <2>2, FS_EmptySet DEF Start, Tracked, Interruptible
<1>2. CASE Refuse
  <2>1. Paths' = Paths /\ pc' \in {"idle", "leave"}
    BY <1>2 DEF Refuse, Leave, Paths
  <2> QED
    BY <2>1 DEF Tracked, Interruptible
<1>3. CASE Plan
  <2>1. Paths' = Paths /\ pc' \in {"idle", "leave"}
    BY <1>3 DEF Plan, Leave, Paths
  <2> QED
    BY <2>1 DEF Tracked, Interruptible
<1>4. CASE ListRevisions
  <2>1. Paths' = Paths /\ pc' \in {"idle", "leave"}
    BY <1>4 DEF ListRevisions, Leave, Paths
  <2> QED
    BY <2>1 DEF Tracked, Interruptible
<1>5. CASE Inspect
  <2>1. Paths' = Paths /\ pc' \in {"idle", "leave"}
    BY <1>5 DEF Inspect, Leave, Paths
  <2> QED
    BY <2>1 DEF Tracked, Interruptible
<1>6. CASE DryRun
  <2>1. Paths' = Paths /\ pc' \in {"idle", "leave"}
    BY <1>6 DEF DryRun, Leave, Paths
  <2> QED
    BY <2>1 DEF Tracked, Interruptible
<1>7. ASSUME NEW n, RunPath(n) PROVE Tracked'
  <2>1. /\ Paths' = {PathsUnder(n, n \notin Listing)} /\ Restored' = {} /\ pc' = "confirm"
        /\ UNCHANGED <<current, tracker>> /\ pc \in {"asked", "picker"}
    BY <1>7 DEF RunPath, NoResults, Paths, Restored
  <2>2. IsFiniteSet({PathsUnder(n, n \notin Listing)}) /\ NoPath \notin {PathsUnder(n, n \notin Listing)}
    BY FS_Singleton, PathsAreSome DEF PathsUnder
  <2> QED
    BY <2>1, <2>2 DEF Tracked, Interruptible
<1>8. CASE SelectFull
  <2>1. /\ Paths' = {PathsUnder(prefix, TRUE)} /\ Restored' = {} /\ pc' = "confirm"
        /\ UNCHANGED <<current, tracker>> /\ pc \in {"asked", "picker"}
    BY <1>8 DEF SelectFull, NoResults, Paths, Restored
  <2>2. IsFiniteSet({PathsUnder(prefix, TRUE)}) /\ NoPath \notin {PathsUnder(prefix, TRUE)}
    BY FS_Singleton, PathsAreSome DEF PathsUnder
  <2> QED
    BY <2>1, <2>2 DEF Tracked, Interruptible
<1>9. CASE SelectPaths
  <2>1. Paths' = Paths /\ Restored' = Restored /\ UNCHANGED <<current, tracker>>
    BY <1>9 DEF SelectPaths, Restored, Paths
  <2> QED
    BY <1>9, <2>1 DEF SelectPaths, Tracked, Interruptible, Placed, InPath
<1>10. ASSUME NEW n, Toggle(n) PROVE Tracked'
  <2>1. Paths' = Paths /\ Restored' = Restored /\ UNCHANGED <<current, tracker>>
    BY <1>10 DEF Toggle, Restored, Paths
  <2> QED
    BY <1>10, <2>1 DEF Toggle, Tracked, Interruptible, Placed, InPath
<1>11. CASE Commit
  <2>1. /\ Paths' = CompileSelection /\ Restored' = {} /\ pc' = "confirm"
        /\ UNCHANGED <<current, tracker>> /\ pc \in {"asked", "picker"}
    BY <1>11 DEF Commit, NoResults, Paths, Restored
  <2>2. IsFiniteSet(CompileSelection) /\ NoPath \notin CompileSelection
    BY CompiledFinite, PathsAreSome DEF CompileSelection, RestoreSelectionRoot
  <2> QED
    BY <2>1, <2>2 DEF Tracked, Interruptible
<1>12. CASE Cancel
  <2>1. Paths' = Paths /\ pc' \in {"idle", "leave"}
    BY <1>12 DEF Cancel, Leave, Paths
  <2> QED
    BY <2>1 DEF Tracked, Interruptible
<1>13. CASE Decline
  <2>1. Paths' = Paths /\ pc' \in {"idle", "leave"}
    BY <1>13 DEF Decline, Leave, Paths
  <2> QED
    BY <2>1 DEF Tracked, Interruptible
<1>14. CASE Confirm
  <2>1. Paths' = Paths /\ Restored' = Restored /\ UNCHANGED <<current, tracker>>
    BY <1>14 DEF Confirm, Restored, Paths
  <2> QED
    BY <1>14, <2>1 DEF Confirm, Tracked, Interruptible, Placed, InPath
<1>15. ASSUME NEW p \in Paths, BeginPath(p) PROVE Tracked'
  <2>1. /\ Paths' = Paths /\ Restored' = Restored /\ current' = p /\ pc' = "prepare"
        /\ tracker' = [completed |-> Cardinality(Restored), total |-> Cardinality(Paths)]
        /\ pc = "begin"
    BY <1>15 DEF BeginPath, Restored, Paths
  <2>2. Cardinality(Restored) \in Nat
    BY FS_CardinalityType, FS_Subset DEF Tracked, Restored
  <2> QED
    BY <2>1, <2>2 DEF Tracked, Interruptible
<1>16. CASE PrepareWorkspace
  <2>1. Paths' = Paths /\ Restored' = Restored /\ UNCHANGED <<current, tracker>>
    BY <1>16 DEF PrepareWorkspace, Restored, Paths
  <2> QED
    BY <1>16, <2>1 DEF PrepareWorkspace, Tracked, Interruptible, Placed, InPath
<1>17. CASE WritePreferences
  <2>1. Paths' = Paths /\ Restored' = Restored /\ UNCHANGED <<current, tracker>>
    BY <1>17 DEF WritePreferences, Restored, Paths
  <2> QED
    BY <1>17, <2>1 DEF WritePreferences, Tracked, Interruptible, Placed, InPath
<1>18. CASE PrepareFails
  <2>1. /\ Paths' = Paths /\ Restored' = Restored /\ UNCHANGED <<current, tracker>>
        /\ pc' \in {"leave", "repair"} /\ pc \in InPath
    BY <1>18 DEF PrepareFails, Report, ReportError, Restored, Paths, Typed, Placed, InPath
  <2> QED
    BY <2>1 DEF Tracked, Interruptible, InPath
<1>19. CASE Own
  <2>1. Paths' = Paths /\ Restored' = Restored /\ UNCHANGED <<current, tracker>>
    BY <1>19 DEF Own, Restored, Paths
  <2> QED
    BY <1>19, <2>1 DEF Own, Tracked, Interruptible, Placed, InPath
<1>20. CASE OwnFails
  <2>1. /\ Paths' = Paths /\ Restored' = Restored /\ UNCHANGED <<current, tracker>>
        /\ pc' \in {"leave", "repair"} /\ pc \in InPath
    BY <1>20 DEF OwnFails, Report, ReportError, Restored, Paths, Typed, Placed, InPath
  <2> QED
    BY <2>1 DEF Tracked, Interruptible, InPath
<1>21. CASE Exec
  <2>1. Paths' = Paths /\ Restored' = Restored /\ UNCHANGED <<current, tracker>>
    BY <1>21 DEF Exec, Restored, Paths
  <2> QED
    BY <1>21, <2>1 DEF Exec, Tracked, Interruptible, Placed, InPath
<1>22. CASE Return
  <2>1. /\ Paths' = Paths /\ Restored' = Restored /\ UNCHANGED <<current, tracker>>
        /\ pc' \in {"returned", "leave", "repair"} /\ pc = "running"
    BY <1>22 DEF Return, Report, ReportError, Restored, Paths, Typed, Placed, InPath
  <2> QED
    BY <2>1 DEF Tracked, Interruptible
<1>23. CASE Succeed
  <2>1. /\ Paths' = Paths /\ UNCHANGED <<current, tracker>>
        /\ pc = "returned" /\ pc' = "next"
        /\ current \in Paths /\ results[current] = "none"
        /\ results' = [results EXCEPT ![current] = "Restored into workspace"]
    BY <1>23 DEF Succeed, Report, Paths, Typed, Placed, InPath
  <2>2. Restored' = Restored \cup {current} /\ current \notin Restored
    BY <2>1 DEF Restored, Paths, Typed
  <2>3. IsFiniteSet(Restored)
    BY FS_Subset DEF Tracked, Restored
  <2>4. Cardinality(Restored') = Cardinality(Restored) + 1 /\ Cardinality(Restored) \in Nat
    BY <2>2, <2>3, FS_AddElement, FS_CardinalityType
  <2>5. current # NoPath /\ tracker = [completed |-> Cardinality(Restored) - 0, total |-> Cardinality(Paths)]
    BY <2>1 DEF Tracked, Interruptible
  <2>6. tracker' = [completed |-> Cardinality(Restored') - 1, total |-> Cardinality(Paths')]
    <3>1. Cardinality(Restored) - 0 = Cardinality(Restored') - 1
      BY <2>4
    <3>2. Paths' = Paths /\ tracker' = tracker
      BY <2>1
    <3> QED
      BY <3>1, <3>2, <2>5
  <2> QED
    BY <2>1, <2>5, <2>6 DEF Tracked, Interruptible
<1>24. CASE OwnershipFails
  <2>1. /\ Paths' = Paths /\ Restored' = Restored /\ UNCHANGED <<current, tracker>>
        /\ pc' \in {"leave", "repair"} /\ pc \in InPath
    BY <1>24 DEF OwnershipFails, Report, ReportError, Restored, Paths, Typed, Placed, InPath
  <2> QED
    BY <2>1 DEF Tracked, Interruptible, InPath
<1>25. CASE Completed
  <2>1. /\ Paths' = Paths /\ Restored' = Restored /\ current' = current
        /\ pc = "next" /\ pc' \in {"begin", "leave", "repair"}
        /\ tracker' = [completed |-> Cardinality(Restored), total |-> Cardinality(Paths)]
    BY <1>25 DEF Completed, Restored, Paths
  <2>2. Cardinality(Restored) \in Nat
    BY FS_CardinalityType, FS_Subset DEF Tracked, Restored
  <2> QED
    BY <2>1, <2>2 DEF Tracked, Interruptible, Placed
<1>26. CASE Repair
  <2>1. Paths' = Paths /\ pc' \in {"idle", "leave"}
    BY <1>26 DEF Repair, Leave, Paths
  <2> QED
    BY <2>1 DEF Tracked, Interruptible
<1>27. CASE Exit
  <2>1. Paths' = Paths /\ pc' \in {"idle", "leave"}
    BY <1>27 DEF Exit, Leave, Paths
  <2> QED
    BY <2>1 DEF Tracked, Interruptible
<1>28. ASSUME NEW f \in Listing, DuplicacyWrites(f) PROVE Tracked'
  <2>1. Paths' = Paths /\ Restored' = Restored /\ UNCHANGED <<current, tracker>>
    BY <1>28 DEF DuplicacyWrites, Restored, Paths
  <2> QED
    BY <1>28, <2>1 DEF DuplicacyWrites, Tracked, Interruptible, Placed, InPath
<1>29. CASE DuplicacyEnds
  <2>1. Paths' = Paths /\ Restored' = Restored /\ UNCHANGED <<current, tracker>>
    BY <1>29 DEF DuplicacyEnds, Restored, Paths
  <2> QED
    BY <1>29, <2>1 DEF DuplicacyEnds, Tracked, Interruptible, Placed, InPath
<1>30. CASE DuplicacyFails
  <2>1. Paths' = Paths /\ Restored' = Restored /\ UNCHANGED <<current, tracker>>
    BY <1>30 DEF DuplicacyFails, Restored, Paths
  <2> QED
    BY <1>30, <2>1 DEF DuplicacyFails, Tracked, Interruptible, Placed, InPath
<1>31. CASE Signal
  <2>1. Paths' = Paths /\ Restored' = Restored /\ UNCHANGED <<current, tracker>>
    BY <1>31 DEF Signal, Restored, Paths
  <2> QED
    BY <1>31, <2>1 DEF Signal, Tracked, Interruptible, Placed, InPath
<1>32. CASE Tell
  <2>1. Paths' = Paths /\ Restored' = Restored /\ UNCHANGED <<current, tracker>>
    BY <1>32 DEF Tell, Restored, Paths
  <2> QED
    BY <1>32, <2>1 DEF Tell, Tracked, Interruptible, Placed, InPath
<1>33. CASE CancelContext
  <2>1. Paths' = Paths /\ Restored' = Restored /\ UNCHANGED <<current, tracker>>
    BY <1>33 DEF CancelContext, Restored, Paths
  <2> QED
    BY <1>33, <2>1 DEF CancelContext, Tracked, Interruptible, Placed, InPath
<1>34. CASE KillChild
  <2>1. Paths' = Paths /\ Restored' = Restored /\ UNCHANGED <<current, tracker>>
    BY <1>34 DEF KillChild, Restored, Paths
  <2> QED
    BY <1>34, <2>1 DEF KillChild, Tracked, Interruptible, Placed, InPath
<1>35. CASE Crash
  <2>1. Paths' = Paths /\ pc' \in {"idle", "leave"}
    BY <1>35 DEF Crash, Leave, Paths
  <2> QED
    BY <2>1 DEF Tracked, Interruptible
<1> QED BY <1>0, <1>1, <1>2, <1>3, <1>4, <1>5, <1>6, <1>7, <1>8, <1>9, <1>10, <1>11, <1>12, <1>13,
    <1>14, <1>15, <1>16, <1>17, <1>18, <1>19, <1>20, <1>21, <1>22, <1>23, <1>24, <1>25, <1>26,
    <1>27, <1>28, <1>29, <1>30, <1>31, <1>32, <1>33, <1>34, <1>35 DEF Next, Choose, Work,
    Duplicacy, Handler

LEMMA InitInv == Init => RestoreInv
<1> SUFFICES ASSUME Init PROVE RestoreInv
  OBVIOUS
<1>1. Paths = {} /\ Restored = {} /\ Unfinished = {}
  BY DEF Init, NoResults, Paths, Restored, Unfinished
<1>2. Typed
  BY DEF Init, NoResults, Typed, Paths, Workspace
<1>3. Placed /\ Ended /\ Written
  BY <1>1 DEF Init, Placed, InPath, Ended, Written
<1>4. Named
  BY DEF Init, Named, Given
<1>5. Tracked
  BY <1>1, FS_EmptySet DEF Init, Tracked, Interruptible
<1> QED
  BY <1>2, <1>3, <1>4, <1>5 DEF RestoreInv

LEMMA NextInv == RestoreInv /\ [Next]_vars => RestoreInv'
BY TypedKept, PlacedKept, EndedKept, NamedKept, WrittenKept, TrackedKept DEF RestoreInv

\* The invariant holds in every behaviour.
THEOREM RestoreInvariant == Spec => []RestoreInv
<1> QED
  BY InitInv, NextInv, PTL DEF Spec

-----------------------------------------------------------------------------
LEMMA ReportFollows == RestoreInv => ReportMatchesWorkspace
<1> SUFFICES ASSUME RestoreInv PROVE ReportMatchesWorkspace
  OBVIOUS
<1>1. ASSUME NEW p \in Restored, NEW f \in Matches(p)
      PROVE  /\ files[workspace][f] = Source
             /\ "storage" \in DOMAIN workspace => files[workspace][f] = asked
  <2>1. files[workspace][f] = Source /\ Restorable
    BY <1>1 DEF RestoreInv, Written, Whole
  <2>2. ASSUME "storage" \in DOMAIN workspace PROVE preferences[workspace] = asked.storage
    BY <2>1, <2>2 DEF RestoreInv, Typed, Named, Restorable
  <2>3. ASSUME preferences[workspace] = asked.storage PROVE Source = asked
    BY <2>3 DEF Source, RestoreInv, Typed, Version
  <2> QED
    BY <2>1, <2>2, <2>3
<1>2. exit = "ok" /\ current # NoPath => Restored = Paths
  BY DEF RestoreInv, Ended
<1>3. Cardinality(Unfinished) <= 1
  <2>1. IsFiniteSet({current}) /\ Cardinality({current}) = 1
    BY FS_Singleton
  <2>2. Unfinished \subseteq {current}
    BY DEF RestoreInv, Ended
  <2>3. Cardinality(Unfinished) <= Cardinality({current})
    BY <2>1, <2>2, FS_Subset
  <2> QED
    BY <2>1, <2>3
<1> QED
  BY <1>1, <1>2, <1>3 DEF ReportMatchesWorkspace, Unfinished

\* Every path reported as restored is on the disk, whole and in the version it
\* was asked in, a success means all of them, and one path at most has failed:
\* restore_command.go, after any failures, signals and crashes.
THEOREM ReportTrue == Spec => []ReportMatchesWorkspace
<1> QED
  BY RestoreInvariant, ReportFollows, PTL

LEMMA TellCounts ==
  ASSUME RestoreInv, [Next]_vars, told' \notin {told, NotTold} PROVE Counted
<1> USE DEF interrupt
<1>1. Tell
  <2> USE DEF Leave, Report, ReportError
  <2>1. CASE UNCHANGED vars
    BY <2>1 DEF vars
  <2>2. CASE Choose
    BY <2>2 DEF Choose, Start, Refuse, Plan, ListRevisions, Inspect, DryRun, RunPath, SelectFull,
                SelectPaths, Toggle, Commit, Cancel, Decline, Confirm
  <2>3. CASE Work
    BY <2>3 DEF Work, BeginPath, PrepareWorkspace, WritePreferences, PrepareFails, Own, OwnFails,
                Exec, Return, Succeed, OwnershipFails, Completed, Repair, Exit
  <2>4. CASE Duplicacy \/ Signal \/ CancelContext \/ KillChild \/ Crash
    BY <2>4 DEF Duplicacy, DuplicacyWrites, DuplicacyEnds, DuplicacyFails, Signal, CancelContext,
                KillChild, Crash
  <2> QED
    BY <2>1, <2>2, <2>3, <2>4 DEF Next, Handler
<1>2. /\ Paths' = Paths /\ Restored' = Restored /\ current' = current
      /\ told' = IF tracker.total = 0 THEN [tracker EXCEPT !.total = 1] ELSE tracker
      /\ Interruptible
  BY <1>1 DEF Tell, progress, Restored, Paths
<1>3. Tracked
  BY DEF RestoreInv
<1>4. IsFiniteSet(Restored) /\ Cardinality(Restored) \in Nat /\ Cardinality(Paths) \in Nat
  BY <1>3, FS_Subset, FS_CardinalityType DEF Tracked, Restored
<1>5. CASE current = NoPath
  <2>1. tracker = [completed |-> 0, total |-> 0] /\ Restored = {}
    BY <1>2, <1>3, <1>5 DEF Tracked
  <2>2. Cardinality(Restored) = 0
    BY <2>1, FS_EmptySet
  <2> QED
    BY <1>2, <1>5, <2>1, <2>2 DEF Counted
<1>6. CASE current # NoPath
  <2>1. /\ current \in Paths
        /\ tracker = [completed |-> Cardinality(Restored) - (IF pc = "next" THEN 1 ELSE 0),
                      total |-> Cardinality(Paths)]
    BY <1>2, <1>3, <1>6 DEF Tracked
  <2>2. Cardinality(Paths) # 0
    BY <2>1, <1>3, FS_EmptySet DEF Tracked
  <2>3. told' = tracker
    BY <1>2, <2>1, <2>2
  <2>4. tracker.completed \in {Cardinality(Restored), Cardinality(Restored) - 1}
    BY <2>1, <1>4
  <2> QED
    BY <1>2, <1>6, <2>1, <2>3, <2>4 DEF Counted
<1> QED
  BY <1>5, <1>6

\* What an interrupted restore prints is true of what was done by then:
\* restore_interrupt.go.
THEOREM MessageTrue == Spec => InterruptMessageTrue
<1>1. RestoreInv /\ [Next]_vars => [told' \notin {told, NotTold} => Counted]_vars
  BY TellCounts
<1> QED
  BY <1>1, RestoreInvariant, PTL DEF Spec, InterruptMessageTrue


-----------------------------------------------------------------------------
(* Paths. *)

Path == Seq(STRING)

\* A path is a prefix of another when it is no longer and has the same names.
LEMMA PrefixIsPointwise ==
  ASSUME NEW p \in Path, NEW q \in Path
  PROVE  IsPrefix(p, q) <=> Len(p) <= Len(q) /\ \A i \in 1 .. Len(p) : p[i] = q[i]
<1>1. CASE Len(p) > Len(q)
  BY <1>1, LenProperties DEF IsPrefix, Path
<1>2. CASE Len(p) <= Len(q)
  <2>1. Len(p) \in Nat /\ Len(q) \in Nat
    BY LenProperties DEF Path
  <2>2. SubSeq(p, 1, Len(p)) = p
    BY SubSeqFull DEF Path
  <2>3. /\ SubSeq(q, 1, Len(p)) \in Seq(STRING) /\ Len(SubSeq(q, 1, Len(p))) = Len(p)
        /\ \A i \in 1 .. Len(p) : SubSeq(q, 1, Len(p))[i] = q[i]
    BY <1>2, <2>1, SubSeqProperties DEF Path
  <2>4. p = SubSeq(q, 1, Len(p)) <=> \A i \in 1 .. Len(p) : p[i] = SubSeq(q, 1, Len(p))[i]
    BY <2>3, SeqEqual DEF Path
  <2> QED
    BY <1>2, <2>2, <2>3, <2>4 DEF IsPrefix
<1> QED
  BY <1>1, <1>2, LenProperties DEF Path

\* The prefix of some length.
LEMMA Cut ==
  ASSUME NEW q \in Path, NEW k \in 0 .. Len(q)
  PROVE  /\ SubSeq(q, 1, k) \in Path /\ Len(SubSeq(q, 1, k)) = k
         /\ IsPrefix(SubSeq(q, 1, k), q)
<1>1. Len(q) \in Nat
  BY LenProperties DEF Path
<1>2. /\ SubSeq(q, 1, k) \in Path /\ Len(SubSeq(q, 1, k)) = k
      /\ \A i \in 1 .. k : SubSeq(q, 1, k)[i] = q[i]
  BY <1>1, SubSeqProperties DEF Path
<1> DEFINE p == SubSeq(q, 1, k)
<1>3. p \in Path /\ Len(p) = k /\ Len(p) <= Len(q) /\ \A i \in 1 .. Len(p) : p[i] = q[i]
  BY <1>1, <1>2
<1> HIDE DEF p
<1>4. IsPrefix(p, q)
  BY <1>3, PrefixIsPointwise
<1> QED
  BY <1>3, <1>4 DEF p

\* Prefixes are ordered, and those of one path by their lengths.
LEMMA PrefixOrder ==
  /\ \A p \in Path : IsPrefix(p, p) /\ IsPrefix(<<>>, p) /\ Len(p) \in Nat
  /\ \A p, q, r \in Path : IsPrefix(p, q) /\ IsPrefix(q, r) => IsPrefix(p, r)
  /\ \A p, q \in Path : IsPrefix(p, q) => /\ Len(p) <= Len(q)
                                          /\ Len(p) = Len(q) => p = q
                                          /\ p = SubSeq(q, 1, Len(p))
  /\ \A p, q, r \in Path : IsPrefix(p, r) /\ IsPrefix(q, r) /\ Len(p) <= Len(q)
                             => IsPrefix(p, q)
<1>1. <<>> \in Path /\ Len(<<>>) = 0
  BY DEF Path
<1>2. \A p \in Path : Len(p) \in Nat
  BY LenProperties DEF Path
<1>3. \A p \in Path : IsPrefix(p, p) /\ IsPrefix(<<>>, p)
  BY <1>1, <1>2, PrefixIsPointwise
<1>4. ASSUME NEW p \in Path, NEW q \in Path, NEW r \in Path, IsPrefix(p, q), IsPrefix(q, r)
      PROVE  IsPrefix(p, r)
  BY <1>2, <1>4, PrefixIsPointwise
<1>5. ASSUME NEW p \in Path, NEW q \in Path, IsPrefix(p, q)
      PROVE  /\ Len(p) <= Len(q)
             /\ Len(p) = Len(q) => p = q
             /\ p = SubSeq(q, 1, Len(p))
  <2>1. Len(p) <= Len(q) /\ \A i \in 1 .. Len(p) : p[i] = q[i]
    BY <1>5, PrefixIsPointwise
  <2>2. Len(p) = Len(q) => p = q
    BY <2>1, SeqEqual DEF Path
  <2>3. p = SubSeq(q, 1, Len(p))
    BY <1>5, SubSeqFull DEF IsPrefix, Path
  <2> QED
    BY <2>1, <2>2, <2>3
<1>6. ASSUME NEW p \in Path, NEW q \in Path, NEW r \in Path,
             IsPrefix(p, r), IsPrefix(q, r), Len(p) <= Len(q)
      PROVE  IsPrefix(p, q)
  BY <1>2, <1>6, PrefixIsPointwise
<1> QED
  BY <1>2, <1>3, <1>4, <1>5, <1>6

\* A set of numbers has a least one.
LEMMA Least ==
  ASSUME NEW T \in SUBSET Nat, T # {}
  PROVE  \E x \in T : \A y \in T : x <= y
<1>1. \A a, b \in Nat : <<a, b>> \in OpToRel(<, Nat) <=> a < b
  BY DEF OpToRel
<1>2. PICK x \in T : \A y \in T : ~(<<y, x>> \in OpToRel(<, Nat))
  BY NatLessThanWellFounded, WFMin
<1>3. ASSUME NEW y \in T PROVE ~(y < x)
  BY <1>1, <1>2, Zenon
<1>4. \A y \in T : x <= y
  BY <1>3
<1> QED
  BY <1>4
-----------------------------------------------------------------------------
(* The tree of the picker. *)

Offered  == FilterPaths(prefix)
Below(n) == {f \in Offered : IsPrefix(n, f)}

\* The mark of a node is told by the files below it that are taken.
Mark(n, S) == IF Below(n) \subseteq S THEN "full"
              ELSE IF Below(n) \intersect S = {} THEN "none" ELSE "partial"

\* What is offered is listed.
LEMMA OfferedPaths == Offered \subseteq Path /\ Offered \subseteq Listing
  BY ListingFinite DEF Offered, FilterPaths, Path

\* The nodes are the prefixes of what is offered.
LEMMA InTree ==
  ASSUME Offered # {}
  PROVE  \A n : n \in Tree <=> n \in Path /\ \E f \in Offered : IsPrefix(n, f)
<1>1. ASSUME NEW f \in Offered, NEW n \in Prefixes(f)
      PROVE  n \in Path /\ IsPrefix(n, f)
  <2>1. PICK l \in 0 .. Len(f) : n = SubSeq(f, 1, l)
    BY <1>1 DEF Prefixes
  <2> QED
    BY <2>1, Cut, OfferedPaths
<1>2. ASSUME NEW n \in Path, NEW f \in Offered, IsPrefix(n, f)
      PROVE  n \in Prefixes(f)
  <2>1. n = SubSeq(f, 1, Len(n)) /\ Len(n) \in 0 .. Len(f)
    BY <1>2, PrefixOrder, OfferedPaths
  <2> QED
    BY <2>1 DEF Prefixes
<1>3. <<>> \in Path /\ \A f \in Offered : IsPrefix(<<>>, f)
  BY PrefixOrder, OfferedPaths DEF Path
<1>4. Tree = {<<>>} \union UNION {Prefixes(f) : f \in Offered}
  BY DEF Tree, BuildTree, Offered
<1> QED
  BY <1>1, <1>2, <1>3, <1>4

\* A file is a leaf, with nothing but itself below it.
LEMMA FileIsLeaf ==
  ASSUME NEW f \in Offered
  PROVE  f \in Tree /\ Below(f) = {f} /\ Children(f) = {} /\ f # <<>>
<1>1. f \in Path /\ f \in Listing /\ f # <<>>
  BY OfferedPaths, ListingAssumption
<1>2. ASSUME NEW g \in Offered, IsPrefix(f, g) PROVE g = f
  BY <1>1, <1>2, OfferedPaths, ListingAssumption DEF IsStrictPrefix
<1>3. f \in Tree /\ IsPrefix(f, f)
  BY <1>1, InTree, PrefixOrder
<1>4. ASSUME NEW m \in Children(f) PROVE FALSE
  <2>1. m \in Path /\ Len(m) = Len(f) + 1 /\ IsPrefix(f, m)
    BY <1>4, InTree DEF Children
  <2>2. PICK g \in Offered : IsPrefix(m, g)
    BY <1>4, InTree DEF Children
  <2>3. g = f
    BY <1>1, <1>2, <2>1, <2>2, PrefixOrder, OfferedPaths
  <2> QED
    BY <1>1, <2>1, <2>2, <2>3, PrefixOrder
<1> QED
  BY <1>1, <1>2, <1>3, <1>4 DEF Below

\* Below a node that is no file there is a child on the way to every file.
LEMMA NextDown ==
  ASSUME NEW n \in Tree, NEW f \in Below(n), f # n
  PROVE  \E c \in Children(n) : f \in Below(c)
<1> DEFINE c == SubSeq(f, 1, Len(n) + 1)
<1>1. f \in Offered /\ f \in Path /\ n \in Path /\ IsPrefix(n, f)
  BY InTree, OfferedPaths DEF Below
<1>2. Len(n) \in Nat /\ Len(f) \in Nat /\ Len(n) < Len(f)
  BY <1>1, PrefixOrder
<1>3. c \in Path /\ Len(c) = Len(n) + 1 /\ IsPrefix(c, f)
  BY <1>1, <1>2, Cut
<1> HIDE DEF c
<1>4. IsPrefix(n, c)
  BY <1>1, <1>2, <1>3, PrefixOrder
<1>5. c \in Tree
  BY <1>1, <1>3, InTree
<1> QED
  BY <1>1, <1>3, <1>4, <1>5 DEF Children, Below

\* What is below a directory is below its children; a node without children is a file.
LEMMA Branches ==
  ASSUME Offered # {}, NEW n \in Tree
  PROVE  /\ Below(n) # {}
         /\ \A c \in Children(n) : c \in Tree /\ Below(c) \subseteq Below(n)
         /\ n \in Offered <=> Children(n) = {}
         /\ n \notin Offered => \A f \in Below(n) : \E c \in Children(n) : f \in Below(c)
<1>1. Below(n) # {}
  BY InTree DEF Below
<1>2. ASSUME NEW c \in Children(n) PROVE c \in Tree /\ Below(c) \subseteq Below(n)
  BY InTree, OfferedPaths, PrefixOrder DEF Children, Below
<1>3. n \notin Offered => \A f \in Below(n) : \E c \in Children(n) : f \in Below(c)
  BY NextDown DEF Below
<1> QED
  BY <1>1, <1>2, <1>3, FileIsLeaf

\* Marks that are right at the children derive the right mark.
LEMMA DeriveIsMark ==
  ASSUME Offered # {}, NEW S \in SUBSET Offered, NEW n \in Tree, NEW m,
         Children(n) # {}, \A c \in Children(n) : m[c] = Mark(c, S)
  PROVE  DeriveSelection(m, n) = Mark(n, S)
<1>1. \A c \in Children(n) : Below(c) # {} /\ Below(c) \subseteq Below(n)
  BY Branches
<1>2. \A f \in Below(n) : \E c \in Children(n) : f \in Below(c)
  BY Branches
<1>3. (\A c \in Children(n) : m[c] = "full") <=> Below(n) \subseteq S
  BY <1>1, <1>2 DEF Mark
<1>4. (\A c \in Children(n) : m[c] = "none") <=> Below(n) \intersect S = {}
  BY <1>1, <1>2 DEF Mark
<1> QED
  BY <1>3, <1>4 DEF DeriveSelection, Mark
-----------------------------------------------------------------------------
(* Marking. *)

\* The recursion of UpdateAncestors, as an equation for a function U.
Walk(U, m, n) ==
  [k \in 0 .. Len(n) |->
     IF k = Len(n) THEN m
     ELSE [U[k + 1] EXCEPT ![SubSeq(n, 1, k)] = DeriveSelection(U[k + 1], SubSeq(n, 1, k))]]

\* The equation has one solution: two that differ would differ at a last step.
LEMMA WalkIsUnique ==
  ASSUME NEW m, NEW n \in Path, NEW U, NEW W, U = Walk(U, m, n), W = Walk(W, m, n)
  PROVE  U[0] = W[0]
<1> DEFINE bad == {d \in 0 .. Len(n) : U[Len(n) - d] # W[Len(n) - d]}
<1>1. Len(n) \in Nat
  BY PrefixOrder
<1>2. ASSUME bad # {} PROVE FALSE
  <2>0. bad \in SUBSET Nat
    BY <1>1
  <2> HIDE DEF bad
  <2>1. PICK d \in bad : \A e \in bad : d <= e
    BY <1>2, <2>0, Least
  <2> USE DEF bad
  <2>2. d \in 0 .. Len(n) /\ U[Len(n) - d] # W[Len(n) - d]
    BY <2>1
  <2>3. d # 0
    BY <1>1, <2>2 DEF Walk
  <2> DEFINE k == Len(n) - d
  <2>4. k \in 0 .. Len(n) /\ k # Len(n) /\ k + 1 = Len(n) - (d - 1)
    BY <1>1, <2>2, <2>3
  <2>5. U[k + 1] = W[k + 1]
    BY <1>1, <2>1, <2>2, <2>3, <2>4
  <2> HIDE DEF bad, k
  <2>6. U[k] = [U[k + 1] EXCEPT ![SubSeq(n, 1, k)]
                                  = DeriveSelection(U[k + 1], SubSeq(n, 1, k))]
    BY <2>4 DEF Walk
  <2>7. W[k] = [W[k + 1] EXCEPT ![SubSeq(n, 1, k)]
                                  = DeriveSelection(W[k + 1], SubSeq(n, 1, k))]
    BY <2>4 DEF Walk
  <2>8. U[k] = W[k]
    BY <2>5, <2>6, <2>7
  <2> QED
    BY <2>2, <2>8 DEF k
<1>3. Len(n) \in 0 .. Len(n) /\ Len(n) - Len(n) = 0
  BY <1>1
<1> QED
  BY <1>2, <1>3

\* UpdateAncestors is what any solution gives at the root.
LEMMA WalkSolved ==
  ASSUME NEW m, NEW n \in Path, NEW W, W = Walk(W, m, n)
  PROVE  UpdateAncestors(m, n) = W[0]
<1> DEFINE Up == CHOOSE U : U = Walk(U, m, n)
<1>1. UpdateAncestors(m, n) = Up[0]
  BY DEF UpdateAncestors, Walk
<1>2. Up = Walk(Up, m, n)
  OBVIOUS
<1> HIDE DEF Up
<1> QED
  BY <1>1, <1>2, WalkIsUnique

\* If every mark is right but those above n, the walk puts these right.
LEMMA WalkMarks ==
  ASSUME Offered # {}, NEW S \in SUBSET Offered, NEW n \in Tree,
         NEW m \in [Tree -> {"none", "partial", "full"}],
         \A x \in Tree : ~IsStrictPrefix(x, n) => m[x] = Mark(x, S)
  PROVE  UpdateAncestors(m, n) = [x \in Tree |-> Mark(x, S)]
<1> DEFINE W == [k \in 0 .. Len(n) |->
                   [x \in Tree |-> IF IsStrictPrefix(x, n) /\ Len(x) >= k
                                     THEN Mark(x, S) ELSE m[x]]]
<1>1. n \in Path /\ Len(n) \in Nat /\ \A x \in Tree : x \in Path /\ Len(x) \in Nat
  BY InTree, PrefixOrder
<1>2. \A x \in Tree : IsStrictPrefix(x, n) => Len(x) < Len(n)
  BY <1>1, PrefixOrder DEF IsStrictPrefix
<1>3. W[Len(n)] = m
  <2>1. \A x \in Tree : ~(IsStrictPrefix(x, n) /\ Len(x) >= Len(n))
    BY <1>1, <1>2
  <2>2. W[Len(n)] = [x \in Tree |-> m[x]]
    BY <1>1, <2>1
  <2> QED
    BY <2>2
<1>4. ASSUME NEW k \in 0 .. Len(n), k # Len(n)
      PROVE  W[k] = [W[k + 1] EXCEPT ![SubSeq(n, 1, k)]
                                       = DeriveSelection(W[k + 1], SubSeq(n, 1, k))]
  <2> DEFINE a == SubSeq(n, 1, k)
  <2>1. k + 1 \in 0 .. Len(n) /\ k \in Nat
    BY <1>1, <1>4
  <2>2. a \in Path /\ Len(a) = k /\ IsPrefix(a, n) /\ a # n
    BY <1>1, <1>4, Cut
  <2>3. SubSeq(n, 1, k + 1) \in Path /\ Len(SubSeq(n, 1, k + 1)) = k + 1
        /\ IsPrefix(SubSeq(n, 1, k + 1), n)
    BY <1>1, <2>1, Cut
  <2> DEFINE b == SubSeq(n, 1, k + 1)
  <2>4. \A x \in Path : IsPrefix(x, n) /\ Len(x) = k => x = a
    BY <1>1, PrefixOrder
  <2> HIDE DEF a, b
  <2>5. a \in Tree /\ b \in Tree
    BY <1>1, <2>2, <2>3, InTree, PrefixOrder, OfferedPaths DEF b
  <2>6. b \in Children(a)
    <3>1. b \in Path /\ Len(b) = k + 1 /\ IsPrefix(b, n)
      BY <2>3 DEF b
    <3>2. Len(a) <= Len(b)
      BY <2>1, <2>2, <3>1
    <3>3. IsPrefix(a, b)
      BY <1>1, <2>2, <3>1, <3>2, PrefixOrder
    <3> QED
      BY <2>2, <2>5, <3>1, <3>3 DEF Children
  <2>7. W[k + 1] = [x \in Tree |-> IF IsStrictPrefix(x, n) /\ Len(x) >= k + 1
                                     THEN Mark(x, S) ELSE m[x]]
    BY <2>1
  <2>8. W[k] = [x \in Tree |-> IF IsStrictPrefix(x, n) /\ Len(x) >= k
                                 THEN Mark(x, S) ELSE m[x]]
    BY <1>4
  <2> DEFINE V == W[k + 1]
  <2> HIDE DEF W
  <2>9. \A c \in Children(a) : c \in Tree /\ Len(c) = k + 1
    BY <2>2 DEF Children
  <2>10. \A c \in Children(a) : V[c] = Mark(c, S)
    BY <1>1, <2>7, <2>9
  <2> HIDE DEF V
  <2>11. DeriveSelection(V, a) = Mark(a, S)
    BY <2>5, <2>6, <2>10, DeriveIsMark
  <2>12. \A x \in Tree : x # a =>
           (IsStrictPrefix(x, n) /\ Len(x) >= k <=> IsStrictPrefix(x, n) /\ Len(x) >= k + 1)
    BY <1>1, <2>1, <2>4 DEF IsStrictPrefix
  <2>13. V = [x \in Tree |-> IF IsStrictPrefix(x, n) /\ Len(x) >= k + 1
                               THEN Mark(x, S) ELSE m[x]]
    BY <2>7 DEF V
  <2>14. [V EXCEPT ![a] = Mark(a, S)]
           = [x \in Tree |-> IF x = a THEN Mark(a, S)
                             ELSE IF IsStrictPrefix(x, n) /\ Len(x) >= k + 1
                                  THEN Mark(x, S) ELSE m[x]]
    BY <2>13
  <2>15. IsStrictPrefix(a, n) /\ Len(a) >= k
    BY <2>1, <2>2 DEF IsStrictPrefix
  <2>16. W[k] = [V EXCEPT ![a] = Mark(a, S)]
    BY <2>8, <2>12, <2>14, <2>15
  <2> QED
    BY <2>11, <2>16 DEF V, a
<1>5. W = Walk(W, m, n)
  <2>1. Walk(W, m, n) = [k \in 0 .. Len(n) |-> W[k]]
    BY <1>3, <1>4 DEF Walk
  <2> QED
    BY <2>1
<1>6. W[0] = [x \in Tree |-> Mark(x, S)]
  BY <1>1
<1> HIDE DEF W
<1> QED
  BY <1>1, <1>5, <1>6, WalkSolved
\* Marked(S): every mark is right for the files S.
Marked(S) == S \subseteq Offered /\ marks = [x \in Tree |-> Mark(x, S)]

\* The files taken after a toggle of the node n.
Toggled(n, S) == IF Below(n) \subseteq S THEN S \ Below(n) ELSE S \union Below(n)

\* The files marked full are the ones the marks are right for.
LEMMA TakenIsMarked ==
  ASSUME NEW S, Marked(S)
  PROVE  Taken = S
<1>1. \A f \in Offered : f \in Tree /\ Below(f) = {f}
  BY FileIsLeaf
<1>2. \A f \in Offered : marks[f] = "full" <=> f \in S
  BY <1>1 DEF Marked, Mark
<1> QED
  BY <1>2 DEF Taken, Marked, Offered

\* A toggle marks the branch, and the walk up what is above it.
LEMMA ToggleMarks ==
  ASSUME Offered # {}, NEW S, Marked(S), NEW n \in Tree, ToggleSelection(n)
  PROVE  /\ Toggled(n, S) \subseteq Offered
         /\ marks' = [x \in Tree |-> Mark(x, Toggled(n, S))]
<1> DEFINE target == IF marks[n] = "full" THEN "none" ELSE "full"
           R == Toggled(n, S)
           m == SetSelectionRecursive(n, target)
<1>1. R \in SUBSET Offered
  BY DEF Toggled, Marked, Below
<1>2. marks[n] = "full" <=> Below(n) \subseteq S
  BY DEF Marked, Mark
<1>3. n \in Path /\ \A x \in Tree : x \in Path
  BY InTree
<1>4. m = [x \in Tree |-> IF IsPrefix(n, x) THEN target ELSE marks[x]]
  BY DEF SetSelectionRecursive
<1>5. m \in [Tree -> {"none", "partial", "full"}]
  BY <1>4 DEF Marked, Mark
<1>6. ASSUME NEW x \in Tree, IsPrefix(n, x) PROVE m[x] = Mark(x, R)
  <2>1. Below(x) \subseteq Below(n) /\ Below(x) # {}
    BY <1>3, <1>6, PrefixOrder, OfferedPaths, Branches DEF Below
  <2>2. m[x] = target
    BY <1>4, <1>6
  <2> QED
    BY <1>2, <2>1, <2>2 DEF Mark, Toggled
<1>7. ASSUME NEW x \in Tree, ~IsPrefix(n, x), ~IsPrefix(x, n) PROVE m[x] = Mark(x, R)
  <2>1. ASSUME NEW f \in Below(x) PROVE f \notin Below(n)
    <3>1. Len(n) <= Len(x) \/ Len(x) <= Len(n)
      BY <1>3, PrefixOrder
    <3> QED
      BY <1>3, <1>7, <2>1, <3>1, PrefixOrder, OfferedPaths DEF Below
  <2>2. m[x] = Mark(x, S)
    BY <1>4, <1>7 DEF Marked
  <2> QED
    BY <2>1, <2>2 DEF Mark, Toggled
<1>8. ASSUME NEW x \in Tree, ~IsStrictPrefix(x, n) PROVE m[x] = Mark(x, R)
  <2>1. IsPrefix(n, x) \/ ~IsPrefix(x, n)
    BY <1>3, <1>8, PrefixOrder DEF IsStrictPrefix
  <2> QED
    BY <1>6, <1>7, <2>1
<1> HIDE DEF R, m
<1>9. UpdateAncestors(m, n) = [x \in Tree |-> Mark(x, R)]
  BY <1>1, <1>5, <1>8, WalkMarks
<1>10. marks' = UpdateAncestors(m, n)
  BY DEF ToggleSelection, m
<1> QED
  BY <1>1, <1>9, <1>10 DEF R

-----------------------------------------------------------------------------
(* Compiling. *)

\* The first full mark on the way to a file that is taken has partial ones above it.
LEMMA FirstFull ==
  ASSUME Offered # {}, NEW S, Marked(S), NEW f \in S
  PROVE  \E n \in Tree : /\ f \in Below(n) /\ marks[n] = "full"
                         /\ \A k \in 0 .. Len(n) - 1 : marks[SubSeq(n, 1, k)] = "partial"
<1> DEFINE full == {k \in 0 .. Len(f) : marks[SubSeq(f, 1, k)] = "full"}
<1>1. f \in Offered /\ f \in Path /\ Len(f) \in Nat
  BY OfferedPaths, PrefixOrder DEF Marked
<1>2. SubSeq(f, 1, Len(f)) = f /\ Len(f) \in 0 .. Len(f)
  BY <1>1, PrefixOrder
<1>3. marks[f] = "full"
  BY <1>1, FileIsLeaf DEF Marked, Mark
<1>4. full \in SUBSET Nat /\ Len(f) \in full
  <2>1. marks[SubSeq(f, 1, Len(f))] = "full"
    BY <1>2, <1>3
  <2>2. Len(f) \in full
    BY <1>2, <2>1
  <2>3. full \in SUBSET Nat
    BY <1>1
  <2> QED
    BY <2>2, <2>3
<1> HIDE DEF full
<1>5. PICK l \in full : \A k \in full : l <= k
  BY <1>4, Least
<1> DEFINE n == SubSeq(f, 1, l)
<1>6. l \in 0 .. Len(f) /\ marks[n] = "full"
  BY <1>5 DEF full
<1>7. n \in Path /\ Len(n) = l /\ IsPrefix(n, f)
  BY <1>1, <1>6, Cut
<1>8. n \in Tree /\ f \in Below(n)
  BY <1>1, <1>7, InTree DEF Below
<1>9. ASSUME NEW k \in 0 .. Len(n) - 1 PROVE marks[SubSeq(n, 1, k)] = "partial"
  <2> DEFINE a == SubSeq(f, 1, k)
  <2>1. k \in 0 .. Len(f) /\ k < l
    BY <1>1, <1>6, <1>7, <1>9
  <2>2. a \in Path /\ Len(a) = k /\ IsPrefix(a, f)
    BY <1>1, <2>1, Cut
  <2>3. IsPrefix(a, n) /\ a = SubSeq(n, 1, k)
    <3> HIDE DEF a, n
    <3>1. Len(a) <= Len(n)
      BY <1>6, <1>7, <2>1, <2>2
    <3>2. IsPrefix(a, n)
      BY <1>1, <1>7, <2>2, <3>1, PrefixOrder
    <3> QED
      BY <1>7, <2>2, <3>2, PrefixOrder
  <2>4. marks[a] # "full"
    BY <1>1, <1>5, <1>6, <2>1 DEF full
  <2> HIDE DEF a, n
  <2>5. a \in Tree /\ f \in Below(a)
    BY <1>1, <2>2, InTree DEF Below
  <2>6. marks[a] # "none"
    BY <2>5 DEF Marked, Mark
  <2>7. marks[a] = "partial"
    BY <2>4, <2>5, <2>6 DEF Marked, Mark
  <2> QED
    BY <2>3, <2>7
<1> HIDE DEF n
<1> QED
  BY <1>6, <1>8, <1>9

\* The pattern of a node whose branch is taken, and not all of the offer with it,
\* restores that branch: nothing outside the offer is below it.
LEMMA NodeMatches ==
  ASSUME prefix \in Path, Offered # {}, NEW S, Marked(S), marks[<<>>] # "full",
         NEW n \in Tree, marks[n] = "full"
  PROVE  Matches(PathsUnder(n, IsDir(n))) = Below(n) /\ Below(n) \subseteq S /\ Below(n) # {}
<1>1. <<>> \in Tree /\ Below(<<>>) = Offered
  <2>1. <<>> \in Path
    BY DEF Path
  <2> QED
    BY <2>1, InTree, PrefixOrder, OfferedPaths DEF Below
<1>2. Below(n) \subseteq S /\ Below(n) # {} /\ n # <<>> /\ n \in Path
  BY Branches, InTree DEF Marked, Mark
<1>3. Below(n) # Offered
  BY <1>1, <1>2 DEF Marked, Mark
<1>4. IsPrefix(prefix, n)
  <2>1. PICK f \in Offered : f \in Path /\ IsPrefix(n, f) /\ IsPrefix(prefix, f)
    BY InTree, OfferedPaths DEF Offered, FilterPaths
  <2>2. ASSUME IsPrefix(n, prefix) PROVE FALSE
    <3>1. \A g \in Offered : IsPrefix(n, g)
      BY <1>2, <2>2, OfferedPaths, PrefixOrder DEF Offered, FilterPaths
    <3> QED
      BY <1>3, <3>1 DEF Below
  <2>3. Len(n) <= Len(prefix) \/ Len(prefix) <= Len(n)
    BY <1>2, PrefixOrder
  <2> QED
    BY <1>2, <2>1, <2>2, <2>3, PrefixOrder
<1>5. \A f \in Listing : IsPrefix(n, f) => f \in Offered
  BY <1>2, <1>4, PrefixOrder, ListingFinite DEF Offered, FilterPaths, Path
<1>6. Below(n) = {f \in Listing : IsPrefix(n, f)}
  BY <1>5, OfferedPaths DEF Below
<1>7. CASE n \in Offered
  <2>1. ~IsDir(n) /\ Below(n) = {n} /\ n \in Listing
    BY <1>2, <1>7, FileIsLeaf, OfferedPaths DEF IsDir
  <2> QED
    BY <1>2, <2>1 DEF Matches, PathsUnder
<1>8. CASE n \notin Offered
  <2>1. IsDir(n) /\ n \notin Below(n)
    BY <1>8, Branches DEF IsDir, Below
  <2> QED
    BY <1>2, <1>6, <2>1 DEF Matches, PathsUnder, IsStrictPrefix
<1> QED
  BY <1>7, <1>8

\* The root's pattern restores all of the offer.
LEMMA RootMatches ==
  ASSUME prefix \in Path, Offered # {}
  PROVE  Matches(RestoreSelectionRoot(prefix)) = Offered
<1>1. CASE prefix \in Offered
  <2>1. Offered = {prefix} /\ prefix \in Listing
    <3>1. ASSUME NEW f \in Offered PROVE f = prefix
      BY <1>1, <3>1, OfferedPaths, ListingAssumption DEF Offered, FilterPaths, IsStrictPrefix
    <3> QED
      BY <1>1, <3>1, OfferedPaths
  <2> QED
    BY <1>1, <2>1 DEF Matches, RestoreSelectionRoot, PathsUnder, Offered
<1>2. CASE prefix \notin Offered
  <2>1. Offered = {f \in Listing : IsStrictPrefix(prefix, f)}
    BY <1>2 DEF Offered, FilterPaths, IsStrictPrefix
  <2> QED
    BY <1>2, <2>1 DEF Matches, RestoreSelectionRoot, PathsUnder, Offered
<1> QED
  BY <1>1, <1>2

\* What is compiled restores what is taken, and is something only if something is.
LEMMA CompiledIsTaken ==
  ASSUME prefix \in Path, Offered # {}, NEW S, Marked(S)
  PROVE  /\ UNION {Matches(p) : p \in CompileSelection} = S
         /\ CompileSelection # {} => S # {}
<1>1. CASE marks[<<>>] = "full"
  <2>1. <<>> \in Tree /\ Below(<<>>) = Offered
    <3>1. <<>> \in Path
      BY DEF Path
    <3> QED
      BY <3>1, InTree, PrefixOrder, OfferedPaths DEF Below
  <2>2. S = Offered
    BY <1>1, <2>1 DEF Marked, Mark
  <2>3. CompileSelection = {RestoreSelectionRoot(prefix)}
    BY <1>1 DEF CompileSelection
  <2> QED
    BY <2>2, <2>3, RootMatches
<1>2. CASE marks[<<>>] # "full"
  <2> DEFINE taken == {m \in Tree : /\ marks[m] = "full"
                                    /\ \A k \in 0 .. Len(m) - 1 :
                                         marks[SubSeq(m, 1, k)] = "partial"}
  <2>1. CompileSelection = {PathsUnder(n, IsDir(n)) : n \in taken}
    BY <1>2 DEF CompileSelection
  <2>2. \A n \in taken : /\ Matches(PathsUnder(n, IsDir(n))) = Below(n)
                         /\ Below(n) \subseteq S /\ Below(n) # {}
    BY <1>2, NodeMatches
  <2>3. \A f \in S : \E n \in taken : f \in Below(n)
    BY FirstFull
  <2> HIDE DEF taken
  <2> QED
    BY <2>1, <2>2, <2>3
<1> QED
  BY <1>1, <1>2
-----------------------------------------------------------------------------
(* The picker in the restore commands. *)

\* While the picker is on the screen every mark is right for the files taken.
PickInv ==
  /\ prefix \in Path
  /\ pc = "asked" => marks = Blank(prefix)
  /\ pc = "picker" => command = "select" /\ Offered # {} /\ Marked(Taken)

\* Nothing is taken of a blank tree.
LEMMA BlankIsMarked ==
  ASSUME Offered # {}, marks = Blank(prefix)
  PROVE  Marked(Taken) /\ Taken = {}
<1>1. marks = [n \in Tree |-> "none"]
  BY DEF Blank, Tree
<1>2. \A n \in Tree : Below(n) # {}
  BY Branches
<1>3. Marked({})
  BY <1>1, <1>2 DEF Marked, Mark
<1> QED
  BY <1>3, TakenIsMarked

\* One toggle keeps the marks right, for the files it takes or drops.
LEMMA ToggleStep ==
  ASSUME PickInv, pc = "picker", NEW n \in Tree, ToggleSelection(n)
  PROVE  /\ Taken' = Toggled(n, Taken)
         /\ Marked(Taken)' /\ Offered' = Offered
<1>1. Offered # {} /\ Marked(Taken)
  BY DEF PickInv
<1> DEFINE R == Toggled(n, Taken)
<1>2. R \subseteq Offered /\ marks' = [x \in Tree |-> Mark(x, R)]
  BY <1>1, ToggleMarks
<1>3. Offered' = Offered /\ Tree' = Tree
  BY DEF ToggleSelection, Offered, Tree
<1>4. \A f \in Offered : f \in Tree /\ Below(f) = {f}
  BY FileIsLeaf
<1> HIDE DEF R
<1>5. \A f \in Offered : marks'[f] = "full" <=> f \in R
  BY <1>2, <1>4 DEF Mark
<1>6. Taken' = R
  BY <1>2, <1>3, <1>5 DEF Taken, Offered
<1>7. \A x, Z : Mark(x, Z)' = Mark(x, Z)
  BY <1>3 DEF Mark, Below
<1>8. Marked(Taken)'
  BY <1>2, <1>3, <1>6, <1>7 DEF Marked
<1> QED
  BY <1>3, <1>6, <1>8 DEF R
\* The steps after the confirmation, and those before the picker, leave it alone.
LEMMA StepsAroundPicker ==
  ASSUME [Next]_vars
  PROVE  \/ UNCHANGED <<picker, command, results, pc>>
         \/ \E v \in Version, w \in Workspace :
              \/ \E kind \in {"plan", "list-revisions", "run"} : Start(kind, v, w, <<>>)
              \/ \E pre \in PathPrefixes : Start("select", v, w, pre)
         \/ \E n \in BuildTree(Listing) : RunPath(n)
         \/ SelectFull \/ SelectPaths \/ (\E n \in Tree : Toggle(n)) \/ Commit \/ Confirm
         \/ pc \notin {"picker", "confirm"} /\ pc' \notin {"asked", "picker", "confirm"}
              /\ UNCHANGED <<prefix, command>>
         \/ pc # "idle" /\ pc' = "idle" /\ prefix' = <<>> /\ UNCHANGED command
<1>1. CASE UNCHANGED vars
  BY <1>1 DEF vars, picker, request, progress
<1>2. CASE Refuse \/ Plan \/ ListRevisions \/ Inspect \/ DryRun \/ Cancel \/ Decline \/ Exit \/ Crash
  BY <1>2 DEF Refuse, Plan, ListRevisions, Inspect, DryRun, Cancel, Decline, Exit, Crash, Leave,
              Idle, request
<1>3. CASE (\E p \in Paths : BeginPath(p)) \/ PrepareWorkspace \/ WritePreferences \/ PrepareFails
           \/ Own \/ OwnFails \/ Exec
  BY <1>3 DEF BeginPath, PrepareWorkspace, WritePreferences, PrepareFails, Own, OwnFails, Exec,
              Report, ReportError, picker, request
<1>4. CASE Return \/ Succeed \/ OwnershipFails \/ Completed
  BY <1>4 DEF Return, Succeed, OwnershipFails, Completed, Report, ReportError, picker, request
<1>5. CASE Repair
  BY <1>5 DEF Repair, Leave, picker, request
<1>6. CASE Duplicacy \/ Signal \/ Handler \/ KillChild
  BY <1>6 DEF Duplicacy, DuplicacyWrites, DuplicacyEnds, DuplicacyFails, Signal, Handler, Tell,
              CancelContext, KillChild, picker, request, progress
<1> QED
  BY <1>1, <1>2, <1>3, <1>4, <1>5, <1>6 DEF Next, Choose, Work

\* Each step keeps the marks right while the picker is on the screen.
LEMMA PickStep ==
  ASSUME PickInv, [Next]_vars
  PROVE  PickInv'
<1>1. ASSUME pc' \notin {"asked", "picker"}, prefix' \in Path PROVE PickInv'
  BY <1>1 DEF PickInv
<1>2. <<>> \in Path /\ PathPrefixes \subseteq Path
  BY PrefixesAssumption DEF Path
<1>3. ASSUME UNCHANGED <<prefix, marks>>
      PROVE  /\ Offered' = Offered /\ Taken' = Taken
             /\ Marked(Taken)' = Marked(Taken) /\ Blank(prefix)' = Blank(prefix)
  BY <1>3 DEF Offered, Taken, Marked, Mark, Below, Tree, Blank
<1>4. CASE UNCHANGED <<picker, command, results, pc>>
  BY <1>3, <1>4 DEF PickInv, picker
<1>5. ASSUME NEW kind, NEW v, NEW w, NEW pre \in Path, Start(kind, v, w, pre) PROVE PickInv'
  <2>1. prefix' = pre /\ marks' = Blank(pre) /\ pc' = "asked"
    BY <1>5 DEF Start
  <2> QED
    BY <2>1 DEF PickInv, Blank
<1>6. CASE \/ \E n \in BuildTree(Listing) : RunPath(n)
           \/ SelectFull \/ Commit \/ Confirm
  BY <1>1, <1>6 DEF RunPath, SelectFull, Commit, Confirm, picker, PickInv
<1>7. CASE SelectPaths
  <2>1. /\ pc' = "picker" /\ UNCHANGED <<prefix, marks, command>>
        /\ pc = "asked" /\ command = "select" /\ Offered # {}
    BY <1>7 DEF SelectPaths, picker, request, Offered
  <2>2. Marked(Taken)
    BY <2>1, BlankIsMarked DEF PickInv
  <2> QED
    BY <1>3, <2>1, <2>2 DEF PickInv
<1>8. ASSUME NEW n \in Tree, Toggle(n) PROVE PickInv'
  <2>1. pc = "picker" /\ ToggleSelection(n) /\ UNCHANGED <<pc, command, prefix>>
    BY <1>8 DEF Toggle, ToggleSelection, request
  <2> QED
    BY <2>1, ToggleStep DEF PickInv
<1>9. CASE pc \notin {"picker", "confirm"} /\ pc' \notin {"asked", "picker", "confirm"}
             /\ UNCHANGED <<prefix, command>>
  BY <1>1, <1>9 DEF PickInv
<1>10. CASE pc # "idle" /\ pc' = "idle" /\ prefix' = <<>> /\ UNCHANGED command
  BY <1>1, <1>2, <1>10
<1> QED
  BY <1>2, <1>4, <1>5, <1>6, <1>7, <1>8, <1>9, <1>10, StepsAroundPicker

\* What Selection sees of a restore command.
ShownOffer   == IF pc = "picker" THEN FilterPaths(prefix) ELSE {}
ShownChoice  == IF pc = "picker" THEN Taken ELSE {}
ShownOutcome == IF pc = "confirm" /\ command = "select"
                  THEN UNION {Matches(p) : p \in Paths} ELSE {}
ShownVars    == <<pc = "picker", ShownOffer, ShownChoice, ShownOutcome>>

\* A whole branch is asked for: the prefix names a directory, or nothing at all.
LEMMA FullStep ==
  ASSUME PickInv, SelectFull
  PROVE  Shown!SelectionNext \/ UNCHANGED ShownVars
<1> DEFINE all == Matches(PathsUnder(prefix, TRUE))
<1>1. pc = "asked" /\ command = "select" /\ pc' = "confirm" /\ command' = command
  BY DEF SelectFull, request
<1>2. Paths' = {PathsUnder(prefix, TRUE)}
  BY DEF SelectFull, NoResults, Paths
<1>3. ShownOutcome = {} /\ ShownOutcome' = all
  BY <1>1, <1>2 DEF ShownOutcome
<1>4. UNCHANGED <<pc = "picker", ShownOffer, ShownChoice>>
  BY <1>1 DEF ShownOffer, ShownChoice
<1>5. CASE all = {}
  BY <1>3, <1>4, <1>5 DEF ShownVars
<1>6. CASE all # {}
  <2>1. PICK f \in Listing : IsStrictPrefix(prefix, f)
    BY <1>6 DEF Matches, PathsUnder
  <2>2. f \in Path /\ prefix \in Path
    BY ListingFinite DEF PickInv, Path
  <2>3. prefix = SubSeq(f, 1, Len(prefix)) /\ Len(prefix) \in 0 .. Len(f)
    BY <2>1, <2>2, PrefixOrder DEF IsStrictPrefix
  <2>4. prefix \notin Listing
    BY <2>1, ListingAssumption
  <2>5. all = {g \in Listing : IsPrefix(prefix, g)}
    BY <2>4 DEF Matches, PathsUnder, IsStrictPrefix
  <2>6. Shown!Everything(prefix)
    <3>1. all = {g \in Listing : Shown!IsPrefix(prefix, g)}
      BY <2>5 DEF IsPrefix, Shown!IsPrefix
    <3> HIDE DEF all
    <3> QED
      BY <1>1, <1>3, <1>4, <3>1 DEF Shown!Everything, ShownOffer, ShownChoice, ShownOutcome
  <2> HIDE DEF all
  <2>7. \E g \in Listing : \E k \in 0 .. Len(g) : Shown!Everything(SubSeq(g, 1, k))
    BY <2>3, <2>6
  <2> QED
    BY <2>7 DEF Shown!SelectionNext
<1> QED
  BY <1>5, <1>6

\* A toggle flips a branch of what is offered.
LEMMA FlipStep ==
  ASSUME PickInv, NEW n \in Tree, Toggle(n)
  PROVE  Shown!SelectionNext
<1>1. pc = "picker" /\ ToggleSelection(n) /\ UNCHANGED <<pc, command, prefix>>
  BY DEF Toggle, ToggleSelection, request
<1>2. Taken' = Toggled(n, Taken) /\ Offered # {}
  BY <1>1, ToggleStep DEF PickInv
<1>3. Shown!Branch(n) = Below(n)
  BY <1>1 DEF Shown!Branch, Shown!IsPrefix, IsPrefix, Below, Offered
<1>4. Shown!Flip(n)
  BY <1>1, <1>2, <1>3 DEF Shown!Flip, Toggled
<1>5. PICK f \in Offered : f \in Listing /\ f \in Path /\ n \in Path /\ IsPrefix(n, f)
  BY <1>2, InTree, OfferedPaths
<1>6. n = SubSeq(f, 1, Len(n)) /\ Len(n) \in 0 .. Len(f)
  BY <1>5, PrefixOrder
<1>7. \E g \in Listing : \E k \in 0 .. Len(g) : Shown!Flip(SubSeq(g, 1, k))
  BY <1>4, <1>5, <1>6
<1> QED
  BY <1>7 DEF Shown!SelectionNext

\* What is committed is what was taken.
LEMMA CommitStep ==
  ASSUME PickInv, Commit
  PROVE  Shown!SelectionNext
<1>1. pc = "picker" /\ pc' = "confirm" /\ command' = command /\ command = "select"
  BY DEF Commit, PickInv, request
<1>2. Paths' = CompileSelection /\ CompileSelection # {}
  BY DEF Commit, NoResults, Paths
<1>3. UNION {Matches(p) : p \in CompileSelection} = Taken /\ Taken # {}
  BY <1>1, <1>2, CompiledIsTaken DEF PickInv
<1>4. Shown!Close(Taken) /\ Taken # {}
  BY <1>1, <1>2, <1>3 DEF Shown!Close
<1> QED
  BY <1>1, <1>4 DEF Shown!SelectionNext

\* Every step of a restore command is a step of the selection, or none.
LEMMA SelectionStep ==
  ASSUME PickInv, [Next]_vars
  PROVE  Shown!SelectionNext \/ UNCHANGED ShownVars
<1>1. CASE UNCHANGED <<picker, command, results, pc>>
  BY <1>1 DEF ShownVars, ShownOffer, ShownChoice, ShownOutcome, Taken, Paths, picker
<1>2. ASSUME pc \notin {"picker", "confirm"}, pc' \notin {"picker", "confirm"}
      PROVE  UNCHANGED ShownVars
  BY <1>2 DEF ShownVars, ShownOffer, ShownChoice, ShownOutcome
<1>3. ASSUME pc = "confirm", pc' \notin {"picker", "confirm"}
      PROVE  Shown!Leave
  BY <1>3 DEF Shown!Leave
<1>4. ASSUME pc = "picker", pc' \notin {"picker", "confirm"}
      PROVE  Shown!Close({})
  BY <1>4 DEF Shown!Close
<1>5. ASSUME NEW kind, NEW v, NEW w, NEW pre, Start(kind, v, w, pre) PROVE UNCHANGED ShownVars
  BY <1>2, <1>5 DEF Start, Idle
<1>6. ASSUME NEW n, RunPath(n) PROVE UNCHANGED ShownVars
  BY <1>6 DEF RunPath, request, ShownVars, ShownOffer, ShownChoice, ShownOutcome
<1>7. CASE SelectPaths
  <2>1. /\ pc = "asked" /\ pc' = "picker" /\ UNCHANGED <<prefix, marks>>
        /\ FilterPaths(prefix) # {}
    BY <1>7 DEF SelectPaths, picker
  <2>2. Taken' = {} /\ FilterPaths(prefix) \subseteq Listing
    BY <2>1, BlankIsMarked DEF PickInv, Offered, Taken, FilterPaths
  <2>3. Shown!Open
    BY <2>1, <2>2 DEF Shown!Open
  <2> QED
    BY <2>3 DEF Shown!SelectionNext
<1>8. CASE Confirm
  BY <1>3, <1>8 DEF Confirm, Shown!SelectionNext
<1>9. CASE pc # "idle" /\ pc' = "idle"
  BY <1>2, <1>3, <1>4, <1>9 DEF Shown!SelectionNext
<1> QED
  BY <1>1, <1>2, <1>5, <1>6, <1>7, <1>8, <1>9, FullStep, FlipStep, CommitStep, StepsAroundPicker

\* Picker and compiled paths implement the selection: space takes or drops exactly a
\* branch, and what is confirmed restores exactly what was taken.
THEOREM PickerRefines == Spec => RefinesSelection
<1>1. Init => PickInv
  BY DEF Init, PickInv, Path
<1>2. PickInv /\ [Next]_vars => PickInv'
  BY PickStep
<1>3. Init => Shown!SelectionInit
  BY DEF Init, Shown!SelectionInit
<1>4. PickInv /\ [Next]_vars
        => [Shown!SelectionNext]_<<pc = "picker",
                                   IF pc = "picker" THEN FilterPaths(prefix) ELSE {},
                                   IF pc = "picker" THEN Taken ELSE {},
                                   IF pc = "confirm" /\ command = "select"
                                     THEN UNION {Matches(p) : p \in Paths} ELSE {}>>
  BY SelectionStep DEF ShownVars, ShownOffer, ShownChoice, ShownOutcome
<1> QED
  BY <1>1, <1>2, <1>3, <1>4, PTL DEF Spec, RefinesSelection, Shown!SelectionSpec
=============================================================================
