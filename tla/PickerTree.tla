----------------------------- MODULE PickerTree -----------------------------
(***************************************************************************)
(* The tree of internal/restorepicker: built from the file listing of a    *)
(* revision, marked by the operator, compiled to the paths "duplicacy      *)
(* restore" is given.  A path is the sequence of its names, so a node is a *)
(* prefix of an offered path and the root is <<>>.                         *)
(***************************************************************************)
EXTENDS Naturals, FiniteSets, SequencesExt

CONSTANTS
  Output,       \* the lines "duplicacy list -files" prints for a revision
  PathPrefixes  \* the values of --path-prefix; <<>> is no prefix

\* A line is a row of a file, with or without a digest, a path alone, or
\* status and summary text, which has no path.
ASSUME OutputAssumption ==
  /\ IsFiniteSet(Output)
  /\ \A line \in Output : /\ line.kind \in {"row", "digest", "plain", "status"}
                           /\ line.path \in Seq(STRING)

ParseListFilesOutput(lines) ==
  {line.path : line \in {l \in lines : l.kind # "status"}}

\* A prefix is a path.
ASSUME PrefixesAssumption == PathPrefixes \subseteq Seq(STRING)

Listing == ParseListFilesOutput(Output)

ASSUME ListingAssumption ==
  \A f, g \in Listing : f # <<>> /\ ~IsStrictPrefix(f, g)

VARIABLES
  prefix,       \* opts.PathPrefix
  marks         \* Node.Selection

picker == <<prefix, marks>>

FilterPaths(pre) == {f \in Listing : IsPrefix(pre, f)}

\* BuildTree: every ancestor of an offered path is a node, once.
BuildTree(paths) ==
  {<<>>} \union UNION {Prefixes(f) : f \in paths}

Tree        == BuildTree(FilterPaths(prefix))
Children(n) == {m \in Tree : Len(m) = Len(n) + 1 /\ IsPrefix(n, m)}
IsDir(n)    == n = <<>> \/ Children(n) # {}

Blank(pre) == [n \in BuildTree(FilterPaths(pre)) |-> "none"]

-----------------------------------------------------------------------------
(* Marking.                                                                *)

DeriveSelection(m, n) ==
  IF Children(n) = {} THEN m[n]
  ELSE IF \A c \in Children(n) : m[c] = "full" THEN "full"
  ELSE IF \A c \in Children(n) : m[c] = "none" THEN "none"
  ELSE "partial"

SetSelectionRecursive(n, target) ==
  [m \in Tree |-> IF IsPrefix(n, m) THEN target ELSE marks[m]]

\* Mutant: only the parent learns of the change.
UpdateParent(m, n) ==
  IF n = <<>> THEN m ELSE [m EXCEPT ![Front(n)] = DeriveSelection(m, Front(n))]

\* The ancestors of n, from its parent up to the root.
UpdateAncestors(m, n) ==
  LET Up[k \in 0 .. Len(n)] ==
        IF k = Len(n) THEN m
        ELSE LET above == SubSeq(n, 1, k)
             IN  [Up[k + 1] EXCEPT ![above] = DeriveSelection(Up[k + 1], above)]
  IN  Up[0]

ToggleSelection(n) ==
  LET target == IF marks[n] = "full" THEN "none" ELSE "full"
  IN  /\ marks' = UpdateAncestors(SetSelectionRecursive(n, target), n)
      /\ UNCHANGED prefix

-----------------------------------------------------------------------------
(* Compiling.  A restore path is one file or, as a pattern "dir/*",        *)
(* everything below a directory.                                           *)

PathsUnder(node, isDir) == [path |-> node, below |-> isDir]
Full                    == PathsUnder(<<>>, TRUE)

RestorePath == [path : BuildTree(Listing) \union PathPrefixes, below : BOOLEAN]

\* The files "duplicacy restore" takes for a path.
Matches(p) == {f \in Listing : IF p.below THEN IsStrictPrefix(p.path, f)
                                          ELSE f = p.path}

RestoreSelectionRoot(pre) ==
  PathsUnder(pre, pre \notin FilterPaths(pre))

\* The walk enters a directory only while its mark is partial.
CompileSelection ==
  IF marks[<<>>] = "full" THEN {RestoreSelectionRoot(prefix)}
  ELSE {PathsUnder(n, IsDir(n)) : n \in
          {m \in Tree : /\ marks[m] = "full"
                        /\ \A k \in 0 .. Len(m) - 1 :
                             marks[SubSeq(m, 1, k)] = "partial"}}

-----------------------------------------------------------------------------
\* What the operator sees as taken: the files marked full.
Taken == {f \in FilterPaths(prefix) : marks[f] = "full"}

PickerTypeOK ==
  /\ prefix \in PathPrefixes
  /\ marks \in [Tree -> {"none", "partial", "full"}]
=============================================================================
