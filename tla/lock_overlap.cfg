SPECIFICATION Spec
CONSTANTS
  Proc = {p1, p2, p3}
  NoFile = NoFile
  Empty = Empty
  HasOwner = FALSE
SYMMETRY ProcSymmetry
INVARIANTS
  MutualExclusion
