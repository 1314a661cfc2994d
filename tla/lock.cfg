SPECIFICATION Spec
CONSTANTS
  Proc = {p1, p2, p3}
  NoFile = NoFile
  Empty = Empty
  HasOwner = TRUE
SYMMETRY ProcSymmetry
INVARIANTS
  TypeOK
  SerialInv
PROPERTIES
  RefinesMutex
  InspectSound
  LiveHolderUndisturbed
