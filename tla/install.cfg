SPECIFICATION Spec
CONSTANTS
  MaxVersion = 3
  Keep = {0, 1, 2}
  Session = {s1, s2}
  None = None
SYMMETRY SessionSymmetry
CONSTRAINT Calm
CHECK_DEADLOCK FALSE
INVARIANTS
  TypeOK
  ActiveRuns
PROPERTIES
  RollbackAsPlanned
  KeepsNewest
  UpdateKeepsFallback
