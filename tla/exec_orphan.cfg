SPECIFICATION Spec
CONSTANTS
  Run = {r1, r2}
  Storage = {s1}
  Asked <- PairRequests
  Free = Free
  Signals = TRUE
  Kills = FALSE
CHECK_DEADLOCK FALSE
SYMMETRY Symmetry
INVARIANTS
  RepositoryExclusive
