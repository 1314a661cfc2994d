SPECIFICATION HandlerSpec
CONSTANTS
  Run = {r1}
  Storage = {s1}
  Asked <- AnyRequest
  Free = Free
  Signals = TRUE
  Kills = TRUE
CHECK_DEADLOCK FALSE
INVARIANTS
  SuccessIsTrue
PROPERTIES
  DryRunInert
  InterruptEnds
