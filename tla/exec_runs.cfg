SPECIFICATION Spec
CONSTANTS
  Run = {r1, r2}
  Storage = {s1, s2}
  Asked <- PairRequests
  Free = Free
  Signals = FALSE
  Kills = TRUE
CHECK_DEADLOCK FALSE
SYMMETRY Symmetry
INVARIANTS
  TypeOK
  UndisturbedExclusive
  BackupReadsSnapshot
  CreationSerialised
  DeletionSerialised
  CleanExit
  ExitMatchesRecord
  FailedBackupNotifies
PROPERTIES
  RefinesMutex
