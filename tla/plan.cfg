SPECIFICATION Spec
CONSTANTS
  Storage = {"onsite", "offsite"}
  Files <- MCFiles
  SecretsFiles <- MCSecretsFiles
  Hosts <- MCHosts
  MaxEdits = 1
  MaxCommands = 2
CHECK_DEADLOCK FALSE
INVARIANTS
  PlanFits
  ValidatedIsPlanned
  RefusalIsTold
