CONSTANTS
  Policies <- MCPolicies
  MaxRevision = 2
  MaxAge = 3
  WarnAfter = 1
  FailAfter = 2
SPECIFICATION Spec
INVARIANTS
  VerifyExplained
PROPERTIES
  VerdictTruthful
  AlertsAsConfigured
  NotificationKeepsVerdict
